---------------------------- MODULE PatternBank ----------------------------
(***************************************************************************)
(* What the player is promised about patterns: a bank of slots, one of     *)
(* which is open in an edit buffer.  Saving, opening and copying are       *)
(* atomic; a power cut reopens a slot and may spoil one other's content.   *)
(***************************************************************************)
CONSTANTS Slot, Data

VARIABLES
  bank,    \* the content of every slot
  buffer,  \* the pattern being played and edited
  at,      \* the slot it belongs to
  power    \* flips with every power cut

Edit == buffer' \in Data /\ UNCHANGED <<bank, at, power>>

Save == bank' = [bank EXCEPT ![at] = buffer] /\ UNCHANGED <<buffer, at, power>>

EditAndSave ==
  \E d \in Data : /\ buffer' = d
                  /\ bank' = [bank EXCEPT ![at] = d]
                  /\ UNCHANGED <<at, power>>

Open ==
  \E s \in Slot : /\ at' = s
                  /\ buffer' = bank[s]
                  /\ UNCHANGED <<bank, power>>

SaveAndOpen ==
  \E s \in Slot : /\ at' = s
                  /\ bank' = [bank EXCEPT ![at] = buffer]
                  /\ buffer' = bank'[s]
                  /\ UNCHANGED power

CopyTo ==
  \E s \in Slot, d \in Data : /\ at' = s
                              /\ buffer' = d
                              /\ bank' = [bank EXCEPT ![s] = d]
                              /\ UNCHANGED power

PowerCut ==
  \E s, r \in Slot, d \in Data : /\ bank' = [bank EXCEPT ![s] = d]
                                 /\ at' = r
                                 /\ buffer' = bank'[r]
                                 /\ power' = ~power

Init ==
  bank \in [Slot -> Data] /\ at \in Slot /\ buffer = bank[at] /\ power \in BOOLEAN

Next == Edit \/ Save \/ EditAndSave \/ Open \/ SaveAndOpen \/ CopyTo \/ PowerCut

Spec == Init /\ [][Next]_<<bank, buffer, at, power>>
=============================================================================
