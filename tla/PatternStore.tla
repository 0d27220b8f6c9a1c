---------------------------- MODULE PatternStore ----------------------------
(***************************************************************************)
(* How an edited pattern gets from RAM to the EEPROM and back: the page    *)
(* writer of twi_eeprom.c, the TWI driver that retries a transfer which    *)
(* the EEPROM refuses during its write cycle, and the places in            *)
(* sequencer.c and switches.c that save, load and copy patterns in the     *)
(* pattern edit and PATTERN CLEAR modes.                                   *)
(*                                                                         *)
(* A pattern takes two EEPROM pages.  The content of a page is known by    *)
(* the version of the pattern it belongs to: the slot it was made in and   *)
(* a running number.  One pass of the main loop is a gesture, perhaps the  *)
(* end of a measure, and at most one page written.  A transfer blocks the  *)
(* main loop, so it is one step; the write cycle that follows it is not.   *)
(***************************************************************************)
EXTENDS Integers

CONSTANTS
  NumBanks, NumPatterns,  \* NUM_BANKS and the patterns per bank
  MaxVersions,            \* bound on the versions made
  Gestures                \* the gestures this instance's user makes

ASSUME SizeAssumption ==
  NumBanks \in Nat \ {0} /\ NumPatterns \in Nat \ {0} /\ MaxVersions \in Nat

NUM_PAGES_PATTERN == 1                       \* whole pages; the rest is one more
PATTERN_PAGE_STOP_WRITING == NUM_PAGES_PATTERN + 1

Page    == 0..NUM_PAGES_PATTERN
Bank    == 0..(NumBanks - 1)
Pattern == 0..(NumPatterns - 1)
Slot    == Bank \X Pattern
Version == Slot \X (0..MaxVersions)
Data    == [Page -> Version]

VARIABLES
  seq,      \* the sequencer's globals: what plays, what is chosen, what is flagged
  buffer,   \* the pattern in RAM
  writer,   \* pattern_to_write and the globals of its page-by-page copy
  eeprom,   \* every slot's pages
  recall,   \* the slot that the recall data name
  cycle,    \* the EEPROM is in its write cycle and refuses transfers
  pc,       \* where the main loop is
  count,    \* versions made
  power     \* history: flips with every power cut

vars == <<seq, buffer, writer, eeprom, recall, cycle, pc, count, power>>

Here == <<seq.bank, seq.current_pattern>>

Whole(v) == [p \in Page |-> v]

-----------------------------------------------------------------------------
(* The page writer *)

Stopped(slot) ==
  [slot |-> slot, data |-> Whole(<<slot, 0>>),
   page |-> PATTERN_PAGE_STOP_WRITING, writing |-> -1]

\* start_write_current_pattern takes a snapshot.
StartWrite(slot, data) == [slot |-> slot, data |-> data, page |-> 0, writing |-> -1]

\* Mutants of HandleResult: an acknowledged page is not counted; every acknowledged
\* transfer counts as a page.
HandleResultUncounted(w, success) ==
  IF success THEN w ELSE [w EXCEPT !.page = PATTERN_PAGE_STOP_WRITING]

HandleResultAnyPage(w, success) ==
  [w EXCEPT !.page = IF success THEN @ + 1 ELSE PATTERN_PAGE_STOP_WRITING]

HandleResult(w, success) ==
  IF ~success THEN [w EXCEPT !.page = PATTERN_PAGE_STOP_WRITING]
  ELSE IF w.page = w.writing THEN [w EXCEPT !.page = @ + 1]
  ELSE w

\* The TWI interrupt reports a refused transfer and repeats it until it succeeds.
Transfer(w, refused) ==
  HandleResult(IF refused THEN HandleResult(w, FALSE) ELSE w, TRUE)

\* blocking_copy_active_pattern's two page writes pass through the same callback;
\* the second comes in the write cycle of the first.
BlockingTransfers(w) == Transfer(Transfer(w, cycle), TRUE)

Writing == writer.page <= NUM_PAGES_PATTERN

-----------------------------------------------------------------------------
(* The front panel *)

Gesture(name) == pc = "panel" /\ name \in Gestures /\ pc' = "measure"

\* Without the "race" gesture the player leaves the last write time to finish before a
\* gesture that causes a transfer (two passes of the loop and two write cycles of 5 ms),
\* no measure ends in the write cycle that a gesture has started, and a write has time
\* to finish before the next pattern's measure ends.
Unhurried == "race" \in Gestures \/ (~Writing /\ ~cycle)
Apart ==
  "race" \in Gestures \/ (~cycle /\ (Writing /\ seq.pattern_edit => writer.slot = Here))

Fresh(slot) == Whole(<<slot, count + 1>>)

MakeVersion(slot) ==
  /\ count < MaxVersions
  /\ count' = count + 1
  /\ buffer' = Fresh(slot)

\* eeprom_write_recall_data, once seq has its new value.
WriteRecall == recall' = <<seq'.bank, seq'.current_pattern>> /\ cycle' = TRUE

NoWrite == UNCHANGED <<writer, eeprom, recall, cycle>>

Idle ==
  /\ pc = "panel" /\ pc' = "measure"
  /\ UNCHANGED <<seq, buffer, count>> /\ NoWrite

\* A step edit while running; the pre-scale can be changed at any time.
Edit ==
  /\ Gesture("edit")
  /\ MakeVersion(Here)
  /\ seq' = [seq EXCEPT !.pattern_edit = TRUE]
  /\ NoWrite

Start ==
  /\ Gesture("start") /\ ~seq.START
  /\ seq' = [seq EXCEPT !.START = TRUE]
  /\ UNCHANGED <<buffer, count>> /\ NoWrite

\* Without the "stop_pending" gesture no change of pattern is pending at STOP:
\* process_stop takes the chosen pattern for the current one without reading it.
Stop ==
  /\ Gesture("start") /\ seq.START
  /\ seq.pattern_change => "stop_pending" \in Gestures
  /\ seq' = [seq EXCEPT !.START = FALSE,
                        !.current_pattern = seq.new_pattern,
                        !.pattern_change = FALSE]
  /\ UNCHANGED <<buffer, count>> /\ NoWrite

\* Running, SHIFT + ALT + step.
ChooseNext ==
  /\ Gesture("choose") /\ Unhurried /\ seq.START
  /\ \E p \in Pattern \ {seq.current_pattern} :
       seq' = [seq EXCEPT !.new_pattern = p, !.pattern_change = TRUE]
  /\ WriteRecall
  /\ UNCHANGED <<buffer, writer, eeprom, count>>

\* Mutant of ChooseBankRunning: nothing asks for the pattern of the new bank.
ChooseBankRunningUnflagged ==
  /\ Gesture("bank_running") /\ Unhurried /\ seq.START
  /\ \E b \in Bank \ {seq.bank} : seq' = [seq EXCEPT !.bank = b]
  /\ WriteRecall
  /\ UNCHANGED <<buffer, writer, eeprom, count>>

\* Running, ALT + step: the bank changes at once, the pattern at the end of the measure.
ChooseBankRunning ==
  /\ Gesture("bank_running") /\ Unhurried /\ seq.START
  /\ \E b \in Bank \ {seq.bank} :
       seq' = [seq EXCEPT !.bank = b, !.pattern_change = TRUE]
  /\ WriteRecall
  /\ UNCHANGED <<buffer, writer, eeprom, count>>

\* Mutant of ChooseBankStopped: the edit is not saved before the bank changes.
ChooseBankStoppedUnsaved ==
  /\ Gesture("bank") /\ Unhurried /\ ~seq.START
  /\ \E b \in Bank :
       /\ seq' = [seq EXCEPT !.bank = b, !.pattern_edit = FALSE]
       /\ buffer' = eeprom[<<b, seq.current_pattern>>]
       /\ writer' = IF seq.pattern_edit
                      THEN StartWrite(<<b, seq.current_pattern>>, buffer) ELSE writer
  /\ WriteRecall
  /\ UNCHANGED <<eeprom, count>>

\* Stopped, ALT + step: a pending edit is handed to the writer, then the pattern of
\* the chosen bank is read.  Without the "same_bank" gesture no edit is pending when
\* that is the bank already chosen: the read would come before the write.
ChooseBankStopped ==
  /\ Gesture("bank") /\ Unhurried /\ ~seq.START
  /\ \E b \in Bank :
       /\ seq.pattern_edit /\ b = seq.bank => "same_bank" \in Gestures
       /\ seq' = [seq EXCEPT !.bank = b, !.pattern_edit = FALSE]
       /\ buffer' = eeprom[<<b, seq.current_pattern>>]
       /\ recall' = <<b, seq.current_pattern>>
  /\ writer' = IF seq.pattern_edit THEN StartWrite(Here, buffer) ELSE writer
  /\ cycle' = FALSE
  /\ UNCHANGED <<eeprom, count>>

Choose(p) == seq' = [seq EXCEPT !.current_pattern = p, !.new_pattern = p]

\* Mutant of Load: the pattern is taken for the current one without being read.
LoadUnread ==
  /\ Gesture("load") /\ Unhurried /\ ~seq.START
  /\ \E p \in Pattern : Choose(p)
  /\ WriteRecall
  /\ UNCHANGED <<buffer, writer, eeprom, count>>

\* Stopped, step.
Load ==
  /\ Gesture("load") /\ Unhurried /\ ~seq.START
  /\ \E p \in Pattern : Choose(p) /\ buffer' = eeprom[<<seq.bank, p>>]
  /\ WriteRecall
  /\ UNCHANGED <<writer, eeprom, count>>

\* Stopped, CLEAR + step; the copy counts as a version of the slot it goes to.
Copy ==
  /\ Gesture("copy") /\ Unhurried /\ ~seq.START
  /\ \E p \in Pattern \ {seq.current_pattern} :
       /\ Choose(p)
       /\ MakeVersion(<<seq.bank, p>>)
       /\ eeprom' = [eeprom EXCEPT ![<<seq.bank, p>>] = Fresh(<<seq.bank, p>>)]
  /\ writer' = BlockingTransfers(writer)
  /\ WriteRecall

\* PATTERN CLEAR, and CLEAR + variation, which copies variation A: handed over at once.
Rewrite ==
  /\ Unhurried
  /\ MakeVersion(Here)
  /\ writer' = StartWrite(Here, buffer')
  /\ UNCHANGED <<seq, eeprom, recall, cycle>>

ClearPattern  == Gesture("clear") /\ Rewrite
CopyVariation == Gesture("copy_variation") /\ Rewrite

Panel ==
  \/ Idle \/ Edit \/ Start \/ Stop \/ ChooseNext \/ ChooseBankRunning
  \/ ChooseBankStopped \/ Load \/ Copy \/ ClearPattern \/ CopyVariation

-----------------------------------------------------------------------------
(* The rest of a pass *)

\* process_new_measure; at the end of the last part the chosen pattern is read.
MeasureEnds ==
  /\ pc = "measure" /\ pc' = "page"
  /\ seq.START /\ Apart
  /\ writer' = IF seq.pattern_edit THEN StartWrite(Here, buffer) ELSE writer
  /\ \E last_part \in BOOLEAN :
       LET turn == last_part /\ seq.pattern_change
           next == IF turn THEN seq.new_pattern ELSE seq.current_pattern
       IN  /\ seq' = [seq EXCEPT !.pattern_edit = FALSE,
                                 !.current_pattern = next,
                                 !.pattern_change = @ /\ ~turn]
           /\ buffer' = IF turn THEN eeprom[<<seq.bank, next>>] ELSE buffer
           /\ cycle' = (cycle /\ ~turn)
  /\ UNCHANGED <<eeprom, recall, count>>

MeasureGoesOn ==
  /\ pc = "measure" /\ pc' = "page"
  /\ UNCHANGED <<seq, buffer, count>> /\ NoWrite

\* Mutant of WriteNextPage: the page comes from RAM instead of the snapshot.
WriteNextPageLive ==
  /\ pc = "page" /\ pc' = "panel"
  /\ IF Writing /\ writer.page # writer.writing
       THEN /\ eeprom' = [eeprom EXCEPT ![writer.slot][writer.page] = buffer[writer.page]]
            /\ writer' = Transfer([writer EXCEPT !.writing = writer.page], cycle)
            /\ cycle' = TRUE
       ELSE UNCHANGED <<eeprom, writer, cycle>>
  /\ UNCHANGED <<seq, buffer, recall, count>>

WriteNextPage ==
  /\ pc = "page" /\ pc' = "panel"
  /\ IF Writing /\ writer.page # writer.writing
       THEN /\ eeprom' = [eeprom EXCEPT ![writer.slot][writer.page] = writer.data[writer.page]]
            /\ writer' = Transfer([writer EXCEPT !.writing = writer.page], cycle)
            /\ cycle' = TRUE
       ELSE UNCHANGED <<eeprom, writer, cycle>>
  /\ UNCHANGED <<seq, buffer, recall, count>>

CycleEnds ==
  /\ cycle /\ cycle' = FALSE
  /\ UNCHANGED <<seq, buffer, writer, eeprom, recall, pc, count, power>>

PowerOn(slot) ==
  [START |-> FALSE, bank |-> slot[1], current_pattern |-> slot[2], new_pattern |-> slot[2],
   pattern_change |-> FALSE, pattern_edit |-> FALSE]

\* The power fails, at any time, and returns: main reads the slot that is recalled.
PowerCut ==
  /\ "power_cut" \in Gestures
  /\ seq' = PowerOn(recall) /\ buffer' = eeprom[recall] /\ writer' = Stopped(recall)
  /\ cycle' = FALSE /\ pc' = "panel" /\ power' = ~power
  /\ UNCHANGED <<eeprom, recall, count>>

Init ==
  /\ eeprom = [s \in Slot |-> Whole(<<s, 0>>)]
  /\ recall \in Slot
  /\ seq = PowerOn(recall) /\ buffer = eeprom[recall] /\ writer = Stopped(recall)
  /\ cycle = FALSE /\ pc = "panel" /\ count = 0 /\ power = TRUE

MainLoop ==
  (Panel \/ MeasureEnds \/ MeasureGoesOn \/ WriteNextPage) /\ UNCHANGED power

Next == MainLoop \/ CycleEnds \/ PowerCut

Spec == Init /\ [][Next]_vars

\* The main loop keeps looping and a write cycle comes to its end.
FairSpec == Spec /\ WF_vars(MainLoop) /\ WF_vars(CycleEnds)

-----------------------------------------------------------------------------
(* Correctness *)

\* Every variable holds what its C type can hold.
TypeOK ==
  /\ seq \in [START : BOOLEAN, bank : Bank, current_pattern : Pattern,
              new_pattern : Pattern, pattern_change : BOOLEAN, pattern_edit : BOOLEAN]
  /\ buffer \in Data
  /\ writer \in [slot : Slot, data : Data, page : 0..PATTERN_PAGE_STOP_WRITING,
                 writing : -1..NUM_PAGES_PATTERN]
  /\ eeprom \in [Slot -> Data]
  /\ recall \in Slot
  /\ cycle \in BOOLEAN
  /\ pc \in {"panel", "measure", "page"}
  /\ count \in 0..MaxVersions
  /\ power \in BOOLEAN

\* A version never lands in another slot than the one it was made in: "if current
\* pattern has been edited need to write it to current bank before changing bank,
\* otherwise edited pattern will be written to new bank!" (sequencer.c:1218).
EditsLandInPlace == \A s \in Slot, p \in Page : eeprom[s][p][1] = s

\* With no edit flagged, the pattern in RAM is the one stored, or being stored, in
\* the slot that the front panel shows.
BufferShowsSlot ==
  ~seq.pattern_edit =>
    buffer = IF Writing /\ writer.slot = Here THEN writer.data ELSE eeprom[Here]

\* A bank or a pattern that was chosen while running is in RAM once the change is no
\* longer pending: the flag outlives every measure but the last part's.
ChosenIsLoaded == ~seq.pattern_change => BufferShowsSlot

\* Seen with a pending write as done, the store is the atomic bank of slots that the
\* player is promised: pages, retries and passes of the loop do not show, and a
\* power cut spoils at most the slot being written.
Promised == INSTANCE PatternBank WITH
  bank <- [s \in Slot |-> IF Writing /\ writer.slot = s THEN writer.data ELSE eeprom[s]],
  at <- Here
BankIsAtomic == Promised!Spec

\* A write that was started comes to its end.
WritesEnd == Writing ~> ~Writing
=============================================================================
