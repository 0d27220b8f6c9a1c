----------------------------- MODULE DataProofs -----------------------------
(***************************************************************************)
(* The parts of MCData that keep data, for any sizes.                      *)
(*                                                                         *)
(* PatternStore: versions land in the slots they were made in, and the     *)
(* store implements the atomic bank of slots, for every number of banks    *)
(* and patterns.  The properties speak of pages, slots and RAM; they are   *)
(* kept only because of when things happen: the panel waits for the        *)
(* writer, a first page never meets a write cycle, a change of pattern is  *)
(* pending only while running and then the pattern really is another one.  *)
(* Under fairness a write that was started comes to its end.               *)
(*                                                                         *)
(* StepBoard: the LEDs above the step buttons show the pattern, for any    *)
(* number of steps and instruments and any patterns in the EEPROM,         *)
(* whatever the bound on the hits.                                         *)
(***************************************************************************)
EXTENDS MCData, MidiProofs

-----------------------------------------------------------------------------
(* The pattern store: what the proofs keep *)

\* A change of pattern is pending while running and another pattern is chosen, only.
ChangeIsReal ==
  /\ seq.pattern_change => seq.START
  /\ seq.pattern_change <=> seq.new_pattern # seq.current_pattern

\* The RAM, the writer and every slot hold pages of versions made for them.
Placed ==
  /\ \A p \in Page : buffer[p][1] = Here
  /\ \A p \in Page : writer.data[p][1] = writer.slot
  /\ EditsLandInPlace

IInv == TypeOK /\ ChangeIsReal /\ Placed

\* The writer takes the pages in order, the first one outside a write cycle; and a
\* pattern is closed while it is being written only for another one.
WriterInStep ==
  /\ writer.writing < writer.page
  /\ writer.page = 0 => ~cycle
  /\ writer.page = 1 => eeprom[writer.slot][0] = writer.data[0]
  /\ Writing /\ seq.pattern_change => writer.slot = Here

\* The invariant of the refinement.
RInv == TypeOK /\ ChangeIsReal /\ WriterInStep /\ BufferShowsSlot

-----------------------------------------------------------------------------
(* Types *)

\* A pattern has two pages.
LEMMA Pages == Page = {0, 1} /\ 0 \in Page /\ 1 \in Page /\ PATTERN_PAGE_STOP_WRITING = 2
BY DEF Page, NUM_PAGES_PATTERN, PATTERN_PAGE_STOP_WRITING

\* The bound on the versions.
LEMMA BoundType == MaxVersions \in Nat /\ 0 \in 0..MaxVersions
BY SizeAssumption

Writers ==
  [slot : Slot, data : Data, page : 0..PATTERN_PAGE_STOP_WRITING, writing : -1..NUM_PAGES_PATTERN]

SeqType ==
  [START : BOOLEAN, bank : Bank, current_pattern : Pattern,
   new_pattern : Pattern, pattern_change : BOOLEAN, pattern_edit : BOOLEAN]

\* The parts of TypeOK by name, for the leaves that need one of them.
LEMMA Types ==
  TypeOK <=> /\ seq \in SeqType /\ buffer \in Data /\ writer \in Writers
             /\ eeprom \in [Slot -> Data] /\ recall \in Slot /\ cycle \in BOOLEAN
             /\ pc \in {"panel", "measure", "page"} /\ count \in 0..MaxVersions
             /\ power \in BOOLEAN
BY DEF TypeOK, SeqType, Writers

\* The invariant of the next state in its parts.
LEMMA TypesAfter ==
  TypeOK' <=> /\ seq' \in SeqType /\ buffer' \in Data /\ writer' \in Writers
              /\ eeprom' \in [Slot -> Data] /\ recall' \in Slot /\ cycle' \in BOOLEAN
              /\ pc' \in {"panel", "measure", "page"} /\ count' \in 0..MaxVersions
              /\ power' \in BOOLEAN
BY DEF TypeOK, SeqType, Writers

\* The RAM is about a slot,
LEMMA HereType == ASSUME TypeOK PROVE Here \in Slot
BY DEF TypeOK, Here, Slot

\* a version has two pages,
LEMMA WholeType == ASSUME NEW v \in Version PROVE Whole(v) \in Data
BY DEF Whole, Data

\* and version 0 is one.
LEMMA FirstVersion ==
  ASSUME NEW s \in Slot PROVE Whole(<<s, 0>>) \in Data /\ Stopped(s) \in Writers
<1>1. <<s, 0>> \in Version BY BoundType DEF Version
<1>2. Whole(<<s, 0>>) \in Data BY <1>1, WholeType
<1> QED BY <1>2, Pages DEF Stopped, Writers, NUM_PAGES_PATTERN

\* Starting the writer keeps the types.
LEMMA StartWriteType ==
  ASSUME NEW s \in Slot, NEW d \in Data PROVE StartWrite(s, d) \in Writers
BY Pages DEF StartWrite, Writers, NUM_PAGES_PATTERN

\* A transfer changes at most the page that is due.
LEMMA TransferType ==
  ASSUME NEW w \in Writers, NEW refused \in BOOLEAN
  PROVE  /\ Transfer(w, refused) \in Writers
         /\ Transfer(w, refused).slot = w.slot /\ Transfer(w, refused).data = w.data
<1>1. ASSUME NEW v \in Writers, NEW ok \in BOOLEAN
      PROVE  /\ HandleResult(v, ok) \in Writers
             /\ HandleResult(v, ok).slot = v.slot /\ HandleResult(v, ok).data = v.data
  BY Pages DEF HandleResult, Writers, NUM_PAGES_PATTERN
<1>2. CASE refused
  <2>1. HandleResult(w, FALSE) \in Writers BY <1>1
  <2> QED BY <1>1, <1>2, <2>1 DEF Transfer
<1>3. CASE ~refused
  BY <1>1, <1>3 DEF Transfer
<1> QED BY <1>2, <1>3

\* A fresh machine is typed.
LEMMA FreshType ==
  ASSUME TypeOK, count < MaxVersions, NEW s \in Slot
  PROVE  /\ Fresh(s) \in Data /\ count + 1 \in 0..MaxVersions
         /\ \A p \in Page : Fresh(s)[p][1] = s
<1>1. count + 1 \in 0..MaxVersions BY BoundType DEF TypeOK
<1>2. <<s, count + 1>> \in Version BY <1>1 DEF Version
<1> QED BY <1>1, <1>2, WholeType DEF Fresh, Whole

\* Power on keeps the types.
LEMMA PowerOnType ==
  ASSUME NEW s \in Slot
  PROVE  PowerOn(s) \in SeqType
BY DEF PowerOn, Slot, SeqType


\* The panel keeps the types.
LEMMA PanelType == ASSUME TypeOK, Panel, power' = power PROVE TypeOK'
<1> USE DEF Gesture, NoWrite
<1>0. /\ seq \in SeqType /\ buffer \in Data /\ writer \in Writers
      /\ eeprom \in [Slot -> Data] /\ recall \in Slot /\ cycle \in BOOLEAN
      /\ pc \in {"panel", "measure", "page"} /\ count \in 0..MaxVersions
      /\ Here \in Slot /\ power' \in BOOLEAN
  BY Types, HereType
<1>1. pc' = "measure"
  BY DEF Panel, Idle, Edit, Start, Stop, ChooseNext, ChooseBankRunning, ChooseBankStopped,
         Load, Copy, ClearPattern, CopyVariation
<1>2. CASE Idle
  BY <1>0, <1>2, <1>1, TypesAfter DEF Idle
<1>3. CASE Edit
  <2>1. buffer' \in Data /\ count' \in 0..MaxVersions
    BY <1>0, <1>3, FreshType DEF Edit, MakeVersion
  <2>2. seq' \in SeqType BY <1>0, <1>3 DEF Edit, SeqType
  <2> QED BY <1>0, <1>1, <1>3, <2>1, <2>2, TypesAfter DEF Edit
<1>4. CASE Start
  <2>1. seq' \in SeqType BY <1>0, <1>4 DEF Start, SeqType
  <2> QED BY <1>0, <1>1, <1>4, <2>1, TypesAfter DEF Start
<1>5. CASE Stop
  <2>1. seq' \in SeqType BY <1>0, <1>5 DEF Stop, SeqType
  <2> QED BY <1>0, <1>1, <1>5, <2>1, TypesAfter DEF Stop
<1>6. CASE ChooseNext
  <2>1. seq' \in SeqType BY <1>0, <1>6 DEF ChooseNext, SeqType
  <2>2. recall' \in Slot BY <2>1, <1>6 DEF ChooseNext, WriteRecall, Slot, SeqType
  <2> QED BY <1>0, <1>1, <1>6, <2>1, <2>2, TypesAfter DEF ChooseNext, WriteRecall
<1>7. CASE ChooseBankRunning
  <2>1. seq' \in SeqType BY <1>0, <1>7 DEF ChooseBankRunning, SeqType
  <2>2. recall' \in Slot BY <2>1, <1>7 DEF ChooseBankRunning, WriteRecall, Slot, SeqType
  <2> QED BY <1>0, <1>1, <1>7, <2>1, <2>2, TypesAfter DEF ChooseBankRunning, WriteRecall
<1>8. CASE ChooseBankStopped
  <2>1. PICK b \in Bank : /\ seq' = [seq EXCEPT !.bank = b, !.pattern_edit = FALSE]
                          /\ buffer' = eeprom[<<b, seq.current_pattern>>]
                          /\ recall' = <<b, seq.current_pattern>>
    BY <1>8 DEF ChooseBankStopped
  <2>2. seq' \in SeqType BY <1>0, <2>1 DEF SeqType
  <2>3. <<b, seq.current_pattern>> \in Slot BY <1>0 DEF Slot, SeqType
  <2>4. writer' \in Writers BY <1>0, <1>8, StartWriteType DEF ChooseBankStopped
  <2> QED BY <1>0, <1>1, <1>8, <2>1, <2>2, <2>3, <2>4, TypesAfter DEF ChooseBankStopped
<1>9. CASE Load
  <2>1. PICK p \in Pattern : Choose(p) /\ buffer' = eeprom[<<seq.bank, p>>]
    BY <1>9 DEF Load
  <2>2. seq' \in SeqType BY <1>0, <2>1 DEF Choose, SeqType
  <2>3. <<seq.bank, p>> \in Slot BY <1>0 DEF Slot, SeqType
  <2>4. recall' \in Slot BY <2>2, <1>9 DEF Load, WriteRecall, Slot, SeqType
  <2> QED BY <1>0, <1>1, <1>9, <2>1, <2>2, <2>3, <2>4, TypesAfter DEF Load, WriteRecall
<1>10. CASE Copy
  <2>1. PICK p \in Pattern :
          /\ Choose(p)
          /\ MakeVersion(<<seq.bank, p>>)
          /\ eeprom' = [eeprom EXCEPT ![<<seq.bank, p>>] = Fresh(<<seq.bank, p>>)]
    BY <1>10 DEF Copy
  <2>2. seq' \in SeqType BY <1>0, <2>1 DEF Choose, SeqType
  <2>3. <<seq.bank, p>> \in Slot BY <1>0 DEF Slot, SeqType
  <2>4. Fresh(<<seq.bank, p>>) \in Data /\ count' \in 0..MaxVersions
    BY <2>1, <2>3, FreshType DEF MakeVersion
  <2>5. recall' \in Slot BY <2>2, <1>10 DEF Copy, WriteRecall, Slot, SeqType
  <2>6. writer' \in Writers BY <1>0, <1>10, TransferType DEF Copy, BlockingTransfers
  <2> QED
    BY <1>0, <1>1, <1>10, <2>1, <2>2, <2>3, <2>4, <2>5, <2>6, TypesAfter
    DEF Copy, WriteRecall, MakeVersion
<1>11. CASE ClearPattern \/ CopyVariation
  <2>1. Rewrite BY <1>11 DEF ClearPattern, CopyVariation
  <2>2. buffer' \in Data /\ count' \in 0..MaxVersions
    BY <1>0, <2>1, FreshType DEF Rewrite, MakeVersion
  <2>3. writer' \in Writers BY <1>0, <2>1, <2>2, StartWriteType DEF Rewrite
  <2> QED BY <1>0, <1>1, <2>1, <2>2, <2>3, TypesAfter DEF Rewrite
<1> QED
  BY <1>2, <1>3, <1>4, <1>5, <1>6, <1>7, <1>8, <1>9, <1>10, <1>11 DEF Panel

\* At power-up the types hold.
LEMMA StoreStart == Init => TypeOK
<1> SUFFICES ASSUME Init PROVE TypeOK
  OBVIOUS
<1>1. recall \in Slot /\ eeprom = [s \in Slot |-> Whole(<<s, 0>>)] BY DEF Init
<1>2. eeprom \in [Slot -> Data] BY <1>1, FirstVersion
<1>3. seq \in SeqType /\ buffer \in Data /\ writer \in Writers
  BY <1>1, <1>2, PowerOnType, FirstVersion DEF Init
<1> QED BY <1>1, <1>2, <1>3, Types, BoundType DEF Init

\* Every step of the store keeps them.
LEMMA StoreTypeStep == TypeOK /\ [Next]_vars => TypeOK'
<1> SUFFICES ASSUME TypeOK, [Next]_vars PROVE TypeOK'
  OBVIOUS
<1>0. /\ seq \in SeqType /\ buffer \in Data /\ writer \in Writers
      /\ eeprom \in [Slot -> Data] /\ recall \in Slot /\ cycle \in BOOLEAN
      /\ pc \in {"panel", "measure", "page"} /\ count \in 0..MaxVersions
      /\ Here \in Slot /\ power \in BOOLEAN
  BY Types, HereType
<1>00. (PowerCut \/ power' = power) /\ power' \in BOOLEAN
  BY <1>0 DEF Next, MainLoop, CycleEnds, PowerCut, vars
<1>1. CASE Panel
  <2>1. CASE PowerCut
    BY <1>0, <1>00, <2>1, PowerOnType, FirstVersion, TypesAfter DEF PowerCut
  <2> QED BY <1>1, <1>00, <2>1, PanelType
<1>2. CASE MeasureEnds
  <2>1. PICK last_part \in BOOLEAN :
          LET turn == last_part /\ seq.pattern_change
              next == IF turn THEN seq.new_pattern ELSE seq.current_pattern
          IN  /\ seq' = [seq EXCEPT !.pattern_edit = FALSE,
                                    !.current_pattern = next,
                                    !.pattern_change = @ /\ ~turn]
              /\ buffer' = IF turn THEN eeprom[<<seq.bank, next>>] ELSE buffer
              /\ cycle' = (cycle /\ ~turn)
    BY <1>2 DEF MeasureEnds
  <2>2. <<seq.bank, seq.new_pattern>> \in Slot BY <1>0 DEF Slot, SeqType
  <2>3. seq' \in SeqType BY <1>0, <2>1 DEF SeqType
  <2>4. buffer' \in Data BY <1>0, <2>1, <2>2
  <2>5. writer' \in Writers BY <1>0, <1>2, StartWriteType DEF MeasureEnds
  <2>6. cycle' \in BOOLEAN BY <1>0, <2>1
  <2> QED BY <1>0, <1>2, <2>3, <2>4, <2>5, <2>6, <1>00, TypesAfter DEF MeasureEnds
<1>3. CASE MeasureGoesOn
  BY <1>0, <1>3, <1>00, TypesAfter DEF MeasureGoesOn, NoWrite
<1>4. CASE WriteNextPage
  <2>1. CASE Writing /\ writer.page # writer.writing
    <3>1. writer.page \in Page BY <1>0, <2>1 DEF Writing, Writers, Page, NUM_PAGES_PATTERN
    <3>2. [writer EXCEPT !.writing = writer.page] \in Writers
      BY <1>0, <3>1 DEF Writers, Page, NUM_PAGES_PATTERN
    <3>3. writer' \in Writers BY <1>0, <1>4, <2>1, <3>2, TransferType DEF WriteNextPage
    <3>4. writer.slot \in Slot /\ writer.data \in Data BY <1>0 DEF Writers
    <3>5. writer.data[writer.page] \in Version BY <3>1, <3>4 DEF Data
    <3>6. [eeprom[writer.slot] EXCEPT ![writer.page] = writer.data[writer.page]] \in Data
      BY <1>0, <3>4, <3>5 DEF Data
    <3>7. eeprom' \in [Slot -> Data]
      BY <1>0, <1>4, <2>1, <3>4, <3>6 DEF WriteNextPage
    <3> QED BY <1>0, <1>4, <2>1, <3>3, <3>7, <1>00, TypesAfter DEF WriteNextPage
  <2>2. CASE ~(Writing /\ writer.page # writer.writing)
    BY <1>0, <1>4, <2>2, <1>00, TypesAfter DEF WriteNextPage
  <2> QED BY <2>1, <2>2
<1>5. CASE CycleEnds
  BY <1>0, <1>5, <1>00, TypesAfter DEF CycleEnds
<1>6. CASE PowerCut
  BY <1>0, <1>6, PowerOnType, FirstVersion, <1>00, TypesAfter DEF PowerCut
<1>7. CASE UNCHANGED vars
  BY <1>0, <1>7, <1>00, TypesAfter DEF vars
<1> QED
  BY <1>1, <1>2, <1>3, <1>4, <1>5, <1>6, <1>7 DEF Next, MainLoop

\* Every variable of the store keeps the width of its C type.
THEOREM TypeCorrect == Spec => []TypeOK
BY StoreStart, StoreTypeStep, PTL DEF Spec

-----------------------------------------------------------------------------
(* Versions stay in place *)

\* A slot is a pair of bank and pattern.
LEMMA PairOf == ASSUME NEW s \in Slot PROVE s = <<s[1], s[2]>>
BY DEF Slot

\* The panel puts every version where it was made.
LEMMA PanelPlaced ==
  ASSUME IInv, Panel, "bank_running" \notin Gestures, "stop_pending" \notin Gestures
  PROVE  ChangeIsReal' /\ Placed'
<1> USE DEF IInv, Gesture, NoWrite
<1>0. /\ seq \in SeqType /\ buffer \in Data /\ writer \in Writers
      /\ eeprom \in [Slot -> Data] /\ recall \in Slot /\ cycle \in BOOLEAN
      /\ Here \in Slot /\ TypeOK
  BY Types, HereType
<1>1. CASE Idle
  BY <1>1 DEF Idle, ChangeIsReal, Placed, EditsLandInPlace, Here
<1>2. CASE Edit
  <2>1. Here' = Here /\ ChangeIsReal' BY <1>0, <1>2 DEF Edit, Here, SeqType, ChangeIsReal
  <2>2. \A p \in Page : buffer'[p][1] = Here BY <1>0, <1>2, FreshType DEF Edit, MakeVersion
  <2> QED BY <1>2, <2>1, <2>2 DEF Edit, Placed, EditsLandInPlace
<1>3. CASE Start
  <2>1. Here' = Here /\ ChangeIsReal' BY <1>0, <1>3 DEF Start, Here, SeqType, ChangeIsReal
  <2> QED BY <1>3, <2>1 DEF Start, Placed, EditsLandInPlace
<1>4. CASE Stop
  <2>1. seq.new_pattern = seq.current_pattern BY <1>4 DEF Stop, ChangeIsReal
  <2>2. Here' = Here /\ ChangeIsReal'
    BY <1>0, <1>4, <2>1 DEF Stop, Here, SeqType, ChangeIsReal
  <2> QED BY <1>4, <2>2 DEF Stop, Placed, EditsLandInPlace
<1>5. CASE ChooseNext
  <2>1. Here' = Here /\ ChangeIsReal'
    BY <1>0, <1>5 DEF ChooseNext, Here, SeqType, ChangeIsReal
  <2> QED BY <1>5, <2>1 DEF ChooseNext, WriteRecall, Placed, EditsLandInPlace
<1>6. CASE ChooseBankStopped
  <2>1. PICK b \in Bank : /\ seq' = [seq EXCEPT !.bank = b, !.pattern_edit = FALSE]
                          /\ buffer' = eeprom[<<b, seq.current_pattern>>]
    BY <1>6 DEF ChooseBankStopped
  <2>2. Here' = <<b, seq.current_pattern>> /\ Here' \in Slot /\ ChangeIsReal'
    BY <1>0, <2>1 DEF Here, SeqType, ChangeIsReal, Slot
  <2>3. \A p \in Page : buffer'[p][1] = Here' BY <2>1, <2>2 DEF Placed, EditsLandInPlace
  <2>4. \A p \in Page : writer'.data[p][1] = writer'.slot
    BY <1>6 DEF ChooseBankStopped, Placed, StartWrite
  <2> QED BY <1>6, <2>2, <2>3, <2>4 DEF ChooseBankStopped, Placed, EditsLandInPlace
<1>7. CASE Load
  <2>1. PICK p \in Pattern : Choose(p) /\ buffer' = eeprom[<<seq.bank, p>>]
    BY <1>7 DEF Load
  <2>2. Here' = <<seq.bank, p>> /\ Here' \in Slot /\ ChangeIsReal'
    BY <1>0, <1>7, <2>1 DEF Load, Choose, Here, SeqType, ChangeIsReal, Slot
  <2>3. \A q \in Page : buffer'[q][1] = Here' BY <2>1, <2>2 DEF Placed, EditsLandInPlace
  <2> QED BY <1>7, <2>2, <2>3 DEF Load, WriteRecall, Placed, EditsLandInPlace
<1>8. CASE Copy
  <2>1. PICK p \in Pattern :
          /\ Choose(p)
          /\ MakeVersion(<<seq.bank, p>>)
          /\ eeprom' = [eeprom EXCEPT ![<<seq.bank, p>>] = Fresh(<<seq.bank, p>>)]
    BY <1>8 DEF Copy
  <2>2. Here' = <<seq.bank, p>> /\ Here' \in Slot /\ ChangeIsReal'
    BY <1>0, <1>8, <2>1 DEF Copy, Choose, Here, SeqType, ChangeIsReal, Slot
  <2>3. buffer' = Fresh(Here') /\ \A q \in Page : Fresh(Here')[q][1] = Here'
    BY <1>0, <2>1, <2>2, FreshType DEF MakeVersion
  <2>4. EditsLandInPlace'
    BY <1>0, <2>1, <2>2, <2>3 DEF Placed, EditsLandInPlace
  <2>5. writer'.data = writer.data /\ writer'.slot = writer.slot
    <3>1. /\ Transfer(writer, cycle) \in Writers
          /\ Transfer(writer, cycle).slot = writer.slot
          /\ Transfer(writer, cycle).data = writer.data
      BY <1>0, TransferType
    <3> QED BY <1>8, <3>1, TransferType DEF Copy, BlockingTransfers
  <2> QED BY <1>0, <2>2, <2>3, <2>4, <2>5 DEF Placed
<1>9. CASE ClearPattern \/ CopyVariation
  <2>1. Rewrite BY <1>9 DEF ClearPattern, CopyVariation
  <2>2. Here' = Here /\ ChangeIsReal' BY <2>1 DEF Rewrite, Here, ChangeIsReal
  <2>3. \A p \in Page : buffer'[p][1] = Here
    BY <1>0, <2>1, FreshType DEF Rewrite, MakeVersion
  <2>4. \A p \in Page : writer'.data[p][1] = writer'.slot BY <2>1, <2>3 DEF Rewrite, StartWrite
  <2> QED BY <2>1, <2>2, <2>3, <2>4 DEF Rewrite, Placed, EditsLandInPlace
<1>10. CASE ChooseBankRunning
  BY <1>10 DEF ChooseBankRunning
<1> QED
  BY <1>1, <1>2, <1>3, <1>4, <1>5, <1>6, <1>7, <1>8, <1>9, <1>10 DEF Panel

\* The end of a measure: what is chosen, what is flagged and what is in RAM.
LEMMA MeasureTurns ==
  ASSUME TypeOK, ChangeIsReal, MeasureEnds
  PROVE  /\ ChangeIsReal' /\ Here' \in Slot /\ ~seq'.pattern_edit
         /\ \/ /\ Here' = Here /\ buffer' = buffer /\ cycle' = cycle
               /\ seq'.pattern_change = seq.pattern_change
            \/ /\ seq.pattern_change /\ Here' # Here /\ buffer' = eeprom[Here']
               /\ ~seq'.pattern_change /\ cycle' = FALSE
<1>0. seq \in SeqType /\ cycle \in BOOLEAN BY Types
<1>1. PICK last_part \in BOOLEAN :
        LET turn == last_part /\ seq.pattern_change
            next == IF turn THEN seq.new_pattern ELSE seq.current_pattern
        IN  /\ seq' = [seq EXCEPT !.pattern_edit = FALSE,
                                  !.current_pattern = next,
                                  !.pattern_change = @ /\ ~turn]
            /\ buffer' = IF turn THEN eeprom[<<seq.bank, next>>] ELSE buffer
            /\ cycle' = (cycle /\ ~turn)
  BY DEF MeasureEnds
<1>2. CASE last_part /\ seq.pattern_change
  <2>1. seq' = [seq EXCEPT !.pattern_edit = FALSE, !.current_pattern = seq.new_pattern,
                           !.pattern_change = FALSE]
    BY <1>0, <1>1, <1>2 DEF SeqType
  <2>2. buffer' = eeprom[<<seq.bank, seq.new_pattern>>] /\ cycle' = FALSE
    BY <1>0, <1>1, <1>2
  <2> QED BY <1>0, <1>2, <2>1, <2>2 DEF SeqType, ChangeIsReal, Here, Slot
<1>3. CASE ~(last_part /\ seq.pattern_change)
  <2>1. seq' = [seq EXCEPT !.pattern_edit = FALSE]
    BY <1>0, <1>1, <1>3 DEF SeqType
  <2>2. buffer' = buffer /\ cycle' = cycle BY <1>0, <1>1, <1>3
  <2> QED BY <1>0, <2>1, <2>2 DEF SeqType, ChangeIsReal, Here, Slot
<1> QED BY <1>2, <1>3

\* So does the rest of the machine.
LEMMA Placing ==
  ASSUME IInv, [Next]_vars, "bank_running" \notin Gestures, "stop_pending" \notin Gestures
  PROVE  ChangeIsReal' /\ Placed'
<1>0. /\ seq \in SeqType /\ buffer \in Data /\ writer \in Writers
      /\ eeprom \in [Slot -> Data] /\ recall \in Slot /\ cycle \in BOOLEAN
      /\ Here \in Slot /\ TypeOK /\ ChangeIsReal /\ Placed
  BY Types, HereType DEF IInv
<1>1. CASE Panel
  BY <1>1, PanelPlaced
<1>2. CASE MeasureEnds
  <2>1. ChangeIsReal' /\ Here' \in Slot BY <1>0, <1>2, MeasureTurns
  <2>2. (Here' = Here /\ buffer' = buffer) \/ buffer' = eeprom[Here']
    BY <1>0, <1>2, MeasureTurns
  <2>3. \A p \in Page : buffer'[p][1] = Here'
    BY <1>0, <2>1, <2>2 DEF Placed, EditsLandInPlace
  <2>4. \A p \in Page : writer'.data[p][1] = writer'.slot
    BY <1>0, <1>2 DEF MeasureEnds, Placed, StartWrite
  <2> QED BY <1>0, <1>2, <2>1, <2>3, <2>4 DEF MeasureEnds, Placed, EditsLandInPlace
<1>3. CASE MeasureGoesOn
  BY <1>0, <1>3 DEF MeasureGoesOn, NoWrite, ChangeIsReal, Placed, EditsLandInPlace, Here
<1>4. CASE WriteNextPage
  <2>1. ChangeIsReal' /\ Here' = Here /\ buffer' = buffer
    BY <1>0, <1>4 DEF WriteNextPage, ChangeIsReal, Here
  <2>2. CASE Writing /\ writer.page # writer.writing
    <3>1. writer.page \in Page BY <1>0, <2>2 DEF Writing, Writers, Page, NUM_PAGES_PATTERN
    <3>2. [writer EXCEPT !.writing = writer.page] \in Writers
      BY <1>0, <3>1 DEF Writers, Page, NUM_PAGES_PATTERN
    <3>3. writer'.slot = writer.slot /\ writer'.data = writer.data
      BY <1>0, <1>4, <2>2, <3>2, TransferType DEF WriteNextPage, Writers
    <3>4. writer.data[writer.page][1] = writer.slot BY <1>0, <3>1 DEF Placed
    <3>5. eeprom' = [eeprom EXCEPT ![writer.slot][writer.page] = writer.data[writer.page]]
      BY <1>4, <2>2 DEF WriteNextPage
    <3>6. EditsLandInPlace'
      <4> SUFFICES ASSUME NEW s \in Slot, NEW p \in Page PROVE eeprom'[s][p][1] = s
        BY DEF EditsLandInPlace
      <4>1. eeprom[s] \in Data BY <1>0
      <4>2. CASE s = writer.slot /\ p = writer.page
        BY <1>0, <3>4, <3>5, <4>1, <4>2 DEF Data
      <4>3. CASE ~(s = writer.slot /\ p = writer.page)
        <5>1. eeprom'[s][p] = eeprom[s][p] BY <1>0, <3>5, <4>1, <4>3 DEF Data
        <5> QED BY <1>0, <5>1 DEF Placed, EditsLandInPlace
      <4> QED BY <4>2, <4>3
    <3> QED BY <1>0, <2>1, <3>3, <3>6 DEF Placed
  <2>3. CASE ~(Writing /\ writer.page # writer.writing)
    BY <1>0, <1>4, <2>1, <2>3 DEF WriteNextPage, Placed, EditsLandInPlace
  <2> QED BY <2>2, <2>3
<1>5. CASE CycleEnds
  BY <1>0, <1>5 DEF CycleEnds, ChangeIsReal, Placed, EditsLandInPlace, Here
<1>6. CASE PowerCut
  <2>1. Here' = recall /\ ChangeIsReal'
    BY <1>0, <1>6, PairOf DEF PowerCut, PowerOn, Here, ChangeIsReal
  <2>2. \A p \in Page : writer'.data[p][1] = writer'.slot
    BY <1>6 DEF PowerCut, Stopped, Whole
  <2> QED BY <1>0, <1>6, <2>1, <2>2 DEF PowerCut, Placed, EditsLandInPlace
<1>7. CASE UNCHANGED vars
  BY <1>0, <1>7 DEF vars, ChangeIsReal, Placed, EditsLandInPlace, Here
<1> QED
  BY <1>1, <1>2, <1>3, <1>4, <1>5, <1>6, <1>7 DEF Next, MainLoop

\* At first no change of pattern is pending.
LEMMA InitChange == Init => ChangeIsReal /\ Here = recall
BY PairOf DEF Init, ChangeIsReal, PowerOn, Here

\* A version never lands in a slot other than its own, unless the player turns to
\* another bank while running or stops with a change pending: "otherwise edited pattern
\* will be written to new bank!" (sequencer.c:1218), whatever the writer, the measures
\* and a power cut do in between.
THEOREM EditsStayInPlace ==
  ASSUME "bank_running" \notin Gestures, "stop_pending" \notin Gestures
  PROVE  Spec => []EditsLandInPlace
<1>1. Init => ChangeIsReal /\ Placed
  BY InitChange DEF Init, Placed, EditsLandInPlace, Stopped, Whole
<1>2. TypeOK /\ (ChangeIsReal /\ Placed) /\ [Next]_vars => (ChangeIsReal /\ Placed)'
  BY Placing DEF IInv
<1>3. ChangeIsReal /\ Placed => EditsLandInPlace BY DEF Placed
<1> QED BY <1>1, <1>2, <1>3, TypeCorrect, PTL DEF Spec

-----------------------------------------------------------------------------
(* The store is an atomic bank of slots *)

\* The bank as the refinement sees it: a pending write counts as done.
Visible == [s \in Slot |-> IF Writing /\ writer.slot = s THEN writer.data ELSE eeprom[s]]

\* What the bank shows is typed.
LEMMA ShownType == ASSUME TypeOK PROVE Visible \in [Slot -> Data]
BY DEF TypeOK, Visible

\* The steps of the abstract bank, in terms of what is shown.
LEMMA BankSteps ==
  ASSUME \/ /\ Visible' = Visible /\ buffer' = buffer /\ Here' = Here
         \/ /\ Visible' = Visible /\ buffer' \in Data /\ Here' = Here
         \/ /\ Visible' = [Visible EXCEPT ![Here] = buffer] /\ buffer' = buffer /\ Here' = Here
         \/ /\ buffer' \in Data /\ Visible' = [Visible EXCEPT ![Here] = buffer'] /\ Here' = Here
         \/ /\ Here' \in Slot /\ buffer' = Visible[Here'] /\ Visible' = Visible
         \/ /\ Here' \in Slot /\ Visible' = [Visible EXCEPT ![Here] = buffer]
            /\ buffer' = Visible'[Here']
         \/ /\ Here' \in Slot /\ buffer' \in Data
            /\ Visible' = [Visible EXCEPT ![Here'] = buffer'],
         power' = power
  PROVE  [Promised!Next]_<<Visible, buffer, Here, power>>
BY DEF Promised!Next, Promised!Edit, Promised!Save, Promised!EditAndSave, Promised!Open,
       Promised!SaveAndOpen, Promised!CopyTo, Visible

\* The gestures that the refinement leaves out.
Orderly ==
  /\ "bank_running" \notin Gestures /\ "stop_pending" \notin Gestures
  /\ "same_bank" \notin Gestures /\ "race" \notin Gestures

\* With no write pending, what is shown is what is stored.
LEMMA AtRest == ASSUME TypeOK, ~Writing PROVE Visible = eeprom
BY DEF TypeOK, Visible

\* Handing data to the writer while no other slot waits for it shows as a save.
LEMMA WriteShows ==
  ASSUME TypeOK, NEW d \in Data, writer' = StartWrite(Here, d), eeprom' = eeprom,
         Writing => writer.slot = Here
  PROVE  Visible' = [Visible EXCEPT ![Here] = d] /\ Writing'
<1>1. Here \in Slot /\ eeprom \in [Slot -> Data] BY Types, HereType
<1>2. Writing' /\ writer'.slot = Here /\ writer'.data = d
  BY DEF StartWrite, Writing, NUM_PAGES_PATTERN
<1> QED BY <1>1, <1>2 DEF Visible

\* What the panel does is a step of the bank.
LEMMA PanelStep ==
  ASSUME RInv, Panel, Orderly, power' = power
  PROVE  /\ ChangeIsReal' /\ WriterInStep' /\ BufferShowsSlot'
         /\ [Promised!Next]_<<Visible, buffer, Here, power>>
<1> USE DEF RInv, Gesture, NoWrite
<1>0. /\ seq \in SeqType /\ buffer \in Data /\ writer \in Writers
      /\ eeprom \in [Slot -> Data] /\ recall \in Slot /\ cycle \in BOOLEAN
      /\ Here \in Slot /\ TypeOK
  BY Types, HereType
<1>1. CASE Idle
  BY <1>1, BankSteps
  DEF Idle, ChangeIsReal, WriterInStep, BufferShowsSlot, Visible, Here, Writing
<1>2. CASE Edit
  <2>1. Here' = Here /\ ChangeIsReal' /\ seq'.pattern_edit
        /\ seq'.pattern_change = seq.pattern_change
    BY <1>0, <1>2 DEF Edit, Here, SeqType, ChangeIsReal
  <2>2. buffer' \in Data BY <1>0, <1>2, FreshType DEF Edit, MakeVersion
  <2>3. Visible' = Visible /\ WriterInStep'
    BY <1>2, <2>1 DEF Edit, Visible, Writing, WriterInStep
  <2> QED BY <2>1, <2>2, <2>3, BankSteps DEF BufferShowsSlot
<1>3. CASE Start \/ Stop
  <2>1. Here' = Here /\ ChangeIsReal' /\ seq'.pattern_edit = seq.pattern_edit
        /\ (seq'.pattern_change => seq.pattern_change)
    BY <1>0, <1>3 DEF Start, Stop, Here, SeqType, ChangeIsReal, Orderly
  <2>2. writer' = writer /\ eeprom' = eeprom /\ buffer' = buffer /\ cycle' = cycle
    BY <1>3 DEF Start, Stop
  <2>3. Visible' = Visible /\ Writing' = Writing /\ WriterInStep'
    BY <2>1, <2>2 DEF Visible, Writing, WriterInStep
  <2> QED BY <2>1, <2>2, <2>3, BankSteps DEF BufferShowsSlot
<1>4. ASSUME ~(Idle \/ Edit \/ Start \/ Stop) PROVE ~Writing /\ ~cycle
  BY <1>4 DEF Panel, ChooseNext, ChooseBankRunning, ChooseBankStopped, Load, Copy,
         ClearPattern, CopyVariation, Rewrite, Unhurried, Orderly
<1> SUFFICES ASSUME ~(Idle \/ Edit \/ Start \/ Stop)
             PROVE  ChangeIsReal' /\ WriterInStep' /\ BufferShowsSlot'
                    /\ [Promised!Next]_<<Visible, buffer, Here, power>>
  BY <1>1, <1>2, <1>3
<1>5. ~Writing /\ ~cycle /\ writer.page = 2 /\ Visible = eeprom
  BY <1>0, <1>4, AtRest DEF Writing, Writers, NUM_PAGES_PATTERN, PATTERN_PAGE_STOP_WRITING
<1>6. ASSUME writer' = writer
      PROVE  WriterInStep' /\ ~Writing' /\ Visible' = [s \in Slot |-> eeprom'[s]]
  BY <1>5, <1>6 DEF WriterInStep, Writing, Visible
<1>7. CASE ChooseNext
  <2>1. Here' = Here /\ ChangeIsReal' /\ seq'.pattern_edit = seq.pattern_edit
    BY <1>0, <1>7 DEF ChooseNext, Here, SeqType, ChangeIsReal
  <2>2. writer' = writer /\ eeprom' = eeprom /\ buffer' = buffer
    BY <1>7 DEF ChooseNext, WriteRecall
  <2>3. Visible' = Visible BY <1>0, <1>5, <1>6, <2>2
  <2> QED BY <1>5, <1>6, <2>1, <2>2, <2>3, BankSteps DEF BufferShowsSlot
<1>8. CASE Load
  <2>1. PICK p \in Pattern : Choose(p) /\ buffer' = eeprom[<<seq.bank, p>>]
    BY <1>8 DEF Load
  <2>2. Here' = <<seq.bank, p>> /\ Here' \in Slot /\ ChangeIsReal'
    BY <1>0, <1>8, <2>1 DEF Load, Choose, Here, SeqType, ChangeIsReal, Slot
  <2>3. writer' = writer /\ eeprom' = eeprom BY <1>8 DEF Load, WriteRecall
  <2>4. Visible' = Visible BY <1>0, <1>5, <1>6, <2>3
  <2> QED BY <1>5, <1>6, <2>1, <2>2, <2>3, <2>4, BankSteps DEF BufferShowsSlot
<1>9. CASE Copy
  <2>1. PICK p \in Pattern :
          /\ Choose(p)
          /\ MakeVersion(<<seq.bank, p>>)
          /\ eeprom' = [eeprom EXCEPT ![<<seq.bank, p>>] = Fresh(<<seq.bank, p>>)]
    BY <1>9 DEF Copy
  <2>2. Here' = <<seq.bank, p>> /\ Here' \in Slot /\ ChangeIsReal'
    BY <1>0, <1>9, <2>1 DEF Copy, Choose, Here, SeqType, ChangeIsReal, Slot
  <2>3. buffer' \in Data /\ eeprom' = [eeprom EXCEPT ![Here'] = buffer']
    BY <1>0, <2>1, <2>2, FreshType DEF MakeVersion
  <2>4. writer' = writer
    <3>1. ASSUME NEW refused \in BOOLEAN PROVE Transfer(writer, refused) = writer
      BY <1>0, <1>5 DEF Transfer, HandleResult, Writers, NUM_PAGES_PATTERN,
                        PATTERN_PAGE_STOP_WRITING
    <3> QED BY <1>0, <1>9, <3>1 DEF Copy, BlockingTransfers
  <2>5. Visible' = [Visible EXCEPT ![Here'] = buffer']
    BY <1>0, <1>5, <1>6, <2>3, <2>4
  <2>6. BufferShowsSlot' BY <1>0, <1>6, <2>2, <2>3, <2>4 DEF BufferShowsSlot
  <2> QED BY <1>6, <2>2, <2>3, <2>4, <2>5, <2>6, BankSteps
<1>10. CASE ClearPattern \/ CopyVariation
  <2>1. Rewrite BY <1>10 DEF ClearPattern, CopyVariation
  <2>2. Here' = Here /\ ChangeIsReal' BY <2>1 DEF Rewrite, Here, ChangeIsReal
  <2>3. buffer' \in Data BY <1>0, <2>1, FreshType DEF Rewrite, MakeVersion
  <2>4. Visible' = [Visible EXCEPT ![Here] = buffer'] /\ Writing'
    BY <1>0, <1>5, <2>1, <2>3, WriteShows DEF Rewrite
  <2>5. writer' = StartWrite(Here, buffer') /\ ~cycle' BY <1>5, <2>1 DEF Rewrite
  <2>6. WriterInStep' BY <2>2, <2>5 DEF WriterInStep, StartWrite
  <2>7. BufferShowsSlot' BY <2>2, <2>4, <2>5 DEF BufferShowsSlot, StartWrite
  <2> QED BY <2>2, <2>3, <2>4, <2>6, <2>7, BankSteps
<1>11. CASE ChooseBankStopped
  <2>1. PICK b \in Bank : /\ seq.pattern_edit => b # seq.bank
                          /\ seq' = [seq EXCEPT !.bank = b, !.pattern_edit = FALSE]
                          /\ buffer' = eeprom[<<b, seq.current_pattern>>]
    BY <1>11 DEF ChooseBankStopped, Orderly
  <2>2. Here' = <<b, seq.current_pattern>> /\ Here' \in Slot /\ ~seq'.pattern_edit
    BY <1>0, <2>1 DEF Here, SeqType, Slot
  <2>3. ChangeIsReal' /\ ~seq'.pattern_change
    BY <1>0, <1>11, <2>1 DEF ChooseBankStopped, SeqType, ChangeIsReal
  <2>4. CASE seq.pattern_edit
    <3>1. writer' = StartWrite(Here, buffer) /\ eeprom' = eeprom /\ ~cycle'
      BY <1>11, <2>4 DEF ChooseBankStopped
    <3>2. Visible' = [Visible EXCEPT ![Here] = buffer] BY <1>0, <1>5, <3>1, WriteShows
    <3>3. Here' # Here BY <2>1, <2>2, <2>4 DEF Here
    <3>4. buffer' = Visible'[Here'] BY <1>0, <1>5, <2>1, <2>2, <3>2, <3>3
    <3>5. WriterInStep' BY <2>2, <2>3, <3>1 DEF WriterInStep, StartWrite
    <3>6. BufferShowsSlot' BY <2>1, <2>2, <3>1, <3>3 DEF BufferShowsSlot, StartWrite
    <3> QED BY <2>2, <2>3, <3>2, <3>4, <3>5, <3>6, BankSteps
  <2>5. CASE ~seq.pattern_edit
    <3>1. writer' = writer /\ eeprom' = eeprom BY <1>11, <2>5 DEF ChooseBankStopped
    <3>2. Visible' = Visible BY <1>0, <1>5, <1>6, <3>1
    <3>3. BufferShowsSlot' BY <1>6, <2>1, <2>2, <3>1 DEF BufferShowsSlot
    <3> QED BY <1>5, <1>6, <2>1, <2>2, <2>3, <3>1, <3>2, <3>3, BankSteps
  <2> QED BY <2>4, <2>5
<1> QED
  BY <1>7, <1>8, <1>9, <1>10, <1>11
  DEF Panel, ChooseBankRunning, Orderly

\* The end of a measure is one.
LEMMA MeasureStep ==
  ASSUME RInv, MeasureEnds, Orderly, power' = power
  PROVE  /\ ChangeIsReal' /\ WriterInStep' /\ BufferShowsSlot'
         /\ [Promised!Next]_<<Visible, buffer, Here, power>>
<1> USE DEF RInv
<1>0. /\ seq \in SeqType /\ buffer \in Data /\ writer \in Writers
      /\ eeprom \in [Slot -> Data] /\ cycle \in BOOLEAN /\ Here \in Slot /\ TypeOK
      /\ eeprom' = eeprom /\ ~cycle /\ (Writing /\ seq.pattern_edit => writer.slot = Here)
  BY Types, HereType DEF MeasureEnds, Apart, Orderly
<1>1. ChangeIsReal' /\ Here' \in Slot /\ ~seq'.pattern_edit BY MeasureTurns
<1>2. \/ /\ Here' = Here /\ buffer' = buffer /\ ~cycle'
         /\ seq'.pattern_change = seq.pattern_change
      \/ /\ seq.pattern_change /\ Here' # Here /\ buffer' = eeprom[Here']
         /\ ~seq'.pattern_change /\ ~cycle'
  BY <1>0, MeasureTurns
<1>3. CASE seq.pattern_edit
  <2>1. writer' = StartWrite(Here, buffer) BY <1>3 DEF MeasureEnds
  <2>2. Visible' = [Visible EXCEPT ![Here] = buffer] /\ Writing'
    BY <1>0, <1>3, <2>1, WriteShows
  <2>3. WriterInStep' BY <1>1, <1>2, <2>1 DEF WriterInStep, StartWrite
  <2>4. CASE Here' = Here
    <3>1. buffer' = buffer BY <1>2, <2>4
    <3>2. BufferShowsSlot' BY <2>1, <2>2, <2>4, <3>1 DEF BufferShowsSlot, StartWrite
    <3> QED BY <1>1, <2>2, <2>3, <2>4, <3>1, <3>2, BankSteps
  <2>5. CASE Here' # Here
    <3>1. buffer' = eeprom[Here'] BY <1>2, <2>5
    <3>2. Visible'[Here'] = eeprom[Here']
      BY <1>0, <1>1, <2>1, <2>5 DEF Visible, StartWrite
    <3>3. BufferShowsSlot' BY <1>0, <2>1, <2>5, <3>1 DEF BufferShowsSlot, StartWrite
    <3> QED BY <1>1, <2>2, <2>3, <3>1, <3>2, <3>3, BankSteps
  <2> QED BY <2>4, <2>5
<1>4. CASE ~seq.pattern_edit
  <2>1. writer' = writer BY <1>4 DEF MeasureEnds
  <2>2. Visible' = Visible /\ Writing' = Writing BY <1>0, <2>1 DEF Visible, Writing
  <2>3. WriterInStep' BY <1>0, <1>1, <1>2, <2>1 DEF WriterInStep, Writing
  <2>4. CASE Here' = Here
    <3>1. buffer' = buffer BY <1>2, <2>4
    <3>2. BufferShowsSlot' BY <1>0, <1>4, <2>1, <2>2, <2>4, <3>1 DEF BufferShowsSlot
    <3> QED BY <1>1, <2>2, <2>3, <2>4, <3>1, <3>2, BankSteps
  <2>5. CASE Here' # Here
    <3>1. buffer' = eeprom[Here'] /\ seq.pattern_change BY <1>2, <2>5
    <3>2. Writing => writer.slot # Here' BY <2>5, <3>1 DEF WriterInStep
    <3>3. Visible[Here'] = eeprom[Here'] BY <1>1, <3>2 DEF Visible
    <3>4. BufferShowsSlot' BY <1>0, <2>1, <2>2, <3>1, <3>2 DEF BufferShowsSlot
    <3> QED BY <1>1, <2>2, <2>3, <3>1, <3>3, <3>4, BankSteps
  <2> QED BY <2>4, <2>5
<1> QED BY <1>3, <1>4

\* A page on its way shows already.
LEMMA PageStep ==
  ASSUME RInv, WriteNextPage, power' = power
  PROVE  /\ ChangeIsReal' /\ WriterInStep' /\ BufferShowsSlot'
         /\ [Promised!Next]_<<Visible, buffer, Here, power>>
<1> USE DEF RInv
<1>0. /\ seq \in SeqType /\ buffer \in Data /\ writer \in Writers
      /\ eeprom \in [Slot -> Data] /\ cycle \in BOOLEAN /\ Here \in Slot /\ TypeOK
      /\ seq' = seq /\ buffer' = buffer /\ Here' = Here /\ ChangeIsReal'
  BY Types, HereType DEF WriteNextPage, Here, ChangeIsReal
<1>1. CASE ~Writing
  <2>1. writer' = writer /\ eeprom' = eeprom /\ cycle' = cycle BY <1>1 DEF WriteNextPage
  <2> QED BY <1>0, <2>1, BankSteps DEF WriterInStep, BufferShowsSlot, Visible, Writing
<1>2. CASE Writing
  <2>0. writer.page \in {0, 1} /\ writer.writing < writer.page
    BY <1>0, <1>2 DEF Writing, WriterInStep, Writers, NUM_PAGES_PATTERN
  <2>1. /\ eeprom' = [eeprom EXCEPT ![writer.slot][writer.page] = writer.data[writer.page]]
        /\ writer' = Transfer([writer EXCEPT !.writing = writer.page], cycle)
    BY <1>0, <1>2, <2>0 DEF WriteNextPage, Writers, NUM_PAGES_PATTERN
  <2>2. writer.slot \in Slot /\ writer.data \in Data BY <1>0 DEF Writers
  <2>3. /\ writer'.slot = writer.slot /\ writer'.data = writer.data
        /\ writer'.writing = writer.page /\ writer'.page = writer.page + 1
    BY <1>0, <2>0, <2>1
    DEF WriterInStep, Transfer, HandleResult, Writers, NUM_PAGES_PATTERN,
        PATTERN_PAGE_STOP_WRITING
  <2>4. eeprom'[writer.slot][writer.page] = writer.data[writer.page]
    BY <1>0, <2>0, <2>1, <2>2, Pages DEF Data
  <2>5. \A s \in Slot \ {writer.slot} : eeprom'[s] = eeprom[s]
    BY <1>0, <2>1, <2>2
  <2>6. CASE writer.page = 0
    <3>1. Writing' BY <2>3, <2>6 DEF Writing, NUM_PAGES_PATTERN
    <3>2. Visible' = Visible BY <1>2, <2>3, <2>5, <3>1 DEF Visible
    <3>3. WriterInStep' BY <1>0, <1>2, <2>3, <2>4, <2>6 DEF WriterInStep
    <3>4. BufferShowsSlot' BY <1>0, <1>2, <2>3, <2>5, <3>1 DEF BufferShowsSlot
    <3> QED BY <1>0, <3>2, <3>3, <3>4, BankSteps
  <2>7. CASE writer.page = 1
    <3>1. ~Writing' BY <2>3, <2>7 DEF Writing, NUM_PAGES_PATTERN
    <3>2. eeprom[writer.slot][0] = writer.data[0] BY <2>7 DEF WriterInStep
    <3>3. eeprom'[writer.slot] = [eeprom[writer.slot] EXCEPT ![1] = writer.data[1]]
      BY <1>0, <2>1, <2>2, <2>7
    <3>4. eeprom'[writer.slot] = writer.data
      <4>1. eeprom[writer.slot] \in Data BY <1>0, <2>2
      <4> QED BY <2>2, <3>2, <3>3, <4>1, Pages DEF Data
    <3>5. Visible' = Visible BY <1>2, <2>5, <3>1, <3>4 DEF Visible
    <3>6. WriterInStep' BY <2>3, <2>7, <3>1 DEF WriterInStep
    <3>7. BufferShowsSlot' BY <1>0, <1>2, <2>5, <3>1, <3>4 DEF BufferShowsSlot
    <3> QED BY <1>0, <3>5, <3>6, <3>7, BankSteps
  <2> QED BY <2>0, <2>6, <2>7
<1> QED BY <1>1, <1>2

\* The slot being written may be left half new, half old; the others are as shown.
LEMMA PowerStep ==
  ASSUME RInv, PowerCut
  PROVE  /\ ChangeIsReal' /\ WriterInStep' /\ BufferShowsSlot'
         /\ [Promised!Next]_<<Visible, buffer, Here, power>>
<1> USE DEF RInv
<1>0. writer \in Writers /\ eeprom \in [Slot -> Data] /\ recall \in Slot
      /\ TypeOK /\ eeprom' = eeprom
  BY Types DEF PowerCut
<1>1. Here' = recall /\ ChangeIsReal' /\ ~seq'.pattern_edit /\ ~seq'.pattern_change
  BY <1>0, PairOf DEF PowerCut, PowerOn, Here, ChangeIsReal
<1>2. writer' = Stopped(recall) /\ buffer' = eeprom[recall] BY DEF PowerCut
<1>3. ~Writing' /\ writer'.page = 2 /\ writer'.writing = -1
  BY <1>2 DEF Writing, Stopped, PATTERN_PAGE_STOP_WRITING, NUM_PAGES_PATTERN
<1>4. WriterInStep' BY <1>3 DEF WriterInStep
<1>5. BufferShowsSlot' BY <1>0, <1>1, <1>2, <1>3 DEF BufferShowsSlot
<1>6. Visible' = [s \in Slot |-> eeprom[s]] BY <1>0, <1>3 DEF Visible
<1>7. \E s \in Slot, d \in Data : Visible' = [Visible EXCEPT ![s] = d]
  <2>1. writer.slot \in Slot /\ eeprom[writer.slot] \in Data BY <1>0 DEF Writers
  <2>2. Visible' = [Visible EXCEPT ![writer.slot] = eeprom[writer.slot]]
    BY <1>6, <2>1 DEF Visible
  <2> QED BY <2>1, <2>2
<1>8. buffer' = Visible'[Here'] BY <1>0, <1>1, <1>2, <1>6
<1>9. Promised!PowerCut BY <1>0, <1>1, <1>7, <1>8 DEF PowerCut, Promised!PowerCut, Visible
<1> QED BY <1>1, <1>4, <1>5, <1>9 DEF Promised!Next

\* The store starts as the bank does.
LEMMA RefinesInit == Init => ChangeIsReal /\ WriterInStep /\ BufferShowsSlot /\ Promised!Init
<1> SUFFICES ASSUME Init
             PROVE  ChangeIsReal /\ WriterInStep /\ BufferShowsSlot /\ Promised!Init
  OBVIOUS
<1>1. recall \in Slot /\ Here = recall /\ ChangeIsReal BY InitChange DEF Init
<1>2. eeprom \in [Slot -> Data] BY FirstVersion DEF Init
<1>3. ~Writing /\ writer.page = 2 /\ writer.writing = -1
  BY DEF Init, Writing, Stopped, PATTERN_PAGE_STOP_WRITING, NUM_PAGES_PATTERN
<1>4. WriterInStep BY <1>3 DEF WriterInStep
<1>5. Visible = eeprom BY <1>2, <1>3 DEF Visible
<1>6. BufferShowsSlot BY <1>1, <1>3 DEF Init, BufferShowsSlot
<1>7. Promised!Init BY <1>1, <1>2, <1>5 DEF Promised!Init, Visible, Init
<1> QED BY <1>1, <1>4, <1>6, <1>7

\* Every step of the store is a step of the bank, or none.
LEMMA RefinesNext ==
  ASSUME Orderly
  PROVE  TypeOK /\ (ChangeIsReal /\ WriterInStep /\ BufferShowsSlot) /\ [Next]_vars
           => (ChangeIsReal /\ WriterInStep /\ BufferShowsSlot)'
              /\ [Promised!Next]_<<Visible, buffer, Here, power>>
<1> SUFFICES ASSUME RInv, [Next]_vars
             PROVE  (ChangeIsReal /\ WriterInStep /\ BufferShowsSlot)'
                    /\ [Promised!Next]_<<Visible, buffer, Here, power>>
  BY DEF RInv
<1>1. CASE Panel /\ power' = power BY <1>1, PanelStep
<1>2. CASE MeasureEnds /\ power' = power BY <1>2, MeasureStep
<1>3. CASE MeasureGoesOn /\ power' = power
  BY <1>3, BankSteps
  DEF RInv, MeasureGoesOn, NoWrite, ChangeIsReal, WriterInStep, BufferShowsSlot, Visible,
      Here, Writing
<1>4. CASE WriteNextPage /\ power' = power BY <1>4, PageStep
<1>5. CASE CycleEnds
  BY <1>5, BankSteps
  DEF RInv, CycleEnds, ChangeIsReal, WriterInStep, BufferShowsSlot, Visible, Here, Writing
<1>6. CASE PowerCut BY <1>6, PowerStep
<1>7. CASE UNCHANGED vars
  BY <1>7, BankSteps
  DEF RInv, vars, ChangeIsReal, WriterInStep, BufferShowsSlot, Visible, Here, Writing
<1> QED
  BY <1>1, <1>2, <1>3, <1>4, <1>5, <1>6, <1>7 DEF Next, MainLoop

\* With no edit flagged, the pattern in RAM is the one stored or being stored in the slot
\* that the front panel shows: no load is forgotten and none reads ahead of a write.
THEOREM BufferIsSlot == ASSUME Orderly PROVE Spec => []BufferShowsSlot
BY RefinesInit, RefinesNext, TypeCorrect, PTL DEF Spec

\* The store implements the atomic bank of slots that the player is promised, for every
\* number of banks and patterns: pages, refused and repeated transfers and the passes of
\* the main loop do not show, and a power cut spoils at most the slot being written.
THEOREM StoreIsAtomic == ASSUME Orderly PROVE Spec => BankIsAtomic
BY RefinesInit, RefinesNext, TypeCorrect, PTL DEF Spec, BankIsAtomic, Promised!Spec, Visible

-----------------------------------------------------------------------------
(* A write comes to its end *)

\* The writer has not yet asked for the page that it waits to write.
PageAhead == writer.writing < writer.page

\* A write of page p, with the main loop at a place.
At(p, place) == Writing /\ writer.page = p /\ pc = place

\* No write is started while the second page of another waits.
StartsNoneOver == Writing /\ Writing' => writer'.page >= writer.page

\* What an acknowledged or refused transfer of the page that is being written comes to, and
\* what one of another page does.
LEMMA TransferPages ==
  ASSUME NEW w \in Writers, NEW refused \in BOOLEAN
  PROVE  /\ Transfer(w, refused) \in Writers
         /\ Transfer(w, refused).writing = w.writing
         /\ Transfer(w, refused).page =
              IF refused THEN PATTERN_PAGE_STOP_WRITING
              ELSE IF w.page = w.writing THEN w.page + 1 ELSE w.page
<1>1. w.page \in 0..2 /\ w.writing \in -1..1 /\ PATTERN_PAGE_STOP_WRITING = 2
  BY DEF Writers, NUM_PAGES_PATTERN, PATTERN_PAGE_STOP_WRITING
<1>2. Transfer(w, refused) \in Writers
  BY TransferType
<1> QED
  BY <1>1, <1>2 DEF Transfer, HandleResult, Writers

\* A gesture leaves the writer alone, starts a write or, copying, stops one or leaves it at
\* its page; its two transfers are of other pages.
LEMMA PanelWrites ==
  ASSUME TypeOK, PageAhead, Panel
  PROVE  /\ pc = "panel" /\ pc' = "measure"
         /\ PageAhead'
         /\ writer'.page \in {0, writer.page, PATTERN_PAGE_STOP_WRITING}
<1> USE DEF Gesture, NoWrite, PageAhead
<1>0. /\ writer \in Writers /\ cycle \in BOOLEAN
  BY Types
<1>1. CASE Idle \/ Edit \/ Start \/ Stop \/ ChooseNext \/ ChooseBankRunning \/ Load
  BY <1>1 DEF Idle, Edit, Start, Stop, ChooseNext, ChooseBankRunning, Load
<1>2. CASE ChooseBankStopped
  BY <1>2 DEF ChooseBankStopped, StartWrite
<1>3. CASE Copy
  <2> DEFINE first == Transfer(writer, cycle)
  <2>0. writer.page # writer.writing
    BY <1>0 DEF Writers
  <2>1. /\ first \in Writers /\ first.writing = writer.writing
        /\ first.page \in {writer.page, PATTERN_PAGE_STOP_WRITING}
    BY <1>0, <2>0, TransferPages
  <2>2. /\ Transfer(first, TRUE).writing = writer.writing
        /\ Transfer(first, TRUE).page = PATTERN_PAGE_STOP_WRITING
    BY <2>1, TransferPages
  <2>3. writer.writing < PATTERN_PAGE_STOP_WRITING
    BY <1>0 DEF Writers, NUM_PAGES_PATTERN, PATTERN_PAGE_STOP_WRITING
  <2> QED
    BY <1>3, <2>2, <2>3 DEF Copy, BlockingTransfers
<1>4. CASE ClearPattern \/ CopyVariation
  BY <1>4 DEF ClearPattern, CopyVariation, Rewrite, StartWrite
<1> QED
  BY <1>1, <1>2, <1>3, <1>4 DEF Panel

\* A write that goes on is at the same place, or one place further; and every pass of the
\* loop takes it to its next page.
LEMMA WriteGoesOn ==
  ASSUME TypeOK, PageAhead, [Next]_vars
  PROVE  /\ PageAhead'
         /\ Writing /\ Writing' =>
              \/ pc' = pc /\ writer'.page = writer.page /\ ~MainLoop
              \/ pc = "panel" /\ pc' = "measure" /\ writer'.page \in {0, writer.page}
              \/ pc = "measure" /\ pc' = "page" /\ writer'.page \in {0, writer.page}
              \/ pc = "page" /\ pc' = "panel" /\ writer'.page = writer.page + 1
<1>0. writer \in Writers /\ cycle \in BOOLEAN /\ pc \in {"panel", "measure", "page"}
  BY Types
<1>1. MainLoop => pc' # pc
  BY DEF MainLoop, Panel, Gesture, Idle, Edit, Start, Stop, ChooseNext, ChooseBankRunning,
     ChooseBankStopped, Load, Copy, ClearPattern, CopyVariation, MeasureEnds, MeasureGoesOn,
     WriteNextPage
<1>2. CASE Panel
  <2>1. writer'.page = PATTERN_PAGE_STOP_WRITING => ~Writing'
    BY DEF Writing, NUM_PAGES_PATTERN, PATTERN_PAGE_STOP_WRITING
  <2>2. /\ pc = "panel" /\ pc' = "measure" /\ PageAhead'
        /\ writer'.page \in {0, writer.page, PATTERN_PAGE_STOP_WRITING}
    BY <1>2, PanelWrites
  <2> QED
    BY <2>1, <2>2
<1>3. CASE MeasureEnds \/ MeasureGoesOn
  <2>1. /\ pc = "measure" /\ pc' = "page"
        /\ writer' = StartWrite(Here, buffer) \/ writer' = writer
    BY <1>3 DEF MeasureEnds, MeasureGoesOn, NoWrite
  <2>2. CASE writer' = writer
    BY <2>1, <2>2 DEF PageAhead
  <2>3. CASE writer' = StartWrite(Here, buffer)
    <3>1. writer'.page = 0 /\ writer'.writing = -1
      BY <2>3 DEF StartWrite
    <3> QED
      BY <2>1, <3>1 DEF PageAhead
  <2> QED
    BY <2>1, <2>2, <2>3
<1>4. CASE WriteNextPage
  <2>1. CASE Writing /\ writer.page # writer.writing
    <3> DEFINE asked == [writer EXCEPT !.writing = writer.page]
    <3>1. asked \in Writers /\ asked.page = writer.page /\ asked.writing = writer.page
      BY <1>0, <2>1 DEF Writers, Writing, NUM_PAGES_PATTERN
    <3>2. writer' = Transfer(asked, cycle)
      BY <1>4, <2>1 DEF WriteNextPage
    <3>3. /\ writer'.writing = writer.page
          /\ writer'.page = IF cycle THEN PATTERN_PAGE_STOP_WRITING ELSE writer.page + 1
      BY <1>0, <3>1, <3>2, TransferPages
    <3>4. writer.page \in 0..1
      BY <1>0, <2>1 DEF Writers, Writing, NUM_PAGES_PATTERN
    <3> QED
      BY <1>4, <3>3, <3>4 DEF WriteNextPage, PageAhead, Writing, NUM_PAGES_PATTERN,
        PATTERN_PAGE_STOP_WRITING
  <2>2. CASE ~(Writing /\ writer.page # writer.writing)
    <3>1. ~Writing
      BY <1>0, <2>2 DEF PageAhead, Writers
    <3> QED
      BY <1>4, <2>2, <3>1 DEF WriteNextPage, PageAhead
  <2> QED
    BY <2>1, <2>2
<1>5. CASE CycleEnds \/ UNCHANGED vars
  BY <1>1, <1>5 DEF CycleEnds, vars, PageAhead
<1>6. CASE PowerCut
  BY <1>6 DEF PowerCut, Stopped, Writing, PageAhead, NUM_PAGES_PATTERN, PATTERN_PAGE_STOP_WRITING
<1> QED
  BY <1>2, <1>3, <1>4, <1>5, <1>6 DEF Next, MainLoop

\* WritesEnd: every write that was started comes to its end, whatever gestures there are,
\* refused transfers and power cuts included, unless writes are started over and over again
\* while the second page of the one before still waits (twi_eeprom.c:175).  That the main
\* loop can go on is a hypothesis, since ENABLED is beyond the provers.
THEOREM WritesComeToEnd ==
  (FairSpec /\ [](Writing => ENABLED <<MainLoop>>_vars) /\ <>[][StartsNoneOver]_vars)
    => WritesEnd
<1>1. Spec => []PageAhead
  <2>1. Init => PageAhead
    BY DEF Init, Stopped, PageAhead, NUM_PAGES_PATTERN, PATTERN_PAGE_STOP_WRITING
  <2>2. TypeOK /\ PageAhead /\ [Next]_vars => PageAhead'
    BY WriteGoesOn
  <2> QED
    BY <2>1, <2>2, TypeCorrect, PTL DEF Spec
<1>2. TypeOK /\ Writing => \/ At(0, "panel") \/ At(0, "measure") \/ At(0, "page")
                           \/ At(1, "panel") \/ At(1, "measure") \/ At(1, "page")
  BY Types DEF At, Writing, Writers, NUM_PAGES_PATTERN, PATTERN_PAGE_STOP_WRITING
<1>3. ASSUME NEW p \in {0, 1}, TypeOK, PageAhead, [Next]_vars, [StartsNoneOver]_vars
      PROVE  /\ At(p, "panel") => At(p, "panel")' \/ At(p, "measure")' \/ ~Writing'
             /\ At(p, "measure") => At(p, "measure")' \/ At(p, "page")' \/ ~Writing'
             /\ At(p, "page") => At(p, "page")' \/ At(p + 1, "panel")' \/ ~Writing'
             /\ MainLoop => /\ At(p, "panel") => At(p, "measure")' \/ ~Writing'
                            /\ At(p, "measure") => At(p, "page")' \/ ~Writing'
                            /\ At(p, "page") => At(p + 1, "panel")' \/ ~Writing'
  <2>1. Writing /\ Writing' /\ writer.page = p => writer'.page # 0 \/ p = 0
    BY <1>3 DEF StartsNoneOver, vars, Writing
  <2> QED
    BY <1>3, <2>1, WriteGoesOn DEF At
<1>4. ~At(2, "panel")'
  BY DEF At, Writing, NUM_PAGES_PATTERN
<1> DEFINE Loops == TypeOK /\ PageAhead /\ [Next]_vars /\ [StartsNoneOver]_vars
<1>5. Loops =>
        /\ At(0, "panel") => At(0, "panel")' \/ At(0, "measure")' \/ ~Writing'
        /\ At(0, "measure") => At(0, "measure")' \/ At(0, "page")' \/ ~Writing'
        /\ At(0, "page") => At(0, "page")' \/ At(1, "panel")' \/ ~Writing'
        /\ At(1, "panel") => At(1, "panel")' \/ At(1, "measure")' \/ ~Writing'
        /\ At(1, "measure") => At(1, "measure")' \/ At(1, "page")' \/ ~Writing'
        /\ At(1, "page") => At(1, "page")' \/ ~Writing'
  <2>1. 0 + 1 = 1 /\ 1 + 1 = 2
    OBVIOUS
  <2> QED
    BY <1>3, <1>4, <2>1
<1>6. Loops /\ <<MainLoop>>_vars =>
        /\ At(0, "panel") => At(0, "measure")' \/ ~Writing'
        /\ At(0, "measure") => At(0, "page")' \/ ~Writing'
        /\ At(0, "page") => At(1, "panel")' \/ ~Writing'
        /\ At(1, "panel") => At(1, "measure")' \/ ~Writing'
        /\ At(1, "measure") => At(1, "page")' \/ ~Writing'
        /\ At(1, "page") => ~Writing'
  <2>1. 0 + 1 = 1 /\ 1 + 1 = 2
    OBVIOUS
  <2> QED
    BY <1>3, <1>4, <2>1
<1>7. /\ At(0, "panel") => Writing
      /\ At(0, "measure") => Writing
      /\ At(0, "page") => Writing
      /\ At(1, "panel") => Writing
      /\ At(1, "measure") => Writing
      /\ At(1, "page") => Writing
  BY DEF At
<1> QED
  BY <1>1, <1>2, <1>5, <1>6, <1>7, TypeCorrect, PTL DEF FairSpec, Spec, WritesEnd

-----------------------------------------------------------------------------
(* The step board: what the proofs keep *)

Lengths == {num \in [Parts -> 0..BoardSteps] : num["FIRST"] # NULL_LENGTH}

Boards ==
  [mode : {"PATTERN_CLEAR", "FIRST_PART", "SECOND_PART", "elsewhere"},
   part_editing : Parts, current_inst : Tracks, current_variation : Variation,
   variation_mode : VariationMode, variation_change : BOOLEAN, START : BOOLEAN,
   pattern : Grid, step_num : Lengths, step_num_new : 0..BoardSteps, led_mask : SUBSET Row]

\* A pattern in the EEPROM has a first part with steps.
StoredTyped == StoredBoards \subseteq [pattern : Grid, step_num : Lengths]

\* The length that the next measure will have keeps the first part from being null.
Keeps(b) == b \in Boards /\ (b.part_editing = "FIRST" => b.step_num_new # NULL_LENGTH)

Agrees(b) == b.led_mask \intersect Shown(b) = Column(b) \intersect Shown(b)

\* A part mode edits its own part.
EditsPart(b) ==
  /\ b.mode = "FIRST_PART" => b.part_editing = "FIRST"
  /\ b.mode = "SECOND_PART" => b.part_editing = "SECOND"

BoardInv ==
  /\ Keeps(board) /\ EditsPart(board) /\ stale \in BOOLEAN
  /\ board.mode \in PartMode /\ ~stale => Agrees(board)

-----------------------------------------------------------------------------
(* The operations on a board *)

\* NULL_LENGTH is a length, and no step's number.
LEMMA NullLength == NULL_LENGTH \in 0..BoardSteps /\ NULL_LENGTH \notin Row /\ Row \subseteq 0..BoardSteps
BY BoardAssumption DEF NULL_LENGTH, Row

\* The column that is edited is a set of steps.
LEMMA ColumnType ==
  ASSUME NEW b, b \in Boards
  PROVE  Column(b) \in SUBSET Row
<1>1. b.pattern \in Grid
  BY DEF Boards
<1>2. b.current_variation \in Variation /\ b.part_editing \in Parts /\ b.current_inst \in Tracks
  BY DEF Boards
<1>3. b.pattern[b.current_variation] \in [Parts -> [Tracks -> SUBSET Row]]
  BY <1>1, <1>2 DEF Grid
<1>4. b.pattern[b.current_variation][b.part_editing] \in [Tracks -> SUBSET Row]
  BY <1>2, <1>3
<1> QED
  BY <1>2, <1>4 DEF Column

\* The mask that is computed anew agrees with the pattern.
LEMMA MaskAgrees ==
  ASSUME NEW b, Keeps(b)
  PROVE  LET new == update_inst_led_mask(b)
         IN  /\ Keeps(new) /\ Agrees(new)
             /\ new.mode = b.mode /\ new.part_editing = b.part_editing
<1> DEFINE mask == Column(b) \intersect Shown(b)
           new  == [b EXCEPT !.led_mask = mask]
<1>1. mask \in SUBSET Row /\ b \in Boards
  BY ColumnType DEF Keeps
<1>2. update_inst_led_mask(b) = new
  BY DEF update_inst_led_mask
<1>3. Column(new) = Column(b) /\ Shown(new) = Shown(b)
  BY <1>1 DEF Column, Shown, Boards
<1> HIDE DEF mask
<1>4. /\ new \in Boards /\ new.led_mask = mask /\ new.step_num_new = b.step_num_new
      /\ new.mode = b.mode /\ new.part_editing = b.part_editing
  BY <1>1 DEF Boards
<1>5. Keeps(new)
  BY <1>4 DEF Keeps
<1>6. Agrees(new)
  BY <1>3, <1>4 DEF Agrees, mask
<1> QED
  BY <1>2, <1>4, <1>5, <1>6

\* Any set of steps may be written to the column that is edited.
LEMMA ColumnSet ==
  ASSUME NEW b, Keeps(b), NEW hits \in SUBSET Row, NEW mask \in SUBSET Row
  PROVE  LET new == [SetColumn(b, hits) EXCEPT !.led_mask = mask]
         IN  /\ Keeps(new) /\ Column(new) = hits /\ Shown(new) = Shown(b) /\ new.led_mask = mask
             /\ new.mode = b.mode /\ new.part_editing = b.part_editing
<1> DEFINE grid == [b.pattern EXCEPT ![b.current_variation][b.part_editing][b.current_inst] = hits]
<1>1. b \in Boards /\ b.pattern \in Grid
  BY DEF Keeps, Boards
<1>2. /\ b.current_variation \in Variation /\ b.part_editing \in Parts /\ b.current_inst \in Tracks
  BY <1>1 DEF Boards
<1>3. grid \in Grid /\ grid[b.current_variation][b.part_editing][b.current_inst] = hits
  BY <1>1, <1>2 DEF Grid
<1>4. SetColumn(b, hits) = [b EXCEPT !.pattern = grid]
  BY <1>1 DEF SetColumn, Boards
<1> HIDE DEF grid
<1> QED
  BY <1>1, <1>3, <1>4 DEF Keeps, Boards, Column, Shown

\* A pattern from the EEPROM.
LEMMA ReadKeeps ==
  ASSUME StoredTyped, NEW b, b \in Boards, NEW data \in StoredBoards
  PROVE  LET new == read_next_pattern(b, data)
         IN  /\ Keeps(new) /\ Agrees(new)
             /\ new.mode = b.mode /\ new.part_editing = b.part_editing
<1> DEFINE moved == [b EXCEPT !.pattern = data.pattern, !.step_num = data.step_num]
           masked == update_inst_led_mask(moved)
<1>1. data.pattern \in Grid /\ data.step_num \in Lengths
  BY DEF StoredTyped
<1>2. /\ moved \in Boards /\ moved.step_num \in Lengths
      /\ moved.mode = b.mode /\ moved.part_editing = b.part_editing
  BY <1>1 DEF Boards
<1> HIDE DEF moved
<1>3. Column(moved) \intersect Shown(moved) \subseteq Row
  BY <1>2, ColumnType
<1>4. masked = [moved EXCEPT !.led_mask = Column(moved) \intersect Shown(moved)]
  BY DEF update_inst_led_mask
<1>5. /\ masked \in Boards /\ masked.step_num \in Lengths /\ Agrees(masked)
      /\ masked.mode = b.mode /\ masked.part_editing = b.part_editing
  <2>1. /\ masked \in Boards /\ masked.led_mask = Column(moved) \intersect Shown(moved)
        /\ masked.step_num = moved.step_num
        /\ masked.mode = moved.mode /\ masked.part_editing = moved.part_editing
    BY <1>2, <1>3, <1>4 DEF Boards
  <2>2. Column(masked) = Column(moved) /\ Shown(masked) = Shown(moved)
    BY <1>2, <1>4 DEF Boards, Shown, Column
  <2> QED
    BY <1>2, <2>1, <2>2 DEF Agrees
<1>6. read_next_pattern(b, data) =
        [masked EXCEPT !.step_num_new = masked.step_num[masked.part_editing]]
  BY <1>2, <1>4 DEF read_next_pattern, moved, Boards
<1> HIDE DEF masked
<1>7. masked.part_editing \in Parts /\ masked.step_num[masked.part_editing] \in 0..BoardSteps
  BY <1>5 DEF Boards, Lengths
<1> QED
  BY <1>5, <1>6, <1>7 DEF Keeps, Boards, Agrees, Shown, Column, Lengths

\* The variations of a mode are variations.
LEMMA VariationsTyped ==
  ASSUME NEW mode \in VariationMode, NEW v \in Variation
  PROVE  First(mode) \in Variation /\ Opposite(v) \in Variation
BY DEF Variation, First, Opposite

\* Another variation, chosen, taking its turn or taken at a start.
LEMMA VariationKeeps ==
  ASSUME NEW b, Keeps(b), NEW shift \in BOOLEAN,
         NEW new \in {SwitchVariation(b, shift), toggle_variation(b), StartVariation(b)}
  PROVE  /\ Keeps(new) /\ new.mode = b.mode /\ new.part_editing = b.part_editing
         /\ new.pattern = b.pattern /\ new.led_mask = b.led_mask
         /\ new.step_num = b.step_num /\ new.current_inst = b.current_inst
<1>1. /\ b.variation_mode \in VariationMode /\ b.current_variation \in Variation
      /\ b.START \in BOOLEAN /\ b.variation_change \in BOOLEAN
  BY DEF Keeps, Boards
<1>2. First(b.variation_mode) \in Variation /\ Opposite(b.current_variation) \in Variation
  BY <1>1, VariationsTyped
<1>3. CASE new = SwitchVariation(b, shift)
  <2> DEFINE from == b.variation_mode
             to == IF from = "VAR_AB" THEN IF shift THEN "VAR_B" ELSE "VAR_A"
                   ELSE IF shift THEN "VAR_AB" ELSE Opposite(from)
             change == b.variation_change \/ (b.START /\ ~(from = "VAR_A" /\ shift))
             next == IF b.START \/ to = "VAR_AB" THEN b.current_variation ELSE to
  <2>1. to \in VariationMode /\ next \in Variation /\ change \in BOOLEAN
    BY <1>1 DEF VariationMode, Variation, Opposite
  <2>2. new = [b EXCEPT !.variation_mode = to, !.variation_change = change,
                        !.current_variation = next]
    BY <1>3 DEF SwitchVariation, Keeps, Boards
  <2> HIDE DEF to, change, next
  <2> QED
    BY <2>1, <2>2 DEF Keeps, Boards
<1>4. CASE new = toggle_variation(b)
  BY <1>1, <1>2, <1>4 DEF toggle_variation, Keeps, Boards
<1>5. CASE new = StartVariation(b)
  BY <1>1, <1>2, <1>5 DEF StartVariation, Keeps, Boards
<1> QED
  BY <1>3, <1>4, <1>5

\* One part copied to the other, which takes its length.
LEMMA CopyKeeps ==
  ASSUME NEW b, Keeps(b), NEW origin \in Parts, NEW destination \in Parts,
         destination = "FIRST" => b.step_num[origin] # NULL_LENGTH
  PROVE  LET new == copy_part(b, origin, destination)
         IN  Keeps(new) /\ new.mode = b.mode /\ new.part_editing = b.part_editing
<1> DEFINE upto == {i \in Row : i <= b.step_num[origin]}
           Joined(v) == [t \in Tracks |->
                         IF t = "accent" THEN b.pattern[v][origin][t]
                         ELSE (b.pattern[v][destination][t] \ upto)
                                \union (b.pattern[v][origin][t] \intersect upto)]
           grid == [v \in Variation |-> [b.pattern[v] EXCEPT ![destination] = Joined(v)]]
           lengths == [b.step_num EXCEPT ![destination] = b.step_num[origin]]
<1>1. /\ b \in Boards /\ b.pattern \in Grid /\ b.step_num \in Lengths
  BY DEF Keeps, Boards
<1>2. \A v \in Variation : Joined(v) \in [Tracks -> SUBSET Row]
  BY <1>1 DEF Grid
<1> HIDE DEF Joined
<1>3. grid \in Grid
  BY <1>1, <1>2 DEF Grid
<1>4. lengths \in Lengths
  BY <1>1 DEF Lengths, Parts
<1> HIDE DEF grid, lengths
<1>5. copy_part(b, origin, destination) = [b EXCEPT !.pattern = grid, !.step_num = lengths]
  BY <1>1 DEF copy_part, grid, lengths, Joined, Boards
<1> QED
  BY <1>1, <1>3, <1>4, <1>5 DEF Keeps, Boards

\* What update_pattern makes of a board.
LEMMA UpdateKeeps ==
  ASSUME StoredTyped, NEW b, Keeps(b), NEW change \in BOOLEAN, NEW data \in StoredBoards
  PROVE  LET new == update_pattern(b, change, data)
         IN  Keeps(new) /\ new.mode = b.mode /\ new.part_editing = b.part_editing
<1> DEFINE toggled == toggle_variation(b)
           read == read_next_pattern(toggled, data)
<1>1. Keeps(toggled) /\ toggled.mode = b.mode /\ toggled.part_editing = b.part_editing
  BY VariationKeeps, TRUE \in BOOLEAN
<1>2. Keeps(read) /\ read.mode = b.mode /\ read.part_editing = b.part_editing
  BY <1>1, ReadKeeps DEF Keeps
<1>3. First(b.variation_mode) \in Variation
  BY VariationsTyped DEF Keeps, Boards
<1> HIDE DEF toggled, read
<1>4. update_pattern(b, change, data) =
        IF change THEN [read EXCEPT !.current_variation = First(b.variation_mode)] ELSE toggled
  BY DEF update_pattern, toggled, read
<1> QED
  BY <1>1, <1>2, <1>3, <1>4 DEF Keeps, Boards

-----------------------------------------------------------------------------
(* Initial states and steps *)

\* The board starts with the LEDs on its pattern.
LEMMA BoardStart == ASSUME StoredTyped, BoardInit PROVE BoardInv
<1>1. PICK data \in StoredBoards, inst \in BoardInst :
        board = update_inst_led_mask(
         [mode |-> "elsewhere", part_editing |-> "FIRST", current_inst |-> inst,
          current_variation |-> "VAR_A", variation_mode |-> "VAR_A",
          variation_change |-> FALSE, START |-> FALSE,
          pattern |-> data.pattern, step_num |-> data.step_num,
          step_num_new |-> data.step_num["FIRST"], led_mask |-> {}])
  BY DEF BoardInit
<1> DEFINE blank ==
         [mode |-> "elsewhere", part_editing |-> "FIRST", current_inst |-> inst,
          current_variation |-> "VAR_A", variation_mode |-> "VAR_A",
          variation_change |-> FALSE, START |-> FALSE,
          pattern |-> data.pattern, step_num |-> data.step_num,
          step_num_new |-> data.step_num["FIRST"], led_mask |-> {}]
<1>2. data.pattern \in Grid /\ data.step_num \in Lengths
  BY DEF StoredTyped
<1>3. Keeps(blank)
  BY <1>2 DEF Keeps, Boards, Parts, Tracks, Variation, VariationMode, Lengths
<1>4. blank.mode = "elsewhere"
  OBVIOUS
<1>5. board = update_inst_led_mask(blank)
  BY <1>1
<1> HIDE DEF blank
<1> QED
  BY <1>3, <1>4, <1>5, MaskAgrees DEF BoardInv, EditsPart, PartMode, BoardInit

\* In the part modes: a step, a length, the whole track, a tap.
LEMMA StepPressStep == ASSUME BoardInv, StepPress PROVE BoardInv'
<1>1. PICK step \in Shown(board) :
        board' = [SetColumn(board, Xor(Column(board), step)) EXCEPT !.led_mask = Xor(@, step)]
  BY DEF StepPress
<1>2. /\ Keeps(board) /\ Column(board) \subseteq Row /\ board.led_mask \subseteq Row
      /\ step \in Row /\ stale' = stale /\ board.mode \in PartMode
  <2>1. Keeps(board) /\ board \in Boards
    BY DEF BoardInv, Keeps
  <2>2. Column(board) \subseteq Row
    BY <2>1, ColumnType
  <2>3. board.led_mask \subseteq Row
    BY <2>1 DEF Boards
  <2>4. step \in Row
    BY DEF Shown
  <2>5. stale' = stale /\ board.mode \in PartMode
    BY DEF StepPress, Running
  <2> QED
    BY <2>1, <2>2, <2>3, <2>4, <2>5
<1> DEFINE hits == Xor(Column(board), step)
           mask == Xor(board.led_mask, step)
<1>3. hits \in SUBSET Row /\ mask \in SUBSET Row
  BY <1>2 DEF Xor
<1>4. SetColumn(board, hits).led_mask = board.led_mask
  BY <1>2 DEF SetColumn, Keeps, Boards
<1>5. board' = [SetColumn(board, hits) EXCEPT !.led_mask = mask]
  BY <1>1, <1>2, <1>4 DEF SetColumn, Keeps, Boards
<1>6. ~stale => hits \intersect Shown(board) = mask \intersect Shown(board)
  BY <1>2 DEF BoardInv, Agrees, Xor
<1> HIDE DEF hits, mask
<1> QED
  BY <1>2, <1>3, <1>5, <1>6, ColumnSet DEF BoardInv, Agrees, EditsPart

\* LAST STEP and a step button.
LEMMA LengthPressStep == ASSUME BoardInv, LengthPress PROVE BoardInv'
<1>1. PICK step \in Row :
        LET drop == step = 0 /\ board.step_num_new = 0 /\ board.mode = "SECOND_PART"
        IN  /\ board' = IF drop
                          THEN [board EXCEPT
                                 !.step_num_new = NULL_LENGTH,
                                 !.pattern = [v \in Variation |-> [@[v] EXCEPT !["SECOND"] = NoHits]]]
                          ELSE [board EXCEPT !.step_num_new = step]
            /\ stale' = (stale \/ drop)
  BY DEF LengthPress
<1> DEFINE drop == step = 0 /\ board.step_num_new = 0 /\ board.mode = "SECOND_PART"
           grid == [v \in Variation |-> [board.pattern[v] EXCEPT !["SECOND"] = NoHits]]
<1>2. board \in Boards /\ board.pattern \in Grid
  BY DEF BoardInv, Keeps, Boards
<1>3. grid \in Grid
  BY <1>2 DEF Grid, NoHits
<1>4. CASE drop
  <2>1. board' = [board EXCEPT !.step_num_new = NULL_LENGTH, !.pattern = grid] /\ stale' = TRUE
    BY <1>1, <1>2, <1>4 DEF BoardInv, Boards
  <2>2. board.part_editing = "SECOND"
    BY <1>4 DEF BoardInv, EditsPart
  <2> HIDE DEF grid
  <2> QED
    BY <1>2, <1>3, <2>1, <2>2, NullLength DEF BoardInv, Keeps, Boards, EditsPart
<1>5. CASE ~drop
  <2>1. board' = [board EXCEPT !.step_num_new = step] /\ stale' = stale
    BY <1>1, <1>5 DEF BoardInv
  <2> QED
    BY <1>2, <2>1, NullLength DEF BoardInv, Keeps, Boards, EditsPart, Agrees, Shown, Column
<1> QED
  BY <1>4, <1>5

\* The three operations of TAP change the same steps of the column and of the mask.
LEMMA TapStep ==
  ASSUME BoardInv, NEW hits \in SUBSET Row, NEW mask \in SUBSET Row,
         ~stale => hits \intersect Shown(board) = mask \intersect Shown(board),
         board' = [SetColumn(board, hits) EXCEPT !.led_mask = mask], stale' = stale
  PROVE  BoardInv'
BY ColumnSet DEF BoardInv, Agrees, EditsPart

\* TAP's three uses while running.
LEMMA TapsStep == ASSUME BoardInv, TapClear \/ TapFill \/ TapHit PROVE BoardInv'
<1>0. /\ Keeps(board) /\ Column(board) \subseteq Row /\ board.led_mask \subseteq Row
      /\ Shown(board) \subseteq Row
  BY DEF BoardInv, Keeps, Boards, Column, Grid, Shown
<1>1. /\ Keeps(board) /\ Column(board) \subseteq Row /\ board.led_mask \subseteq Row
      /\ Shown(board) \subseteq Row /\ board.mode \in PartMode /\ stale' = stale
      /\ ~stale => Agrees(board)
  <2>1. Running /\ stale' = stale
    BY DEF TapClear, TapFill, TapHit
  <2> QED
    BY <1>0, <2>1 DEF Running, BoardInv
<1>2. \A hits : SetColumn(board, hits).led_mask = board.led_mask
  BY <1>1 DEF SetColumn, Keeps, Boards
<1>3. \A hits, mask :
        board' = [SetColumn(board, hits) EXCEPT !.led_mask = mask]
          /\ hits \subseteq Row /\ mask \subseteq Row
          /\ (~stale => hits \intersect Shown(board) = mask \intersect Shown(board))
        => BoardInv'
  BY <1>1, TapStep
<1>4. CASE TapClear
  <2> DEFINE hits == Column(board) \ Shown(board)
             mask == board.led_mask \ Shown(board)
  <2>1. board' = [SetColumn(board, hits) EXCEPT !.led_mask = mask]
    BY <1>2, <1>4 DEF TapClear
  <2>2. hits \subseteq Row /\ mask \subseteq Row
        /\ hits \intersect Shown(board) = mask \intersect Shown(board)
    BY <1>1
  <2> QED
    BY <1>3, <2>1, <2>2
<1>5. CASE TapFill
  <2> DEFINE hits == Column(board) \union Shown(board)
             mask == board.led_mask \union Shown(board)
  <2>1. board' = [SetColumn(board, hits) EXCEPT !.led_mask = mask]
    BY <1>2, <1>5 DEF TapFill
  <2>2. hits \subseteq Row /\ mask \subseteq Row
        /\ hits \intersect Shown(board) = mask \intersect Shown(board)
    BY <1>1
  <2> QED
    BY <1>3, <2>1, <2>2
<1>6. CASE TapHit
  <2>1. PICK step \in Row :
          board' = [SetColumn(board, Column(board) \union {step}) EXCEPT !.led_mask = @ \union {step}]
    BY <1>6 DEF TapHit
  <2> DEFINE hits == Column(board) \union {step}
             mask == board.led_mask \union {step}
  <2>2. board' = [SetColumn(board, hits) EXCEPT !.led_mask = mask]
    BY <1>2, <2>1
  <2>3. /\ hits \subseteq Row /\ mask \subseteq Row
        /\ ~stale => hits \intersect Shown(board) = mask \intersect Shown(board)
    BY <1>1 DEF Agrees
  <2> QED
    BY <1>3, <2>2, <2>3
<1> QED
  BY <1>4, <1>5, <1>6

\* An instrument is selected, a variation chosen.
LEMMA SelectInstStep == ASSUME BoardInv, SelectInst PROVE BoardInv'
<1>1. PICK t \in Tracks : board' = update_inst_led_mask([board EXCEPT !.current_inst = t])
  BY DEF SelectInst
<1> DEFINE new == [board EXCEPT !.current_inst = t]
<1>2. /\ Keeps(new) /\ new.mode = board.mode /\ new.part_editing = board.part_editing
      /\ stale' = FALSE /\ EditsPart(board)
  BY DEF BoardInv, Keeps, Boards, SelectInst
<1> HIDE DEF new
<1>3. board' = update_inst_led_mask(new)
  BY <1>1 DEF new
<1> QED
  BY <1>2, <1>3, MaskAgrees DEF BoardInv, EditsPart

\* VARIATION.
LEMMA VariationSwitchStep == ASSUME BoardInv, VariationSwitch PROVE BoardInv'
<1> DEFINE Copied(shift, clear) ==
             IF board.variation_mode = "VAR_A" /\ clear /\ ~shift
               THEN [board EXCEPT !.pattern["VAR_B"] = board.pattern["VAR_A"]] ELSE board
<1>1. PICK shift \in BOOLEAN, clear \in BOOLEAN :
        board' = update_inst_led_mask(SwitchVariation(Copied(shift, clear), shift))
  BY DEF VariationSwitch
<1> DEFINE copied == Copied(shift, clear)
           new == SwitchVariation(copied, shift)
           grid == [board.pattern EXCEPT !["VAR_B"] = board.pattern["VAR_A"]]
<1>2. /\ board \in Boards /\ board.pattern \in Grid /\ Keeps(board)
      /\ EditsPart(board) /\ stale' = FALSE
  BY DEF BoardInv, Keeps, Boards, VariationSwitch
<1>3. grid \in Grid
  BY <1>2 DEF Grid, Variation
<1>4. copied \in {board, [board EXCEPT !.pattern = grid]}
  BY <1>2 DEF Boards
<1> HIDE DEF grid, copied
<1>5. Keeps(copied) /\ copied.mode = board.mode /\ copied.part_editing = board.part_editing
  BY <1>2, <1>3, <1>4 DEF Keeps, Boards
<1>6. Keeps(new) /\ new.mode = board.mode /\ new.part_editing = board.part_editing
  BY <1>5, VariationKeeps
<1>7. board' = update_inst_led_mask(new)
  BY <1>1 DEF copied
<1> HIDE DEF new
<1> QED
  BY <1>2, <1>6, <1>7, MaskAgrees DEF BoardInv, EditsPart

\* The next mode is a mode.
LEMMA ModeIndex ==
  ASSUME BoardInv, NEW shift \in BOOLEAN
  PROVE  ModeAfter(board.mode, shift)
           \in {"PATTERN_CLEAR", "FIRST_PART", "SECOND_PART", "elsewhere"}
<1> DEFINE index == CHOOSE i \in DOMAIN BoardMode : BoardMode[i] = board.mode
<1>1. /\ DOMAIN BoardMode = 1..4 /\ Len(BoardMode) = 4
      /\ BoardMode[1] = "PATTERN_CLEAR" /\ BoardMode[2] = "FIRST_PART"
      /\ BoardMode[3] = "SECOND_PART" /\ BoardMode[4] = "elsewhere"
  BY DEF BoardMode
<1>2. \E i \in DOMAIN BoardMode : BoardMode[i] = board.mode
  BY <1>1 DEF BoardInv, Keeps, Boards
<1>3. index \in 1..4
  BY <1>1, <1>2
<1>4. ModeAfter(board.mode, shift) =
        BoardMode[IF shift THEN IF index = 1 THEN 4 ELSE index - 1 ELSE (index % 4) + 1]
  BY <1>1 DEF ModeAfter
<1> HIDE DEF index
<1>5. (IF shift THEN IF index = 1 THEN 4 ELSE index - 1 ELSE (index % 4) + 1) \in {1, 2, 3, 4}
  BY <1>3
<1> QED
  BY <1>1, <1>4, <1>5

\* MODE.
LEMMA ModeSwitchStep == ASSUME StoredTyped, BoardInv, ModeSwitch PROVE BoardInv'
<1> DEFINE Moved(shift, alt) ==
             [CopyOnTheWay(board, shift, alt) EXCEPT !.mode = ModeAfter(board.mode, shift)]
<1>1. PICK shift \in BOOLEAN, alt \in BOOLEAN, read \in BOOLEAN, data \in StoredBoards :
        /\ Copies(board.mode, shift, alt) /\ shift => board.step_num["SECOND"] # NULL_LENGTH
        /\ board' = set_mode(Moved(shift, alt), read, data)
        /\ stale' = (stale /\ Moved(shift, alt).mode \notin PartMode)
  BY DEF ModeSwitch
<1> DEFINE to == ModeAfter(board.mode, shift)
           copied == CopyOnTheWay(board, shift, alt)
           moved == [copied EXCEPT !.mode = to]
           loaded == IF read THEN read_next_pattern(moved, data) ELSE moved
           part == IF to = "FIRST_PART" THEN "FIRST" ELSE "SECOND"
           edited == [loaded EXCEPT !.part_editing = part, !.step_num_new = loaded.step_num[part]]
<1>2. to \in {"PATTERN_CLEAR", "FIRST_PART", "SECOND_PART", "elsewhere"}
  BY ModeIndex
<1>3. Keeps(board) /\ stale \in BOOLEAN
  BY DEF BoardInv
<1>4. Keeps(copied) /\ copied.part_editing = board.part_editing
  <2>1. CASE ~Copies(board.mode, shift, alt)
    BY <1>3, <2>1 DEF CopyOnTheWay
  <2>2. CASE Copies(board.mode, shift, alt) /\ shift
    BY <1>1, <1>3, <2>2, CopyKeeps DEF CopyOnTheWay, Parts
  <2>3. CASE Copies(board.mode, shift, alt) /\ ~shift
    BY <1>3, <2>3, CopyKeeps DEF CopyOnTheWay, Parts
  <2> QED
    BY <2>1, <2>2, <2>3
<1>5. /\ board' = set_mode(moved, read, data)
      /\ stale' = (stale /\ moved.mode \notin PartMode)
  BY <1>1
<1> HIDE DEF to, copied
<1>6. Keeps(moved) /\ moved.mode = to
  BY <1>2, <1>4 DEF Keeps, Boards
<1> HIDE DEF moved
<1>7. Keeps(loaded) /\ loaded.mode = to
  BY <1>6, ReadKeeps DEF Keeps
<1>8. set_mode(moved, read, data) =
        IF to \notin PartMode THEN moved ELSE update_inst_led_mask(edited)
  BY <1>6 DEF set_mode
<1> HIDE DEF loaded
<1>9. /\ Keeps(edited) /\ edited.mode = to /\ edited.part_editing = part
  BY <1>7 DEF Keeps, Boards, Lengths, Parts
<1> HIDE DEF edited
<1>10. CASE to \in PartMode
  BY <1>3, <1>5, <1>6, <1>8, <1>9, <1>10, MaskAgrees DEF BoardInv, EditsPart
<1>11. CASE to \notin PartMode
  BY <1>3, <1>5, <1>6, <1>8, <1>11 DEF BoardInv, EditsPart, PartMode
<1> QED
  BY <1>10, <1>11

\* A pattern that is cleared has a first part of full length.
LEMMA ClearsStep == ASSUME BoardInv, ClearBoard \/ clear_all_patterns PROVE BoardInv'
<1> DEFINE grid == [board.pattern EXCEPT ![board.current_variation] = [p \in Parts |-> NoHits]]
<1>1. /\ board \in Boards /\ board.pattern \in Grid /\ Keeps(board)
      /\ board.mode = "PATTERN_CLEAR" /\ stale' = stale /\ stale \in BOOLEAN
  BY DEF BoardInv, Keeps, Boards, ClearBoard, clear_all_patterns
<1>2. [p \in Parts |-> NoHits] \in [Parts -> [Tracks -> SUBSET Row]]
  BY DEF NoHits
<1>3. grid \in Grid /\ Blank \in Grid
  BY <1>1, <1>2 DEF Grid, Blank, Boards
<1>4. BlankLength \in Lengths
  BY BoardAssumption DEF BlankLength, Lengths, Parts, NULL_LENGTH
<1>5. \E hits \in Grid :
        board' = [board EXCEPT !.pattern = hits, !.led_mask = {}, !.step_num = BlankLength]
  <2>1. CASE ClearBoard
    <3>1. board' = [board EXCEPT !.pattern = grid, !.led_mask = {}, !.step_num = BlankLength]
      BY <1>1, <2>1 DEF ClearBoard, Boards
    <3> QED
      BY <1>3, <3>1
  <2>2. CASE clear_all_patterns
    BY <1>3, <2>2 DEF clear_all_patterns
  <2> QED
    BY <2>1, <2>2
<1> QED
  BY <1>1, <1>4, <1>5 DEF BoardInv, Keeps, Boards, EditsPart, PartMode

\* Loading a pattern.
LEMMA LoadBoardStep == ASSUME StoredTyped, BoardInv, LoadBoard PROVE BoardInv'
<1>1. PICK data \in StoredBoards : board' = read_next_pattern(board, data)
  BY DEF LoadBoard
<1> QED
  BY <1>1, ReadKeeps DEF BoardInv, Keeps, EditsPart, LoadBoard

\* A start leaves the mask behind only when the variation is another one.
LEMMA TransportStep == ASSUME BoardInv, StartBoard \/ StopBoard PROVE BoardInv'
<1>1. CASE StopBoard
  BY <1>1 DEF StopBoard, BoardInv, Keeps, Boards, EditsPart, Agrees, Shown, Column
<1>2. CASE StartBoard
  <2> DEFINE new == StartVariation(board)
  <2>1. /\ Keeps(new) /\ new.mode = board.mode /\ new.part_editing = board.part_editing
        /\ new.pattern = board.pattern /\ new.led_mask = board.led_mask
        /\ new.step_num = board.step_num /\ new.current_inst = board.current_inst
    BY VariationKeeps, TRUE \in BOOLEAN DEF BoardInv
  <2>2. new.current_variation = First(board.variation_mode)
    BY DEF StartVariation, BoardInv, Keeps, Boards
  <2>3. board' = new /\ stale' = (stale \/ First(board.variation_mode) # board.current_variation)
    BY <1>2 DEF StartBoard
  <2> HIDE DEF new
  <2> QED
    BY <2>1, <2>2, <2>3 DEF BoardInv, EditsPart, Agrees, Shown, Column
<1> QED
  BY <1>1, <1>2

\* The length that was asked for keeps the first part from being null.
LEMMA NewMeasureStep == ASSUME StoredTyped, BoardInv, NewMeasure PROVE BoardInv'
<1> DEFINE timed == [board EXCEPT !.step_num[board.part_editing] = board.step_num_new]
           Turned(last, change, data) ==
             IF last \/ timed.step_num["SECOND"] = NULL_LENGTH
               THEN update_pattern(timed, change, data) ELSE timed
<1>1. PICK last \in BOOLEAN, change \in BOOLEAN, data \in StoredBoards :
        IF board.mode \in PartMode
          THEN board' = update_inst_led_mask(Turned(last, change, data)) /\ stale' = FALSE
          ELSE board' = Turned(last, change, data) /\ UNCHANGED stale
  BY DEF NewMeasure
<1>2. board \in Boards /\ Keeps(board) /\ EditsPart(board) /\ stale \in BOOLEAN
  BY DEF BoardInv, Keeps
<1> DEFINE lengths == [board.step_num EXCEPT ![board.part_editing] = board.step_num_new]
<1>3. lengths \in Lengths
  BY <1>2 DEF Keeps, Boards, Lengths, Parts
<1>4. timed = [board EXCEPT !.step_num = lengths]
  BY <1>2 DEF Boards
<1> HIDE DEF lengths
<1>5. Keeps(timed) /\ timed.mode = board.mode /\ timed.part_editing = board.part_editing
  BY <1>2, <1>3, <1>4 DEF Keeps, Boards
<1> HIDE DEF timed
<1> DEFINE turned == Turned(last, change, data)
<1>6. Keeps(turned) /\ turned.mode = board.mode /\ turned.part_editing = board.part_editing
  BY <1>5, UpdateKeeps
<1> HIDE DEF Turned
<1>7. CASE board.mode \in PartMode
  BY <1>1, <1>2, <1>6, <1>7, MaskAgrees DEF BoardInv, EditsPart
<1>8. CASE board.mode \notin PartMode
  BY <1>1, <1>2, <1>6, <1>8 DEF BoardInv, EditsPart
<1> QED
  BY <1>7, <1>8

\* The intro/fill buttons.
LEMMA IntroFillStep == ASSUME StoredTyped, BoardInv, IntroFill PROVE BoardInv'
<1>1. PICK data \in StoredBoards, variation \in Variation :
        board' = [read_next_pattern(board, data) EXCEPT !.current_variation = variation]
  BY DEF IntroFill
<1> DEFINE read == read_next_pattern(board, data)
<1>2. Keeps(read) /\ read.mode = "elsewhere" /\ stale' = stale /\ stale \in BOOLEAN
  BY ReadKeeps DEF BoardInv, Keeps, IntroFill
<1>3. board' = [read EXCEPT !.current_variation = variation]
  BY <1>1
<1> HIDE DEF read
<1> QED
  BY <1>2, <1>3 DEF BoardInv, Keeps, Boards, EditsPart, PartMode

\* Every step of the board keeps the invariant.
LEMMA BoardStep == ASSUME StoredTyped, BoardInv, [BoardNext]_boardVars PROVE BoardInv'
<1>1. CASE UNCHANGED boardVars
  BY <1>1 DEF boardVars, BoardInv
<1>2. CASE BoardNext
  BY <1>2, StepPressStep, LengthPressStep, TapsStep, SelectInstStep, VariationSwitchStep,
     ModeSwitchStep, ClearsStep, LoadBoardStep, TransportStep, NewMeasureStep, IntroFillStep
     DEF BoardNext
<1> QED
  BY <1>1, <1>2

-----------------------------------------------------------------------------
(* The theorems about the board *)

\* The invariant has the types.
LEMMA BoardFits == BoardInv => BoardTypeOK
<1> SUFFICES ASSUME BoardInv PROVE BoardTypeOK
  OBVIOUS
<1>1. {BoardMode[i] : i \in DOMAIN BoardMode}
        = {"PATTERN_CLEAR", "FIRST_PART", "SECOND_PART", "elsewhere"}
  <2>1. /\ DOMAIN BoardMode = {1, 2, 3, 4}
        /\ BoardMode[1] = "PATTERN_CLEAR" /\ BoardMode[2] = "FIRST_PART"
        /\ BoardMode[3] = "SECOND_PART" /\ BoardMode[4] = "elsewhere"
    BY DEF BoardMode
  <2> HIDE DEF BoardMode
  <2> QED
    BY <2>1
<1> QED
  BY <1>1 DEF BoardInv, Keeps, Boards, Lengths, BoardTypeOK

\* Whatever is pressed while the sequencer plays or stands, the fields of the edited pattern
\* keep their ranges; above all, the first part never becomes a part without steps.
THEOREM BoardTyped == ASSUME StoredTyped PROVE BoardSpec => []BoardTypeOK
BY BoardFits, BoardStart, BoardStep, PTL DEF BoardSpec

\* While a part is edited the LEDs above its steps show the hits of the selected instrument
\* in the part and variation that play, unless the mask has knowingly been left behind.
THEOREM LedsShowThePattern == ASSUME StoredTyped PROVE BoardSpec => []LedsShowPattern
<1>1. BoardInv => LedsShowPattern
  BY DEF BoardInv, LedsShowPattern, Agrees
<1> QED
  BY <1>1, BoardStart, BoardStep, PTL DEF BoardSpec

-----------------------------------------------------------------------------
(* The choice of a pattern and of a bank while running *)

\* Nothing is edited, so that nothing is ever written page by page; nor does STOP take a
\* chosen pattern for the current one without reading it.
ChoosesOnly ==
  {"edit", "clear", "copy_variation", "stop_pending"} \intersect Gestures = {}

\* What is chosen and not yet read is flagged, and only while running.
Chosen ==
  /\ seq.pattern_change => seq.START
  /\ seq.new_pattern # seq.current_pattern => seq.pattern_change
  /\ ~seq.pattern_edit /\ ~Writing
  /\ ~seq.pattern_change => buffer = eeprom[Here]

\* Without a write in progress a transfer is not counted as a page.
LEMMA TransferUncounted ==
  ASSUME NEW w \in Writers, w.page = 2, NEW refused \in BOOLEAN
  PROVE  Transfer(w, refused) = w
BY DEF Transfer, HandleResult, Writers, NUM_PAGES_PATTERN, PATTERN_PAGE_STOP_WRITING

\* The panel flags what it chooses, or reads it.
LEMMA PanelChooses ==
  ASSUME ChoosesOnly, TypeOK, Chosen, Panel
  PROVE  Chosen'
<1> USE DEF Gesture, NoWrite
<1>0. /\ seq \in SeqType /\ buffer \in Data /\ writer \in Writers
      /\ eeprom \in [Slot -> Data] /\ cycle \in BOOLEAN /\ Here \in Slot
      /\ writer.page = 2
  BY Types, HereType DEF Chosen, Writing, Writers, NUM_PAGES_PATTERN, PATTERN_PAGE_STOP_WRITING
<1>1. CASE Idle
  BY <1>1 DEF Idle, Chosen, Writing, Here
<1>2. CASE Start \/ Stop
  <2>1. /\ Here' = Here /\ seq'.pattern_edit = seq.pattern_edit
        /\ seq'.pattern_change => seq.pattern_change /\ seq'.START
        /\ seq'.new_pattern # seq'.current_pattern => seq'.pattern_change
        /\ ~seq'.pattern_change => ~seq.pattern_change
    BY <1>0, <1>2 DEF Start, Stop, Here, SeqType, Chosen, ChoosesOnly
  <2>2. writer' = writer /\ eeprom' = eeprom /\ buffer' = buffer
    BY <1>2 DEF Start, Stop
  <2> QED BY <2>1, <2>2 DEF Chosen, Writing
<1>3. CASE ChooseNext
  <2>1. seq'.pattern_change /\ seq'.START /\ ~seq'.pattern_edit
    BY <1>0, <1>3 DEF ChooseNext, SeqType, Chosen
  <2> QED BY <1>3, <2>1 DEF ChooseNext, Chosen, Writing
<1>4. CASE ChooseBankRunning
  <2>1. seq'.pattern_change /\ seq'.START /\ ~seq'.pattern_edit
    BY <1>0, <1>4 DEF ChooseBankRunning, SeqType, Chosen
  <2> QED BY <1>4, <2>1 DEF ChooseBankRunning, Chosen, Writing
<1>5. CASE ChooseBankStopped
  <2>1. PICK b \in Bank : /\ seq' = [seq EXCEPT !.bank = b, !.pattern_edit = FALSE]
                          /\ buffer' = eeprom[<<b, seq.current_pattern>>]
    BY <1>5 DEF ChooseBankStopped
  <2>2. /\ Here' = <<b, seq.current_pattern>> /\ ~seq'.pattern_edit
        /\ seq'.pattern_change = seq.pattern_change /\ seq'.START = seq.START
        /\ seq'.new_pattern = seq.new_pattern /\ seq'.current_pattern = seq.current_pattern
    BY <1>0, <2>1 DEF Here, SeqType
  <2>3. writer' = writer /\ eeprom' = eeprom
    BY <1>5 DEF ChooseBankStopped, Chosen
  <2> QED BY <2>1, <2>2, <2>3 DEF Chosen, Writing
<1>6. CASE Load
  <2>1. PICK p \in Pattern : Choose(p) /\ buffer' = eeprom[<<seq.bank, p>>]
    BY <1>6 DEF Load
  <2>2. /\ Here' = <<seq.bank, p>> /\ ~seq'.pattern_edit
        /\ seq'.pattern_change = seq.pattern_change /\ seq'.START = seq.START
        /\ seq'.new_pattern = seq'.current_pattern
    BY <1>0, <2>1 DEF Choose, Here, SeqType, Chosen
  <2> QED BY <1>6, <2>1, <2>2 DEF Load, Chosen, Writing
<1>7. CASE Copy
  <2>1. PICK p \in Pattern :
          /\ Choose(p)
          /\ MakeVersion(<<seq.bank, p>>)
          /\ eeprom' = [eeprom EXCEPT ![<<seq.bank, p>>] = Fresh(<<seq.bank, p>>)]
    BY <1>7 DEF Copy
  <2>2. /\ Here' = <<seq.bank, p>> /\ Here' \in Slot /\ ~seq'.pattern_edit
        /\ seq'.pattern_change = seq.pattern_change /\ seq'.START = seq.START
        /\ seq'.new_pattern = seq'.current_pattern
    BY <1>0, <2>1 DEF Choose, Here, SeqType, Chosen, Slot
  <2>3. buffer' = eeprom'[Here']
    BY <1>0, <2>1, <2>2 DEF MakeVersion
  <2>4. writer' = writer
    BY <1>0, <1>7, TransferUncounted DEF Copy, BlockingTransfers
  <2> QED BY <2>2, <2>3, <2>4 DEF Chosen, Writing
<1> QED
  BY <1>1, <1>2, <1>3, <1>4, <1>5, <1>6, <1>7
  DEF Panel, ChoosesOnly, Edit, ClearPattern, CopyVariation

\* The measure that takes the flag away is the one that reads.
LEMMA MeasureReads ==
  ASSUME TypeOK, Chosen, MeasureEnds
  PROVE  Chosen'
<1>1. PICK last_part \in BOOLEAN :
        LET turn == last_part /\ seq.pattern_change
            next == IF turn THEN seq.new_pattern ELSE seq.current_pattern
        IN  /\ seq' = [seq EXCEPT !.pattern_edit = FALSE,
                                  !.current_pattern = next,
                                  !.pattern_change = @ /\ ~turn]
            /\ buffer' = IF turn THEN eeprom[<<seq.bank, next>>] ELSE buffer
  BY DEF MeasureEnds
<1>2. seq \in SeqType /\ writer' = writer /\ eeprom' = eeprom
  BY Types DEF MeasureEnds, Chosen
<1>3. CASE last_part /\ seq.pattern_change
  <2>1. /\ seq'.bank = seq.bank /\ seq'.current_pattern = seq.new_pattern
        /\ seq'.new_pattern = seq.new_pattern /\ seq'.START = seq.START
        /\ ~seq'.pattern_change /\ ~seq'.pattern_edit
        /\ buffer' = eeprom[<<seq.bank, seq.new_pattern>>]
    BY <1>1, <1>2, <1>3 DEF SeqType
  <2> QED BY <1>2, <2>1 DEF Chosen, Writing, Here
<1>4. CASE ~(last_part /\ seq.pattern_change)
  <2>1. /\ seq'.bank = seq.bank /\ seq'.current_pattern = seq.current_pattern
        /\ seq'.new_pattern = seq.new_pattern /\ seq'.START = seq.START
        /\ seq'.pattern_change <=> seq.pattern_change
        /\ ~seq'.pattern_edit /\ buffer' = buffer
    BY <1>1, <1>2, <1>4 DEF SeqType
  <2> QED BY <1>2, <2>1 DEF Chosen, Writing, Here
<1> QED BY <1>3, <1>4

\* Every step keeps it.
LEMMA ChosenStep ==
  ASSUME ChoosesOnly, TypeOK, Chosen, [Next]_vars
  PROVE  Chosen'
<1>1. CASE Panel
  BY <1>1, PanelChooses
<1>2. CASE MeasureEnds
  BY <1>2, MeasureReads
<1>3. CASE MeasureGoesOn \/ WriteNextPage \/ CycleEnds \/ UNCHANGED vars
  <2>1. seq' = seq /\ buffer' = buffer /\ writer' = writer /\ eeprom' = eeprom
    BY <1>3 DEF MeasureGoesOn, WriteNextPage, CycleEnds, vars, NoWrite, Chosen
  <2> QED BY <2>1 DEF Chosen, Writing, Here
<1>4. CASE PowerCut
  <2>1. /\ Here' = recall /\ ~seq'.pattern_edit /\ ~seq'.pattern_change
        /\ seq'.new_pattern = seq'.current_pattern
    BY <1>4, Types, PairOf DEF PowerCut, PowerOn, Here
  <2>2. ~Writing' /\ buffer' = eeprom[recall] /\ eeprom' = eeprom
    BY <1>4 DEF PowerCut, Writing, Stopped, PATTERN_PAGE_STOP_WRITING, NUM_PAGES_PATTERN
  <2> QED BY <2>1, <2>2 DEF Chosen
<1> QED
  BY <1>1, <1>2, <1>3, <1>4 DEF Next, MainLoop

\* At power-up the recalled pattern has been read.
LEMMA ChosenStart == Init => Chosen
<1> SUFFICES ASSUME Init PROVE Chosen
  OBVIOUS
<1>1. recall \in Slot /\ Here = recall BY InitChange DEF Init
<1> QED
  BY <1>1 DEF Init, Chosen, PowerOn, Writing, Stopped, PATTERN_PAGE_STOP_WRITING, NUM_PAGES_PATTERN

\* A bank or a pattern that was chosen while running is in RAM once the change is no longer
\* pending: the flag outlives every measure but the last part's (sequencer.c:1218).
THEOREM ChosenIsRead == ASSUME ChoosesOnly PROVE Spec => []ChosenIsLoaded
<1>1. Spec => []Chosen
  BY ChosenStart, ChosenStep, TypeCorrect, PTL DEF Spec
<1>2. Chosen => ChosenIsLoaded
  BY DEF Chosen, ChosenIsLoaded, BufferShowsSlot
<1> QED BY <1>1, <1>2, PTL

-----------------------------------------------------------------------------
(* All parts together *)

\* What is kept of the parts in focus.
OthersInv == (focus = "board" => BoardInv) /\ PortInv /\ ParserInv
StoreInv == focus = "store" => TypeOK /\ Chosen

\* A step of MCData is a step of each part in focus, or leaves it alone.
LEMMA PartsStep ==
  ASSUME [MCNext]_allVars
  PROVE  /\ focus' = focus
         /\ focus = "store" => [Next]_vars
         /\ focus = "board" => [BoardNext]_boardVars
         /\ [PortNext]_portVars /\ [ParserNext]_parserVars /\ [SysexNext]_source
<1> HIDE DEF boardVars, portVars, parserVars
<1>1. UNCHANGED storeVars => UNCHANGED vars
  BY DEF storeVars, vars
<1> HIDE DEF storeVars, vars
<1> QED
  BY <1>1 DEF MCNext, allVars, midiVars, OnStore, OnBoard, OnPort, OnParser, OnSysex

\* Every part stays within its types and ranges, for memories, boards and queues of any size.
THEOREM DataTyped == ASSUME StoredTyped PROVE MCSpec => []DataTypeOK
<1>1. MCInit => OthersInv
  BY BoardStart, PortStart, ParserStart DEF MCInit, OthersInv
<1>2. OthersInv /\ [MCNext]_allVars => OthersInv'
  BY PartsStep, BoardStep, PortStep, ParserStep DEF OthersInv
<1>3. OthersInv => DataTypeOK
  BY BoardFits, ParserFits DEF DataTypeOK, OthersInv, PortInv
<1> QED
  BY <1>1, <1>2, <1>3, PTL DEF MCSpec

\* ChosenIsRead, of MCData's store.
THEOREM ChosenIsInUse == ASSUME ChoosesOnly PROVE MCSpec => []ChosenInUse
<1>1. MCInit => StoreInv
  BY StoreStart, ChosenStart DEF MCInit, StoreInv
<1>2. StoreInv /\ [MCNext]_allVars => StoreInv'
  BY PartsStep, StoreTypeStep, ChosenStep DEF StoreInv
<1>3. StoreInv => ChosenInUse
  BY DEF StoreInv, Chosen, ChosenInUse, ChosenIsLoaded, BufferShowsSlot
<1> QED
  BY <1>1, <1>2, <1>3, PTL DEF MCSpec

\* MCData is each of its parts, the store and the board where they are in focus.
LEMMA EachPart ==
  MCSpec => /\ focus = "store" => Spec
            /\ focus = "board" => BoardSpec
            /\ PortSpec /\ ParserSpec /\ SysexSpec
<1>1. MCInit => /\ focus = "store" => Init
                /\ focus = "board" => BoardInit
                /\ PortInit /\ ParserInit /\ SysexInit
  BY DEF MCInit
<1>2. [MCNext]_allVars =>
        /\ [PortNext]_portVars /\ [ParserNext]_parserVars /\ [SysexNext]_source
  BY PartsStep
<1>3. focus = "store" /\ [MCNext]_allVars => (focus = "store")' /\ [Next]_vars
  BY PartsStep
<1>4. focus = "board" /\ [MCNext]_allVars => (focus = "board")' /\ [BoardNext]_boardVars
  BY PartsStep
<1> QED
  BY <1>1, <1>2, <1>3, <1>4, PTL
     DEF MCSpec, Spec, BoardSpec, PortSpec, ParserSpec, SysexSpec

\* Out of focus there is no board to look at.
BoardAway == focus # "board" => board = [mode |-> "elsewhere", START |-> FALSE]

\* Nothing but a step of the board touches it.
LEMMA BoardStaysAway == BoardAway /\ [MCNext]_allVars => BoardAway'
<1> HIDE DEF storeVars, portVars, parserVars
<1>1. ASSUME [MCNext]_allVars
      PROVE  focus' = focus /\ (focus # "board" => UNCHANGED board)
  BY <1>1 DEF MCNext, allVars, boardVars, midiVars, OnStore, OnBoard, OnPort, OnParser, OnSysex
<1> QED BY <1>1 DEF BoardAway

\* What the serial port, the parser, system exclusive data and the board promise, the machine
\* made of them promises: no byte is left behind or out of order, what is sent is what is heard
\* and what is stored comes back, and the LEDs show the pattern being edited.
THEOREM DataKeepsItsPromises ==
  ASSUME StoredTyped
  PROVE  MCSpec => /\ []NoByteSleeps /\ BytesInOrder /\ HearsTheWire /\ []RoundTrip
                   /\ []LedsShowPattern
<1>1. MCInit => BoardAway BY DEF MCInit, BoardAway
<1>2. BoardAway /\ ~(focus = "board") => LedsShowPattern
  BY DEF BoardAway, LedsShowPattern, PartMode
<1>3. MCSpec => []BoardAway
  BY <1>1, BoardStaysAway, PTL DEF MCSpec
<1>4. ~(focus = "board") /\ [MCNext]_allVars => (~(focus = "board"))'
  BY PartsStep
<1>5. MCSpec => (focus = "board" => []LedsShowPattern)
  BY EachPart, LedsShowThePattern, PTL
<1>6. MCSpec => []LedsShowPattern
  BY <1>2, <1>3, <1>4, <1>5, PTL DEF MCSpec
<1> QED
  BY <1>6, EachPart, BytesGetOut, PortKeepsOrder, ParserHearsTheWire, RoundTrips, PTL
=============================================================================
