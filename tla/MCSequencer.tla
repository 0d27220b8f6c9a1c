---------------------------- MODULE MCSequencer ----------------------------
(* Small instances of Sequencer for TLC. *)
EXTENDS Sequencer

MCPreScale == <<2, 3>>
MCFillModes == <<0, 2, 1>>
MCTrack == <<0, 1>>

Record(first, second, scale, shuffle) ==
  [step_num |-> [p \in Part |-> IF p = FIRST THEN first ELSE second],
   pre_scale |-> scale, shuffle |-> shuffle]

\* One part of two steps; two parts at the other pre-scale.
MCStored == {Record(1, NO_STEPS, 1, 0), Record(0, 1, 2, 0)}

\* One record in every slot, so that a counterexample owes nothing to what is read.
MCTwoParts == {Record(0, 1, 2, 0)}

MCOnePreScale == <<2>>
MCOneStored == {Record(0, NO_STEPS, 1, 0)}

\* Parts of one step: one part, and two parts.
MCLiveStored == {Record(0, NO_STEPS, 1, 0), Record(0, 0, 1, 0)}

MCAny == Pattern
MCBasic == 0..(NumBasic - 1)

MCShufflePreScale == <<5, 6>>
MCShuffled == {Record(1, NO_STEPS, 1, 0), Record(0, 1, 2, 2)}
=============================================================================
