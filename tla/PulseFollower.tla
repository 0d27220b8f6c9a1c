--------------------------- MODULE PulseFollower ---------------------------
(***************************************************************************)
(* What a drum machine that follows an external clock promises: once       *)
(* started, it plays a step on every length-th pulse, the first pulse      *)
(* included, and never in between, unless a step is shorter than a pulse.  *)
(***************************************************************************)
EXTENDS Integers

VARIABLES
  following,   \* it follows the pulses, since the last start
  length,      \* pulses to a step
  since,       \* pulses since the last step
  pulse, step  \* flip with each pulse and with each step

followVars == <<following, length, since, pulse, step>>

\* The next pulse is the downbeat.
Follow ==
  /\ following' = TRUE
  /\ length' = length /\ since' = length - 1
  /\ UNCHANGED <<pulse, step>>

Pulse ==
  /\ following /\ following'
  /\ pulse' = ~pulse
  /\ step' = IF since + 1 = length THEN ~step ELSE step
  /\ since' = IF since + 1 = length THEN 0 ELSE since + 1
  /\ length' = length

Subdivide ==
  /\ following /\ following' /\ length = 1
  /\ step' = ~step
  /\ UNCHANGED <<length, since, pulse>>

\* Another pre-scale, in the middle of a step that is not yet too long for it.
Rescale ==
  /\ following /\ following'
  /\ length' > since
  /\ UNCHANGED <<since, pulse, step>>

Free == ~following /\ ~following'
Lose == following /\ ~following'

FollowInit == following = FALSE
FollowNext == Follow \/ Pulse \/ Subdivide \/ Rescale \/ Free \/ Lose
FollowSpec == FollowInit /\ [][FollowNext]_followVars
=============================================================================
