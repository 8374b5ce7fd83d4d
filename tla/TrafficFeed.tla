---------------------------- MODULE TrafficFeed -----------------------------
(***************************************************************************)
(* What the reports promise of the traffic meter, without channel, tasks   *)
(* or connections: the meter takes samples, the reports show every one of  *)
(* them, once and in order, and the meter waits when it is Lag samples     *)
(* ahead of what was shown.                                                *)
(***************************************************************************)
EXTENDS Naturals

CONSTANT Lag  \* how many samples the meter may be ahead

VARIABLES sampled,  \* the number of samples taken
          shown     \* the number of the sample that reports show

Init == sampled = 0 /\ shown = 0

Take ==
  /\ sampled < shown + Lag
  /\ sampled' = sampled + 1
  /\ UNCHANGED shown

Show ==
  /\ shown < sampled
  /\ shown' = shown + 1
  /\ UNCHANGED sampled

Spec == Init /\ [][Take \/ Show]_<<sampled, shown>>
=============================================================================
