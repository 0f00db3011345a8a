--------------------------- MODULE MCEventHistory ---------------------------
(* The history with a recorded reset and an input: the ghost of a playback. *)
EXTENDS EventHistory

GhostLimits == {[time |-> 8, inputs |-> 2, requests |-> 4]}
=============================================================================
