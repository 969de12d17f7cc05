---------------------------- MODULE MCEnableStops ----------------------------
(* The instance of the liveness run: the services of a behaviour are        *)
(* either enable, or disable and reset after a restart of the process.      *)
EXTENDS EnableProperties

VARIABLE callers    \* the services that are called in this behaviour

OneBatch == <<{1}>>

StopsInit == Init /\ callers \in {{"enable"}, {"disable", "reset"}}

StopsNext ==
  /\ Next
  /\ \A s \in Services \ callers : pc'[s] = "idle"
  /\ UNCHANGED callers

StopsSpec == StopsInit /\ [][StopsNext]_<<vars, callers>> /\ Fairness
=============================================================================
