---- MODULE MCRunning ----
EXTENDS RunningState
====
