------------------------------- MODULE RunStates -------------------------------
(***************************************************************************)
(* The vocabulary of a run's lifecycle: RunStatus (core/domain/run.py) and *)
(* _CONTROL_ACTION_TRANSITIONS (core/simulation/tick_loop.py).             *)
(***************************************************************************)

RunStatus == {"pending", "running", "paused", "stopped", "completed"}

Terminal == {"stopped", "completed"}

ControlAction == {"start", "pause", "resume", "stop"}

\* The state a control action leads to ...
Target == [start |-> "running", pause |-> "paused",
           resume |-> "running", stop |-> "stopped"]

\* ... and the states it is accepted in.
AllowedFrom == [start  |-> {"pending"},
                pause  |-> {"pending", "running", "paused"},
                resume |-> {"pending", "paused", "running"},
                stop   |-> {"pending", "running", "paused", "stopped"}]
===============================================================================
