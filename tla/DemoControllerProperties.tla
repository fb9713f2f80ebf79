----------------------- MODULE DemoControllerProperties -----------------------
(***************************************************************************)
(* What the dashboard's controller guarantees, whatever the threads do.    *)
(***************************************************************************)
EXTENDS DemoController

(***************************************************************************)
(* Safety.                                                                 *)
(***************************************************************************)

(* Of all the gateways ever started at most one has not been told to stop, *)
(* live and scripted runs together: they share the VirtualBus channel      *)
(* (start_live(), start_resilience_run(), stop_live()).                    *)
OneGatewayRun ==
  \A r, s \in Run :
    /\ run[r].thread = "alive" /\ ~run[r].stop
    /\ run[s].thread = "alive" /\ ~run[s].stop
    => r = s

(* No run leaks: whenever the lock is free, every run that was started and *)
(* is neither live nor the scripted thread's has had its threads told to   *)
(* stop and its bus, buffer and publisher closed, whether it failed to     *)
(* start, was stopped or was shut down (_LiveRun's ExitStack).             *)
NoRunLeaks ==
  lock = "free" =>
    \A r \in 1 .. runs :
      r = live \/ (r = scripted.run /\ ScriptedAlive)
        \/ (run[r].closed /\ (run[r].thread = "alive" => run[r].stop))

(* A gateway's bus, buffer and publisher are closed under it only when a   *)
(* join of its thread timed out (cleanup order of _LiveRun and             *)
(* run_scenario(): the joins come first).                                  *)
ClosedOnlyAfterJoin ==
  \A r \in Run : run[r].closed /\ run[r].thread = "alive" => run[r].late

(* The controller's idea of the outage and the publisher's agree whenever  *)
(* no action is under way, and no outage outlives the run it was for.      *)
OutageAgrees ==
  lock \in {"free", "depth", "metrics", "age"} =>
    gateway.outage = outage.stack /\ (outage.stack => live # 0)

(* Work that is over says so: a background thread that ended has replaced  *)
(* "running" (written without the lock by the thread itself), and one that *)
(* is still at work has not been reported on.                              *)
EndedWorkIsReported ==
  /\ scripted.thread = "dead" => scripted.status \in {"passed", "failed"}
  /\ scripted.thread \in {"setup", "stages", "joining"} => scripted.status = "running"

(* status() answers NORMAL only of a run that had stored no row yet when   *)
(* it read the depth: an outage that left rows is never passed over,       *)
(* wherever the gateway is with a replay between the reads (status(),      *)
(* derive_resilience_state(); _replay_buffered() counts a row as replayed  *)
(* before it removes it, and status() reads the counter after the depth).  *)
NormalIsUntroubled ==
  lock = "age" /\ Answer = "NORMAL" => ~stored.whenRead

(***************************************************************************)
(* Liveness.                                                               *)
(***************************************************************************)

(* connect() and the reads return, the joins have timeouts, background     *)
(* threads and a stopped gateway come to their end.                        *)
Fairness ==
  /\ WF_vars(HolderProceeds)
  /\ WF_vars(ScriptedProceeds)
  /\ \A r \in Run : WF_vars(GatewayEnds(r))

FairSpec == Spec /\ Fairness

(* Whoever takes the lock gives it back, a stop included: no request waits *)
(* behind a deadlocked one.                                                *)
LockIsReleased == lock # "free" ~> lock = "free"

(* A gateway that is told to stop ends and its run is closed. *)
StoppedRunsEnd ==
  \A r \in Run : run[r].stop ~> run[r].thread = "dead" /\ run[r].closed

==============================================================================
