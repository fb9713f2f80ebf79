---------------------------- MODULE DemoController ----------------------------
(***************************************************************************)
(* DemoController of dashboard/backend/controls.py.  HTTP threads, any     *)
(* number of them, start and stop gateway runs, inject outages and poll    *)
(* the status under one lock; a scripted resilience run has a thread of    *)
(* its own that takes no lock; the main thread shuts everything down.      *)
(* The diagnostic session it can also start is not part of this module.    *)
(*                                                                         *)
(* An action under the lock that cannot block is one step.  The calls that *)
(* block while the lock is held are split where they block, and `lock`     *)
(* says in which of them its holder is; which thread that is makes no      *)
(* difference to the rest.  A refused action (ActionError) changes nothing *)
(* and is no step.                                                         *)
(*                                                                         *)
(* Gateway runs are numbered as they are started, live and scripted alike. *)
(* Of the gateway of the live run only what the status shows is modelled:  *)
(* EdgeGateway has the rest.                                               *)
(***************************************************************************)
EXTENDS Integers

CONSTANTS
  MaxRuns,      (* Bound: gateway runs started.                            *)
  MaxDepth,     (* Bound: rows in the live run's buffer.                   *)
  BatchSize     (* REPLAY_BATCH_SIZE.                                      *)

ASSUME RunsAssumption == MaxRuns \in Nat \ {0}
ASSUME DepthAssumption == MaxDepth \in Nat \ {0}
ASSUME BatchAssumption == BatchSize \in Nat \ {0}

VARIABLES
  lock,         (* "free", or where the holder of _lock is                 *)
  main,         (* how far Dashboard.stop() is                             *)
  live,         (* _live: the number of the live run, 0: None              *)
  runs,         (* runs started so far                                     *)
  run,          (* of each run: its gateway thread, its stop_event, whether*)
                (* its bus, buffer and publisher are closed, and whether a *)
                (* join of the thread timed out                            *)
  outage,       (* outage_stack and outage_cleared_pending of the live run *)
  gateway,      (* the live run's gateway, as far as it is looked at       *)
  scripted,     (* _scripted["status"], _scripted_thread and its run       *)
  recentReplay, (* a replay was logged in the last RECENT_REPLAY_SECONDS   *)
  seen,         (* what a status() call has read so far                    *)
  stored        (* history: whether the live run has stored a row so far,  *)
                (* and whether it had when status() read the depth         *)

controlVars == <<lock, main, live, runs>>
statusVars == <<seen, stored>>
vars == <<controlVars, run, outage, gateway, scripted, recentReplay, statusVars>>

Run == 1 .. MaxRuns

(* The gateway of a run that just connected.  `outage` is the publisher's  *)
(* _simulated_outage, `owed` the gateway's _replay_requested, `at` where   *)
(* its thread is: in one of the steps of a reconnect or a replay, or in    *)
(* the loop, which stands for the rest of run_once(), in any order.  Of a  *)
(* replay, `batch` and `acked` are the lengths of batch and confirmed_ids, *)
(* and `replayed` says that record_replayed() was called.                  *)
FreshGateway ==
  [connected |-> TRUE, outage |-> FALSE, at |-> "loop", owed |-> FALSE,
   depth |-> 0, batch |-> 0, acked |-> 0, replayed |-> FALSE]

(* read_buffer_depth() without an answer: None. *)
Unknown == -1

NoOutage == [stack |-> FALSE, pending |-> FALSE]
NothingSeen == [connected |-> FALSE, outage |-> "none", depth |-> Unknown, replayed |-> FALSE]
NothingStored == [soFar |-> FALSE, whenRead |-> FALSE]

TypeOK ==
  /\ lock \in {"free", "connecting", "joining", "closing", "depth", "metrics", "age"}
  /\ main \in {"serving", "stopping", "waiting", "closed"}
  /\ live \in 0 .. MaxRuns
  /\ runs \in 0 .. MaxRuns
  /\ run \in [Run -> [thread : {"none", "alive", "dead"}, stop : BOOLEAN,
                      closed : BOOLEAN, late : BOOLEAN]]
  /\ outage \in [stack : BOOLEAN, pending : BOOLEAN]
  /\ gateway \in [connected : BOOLEAN, outage : BOOLEAN, owed : BOOLEAN,
                  at : {"loop", "reconnect", "peek", "row", "publish", "remove", "log"},
                  depth : 0 .. MaxDepth, batch : 0 .. MaxDepth, acked : 0 .. MaxDepth,
                  replayed : BOOLEAN]
  /\ scripted \in [status : {"not run", "running", "passed", "failed"}, run : 0 .. MaxRuns,
                   thread : {"none", "setup", "stages", "joining", "returned", "reported", "dead"}]
  /\ recentReplay \in BOOLEAN
  /\ seen \in [connected : BOOLEAN, outage : {"active", "cleared", "none"},
               depth : {Unknown} \cup (0 .. MaxDepth), replayed : BOOLEAN]
  /\ stored \in [soFar : BOOLEAN, whenRead : BOOLEAN]

Init ==
  /\ lock = "free"
  /\ main = "serving"
  /\ live = 0
  /\ runs = 0
  /\ run = [r \in Run |-> [thread |-> "none", stop |-> FALSE, closed |-> FALSE, late |-> FALSE]]
  /\ outage = NoOutage
  /\ gateway = FreshGateway
  /\ scripted = [status |-> "not run", run |-> 0, thread |-> "none"]
  /\ recentReplay = FALSE
  /\ seen = NothingSeen
  /\ stored = NothingStored

(* A request gets the lock while the server still takes connections. *)
Enters == lock = "free" /\ main # "closed"

(* Mutant of ScriptedAlive: a scripted run counts once its gateway runs.   *)
ScriptedUnderWay == scripted.thread \notin {"none", "setup", "dead"}

(* _scripted_running() *)
ScriptedAlive == scripted.thread \notin {"none", "dead"}

(* A join ends when the thread has, or after THREAD_JOIN_TIMEOUT_SECONDS.  *)
JoinOf(r) == [run EXCEPT ![r].late = @ \/ run[r].thread = "alive"]

-----------------------------------------------------------------------------
(* start_live()                                                            *)

(* The checks, and _LiveRun.__init__ up to publisher.connect(). *)
BeginLive ==
  /\ Enters
  /\ live = 0
  /\ ~ScriptedAlive
  /\ runs < MaxRuns
  /\ runs' = runs + 1
  /\ lock' = "connecting"
  /\ UNCHANGED <<main, live, run, outage, gateway, scripted, recentReplay, statusVars>>

(* Mutant of LiveFails: only the lock is given back. *)
LiveFailsOpen ==
  /\ lock = "connecting"
  /\ lock' = "free"
  /\ UNCHANGED <<main, live, runs, run, outage, gateway, scripted, recentReplay, statusVars>>

(* connect() raises, or the buffer cannot be opened: what was opened is    *)
(* closed again and the action fails.                                      *)
LiveFails ==
  /\ lock = "connecting"
  /\ lock' = "free"
  /\ run' = [run EXCEPT ![runs].closed = TRUE]
  /\ UNCHANGED <<main, live, runs, outage, gateway, scripted, recentReplay, statusVars>>

LiveStarts ==
  /\ lock = "connecting"
  /\ lock' = "free"
  /\ live' = runs
  /\ run' = [run EXCEPT ![runs].thread = "alive"]
  /\ outage' = NoOutage
  /\ gateway' = FreshGateway
  /\ stored' = NothingStored
  /\ UNCHANGED <<main, runs, scripted, recentReplay, seen>>

-----------------------------------------------------------------------------
(* stop_live(), called by a handler or by shutdown().  Nothing is started  *)
(* meanwhile, so the run being stopped is the last one started.            *)

(* Mutant of TakeLiveOut: an injected outage is left to the publisher.     *)
TakeLiveOutInOutage ==
  /\ live # 0
  /\ lock' = "joining"
  /\ live' = 0
  /\ run' = [run EXCEPT ![live].stop = TRUE]
  /\ UNCHANGED <<runs, outage, gateway, scripted, recentReplay, statusVars>>

(* _live is taken out, its outage ends, stop_event is set; _join() begins. *)
TakeLiveOut ==
  /\ live # 0
  /\ lock' = "joining"
  /\ live' = 0
  /\ run' = [run EXCEPT ![live].stop = TRUE]
  /\ outage' = [outage EXCEPT !.stack = FALSE]
  /\ gateway' = IF outage.stack THEN [gateway EXCEPT !.outage = FALSE] ELSE gateway
  /\ UNCHANGED <<runs, scripted, recentReplay, statusVars>>

BeginStop == Enters /\ TakeLiveOut /\ UNCHANGED main

(* _join() returns, and the final metrics are read. *)
Joined ==
  /\ lock = "joining"
  /\ lock' = "closing"
  /\ run' = JoinOf(runs)
  /\ UNCHANGED <<main, live, runs, outage, gateway, scripted, recentReplay, statusVars>>

(* Mutant of Closed: a run whose join timed out is left open. *)
ClosedIfJoined ==
  /\ lock = "closing"
  /\ lock' = "free"
  /\ run' = [JoinOf(runs) EXCEPT ![runs].closed = run[runs].thread = "dead"]
  /\ main' = IF main = "stopping" THEN "waiting" ELSE main
  /\ gateway' = [FreshGateway EXCEPT !.connected = FALSE]
  /\ stored' = NothingStored
  /\ UNCHANGED <<live, runs, outage, scripted, recentReplay, seen>>

(* The ExitStack: another join, then the buses, the buffer, the publisher, *)
(* the temporary directory.  Nothing looks at this gateway again.          *)
Closed ==
  /\ lock = "closing"
  /\ lock' = "free"
  /\ run' = [JoinOf(runs) EXCEPT ![runs].closed = TRUE]
  /\ main' = IF main = "stopping" THEN "waiting" ELSE main
  /\ gateway' = [FreshGateway EXCEPT !.connected = FALSE]
  /\ stored' = NothingStored
  /\ UNCHANGED <<live, runs, outage, scripted, recentReplay, seen>>

-----------------------------------------------------------------------------
(* inject_outage(), clear_outage()                                         *)

InjectOutage ==
  /\ Enters
  /\ live # 0
  /\ ~outage.stack
  /\ outage' = [stack |-> TRUE, pending |-> FALSE]
  /\ gateway' = [gateway EXCEPT !.outage = TRUE, !.connected = FALSE]
  /\ UNCHANGED <<controlVars, run, scripted, recentReplay, statusVars>>

ClearOutage ==
  /\ Enters
  /\ live # 0
  /\ outage.stack
  /\ outage' = [stack |-> FALSE, pending |-> TRUE]
  /\ gateway' = [gateway EXCEPT !.outage = FALSE]
  /\ UNCHANGED <<controlVars, run, scripted, recentReplay, statusVars>>

-----------------------------------------------------------------------------
(* start_resilience_run() and the thread it starts                         *)

StartResilienceRun ==
  /\ Enters
  /\ live = 0
  /\ ~ScriptedAlive
  /\ runs < MaxRuns
  /\ runs' = runs + 1
  /\ scripted' = [status |-> "running", run |-> runs + 1, thread |-> "setup"]
  /\ UNCHANGED <<lock, main, live, run, outage, gateway, recentReplay, statusVars>>

(* A step of that thread, which takes no lock. *)
ScriptedStep(from, to, status) ==
  /\ scripted.thread = from
  /\ scripted' = [scripted EXCEPT !.thread = to, !.status = status]
  /\ UNCHANGED <<controlVars, outage, gateway, recentReplay, statusVars>>

(* run_scenario() gets its gateway going, or fails before it does. *)
ScenarioStarts ==
  /\ ScriptedStep("setup", "stages", "running")
  /\ run' = [run EXCEPT ![scripted.run].thread = "alive"]

ScenarioSetupFails ==
  /\ ScriptedStep("setup", "returned", "running")
  /\ run' = [run EXCEPT ![scripted.run].closed = TRUE]

(* _stop_threads(), after the last stage or the first that failed. *)
ScenarioStops ==
  /\ ScriptedStep("stages", "joining", "running")
  /\ run' = [run EXCEPT ![scripted.run].stop = TRUE]

(* Mutant of ScenarioReturns: the joins are left out. *)
ScenarioReturnsAtOnce ==
  /\ ScriptedStep("joining", "returned", "running")
  /\ run' = [run EXCEPT ![scripted.run].closed = TRUE]

(* The joins return and the ExitStack closes what the run used. *)
ScenarioReturns ==
  /\ ScriptedStep("joining", "returned", "running")
  /\ run' = [JoinOf(scripted.run) EXCEPT ![scripted.run].closed = TRUE]

(* Mutant of ScriptedReports: a failed scenario leaves the status alone.   *)
ScriptedReportsSuccess ==
  /\ \E status \in {"running", "passed"} : ScriptedStep("returned", "reported", status)
  /\ UNCHANGED run

(* _run_scripted() writes the result.  A run that never started, or whose  *)
(* gateway did not stop in time, does not pass.                            *)
ScriptedReports ==
  /\ \E status \in {"passed", "failed"} :
       /\ ScriptedStep("returned", "reported", status)
       /\ run[scripted.run].thread = "none" \/ run[scripted.run].late => status = "failed"
  /\ UNCHANGED run

ScriptedEnds == ScriptedStep("reported", "dead", scripted.status) /\ UNCHANGED run

-----------------------------------------------------------------------------
(* status(): four reads under the lock, none of them atomic with the       *)
(* gateway's own steps.                                                    *)

(* Mutant of NextRead: the metrics are read before the depth. *)
NextReadMetricsFirst(read) ==
  CASE read = "connection" -> "metrics"
    [] read = "metrics" -> "depth"
    [] read = "depth" -> "age"

(* The order of the reads. *)
NextRead(read) ==
  CASE read = "connection" -> "depth"
    [] read = "depth" -> "metrics"
    [] read = "metrics" -> "age"

(* is_connected() once; a pending "cleared" ends if it is seen connected.  *)
StatusConnection ==
  LET pending == outage.pending /\ ~gateway.connected
  IN /\ Enters
     /\ live # 0
     /\ lock' = NextRead("connection")
     /\ outage' = [outage EXCEPT !.pending = pending]
     /\ seen' = [NothingSeen EXCEPT !.connected = gateway.connected, !.outage =
                   IF outage.stack THEN "active" ELSE IF pending THEN "cleared" ELSE "none"]
     /\ UNCHANGED <<main, live, runs, run, gateway, scripted, recentReplay, stored>>

(* read_buffer_depth() over a connection of its own, which may fail. *)
StatusDepth ==
  /\ lock = "depth"
  /\ lock' = NextRead("depth")
  /\ \E depth \in {gateway.depth, Unknown} : seen' = [seen EXCEPT !.depth = depth]
  /\ stored' = [stored EXCEPT !.whenRead = stored.soFar]
  /\ UNCHANGED <<main, live, runs, run, outage, gateway, scripted, recentReplay>>

(* metrics_snapshot() *)
StatusMetrics ==
  /\ lock = "metrics"
  /\ lock' = NextRead("metrics")
  /\ seen' = [seen EXCEPT !.replayed = gateway.replayed]
  /\ UNCHANGED <<main, live, runs, run, outage, gateway, scripted, recentReplay, stored>>

(* derive_resilience_state(running=True, ...) *)
Lifecycle(connected, cause, depth, replayed, recent) ==
  CASE depth = Unknown -> "UNKNOWN"
    [] ~connected /\ depth = 0 -> "OUTAGE"
    [] ~connected /\ depth > 0 /\ cause = "cleared" -> "RECONNECTING"
    [] ~connected /\ depth > 0 /\ cause # "cleared" -> "BUFFERING"
    [] connected /\ depth > 0 /\ recent -> "REPLAYING"
    [] connected /\ depth > 0 /\ ~recent -> "BUFFERING"
    [] connected /\ depth = 0 /\ replayed -> "RECOVERED"
    [] connected /\ depth = 0 /\ ~replayed -> "NORMAL"

(* What a status() that reads last_replay_age() now answers. *)
Answer == Lifecycle(seen.connected, seen.outage, seen.depth, seen.replayed, recentReplay)

(* Mutant of StatusAnswers: a status() call waits for the connection.      *)
StatusAwaitsConnection ==
  /\ lock = "age"
  /\ gateway.connected
  /\ lock' = "free"
  /\ seen' = NothingSeen
  /\ stored' = [stored EXCEPT !.whenRead = FALSE]
  /\ UNCHANGED <<main, live, runs, run, outage, gateway, scripted, recentReplay>>

StatusAnswers ==
  /\ lock = "age"
  /\ lock' = "free"
  /\ seen' = NothingSeen
  /\ stored' = [stored EXCEPT !.whenRead = FALSE]
  /\ UNCHANGED <<main, live, runs, run, outage, gateway, scripted, recentReplay>>

-----------------------------------------------------------------------------
(* Dashboard.stop()                                                        *)

(* controller.shutdown(): stop_live() if a run is live, within the lock.   *)
BeginShutdown ==
  /\ main = "serving"
  /\ lock = "free"
  /\ \/ main' = "stopping" /\ TakeLiveOut
     \/ /\ live = 0
        /\ main' = "waiting"
        /\ UNCHANGED <<lock, live, runs, run, outage, gateway, scripted, recentReplay, statusVars>>

(* The joins of the two background threads end (60 s at most), then        *)
(* httpd.shutdown() turns new requests away.                               *)
ServerCloses ==
  /\ main = "waiting"
  /\ main' = "closed"
  /\ UNCHANGED <<lock, live, runs, run, outage, gateway, scripted, recentReplay, statusVars>>

-----------------------------------------------------------------------------
(* The gateway threads, and paho's                                        *)

(* A step of the thread of the live run's gateway. *)
GatewayStep(from, next) ==
  /\ live # 0
  /\ run[live].thread = "alive"
  /\ gateway.at = from
  /\ gateway' = next
  /\ UNCHANGED <<controlVars, run, outage, scripted, seen>>

(* A publish fails, refused or unconfirmed, and the event is stored. *)
GatewayBuffers ==
  /\ gateway.depth < MaxDepth
  /\ GatewayStep("loop", [gateway EXCEPT !.depth = @ + 1])
  /\ stored' = [stored EXCEPT !.soFar = TRUE]
  /\ UNCHANGED recentReplay

(* try_reconnect() looks at the outage when it begins, and not again. *)
GatewayAttempts ==
  /\ ~gateway.connected /\ ~gateway.outage
  /\ GatewayStep("loop", [gateway EXCEPT !.at = "reconnect"])
  /\ UNCHANGED <<recentReplay, stored>>

GatewayReconnects ==
  /\ GatewayStep("reconnect", [gateway EXCEPT !.at = "loop", !.connected = TRUE, !.owed = TRUE])
  /\ UNCHANGED <<recentReplay, stored>>

(* The broker cannot be reached: the next attempt is a new one. *)
GatewayAttemptFails ==
  /\ GatewayStep("reconnect", [gateway EXCEPT !.at = "loop"])
  /\ UNCHANGED <<recentReplay, stored>>

GatewayBeginsReplay ==
  /\ gateway.connected /\ gateway.owed
  /\ GatewayStep("loop", [gateway EXCEPT !.at = "peek"])
  /\ UNCHANGED <<recentReplay, stored>>

(* peek_batch(): nothing left, or the next batch. *)
GatewayDrained ==
  /\ gateway.depth = 0
  /\ GatewayStep("peek", [gateway EXCEPT !.at = "loop", !.owed = FALSE])
  /\ UNCHANGED <<recentReplay, stored>>

GatewayPeeks ==
  /\ gateway.depth > 0
  /\ GatewayStep("peek",
       [gateway EXCEPT !.at = "row",
                       !.batch = IF gateway.depth < BatchSize THEN gateway.depth ELSE BatchSize])
  /\ UNCHANGED <<recentReplay, stored>>

GatewayPublishes ==
  /\ gateway.connected /\ gateway.acked < gateway.batch
  /\ GatewayStep("row", [gateway EXCEPT !.at = "publish"])
  /\ UNCHANGED <<recentReplay, stored>>

(* publish() returns True, also if the connection is lost by then. *)
GatewayConfirmed ==
  /\ GatewayStep("publish",
       [gateway EXCEPT !.at = "row", !.acked = @ + 1, !.replayed = TRUE])
  /\ UNCHANGED <<recentReplay, stored>>

(* What the pass over a batch goes on with once it stops. *)
PassStopped ==
  IF gateway.acked > 0 THEN [gateway EXCEPT !.at = "remove"]
                       ELSE [gateway EXCEPT !.at = "loop", !.batch = 0]

GatewayUnconfirmed ==
  /\ GatewayStep("publish", PassStopped)
  /\ UNCHANGED <<recentReplay, stored>>

(* The connection is found lost before a row, or no row of the batch is    *)
(* left.                                                                   *)
GatewayStopsPass ==
  /\ ~gateway.connected \/ gateway.acked = gateway.batch
  /\ GatewayStep("row", PassStopped)
  /\ UNCHANGED <<recentReplay, stored>>

(* remove(confirmed_ids), connected or not. *)
GatewayRemoves ==
  /\ GatewayStep("remove", [gateway EXCEPT !.at = "log", !.depth = @ - gateway.acked])
  /\ UNCHANGED <<recentReplay, stored>>

(* The log line reaches the dashboard, and the next batch is looked for if *)
(* this one was confirmed to its end.                                      *)
GatewayLogs ==
  /\ GatewayStep("log",
       [gateway EXCEPT !.at = IF gateway.acked = gateway.batch THEN "peek" ELSE "loop",
                       !.batch = 0, !.acked = 0])
  /\ recentReplay' = TRUE
  /\ UNCHANGED stored

(* _handle_disconnect() on paho's thread, whatever the gateway's does. *)
ConnectionDrops ==
  /\ live # 0
  /\ gateway.connected
  /\ gateway' = [gateway EXCEPT !.connected = FALSE]
  /\ UNCHANGED <<controlVars, run, outage, scripted, recentReplay, statusVars>>

(* The logged replay is one of another gateway still running (scripted, or *)
(* one that outlived the join of its stop), or it is no longer recent.     *)
RecentReplayChanges ==
  /\ \/ recentReplay
     \/ \E r \in Run \ {live} : run[r].thread = "alive"
  /\ recentReplay' = ~recentReplay
  /\ UNCHANGED <<controlVars, run, outage, gateway, scripted, statusVars>>

(* An error of the buffer or of the bus leaves run_once() and ends the     *)
(* thread, and nothing else.                                               *)
GatewayDies(r) ==
  /\ run[r].thread = "alive"
  /\ ~run[r].stop /\ ~run[r].closed
  /\ run' = [run EXCEPT ![r].thread = "dead"]
  /\ UNCHANGED <<controlVars, outage, gateway, scripted, recentReplay, statusVars>>

(* run() sees stop_event, or an exception of a closed bus or buffer. *)
GatewayEnds(r) ==
  /\ run[r].thread = "alive"
  /\ run[r].stop \/ run[r].closed
  /\ run' = [run EXCEPT ![r].thread = "dead"]
  /\ UNCHANGED <<controlVars, outage, gateway, scripted, recentReplay, statusVars>>

-----------------------------------------------------------------------------
Request ==
  \/ BeginLive
  \/ BeginStop
  \/ InjectOutage
  \/ ClearOutage
  \/ StartResilienceRun
  \/ StatusConnection

(* The thread that holds the lock goes on. *)
HolderProceeds ==
  \/ LiveFails
  \/ LiveStarts
  \/ Joined
  \/ Closed
  \/ StatusDepth
  \/ StatusMetrics
  \/ StatusAnswers

ScriptedProceeds ==
  \/ ScenarioStarts
  \/ ScenarioSetupFails
  \/ ScenarioStops
  \/ ScenarioReturns
  \/ ScriptedReports
  \/ ScriptedEnds

Shutdown == BeginShutdown \/ ServerCloses

GatewayThreads ==
  \/ GatewayBuffers
  \/ GatewayAttempts
  \/ GatewayReconnects
  \/ GatewayAttemptFails
  \/ GatewayBeginsReplay
  \/ GatewayDrained
  \/ GatewayPeeks
  \/ GatewayPublishes
  \/ GatewayConfirmed
  \/ GatewayUnconfirmed
  \/ GatewayStopsPass
  \/ GatewayRemoves
  \/ GatewayLogs
  \/ ConnectionDrops
  \/ RecentReplayChanges
  \/ \E r \in Run : GatewayDies(r) \/ GatewayEnds(r)

Next ==
  Request \/ HolderProceeds \/ ScriptedProceeds \/ Shutdown \/ GatewayThreads

Spec == Init /\ [][Next]_vars

=============================================================================
