-------------------------------- MODULE DemoRun --------------------------------
(***************************************************************************)
(* main() of run_demo.py from its configuration to its end, around one     *)
(* gateway thread that lives by the clock of ReconnectBackoff.  What the   *)
(* thread publishes and replays is only counted (EdgeGateway follows the   *)
(* events).  Here are the ways a run ends badly: a write to the SQLite     *)
(* file that fails, which ends the gateway's thread, and a thread that is  *)
(* still in its iteration when main() stops waiting for it, so that buses, *)
(* publisher and buffer are closed under it.                               *)
(*                                                                         *)
(* Rejected frames, the ECUs' threads and their joins are left out, and    *)
(* one batch of a replay holds the whole table.                            *)
(***************************************************************************)
EXTENDS ReconnectBackoff

CONSTANTS
  MaxSize,        (* max_size of the buffer                                *)
  JoinTimeout,    (* gateway_thread.join(timeout=2)                        *)
  MaxEvents       (* Bound: events accepted in one run.                    *)

ASSUME DemoAssumption == MaxSize \in Nat \ {0} /\ JoinTimeout \in Nat /\ MaxEvents \in Nat

VARIABLES
  env,            (* what of AWS_IOT_* is set, and is good                 *)
  target,         (* the broker the publisher was built for                *)
  main,           (* where main() is                                       *)
  joinFor,        (* for how long it has been in gateway_thread.join()     *)
  stop,           (* stop_event                                            *)
  looping,        (* paho's network thread runs (loop_start/loop_stop)     *)
  busOpen,
  bufferOpen,
  diskFull,       (* writes to the SQLite file fail                        *)
  rows,           (* committed rows of pending_telemetry                   *)
  dropped,        (* dropped_count                                         *)
  step,           (* where in the rest of its iteration the thread is      *)
  requested,      (* _replay_requested                                     *)
  confirmed,      (* rows of the running replay pass that were confirmed   *)
  accepted,       (* events accepted                                       *)
  count,          (* GatewayMetrics                                        *)
  summary,        (* the counters "demo stopped" reports ...               *)
  still           (* ... and its still_buffered; -1: not read yet          *)

(* History. *)
VARIABLES
  startRows,      (* rows an earlier run left                              *)
  stored,         (* events whose row was committed                        *)
  lost,           (* events neither acknowledged nor stored                *)
  diskFailed,     (* a write of the gateway's thread failed                *)
  late            (* the join timed out                                    *)

mainVars == <<env, target, main, joinFor, stop, summary, still, startRows, late>>
openVars == <<looping, busOpen, bufferOpen>>
bufferVars == <<rows, dropped, stored, lost, diskFailed>>
threadVars == <<step, requested, confirmed, accepted, count>>
demoVars == <<mainVars, openVars, bufferVars, threadVars, diskFull>>
vars == <<clockVars, demoVars>>

Required == {"AWS_IOT_ENDPOINT", "AWS_IOT_CA_PATH", "AWS_IOT_CERT_PATH", "AWS_IOT_KEY_PATH"}
Paths == Required \ {"AWS_IOT_ENDPOINT"}
Environment == [set : SUBSET Required, files : SUBSET Paths, port : BOOLEAN]
NoEnv == [set |-> {}, files |-> {}, port |-> TRUE]

Counters == {"processed", "publish_failures", "buffered", "replayed", "dropped"}
NoCount == [c \in Counters |-> 0]

Steps ==
  {"gate", "remove", "removed", "recv", "publish", "await", "failed", "insert", "trim",
   "commit", "stored", "log", "final"}
MainSteps ==
  {"config", "connect", "open", "running", "joining", "buses", "disconnect", "snapshot",
   "count", "close", "done", "exited", "failed"}

EventInHand == at = "rest" /\ step \in {"publish", "await", "failed", "insert", "trim", "commit"}
Hand == IF EventInHand THEN 1 ELSE 0

DemoTypeOK ==
  /\ env \in Environment
  /\ target \in {"none", "local", "aws"}
  /\ main \in MainSteps
  /\ joinFor \in 0 .. JoinTimeout
  /\ stop \in BOOLEAN
  /\ looping \in BOOLEAN /\ busOpen \in BOOLEAN /\ bufferOpen \in BOOLEAN
  /\ diskFull \in BOOLEAN
  /\ rows \in 0 .. MaxSize
  /\ dropped \in Nat
  /\ step \in Steps
  /\ requested \in BOOLEAN
  /\ confirmed \in 0 .. MaxSize
  /\ accepted \in 0 .. MaxEvents
  /\ count \in [Counters -> Nat]
  /\ summary \in [Counters -> Nat]
  /\ still \in Nat \cup {-1}
  /\ startRows \in 0 .. MaxSize
  /\ stored \in Nat /\ lost \in Nat
  /\ diskFailed \in BOOLEAN /\ late \in BOOLEAN

Init ==
  /\ ClockInit
  /\ env \in Environment
  /\ target = "none"
  /\ main = "config"
  /\ joinFor = 0
  /\ stop = FALSE
  /\ looping = FALSE
  /\ busOpen = TRUE
  /\ bufferOpen = FALSE
  /\ diskFull = FALSE
  /\ rows \in 0 .. MaxSize
  /\ dropped = 0
  /\ step = "gate"
  /\ requested = FALSE
  /\ confirmed = 0
  /\ accepted = 0
  /\ count = NoCount
  /\ summary = NoCount
  /\ still = -1
  /\ startRows = rows
  /\ stored = 0
  /\ lost = 0
  /\ diskFailed = FALSE
  /\ late = FALSE

-----------------------------------------------------------------------------
(* cloud_publisher.py: which broker.                                       *)

(* load_aws_iot_config(); "none" stands for AwsIotConfigError. *)
BrokerFor(e) ==
  CASE e.set = {} -> "local"
    [] e.set = Required /\ Paths \subseteq e.files /\ e.port -> "aws"
    [] OTHER -> "none"

(* build_publisher_from_env(); the error is not caught. *)
Configure ==
  /\ main = "config"
  /\ target' = BrokerFor(env)
  /\ main' = IF target' = "none" THEN "failed" ELSE "connect"
  /\ env' = NoEnv
  /\ UNCHANGED <<clockVars, joinFor, stop, summary, still, startRows, late,
                 openVars, bufferVars, threadVars, diskFull>>

-----------------------------------------------------------------------------
(* main() up to the wait for the stop.                                     *)

ConnectPublisher ==
  /\ main = "connect"
  /\ \/ Connects /\ looping' = TRUE /\ main' = "open"
     \/ ~reachable /\ main' = "failed" /\ UNCHANGED <<clockVars, looping>>
  /\ UNCHANGED <<env, target, joinFor, stop, summary, still, startRows, late,
                 busOpen, bufferOpen, bufferVars, threadVars, diskFull>>

(* The buffer is opened, the threads are started; run() asks for a replay  *)
(* of what an earlier run left.                                            *)
StartThreads ==
  /\ main = "open"
  /\ ThreadStarts
  /\ bufferOpen' = TRUE
  /\ requested' = (rows > 0)
  /\ main' = "running"
  /\ UNCHANGED <<env, target, joinFor, stop, summary, still, startRows, late,
                 looping, busOpen, bufferVars, step, confirmed, accepted, count, diskFull>>

(* The duration is over, or Ctrl-C. *)
Stop ==
  /\ main = "running"
  /\ stop' = TRUE
  /\ main' = "joining"
  /\ UNCHANGED <<clockVars, env, target, joinFor, summary, still, startRows, late,
                 openVars, bufferVars, threadVars, diskFull>>

-----------------------------------------------------------------------------
(* The gateway's thread.                                                   *)

Goto(place) == at = "rest" /\ step' = place

(* The thread moves on within its iteration and touches nothing else. *)
Moves(from, to) ==
  /\ step = from
  /\ Goto(to)
  /\ UNCHANGED <<clockVars, requested, confirmed, accepted, bufferVars>>

Counted(c, n) == count' = [count EXCEPT ![c] = @ + n]

(* run() looks at stop_event, then run_once() at the connection. *)
EnterIteration ==
  /\ ~stop
  /\ NoAttempt \/ AttemptStarts
  /\ step' = "gate"
  /\ UNCHANGED <<requested, confirmed, accepted, count, bufferVars>>

Reconnected ==
  /\ AttemptSucceeds
  /\ requested' = TRUE
  /\ UNCHANGED <<step, confirmed, accepted, count, bufferVars>>

NotReconnected ==
  /\ AttemptFails
  /\ UNCHANGED <<step, requested, confirmed, accepted, count, bufferVars>>

NoReplay ==
  /\ ~(requested /\ connected)
  /\ Moves("gate", "recv")
  /\ UNCHANGED count

(* peek_batch() reads; on a closed buffer it raises. *)
PeekRaises ==
  /\ requested /\ connected /\ ~bufferOpen
  /\ Moves("gate", "final")
  /\ UNCHANGED count

PeekEmpty ==
  /\ requested /\ connected /\ bufferOpen
  /\ rows = 0
  /\ step = "gate"
  /\ Goto("recv")
  /\ requested' = FALSE
  /\ UNCHANGED <<clockVars, confirmed, accepted, count, bufferVars>>

(* Mutant of Replay: the rows are counted when they are published. *)
ReplayCountedEarly ==
  /\ requested /\ connected /\ bufferOpen
  /\ step = "gate"
  /\ rows > 0
  /\ \E n \in 0 .. rows :
       /\ n > 0 => looping
       /\ confirmed' = n
       /\ Goto(IF n = 0 THEN "recv" ELSE "remove")
  /\ Counted("replayed", rows)
  /\ UNCHANGED <<clockVars, requested, accepted, bufferVars>>

(* The rows are published one after the other up to the first that fails.  *)
Replay ==
  /\ requested /\ connected /\ bufferOpen
  /\ step = "gate"
  /\ rows > 0
  /\ \E n \in 0 .. rows :
       /\ n > 0 => looping
       /\ confirmed' = n
       /\ Counted("replayed", n)
       /\ Goto(IF n = 0 THEN "recv" ELSE "remove")
  /\ UNCHANGED <<clockVars, requested, accepted, bufferVars>>

Writable == bufferOpen /\ ~diskFull

(* remove() in one transaction. *)
RemoveRows ==
  /\ Writable
  /\ step = "remove"
  /\ Goto("removed")
  /\ rows' = rows - confirmed
  /\ confirmed' = 0
  /\ UNCHANGED <<clockVars, requested, accepted, count, dropped, stored, lost, diskFailed>>

RemoveRaises ==
  /\ ~Writable
  /\ step = "remove"
  /\ Goto("final")
  /\ diskFailed' = (diskFailed \/ diskFull)
  /\ UNCHANGED <<clockVars, requested, confirmed, accepted, count, rows, dropped, stored, lost>>

(* count() for the log line, then the next batch or the CAN bus. *)
LogReplayed ==
  /\ Moves("removed", IF ~bufferOpen THEN "final" ELSE IF rows = 0 THEN "gate" ELSE "recv")
  /\ UNCHANGED count

RecvNothing ==
  /\ step = "recv"
  /\ RestEnds
  /\ UNCHANGED <<threadVars, bufferVars>>

RecvRaises ==
  /\ ~busOpen
  /\ Moves("recv", "final")
  /\ UNCHANGED count

RecvAccepted ==
  /\ busOpen
  /\ accepted < MaxEvents
  /\ step = "recv"
  /\ Goto("publish")
  /\ accepted' = accepted + 1
  /\ UNCHANGED <<clockVars, requested, confirmed, count, bufferVars>>

PublishEvent ==
  /\ Moves("publish", IF connected THEN "await" ELSE "failed")
  /\ UNCHANGED count

(* The PUBACK comes: paho's network thread has to run for that. *)
PublishConfirmed ==
  /\ step = "await"
  /\ looping
  /\ RestEnds
  /\ Counted("processed", 1)
  /\ UNCHANGED <<step, requested, confirmed, accepted, bufferVars>>

PublishUnconfirmed ==
  /\ Moves("await", "failed")
  /\ UNCHANGED count

RecordPublishFailure ==
  /\ Moves("failed", "insert")
  /\ Counted("publish_failures", 1)

(* enqueue(): INSERT, trim and COMMIT of one transaction.  An exception in *)
(* any of them rolls it back and leaves run_once().                        *)
InsertRow ==
  /\ Writable
  /\ Moves("insert", "trim")
  /\ UNCHANGED count

Overflow == Larger(rows + 1 - MaxSize, 0)

TrimRows ==
  /\ bufferOpen
  /\ step = "trim"
  /\ Goto("commit")
  /\ dropped' = dropped + Overflow
  /\ UNCHANGED <<clockVars, requested, confirmed, accepted, count, rows, stored, lost, diskFailed>>

CommitRow ==
  /\ Writable
  /\ step = "commit"
  /\ Goto("stored")
  /\ rows' = rows + 1 - Overflow
  /\ stored' = stored + 1
  /\ UNCHANGED <<clockVars, requested, confirmed, accepted, count, dropped, lost, diskFailed>>

(* Mutant of EnqueueRaises: the error is caught. *)
EnqueueErrorCaught ==
  /\ \/ step \in {"insert", "commit"} /\ ~Writable
     \/ step = "trim" /\ ~bufferOpen
  /\ Goto("log")
  /\ lost' = lost + 1
  /\ diskFailed' = (diskFailed \/ diskFull)
  /\ UNCHANGED <<clockVars, requested, confirmed, accepted, count, rows, dropped, stored>>

EnqueueRaises ==
  /\ \/ step \in {"insert", "commit"} /\ ~Writable
     \/ step = "trim" /\ ~bufferOpen
  /\ Goto("final")
  /\ lost' = lost + 1
  /\ diskFailed' = (diskFailed \/ diskFull)
  /\ UNCHANGED <<clockVars, requested, confirmed, accepted, count, rows, dropped, stored>>

RecordBuffered ==
  /\ Moves("stored", "log")
  /\ Counted("buffered", 1)

(* count() for the log line. *)
LogBuffered ==
  /\ step = "log"
  /\ bufferOpen
  /\ RestEnds
  /\ UNCHANGED <<threadVars, bufferVars>>

LogRaises ==
  /\ ~bufferOpen
  /\ Moves("log", "final")
  /\ UNCHANGED count

(* The finally clause of run(): "gateway stopped". *)
EndThread ==
  /\ \/ at = "top" /\ stop
     \/ at = "rest" /\ step = "final"
  /\ ThreadEnds
  /\ UNCHANGED <<threadVars, bufferVars>>

RunOnce ==
  \/ EnterIteration
  \/ Reconnected
  \/ NotReconnected
  \/ NoReplay
  \/ PeekRaises
  \/ PeekEmpty
  \/ Replay
  \/ RemoveRows
  \/ RemoveRaises
  \/ LogReplayed
  \/ RecvNothing
  \/ RecvRaises
  \/ RecvAccepted
  \/ PublishEvent
  \/ PublishConfirmed
  \/ PublishUnconfirmed
  \/ RecordPublishFailure
  \/ InsertRow
  \/ TrimRows
  \/ CommitRow
  \/ EnqueueRaises
  \/ RecordBuffered
  \/ LogBuffered
  \/ LogRaises
  \/ EndThread

GatewayThread == RunOnce /\ UNCHANGED <<mainVars, openVars, diskFull>>

-----------------------------------------------------------------------------
(* The finally clause of main().                                           *)

JoinThread ==
  /\ main = "joining"
  /\ at = "off" \/ joinFor = JoinTimeout
  /\ late' = (at # "off")
  /\ main' = "buses"
  /\ UNCHANGED <<clockVars, env, target, joinFor, stop, summary, still, startRows,
                 openVars, bufferVars, threadVars, diskFull>>

ShutBuses ==
  /\ main = "buses"
  /\ busOpen' = FALSE
  /\ main' = "disconnect"
  /\ UNCHANGED <<clockVars, env, target, joinFor, stop, summary, still, startRows, late,
                 looping, bufferOpen, bufferVars, threadVars, diskFull>>

(* disconnect() does nothing unless the publisher is connected: after a    *)
(* real drop paho's thread goes on.                                        *)
Disconnect ==
  /\ main = "disconnect"
  /\ \/ ConnectionLost /\ looping' = FALSE
     \/ ~connected /\ UNCHANGED <<clockVars, looping>>
  /\ main' = "snapshot"
  /\ UNCHANGED <<env, target, joinFor, stop, summary, still, startRows, late,
                 busOpen, bufferOpen, bufferVars, threadVars, diskFull>>

TakeSnapshot ==
  /\ main = "snapshot"
  /\ summary' = [count EXCEPT !["dropped"] = dropped]
  /\ main' = "count"
  /\ UNCHANGED <<clockVars, env, target, joinFor, stop, still, startRows, late,
                 openVars, bufferVars, threadVars, diskFull>>

(* Rows that SELECT COUNT sees on the connection of the thread's own       *)
(* transaction.                                                            *)
VisibleRows ==
  IF at = "rest" /\ step = "trim" THEN rows + 1
  ELSE IF at = "rest" /\ step = "commit" THEN rows + 1 - Overflow
  ELSE rows

CountRows ==
  /\ main = "count"
  /\ still' = VisibleRows
  /\ main' = "close"
  /\ UNCHANGED <<clockVars, env, target, joinFor, stop, summary, startRows, late,
                 openVars, bufferVars, threadVars, diskFull>>

CloseBuffer ==
  /\ main = "close"
  /\ bufferOpen' = FALSE
  /\ main' = "done"
  /\ UNCHANGED <<clockVars, env, target, joinFor, stop, summary, still, startRows, late,
                 looping, busOpen, bufferVars, threadVars, diskFull>>

(* The interpreter ends, a daemon thread that is left ends with it. *)
Exit ==
  /\ main = "done"
  /\ main' = "exited"
  /\ lost' = lost + Hand
  /\ IF at = "off" THEN UNCHANGED clockVars ELSE ThreadEnds
  /\ UNCHANGED <<env, target, joinFor, stop, summary, still, startRows, late,
                 openVars, rows, dropped, stored, diskFailed, threadVars, diskFull>>

Main ==
  \/ Configure
  \/ ConnectPublisher
  \/ StartThreads
  \/ Stop
  \/ JoinThread
  \/ ShutBuses
  \/ Disconnect
  \/ TakeSnapshot
  \/ CountRows
  \/ CloseBuffer
  \/ Exit

-----------------------------------------------------------------------------
(* The broker, the disk and the clock.                                     *)

Network ==
  /\ \/ BrokerGoes
     \/ BrokerComesBack
     \/ looping /\ ConnectionLost
  /\ UNCHANGED demoVars

Disk ==
  /\ diskFull' = ~diskFull
  /\ UNCHANGED <<clockVars, mainVars, openVars, bufferVars, threadVars>>

(* A join that has timed out returns before time goes on. *)
TimePasses ==
  /\ Tick
  /\ main = "joining" => joinFor < JoinTimeout
  /\ joinFor' = IF main = "joining" THEN joinFor + 1 ELSE joinFor
  /\ UNCHANGED <<env, target, main, stop, summary, still, startRows, late,
                 openVars, bufferVars, threadVars, diskFull>>

Next == GatewayThread \/ Main \/ Network \/ Disk \/ TimePasses

Spec == Init /\ [][Next]_vars

=============================================================================
