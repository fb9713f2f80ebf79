----------------------------- MODULE DemoRunProofs -----------------------------
(***************************************************************************)
(* A run of the demo, for every table, every join timeout and any number   *)
(* of events: it lives by the clock of ReconnectBackoff, loses at most the *)
(* event in hand, and its last log line is exact.                          *)
(***************************************************************************)
EXTENDS DemoRunProperties, TLAPS

-----------------------------------------------------------------------------
(* The clock of ReconnectBackoff: its recovery bound, for every backoff    *)
(* and every duration of attempts and iterations.                          *)

(* The longest that the next attempt of a failed one is away. *)
NextAttempt == Larger(MaxBackoff, AttemptTime)

(* What the clock, the connection and the place of the thread have to do   *)
(* with each other.                                                        *)
ClockFits ==
  /\ connected = TRUE => due = 0 /\ waiting = 0
  /\ reachable = FALSE => waiting = 0
  /\ at = "off" => waiting = 0
  /\ at = "attempt" =>
       /\ connected = FALSE
       /\ due = 0
       /\ spent <= AttemptTime
       /\ reachable = FALSE => doomed = TRUE
  /\ at = "rest" /\ connected = FALSE => spent <= IterationTime

(* How long a reachable broker can have waited at each place: what it will *)
(* still wait for an attempt is part of the bound before the attempt is    *)
(* due, and an attempt that has to fail began before the broker was back.  *)
WaitBounded ==
  /\ at \in {"top", "rest"} /\ due > 0 => waiting + due <= NextAttempt
  /\ at = "rest" /\ connected = FALSE /\ due = 0 => waiting <= NextAttempt + spent
  /\ at = "top" /\ due = 0 => waiting <= NextAttempt + IterationTime
  /\ at = "attempt" /\ doomed = TRUE => waiting <= spent
  /\ at = "attempt" /\ doomed = FALSE => waiting <= NextAttempt + IterationTime + spent

ClockInv == ClockTypeOK /\ ClockFits /\ WaitBounded

-----------------------------------------------------------------------------

(* The invariant survives every step of the clock. *)
LEMMA ClockStep == ClockInv /\ [ClockNext]_clockVars => ClockInv'
<1> SUFFICES ASSUME ClockInv, [ClockNext]_clockVars
             PROVE  ClockInv'
  OBVIOUS
<1> USE BackoffAssumption, TimeAssumption
    DEF ClockInv, ClockTypeOK, ClockFits, WaitBounded, NextAttempt, Larger, Smaller,
        linkVars, backoffVars
<1>1. CASE Connects
  BY <1>1 DEF Connects
<1>2. CASE ThreadStarts
  BY <1>2 DEF ThreadStarts
<1>3. CASE ThreadEnds
  BY <1>3 DEF ThreadEnds
<1>4. CASE NoAttempt
  BY <1>4 DEF NoAttempt
<1>5. CASE AttemptStarts
  <2>1. reachable = TRUE => doomed' = FALSE
    BY <1>5, Zenon DEF AttemptStarts
  <2>2. reachable = FALSE => doomed' = TRUE
    BY <1>5, Zenon DEF AttemptStarts
  <2>3. doomed' \in BOOLEAN
    BY <2>1, <2>2, Zenon
  <2>4. ClockTypeOK' /\ ClockFits'
    BY <1>5, <2>2, <2>3 DEF AttemptStarts
  <2>5. WaitBounded'
    BY <1>5, <2>1, <2>2, <2>3, <2>4 DEF AttemptStarts
  <2>. QED  BY <2>4, <2>5
<1>6. CASE AttemptSucceeds
  BY <1>6 DEF AttemptSucceeds
<1>7. CASE AttemptFails
  BY <1>7 DEF AttemptFails
<1>8. CASE RestEnds
  BY <1>8 DEF RestEnds
<1>9. CASE BrokerGoes
  <2>1. reachable' \in BOOLEAN /\ doomed' \in BOOLEAN
    BY <1>9, Zenon DEF BrokerGoes
  <2>. QED  BY <1>9, <2>1 DEF BrokerGoes
<1>10. CASE BrokerComesBack
  BY <1>10 DEF BrokerComesBack
<1>11. CASE ConnectionLost
  <2>1. connected' \in BOOLEAN
    BY <1>11, Zenon DEF ConnectionLost
  <2>. QED  BY <1>11, <2>1 DEF ConnectionLost
<1>12. CASE Tick
  BY <1>12 DEF Tick, ThreadWaits
<1>13. CASE UNCHANGED clockVars
  BY <1>13 DEF clockVars
<1>. QED
  BY <1>1, <1>2, <1>3, <1>4, <1>5, <1>6, <1>7, <1>8, <1>9, <1>10, <1>11, <1>12, <1>13
  DEF ClockNext

(* The clock keeps its invariant. *)
LEMMA ClockInvariant == ClockSpec => []ClockInv
<1>1. ClockInit => ClockInv
  <2>1. ClockInit => connected \in BOOLEAN /\ doomed \in BOOLEAN
    BY Zenon DEF ClockInit
  <2>. QED
    BY <2>1, BackoffAssumption, TimeAssumption
    DEF ClockInit, ClockInv, ClockTypeOK, ClockFits, WaitBounded
<1>. QED  BY <1>1, ClockStep, PTL DEF ClockSpec

(* The backoff stays between its first value and its cap, the next attempt *)
(* at most the cap away, whatever the clock does (mqtt_publisher.py        *)
(* 159-192).                                                               *)
THEOREM BackoffStaysWithinLimits == ClockSpec => []ClockTypeOK
<1>. QED  BY ClockInvariant, PTL DEF ClockInv

(* A reachable broker has the gateway back within the bound, however long  *)
(* attempts and iterations take and whenever the broker comes and goes     *)
(* (mqtt_publisher.py 159-192).                                            *)
THEOREM AlwaysRecoversInTime == ClockSpec => []RecoversInTime
<1>1. ClockInv => RecoversInTime
  BY BackoffAssumption, TimeAssumption
  DEF ClockInv, ClockTypeOK, ClockFits, WaitBounded, NextAttempt, RecoversInTime,
      RecoveryBound, Larger
<1>. QED  BY <1>1, ClockInvariant, PTL

-----------------------------------------------------------------------------
(* Every step of a run is a step of the clock or leaves it alone.          *)

(* A step of the gateway's thread, clock and all. *)
LEMMA ThreadKeepsTime == RunOnce => [ClockNext]_clockVars
<1>. QED
  BY DEF RunOnce, ClockNext, EnterIteration, Reconnected, NotReconnected, NoReplay, PeekRaises,
         PeekEmpty, Replay, RemoveRows, RemoveRaises, LogReplayed, RecvNothing, RecvRaises,
         RecvAccepted, PublishEvent, PublishConfirmed, PublishUnconfirmed,
         RecordPublishFailure, InsertRow, TrimRows, CommitRow, EnqueueRaises, RecordBuffered,
         LogBuffered, LogRaises, EndThread, Moves

(* A step of main(), likewise. *)
LEMMA MainKeepsTime == Main => [ClockNext]_clockVars
<1>. QED
  BY DEF Main, ClockNext, Configure, ConnectPublisher, StartThreads, Stop, JoinThread,
         ShutBuses, Disconnect, TakeSnapshot, CountRows, CloseBuffer, Exit

(* A run implements the clock. *)
LEMMA RunKeepsTime == Spec => ClockSpec
<1>1. Init => ClockInit
  BY DEF Init
<1>2. [Next]_vars => [ClockNext]_clockVars
  BY ThreadKeepsTime, MainKeepsTime
  DEF Next, vars, ClockNext, GatewayThread, Network, Disk, TimePasses
<1>. QED  BY <1>1, <1>2, PTL DEF Spec, ClockSpec

(* In a run of the demo, too, a reachable broker has the gateway back      *)
(* within the bound, through every way its thread's iterations go and with *)
(* main() closing things under it (mqtt_publisher.py 159-192, run_demo.py  *)
(* 125-143).                                                               *)
THEOREM RunRecoversInTime == Spec => []RecoversInTime
<1>. QED  BY RunKeepsTime, AlwaysRecoversInTime, PTL

-----------------------------------------------------------------------------
(* The inductive invariant.                                                *)

(* Where main() is and what it has started, opened and closed. *)
Unstarted == {"config", "connect", "open", "failed"}
Closing == {"buses", "disconnect", "snapshot", "count", "close"}
Phases ==
  /\ main \in Unstarted =>
       /\ at = "off" /\ accepted = 0 /\ lost = 0 /\ stored = 0
       /\ count = NoCount /\ dropped = 0 /\ rows = startRows
  /\ main \in Unstarted \cup {"running", "joining"} => late = FALSE
  /\ main \in {"running", "joining"} \cup Closing => bufferOpen = TRUE
  /\ main \in Closing \cup {"done"} /\ late = FALSE => at = "off"
  /\ main = "exited" => at = "off"

(* What an iteration has to go through before it is at a place. *)
Places ==
  /\ at = "attempt" => step = "gate"
  /\ at = "rest" /\ step = "remove" => confirmed <= rows

(* An event is lost by the last thing the thread does. *)
Losses ==
  /\ accepted = count["processed"] + stored + Hand + lost
  /\ lost \in {0, 1}
  /\ lost = 1 => at = "off" \/ (at = "rest" /\ step = "final")
  /\ lost = 1 => diskFailed = TRUE \/ late = TRUE

(* The event in hand is not counted yet, or failed and not buffered yet;   *)
(* and how far the counters are ahead of the table.                        *)
Uncounted == IF at = "rest" /\ step \in {"publish", "await", "failed"} THEN 1 ELSE 0
Unbuffered == IF at = "rest" /\ step \in {"insert", "trim", "commit", "stored"} THEN 1 ELSE 0
Ahead ==
  IF at # "rest" THEN 0
  ELSE IF step = "remove" THEN confirmed
  ELSE IF step = "commit" THEN Overflow
  ELSE IF step = "stored" THEN 1
  ELSE 0

(* The counters while main() waits for the thread, and for good when it    *)
(* did not give up.                                                        *)
Outcomes ==
  late = FALSE =>
    /\ count["processed"] + count["publish_failures"] + Uncounted = accepted
    /\ count["publish_failures"] = count["buffered"] + lost + Unbuffered
    /\ diskFailed = FALSE =>
         rows + dropped + count["replayed"] = startRows + count["buffered"] + Ahead

(* What main() has read for its last line. *)
Reported ==
  /\ still # -1 => main \in {"close", "done", "exited"}
  /\ main \in {"count", "close", "done", "exited"} /\ late = FALSE =>
       summary = [count EXCEPT !["dropped"] = dropped]
  /\ main \in {"close", "done", "exited"} /\ late = FALSE => still = rows

DemoInv == DemoTypeOK /\ Phases /\ Places /\ Losses /\ Outcomes /\ Reported

-----------------------------------------------------------------------------

(* record_*(): one counter moves. *)
LEMMA CountedOne ==
  ASSUME count \in [Counters -> Nat], NEW c \in Counters, NEW n \in Nat, Counted(c, n)
  PROVE  /\ count' \in [Counters -> Nat]
         /\ count'[c] = count[c] + n
         /\ \A d \in Counters : d # c => count'[d] = count[d]
<1>. QED  BY DEF Counted

(* The trim leaves the table within its bound. *)
LEMMA TrimFits ==
  ASSUME DemoTypeOK
  PROVE  /\ Overflow \in Nat
         /\ rows + 1 - Overflow \in 0 .. MaxSize
<1>. QED  BY DemoAssumption DEF DemoTypeOK, Overflow, Larger

(* What the gateway's thread does not touch. *)
MainIsElsewhere == UNCHANGED <<mainVars, openVars, diskFull>>

(* The thread between two places of its iteration. *)
LEMMA ThreadMoves ==
  ASSUME DemoInv, MainIsElsewhere,
         NoReplay \/ PeekRaises \/ LogReplayed \/ RecvRaises \/ PublishEvent
           \/ PublishUnconfirmed \/ InsertRow \/ LogRaises
  PROVE  DemoInv'
<1>. USE DEF MainIsElsewhere, mainVars, openVars, bufferVars, Moves, Goto
<1>1. DemoTypeOK'
  BY DEF DemoInv, DemoTypeOK, Steps, NoReplay, PeekRaises, LogReplayed, RecvRaises,
         PublishEvent, PublishUnconfirmed, InsertRow, LogRaises
<1>2. at = "rest" /\ at' = "rest"
  BY DEF NoReplay, PeekRaises, LogReplayed, RecvRaises, PublishEvent, PublishUnconfirmed,
         InsertRow, LogRaises, clockVars
<1>. QED
  BY <1>1, <1>2
  DEF DemoInv, Phases, Places, Losses, Outcomes, Reported, Unstarted, Closing, Hand, EventInHand,
      Uncounted, Unbuffered, Ahead, Overflow, NoReplay, PeekRaises, LogReplayed, RecvRaises,
      PublishEvent, PublishUnconfirmed, InsertRow, LogRaises

(* The top of the loop: the stop, the connection, the thread's end. *)
LEMMA LoopTurns ==
  ASSUME DemoInv, MainIsElsewhere,
         EnterIteration \/ Reconnected \/ NotReconnected \/ RecvNothing \/ LogBuffered \/ EndThread
  PROVE  DemoInv'
<1>. USE DEF MainIsElsewhere, mainVars, openVars, bufferVars, threadVars
<1>0. requested' \in BOOLEAN /\ step' \in Steps
  BY Zenon DEF DemoInv, DemoTypeOK, Steps, EnterIteration, Reconnected, NotReconnected,
               RecvNothing, LogBuffered, EndThread
<1>1. DemoTypeOK'
  BY <1>0 DEF DemoInv, DemoTypeOK, EnterIteration, Reconnected, NotReconnected, RecvNothing,
         LogBuffered, EndThread
<1>2. /\ at \in {"top", "attempt", "rest"} /\ at' \in {"off", "top", "attempt", "rest"}
      /\ at' = "attempt" => step' = "gate"
      /\ at' = "rest" => step' = "gate"
      /\ at = "rest" => step \in {"recv", "log", "final"}
  BY DEF DemoInv, Places, EnterIteration, Reconnected, NotReconnected, RecvNothing, LogBuffered,
         EndThread, NoAttempt, AttemptStarts, AttemptSucceeds, AttemptFails, RestEnds, ThreadEnds
<1>3. lost = 1 => at' = "off"
  BY <1>2
  DEF DemoInv, Losses, EnterIteration, Reconnected, NotReconnected, RecvNothing, LogBuffered,
      EndThread, NoAttempt, AttemptStarts, AttemptSucceeds, AttemptFails, RestEnds, ThreadEnds
<1>4. UNCHANGED <<rows, dropped, stored, lost, diskFailed, confirmed, accepted, count>>
  BY DEF EnterIteration, Reconnected, NotReconnected, RecvNothing, LogBuffered, EndThread
<1>. QED
  BY <1>1, <1>2, <1>3, <1>4
  DEF DemoInv, Phases, Places, Losses, Outcomes, Reported, Unstarted, Closing, Hand, EventInHand,
      Uncounted, Unbuffered, Ahead

(* A replay: the rows that are confirmed leave the table together. *)
LEMMA ReplaySteps ==
  ASSUME DemoInv, MainIsElsewhere, PeekEmpty \/ Replay \/ RemoveRows \/ RemoveRaises
  PROVE  DemoInv'
<1>. USE DEF MainIsElsewhere, mainVars, openVars, bufferVars, Goto
<1>1. CASE PeekEmpty
  <2>1. DemoTypeOK'
    BY <1>1, Zenon DEF PeekEmpty, DemoInv, DemoTypeOK, Steps
  <2>. QED
    BY <1>1, <2>1
    DEF PeekEmpty, DemoInv, Phases, Places, Losses, Outcomes, Reported, Unstarted, Closing, Hand,
        EventInHand, Uncounted, Unbuffered, Ahead, Overflow, clockVars
<1>2. CASE Replay
  <2>1. PICK n \in 0 .. rows : /\ confirmed' = n
                               /\ Counted("replayed", n)
                               /\ Goto(IF n = 0 THEN "recv" ELSE "remove")
    BY <1>2 DEF Replay
  <2>2. /\ count' \in [Counters -> Nat]
        /\ count'["replayed"] = count["replayed"] + n
        /\ \A d \in Counters : d # "replayed" => count'[d] = count[d]
    BY <2>1, CountedOne DEF DemoInv, DemoTypeOK, Counters
  <2>3. DemoTypeOK'
    <3>1. confirmed' \in 0 .. MaxSize
      BY <2>1, DemoAssumption DEF DemoInv, DemoTypeOK
    <3>2. step' \in Steps
      BY <2>1 DEF Steps
    <3>3. UNCHANGED <<requested, accepted, rows, dropped, stored, lost, diskFailed>>
      BY <1>2 DEF Replay
    <3>. QED  BY <2>2, <3>1, <3>2, <3>3 DEF DemoInv, DemoTypeOK
  <2>4. /\ at = "rest" /\ at' = "rest" /\ step = "gate"
        /\ step' = IF n = 0 THEN "recv" ELSE "remove"
    BY <1>2, <2>1 DEF Replay, clockVars
  <2>5. /\ UNCHANGED <<main, bufferOpen, late, still, summary, startRows>>
        /\ UNCHANGED <<rows, dropped, stored, lost, diskFailed, accepted>>
    BY <1>2 DEF Replay
  <2>6. /\ UNCHANGED <<count["processed"], count["publish_failures"], count["buffered"]>>
    BY <2>2 DEF Counters
  <2>7. Phases' /\ Places'
    BY <2>1, <2>4, <2>5 DEF DemoInv, DemoTypeOK, Phases, Places, Unstarted, Closing
  <2>8. Losses'
    BY <2>4, <2>5, <2>6 DEF DemoInv, Losses, Hand, EventInHand
  <2>9. Reported'
    BY <2>4, <2>5 DEF DemoInv, Phases, Reported, Closing
  <2>10. Outcomes'
    BY <2>1, <2>2, <2>4, <2>5, <2>6
    DEF DemoInv, DemoTypeOK, Outcomes, Uncounted, Unbuffered, Ahead, Counters
  <2>. QED  BY <2>3, <2>7, <2>8, <2>9, <2>10 DEF DemoInv
<1>3. CASE RemoveRows
  <2>0. rows' \in 0 .. MaxSize /\ confirmed' \in 0 .. MaxSize
    BY <1>3, DemoAssumption DEF RemoveRows, DemoInv, DemoTypeOK, Places
  <2>1. DemoTypeOK'
    BY <1>3, <2>0 DEF RemoveRows, DemoInv, DemoTypeOK, Steps
  <2>2. /\ at = "rest" /\ at' = "rest" /\ step = "remove" /\ step' = "removed"
        /\ rows' = rows - confirmed
        /\ UNCHANGED <<main, bufferOpen, late, still, summary, startRows>>
        /\ UNCHANGED <<dropped, stored, lost, diskFailed, accepted, count>>
    BY <1>3 DEF RemoveRows, clockVars
  <2>3. Phases' /\ Places' /\ Losses' /\ Reported'
    BY <2>2
    DEF DemoInv, DemoTypeOK, Phases, Places, Losses, Reported, Unstarted, Closing, Hand,
        EventInHand
  <2>4. Outcomes'
    BY <2>2 DEF DemoInv, DemoTypeOK, Outcomes, Uncounted, Unbuffered, Ahead, Counters
  <2>. QED  BY <2>1, <2>3, <2>4 DEF DemoInv
<1>4. CASE RemoveRaises
  <2>0. diskFailed' \in BOOLEAN
    BY <1>4, Zenon DEF RemoveRaises
  <2>1. DemoTypeOK'
    BY <1>4, <2>0 DEF RemoveRaises, DemoInv, DemoTypeOK, Steps
  <2>2. late = FALSE => diskFailed' = TRUE
    BY <1>4 DEF RemoveRaises, Writable, DemoInv, DemoTypeOK, Phases, MainSteps, Unstarted, Closing
  <2>3. diskFailed = TRUE => diskFailed' = TRUE
    BY <1>4, Zenon DEF RemoveRaises
  <2>4. /\ at = "rest" /\ at' = "rest" /\ step = "remove" /\ step' = "final"
        /\ UNCHANGED <<main, bufferOpen, late, still, summary, startRows>>
        /\ UNCHANGED <<rows, dropped, stored, lost, accepted, count>>
    BY <1>4 DEF RemoveRaises, clockVars
  <2>. QED
    BY <2>0, <2>1, <2>2, <2>3, <2>4
    DEF DemoInv, DemoTypeOK, Phases, Places, Losses, Outcomes, Reported, Unstarted,
        Closing, Hand, EventInHand, Uncounted, Unbuffered, Ahead
<1>. QED  BY <1>1, <1>2, <1>3, <1>4

(* A live event: published, or buffered in one transaction. *)
LEMMA EventSteps ==
  ASSUME DemoInv, MainIsElsewhere,
         \/ RecvAccepted \/ PublishConfirmed \/ RecordPublishFailure
         \/ TrimRows \/ CommitRow \/ EnqueueRaises \/ RecordBuffered
  PROVE  DemoInv'
<1>. USE DEF MainIsElsewhere, mainVars, openVars, bufferVars, Moves, Goto
<1>1. CASE RecvAccepted
  <2>1. /\ at = "rest" /\ at' = "rest" /\ step = "recv" /\ step' = "publish"
        /\ accepted < MaxEvents /\ accepted' = accepted + 1
        /\ UNCHANGED <<requested, confirmed, count, rows, dropped, stored, lost, diskFailed>>
    BY <1>1 DEF RecvAccepted, clockVars
  <2>2. DemoTypeOK'
    BY <2>1, DemoAssumption DEF DemoInv, DemoTypeOK, Steps
  <2>. QED
    BY <2>1, <2>2
    DEF DemoInv, DemoTypeOK, Phases, Places, Losses, Outcomes, Reported, Unstarted, Closing, Hand,
        EventInHand, Uncounted, Unbuffered, Ahead, Counters
<1>2. CASE PublishConfirmed
  <2>1. /\ count' \in [Counters -> Nat]
        /\ count'["processed"] = count["processed"] + 1
        /\ UNCHANGED <<count["replayed"], count["publish_failures"], count["buffered"]>>
    BY <1>2, CountedOne DEF PublishConfirmed, DemoInv, DemoTypeOK, Counters
  <2>2. /\ at = "rest" /\ at' = "top" /\ step = "await" /\ step' = "await"
        /\ UNCHANGED <<requested, confirmed, accepted, rows, dropped, stored, lost, diskFailed>>
    BY <1>2 DEF PublishConfirmed, RestEnds
  <2>3. DemoTypeOK'
    BY <2>1, <2>2 DEF DemoInv, DemoTypeOK
  <2>4. Phases' /\ Places' /\ Reported'
    BY <2>2 DEF DemoInv, Phases, Places, Reported, Unstarted, Closing
  <2>5. Losses' /\ Outcomes'
    BY <2>1, <2>2
    DEF DemoInv, DemoTypeOK, Losses, Outcomes, Hand, EventInHand, Uncounted, Unbuffered, Ahead,
        Counters
  <2>. QED  BY <2>3, <2>4, <2>5 DEF DemoInv
<1>3. CASE RecordPublishFailure
  <2>1. /\ count' \in [Counters -> Nat]
        /\ count'["publish_failures"] = count["publish_failures"] + 1
        /\ UNCHANGED <<count["replayed"], count["processed"], count["buffered"]>>
    BY <1>3, CountedOne DEF RecordPublishFailure, DemoInv, DemoTypeOK, Counters
  <2>2. /\ at = "rest" /\ at' = "rest" /\ step = "failed" /\ step' = "insert"
        /\ UNCHANGED <<requested, confirmed, accepted, rows, dropped, stored, lost, diskFailed>>
    BY <1>3 DEF RecordPublishFailure, clockVars
  <2>3. DemoTypeOK'
    BY <2>1, <2>2 DEF DemoInv, DemoTypeOK, Steps
  <2>4. Phases' /\ Places' /\ Reported'
    BY <2>2 DEF DemoInv, Phases, Places, Reported, Unstarted, Closing
  <2>5. Losses' /\ Outcomes'
    BY <2>1, <2>2
    DEF DemoInv, DemoTypeOK, Losses, Outcomes, Hand, EventInHand, Uncounted, Unbuffered, Ahead,
        Counters
  <2>. QED  BY <2>3, <2>4, <2>5 DEF DemoInv
<1>4. CASE TrimRows
  <2>1. /\ at = "rest" /\ at' = "rest" /\ step = "trim" /\ step' = "commit"
        /\ dropped' = dropped + Overflow
        /\ UNCHANGED <<requested, confirmed, accepted, count, rows, stored, lost, diskFailed>>
    BY <1>4 DEF TrimRows, clockVars
  <2>2. Overflow \in Nat /\ Overflow' = Overflow
    BY <2>1, TrimFits DEF DemoInv, Overflow
  <2>3. DemoTypeOK'
    BY <2>1, <2>2 DEF DemoInv, DemoTypeOK, Steps
  <2>4. Phases' /\ Places' /\ Reported'
    BY <2>1 DEF DemoInv, Phases, Places, Reported, Unstarted, Closing
  <2>5. Losses' /\ Outcomes'
    BY <2>1, <2>2
    DEF DemoInv, DemoTypeOK, Losses, Outcomes, Hand, EventInHand, Uncounted, Unbuffered, Ahead,
        Counters
  <2>. QED  BY <2>3, <2>4, <2>5 DEF DemoInv
<1>5. CASE CommitRow
  <2>1. /\ at = "rest" /\ at' = "rest" /\ step = "commit" /\ step' = "stored"
        /\ rows' = rows + 1 - Overflow /\ stored' = stored + 1
        /\ UNCHANGED <<requested, confirmed, accepted, count, dropped, lost, diskFailed>>
    BY <1>5 DEF CommitRow, clockVars
  <2>2. Overflow \in Nat /\ rows' \in 0 .. MaxSize
    BY <2>1, TrimFits DEF DemoInv
  <2>3. DemoTypeOK'
    BY <2>1, <2>2 DEF DemoInv, DemoTypeOK, Steps
  <2>4. Phases' /\ Places' /\ Reported'
    BY <2>1 DEF DemoInv, Phases, Places, Reported, Unstarted, Closing
  <2>5. Losses' /\ Outcomes'
    BY <2>1, <2>2
    DEF DemoInv, DemoTypeOK, Losses, Outcomes, Hand, EventInHand, Uncounted, Unbuffered, Ahead,
        Counters
  <2>. QED  BY <2>3, <2>4, <2>5 DEF DemoInv
<1>6. CASE EnqueueRaises
  <2>1. diskFailed' \in BOOLEAN /\ (diskFailed = TRUE => diskFailed' = TRUE)
    BY <1>6, Zenon DEF EnqueueRaises
  <2>2. late = FALSE => diskFailed' = TRUE
    BY <1>6
    DEF EnqueueRaises, Writable, DemoInv, DemoTypeOK, Phases, MainSteps, Unstarted, Closing
  <2>3. /\ at = "rest" /\ at' = "rest" /\ step \in {"insert", "trim", "commit"}
        /\ step' = "final" /\ lost' = lost + 1
        /\ UNCHANGED <<requested, confirmed, accepted, count, rows, dropped, stored>>
    BY <1>6 DEF EnqueueRaises, clockVars
  <2>4. DemoTypeOK'
    BY <2>1, <2>3 DEF DemoInv, DemoTypeOK, Steps
  <2>5. Phases' /\ Places' /\ Reported'
    BY <2>3 DEF DemoInv, Phases, Places, Reported, Unstarted, Closing
  <2>6. Losses' /\ Outcomes'
    BY <2>1, <2>2, <2>3
    DEF DemoInv, DemoTypeOK, Losses, Outcomes, Hand, EventInHand, Uncounted, Unbuffered, Ahead,
        Counters
  <2>. QED  BY <2>4, <2>5, <2>6 DEF DemoInv
<1>7. CASE RecordBuffered
  <2>1. /\ count' \in [Counters -> Nat]
        /\ count'["buffered"] = count["buffered"] + 1
        /\ UNCHANGED <<count["replayed"], count["processed"], count["publish_failures"]>>
    BY <1>7, CountedOne DEF RecordBuffered, DemoInv, DemoTypeOK, Counters
  <2>2. /\ at = "rest" /\ at' = "rest" /\ step = "stored" /\ step' = "log"
        /\ UNCHANGED <<requested, confirmed, accepted, rows, dropped, stored, lost, diskFailed>>
    BY <1>7 DEF RecordBuffered, clockVars
  <2>3. DemoTypeOK'
    BY <2>1, <2>2 DEF DemoInv, DemoTypeOK, Steps
  <2>4. Phases' /\ Places' /\ Reported'
    BY <2>2 DEF DemoInv, Phases, Places, Reported, Unstarted, Closing
  <2>5. Losses' /\ Outcomes'
    BY <2>1, <2>2
    DEF DemoInv, DemoTypeOK, Losses, Outcomes, Hand, EventInHand, Uncounted, Unbuffered, Ahead,
        Counters
  <2>. QED  BY <2>3, <2>4, <2>5 DEF DemoInv
<1>. QED  BY <1>1, <1>2, <1>3, <1>4, <1>5, <1>6, <1>7

(* No step of the gateway's thread breaks the invariant. *)
LEMMA ThreadStep == DemoInv /\ GatewayThread => DemoInv'
<1>. QED
  BY ThreadMoves, LoopTurns, ReplaySteps, EventSteps, Zenon
  DEF GatewayThread, RunOnce, MainIsElsewhere

-----------------------------------------------------------------------------
(* main() and the environment.                                             *)

(* A step of main() up to the join touches nothing that is counted. *)
LEMMA MainStarts ==
  ASSUME DemoInv, Configure \/ ConnectPublisher \/ StartThreads \/ Stop
  PROVE  DemoInv'
<1>. USE DEF mainVars, openVars, bufferVars, threadVars
<1>1. /\ UNCHANGED <<joinFor, busOpen, rows, dropped, stored, lost, diskFailed, diskFull, step>>
      /\ UNCHANGED <<confirmed, accepted, count, summary, still, startRows, late>>
  BY DEF Configure, ConnectPublisher, StartThreads, Stop
<1>2. /\ env' \in Environment /\ target' \in {"none", "local", "aws"}
      /\ main' \in MainSteps /\ stop' \in BOOLEAN /\ looping' \in BOOLEAN
      /\ bufferOpen' \in BOOLEAN /\ requested' \in BOOLEAN
  <2>1. CASE Configure
    BY <2>1 DEF Configure, BrokerFor, NoEnv, Environment, DemoInv, DemoTypeOK, MainSteps
  <2>2. CASE ConnectPublisher
    BY <2>2, Zenon DEF ConnectPublisher, DemoInv, DemoTypeOK, MainSteps
  <2>3. CASE StartThreads
    <3>1. requested' = (rows > 0) /\ bufferOpen' = TRUE /\ main' = "running"
      BY <2>3 DEF StartThreads
    <3>2. UNCHANGED <<env, target, stop, looping>>
      BY <2>3 DEF StartThreads
    <3>3. requested' \in BOOLEAN
      BY <3>1
    <3>4. bufferOpen' \in BOOLEAN /\ main' \in MainSteps
      BY <3>1, Zenon DEF MainSteps
    <3>. QED  BY <3>2, <3>3, <3>4 DEF DemoInv, DemoTypeOK
  <2>4. CASE Stop
    BY <2>4, Zenon DEF Stop, DemoInv, DemoTypeOK, MainSteps
  <2>. QED  BY <2>1, <2>2, <2>3, <2>4
<1>3. DemoTypeOK'
  BY <1>1, <1>2 DEF DemoInv, DemoTypeOK
<1>4. /\ main \in Unstarted \cup {"running"}
      /\ main' \in Unstarted \cup {"running", "joining"}
      /\ main' \in Unstarted => main \in Unstarted /\ at' = "off"
      /\ main \in Unstarted => at = "off" /\ at' \in {"off", "top"}
      /\ main = "running" => at' = at
      /\ main' \in {"running", "joining"} => bufferOpen' = TRUE
  <2>1. CASE Configure
    BY <2>1 DEF Configure, DemoInv, Phases, Unstarted, clockVars
  <2>2. CASE ConnectPublisher
    BY <2>2 DEF ConnectPublisher, Connects, DemoInv, Phases, Unstarted, clockVars
  <2>3. CASE StartThreads
    BY <2>3 DEF StartThreads, ThreadStarts, DemoInv, Phases, Unstarted
  <2>4. CASE Stop
    BY <2>4 DEF Stop, DemoInv, Phases, Unstarted, clockVars
  <2>. QED  BY <2>1, <2>2, <2>3, <2>4
<1>5. Phases' /\ Places' /\ Reported'
  BY <1>1, <1>4 DEF DemoInv, Phases, Places, Reported, Unstarted, Closing
<1>6. Losses' /\ Outcomes'
  BY <1>1, <1>4
  DEF DemoInv, Phases, Losses, Outcomes, Unstarted, Hand, EventInHand, Uncounted, Unbuffered,
      Ahead, Overflow
<1>. QED  BY <1>3, <1>5, <1>6 DEF DemoInv

(* Likewise from the join to the last line. *)
LEMMA MainCloses ==
  ASSUME DemoInv,
         \/ JoinThread \/ ShutBuses \/ Disconnect \/ TakeSnapshot \/ CountRows \/ CloseBuffer
  PROVE  DemoInv'
<1>. USE DEF mainVars, openVars, bufferVars, threadVars
<1>1. /\ UNCHANGED <<env, target, stop, joinFor, rows, dropped, stored, lost, diskFailed, diskFull>>
      /\ UNCHANGED <<step, confirmed, requested, accepted, count, startRows, at>>
  BY DEF JoinThread, ShutBuses, Disconnect, TakeSnapshot, CountRows, CloseBuffer, clockVars,
         ConnectionLost
<1>2. /\ Overflow' = Overflow /\ Hand' = Hand /\ Ahead' = Ahead
      /\ Uncounted' = Uncounted /\ Unbuffered' = Unbuffered
  BY <1>1 DEF Overflow, Hand, EventInHand, Ahead, Uncounted, Unbuffered
<1>3. VisibleRows \in Nat /\ (at = "off" => VisibleRows = rows)
  BY TrimFits DEF VisibleRows, DemoInv, DemoTypeOK
<1>4. CASE JoinThread
  <2>1. /\ late' \in BOOLEAN
        /\ main = "joining" /\ main' = "buses"
        /\ late' = FALSE => at = "off"
        /\ UNCHANGED <<looping, busOpen, bufferOpen, summary, still>>
    BY <1>4, Zenon DEF JoinThread
  <2>2. late = FALSE /\ bufferOpen = TRUE /\ still = -1
    BY <2>1 DEF DemoInv, DemoTypeOK, Phases, Reported
  <2>3. DemoTypeOK'
    BY <1>1, <2>1 DEF DemoInv, DemoTypeOK, MainSteps
  <2>. QED
    BY <1>1, <1>2, <2>1, <2>2, <2>3
    DEF DemoInv, Phases, Places, Losses, Outcomes, Reported, Unstarted, Closing
<1>5. CASE ShutBuses
  <2>1. /\ main = "buses" /\ main' = "disconnect" /\ busOpen' \in BOOLEAN
        /\ UNCHANGED <<looping, bufferOpen, summary, still, late>>
    BY <1>5, Zenon DEF ShutBuses
  <2>2. DemoTypeOK'
    BY <1>1, <2>1 DEF DemoInv, DemoTypeOK, MainSteps
  <2>. QED
    BY <1>1, <1>2, <2>1, <2>2
    DEF DemoInv, Phases, Places, Losses, Outcomes, Reported, Unstarted, Closing
<1>6. CASE Disconnect
  <2>1. /\ main = "disconnect" /\ main' = "snapshot" /\ looping' \in BOOLEAN
        /\ UNCHANGED <<busOpen, bufferOpen, summary, still, late>>
    BY <1>6, Zenon DEF Disconnect, DemoInv, DemoTypeOK
  <2>2. DemoTypeOK'
    BY <1>1, <2>1 DEF DemoInv, DemoTypeOK, MainSteps
  <2>. QED
    BY <1>1, <1>2, <2>1, <2>2
    DEF DemoInv, Phases, Places, Losses, Outcomes, Reported, Unstarted, Closing
<1>7. CASE TakeSnapshot
  <2>1. /\ main = "snapshot" /\ main' = "count"
        /\ summary' = [count EXCEPT !["dropped"] = dropped]
        /\ UNCHANGED <<looping, busOpen, bufferOpen, still, late>>
    BY <1>7 DEF TakeSnapshot
  <2>2. summary' \in [Counters -> Nat]
    BY <2>1 DEF DemoInv, DemoTypeOK
  <2>3. DemoTypeOK'
    BY <1>1, <2>1, <2>2 DEF DemoInv, DemoTypeOK, MainSteps
  <2>. QED
    BY <1>1, <1>2, <2>1, <2>3
    DEF DemoInv, Phases, Places, Losses, Outcomes, Reported, Unstarted, Closing
<1>8. CASE CountRows
  <2>1. /\ main = "count" /\ main' = "close" /\ still' = VisibleRows
        /\ UNCHANGED <<looping, busOpen, bufferOpen, summary, late>>
    BY <1>8 DEF CountRows
  <2>2. DemoTypeOK'
    BY <1>1, <1>3, <2>1 DEF DemoInv, DemoTypeOK, MainSteps
  <2>. QED
    BY <1>1, <1>2, <1>3, <2>1, <2>2
    DEF DemoInv, Phases, Places, Losses, Outcomes, Reported, Unstarted, Closing
<1>9. CASE CloseBuffer
  <2>1. /\ main = "close" /\ main' = "done" /\ bufferOpen' \in BOOLEAN
        /\ UNCHANGED <<looping, busOpen, summary, still, late>>
    BY <1>9, Zenon DEF CloseBuffer
  <2>2. DemoTypeOK'
    BY <1>1, <2>1 DEF DemoInv, DemoTypeOK, MainSteps
  <2>. QED
    BY <1>1, <1>2, <2>1, <2>2
    DEF DemoInv, Phases, Places, Losses, Outcomes, Reported, Unstarted, Closing
<1>. QED  BY <1>4, <1>5, <1>6, <1>7, <1>8, <1>9

(* What is left of the thread ends with the interpreter. *)
LEMMA MainExits == ASSUME DemoInv, Exit PROVE DemoInv'
<1>. USE DEF mainVars, openVars, bufferVars, threadVars
<1>1. /\ main = "done" /\ main' = "exited" /\ lost' = lost + Hand /\ at' = "off"
      /\ UNCHANGED <<env, target, stop, joinFor, rows, dropped, stored, diskFailed, diskFull>>
      /\ UNCHANGED <<step, confirmed, requested, accepted, count, startRows, late, summary, still>>
      /\ UNCHANGED <<looping, busOpen, bufferOpen>>
  BY DEF Exit, ThreadEnds, clockVars
<1>2. Hand \in {0, 1} /\ Hand' = 0 /\ (Hand = 1 => at = "rest" /\ late = TRUE /\ lost = 0)
  BY <1>1 DEF Hand, EventInHand, DemoInv, DemoTypeOK, Phases, Losses
<1>3. DemoTypeOK'
  BY <1>1, <1>2 DEF DemoInv, DemoTypeOK, MainSteps
<1>4. Phases' /\ Places' /\ Reported'
  BY <1>1 DEF DemoInv, Phases, Places, Reported, Unstarted, Closing
<1>5. Losses'
  BY <1>1, <1>2 DEF DemoInv, DemoTypeOK, Losses, Counters
<1>6. Outcomes'
  BY <1>1, <1>2
  DEF DemoInv, DemoTypeOK, Phases, Outcomes, Uncounted, Unbuffered, Ahead, Counters
<1>. QED  BY <1>3, <1>4, <1>5, <1>6 DEF DemoInv

(* No step of a run breaks the invariant. *)
LEMMA RunStep == DemoInv /\ [Next]_vars => DemoInv'
<1> SUFFICES ASSUME DemoInv, [Next]_vars PROVE DemoInv'
  OBVIOUS
<1>1. CASE GatewayThread
  BY <1>1, ThreadStep
<1>2. CASE Main
  BY <1>2, MainStarts, MainCloses, MainExits DEF Main
<1>3. CASE Network \/ UNCHANGED vars
  <2>1. UNCHANGED <<demoVars, at>>
    BY <1>3 DEF Network, vars, clockVars, BrokerGoes, BrokerComesBack, ConnectionLost
  <2>. QED
    BY <2>1
    DEF DemoInv, DemoTypeOK, Phases, Places, Losses, Outcomes, Reported, Hand, EventInHand,
        Uncounted, Unbuffered, Ahead, Overflow, demoVars, mainVars, openVars, bufferVars, threadVars
<1>4. CASE Disk
  <2>1. UNCHANGED <<mainVars, openVars, bufferVars, threadVars, at>> /\ diskFull' \in BOOLEAN
    BY <1>4, Zenon DEF Disk, clockVars
  <2>. QED
    BY <2>1
    DEF DemoInv, DemoTypeOK, Phases, Places, Losses, Outcomes, Reported, Hand, EventInHand,
        Uncounted, Unbuffered, Ahead, Overflow, mainVars, openVars, bufferVars, threadVars
<1>5. CASE TimePasses
  <2>1. /\ UNCHANGED <<env, target, main, stop, summary, still, startRows, late, at>>
        /\ UNCHANGED <<openVars, bufferVars, threadVars, diskFull>>
    BY <1>5 DEF TimePasses, Tick
  <2>2. joinFor' \in 0 .. JoinTimeout
    BY <1>5, DemoAssumption DEF TimePasses, DemoInv, DemoTypeOK
  <2>. QED
    BY <2>1, <2>2
    DEF DemoInv, DemoTypeOK, Phases, Places, Losses, Outcomes, Reported, Hand, EventInHand,
        Uncounted, Unbuffered, Ahead, Overflow, openVars, bufferVars, threadVars
<1>. QED  BY <1>1, <1>2, <1>3, <1>4, <1>5 DEF Next

(* A run keeps its invariant. *)
LEMMA RunInvariant == Spec => []DemoInv
<1>1. Init => DemoInv
  <2> SUFFICES ASSUME Init PROVE DemoInv
    OBVIOUS
  <2>1. DemoTypeOK
    <3>1. /\ env \in Environment /\ target \in {"none", "local", "aws"} /\ main \in MainSteps
          /\ stop \in BOOLEAN /\ looping \in BOOLEAN /\ busOpen \in BOOLEAN
          /\ bufferOpen \in BOOLEAN /\ diskFull \in BOOLEAN /\ step \in Steps
          /\ requested \in BOOLEAN /\ diskFailed \in BOOLEAN /\ late \in BOOLEAN
      BY Zenon DEF Init, MainSteps, Steps
    <3>2. /\ joinFor \in 0 .. JoinTimeout /\ rows \in 0 .. MaxSize /\ dropped \in Nat
          /\ confirmed \in 0 .. MaxSize /\ accepted \in 0 .. MaxEvents
          /\ still \in Nat \cup {-1} /\ startRows \in 0 .. MaxSize
          /\ stored \in Nat /\ lost \in Nat
      BY DemoAssumption DEF Init
    <3>3. count \in [Counters -> Nat] /\ summary \in [Counters -> Nat]
      BY DEF Init, NoCount
    <3>. QED  BY <3>1, <3>2, <3>3 DEF DemoTypeOK
  <2>2. /\ at = "off" /\ accepted = 0 /\ lost = 0 /\ stored = 0 /\ count = NoCount
        /\ dropped = 0 /\ rows = startRows /\ late = FALSE /\ main = "config" /\ still = -1
    BY DEF Init, ClockInit
  <2>. QED
    BY <2>1, <2>2
    DEF DemoInv, DemoTypeOK, Phases, Places, Losses, Outcomes, Reported, Unstarted, Closing, Hand,
        EventInHand, Uncounted, Unbuffered, Ahead, NoCount, Counters
<1>. QED  BY <1>1, RunStep, PTL DEF Spec

-----------------------------------------------------------------------------
(* The theorems.                                                           *)

(* The variables keep their types, the table its bound (buffer.py 124-137).*)
THEOREM RunTypesHold == Spec => []DemoTypeOK
<1>. QED  BY RunInvariant, PTL DEF DemoInv

(* However a run ends, it costs at most the event in hand, and only a      *)
(* failed write or a join that gave up costs that (gateway.py 123-134,     *)
(* run_demo.py 125-143).                                                   *)
THEOREM RunLosesAtMostOne == Spec => []LosesAtMostOne
<1>1. DemoInv => LosesAtMostOne
  BY DEF DemoInv, Losses, LosesAtMostOne
<1>. QED  BY <1>1, RunInvariant, PTL

(* The last line of a run whose thread ended in time accounts for every    *)
(* event (run_demo.py 137-142, buffer.py 136).                             *)
THEOREM SummaryIsAlwaysExact == Spec => []SummaryIsExact
<1>1. DemoInv => SummaryIsExact
  <2> SUFFICES ASSUME DemoInv, still # -1, late = FALSE
               PROVE  /\ summary["processed"] + summary["publish_failures"] = accepted
                      /\ summary["publish_failures"] = summary["buffered"] + lost
                      /\ still = rows
                      /\ ~diskFailed =>
                           still + summary["dropped"] + summary["replayed"]
                             = startRows + summary["buffered"]
    BY DEF SummaryIsExact, DemoInv, DemoTypeOK
  <2>1. main \in {"close", "done", "exited"} /\ still = rows
    BY DEF DemoInv, Reported
  <2>2. at = "off"
    BY <2>1 DEF DemoInv, Phases, Closing
  <2>3. summary = [count EXCEPT !["dropped"] = dropped]
    BY <2>1 DEF DemoInv, Reported
  <2>4. /\ summary["processed"] = count["processed"]
        /\ summary["publish_failures"] = count["publish_failures"]
        /\ summary["buffered"] = count["buffered"] /\ summary["replayed"] = count["replayed"]
        /\ summary["dropped"] = dropped
    BY <2>3 DEF DemoInv, DemoTypeOK, Counters
  <2>. QED
    BY <2>1, <2>2, <2>4
    DEF DemoInv, DemoTypeOK, Outcomes, Uncounted, Unbuffered, Ahead, Counters
<1>. QED  BY <1>1, RunInvariant, PTL

===============================================================================
