------------------------ MODULE EdgeGatewayProperties ------------------------
(***************************************************************************)
(* What the edge gateway guarantees, what its documents say it guarantees, *)
(* and the fairness under which it gets anything done.                     *)
(***************************************************************************)
EXTENDS EdgeGateway

Delivered == {e \in Event : received[e] > 0}

(***************************************************************************)
(* Safety.                                                                 *)
(***************************************************************************)

(* No accepted event disappears: the broker has it, or a row stores it, or *)
(* the thread is handling it, or the overflow trim counted it out, or the  *)
(* process died with it in hand (run_once() from ingest to enqueue(), the  *)
(* replay's remove(), paho's queue going away with the process).           *)
NoEventDisappears ==
  1 .. accepted \subseteq Delivered \cup Range(table) \cup InHand \cup overflowed \cup lost

(* The rows stand in the table in the order their events were accepted,    *)
(* and an event in hand is newer than all of them, so ORDER BY id ASC is   *)
(* the order of acceptance, across restarts too (buffer.py, AUTOINCREMENT).*)
RowsInAcceptanceOrder ==
  /\ \A i, j \in DOMAIN table : i < j => table[i] < table[j]
  /\ EventInHand => \A i \in DOMAIN table : table[i] < accepted

(* enqueue() leaves at most max_size rows behind, whatever a replay that   *)
(* stopped half way, a crash or a restart did to the table before.         *)
BufferBounded == Cardinality(DOMAIN table) <= MaxSize

(* A row leaves the table only when the broker has its event, or because   *)
(* the table was full and the row was older than every row that stays      *)
(* (remove() after publish() returned True; _trim_to_max_locked()).        *)
RowsLeaveForAReason ==
  [][\A i \in DOMAIN table \ DOMAIN table' :
        \/ received[table[i]] > 0
        \/ /\ Cardinality(DOMAIN table') = MaxSize
           /\ \A j \in DOMAIN table' : i < j]_vars

(* A replay publishes a row only when every older row that is still stored *)
(* has been confirmed in the same pass: "nothing later in the buffer is    *)
(* ever sent out of order ahead of something earlier" (_replay_buffered()).*)
ReplayInOrder ==
  [][pc = "row" /\ pc' = "rowAwait" =>
        \A i \in DOMAIN table : table[i] < sending' => i \in confirmed]_vars

(* A backlog that an outage or an earlier process left behind is never     *)
(* stranded: while the publisher is connected and such a row is stored, a  *)
(* replay is requested.  Only rows whose publish failed on a connection    *)
(* that stayed up may wait without a request (gateway.py, _replay_requested*)
(* in __init__, run_once() and run()).                                     *)
BacklogIsOwed ==
  connected /\ (\E i \in DOMAIN table : table[i] \in outage \/ table[i] <= startEvents)
    => replayRequested

Count(condition) == IF condition THEN 1 ELSE 0

(* The counters of one process add up with the table and the frames at     *)
(* every step, so the "gateway stopped" line of run() and the summary of a *)
(* demo can be reconciled: every accepted event was processed or failed,   *)
(* every failure was buffered, and the rows are those found at the start   *)
(* plus the buffered ones less the dropped and the replayed ones.          *)
CountersAddUp ==
  pc # "down" =>
    /\ accepted - startEvents =
         metrics.processed + metrics.publish_failures
           + Count(pc \in {"publish", "liveAwait", "failed"})
    /\ metrics.publish_failures = metrics.buffered + Count(pc \in {"enqueue", "record"})
    /\ Cardinality(DOMAIN table) + droppedCount + metrics.replayed =
         startRows + metrics.buffered + Count(pc = "record") + Cardinality(confirmed)

(* Unless a process ended in between, an event some publish() reported as  *)
(* acknowledged is never stored again and stays stored only until the      *)
(* running replay deletes it: without a crash the gateway itself publishes *)
(* nothing twice that was confirmed to it (run_once(), _replay_buffered()).*)
ConfirmedRowsLeave ==
  \A i \in DOMAIN table : table[i] \in acked =>
    i \in confirmed \/ (ends > 0 /\ table[i] <= startEvents) \/ pc = "down"

(* The gateway keeps the promise of TelemetryDelivery: the events it has   *)
(* custody of are those in the table and the one in hand.                  *)
Promise == INSTANCE TelemetryDelivery
             WITH Capacity <- MaxSize, LastEvent <- MaxEvents,
                  custody <- Range(table) \cup InHand, delivered <- Delivered

DeliversAsPromised == Promise!Spec

(***************************************************************************)
(* Liveness.                                                               *)
(***************************************************************************)

(* The gateway's loop keeps running, and comes round to a reconnect that   *)
(* is due as often as the backoff (at most 30 s) lets it.  paho's thread   *)
(* delivers callbacks, reopens a lost link and moves messages; whoever     *)
(* injects an outage ends it (the context managers of fault_injection.py); *)
(* a dead process is started again.  Nothing makes frames arrive, faults   *)
(* happen or processes end.                                                *)
Fairness ==
  /\ WF_vars(GatewayThread)
  /\ SF_vars(StartReconnect \/ ResumeLink)
  /\ WF_vars(Meanwhile(HandleDisconnect))
  /\ WF_vars(Meanwhile(PahoReopensLink))
  /\ WF_vars(Meanwhile(BrokerReceives))
  /\ WF_vars(Meanwhile(PubackArrives))
  /\ WF_vars(Meanwhile(ClearConnectionOutage))
  /\ WF_vars(ProcessStarts)

FairSpec == Spec /\ Fairness

(* An event refused because the publisher was down reaches the broker,     *)
(* through any number of drops, failed replays, crashes and restarts, or   *)
(* is dropped by the overflow trim or with the process.                    *)
OutageEventsArrive ==
  \A e \in Event :
    e \in outage ~> received[e] > 0 \/ e \in overflowed \/ e \in lost

(* A requested replay ends with the backlog it was requested for gone from *)
(* the table, or with the process.                                         *)
ReplayCompletes ==
  replayRequested ~> DOMAIN table = {} \/ pc = "down"

(* The publisher does not stay disconnected. *)
ConnectionRecovers == []<>connected

(***************************************************************************)
(* What the repository's documents and comments say, and the code does not *)
(* quite do.  Each one is checked by a run that finds it violated.         *)
(***************************************************************************)

(* gateway.py:50-52: a batch "keeps one very large backlog from            *)
(* monopolizing run_once() calls".                                         *)
ReplayPassIsBounded == thisCall <= BatchSize

(* docs/edge-gateway-spec.md:239-241: a crash "could cause one re-send on  *)
(* the next run".                                                          *)
CrashRepeatsOneEvent ==
  pc = "down" /\ ends = 1 => Cardinality({i \in DOMAIN table : table[i] \in acked}) <= 1

(* mqtt_publisher.py:249-253: while a connection outage is injected "the   *)
(* publisher report[s] disconnected" and every reconnect attempt fails.    *)
OutageKeepsPublisherDown == simulatedOutage => ~connected

==============================================================================
