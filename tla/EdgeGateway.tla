----------------------------- MODULE EdgeGateway -----------------------------
(***************************************************************************)
(* The gateway thread of edge_gateway/gateway.py: EdgeGateway.run() and    *)
(* everything run_once() calls, over a publisher, its client and broker    *)
(* (MqttPublisher) and the SQLite table of its TelemetryBuffer, from one   *)
(* process to the next.  A process ends at any point; the table survives,  *)
(* the rest starts over.                                                   *)
(*                                                                         *)
(* pc says where in run_once() the thread is:                              *)
(*   down       no process                                                 *)
(*   top        the loop of run() looks at stop_event, then run_once()     *)
(*   attempt    in try_reconnect(), nothing read yet                       *)
(*   opening    blocked in client.reconnect()                              *)
(*   opened     client.reconnect() returned, _connected not yet assigned   *)
(*   gate       about to decide whether to replay                          *)
(*   peek       about to read a batch of rows                              *)
(*   row        about to publish the next row of the batch                 *)
(*   rowAwait   publish() waits for the broker's answer about that row     *)
(*   remove     about to delete the confirmed rows                         *)
(*   recv       about to receive a CAN frame                               *)
(*   publish    a live event passed validation                             *)
(*   liveAwait  publish() waits for the broker's answer about it           *)
(*   failed     its publish() returned False                               *)
(*   enqueue    the failure is counted, the event not yet stored           *)
(*   record     the event is stored, record_buffered() not yet called      *)
(***************************************************************************)
EXTENDS TelemetryBuffer, MqttPublisher

CONSTANTS
  BatchSize,    (* REPLAY_BATCH_SIZE *)
  MaxRejected,  (* Bound: frames that fail validation, per process.        *)
  MaxEnds       (* Bound: how often the process ends.                      *)

ASSUME BatchSizeAssumption == BatchSize \in Nat \ {0}
ASSUME RejectedAssumption == MaxRejected \in Nat
ASSUME EndsAssumption == MaxEnds \in Nat

VARIABLES
  pc,
  replayRequested,  (* _replay_requested                                   *)
  batch,            (* ids peek_batch() returned to the running replay     *)
  confirmed,        (* confirmed_ids                                       *)
  table,            (* pending_telemetry                                   *)
  lastId,           (* the id AUTOINCREMENT assigned last                  *)
  droppedCount,     (* TelemetryBuffer.dropped_count                       *)
  metrics,          (* GatewayMetrics                                      *)
  accepted          (* events accepted so far; event n is the n-th         *)

(* History: what the properties compare the state with. *)
VARIABLES
  acked,            (* events some publish() returned True for             *)
  overflowed,       (* events a trim deleted                               *)
  lost,             (* events a dying process had in hand                  *)
  outage,           (* events refused because the publisher was down       *)
  startRows,        (* rows in the table when this process started         *)
  startEvents,      (* events accepted before this process started         *)
  thisCall,         (* rows confirmed since this run_once() began          *)
  ends              (* how often the process ended                         *)

bufferVars == <<table, lastId, droppedCount>>
replayVars == <<replayRequested, batch, confirmed>>
historyVars == <<acked, overflowed, lost, outage, startRows, startEvents, thisCall, ends>>
gatewayVars == <<pc, replayVars, bufferVars, metrics, accepted, historyVars>>
vars == <<publisherVars, gatewayVars>>

NoMetrics ==
  [processed |-> 0, rejected |-> 0, publish_failures |-> 0, buffered |-> 0, replayed |-> 0]

Points ==
  {"down", "top", "attempt", "opening", "opened", "gate", "peek", "row", "rowAwait",
   "remove", "recv", "publish", "liveAwait", "failed", "enqueue", "record"}

(* The thread holds an accepted event that is neither published nor stored.*)
EventInHand == pc \in {"publish", "liveAwait", "failed", "enqueue"}
InHand == IF EventInHand THEN {accepted} ELSE {}

Replaying == pc \in {"row", "rowAwait", "remove"}
NextRow == FirstOf(batch \ confirmed)
RowIds == Nat \ {0}

ThreadTypeOK ==
  /\ pc \in Points
  /\ replayRequested \in BOOLEAN
  /\ batch \subseteq RowIds
  /\ confirmed \subseteq RowIds
  /\ accepted \in 0 .. MaxEvents

TableTypeOK ==
  /\ DOMAIN table \subseteq RowIds
  /\ table \in [DOMAIN table -> Event]
  /\ lastId \in Nat

CountersTypeOK ==
  /\ droppedCount \in Nat
  /\ metrics \in [processed : Nat, rejected : Nat, publish_failures : Nat,
                  buffered : Nat, replayed : Nat]

HistoryTypeOK ==
  /\ acked \subseteq Event
  /\ overflowed \subseteq Event
  /\ lost \subseteq Event
  /\ outage \subseteq Event
  /\ startRows \in Nat
  /\ startEvents \in Nat
  /\ thisCall \in Nat
  /\ ends \in 0 .. MaxEnds

TypeOK ==
  PublisherTypeOK /\ ThreadTypeOK /\ TableTypeOK /\ CountersTypeOK /\ HistoryTypeOK

(* A first run: run_demo.py connects, creates the table and starts run().  *)
Init ==
  /\ PublisherInit
  /\ pc = "top"
  /\ replayRequested = FALSE
  /\ batch = {}
  /\ confirmed = {}
  /\ table = EmptyTable
  /\ lastId = 0
  /\ droppedCount = 0
  /\ metrics = NoMetrics
  /\ accepted = 0
  /\ acked = {}
  /\ overflowed = {}
  /\ lost = {}
  /\ outage = {}
  /\ startRows = 0
  /\ startEvents = 0
  /\ thisCall = 0
  /\ ends = 0

Goto(point) == pc' = point

-----------------------------------------------------------------------------
(* run_once(), first part: reconnect.                                      *)

CheckConnection ==
  /\ pc = "top"
  /\ Goto(IF connected THEN "gate" ELSE "attempt")
  /\ UNCHANGED <<publisherVars, replayVars, bufferVars, metrics, accepted, historyVars>>

(* The backoff window is still open, or the attempt fails at once: either  *)
(* way try_reconnect() returns False.                                      *)
AttemptNotDue ==
  /\ pc = "attempt"
  /\ Goto("gate")
  /\ UNCHANGED <<publisherVars, replayVars, bufferVars, metrics, accepted, historyVars>>

AttemptFails ==
  /\ pc = "attempt"
  /\ AttemptHitsSimulatedOutage
  /\ Goto("gate")
  /\ UNCHANGED <<replayVars, bufferVars, metrics, accepted, historyVars>>

(* Mutant of ResumeLink: the outcome of try_reconnect() is not looked at.  *)
ResumeLinkUnnoticed ==
  /\ pc = "attempt"
  /\ AttemptFindsLinkIntact
  /\ Goto("gate")
  /\ UNCHANGED <<replayVars, bufferVars, metrics, accepted, historyVars>>

(* try_reconnect() returns True; run_once() asks for a replay. *)
ResumeLink ==
  /\ pc = "attempt"
  /\ AttemptFindsLinkIntact
  /\ replayRequested' = TRUE
  /\ Goto("gate")
  /\ UNCHANGED <<batch, confirmed, bufferVars, metrics, accepted, historyVars>>

StartReconnect ==
  /\ pc = "attempt"
  /\ AttemptNeedsNewLink
  /\ Goto("opening")
  /\ UNCHANGED <<replayVars, bufferVars, metrics, accepted, historyVars>>

ReconnectSucceeds ==
  /\ pc = "opening"
  /\ NewLinkOpened
  /\ Goto("opened")
  /\ UNCHANGED <<replayVars, bufferVars, metrics, accepted, historyVars>>

ReconnectFails ==
  /\ pc = "opening"
  /\ NewLinkRefused
  /\ Goto("gate")
  /\ UNCHANGED <<replayVars, bufferVars, metrics, accepted, historyVars>>

FinishReconnect ==
  /\ pc = "opened"
  /\ MarkConnected
  /\ replayRequested' = TRUE
  /\ Goto("gate")
  /\ UNCHANGED <<batch, confirmed, bufferVars, metrics, accepted, historyVars>>

Reconnect ==
  \/ AttemptNotDue
  \/ AttemptFails
  \/ ResumeLink
  \/ StartReconnect
  \/ ReconnectSucceeds
  \/ ReconnectFails
  \/ FinishReconnect

-----------------------------------------------------------------------------
(* run_once(), second part: _replay_buffered().                            *)

DecideReplay ==
  /\ pc = "gate"
  /\ Goto(IF replayRequested /\ connected THEN "peek" ELSE "recv")
  /\ UNCHANGED <<publisherVars, replayVars, bufferVars, metrics, accepted, historyVars>>

PeekEmpty ==
  /\ pc = "peek"
  /\ PeekBatch(table, BatchSize) = {}
  /\ replayRequested' = FALSE
  /\ Goto("recv")
  /\ UNCHANGED <<publisherVars, batch, confirmed, bufferVars, metrics, accepted, historyVars>>

PeekRows ==
  /\ pc = "peek"
  /\ PeekBatch(table, BatchSize) # {}
  /\ batch' = PeekBatch(table, BatchSize)
  /\ Goto("row")
  /\ UNCHANGED <<publisherVars, replayRequested, confirmed, bufferVars, metrics, accepted, historyVars>>

(* The connection is gone, or publish() refuses the row: the pass stops.   *)
RowNotSent ==
  /\ pc = "row"
  /\ \/ ~connected /\ UNCHANGED publisherVars
     \/ connected /\ PublishRefused
  /\ Goto("remove")
  /\ UNCHANGED <<replayVars, bufferVars, metrics, accepted, historyVars>>

(* Mutant of SendRow: a row counts as replayed when it is sent. *)
SendRowCounted ==
  /\ pc = "row"
  /\ PublishHandedOver(table[NextRow])
  /\ metrics' = [metrics EXCEPT !.replayed = @ + 1]
  /\ Goto("rowAwait")
  /\ UNCHANGED <<replayVars, bufferVars, accepted, historyVars>>

SendRow ==
  /\ pc = "row"
  /\ PublishHandedOver(table[NextRow])
  /\ Goto("rowAwait")
  /\ UNCHANGED <<replayVars, bufferVars, metrics, accepted, historyVars>>

RowConfirmed ==
  /\ pc = "rowAwait"
  /\ PublishConfirmed
  /\ confirmed' = confirmed \cup {NextRow}
  /\ metrics' = [metrics EXCEPT !.replayed = @ + 1]
  /\ acked' = acked \cup {sending}
  /\ thisCall' = thisCall + 1
  /\ Goto(IF confirmed' = batch THEN "remove" ELSE "row")
  /\ UNCHANGED <<replayRequested, batch, bufferVars, accepted,
                 overflowed, lost, outage, startRows, startEvents, ends>>

RowUnconfirmed ==
  /\ pc = "rowAwait"
  /\ PublishUnconfirmed
  /\ Goto("remove")
  /\ UNCHANGED <<replayVars, bufferVars, metrics, accepted, historyVars>>

(* Mutants of RemoveConfirmed: every row of the batch is deleted; none is, *)
(* unless the batch went through; a pass that stopped counts as drained.   *)
RemoveBatch ==
  /\ pc = "remove"
  /\ table' = Remove(table, batch)
  /\ Goto(IF confirmed = batch THEN "peek" ELSE "recv")
  /\ batch' = {}
  /\ confirmed' = {}
  /\ UNCHANGED <<publisherVars, replayRequested, lastId, droppedCount, metrics, accepted, historyVars>>
RemoveCompleteBatch ==
  /\ pc = "remove"
  /\ table' = IF confirmed = batch THEN Remove(table, confirmed) ELSE table
  /\ Goto(IF confirmed = batch THEN "peek" ELSE "recv")
  /\ batch' = {}
  /\ confirmed' = {}
  /\ UNCHANGED <<publisherVars, replayRequested, lastId, droppedCount, metrics, accepted, historyVars>>
RemoveAndForget ==
  /\ pc = "remove"
  /\ table' = Remove(table, confirmed)
  /\ replayRequested' = (replayRequested /\ confirmed = batch)
  /\ Goto(IF confirmed = batch THEN "peek" ELSE "recv")
  /\ batch' = {}
  /\ confirmed' = {}
  /\ UNCHANGED <<publisherVars, lastId, droppedCount, metrics, accepted, historyVars>>

(* remove(confirmed_ids) in one transaction, then on to the next batch if  *)
(* this one went through, to the CAN bus if it did not.                    *)
RemoveConfirmed ==
  /\ pc = "remove"
  /\ table' = Remove(table, confirmed)
  /\ Goto(IF confirmed = batch THEN "peek" ELSE "recv")
  /\ batch' = {}
  /\ confirmed' = {}
  /\ UNCHANGED <<publisherVars, replayRequested, lastId, droppedCount, metrics, accepted, historyVars>>

ReplayBuffered ==
  \/ PeekEmpty
  \/ PeekRows
  \/ RowNotSent
  \/ SendRow
  \/ RowConfirmed
  \/ RowUnconfirmed
  \/ RemoveConfirmed

-----------------------------------------------------------------------------
(* run_once(), third part: one CAN frame.                                  *)

(* No frame in time, a frame that is not telemetry, a malformed payload.   *)
RecvNothing ==
  /\ pc = "recv"
  /\ thisCall' = 0
  /\ Goto("top")
  /\ UNCHANGED <<publisherVars, replayVars, bufferVars, metrics, accepted,
                 acked, overflowed, lost, outage, startRows, startEvents, ends>>

RecvRejected ==
  /\ pc = "recv"
  /\ metrics.rejected < MaxRejected
  /\ metrics' = [metrics EXCEPT !.rejected = @ + 1]
  /\ thisCall' = 0
  /\ Goto("top")
  /\ UNCHANGED <<publisherVars, replayVars, bufferVars, accepted,
                 acked, overflowed, lost, outage, startRows, startEvents, ends>>

RecvAccepted ==
  /\ pc = "recv"
  /\ accepted < MaxEvents
  /\ accepted' = accepted + 1
  /\ thisCall' = 0
  /\ Goto("publish")
  /\ UNCHANGED <<publisherVars, replayVars, bufferVars, metrics,
                 acked, overflowed, lost, outage, startRows, startEvents, ends>>

LiveRefused ==
  /\ pc = "publish"
  /\ PublishRefused
  /\ outage' = IF forcedFailures = 0 THEN outage \cup {accepted} ELSE outage
  /\ Goto("failed")
  /\ UNCHANGED <<replayVars, bufferVars, metrics, accepted,
                 acked, overflowed, lost, startRows, startEvents, thisCall, ends>>

SendLive ==
  /\ pc = "publish"
  /\ PublishHandedOver(accepted)
  /\ Goto("liveAwait")
  /\ UNCHANGED <<replayVars, bufferVars, metrics, accepted, historyVars>>

LiveConfirmed ==
  /\ pc = "liveAwait"
  /\ PublishConfirmed
  /\ metrics' = [metrics EXCEPT !.processed = @ + 1]
  /\ acked' = acked \cup {sending}
  /\ Goto("top")
  /\ UNCHANGED <<replayVars, bufferVars, accepted,
                 overflowed, lost, outage, startRows, startEvents, thisCall, ends>>

(* Mutant of LiveUnconfirmed: no exception is taken for an acknowledgement.*)
LiveTimeoutTakenForSuccess ==
  /\ pc = "liveAwait"
  /\ PublishUnconfirmed
  /\ metrics' = [metrics EXCEPT !.processed = @ + 1]
  /\ Goto("top")
  /\ UNCHANGED <<replayVars, bufferVars, accepted, historyVars>>

LiveUnconfirmed ==
  /\ pc = "liveAwait"
  /\ PublishUnconfirmed
  /\ Goto("failed")
  /\ UNCHANGED <<replayVars, bufferVars, metrics, accepted, historyVars>>

RecordPublishFailure ==
  /\ pc = "failed"
  /\ metrics' = [metrics EXCEPT !.publish_failures = @ + 1]
  /\ Goto("enqueue")
  /\ UNCHANGED <<publisherVars, replayVars, bufferVars, accepted, historyVars>>

(* Mutant of FreshId: ids are reused. *)
LowestFreeId == FirstOf((1 .. lastId + 1) \ DOMAIN table)

(* AUTOINCREMENT: one above every id the table ever held. *)
FreshId == lastId + 1

(* enqueue(): the row goes in and the oldest rows beyond MaxSize go out in *)
(* one transaction.                                                        *)
EnqueueEvent ==
  LET grown == Insert(table, FreshId, accepted)
      out == Overflowing(grown)
  IN /\ pc = "enqueue"
     /\ table' = Enqueue(table, FreshId, accepted)
     /\ lastId' = FreshId
     /\ droppedCount' = droppedCount + Cardinality(out)
     /\ overflowed' = overflowed \cup {grown[k] : k \in out}
     /\ Goto("record")
     /\ UNCHANGED <<publisherVars, replayVars, metrics, accepted,
                    acked, lost, outage, startRows, startEvents, thisCall, ends>>

RecordBuffered ==
  /\ pc = "record"
  /\ metrics' = [metrics EXCEPT !.buffered = @ + 1]
  /\ Goto("top")
  /\ UNCHANGED <<publisherVars, replayVars, bufferVars, accepted, historyVars>>

HandleFrame ==
  \/ RecvNothing
  \/ RecvRejected
  \/ RecvAccepted
  \/ LiveRefused
  \/ SendLive
  \/ LiveConfirmed
  \/ LiveUnconfirmed
  \/ RecordPublishFailure
  \/ EnqueueEvent
  \/ RecordBuffered

GatewayThread == CheckConnection \/ Reconnect \/ DecideReplay \/ ReplayBuffered \/ HandleFrame

-----------------------------------------------------------------------------
(* The process.                                                            *)

(* run() sees stop_event at the top of its loop, or the process dies       *)
(* wherever it is.  Only the table is on disk.                             *)
ProcessEnds ==
  /\ pc # "down"
  /\ ends < MaxEnds
  /\ ends' = ends + 1
  /\ PublisherGone
  /\ lost' = lost \cup InHand
  /\ replayRequested' = FALSE
  /\ batch' = {}
  /\ confirmed' = {}
  /\ droppedCount' = 0
  /\ metrics' = NoMetrics
  /\ thisCall' = 0
  /\ Goto("down")
  /\ UNCHANGED <<table, lastId, accepted, acked, overflowed, outage, startRows, startEvents>>

(* Mutant of ProcessStarts: the backlog in the file is not looked at. *)
ProcessStartsUnaware ==
  /\ pc = "down"
  /\ PublisherConnects
  /\ startRows' = Cardinality(DOMAIN table)
  /\ startEvents' = accepted
  /\ Goto("top")
  /\ UNCHANGED <<replayVars, bufferVars, metrics, accepted,
                 acked, overflowed, lost, outage, thisCall, ends>>

(* The next process opens the same file; run() asks for a replay if rows   *)
(* are left in it.                                                         *)
ProcessStarts ==
  /\ pc = "down"
  /\ PublisherConnects
  /\ replayRequested' = (DOMAIN table # {})
  /\ startRows' = Cardinality(DOMAIN table)
  /\ startEvents' = accepted
  /\ Goto("top")
  /\ UNCHANGED <<batch, confirmed, bufferVars, metrics, accepted,
                 acked, overflowed, lost, outage, thisCall, ends>>

(* A step of another thread, while there is a process. *)
Meanwhile(step) == pc # "down" /\ step /\ UNCHANGED gatewayVars

Environment == Meanwhile(PublisherEnvironment)

Next == GatewayThread \/ ProcessEnds \/ ProcessStarts \/ Environment

Spec == Init /\ [][Next]_vars

=============================================================================
