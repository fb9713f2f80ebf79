---------------------------- MODULE MqttPublisher ----------------------------
(***************************************************************************)
(* MqttPublisher of edge_gateway/mqtt_publisher.py, the paho-mqtt client   *)
(* it wraps and the broker behind it.                                      *)
(*                                                                         *)
(* Three threads of control meet here.  The gateway's own thread calls     *)
(* try_reconnect() and publish(); paho's network thread runs               *)
(* _handle_disconnect() and moves messages; a demo or dashboard thread     *)
(* injects and clears faults.  No lock guards the publisher's fields; the  *)
(* interpreter (CPython 3.11, one thread at a time) switches threads only  *)
(* at calls, so what the code does between two calls is one step here, and *)
(* a call that blocks ends the step it is made in.                         *)
(*                                                                         *)
(* paho and the broker are external.  What the code relies on is modelled: *)
(* a QoS-1 message handed to paho stays with it until the broker's PUBACK  *)
(* arrives, whether or not publish() still waits for it, and is sent again *)
(* on a new connection; on_disconnect runs some time after a drop.         *)
(*                                                                         *)
(* An event is identified by its number in the order the gateway accepted  *)
(* it; topic and payload travel with it.  Time is abstracted: a reconnect  *)
(* attempt may or may not be due.                                          *)
(***************************************************************************)
EXTENDS Integers

CONSTANTS
  MaxEvents,    (* Bound: events the gateway accepts in one behaviour.     *)
  MaxFaults     (* Bound: drops, lost answers and injected faults.         *)

ASSUME EventsAssumption == MaxEvents \in Nat \ {0}
ASSUME FaultsAssumption == MaxFaults \in Nat

VARIABLES
  connected,        (* _connected                                          *)
  linkIntact,       (* _simulated_link_intact                              *)
  simulatedOutage,  (* _simulated_outage                                   *)
  forcedFailures,   (* _forced_failures_remaining                          *)
  linkUp,           (* the TCP session between paho and the broker exists  *)
  dropPending,      (* a drop whose on_disconnect callback has not run yet *)
  sending,          (* event of the message publish() waits for; 0: none   *)
  wait,             (* how far that message got                            *)
  stale,            (* events of messages paho still holds unacknowledged  *)
                    (* although their publish() call has returned          *)
  received,         (* how often the broker got each event: 0, 1, 2 = more *)
  faults            (* faults so far                                       *)

flagVars == <<connected, linkIntact, simulatedOutage, forcedFailures>>
linkVars == <<linkUp, dropPending>>
messageVars == <<sending, wait, stale, received>>
publisherVars == <<flagVars, linkVars, messageVars, faults>>

Event == 1 .. MaxEvents

(* What publish() needs to know of the message it waits for: it is queued  *)
(* in paho, the broker has it, or its PUBACK came (is_published()).        *)
WaitState == {"idle", "queued", "received", "acked"}

PublisherTypeOK ==
  /\ connected \in BOOLEAN
  /\ linkIntact \in BOOLEAN
  /\ simulatedOutage \in BOOLEAN
  /\ forcedFailures \in 0 .. MaxFaults
  /\ linkUp \in BOOLEAN
  /\ dropPending \in BOOLEAN
  /\ sending \in Event \cup {0}
  /\ wait \in WaitState
  /\ stale \subseteq Event
  /\ received \in [Event -> 0 .. 2]
  /\ faults \in 0 .. MaxFaults

(* connect() on a publisher that was just constructed. *)
PublisherInit ==
  /\ connected = TRUE
  /\ linkIntact = FALSE
  /\ simulatedOutage = FALSE
  /\ forcedFailures = 0
  /\ linkUp = TRUE
  /\ dropPending = FALSE
  /\ sending = 0
  /\ wait = "idle"
  /\ stale = {}
  /\ received = [e \in Event |-> 0]
  /\ faults = 0

-----------------------------------------------------------------------------
(* Steps of publish(), taken by the gateway's thread.                      *)

(* A call fails before it reaches paho: a forced failure is used up, or    *)
(* the publisher knows it is not connected.                                *)
PublishRefused ==
  /\ forcedFailures > 0 \/ ~connected
  /\ forcedFailures' = IF forcedFailures > 0 THEN forcedFailures - 1 ELSE 0
  /\ UNCHANGED <<connected, linkIntact, simulatedOutage, linkVars, messageVars, faults>>

(* client.publish() queues the message; wait_for_publish() blocks on it.   *)
PublishHandedOver(e) ==
  /\ forcedFailures = 0
  /\ connected
  /\ sending' = e
  /\ wait' = "queued"
  /\ UNCHANGED <<flagVars, linkVars, stale, received, faults>>

(* is_published() is true when the wait is over. *)
PublishConfirmed ==
  /\ wait = "acked"
  /\ sending' = 0
  /\ wait' = "idle"
  /\ UNCHANGED <<flagVars, linkVars, stale, received, faults>>

(* The wait ends without a PUBACK: it timed out (a fault while the link is *)
(* up), or paho raised because the link is down.  paho keeps the message.  *)
PublishUnconfirmed ==
  /\ wait \in {"queued", "received"}
  /\ \/ ~linkUp /\ UNCHANGED faults
     \/ linkUp /\ faults < MaxFaults /\ faults' = faults + 1
  /\ stale' = stale \cup {sending}
  /\ sending' = 0
  /\ wait' = "idle"
  /\ UNCHANGED <<flagVars, linkVars, received>>

-----------------------------------------------------------------------------
(* Steps of try_reconnect(), taken by the gateway's thread.                *)

(* A simulated outage makes the attempt raise OSError. *)
AttemptHitsSimulatedOutage ==
  /\ simulatedOutage
  /\ UNCHANGED publisherVars

(* After a simulated outage the real socket is still there: nothing is     *)
(* opened and no call is made, so one step clears the one flag and sets    *)
(* the other.                                                              *)
AttemptFindsLinkIntact ==
  /\ ~simulatedOutage
  /\ linkIntact
  /\ linkIntact' = FALSE
  /\ connected' = TRUE
  /\ UNCHANGED <<simulatedOutage, forcedFailures, linkVars, messageVars, faults>>

(* Mutant of AttemptNeedsNewLink: no attempt while paho has a session. *)
AttemptUnlessLinkUp == ~simulatedOutage /\ ~linkIntact /\ ~linkUp /\ UNCHANGED publisherVars

(* Both flags are read as false: client.reconnect() is called. *)
AttemptNeedsNewLink == ~simulatedOutage /\ ~linkIntact /\ UNCHANGED publisherVars

(* client.reconnect() returns: the broker accepted the TCP connection.     *)
NewLinkOpened ==
  /\ linkUp' = TRUE
  /\ wait' = IF wait = "received" THEN "queued" ELSE wait
  /\ UNCHANGED <<flagVars, dropPending, sending, stale, received, faults>>

(* client.reconnect() raises: the broker cannot be reached. *)
NewLinkRefused ==
  /\ faults < MaxFaults
  /\ faults' = faults + 1
  /\ linkUp' = FALSE
  /\ UNCHANGED <<flagVars, dropPending, messageVars>>

(* The assignment `_connected = True` that follows a successful reconnect().
   Other threads run between the two.                                      *)
MarkConnected ==
  /\ connected' = TRUE
  /\ UNCHANGED <<linkIntact, simulatedOutage, forcedFailures, linkVars, messageVars, faults>>

-----------------------------------------------------------------------------
(* paho's network thread and the broker.                                   *)

(* The TCP session breaks (broker stopped, network gone). *)
LinkDrops ==
  /\ linkUp
  /\ faults < MaxFaults
  /\ faults' = faults + 1
  /\ linkUp' = FALSE
  /\ dropPending' = TRUE
  /\ wait' = IF wait = "received" THEN "queued" ELSE wait
  /\ UNCHANGED <<flagVars, sending, stale, received>>

(* _handle_disconnect(): paho tells the publisher. *)
HandleDisconnect ==
  /\ dropPending
  /\ dropPending' = FALSE
  /\ connected' = FALSE
  /\ linkIntact' = FALSE
  /\ UNCHANGED <<simulatedOutage, forcedFailures, linkUp, messageVars, faults>>

(* paho's loop re-opens a session it lost; the publisher is not told.      *)
PahoReopensLink ==
  /\ ~linkUp
  /\ ~dropPending
  /\ linkUp' = TRUE
  /\ UNCHANGED <<flagVars, dropPending, messageVars, faults>>

OneMore(n) == IF n < 2 THEN n + 1 ELSE 2

(* The message publish() waits for reaches the broker ... *)
BrokerReceives ==
  /\ linkUp
  /\ wait = "queued"
  /\ wait' = "received"
  /\ received' = [received EXCEPT ![sending] = OneMore(@)]
  /\ UNCHANGED <<flagVars, linkVars, sending, stale, faults>>

(* ... and its PUBACK reaches paho. *)
PubackArrives ==
  /\ linkUp
  /\ wait = "received"
  /\ wait' = "acked"
  /\ UNCHANGED <<flagVars, linkVars, sending, stale, received, faults>>

(* paho transmits a message nobody waits for any more.  Its PUBACK may be  *)
(* lost with the connection, and the message sent again on the next one.   *)
PahoResends ==
  /\ linkUp
  /\ \E e \in stale :
       /\ received' = [received EXCEPT ![e] = OneMore(@)]
       /\ stale' \in {stale, stale \ {e}}
  /\ UNCHANGED <<flagVars, linkVars, sending, wait, faults>>

-----------------------------------------------------------------------------
(* Fault injection, from another thread (edge_gateway/fault_injection.py). *)

(* force_publish_failures(count) on entry. *)
InjectPublishFailures ==
  /\ faults < MaxFaults
  /\ \E count \in 1 .. MaxFaults - faults :
       /\ forcedFailures' = count
       /\ faults' = faults + count
  /\ UNCHANGED <<connected, linkIntact, simulatedOutage, linkVars, messageVars>>

(* ... and on exit. *)
ClearInjectedFailures ==
  /\ forcedFailures > 0
  /\ forcedFailures' = 0
  /\ UNCHANGED <<connected, linkIntact, simulatedOutage, linkVars, messageVars, faults>>

(* simulated_connection_outage() on entry: the publisher's own view drops, *)
(* the socket stays.                                                       *)
InjectConnectionOutage ==
  /\ faults < MaxFaults
  /\ faults' = faults + 1
  /\ simulatedOutage' = TRUE
  /\ connected' = FALSE
  /\ linkIntact' = (connected \/ linkIntact)
  /\ UNCHANGED <<forcedFailures, linkVars, messageVars>>

(* ... and on exit: recovery is left to the next reconnect attempt. *)
ClearConnectionOutage ==
  /\ simulatedOutage
  /\ simulatedOutage' = FALSE
  /\ UNCHANGED <<connected, linkIntact, forcedFailures, linkVars, messageVars, faults>>

(* What the world does to a publisher while its process runs. *)
PublisherEnvironment ==
  \/ LinkDrops
  \/ HandleDisconnect
  \/ PahoReopensLink
  \/ BrokerReceives
  \/ PubackArrives
  \/ PahoResends
  \/ InjectPublishFailures
  \/ ClearInjectedFailures
  \/ InjectConnectionOutage
  \/ ClearConnectionOutage

-----------------------------------------------------------------------------
(* The process ends: paho's queue and every flag go with it.  What the     *)
(* broker got stays with the broker.                                       *)
PublisherGone ==
  /\ connected' = FALSE
  /\ linkIntact' = FALSE
  /\ simulatedOutage' = FALSE
  /\ forcedFailures' = 0
  /\ linkUp' = FALSE
  /\ dropPending' = FALSE
  /\ sending' = 0
  /\ wait' = "idle"
  /\ stale' = {}
  /\ UNCHANGED <<received, faults>>

(* connect() of a new process: it raises when the broker is away, and the  *)
(* program then ends; a start that gets further has a link.                *)
PublisherConnects ==
  /\ connected' = TRUE
  /\ linkUp' = TRUE
  /\ UNCHANGED <<linkIntact, simulatedOutage, forcedFailures, dropPending, messageVars, faults>>

=============================================================================
