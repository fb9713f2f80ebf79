-------------------------- MODULE ResilienceScenario --------------------------
(***************************************************************************)
(* run_scenario() and _verify() of scenarios/resilience_demo.py around the *)
(* gateway of EdgeGateway: the main thread waits for one condition after   *)
(* the other, injects and clears the outage in between, stops the gateway  *)
(* and judges the run by what the gateway logged and a subscriber got.     *)
(*                                                                         *)
(* Every wait may end in its timeout, as long as its condition is false    *)
(* then.  Two waits of one stage whose conditions never become false again *)
(* are one.  The subscriber has received what the broker has: a message on *)
(* its way would only prolong a wait.  The process does not end before the *)
(* scenario does, and what its threads still do once the verdict is there  *)
(* is left out.  So are counts, wording and the summary, and timestamps,   *)
(* which grow in the order of acceptance.                                  *)
(***************************************************************************)
EXTENDS EdgeGateway, Sequences

CONSTANTS
  NormalEvents,     (* DemoConfig.normal_events                            *)
  OutageEvents,     (* DemoConfig.outage_events                            *)
  RecoveryEvents,   (* DemoConfig.recovery_events                          *)
  Topics            (* number of topics the events are published on        *)

ASSUME ScenarioAssumption ==
  /\ NormalEvents \in Nat \ {0}
  /\ OutageEvents \in Nat \ {0}
  /\ RecoveryEvents \in Nat \ {0}
  /\ Topics \in Nat \ {0}

VARIABLES
  stage,            (* `stage`, then "cleanup"                             *)
  stop,             (* stop_event                                          *)
  log,              (* _GatewayLogRecorder, the records that are looked at *)
  arrivals,         (* _TelemetryObserver: what arrived, in order          *)
  owed,             (* buffered_ids as the replay stage reads them         *)
  mark,             (* replay_done_at                                      *)
  result            (* "none", "passed", or the stage that failed          *)

scenarioVars == <<stage, stop, log, arrivals, owed, mark, result>>
allVars == <<vars, scenarioVars>>

Waits ==
  {"normal operation", "outage injection", "buffering", "recovery", "replay",
   "return to normal", "verification"}

Record == [kind : {"published", "buffered", "replayed", "reconnected"}, event : Event \cup {0}]

ScenarioTypeOK ==
  /\ TypeOK
  /\ stage \in Waits \cup {"cleanup"}
  /\ stop \in BOOLEAN
  /\ log \in Seq(Record)
  /\ arrivals \in Seq(Event)
  /\ owed \in Seq(Event)
  /\ mark \in Nat
  /\ result \in Waits \cup {"none", "passed"}

(* Set up: subscribed, connected, a fresh buffer, the threads started.     *)
ScenarioInit ==
  /\ Init
  /\ stage = "normal operation"
  /\ stop = FALSE
  /\ log = <<>>
  /\ arrivals = <<>>
  /\ owed = <<>>
  /\ mark = 0
  /\ result = "none"

(* The topic stands for ECU and signal; two events in a row may share one. *)
Topic(e) == (e \div 2) % Topics
Arrived == {arrivals[i] : i \in DOMAIN arrivals}

Places(kind) == {i \in DOMAIN log : log[i].kind = kind}

(* The member of a set of numbers that comes n-th. *)
NthOf(numbers, n) ==
  CHOOSE i \in numbers : Cardinality({j \in numbers : j <= i}) = n

(* The events of the records of one kind, in the order they were logged.   *)
EventsOf(kind) ==
  [n \in 1 .. Cardinality(Places(kind)) |-> log[NthOf(Places(kind), n)].event]

(* The needles stand in the haystack; those of one topic in their order.   *)
IsSubsequencePerTopic(needles, haystack) ==
  \E place \in [DOMAIN needles -> DOMAIN haystack] :
    /\ \A i \in DOMAIN needles : haystack[place[i]] = needles[i]
    /\ \A i, j \in DOMAIN needles :
         i < j /\ Topic(needles[i]) = Topic(needles[j]) => place[i] < place[j]

-----------------------------------------------------------------------------
(* The gateway's thread, the network, and what is observed of them.        *)

(* The rows a replay pass removed, one record each, oldest first. *)
ReplayRecords ==
  [i \in 1 .. Cardinality(confirmed) |->
     [kind |-> "replayed", event |-> table[NthOf(confirmed, i)]]]

(* What a step of the gateway's thread logs. *)
Recorded ==
  CASE pc = "liveAwait" /\ pc' = "top" -> <<[kind |-> "published", event |-> accepted]>>
    [] pc = "record" -> <<[kind |-> "buffered", event |-> accepted]>>
    [] pc = "remove" -> ReplayRecords
    [] pc \in {"attempt", "opened"} /\ connected' -> <<[kind |-> "reconnected", event |-> 0]>>
    [] OTHER -> <<>>

(* run() leaves its loop at the top, when stop_event is set. *)
ThreadEnded == stop /\ pc = "top"

(* Bound: one of the faults is kept for the scenario's own outage. *)
OutageAffordable == faults' + (IF stage = "normal operation" THEN 1 ELSE 0) <= MaxFaults

Gateway ==
  /\ stage \in Waits
  /\ ~ThreadEnded
  /\ GatewayThread
  /\ OutageAffordable
  /\ log' = log \o Recorded
  /\ UNCHANGED <<stage, stop, arrivals, owed, mark, result>>

(* Bound: of an event a second copy is the last one that is recorded, and  *)
(* the broker's answer to a message nobody waits for is not lost.          *)
NewlyReceived == {e \in Event : received'[e] # received[e]}

Network ==
  /\ stage \in Waits
  /\ \/ LinkDrops
     \/ HandleDisconnect
     \/ PahoReopensLink
     \/ BrokerReceives
     \/ PubackArrives
     \/ PahoResends /\ stale' # stale
  /\ OutageAffordable
  /\ arrivals' = IF NewlyReceived = {} THEN arrivals
                 ELSE Append(arrivals, CHOOSE e \in NewlyReceived : TRUE)
  /\ UNCHANGED <<gatewayVars, stage, stop, log, owed, mark, result>>

-----------------------------------------------------------------------------
(* run_scenario()                                                          *)

LiveSinceMark == {i \in Places("published") : mark < i}

(* What the stage waits for. *)
Reached ==
  CASE stage = "normal operation" -> Len(arrivals) >= NormalEvents
    [] stage = "outage injection" -> metrics.buffered >= 1
    [] stage = "buffering" -> metrics.buffered >= OutageEvents
    [] stage = "recovery" -> Places("reconnected") # {}
    [] stage = "replay" ->
         /\ Cardinality(Places("replayed")) >= Len(owed)
         /\ \A i \in DOMAIN owed : owed[i] \in Arrived
    [] stage = "return to normal" ->
         /\ Cardinality(LiveSinceMark) >= RecoveryEvents
         /\ \A i \in LiveSinceMark : log[i].event \in Arrived
    [] stage = "verification" -> ThreadEnded
    [] OTHER -> FALSE

Proceed(from, to) ==
  /\ stage = from
  /\ Reached
  /\ stage' = to
  /\ UNCHANGED <<gatewayVars, log, arrivals, result>>

InjectOutage ==
  /\ Proceed("normal operation", "outage injection")
  /\ InjectConnectionOutage
  /\ UNCHANGED <<stop, owed, mark>>

SeeOutage ==
  /\ Proceed("outage injection", "buffering")
  /\ UNCHANGED <<publisherVars, stop, owed, mark>>

ClearOutage ==
  /\ Proceed("buffering", "recovery")
  /\ ClearConnectionOutage
  /\ UNCHANGED <<stop, owed, mark>>

SeeReconnect ==
  /\ Proceed("recovery", "replay")
  /\ owed' = EventsOf("buffered")
  /\ UNCHANGED <<publisherVars, stop, mark>>

SeeReplay ==
  /\ Proceed("replay", "return to normal")
  /\ mark' = Len(log)
  /\ UNCHANGED <<publisherVars, stop, owed>>

StopThreads ==
  /\ Proceed("return to normal", "verification")
  /\ stop' = TRUE
  /\ UNCHANGED <<publisherVars, owed, mark>>

(* _wait_for() raises DemoFailure, or a thread is alive after its join:    *)
(* the outage's context is left, the cleanup tells the threads to stop.    *)
Fail ==
  /\ stage \in Waits
  /\ ~Reached
  /\ simulatedOutage' = FALSE
  /\ stage' = "cleanup"
  /\ stop' = TRUE
  /\ result' = stage
  /\ UNCHANGED <<connected, linkIntact, forcedFailures, linkVars, messageVars, faults,
                 gatewayVars, log, arrivals, owed, mark>>

First(places) == CHOOSE i \in places : \A j \in places : i <= j
Last(places) == CHOOSE i \in places : \A j \in places : j <= i

Fifo ==
  /\ EventsOf("replayed") = EventsOf("buffered")
  /\ IsSubsequencePerTopic(EventsOf("buffered"), arrivals)

(* Mutants of NothingOvertook: the window takes in what came before the    *)
(* outage; only what was published while the records were replayed counts. *)
NothingBefore ==
  \A i \in Places("published") : ~(i < Last(Places("replayed")))
NothingWithinReplay ==
  \A i \in Places("published") :
    ~(First(Places("replayed")) < i /\ i < Last(Places("replayed")))

(* No live publish between the first buffered event and the last replay.   *)
NothingOvertook ==
  \A i \in Places("published") :
    ~(First(Places("buffered")) < i /\ i < Last(Places("replayed")))

MetricsAgree ==
  /\ metrics.buffered = Cardinality(Places("buffered"))
  /\ metrics.publish_failures = Cardinality(Places("buffered"))
  /\ metrics.replayed = Cardinality(Places("replayed"))
  /\ metrics.processed = Cardinality(Places("published"))
  /\ metrics.rejected = 0
  /\ droppedCount = 0

(* The checks of _verify() that can still fail once every stage passed.    *)
Verified ==
  /\ Fifo
  /\ NothingOvertook
  /\ \A i \in Places("published") \cup Places("replayed") : log[i].event \in Arrived
  /\ \E i \in Places("published") : Last(Places("replayed")) < i
  /\ DOMAIN table = {}
  /\ MetricsAgree

Verify ==
  /\ stage = "verification"
  /\ Reached
  /\ stage' = "cleanup"
  /\ result' = IF Verified THEN "passed" ELSE "verification"
  /\ UNCHANGED <<vars, stop, log, arrivals, owed, mark>>

Scenario ==
  \/ InjectOutage
  \/ SeeOutage
  \/ ClearOutage
  \/ SeeReconnect
  \/ SeeReplay
  \/ StopThreads
  \/ Verify
  \/ Fail

ScenarioNext == Gateway \/ Network \/ Scenario

ScenarioSpec == ScenarioInit /\ [][ScenarioNext]_allVars

=============================================================================
