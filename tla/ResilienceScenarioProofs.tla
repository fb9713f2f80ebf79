------------------------ MODULE ResilienceScenarioProofs ------------------------
(***************************************************************************)
(* A verdict of the resilience scenario is worth what PassIsEarned and     *)
(* QuietRunPasses say, for every number of events, topics and faults and   *)
(* every table.  The gateway in the scenario is the gateway of             *)
(* EdgeGateway, step by step, so all that is proved of that one holds of   *)
(* this one; what is added relates what the gateway logged to what         *)
(* arrived.  The second half follows a run without faults from phase to    *)
(* phase: connected, in the outage, replaying, connected with nothing left *)
(* to replay.                                                              *)
(***************************************************************************)
EXTENDS ResilienceScenarioProperties, EdgeGatewayProofs, SequenceTheorems

-----------------------------------------------------------------------------
(* The gateway in the scenario.                                            *)

(* What the thread of the gateway does to what the scenario looks at: it   *)
(* takes an event in hand, is done with it, deletes what was replayed, or  *)
(* does none of this.                                                      *)
LEMMA ThreadStep ==
  ASSUME GatewayThread
  PROVE  /\ pc' # "down"
         /\ UNCHANGED <<ends, lost, received>>
         /\ UNCHANGED <<droppedCount, overflowed>> \/ EnqueueEvent
         /\ \/ RecvAccepted
            \/ LiveConfirmed
            \/ RecordBuffered
            \/ RemoveConfirmed
            \/ /\ pc \notin {"record", "remove"} /\ ~(pc = "liveAwait" /\ pc' = "top")
               /\ accepted' = accepted
               /\ EventInHand' => EventInHand
               /\ (EventInHand' \/ pc' = "record") <=> (EventInHand \/ pc = "record")
<1>. USE DEF EventInHand, Goto, bufferVars, replayVars, gatewayVars, historyVars, publisherVars,
         messageVars, flagVars, linkVars
<1>1. CASE CheckConnection \/ DecideReplay
  BY <1>1 DEF CheckConnection, DecideReplay
<1>2. CASE Reconnect
  BY <1>2 DEF Reconnect, AttemptNotDue, AttemptFails, ResumeLink, StartReconnect, ReconnectSucceeds,
     ReconnectFails, FinishReconnect, AttemptHitsSimulatedOutage, AttemptFindsLinkIntact,
     AttemptNeedsNewLink, NewLinkOpened, NewLinkRefused, MarkConnected
<1>3. CASE ReplayBuffered
  BY <1>3 DEF ReplayBuffered, PeekEmpty, PeekRows, RowNotSent, SendRow, RowConfirmed, RowUnconfirmed,
     RemoveConfirmed, PublishRefused, PublishHandedOver, PublishConfirmed, PublishUnconfirmed
<1>4. CASE HandleFrame
  BY <1>4 DEF HandleFrame, RecvNothing, RecvRejected, RecvAccepted, LiveRefused, SendLive, LiveConfirmed,
     LiveUnconfirmed, RecordPublishFailure, EnqueueEvent, RecordBuffered,
     PublishRefused, PublishHandedOver, PublishConfirmed, PublishUnconfirmed
<1>. QED  BY <1>1, <1>2, <1>3, <1>4 DEF GatewayThread

(* A step of the network is one the gateway's world may take.              *)
LEMMA NetworkStep ==
  ASSUME Network, pc # "down"
  PROVE  Environment
BY DEF Network, Environment, Meanwhile, PublisherEnvironment

(* A stage of the scenario does nothing to the gateway but end or begin an *)
(* outage.                                                                 *)
LEMMA StageStep ==
  ASSUME Scenario, simulatedOutage \in BOOLEAN
  PROVE  /\ UNCHANGED gatewayVars
         /\ UNCHANGED publisherVars \/ InjectConnectionOutage \/ ClearConnectionOutage
<1>1. CASE Fail
  <2>1. UNCHANGED gatewayVars
    BY <1>1 DEF Fail
  <2>2. CASE simulatedOutage
    BY <1>1, <2>2 DEF Fail, ClearConnectionOutage
  <2>3. CASE ~simulatedOutage
    BY <1>1, <2>3 DEF Fail, publisherVars, flagVars
  <2>. QED  BY <2>1, <2>2, <2>3
<1>2. CASE Verify
  BY <1>2 DEF Verify, vars
<1>3. CASE InjectOutage \/ SeeOutage \/ ClearOutage \/ SeeReconnect \/ SeeReplay \/ StopThreads
  BY <1>3 DEF InjectOutage, SeeOutage, ClearOutage, SeeReconnect, SeeReplay, StopThreads, Proceed
<1>. QED  BY <1>1, <1>2, <1>3 DEF Scenario

(* Every step of the scenario is one of the gateway, or leaves it alone.   *)
LEMMA StepsTheGateway ==
  ASSUME Structure, pc # "down", [ScenarioNext]_allVars
  PROVE  [Next]_vars
<1>1. CASE Gateway
  BY <1>1 DEF Gateway, Next
<1>2. CASE Network
  BY <1>2, NetworkStep DEF Next
<1>3. CASE Scenario
  <2>1. simulatedOutage \in BOOLEAN
    BY DEF Structure, TypeOK, PublisherTypeOK
  <2>2. CASE UNCHANGED publisherVars
    BY <1>3, <2>1, <2>2, StageStep DEF vars
  <2>3. CASE InjectConnectionOutage \/ ClearConnectionOutage
    BY <1>3, <2>1, <2>3, StageStep DEF Next, Environment, Meanwhile, PublisherEnvironment
  <2>. QED  BY <1>3, <2>1, <2>2, <2>3, StageStep
<1>4. CASE UNCHANGED allVars
  BY <1>4 DEF allVars
<1>. QED  BY <1>1, <1>2, <1>3, <1>4 DEF ScenarioNext

(* The process of a scenario does not end, and what overflowed is counted. *)
OneProcess ==
  /\ pc # "down"
  /\ ends = 0
  /\ lost = {}
  /\ droppedCount = 0 => overflowed = {}

(* A step of the network or of a stage touches none of it. *)
LEMMA ProcessKept ==
  ASSUME Structure, OneProcess, [ScenarioNext]_allVars
  PROVE  OneProcess'
<1>1. CASE Gateway
  <2>1. pc' # "down" /\ ends' = 0 /\ lost' = {}
    BY <1>1, ThreadStep DEF Gateway, OneProcess
  <2>2. CASE UNCHANGED <<droppedCount, overflowed>>
    BY <2>1, <2>2 DEF OneProcess
  <2>3. CASE EnqueueEvent
    <3>1. /\ Cardinality(Displaced) \in Nat
          /\ Displaced # {} => Cardinality(Displaced) = 1
          /\ droppedCount' = droppedCount + Cardinality(Displaced)
          /\ overflowed' = overflowed \cup {table[i] : i \in Displaced}
      <4>1. Displaced # {} => Cardinality(Displaced) = 1
        BY <2>3, EnqueueEffect, FS_Singleton
      <4>. QED  BY <2>3, <4>1, EnqueueEffect
    <3>2. droppedCount \in Nat
      BY DEF Structure, TypeOK, CountersTypeOK
    <3>3. ASSUME droppedCount' = 0
          PROVE  overflowed' = {}
      <4>1. droppedCount = 0 /\ Cardinality(Displaced) = 0
        BY <3>1, <3>2, <3>3
      <4>2. Displaced = {}
        BY <3>1, <4>1
      <4>. QED  BY <3>1, <4>1, <4>2 DEF OneProcess
    <3>. QED  BY <2>1, <3>3 DEF OneProcess
  <2>. QED  BY <1>1, <2>2, <2>3, ThreadStep DEF Gateway
<1>2. CASE Network \/ Scenario
  <2>1. UNCHANGED gatewayVars
    <3>1. simulatedOutage \in BOOLEAN
      BY DEF Structure, TypeOK, PublisherTypeOK
    <3>. QED  BY <1>2, <3>1, StageStep DEF Network
  <2>. QED  BY <2>1 DEF OneProcess, gatewayVars, historyVars, bufferVars
<1>3. CASE UNCHANGED allVars
  BY <1>3 DEF allVars, vars, OneProcess, gatewayVars, historyVars, bufferVars
<1>. QED  BY <1>1, <1>2, <1>3 DEF ScenarioNext

(* In every state of a scenario the gateway is as its own specification    *)
(* has it.                                                                 *)
GatewayAsSpecified == GatewayInvariant /\ OneProcess

(* It starts so ... *)
LEMMA SpecifiedAtStart == ScenarioInit => GatewayAsSpecified
<1>1. Init => OneProcess
  BY DEF Init, OneProcess
<1>. QED  BY <1>1, InvariantAtStart DEF ScenarioInit, GatewayAsSpecified

(* ... and every step of the scenario is a step of the gateway that keeps  *)
(* it.                                                                     *)
LEMMA SpecifiedKept ==
  ASSUME GatewayAsSpecified, [ScenarioNext]_allVars
  PROVE  GatewayAsSpecified' /\ [Next]_vars
<1>1. Structure /\ OneProcess /\ GatewayInvariant
  BY DEF GatewayAsSpecified, GatewayInvariant
<1>2. [Next]_vars
  BY <1>1, StepsTheGateway DEF OneProcess
<1>3. GatewayInvariant'
  BY <1>1, <1>2, InvariantKept
<1>4. OneProcess'
  BY <1>1, ProcessKept
<1>. QED  BY <1>2, <1>3, <1>4 DEF GatewayAsSpecified

(* The gateway that run_scenario() drives is the gateway of EdgeGateway:   *)
(* every behaviour of the scenario is one of Spec, so its injected outage, *)
(* its observers and its stages add nothing the gateway's theorems do not  *)
(* cover.                                                                  *)
THEOREM ScenarioRunsTheGateway == ScenarioSpec => Spec
<1>1. ScenarioInit => Init
  BY DEF ScenarioInit
<1>. QED
  BY <1>1, SpecifiedAtStart, SpecifiedKept, PTL DEF ScenarioSpec, Spec

-----------------------------------------------------------------------------
(* The n-th of a set of numbers, the first and the last one.               *)

(* How many members of the set are not above i. *)
Rank(numbers, i) == Cardinality({j \in numbers : j <= i})

(* Ranks count from 1 to the size of the set and grow with the number. *)
LEMMA RankProperties ==
  ASSUME NEW numbers \in SUBSET Nat, IsFiniteSet(numbers), NEW i \in numbers
  PROVE  /\ Rank(numbers, i) \in 1 .. Cardinality(numbers)
         /\ \A k \in numbers : i < k => Rank(numbers, i) < Rank(numbers, k)
<1>. DEFINE Below(k) == {j \in numbers : j <= k}
<1>1. \A k \in numbers :
        /\ IsFiniteSet(Below(k)) /\ Cardinality(Below(k)) \in Nat
        /\ Cardinality(Below(k)) <= Cardinality(numbers)
  <2>1. \A k \in numbers : Below(k) \in SUBSET numbers
    OBVIOUS
  <2>. QED  BY <2>1, FS_Subset, FS_CardinalityType
<1>2. Cardinality(Below(i)) # 0
  <2>1. i \in Below(i)
    OBVIOUS
  <2>. HIDE DEF Below
  <2>. QED  BY <1>1, <2>1, FS_EmptySet
<1>3. ASSUME NEW k \in numbers, i < k
      PROVE  Cardinality(Below(i)) < Cardinality(Below(k))
  <2>1. Below(i) \in SUBSET Below(k)
    <3>1. \A j \in numbers : j \in Nat /\ (j <= i => j <= k)
      BY <1>3
    <3>. QED  BY <3>1
  <2>2. k \in Below(k) /\ k \notin Below(i)
    BY <1>3
  <2>. HIDE DEF Below
  <2>3. /\ Cardinality(Below(i)) <= Cardinality(Below(k))
        /\ Cardinality(Below(i)) # Cardinality(Below(k))
    BY <1>1, <2>1, <2>2, FS_Subset
  <2>. QED  BY <1>1, <2>3
<1>4. Cardinality(numbers) \in Nat
  BY FS_CardinalityType
<1>. HIDE DEF Below
<1>5. Rank(numbers, i) = Cardinality(Below(i)) /\ \A k \in numbers : Rank(numbers, k) = Cardinality(Below(k))
  BY DEF Rank, Below
<1>6. Rank(numbers, i) \in 1 .. Cardinality(numbers)
  BY <1>1, <1>2, <1>4, <1>5
<1>. QED  BY <1>3, <1>5, <1>6

(* So every rank up to the size of the set is that of some member: as many *)
(* ranks as members are taken, no two by the same.                         *)
LEMMA RanksAreTaken ==
  ASSUME NEW numbers \in SUBSET Nat, IsFiniteSet(numbers), NEW n \in 1 .. Cardinality(numbers)
  PROVE  \E i \in numbers : Rank(numbers, i) = n
<1>. DEFINE size == Cardinality(numbers)
            rank == [i \in numbers |-> Rank(numbers, i)]
<1>1. size \in Nat /\ IsFiniteSet(1 .. size) /\ Cardinality(1 .. size) = size
  <2>1. size \in Nat /\ 1 \in Int
    BY FS_CardinalityType
  <2>2. IsFiniteSet(1 .. size) /\ Cardinality(1 .. size) = IF 1 > size THEN 0 ELSE size - 1 + 1
    <3>. HIDE DEF size
    <3>1. size \in Int /\ 1 \in Int
      BY <2>1
    <3>. QED  BY <3>1, FS_Interval, Zenon
  <2>. HIDE DEF size
  <2>. QED  BY <2>1, <2>2
<1>2. rank \in Injection(numbers, 1 .. size)
  <2>1. rank \in [numbers -> 1 .. size]
    BY RankProperties
  <2>2. ASSUME NEW i \in numbers, NEW k \in numbers, rank[i] = rank[k]
        PROVE  i = k
    <3>1. i \in Nat /\ k \in Nat
      OBVIOUS
    <3>2. Rank(numbers, i) \in Int /\ Rank(numbers, k) \in Int
      <4>1. size \in Int
        BY <1>1
      <4>2. Rank(numbers, i) \in 1 .. size /\ Rank(numbers, k) \in 1 .. size
        BY RankProperties
      <4>. HIDE DEF size
      <4>. QED  BY <4>1, <4>2
    <3>3. ~(i < k) /\ ~(k < i)
      BY <2>2, <3>2, RankProperties
    <3>. QED  BY <3>1, <3>3
  <2>. HIDE DEF rank
  <2>. QED  BY <2>1, <2>2 DEF Injection, IsInjective
<1>3. rank \in Surjection(numbers, 1 .. size)
  <2>. HIDE DEF rank
  <2>. QED  BY <1>1, <1>2, FS_Injection
<1>. QED  BY <1>3 DEF Surjection

(* The n-th member is a member, and a member is the one its rank says. *)
LEMMA NthOfProperties ==
  ASSUME NEW numbers \in SUBSET Nat, IsFiniteSet(numbers)
  PROVE  /\ \A n \in 1 .. Cardinality(numbers) : NthOf(numbers, n) \in numbers
         /\ \A i \in numbers : NthOf(numbers, Rank(numbers, i)) = i
<1>1. ASSUME NEW n \in 1 .. Cardinality(numbers)
      PROVE  NthOf(numbers, n) \in numbers
  BY RanksAreTaken DEF NthOf, Rank
<1>2. ASSUME NEW i \in numbers
      PROVE  NthOf(numbers, Rank(numbers, i)) = i
  <2>1. PICK k \in numbers : k = NthOf(numbers, Rank(numbers, i)) /\ Rank(numbers, k) = Rank(numbers, i)
    BY DEF NthOf, Rank
  <2>2. Rank(numbers, i) \in 1 .. Cardinality(numbers) /\ Cardinality(numbers) \in Nat
    BY RankProperties, FS_CardinalityType
  <2>3. ~(i < k) /\ ~(k < i)
    BY <2>1, <2>2, RankProperties
  <2>. QED  BY <2>1, <2>3
<1>. QED  BY <1>1, <1>2

(* Of places of a sequence there is a first and a last one. *)
LEMMA FirstAndLast ==
  ASSUME NEW n \in Nat, NEW places \in SUBSET (1 .. n), places # {}
  PROVE  /\ First(places) \in places /\ Last(places) \in places
         /\ \A i \in places : First(places) <= i /\ i <= Last(places)
<1>1. \E i \in places : \A j \in places : i <= j
  BY LeastExists
<1>2. \E i \in places : \A j \in places : j <= i
  <2>. DEFINE fromEnd == {n - i : i \in places}
  <2>1. fromEnd \in SUBSET Nat /\ fromEnd # {}
    <3>1. \A i \in places : i \in Int /\ i <= n
      OBVIOUS
    <3>2. \A i \in places : n - i \in Nat
      BY <3>1
    <3>. QED  BY <3>2
  <2>2. PICK least \in fromEnd : \A k \in fromEnd : least <= k
    BY <2>1, LeastExists
  <2>3. PICK i \in places : least = n - i
    OBVIOUS
  <2>4. \A j \in places : n - i <= n - j
    BY <2>2, <2>3
  <2>5. \A j \in places : j <= i
    BY <2>4
  <2>. QED  BY <2>5
<1>. QED  BY <1>1, <1>2 DEF First, Last

-----------------------------------------------------------------------------
(* What arrived.                                                           *)

(* The observer has what the broker has, and the broker what was accepted. *)
Observed ==
  /\ arrivals \in Seq(Event)
  /\ \A e \in Event : e \in Arrived <=> received[e] > 0
  /\ \A e \in Arrived : e <= accepted

(* One more arrival. *)
Arrives(e) ==
  /\ e \in 1 .. accepted /\ e \in Event
  /\ arrivals' = Append(arrivals, e)
  /\ received'[e] > 0
  /\ \A g \in Event \ {e} : received'[g] = received[g]

NothingArrives == arrivals' = arrivals /\ \A e \in Event : received'[e] = received[e]

(* The broker gets one event at a time, and none that was not accepted.    *)
LEMMA BrokerStep ==
  ASSUME Structure, NothingEarly, Network
  PROVE  \/ \A e \in Event : received'[e] = received[e]
         \/ \E e \in Event \cap (1 .. accepted) :
              received'[e] > 0 /\ \A g \in Event \ {e} : received'[g] = received[g]
<1>1. received \in [Event -> 0 .. 2] /\ accepted \in 0 .. MaxEvents /\ MaxEvents \in Nat
  BY EventsAssumption DEF Structure, TypeOK, PublisherTypeOK, ThreadTypeOK
<1>2. ASSUME NEW e \in Event, e \in 1 .. accepted, received' = [received EXCEPT ![e] = OneMore(@)]
      PROVE  received'[e] > 0 /\ \A g \in Event \ {e} : received'[g] = received[g]
  <2>1. received[e] \in 0 .. 2 /\ received'[e] = OneMore(received[e])
    BY <1>1, <1>2
  <2>2. OneMore(received[e]) > 0
    BY <2>1 DEF OneMore
  <2>. QED  BY <1>1, <1>2, <2>1, <2>2
<1>3. CASE BrokerReceives
  <2>1. sending \in 1 .. accepted /\ sending \in Event
    BY <1>3, SendingAccepted, EventsInUse DEF BrokerReceives
  <2>2. received' = [received EXCEPT ![sending] = OneMore(@)]
    BY <1>3 DEF BrokerReceives
  <2>. QED  BY <1>2, <2>1, <2>2
<1>4. CASE PahoResends
  <2>1. PICK e \in stale : received' = [received EXCEPT ![e] = OneMore(@)]
    BY <1>4 DEF PahoResends
  <2>2. e \in 1 .. accepted /\ e \in Event
    BY <1>1 DEF NothingEarly, Event
  <2>. QED  BY <1>2, <2>1, <2>2
<1>5. CASE LinkDrops \/ HandleDisconnect \/ PahoReopensLink \/ PubackArrives
  BY <1>5 DEF LinkDrops, HandleDisconnect, PahoReopensLink, PubackArrives, messageVars
<1>. QED  BY <1>3, <1>4, <1>5 DEF Network

(* ... and the observer sees it. *)
LEMMA ObserverStep ==
  ASSUME Structure, NothingEarly, Network
  PROVE  NothingArrives \/ \E e \in Event : Arrives(e)
<1>1. CASE \A e \in Event : received'[e] = received[e]
  <2>1. NewlyReceived = {}
    BY <1>1 DEF NewlyReceived
  <2>. QED  BY <1>1, <2>1 DEF Network, NothingArrives
<1>2. CASE ~ \A e \in Event : received'[e] = received[e]
  <2>1. PICK e \in Event \cap (1 .. accepted) :
          received'[e] > 0 /\ \A g \in Event \ {e} : received'[g] = received[g]
    BY <1>2, BrokerStep
  <2>2. NewlyReceived = {e}
    BY <1>2, <2>1 DEF NewlyReceived
  <2>3. arrivals' = Append(arrivals, CHOOSE g \in NewlyReceived : TRUE)
    BY <2>2 DEF Network
  <2>4. arrivals' = Append(arrivals, e)
    BY <2>2, <2>3
  <2>. QED  BY <2>1, <2>4 DEF Arrives
<1>. QED  BY <1>1, <1>2

(* No other step makes anything arrive. *)
LEMMA ArrivalsChange ==
  ASSUME Structure, NothingEarly, [ScenarioNext]_allVars
  PROVE  NothingArrives \/ (Network /\ \E e \in Event : Arrives(e))
<1>1. CASE Gateway
  BY <1>1, ThreadStep DEF Gateway, NothingArrives
<1>2. CASE Scenario
  <2>1. arrivals' = arrivals
    BY <1>2 DEF Scenario, InjectOutage, SeeOutage, ClearOutage, SeeReconnect, SeeReplay, StopThreads, Proceed,
       Verify, Fail
  <2>2. simulatedOutage \in BOOLEAN
    BY DEF Structure, TypeOK, PublisherTypeOK
  <2>3. received' = received
    BY <1>2, <2>2, StageStep
    DEF publisherVars, messageVars, InjectConnectionOutage, ClearConnectionOutage
  <2>. QED  BY <2>1, <2>3 DEF NothingArrives
<1>3. CASE UNCHANGED allVars
  BY <1>3 DEF allVars, scenarioVars, vars, publisherVars, messageVars, NothingArrives
<1>. QED  BY <1>1, <1>2, <1>3, ObserverStep DEF ScenarioNext

(* What one more arrival adds to the sequence. *)
LEMMA ArrivalAdds ==
  ASSUME arrivals \in Seq(Event), NEW e \in Event, Arrives(e)
  PROVE  /\ arrivals' \in Seq(Event)
         /\ Arrived' = Arrived \cup {e}
         /\ \A i \in DOMAIN arrivals : i \in DOMAIN arrivals' /\ arrivals'[i] = arrivals[i]
         /\ \E q \in DOMAIN arrivals' :
              /\ DOMAIN arrivals' = DOMAIN arrivals \cup {q}
              /\ arrivals'[q] = e
              /\ \A p \in DOMAIN arrivals : p < q
<1>. DEFINE n == Len(arrivals)
            more == Append(arrivals, e)
<1>1. /\ more \in Seq(Event) /\ Len(more) = n + 1 /\ n \in Nat
      /\ \A i \in 1 .. n : more[i] = arrivals[i]
      /\ more[n + 1] = e
  BY AppendProperties, LenProperties
<1>2. DOMAIN more = 1 .. n + 1 /\ DOMAIN arrivals = 1 .. n
  <2>1. DOMAIN more = 1 .. Len(more) /\ DOMAIN arrivals = 1 .. n
    BY <1>1, LenProperties
  <2>. QED  BY <1>1, <2>1
<1>3. arrivals' = more
  BY DEF Arrives
<1>. HIDE DEF more, n
<1>4. \A i \in 1 .. n + 1 : i \in 1 .. n \/ i = n + 1
  BY <1>1
<1>5. /\ \A i \in 1 .. n : i \in 1 .. n + 1 /\ i < n + 1
      /\ n + 1 \in 1 .. n + 1
      /\ 1 .. n + 1 = (1 .. n) \cup {n + 1}
  BY <1>1
<1>6. Arrived' = Arrived \cup {e}
  BY <1>1, <1>2, <1>3, <1>4, <1>5 DEF Arrived
<1>. QED  BY <1>1, <1>2, <1>3, <1>5, <1>6

(* Events are accepted one after the other. *)
LEMMA AcceptedGrows ==
  ASSUME Structure, [ScenarioNext]_allVars, pc # "down"
  PROVE  accepted' >= accepted /\ accepted \in Nat /\ accepted' \in Nat
<1>1. accepted \in Nat
  BY EventsAssumption DEF Structure, TypeOK, ThreadTypeOK
<1>2. RecvAccepted \/ accepted' = accepted
  BY StepsTheGateway, HandChanges
<1>. QED  BY <1>1, <1>2 DEF RecvAccepted

(* Every step keeps what is said of the arrivals. *)
LEMMA ObservedKept ==
  ASSUME Structure, NothingEarly, pc # "down", Observed, [ScenarioNext]_allVars
  PROVE  Observed'
<1>1. accepted' >= accepted /\ accepted \in Nat /\ accepted' \in Nat
  BY AcceptedGrows
<1>2. Arrived \subseteq Event /\ \A e \in Event : e \in Int
  <2>1. \A i \in DOMAIN arrivals : arrivals[i] \in Event
    BY ElementOfSeq, LenProperties DEF Observed
  <2>. QED  BY <2>1 DEF Arrived, Event
<1>3. CASE NothingArrives
  <2>1. Arrived' = Arrived
    BY <1>3 DEF NothingArrives, Arrived
  <2>2. \A e \in Arrived' : e <= accepted'
    BY <1>1, <1>2, <2>1 DEF Observed
  <2>3. \A e \in Event : e \in Arrived' <=> received'[e] > 0
    BY <1>3, <2>1 DEF Observed, NothingArrives
  <2>4. arrivals' \in Seq(Event)
    BY <1>3 DEF Observed, NothingArrives
  <2>. QED  BY <2>2, <2>3, <2>4 DEF Observed
<1>4. CASE \E e \in Event : Arrives(e)
  <2>1. PICK e \in Event : Arrives(e)
    BY <1>4
  <2>2. arrivals' \in Seq(Event) /\ Arrived' = Arrived \cup {e}
    BY <2>1, ArrivalAdds DEF Observed
  <2>3. \A g \in Arrived' : g <= accepted'
    <3>1. e <= accepted /\ e \in Int
      BY <1>1, <2>1 DEF Arrives
    <3>2. \A g \in Arrived' : g <= accepted /\ g \in Int
      BY <1>2, <2>2, <3>1 DEF Observed
    <3>. QED  BY <1>1, <3>2
  <2>4. \A g \in Event : g \in Arrived' <=> received'[g] > 0
    BY <2>1, <2>2 DEF Observed, Arrives
  <2>. QED  BY <2>2, <2>3, <2>4 DEF Observed
<1>. QED  BY <1>3, <1>4, ArrivalsChange

-----------------------------------------------------------------------------
(* What is logged.                                                         *)

(* The event last accepted is not yet logged. *)
Unlogged == EventInHand \/ pc = "record"

(* The records that say what became of an accepted event first, and those  *)
(* that say the broker acknowledged it.                                    *)
Firsthand == Places("published") \cup Places("buffered")
Acknowledged == Places("published") \cup Places("replayed")

(* What a step may do to the log and to the event in hand: an event is     *)
(* accepted ...                                                            *)
TakesEvent ==
  /\ log' = log
  /\ NothingArrives
  /\ accepted' = accepted + 1 /\ accepted' \in Event
  /\ ~Unlogged /\ EventInHand'

(* ... published ... *)
LogsPublished ==
  /\ log' = log \o <<[kind |-> "published", event |-> accepted]>>
  /\ NothingArrives
  /\ accepted' = accepted /\ accepted \in Event
  /\ received[accepted] > 0
  /\ EventInHand /\ ~Unlogged'

(* ... or buffered; ... *)
LogsBuffered ==
  /\ log' = log \o <<[kind |-> "buffered", event |-> accepted]>>
  /\ NothingArrives
  /\ accepted' = accepted
  /\ Unlogged /\ ~Unlogged'

(* ... events are replayed, each of which the broker has; ... *)
LogsReplayed ==
  /\ \E new \in Seq(Record) :
       /\ log' = log \o new
       /\ \A k \in DOMAIN new :
            new[k].kind = "replayed" /\ new[k].event \in Event /\ received[new[k].event] > 0
  /\ NothingArrives
  /\ accepted' = accepted
  /\ ~Unlogged /\ ~Unlogged'

(* ... or none of this. *)
LogsOther ==
  /\ \E new \in Seq(Record) :
       /\ log' = log \o new
       /\ \A k \in DOMAIN new : new[k].kind = "reconnected"
  /\ accepted' = accepted
  /\ EventInHand' => EventInHand
  /\ Unlogged' <=> Unlogged

(* A reconnect is all the rest of the thread's steps log. *)
LEMMA OtherRecords ==
  ASSUME pc \notin {"record", "remove"}, ~(pc = "liveAwait" /\ pc' = "top")
  PROVE  Recorded \in Seq(Record) /\ \A k \in DOMAIN Recorded : Recorded[k].kind = "reconnected"
<1>. DEFINE r == [kind |-> "reconnected", event |-> 0]
<1>1. CASE pc \in {"attempt", "opened"} /\ connected'
  <2>1. Recorded = <<r>>
    BY <1>1 DEF Recorded
  <2>2. r \in Record /\ r.kind = "reconnected"
    BY DEF Record
  <2>. HIDE DEF r
  <2>. QED  BY <2>1, <2>2
<1>2. CASE ~(pc \in {"attempt", "opened"} /\ connected')
  <2>1. Recorded = <<>>
    BY <1>2 DEF Recorded
  <2>2. Recorded \in Seq(Record) /\ DOMAIN Recorded = {}
    BY <2>1, EmptySeq
  <2>. QED  BY <2>2
<1>. QED  BY <1>1, <1>2

(* The rows a replay deletes are rows the broker has.                      *)
LEMMA ReplayedRecords ==
  ASSUME Structure
  PROVE  /\ ReplayRecords \in Seq(Record)
         /\ \A k \in DOMAIN ReplayRecords :
              /\ ReplayRecords[k].kind = "replayed"
              /\ ReplayRecords[k].event \in Event
              /\ received[ReplayRecords[k].event] > 0
<1>1. confirmed \in SUBSET Nat /\ IsFiniteSet(confirmed)
  <2>1. confirmed \subseteq DOMAIN table /\ confirmed \subseteq RowIds
    BY DEF Structure, BatchIsOldest, TypeOK, ThreadTypeOK
  <2>2. IsFiniteSet(DOMAIN table)
    BY TableReady
  <2>. QED  BY <2>1, <2>2, FS_Subset DEF RowIds
<1>2. \A n \in 1 .. Cardinality(confirmed) :
        /\ NthOf(confirmed, n) \in confirmed
        /\ table[NthOf(confirmed, n)] \in Event
        /\ received[table[NthOf(confirmed, n)]] > 0
  <2>1. \A i \in confirmed : table[i] \in Event /\ received[table[i]] > 0
    BY DEF Structure, BatchIsOldest, TypeOK, TableTypeOK
  <2>. QED  BY <1>1, <2>1, NthOfProperties
<1>3. Cardinality(confirmed) \in Nat
  BY <1>1, FS_CardinalityType
<1>4. \A n \in 1 .. Cardinality(confirmed) :
        [kind |-> "replayed", event |-> table[NthOf(confirmed, n)]] \in Record
  BY <1>2 DEF Record
<1>5. ReplayRecords \in [1 .. Cardinality(confirmed) -> Record]
  BY <1>4 DEF ReplayRecords
<1>6. ReplayRecords \in Seq(Record)
  BY <1>3, <1>5, IsASeq
<1>7. \A k \in DOMAIN ReplayRecords :
        /\ k \in 1 .. Cardinality(confirmed)
        /\ ReplayRecords[k].kind = "replayed"
        /\ ReplayRecords[k].event = table[NthOf(confirmed, k)]
  BY DEF ReplayRecords
<1>. QED  BY <1>2, <1>6, <1>7

(* The steps of the thread that log an event.                              *)
LEMMA ThreadLogs ==
  ASSUME Structure, Gateway
  PROVE  /\ LiveConfirmed => LogsPublished
         /\ RecordBuffered => LogsBuffered
         /\ RemoveConfirmed => LogsReplayed /\ log' = log \o ReplayRecords
<1>1. NothingArrives /\ log' = log \o Recorded
  BY ThreadStep DEF Gateway, NothingArrives
<1>2. ASSUME LiveConfirmed
      PROVE  LogsPublished
  <2>1. pc = "liveAwait" /\ pc' = "top" /\ accepted' = accepted /\ wait = "acked"
    BY <1>2 DEF LiveConfirmed, Goto, PublishConfirmed
  <2>2. Recorded = <<[kind |-> "published", event |-> accepted]>>
    BY <2>1 DEF Recorded
  <2>3. accepted \in Event /\ received[accepted] > 0
    BY <2>1, EventsInUse DEF Structure, WaitsForItsMessage, EventInHand
  <2>. QED  BY <1>1, <2>1, <2>2, <2>3 DEF LogsPublished, Unlogged, EventInHand
<1>3. ASSUME RecordBuffered
      PROVE  LogsBuffered
  <2>1. pc = "record" /\ pc' = "top" /\ accepted' = accepted
    BY <1>3 DEF RecordBuffered, Goto
  <2>2. Recorded = <<[kind |-> "buffered", event |-> accepted]>>
    BY <2>1 DEF Recorded
  <2>. QED  BY <1>1, <2>1, <2>2 DEF LogsBuffered, Unlogged, EventInHand
<1>4. ASSUME RemoveConfirmed
      PROVE  LogsReplayed /\ log' = log \o ReplayRecords
  <2>1. pc = "remove" /\ pc' \in {"peek", "recv"} /\ accepted' = accepted
    BY <1>4 DEF RemoveConfirmed, Goto
  <2>2. Recorded = ReplayRecords
    BY <2>1 DEF Recorded
  <2>. QED  BY <1>1, <2>1, <2>2, ReplayedRecords DEF LogsReplayed, Unlogged, EventInHand
<1>. QED  BY <1>2, <1>3, <1>4

(* Every step is of one of the five sorts. *)
LEMMA LogStep ==
  ASSUME Structure, NothingEarly, pc # "down", log \in Seq(Record), [ScenarioNext]_allVars
  PROVE  TakesEvent \/ LogsPublished \/ LogsBuffered \/ LogsReplayed \/ LogsOther
<1>1. CASE Gateway
  <2>1. NothingArrives /\ log' = log \o Recorded /\ GatewayThread
    BY <1>1, ThreadStep DEF Gateway, NothingArrives
  <2>2. CASE RecvAccepted
    <3>1. pc = "recv" /\ pc' = "publish" /\ accepted' = accepted + 1 /\ accepted < MaxEvents
      BY <2>2 DEF RecvAccepted, Goto
    <3>2. Recorded = <<>>
      BY <3>1 DEF Recorded
    <3>3. log' = log
      BY <2>1, <3>2, ConcatEmptySeq
    <3>4. accepted' \in Event
      <4>1. accepted \in Nat /\ MaxEvents \in Nat
        BY EventsAssumption DEF Structure, TypeOK, ThreadTypeOK
      <4>. QED  BY <3>1, <4>1 DEF Event
    <3>. QED  BY <2>1, <3>1, <3>3, <3>4 DEF TakesEvent, Unlogged, EventInHand
  <2>3. CASE LiveConfirmed \/ RecordBuffered \/ RemoveConfirmed
    BY <1>1, <2>3, ThreadLogs
  <2>4. CASE /\ pc \notin {"record", "remove"} /\ ~(pc = "liveAwait" /\ pc' = "top")
             /\ accepted' = accepted
             /\ EventInHand' => EventInHand
             /\ (EventInHand' \/ pc' = "record") <=> (EventInHand \/ pc = "record")
    <3>1. Recorded \in Seq(Record) /\ \A k \in DOMAIN Recorded : Recorded[k].kind = "reconnected"
      BY <2>4, OtherRecords
    <3>. QED  BY <2>1, <2>4, <3>1 DEF LogsOther, Unlogged
  <2>. QED  BY <2>1, <2>2, <2>3, <2>4, ThreadStep
<1>2. CASE Network \/ Scenario \/ UNCHANGED allVars
  <2>1. simulatedOutage \in BOOLEAN
    BY DEF Structure, TypeOK, PublisherTypeOK
  <2>2. UNCHANGED gatewayVars
    BY <1>2, <2>1, StageStep DEF Network, allVars, vars
  <2>3. log' = log
    BY <1>2 DEF Network, Scenario, InjectOutage, SeeOutage, ClearOutage, SeeReconnect, SeeReplay, StopThreads,
       Proceed, Verify, Fail, allVars, scenarioVars
  <2>4. log' = log \o <<>> /\ <<>> \in Seq(Record) /\ DOMAIN <<>> = {}
    BY <2>3, ConcatEmptySeq, EmptySeq
  <2>5. accepted' = accepted /\ pc' = pc
    BY <2>2 DEF gatewayVars
  <2>. QED  BY <2>4, <2>5 DEF LogsOther, Unlogged, EventInHand
<1>. QED  BY <1>1, <1>2 DEF ScenarioNext

(* Every accepted event is logged once it is out of hand, in the order of  *)
(* acceptance.                                                             *)
LoggedInOrder ==
  /\ \A i \in Firsthand :
       /\ log[i].event \in 1 .. accepted
       /\ Unlogged => log[i].event # accepted
  /\ \A i, j \in Firsthand : i < j => log[i].event < log[j].event
  /\ \A e \in 1 .. accepted :
       \/ Unlogged /\ e = accepted
       \/ \E i \in Firsthand : log[i].event = e

(* What is logged as acknowledged has arrived. *)
Logged ==
  /\ log \in Seq(Record)
  /\ Unlogged => accepted \in Event
  /\ LoggedInOrder
  /\ \A i \in Acknowledged : log[i].event \in Arrived

(* Records are added at the end. *)
LEMMA RecordsAdd ==
  ASSUME log \in Seq(Record), NEW new \in Seq(Record), log' = log \o new
  PROVE  /\ log' \in Seq(Record)
         /\ \A i \in DOMAIN log : i \in Int /\ i \in DOMAIN log' /\ log'[i] = log[i]
         /\ \A i \in DOMAIN log' \ DOMAIN log :
              i \in Int /\ (\A j \in DOMAIN log : j < i) /\ \E k \in DOMAIN new : log'[i] = new[k]
<1>. DEFINE all == log \o new
            m == Len(log)
            n == Len(new)
<1>1. /\ all \in Seq(Record) /\ Len(all) = m + n /\ m \in Nat /\ n \in Nat
      /\ \A i \in 1 .. m + n : all[i] = IF i <= m THEN log[i] ELSE new[i - m]
  BY ConcatProperties, LenProperties
<1>2. DOMAIN log = 1 .. m /\ DOMAIN new = 1 .. n /\ DOMAIN all = 1 .. m + n
  <2>1. DOMAIN log = 1 .. m /\ DOMAIN new = 1 .. n /\ DOMAIN all = 1 .. Len(all)
    BY <1>1, LenProperties
  <2>. QED  BY <1>1, <2>1
<1>3. log' = all
  OBVIOUS
<1>. HIDE DEF all, m, n
<1>4. \A i \in 1 .. m : i \in Int /\ i \in 1 .. m + n /\ i <= m
  BY <1>1
<1>5. \A i \in (1 .. m + n) \ (1 .. m) :
        i \in Int /\ (\A j \in 1 .. m : j < i) /\ i - m \in 1 .. n /\ ~(i <= m)
  BY <1>1
<1>. QED  BY <1>1, <1>2, <1>3, <1>4, <1>5

(* One record is added at one place. *)
LEMMA OneRecordAdds ==
  ASSUME log \in Seq(Record), NEW r \in Record, log' = log \o <<r>>
  PROVE  /\ log' \in Seq(Record)
         /\ \A i \in DOMAIN log : i \in Int /\ i \in DOMAIN log' /\ log'[i] = log[i]
         /\ \E n \in Int :
              /\ DOMAIN log' = DOMAIN log \cup {n}
              /\ log'[n] = r
              /\ \A j \in DOMAIN log : j < n
<1>. DEFINE all == log \o <<r>>
            m == Len(log)
<1>1. /\ <<r>> \in Seq(Record) /\ Len(<<r>>) = 1 /\ <<r>>[1] = r
      /\ m \in Nat /\ DOMAIN log = 1 .. m
  BY LenProperties
<1>2. /\ all \in Seq(Record) /\ Len(all) = m + 1
      /\ \A i \in 1 .. m + 1 : all[i] = IF i <= m THEN log[i] ELSE <<r>>[i - m]
  BY <1>1, ConcatProperties
<1>3. DOMAIN all = 1 .. m + 1
  <2>1. DOMAIN all = 1 .. Len(all)
    BY <1>2, LenProperties
  <2>. QED  BY <1>2, <2>1
<1>4. log' = all
  OBVIOUS
<1>. HIDE DEF all, m
<1>5. /\ m + 1 \in 1 .. m + 1 /\ ~(m + 1 <= m) /\ m + 1 - m = 1 /\ m + 1 \in Int
      /\ 1 .. m + 1 = (1 .. m) \cup {m + 1}
      /\ \A i \in 1 .. m : i \in Int /\ i <= m /\ i < m + 1 /\ i \in 1 .. m + 1
  BY <1>1
<1>6. all[m + 1] = r
  BY <1>1, <1>2, <1>5
<1>. QED  BY <1>1, <1>2, <1>3, <1>4, <1>5, <1>6

(* Records of a kind that is not added stay where they are. *)
LEMMA PlacesStay ==
  ASSUME log \in Seq(Record), NEW new \in Seq(Record), log' = log \o new, NEW kind,
         \A k \in DOMAIN new : new[k].kind # kind
  PROVE  Places(kind)' = Places(kind)
BY RecordsAdd DEF Places

(* The order of the firsthand records is kept by a step that adds none. *)
LEMMA OrderStays ==
  ASSUME LoggedInOrder, Firsthand' = Firsthand, \A i \in Firsthand : log'[i] = log[i],
         accepted' = accepted, Unlogged' <=> Unlogged
  PROVE  LoggedInOrder'
<1>1. \A i \in Firsthand' :
        log'[i].event \in 1 .. accepted' /\ (Unlogged' => log'[i].event # accepted')
  BY DEF LoggedInOrder
<1>2. \A i, j \in Firsthand' : i < j => log'[i].event < log'[j].event
  BY DEF LoggedInOrder
<1>3. \A e \in 1 .. accepted' :
        (Unlogged' /\ e = accepted') \/ \E i \in Firsthand' : log'[i].event = e
  BY DEF LoggedInOrder
<1>. QED  BY <1>1, <1>2, <1>3 DEF LoggedInOrder

(* The next event accepted is not logged, all the others are. *)
LEMMA OrderWhenTaken ==
  ASSUME LoggedInOrder, TakesEvent, accepted \in Nat
  PROVE  LoggedInOrder'
<1>1. Firsthand' = Firsthand /\ log' = log /\ accepted' = accepted + 1 /\ ~Unlogged /\ Unlogged'
  BY DEF TakesEvent, Firsthand, Places, Unlogged
<1>2. \A i \in Firsthand' :
        log'[i].event \in 1 .. accepted' /\ log'[i].event # accepted'
  <2>1. \A e \in 1 .. accepted : e \in 1 .. accepted + 1 /\ e # accepted + 1
    OBVIOUS
  <2>. QED  BY <1>1, <2>1 DEF LoggedInOrder
<1>3. \A i, j \in Firsthand' : i < j => log'[i].event < log'[j].event
  BY <1>1 DEF LoggedInOrder
<1>4. \A e \in 1 .. accepted' : e = accepted' \/ \E i \in Firsthand' : log'[i].event = e
  <2>1. \A e \in 1 .. accepted + 1 : e = accepted + 1 \/ e \in 1 .. accepted
    OBVIOUS
  <2>. QED  BY <1>1, <2>1 DEF LoggedInOrder
<1>. QED  BY <1>1, <1>2, <1>3, <1>4 DEF LoggedInOrder

(* The event last accepted is logged once it is published or buffered.     *)
LEMMA OrderWhenLogged ==
  ASSUME LoggedInOrder, accepted \in Nat, NEW n \in Int,
         Firsthand' = Firsthand \cup {n}, Firsthand \subseteq Int,
         \A i \in Firsthand : log'[i] = log[i] /\ i < n,
         log'[n].event = accepted, accepted \in Event,
         accepted' = accepted, Unlogged, ~Unlogged'
  PROVE  LoggedInOrder'
<1>1. /\ \A i \in Firsthand : log'[i].event \in 1 .. accepted /\ log'[i].event # accepted
      /\ \A i, j \in Firsthand : i < j => log'[i].event < log'[j].event
      /\ \A e \in 1 .. accepted : e = accepted \/ \E i \in Firsthand : log'[i].event = e
  BY DEF LoggedInOrder
<1>2. accepted \in 1 .. accepted
  BY DEF Event
<1>3. \A i \in Firsthand : log'[i].event < accepted
  BY <1>1
<1>4. \A i \in Firsthand' : log'[i].event \in 1 .. accepted'
  BY <1>1, <1>2
<1>5. \A i, j \in Firsthand' : i < j => log'[i].event < log'[j].event
  <2>1. ASSUME NEW i \in Firsthand, NEW j \in Firsthand \cup {n}, i < j
        PROVE  log'[i].event < log'[j].event
    BY <1>1, <1>3, <2>1
  <2>2. \A j \in Firsthand \cup {n} : ~(n < j)
    OBVIOUS
  <2>. QED  BY <2>1, <2>2
<1>6. \A e \in 1 .. accepted' : \E i \in Firsthand' : log'[i].event = e
  BY <1>1
<1>. QED  BY <1>4, <1>5, <1>6 DEF LoggedInOrder

(* Where the record of a step that logs one event goes. *)
LEMMA PublishedPlace ==
  ASSUME log \in Seq(Record), LogsPublished
  PROVE  \E n \in Int :
           /\ log' \in Seq(Record)
           /\ \A i \in DOMAIN log : i \in Int /\ i < n /\ log'[i] = log[i]
           /\ log'[n].event = accepted
           /\ Places("published")' = Places("published") \cup {n}
           /\ Places("buffered")' = Places("buffered")
           /\ Places("replayed")' = Places("replayed")
           /\ Places("reconnected")' = Places("reconnected")
<1>. DEFINE r == [kind |-> "published", event |-> accepted]
<1>1. r \in Record /\ log' = log \o <<r>>
  BY DEF LogsPublished, Record
<1>2. r.kind = "published" /\ r.event = accepted
  OBVIOUS
<1>. HIDE DEF r
<1>3. PICK n \in Int : DOMAIN log' = DOMAIN log \cup {n} /\ log'[n] = r /\ \A j \in DOMAIN log : j < n
  BY <1>1, OneRecordAdds
<1>4. log' \in Seq(Record) /\ \A i \in DOMAIN log : i \in Int /\ log'[i] = log[i]
  BY <1>1, OneRecordAdds
<1>5. /\ Places("published")' = Places("published") \cup {n}
      /\ Places("buffered")' = Places("buffered")
      /\ Places("replayed")' = Places("replayed")
      /\ Places("reconnected")' = Places("reconnected")
  BY <1>2, <1>3, <1>4 DEF Places
<1>. QED  BY <1>2, <1>3, <1>4, <1>5

(* The same of a buffered one. *)
LEMMA BufferedPlace ==
  ASSUME log \in Seq(Record), LogsBuffered, accepted \in Event
  PROVE  \E n \in Int :
           /\ log' \in Seq(Record)
           /\ \A i \in DOMAIN log : i \in Int /\ i < n /\ log'[i] = log[i]
           /\ log'[n].event = accepted
           /\ Places("published")' = Places("published")
           /\ Places("buffered")' = Places("buffered") \cup {n}
           /\ Places("replayed")' = Places("replayed")
           /\ Places("reconnected")' = Places("reconnected")
<1>. DEFINE r == [kind |-> "buffered", event |-> accepted]
<1>1. r \in Record /\ log' = log \o <<r>>
  BY DEF LogsBuffered, Record
<1>2. r.kind = "buffered" /\ r.event = accepted
  OBVIOUS
<1>. HIDE DEF r
<1>3. PICK n \in Int : DOMAIN log' = DOMAIN log \cup {n} /\ log'[n] = r /\ \A j \in DOMAIN log : j < n
  BY <1>1, OneRecordAdds
<1>4. log' \in Seq(Record) /\ \A i \in DOMAIN log : i \in Int /\ log'[i] = log[i]
  BY <1>1, OneRecordAdds
<1>5. /\ Places("published")' = Places("published")
      /\ Places("buffered")' = Places("buffered") \cup {n}
      /\ Places("replayed")' = Places("replayed")
      /\ Places("reconnected")' = Places("reconnected")
  BY <1>2, <1>3, <1>4 DEF Places
<1>. QED  BY <1>2, <1>3, <1>4, <1>5

(* A replay's records are of its kind and go to the end. *)
LEMMA ReplayedPlaces ==
  ASSUME log \in Seq(Record), LogsReplayed
  PROVE  /\ log' \in Seq(Record)
         /\ \A i \in DOMAIN log : i \in Int /\ log'[i] = log[i]
         /\ Places("published")' = Places("published")
         /\ Places("buffered")' = Places("buffered")
         /\ Places("reconnected")' = Places("reconnected")
         /\ \A i \in Places("replayed")' \ Places("replayed") :
              /\ \A j \in DOMAIN log : j < i
              /\ log'[i].event \in Event /\ received[log'[i].event] > 0
<1>1. PICK new \in Seq(Record) :
        /\ log' = log \o new
        /\ \A k \in DOMAIN new :
             new[k].kind = "replayed" /\ new[k].event \in Event /\ received[new[k].event] > 0
  BY DEF LogsReplayed
<1>2. /\ Places("published")' = Places("published") /\ Places("buffered")' = Places("buffered")
      /\ Places("reconnected")' = Places("reconnected")
  <2>1. \A k \in DOMAIN new :
          new[k].kind # "published" /\ new[k].kind # "buffered" /\ new[k].kind # "reconnected"
    BY <1>1
  <2>. QED  BY <1>1, <2>1, PlacesStay
<1>3. \A i \in Places("replayed")' \ Places("replayed") :
        /\ \A j \in DOMAIN log : j < i
        /\ log'[i].event \in Event /\ received[log'[i].event] > 0
  <2>1. \A i \in Places("replayed")' \ Places("replayed") :
          (\A j \in DOMAIN log : j < i) /\ \E k \in DOMAIN new : log'[i] = new[k]
    BY <1>1, RecordsAdd DEF Places
  <2>. QED  BY <1>1, <2>1
<1>. QED  BY <1>1, <1>2, <1>3, RecordsAdd

(* The rest of the steps leave all three kinds as they are. *)
LEMMA OtherPlaces ==
  ASSUME log \in Seq(Record), LogsOther
  PROVE  /\ log' \in Seq(Record)
         /\ \A i \in DOMAIN log : i \in Int /\ log'[i] = log[i]
         /\ Places("published")' = Places("published")
         /\ Places("buffered")' = Places("buffered")
         /\ Places("replayed")' = Places("replayed")
<1>1. PICK new \in Seq(Record) :
        log' = log \o new /\ \A k \in DOMAIN new : new[k].kind = "reconnected"
  BY DEF LogsOther
<1>2. \A k \in DOMAIN new :
        new[k].kind # "published" /\ new[k].kind # "buffered" /\ new[k].kind # "replayed"
  BY <1>1
<1>. QED  BY <1>1, <1>2, PlacesStay, RecordsAdd

(* What has arrived stays. *)
LEMMA ArrivedStays ==
  ASSUME Structure, NothingEarly, Observed, [ScenarioNext]_allVars
  PROVE  Arrived \subseteq Arrived' /\ (NothingArrives => Arrived' = Arrived)
<1>1. NothingArrives => Arrived' = Arrived
  BY DEF NothingArrives, Arrived
<1>2. ASSUME NEW e \in Event, Arrives(e)
      PROVE  Arrived \subseteq Arrived'
  BY <1>2, ArrivalAdds DEF Observed
<1>. QED  BY <1>1, <1>2, ArrivalsChange

(* Every step keeps what is said of the log. *)
LEMMA LoggedKept ==
  ASSUME Structure, NothingEarly, pc # "down", Observed, Logged, [ScenarioNext]_allVars
  PROVE  Logged'
<1>1. /\ log \in Seq(Record) /\ LoggedInOrder /\ accepted \in Nat
      /\ Firsthand \subseteq DOMAIN log /\ Acknowledged \subseteq DOMAIN log
      /\ Places("replayed") \subseteq DOMAIN log
      /\ \A i \in Acknowledged : log[i].event \in Arrived
      /\ Unlogged => accepted \in Event
  BY EventsAssumption
  DEF Logged, Structure, TypeOK, ThreadTypeOK, Firsthand, Acknowledged, Places
<1>2. Arrived \subseteq Arrived' /\ (NothingArrives => Arrived' = Arrived)
  BY ArrivedStays
<1>3. CASE TakesEvent
  <2>1. Acknowledged' = Acknowledged /\ log' = log /\ accepted' \in Event
    BY <1>3 DEF TakesEvent, Acknowledged, Places
  <2>2. LoggedInOrder'
    BY <1>1, <1>3, OrderWhenTaken
  <2>3. log' \in Seq(Record) /\ \A i \in Acknowledged' : log'[i].event \in Arrived'
    BY <1>1, <1>2, <2>1
  <2>. QED  BY <2>1, <2>2, <2>3 DEF Logged
<1>4. CASE LogsPublished
  <2>1. /\ accepted' = accepted /\ accepted \in Event /\ accepted \in Arrived
        /\ Unlogged /\ ~Unlogged'
    BY <1>4 DEF LogsPublished, Unlogged, Observed
  <2>2. PICK n \in Int :
          /\ log' \in Seq(Record)
          /\ \A i \in DOMAIN log : i \in Int /\ i < n /\ log'[i] = log[i]
          /\ log'[n].event = accepted
          /\ Places("published")' = Places("published") \cup {n}
          /\ Places("buffered")' = Places("buffered")
          /\ Places("replayed")' = Places("replayed")
    BY <1>1, <1>4, PublishedPlace
  <2>3. Firsthand' = Firsthand \cup {n} /\ Acknowledged' = Acknowledged \cup {n}
    BY <2>2 DEF Firsthand, Acknowledged
  <2>4. Firsthand \subseteq Int /\ \A i \in Firsthand : log'[i] = log[i] /\ i < n
    BY <1>1, <2>2
  <2>5. LoggedInOrder'
    BY <1>1, <2>1, <2>2, <2>3, <2>4, OrderWhenLogged
  <2>6. \A i \in Acknowledged' : log'[i].event \in Arrived'
    BY <1>1, <1>2, <2>1, <2>2, <2>3
  <2>. QED  BY <2>1, <2>2, <2>5, <2>6 DEF Logged
<1>5. CASE LogsBuffered
  <2>1. accepted' = accepted /\ accepted \in Event /\ Unlogged /\ ~Unlogged'
    BY <1>1, <1>5 DEF LogsBuffered
  <2>2. PICK n \in Int :
          /\ log' \in Seq(Record)
          /\ \A i \in DOMAIN log : i \in Int /\ i < n /\ log'[i] = log[i]
          /\ log'[n].event = accepted
          /\ Places("published")' = Places("published")
          /\ Places("buffered")' = Places("buffered") \cup {n}
          /\ Places("replayed")' = Places("replayed")
    BY <1>1, <1>5, <2>1, BufferedPlace
  <2>3. Firsthand' = Firsthand \cup {n} /\ Acknowledged' = Acknowledged
    BY <2>2 DEF Firsthand, Acknowledged
  <2>4. Firsthand \subseteq Int /\ \A i \in Firsthand : log'[i] = log[i] /\ i < n
    BY <1>1, <2>2
  <2>5. LoggedInOrder'
    BY <1>1, <2>1, <2>2, <2>3, <2>4, OrderWhenLogged
  <2>6. \A i \in Acknowledged' : log'[i].event \in Arrived'
    BY <1>1, <1>2, <2>2, <2>3
  <2>. QED  BY <2>1, <2>2, <2>5, <2>6 DEF Logged
<1>6. CASE LogsReplayed
  <2>1. accepted' = accepted /\ ~Unlogged /\ ~Unlogged'
    BY <1>6 DEF LogsReplayed
  <2>2. /\ log' \in Seq(Record)
        /\ \A i \in DOMAIN log : i \in Int /\ log'[i] = log[i]
        /\ Places("published")' = Places("published")
        /\ Places("buffered")' = Places("buffered")
        /\ \A i \in Places("replayed")' \ Places("replayed") :
             log'[i].event \in Event /\ received[log'[i].event] > 0
    BY <1>1, <1>6, ReplayedPlaces
  <2>3. Firsthand' = Firsthand
    BY <2>2 DEF Firsthand
  <2>4. LoggedInOrder'
    BY <1>1, <2>1, <2>2, <2>3, OrderStays
  <2>5. ASSUME NEW i \in Acknowledged'
        PROVE  log'[i].event \in Arrived'
    <3>1. CASE i \in Acknowledged
      BY <1>1, <1>2, <2>2, <3>1
    <3>2. CASE i \notin Acknowledged
      <4>1. i \in Places("replayed")' \ Places("replayed")
        BY <2>2, <3>2 DEF Acknowledged
      <4>. QED  BY <1>2, <2>2, <4>1 DEF Observed
    <3>. QED  BY <3>1, <3>2
  <2>. QED  BY <2>1, <2>2, <2>4, <2>5 DEF Logged
<1>7. CASE LogsOther
  <2>1. accepted' = accepted /\ (Unlogged' <=> Unlogged)
    BY <1>7 DEF LogsOther
  <2>2. /\ log' \in Seq(Record)
        /\ \A i \in DOMAIN log : i \in Int /\ log'[i] = log[i]
        /\ Places("published")' = Places("published")
        /\ Places("buffered")' = Places("buffered")
        /\ Places("replayed")' = Places("replayed")
    BY <1>1, <1>7, OtherPlaces
  <2>3. Firsthand' = Firsthand /\ Acknowledged' = Acknowledged
    BY <2>2 DEF Firsthand, Acknowledged
  <2>4. LoggedInOrder'
    BY <1>1, <2>1, <2>2, <2>3, OrderStays
  <2>5. \A i \in Acknowledged' : log'[i].event \in Arrived'
    BY <1>1, <1>2, <2>2, <2>3
  <2>. QED  BY <1>1, <2>1, <2>2, <2>4, <2>5 DEF Logged
<1>. QED  BY <1>1, <1>3, <1>4, <1>5, <1>6, <1>7, LogStep

-----------------------------------------------------------------------------
(* What arrived before what.                                               *)

(* Some arrival of d is before some arrival of e. *)
Precedes(s, d, e) == \E p, q \in DOMAIN s : p < q /\ s[p] = d /\ s[q] = e

(* An event published live arrived before all later ones; a replayed one   *)
(* before those that were published, or came in hand, after its replay.    *)
ArrivedInOrder ==
  /\ \A i \in Places("published"), e \in Arrived :
       log[i].event < e => Precedes(arrivals, log[i].event, e)
  /\ EventInHand /\ accepted \in Arrived =>
       \A i \in Places("replayed") : Precedes(arrivals, log[i].event, accepted)
  /\ \A i \in Places("replayed"), j \in Places("published") :
       i < j => Precedes(arrivals, log[i].event, log[j].event)

(* What arrived before what stays so, ...                                  *)
LEMMA PrecedesStays ==
  ASSUME Observed, NothingArrives \/ \E e \in Event : Arrives(e)
  PROVE  \A d, e : Precedes(arrivals, d, e) => Precedes(arrivals', d, e)
<1>1. CASE NothingArrives
  BY <1>1 DEF NothingArrives
<1>2. CASE \E e \in Event : Arrives(e)
  <2>1. \A i \in DOMAIN arrivals : i \in DOMAIN arrivals' /\ arrivals'[i] = arrivals[i]
    BY <1>2, ArrivalAdds DEF Observed
  <2>. QED  BY <2>1 DEF Precedes
<1>. QED  BY <1>1, <1>2

(* ... and all that has arrived is before the next arrival. *)
LEMMA PrecedesNext ==
  ASSUME Observed, NEW e \in Event, Arrives(e)
  PROVE  \A d \in Arrived : Precedes(arrivals', d, e)
<1>1. /\ \A i \in DOMAIN arrivals : i \in DOMAIN arrivals' /\ arrivals'[i] = arrivals[i]
      /\ \E q \in DOMAIN arrivals' : arrivals'[q] = e /\ \A p \in DOMAIN arrivals : p < q
  BY ArrivalAdds DEF Observed
<1>. QED  BY <1>1 DEF Precedes, Arrived

(* A step that logs and accepts nothing keeps the order, whatever arrives. *)
LEMMA OrderThroughArrivals ==
  ASSUME Observed, Logged, ArrivedInOrder, LogsOther,
         NothingArrives \/ \E e \in Event : Arrives(e)
  PROVE  ArrivedInOrder'
<1>1. /\ \A i \in DOMAIN log : log'[i] = log[i]
      /\ Places("published")' = Places("published")
      /\ Places("replayed")' = Places("replayed")
  BY OtherPlaces DEF Logged
<1>2. accepted' = accepted /\ (EventInHand' => EventInHand)
  BY DEF LogsOther
<1>3. /\ \A i \in Places("published") : i \in DOMAIN log /\ log[i].event \in Arrived
      /\ \A i \in Places("replayed") : i \in DOMAIN log /\ log[i].event \in Arrived
  BY DEF Logged, Acknowledged, Places
<1>4. \A d, e : Precedes(arrivals, d, e) => Precedes(arrivals', d, e)
  BY PrecedesStays
<1>5. \A x \in Arrived' : x \in Arrived \/ \A d \in Arrived : Precedes(arrivals', d, x)
  <2>1. CASE NothingArrives
    BY <2>1 DEF NothingArrives, Arrived
  <2>2. ASSUME NEW e \in Event, Arrives(e)
        PROVE  \A x \in Arrived' : x \in Arrived \/ \A d \in Arrived : Precedes(arrivals', d, x)
    <3>1. Arrived' = Arrived \cup {e}
      BY <2>2, ArrivalAdds DEF Observed
    <3>2. \A d \in Arrived : Precedes(arrivals', d, e)
      BY <2>2, PrecedesNext
    <3>. QED  BY <3>1, <3>2
  <2>. QED  BY <2>1, <2>2
<1>6. \A i \in Places("published")', x \in Arrived' :
        log'[i].event < x => Precedes(arrivals', log'[i].event, x)
  BY <1>1, <1>3, <1>4, <1>5 DEF ArrivedInOrder
<1>7. EventInHand' /\ accepted' \in Arrived' =>
        \A i \in Places("replayed")' : Precedes(arrivals', log'[i].event, accepted')
  BY <1>1, <1>2, <1>3, <1>4, <1>5 DEF ArrivedInOrder
<1>8. \A i \in Places("replayed")', j \in Places("published")' :
        i < j => Precedes(arrivals', log'[i].event, log'[j].event)
  BY <1>1, <1>3, <1>4 DEF ArrivedInOrder
<1>. QED  BY <1>6, <1>7, <1>8 DEF ArrivedInOrder

(* Nothing that is not accepted has arrived, so when an event is logged as *)
(* published nothing later has, and what was replayed before is ahead of   *)
(* it.                                                                     *)
LEMMA OrderThroughPublish ==
  ASSUME Observed, Logged, ArrivedInOrder, LogsPublished, accepted \in Nat
  PROVE  ArrivedInOrder'
<1>1. PICK n \in Int :
        /\ \A i \in DOMAIN log : i \in Int /\ i < n /\ log'[i] = log[i]
        /\ log'[n].event = accepted
        /\ Places("published")' = Places("published") \cup {n}
        /\ Places("replayed")' = Places("replayed")
  BY PublishedPlace DEF Logged
<1>2. /\ arrivals' = arrivals /\ Arrived' = Arrived /\ accepted \in Arrived /\ EventInHand
      /\ ~EventInHand'
  BY DEF LogsPublished, NothingArrives, Arrived, Observed, Unlogged
<1>3. Places("published") \subseteq DOMAIN log /\ Places("replayed") \subseteq DOMAIN log
  BY DEF Places
<1>4. \A x \in Arrived : ~(accepted < x)
  <2>1. \A x \in Arrived : x \in Int /\ x <= accepted
    <3>1. \A i \in DOMAIN arrivals : arrivals[i] \in Event
      BY ElementOfSeq, LenProperties DEF Observed
    <3>. QED  BY <3>1 DEF Arrived, Event, Observed
  <2>. QED  BY <2>1
<1>5. \A i \in Places("published")', x \in Arrived' :
        log'[i].event < x => Precedes(arrivals', log'[i].event, x)
  BY <1>1, <1>2, <1>3, <1>4 DEF ArrivedInOrder
<1>6. ASSUME NEW i \in Places("replayed")', NEW j \in Places("published")', i < j
      PROVE  Precedes(arrivals', log'[i].event, log'[j].event)
  <2>1. i \in Places("replayed") /\ log'[i] = log[i] /\ arrivals' = arrivals
    BY <1>1, <1>2, <1>3
  <2>2. CASE j = n
    BY <1>1, <1>2, <2>1, <2>2 DEF ArrivedInOrder
  <2>3. CASE j \in Places("published")
    BY <1>1, <1>3, <1>6, <2>1, <2>3 DEF ArrivedInOrder
  <2>. QED  BY <1>1, <2>2, <2>3
<1>. QED  BY <1>2, <1>5, <1>6 DEF ArrivedInOrder

(* What a replay logs comes after all that was published so far.           *)
LEMMA OrderThroughReplay ==
  ASSUME Observed, Logged, ArrivedInOrder, LogsReplayed
  PROVE  ArrivedInOrder'
<1>1. /\ \A i \in DOMAIN log : i \in Int /\ log'[i] = log[i]
      /\ Places("published")' = Places("published")
      /\ \A i \in Places("replayed")' \ Places("replayed") : \A j \in DOMAIN log : j < i
      /\ log' \in Seq(Record)
  BY ReplayedPlaces DEF Logged
<1>2. arrivals' = arrivals /\ Arrived' = Arrived /\ ~EventInHand'
  BY DEF LogsReplayed, NothingArrives, Arrived, Unlogged
<1>3. Places("published") \subseteq DOMAIN log /\ Places("replayed") \subseteq DOMAIN log
  BY DEF Places
<1>4. \A i \in Places("published")', x \in Arrived' :
        log'[i].event < x => Precedes(arrivals', log'[i].event, x)
  BY <1>1, <1>2, <1>3 DEF ArrivedInOrder
<1>5. \A i \in Places("replayed")' : i \in Int
  <2>1. DOMAIN log' = 1 .. Len(log') /\ Len(log') \in Nat
    BY <1>1, LenProperties
  <2>. QED  BY <2>1 DEF Places
<1>6. ASSUME NEW i \in Places("replayed")', NEW j \in Places("published")', i < j
      PROVE  Precedes(arrivals', log'[i].event, log'[j].event)
  <2>1. j \in Places("published") /\ j \in DOMAIN log /\ log'[j] = log[j] /\ j \in Int /\ i \in Int
    BY <1>1, <1>3, <1>5
  <2>2. i \in Places("replayed")
    <3>1. ~(j < i)
      BY <1>6, <2>1
    <3>. QED  BY <1>1, <2>1, <3>1
  <2>. QED  BY <1>1, <1>2, <1>3, <1>6, <2>1, <2>2 DEF ArrivedInOrder
<1>. QED  BY <1>2, <1>4, <1>6 DEF ArrivedInOrder

(* A buffered event is not published, an accepted one has not arrived. *)
LEMMA OrderThroughTheRest ==
  ASSUME Observed, Logged, ArrivedInOrder, TakesEvent \/ LogsBuffered, accepted \in Nat
  PROVE  ArrivedInOrder'
<1>1. /\ \A i \in DOMAIN log : log'[i] = log[i]
      /\ Places("published")' = Places("published")
      /\ Places("replayed")' = Places("replayed")
  <2>1. CASE TakesEvent
    BY <2>1 DEF TakesEvent, Places
  <2>2. CASE LogsBuffered
    <3>1. accepted \in Event /\ log \in Seq(Record)
      BY <2>2 DEF LogsBuffered, Logged
    <3>. QED  BY <2>2, <3>1, BufferedPlace
  <2>. QED  BY <2>1, <2>2
<1>2. arrivals' = arrivals /\ Arrived' = Arrived
  BY DEF TakesEvent, LogsBuffered, NothingArrives, Arrived
<1>3. EventInHand' => accepted' \notin Arrived
  <2>1. CASE TakesEvent
    <3>1. \A x \in Arrived : x <= accepted
      BY DEF Observed
    <3>2. accepted' = accepted + 1 /\ ~(accepted + 1 <= accepted)
      BY <2>1 DEF TakesEvent
    <3>. QED  BY <3>1, <3>2
  <2>2. CASE LogsBuffered
    BY <2>2 DEF LogsBuffered, Unlogged
  <2>. QED  BY <2>1, <2>2
<1>4. Places("published") \subseteq DOMAIN log /\ Places("replayed") \subseteq DOMAIN log
  BY DEF Places
<1>5. \A i \in Places("published")', x \in Arrived' :
        log'[i].event < x => Precedes(arrivals', log'[i].event, x)
  BY <1>1, <1>2, <1>4 DEF ArrivedInOrder
<1>6. \A i \in Places("replayed")', j \in Places("published")' :
        i < j => Precedes(arrivals', log'[i].event, log'[j].event)
  BY <1>1, <1>2, <1>4 DEF ArrivedInOrder
<1>. QED  BY <1>2, <1>3, <1>5, <1>6 DEF ArrivedInOrder

(* Every step keeps the order. *)
LEMMA ArrivedInOrderKept ==
  ASSUME Structure, NothingEarly, pc # "down", Observed, Logged, ArrivedInOrder,
         [ScenarioNext]_allVars
  PROVE  ArrivedInOrder'
<1>1. accepted \in Nat /\ log \in Seq(Record)
  BY EventsAssumption DEF Structure, TypeOK, ThreadTypeOK, Logged
<1>2. NothingArrives \/ \E e \in Event : Arrives(e)
  BY ArrivalsChange
<1>. QED  BY <1>1, <1>2, LogStep, OrderThroughArrivals, OrderThroughPublish, OrderThroughReplay,
              OrderThroughTheRest

-----------------------------------------------------------------------------
(* The verdict.                                                            *)

(* What a run that is reported as passed has achieved. *)
Earned ==
  /\ \A e \in 1 .. accepted : received[e] >= 1
  /\ overflowed = {}
  /\ table = EmptyTable
  /\ \A d, e \in 1 .. accepted :
       d < e /\ Topic(d) = Topic(e) => First(Arrivals(d)) < Last(Arrivals(e))

(* Places of records are places of the log. *)
LEMMA PlacesTyped ==
  ASSUME log \in Seq(Record), NEW kind
  PROVE  /\ Len(log) \in Nat
         /\ Places(kind) \in SUBSET (1 .. Len(log))
         /\ Places(kind) \in SUBSET Nat /\ IsFiniteSet(Places(kind))
         /\ Cardinality(Places(kind)) \in Nat
<1>1. Len(log) \in Nat /\ DOMAIN log = 1 .. Len(log)
  BY LenProperties
<1>2. Places(kind) \in SUBSET (1 .. Len(log))
  BY <1>1 DEF Places
<1>3. IsFiniteSet(1 .. Len(log))
  BY <1>1, FS_Interval
<1>4. IsFiniteSet(Places(kind))
  BY <1>2, <1>3, FS_Subset
<1>. QED  BY <1>1, <1>2, <1>4, FS_CardinalityType

(* The check on the order of the replay: every buffered event is replayed, *)
(* and those of one topic arrived as they were buffered.                   *)
LEMMA FifoMeans ==
  ASSUME log \in Seq(Record), Fifo
  PROVE  /\ \A a \in Places("buffered") :
              \E r \in Places("replayed") : log[r].event = log[a].event
         /\ \A a, b \in Places("buffered") :
              a < b /\ Topic(log[a].event) = Topic(log[b].event)
                => Precedes(arrivals, log[a].event, log[b].event)
<1>. DEFINE buf == Places("buffered")
            rep == Places("replayed")
            size == Cardinality(buf)
            needles == EventsOf("buffered")
<1>1. /\ buf \in SUBSET Nat /\ IsFiniteSet(buf) /\ size \in Nat
      /\ rep \in SUBSET Nat /\ IsFiniteSet(rep) /\ Cardinality(rep) \in Nat
  BY PlacesTyped
<1>2. /\ DOMAIN needles = 1 .. size
      /\ \A n \in 1 .. size : needles[n] = log[NthOf(buf, n)].event
  BY DEF EventsOf
<1>3. /\ DOMAIN EventsOf("replayed") = 1 .. Cardinality(rep)
      /\ \A n \in 1 .. Cardinality(rep) : EventsOf("replayed")[n] = log[NthOf(rep, n)].event
  BY DEF EventsOf
<1>4. EventsOf("replayed") = needles
  BY DEF Fifo
<1>. HIDE DEF buf, rep, size, needles
<1>5. \A n \in 1 .. Cardinality(rep) : NthOf(rep, n) \in rep
  BY <1>1, NthOfProperties
<1>6. /\ \A a \in buf : NthOf(buf, Rank(buf, a)) = a
      /\ \A a \in buf : Rank(buf, a) \in 1 .. size
      /\ \A a, b \in buf : a < b => Rank(buf, a) < Rank(buf, b)
  <2>1. \A a \in buf : Rank(buf, a) \in 1 .. Cardinality(buf)
    BY <1>1, RankProperties
  <2>2. \A a, b \in buf : a < b => Rank(buf, a) < Rank(buf, b)
    BY <1>1, RankProperties
  <2>. QED  BY <1>1, <2>1, <2>2, NthOfProperties DEF size
<1>7. \A a \in buf : needles[Rank(buf, a)] = log[a].event
  BY <1>2, <1>6
<1>8. ASSUME NEW a \in buf
      PROVE  \E r \in rep : log[r].event = log[a].event
  <2>1. Rank(buf, a) \in 1 .. Cardinality(rep)
    BY <1>2, <1>3, <1>4, <1>6
  <2>2. NthOf(rep, Rank(buf, a)) \in rep /\ log[NthOf(rep, Rank(buf, a))].event = needles[Rank(buf, a)]
    BY <1>3, <1>4, <1>5, <2>1
  <2>. QED  BY <1>7, <2>2
<1>9. PICK place \in [1 .. size -> DOMAIN arrivals] :
        /\ \A i \in 1 .. size : arrivals[place[i]] = needles[i]
        /\ \A i, j \in 1 .. size :
             i < j /\ Topic(needles[i]) = Topic(needles[j]) => place[i] < place[j]
  <2>1. IsSubsequencePerTopic(needles, arrivals)
    BY DEF Fifo, needles
  <2>. QED  BY <1>2, <2>1 DEF IsSubsequencePerTopic
<1>10. ASSUME NEW a \in buf, NEW b \in buf, a < b, Topic(log[a].event) = Topic(log[b].event)
       PROVE  Precedes(arrivals, log[a].event, log[b].event)
  <2>1. PICK i \in 1 .. size : i = Rank(buf, a)
    BY <1>6
  <2>2. PICK j \in 1 .. size : j = Rank(buf, b)
    BY <1>6
  <2>3. i < j /\ needles[i] = log[a].event /\ needles[j] = log[b].event
    BY <1>6, <1>7, <1>10, <2>1, <2>2
  <2>4. place[i] < place[j]
    BY <1>9, <1>10, <2>3
  <2>5. /\ place[i] \in DOMAIN arrivals /\ place[j] \in DOMAIN arrivals
        /\ arrivals[place[i]] = log[a].event /\ arrivals[place[j]] = log[b].event
    BY <1>9, <2>3
  <2>. QED  BY <2>4, <2>5 DEF Precedes
<1>. QED  BY <1>8, <1>10 DEF buf, rep

(* The first arrival of d is before the last one of e if any is.           *)
LEMMA PrecedesMeans ==
  ASSUME arrivals \in Seq(Event), NEW d, NEW e, Precedes(arrivals, d, e)
  PROVE  First(Arrivals(d)) < Last(Arrivals(e))
<1>1. Len(arrivals) \in Nat /\ DOMAIN arrivals = 1 .. Len(arrivals)
  BY LenProperties
<1>2. PICK p \in DOMAIN arrivals, q \in DOMAIN arrivals : p < q /\ arrivals[p] = d /\ arrivals[q] = e
  BY DEF Precedes
<1>3. /\ p \in Arrivals(d) /\ Arrivals(d) \in SUBSET (1 .. Len(arrivals))
      /\ q \in Arrivals(e) /\ Arrivals(e) \in SUBSET (1 .. Len(arrivals))
  BY <1>1, <1>2 DEF Arrivals
<1>4. First(Arrivals(d)) <= p /\ First(Arrivals(d)) \in 1 .. Len(arrivals)
  BY <1>1, <1>3, FirstAndLast
<1>5. q <= Last(Arrivals(e)) /\ Last(Arrivals(e)) \in 1 .. Len(arrivals)
  BY <1>1, <1>3, FirstAndLast
<1>. QED  BY <1>1, <1>2, <1>4, <1>5

(* The check on live events: one published after events were buffered is   *)
(* logged after all that was replayed.                                     *)
LEMMA NothingOvertookMeans ==
  ASSUME log \in Seq(Record), NothingOvertook,
         NEW a \in Places("buffered"), NEW r \in Places("replayed"), NEW b \in Places("published"),
         a < b
  PROVE  r < b
<1>1. Len(log) \in Nat
  BY PlacesTyped
<1>2. /\ Places("buffered") \in SUBSET (1 .. Len(log))
      /\ Places("replayed") \in SUBSET (1 .. Len(log))
      /\ Places("published") \in SUBSET (1 .. Len(log))
  BY PlacesTyped
<1>3. First(Places("buffered")) \in 1 .. Len(log) /\ First(Places("buffered")) <= a
  BY <1>1, <1>2, FirstAndLast
<1>4. Last(Places("replayed")) \in 1 .. Len(log) /\ r <= Last(Places("replayed"))
  BY <1>1, <1>2, FirstAndLast
<1>5. a \in 1 .. Len(log) /\ b \in 1 .. Len(log) /\ r \in 1 .. Len(log)
  BY <1>2
<1>6. ~(b < Last(Places("replayed")))
  <2>1. First(Places("buffered")) < b
    BY <1>1, <1>3, <1>5
  <2>. QED  BY <2>1 DEF NothingOvertook
<1>7. r # b
  BY DEF Places
<1>. QED  BY <1>1, <1>4, <1>5, <1>6, <1>7

(* With the thread at rest the checks establish the order of arrivals.     *)
LEMMA VerifiedOrder ==
  ASSUME Observed, Logged, ArrivedInOrder, Fifo, NothingOvertook, pc = "top", accepted \in Nat,
         NEW d \in 1 .. accepted, NEW e \in 1 .. accepted, e \in Arrived,
         d < e, Topic(d) = Topic(e)
  PROVE  Precedes(arrivals, d, e)
<1>1. /\ \A i, j \in Firsthand : i < j => log[i].event < log[j].event
      /\ \A x \in 1 .. accepted : \E i \in Firsthand : log[i].event = x
      /\ log \in Seq(Record)
  BY DEF Logged, LoggedInOrder, Unlogged, EventInHand
<1>2. PICK a \in Firsthand : log[a].event = d
  BY <1>1
<1>3. PICK b \in Firsthand : log[b].event = e
  BY <1>1
<1>4. a < b
  <2>1. a \in Nat /\ b \in Nat
    BY <1>1, PlacesTyped DEF Firsthand
  <2>2. a # b /\ ~(b < a)
    BY <1>1, <1>2, <1>3
  <2>. QED  BY <2>1, <2>2
<1>5. CASE a \in Places("published")
  BY <1>2, <1>5 DEF ArrivedInOrder
<1>6. CASE a \in Places("buffered") /\ b \in Places("buffered")
  BY <1>1, <1>2, <1>3, <1>4, <1>6, FifoMeans
<1>7. CASE a \in Places("buffered") /\ b \in Places("published")
  <2>1. PICK r \in Places("replayed") : log[r].event = d
    BY <1>1, <1>2, <1>7, FifoMeans
  <2>2. r < b
    BY <1>1, <1>4, <1>7, NothingOvertookMeans
  <2>. QED  BY <1>3, <1>7, <2>1, <2>2 DEF ArrivedInOrder
<1>. QED  BY <1>5, <1>6, <1>7 DEF Firsthand

(* A run that _verify() lets pass has earned it. *)
LEMMA VerifiedIsEarned ==
  ASSUME GatewayAsSpecified, Observed, Logged, ArrivedInOrder, Verified, pc = "top"
  PROVE  Earned
<1>1. /\ Structure /\ NoEventDisappears /\ OneProcess /\ accepted \in Nat
      /\ 1 .. accepted \subseteq Event /\ table \in [DOMAIN table -> Event]
      /\ received \in [Event -> 0 .. 2]
  <2>1. Structure /\ NoEventDisappears /\ OneProcess
    BY DEF GatewayAsSpecified, GatewayInvariant
  <2>2. accepted \in 0 .. MaxEvents
    BY <2>1 DEF Structure, TypeOK, ThreadTypeOK
  <2>3. accepted \in Nat /\ 1 .. accepted \subseteq Event
    BY <2>2, EventsAssumption DEF Event
  <2>. QED  BY <2>1, <2>3 DEF Structure, TypeOK, TableTypeOK, PublisherTypeOK
<1>2. DOMAIN table = {} /\ droppedCount = 0 /\ Fifo /\ NothingOvertook
  BY DEF Verified, MetricsAgree
<1>3. table = EmptyTable
  BY <1>1, <1>2 DEF EmptyTable
<1>4. overflowed = {} /\ lost = {}
  BY <1>1, <1>2 DEF OneProcess
<1>5. \A e \in 1 .. accepted : received[e] > 0
  <2>1. Range(table) = {} /\ InHand = {}
    BY <1>2 DEF Range, InHand, EventInHand
  <2>. QED  BY <1>1, <1>4, <2>1 DEF NoEventDisappears, Delivered
<1>6. \A e \in 1 .. accepted : received[e] >= 1 /\ e \in Arrived
  <2>1. \A e \in 1 .. accepted : received[e] \in 0 .. 2
    BY <1>1
  <2>. QED  BY <1>1, <1>5, <2>1 DEF Observed
<1>7. ASSUME NEW d \in 1 .. accepted, NEW e \in 1 .. accepted, d < e, Topic(d) = Topic(e)
      PROVE  First(Arrivals(d)) < Last(Arrivals(e))
  <2>1. Precedes(arrivals, d, e)
    BY <1>1, <1>2, <1>6, <1>7, VerifiedOrder
  <2>. QED  BY <2>1, PrecedesMeans DEF Observed
<1>. QED  BY <1>3, <1>4, <1>6, <1>7 DEF Earned

(* There is a verdict only when the scenario is over. *)
Judged ==
  /\ stage \in Waits \cup {"cleanup"}
  /\ stage \in Waits => result = "none"
  /\ result = "passed" => Earned

(* A step that leaves the gateway and the arrivals alone leaves alone what *)
(* was earned.                                                             *)
LEMMA EarnedStays ==
  ASSUME Earned, UNCHANGED <<accepted, received, overflowed, table, arrivals>>
  PROVE  Earned'
<1>1. \A e : Arrivals(e)' = Arrivals(e)
  BY DEF Arrivals
<1>. QED  BY <1>1 DEF Earned, First, Last

(* The stages follow one another, and only _verify() lets a run pass.      *)
LEMMA JudgedKept ==
  ASSUME GatewayAsSpecified, Observed, Logged, ArrivedInOrder, Judged, [ScenarioNext]_allVars
  PROVE  Judged'
<1>1. CASE UNCHANGED allVars
  <2>1. UNCHANGED <<accepted, received, overflowed, table, arrivals, stage, result>>
    BY <1>1 DEF allVars, scenarioVars, vars, gatewayVars, publisherVars, messageVars, bufferVars, historyVars
  <2>2. Earned => Earned'
    BY <2>1, EarnedStays
  <2>. QED  BY <2>1, <2>2 DEF Judged
<1>2. CASE Gateway \/ Network
  BY <1>2 DEF Gateway, Network, Judged
<1>3. CASE InjectOutage \/ SeeOutage \/ ClearOutage \/ SeeReconnect \/ SeeReplay \/ StopThreads
  BY <1>3 DEF InjectOutage, SeeOutage, ClearOutage, SeeReconnect, SeeReplay, StopThreads, Proceed, Judged, Waits
<1>4. CASE Fail
  BY <1>4 DEF Fail, Judged, Waits
<1>5. CASE Verify
  <2>1. /\ stage' = "cleanup" /\ pc = "top"
        /\ result' = IF Verified THEN "passed" ELSE "verification"
    BY <1>5 DEF Verify, Reached, ThreadEnded
  <2>2. UNCHANGED <<accepted, received, overflowed, table, arrivals>>
    BY <1>5 DEF Verify, vars, gatewayVars, publisherVars, messageVars, bufferVars, historyVars
  <2>3. Verified => Earned'
    BY <2>1, <2>2, VerifiedIsEarned, EarnedStays
  <2>. QED  BY <2>1, <2>3 DEF Judged, Waits
<1>. QED  BY <1>1, <1>2, <1>3, <1>4, <1>5 DEF ScenarioNext, Scenario

(* The inductive invariant of the scenario. *)
ScenarioInvariant ==
  GatewayAsSpecified /\ Observed /\ Logged /\ ArrivedInOrder /\ Judged

(* It holds before anything is sent ... *)
LEMMA ScenarioInvariantAtStart == ScenarioInit => ScenarioInvariant
<1>. SUFFICES ASSUME ScenarioInit PROVE ScenarioInvariant
  OBVIOUS
<1>1. GatewayAsSpecified
  BY SpecifiedAtStart
<1>2. /\ arrivals = <<>> /\ log = <<>> /\ stage = "normal operation" /\ result = "none"
      /\ accepted = 0 /\ pc = "top" /\ received = [e \in Event |-> 0]
  BY DEF ScenarioInit, Init, PublisherInit
<1>3. /\ Arrived = {} /\ Firsthand = {} /\ Acknowledged = {} /\ ~Unlogged /\ ~EventInHand
      /\ Places("published") = {} /\ Places("replayed") = {}
  <2>1. DOMAIN arrivals = {} /\ DOMAIN log = {}
    <3>1. DOMAIN <<>> = {}
      OBVIOUS
    <3>. QED  BY <1>2, <3>1, Zenon
  <2>2. Arrived = {}
    BY <2>1 DEF Arrived
  <2>3. Places("published") = {} /\ Places("replayed") = {} /\ Places("buffered") = {}
    BY <2>1 DEF Places
  <2>4. ~Unlogged /\ ~EventInHand
    BY <1>2 DEF Unlogged, EventInHand
  <2>. QED  BY <2>2, <2>3, <2>4 DEF Firsthand, Acknowledged
<1>4. arrivals \in Seq(Event) /\ log \in Seq(Record)
  BY <1>2, EmptySeq
<1>5. Observed
  <2>1. \A e \in Event : received[e] = 0
    BY <1>2
  <2>2. \A e \in Event : ~(received[e] > 0)
    BY <2>1
  <2>. QED  BY <1>3, <1>4, <2>2 DEF Observed
<1>6. Logged
  <2>1. \A e \in 1 .. accepted : FALSE
    <3>1. accepted = 0
      BY <1>2
    <3>. QED  BY <3>1
  <2>2. LoggedInOrder
    BY <1>3, <2>1 DEF LoggedInOrder
  <2>. QED  BY <1>3, <1>4, <2>2 DEF Logged
<1>7. ArrivedInOrder
  BY <1>3 DEF ArrivedInOrder
<1>8. Judged
  BY <1>2 DEF Judged, Waits
<1>. QED  BY <1>1, <1>5, <1>6, <1>7, <1>8 DEF ScenarioInvariant

(* ... and every step keeps it. *)
LEMMA ScenarioInvariantKept ==
  ASSUME ScenarioInvariant, [ScenarioNext]_allVars
  PROVE  ScenarioInvariant'
<1>1. /\ GatewayAsSpecified /\ Observed /\ Logged /\ ArrivedInOrder /\ Judged
      /\ Structure /\ NothingEarly /\ pc # "down"
  BY DEF ScenarioInvariant, GatewayAsSpecified, GatewayInvariant, OneProcess
<1>2. GatewayAsSpecified'
  BY <1>1, SpecifiedKept
<1>3. Observed'
  BY <1>1, ObservedKept
<1>4. Logged'
  BY <1>1, LoggedKept
<1>5. ArrivedInOrder'
  BY <1>1, ArrivedInOrderKept
<1>6. Judged'
  BY <1>1, JudgedKept
<1>. QED  BY <1>2, <1>3, <1>4, <1>5, <1>6 DEF ScenarioInvariant

(* A run of the scenario is reported as passed only if every accepted      *)
(* event reached the broker, nothing was dropped or left behind, and apart *)
(* from copies the events of a topic arrived in order: _verify(), which    *)
(* sees only the log, the arrivals and the counters, is told by them what  *)
(* really happened, for any number of events, topics, rows and faults.     *)
THEOREM PassIsAlwaysEarned == ScenarioSpec => []PassIsEarned
<1>1. ScenarioInvariant => PassIsEarned
  BY DEF ScenarioInvariant, Judged, Earned, PassIsEarned
<1>. QED
  BY <1>1, ScenarioInvariantAtStart, ScenarioInvariantKept, PTL DEF ScenarioSpec

-----------------------------------------------------------------------------
(* A run without faults.                                                   *)

(* The scenario's own outage is the only fault so far. *)
Quiet == faults = IF stage = "normal operation" THEN 0 ELSE 1

(* What is then true of the publisher. *)
Untroubled ==
  /\ linkUp /\ ~dropPending /\ forcedFailures = 0 /\ stale = {}
  /\ simulatedOutage <=> stage \in {"outage injection", "buffering"}
  /\ linkIntact <=> ~connected
  /\ simulatedOutage => ~connected

(* Where the thread is while nothing is refused, while everything is, and  *)
(* while the backlog is replayed.                                          *)
LivePoints == {"top", "gate", "recv", "publish", "liveAwait"}
OutagePoints == LivePoints \cup {"attempt", "failed", "enqueue", "record"}
DrainPoints == {"gate", "peek", "row", "rowAwait", "remove"}

(* The event last accepted is, or will be, refused or sent. *)
Refused == {"publish", "failed", "enqueue", "record"}

(* The four phases of such a run. *)
BeforeOutage ==
  /\ stage = "normal operation"
  /\ connected /\ ~replayRequested
  /\ pc \in LivePoints
  /\ DOMAIN table = {}
  /\ Places("buffered") = {} /\ Places("replayed") = {} /\ Places("reconnected") = {}

DuringOutage ==
  /\ stage \in {"outage injection", "buffering", "recovery"}
  /\ ~connected /\ ~replayRequested
  /\ pc \in OutagePoints
  /\ pc = "liveAwait" => Places("buffered") = {}
  /\ Places("replayed") = {} /\ Places("reconnected") = {}

AfterOutage == stage \in {"recovery", "replay", "return to normal", "verification"} /\ connected

Draining ==
  /\ AfterOutage
  /\ replayRequested
  /\ pc \in DrainPoints
  /\ pc = "remove" => confirmed = batch

Drained ==
  /\ AfterOutage
  /\ ~replayRequested
  /\ pc \in LivePoints
  /\ DOMAIN table = {}

InPhase == BeforeOutage \/ DuringOutage \/ Draining \/ Drained

(* A step of the thread that the log and the table do not show. *)
ShowsNothing ==
  /\ Recorded = <<>>
  /\ UNCHANGED <<bufferVars, accepted>>
  /\ pc # "record" /\ pc' # "record"
  /\ pc' \in Refused => pc \in Refused

(* No step of such a run troubles the publisher. *)
Calm == UNCHANGED <<simulatedOutage, forcedFailures, linkUp, dropPending, stale, faults>>

(* The faults of a run are numbers. *)
LEMMA FaultsCounted ==
  ASSUME Structure
  PROVE  faults \in Nat /\ \A n \in Nat : n + 1 # n
<1>1. faults \in 0 .. MaxFaults
  BY DEF Structure, TypeOK, PublisherTypeOK
<1>. QED  BY <1>1, FaultsAssumption

(* Connected, or in the outage, a quiet publish() is not refused or left   *)
(* unanswered.                                                             *)
LEMMA QuietPublish ==
  ASSUME Structure, Untroubled, faults' = faults
  PROVE  /\ ~PublishUnconfirmed
         /\ connected => ~PublishRefused
         /\ PublishRefused => UNCHANGED publisherVars
<1>1. linkUp /\ forcedFailures = 0
  BY DEF Untroubled
<1>2. ~PublishUnconfirmed
  BY <1>1, FaultsCounted DEF PublishUnconfirmed
<1>3. ~(0 > 0)
  OBVIOUS
<1>4. connected => ~PublishRefused
  BY <1>1, <1>3, Zenon DEF PublishRefused
<1>5. PublishRefused => UNCHANGED publisherVars
  <2>1. PublishRefused => forcedFailures' = 0
    BY <1>1, <1>3, Zenon DEF PublishRefused
  <2>. QED  BY <1>1, <2>1 DEF PublishRefused, publisherVars, flagVars
<1>. QED  BY <1>2, <1>4, <1>5

(* Connected and with no backlog, the thread passes on what it receives.   *)
LEMMA LiveThread ==
  ASSUME Structure, Untroubled, connected, ~replayRequested, pc \in LivePoints,
         GatewayThread, faults' = faults
  PROVE  /\ Calm
         /\ UNCHANGED <<connected, linkIntact, replayRequested, bufferVars>>
         /\ pc' \in LivePoints
         /\ ShowsNothing \/ RecvAccepted \/ LiveConfirmed
<1>. USE DEF Untroubled, LivePoints, Calm, Goto, publisherVars, flagVars, linkVars, messageVars,
         replayVars, ShowsNothing, Refused, Recorded
<1>1. CASE CheckConnection \/ DecideReplay
  BY <1>1 DEF CheckConnection, DecideReplay
<1>2. CASE Reconnect \/ ReplayBuffered
  BY <1>2 DEF Reconnect, AttemptNotDue, AttemptFails, ResumeLink, StartReconnect, ReconnectSucceeds,
     ReconnectFails, FinishReconnect, ReplayBuffered, PeekEmpty, PeekRows, RowNotSent, SendRow,
     RowConfirmed, RowUnconfirmed, RemoveConfirmed
<1>3. CASE RecvNothing \/ RecvRejected \/ RecvAccepted
  BY <1>3 DEF RecvNothing, RecvRejected, RecvAccepted
<1>4. CASE LiveRefused
  BY <1>4, QuietPublish DEF LiveRefused
<1>5. CASE SendLive
  BY <1>5 DEF SendLive, PublishHandedOver
<1>6. CASE LiveConfirmed
  BY <1>6 DEF LiveConfirmed, PublishConfirmed
<1>7. CASE LiveUnconfirmed
  BY <1>7, QuietPublish DEF LiveUnconfirmed
<1>8. CASE RecordPublishFailure \/ EnqueueEvent \/ RecordBuffered
  BY <1>8 DEF RecordPublishFailure, EnqueueEvent, RecordBuffered
<1>. QED
  BY <1>1, <1>2, <1>3, <1>4, <1>5, <1>6, <1>7, <1>8 DEF GatewayThread, HandleFrame

(* In the outage it buffers what it receives, until it is over and an      *)
(* attempt finds the link still there.                                     *)
LEMMA OutageThread ==
  ASSUME Structure, Untroubled, ~connected, ~replayRequested, pc \in OutagePoints,
         GatewayThread, faults' = faults
  PROVE  /\ Calm
         /\ \/ /\ ~simulatedOutage /\ pc = "attempt" /\ pc' = "gate"
               /\ connected' /\ ~linkIntact' /\ replayRequested'
               /\ UNCHANGED <<bufferVars, accepted>>
            \/ /\ UNCHANGED <<connected, linkIntact, replayRequested>>
               /\ pc' \in OutagePoints \ {"liveAwait"}
               /\ ShowsNothing \/ RecvAccepted \/ LiveConfirmed \/ EnqueueEvent \/ RecordBuffered
<1>. USE DEF Untroubled, LivePoints, OutagePoints, Calm, Goto, publisherVars, flagVars, linkVars, messageVars,
         replayVars, ShowsNothing, Refused, Recorded
<1>1. CASE CheckConnection \/ DecideReplay
  BY <1>1 DEF CheckConnection, DecideReplay
<1>2. CASE AttemptNotDue
  BY <1>2 DEF AttemptNotDue
<1>14. CASE AttemptFails
  BY <1>14 DEF AttemptFails, AttemptHitsSimulatedOutage
<1>3. CASE ResumeLink
  BY <1>3 DEF ResumeLink, AttemptFindsLinkIntact
<1>4. CASE StartReconnect \/ ReconnectSucceeds \/ ReconnectFails \/ FinishReconnect
  BY <1>4 DEF StartReconnect, AttemptNeedsNewLink, ReconnectSucceeds, ReconnectFails, FinishReconnect
<1>5. CASE ReplayBuffered
  BY <1>5 DEF ReplayBuffered, PeekEmpty, PeekRows, RowNotSent, SendRow,
     RowConfirmed, RowUnconfirmed, RemoveConfirmed
<1>6. CASE RecvNothing \/ RecvRejected \/ RecvAccepted
  BY <1>6 DEF RecvNothing, RecvRejected, RecvAccepted
<1>7. CASE LiveRefused
  BY <1>7, QuietPublish DEF LiveRefused
<1>8. CASE SendLive
  BY <1>8 DEF SendLive, PublishHandedOver
<1>9. CASE LiveConfirmed
  BY <1>9 DEF LiveConfirmed, PublishConfirmed
<1>10. CASE LiveUnconfirmed
  BY <1>10, QuietPublish DEF LiveUnconfirmed
<1>11. CASE RecordPublishFailure
  BY <1>11 DEF RecordPublishFailure
<1>12. CASE EnqueueEvent
  BY <1>12 DEF EnqueueEvent
<1>13. CASE RecordBuffered
  BY <1>13 DEF RecordBuffered
<1>. QED
  BY <1>1, <1>2, <1>3, <1>4, <1>5, <1>6, <1>7, <1>8, <1>9, <1>10, <1>11, <1>12, <1>13, <1>14
  DEF GatewayThread, Reconnect, HandleFrame

(* Connected again, it replays one batch after the other until no row is   *)
(* left.                                                                   *)
LEMMA DrainThread ==
  ASSUME Structure, Untroubled, connected, replayRequested, pc \in DrainPoints,
         pc = "remove" => confirmed = batch, GatewayThread, faults' = faults
  PROVE  /\ Calm
         /\ UNCHANGED <<connected, linkIntact, accepted>>
         /\ \/ /\ replayRequested' = replayRequested
               /\ pc' \in DrainPoints
               /\ pc' = "remove" => confirmed' = batch'
               /\ ShowsNothing \/ RemoveConfirmed
            \/ ~replayRequested' /\ pc' = "recv" /\ DOMAIN table = {} /\ ShowsNothing
<1>0. BatchSize \in Int /\ BatchSize >= 1
  BY BatchSizeAssumption
<1>. USE DEF Untroubled, DrainPoints, Calm, Goto, publisherVars, flagVars, linkVars, messageVars,
         replayVars, ShowsNothing, Refused, Recorded
<1>1. CASE CheckConnection \/ DecideReplay
  BY <1>1 DEF CheckConnection, DecideReplay
<1>2. CASE Reconnect \/ HandleFrame
  BY <1>2 DEF Reconnect, AttemptNotDue, AttemptFails, ResumeLink, StartReconnect, ReconnectSucceeds,
     ReconnectFails, FinishReconnect, HandleFrame, RecvNothing, RecvRejected, RecvAccepted, LiveRefused,
     SendLive, LiveConfirmed, LiveUnconfirmed, RecordPublishFailure, EnqueueEvent, RecordBuffered
<1>3. CASE PeekEmpty
  <2>1. DOMAIN table = {}
    <3>1. DOMAIN table \in SUBSET Nat
      BY DEF Structure, TypeOK, TableTypeOK, RowIds
    <3>. QED  BY <1>0, <1>3, <3>1, OldestHasFirst DEF PeekEmpty, PeekBatch
  <2>. QED  BY <1>3, <2>1 DEF PeekEmpty
<1>4. CASE PeekRows
  BY <1>4 DEF PeekRows
<1>5. CASE RowNotSent
  BY <1>5, QuietPublish DEF RowNotSent
<1>6. CASE SendRow
  BY <1>6 DEF SendRow, PublishHandedOver
<1>7. CASE RowConfirmed
  BY <1>7 DEF RowConfirmed, PublishConfirmed
<1>8. CASE RowUnconfirmed
  BY <1>8, QuietPublish DEF RowUnconfirmed
<1>9. CASE RemoveConfirmed
  BY <1>9 DEF RemoveConfirmed
<1>. QED
  BY <1>1, <1>2, <1>3, <1>4, <1>5, <1>6, <1>7, <1>8, <1>9 DEF GatewayThread, ReplayBuffered

(* The network only moves the message the thread waits for.                *)
LEMMA QuietNetwork ==
  ASSUME Structure, Untroubled, Network, faults' = faults
  PROVE  /\ Calm
         /\ UNCHANGED <<connected, linkIntact, gatewayVars, stage, stop, log, owed, mark, result>>
         /\ BrokerReceives \/ NothingArrives
<1>. USE DEF Untroubled, Calm, flagVars, linkVars, messageVars
<1>1. faults \in Nat
  BY FaultsCounted
<1>2. CASE BrokerReceives
  BY <1>2 DEF BrokerReceives, Network
<1>3. CASE PubackArrives
  <2>1. received' = received
    BY <1>3 DEF PubackArrives
  <2>2. NewlyReceived = {}
    BY <2>1 DEF NewlyReceived
  <2>. QED  BY <1>3, <2>1, <2>2 DEF PubackArrives, Network, NothingArrives
<1>4. ~LinkDrops
  BY <1>1, FaultsCounted DEF LinkDrops
<1>5. ~HandleDisconnect /\ ~PahoReopensLink
  BY DEF HandleDisconnect, PahoReopensLink
<1>6. ~PahoResends
  BY DEF PahoResends
<1>. QED  BY <1>2, <1>3, <1>4, <1>5, <1>6 DEF Network

(* Faults come one at a time and do not go away.                           *)
LEMMA FaultsGrow ==
  ASSUME [ScenarioNext]_allVars
  PROVE  faults' = faults \/ faults' = faults + 1
<1>. USE DEF publisherVars, flagVars, linkVars, messageVars
<1>1. CASE Gateway
  <2>1. CASE CheckConnection \/ DecideReplay
    BY <2>1 DEF CheckConnection, DecideReplay
  <2>2. CASE Reconnect
    BY <2>2 DEF Reconnect, AttemptNotDue, AttemptFails, ResumeLink, StartReconnect, ReconnectSucceeds,
       ReconnectFails, FinishReconnect, AttemptHitsSimulatedOutage, AttemptFindsLinkIntact,
       AttemptNeedsNewLink, NewLinkOpened, NewLinkRefused, MarkConnected
  <2>3. PublishUnconfirmed \/ PublishConfirmed \/ PublishRefused \/ UNCHANGED faults
           => faults' = faults \/ faults' = faults + 1
    BY DEF PublishRefused, PublishConfirmed, PublishUnconfirmed
  <2>4. CASE ReplayBuffered
    BY <2>3, <2>4 DEF ReplayBuffered, PeekEmpty, PeekRows, RowNotSent, SendRow, RowConfirmed, RowUnconfirmed,
       RemoveConfirmed, PublishHandedOver
  <2>5. CASE HandleFrame
    BY <2>3, <2>5 DEF HandleFrame, RecvNothing, RecvRejected, RecvAccepted, LiveRefused, SendLive, LiveConfirmed,
       LiveUnconfirmed, RecordPublishFailure, EnqueueEvent, RecordBuffered, PublishHandedOver
  <2>. QED  BY <1>1, <2>1, <2>2, <2>4, <2>5 DEF Gateway, GatewayThread
<1>2. CASE Network
  BY <1>2 DEF Network, LinkDrops, HandleDisconnect, PahoReopensLink, BrokerReceives, PubackArrives, PahoResends
<1>3. CASE InjectOutage
  BY <1>3 DEF InjectOutage, InjectConnectionOutage
<1>4. CASE SeeOutage \/ ClearOutage \/ SeeReconnect \/ SeeReplay \/ StopThreads
  BY <1>4 DEF SeeOutage, ClearOutage, SeeReconnect, SeeReplay, StopThreads, ClearConnectionOutage
<1>5. CASE Verify \/ Fail
  BY <1>5 DEF Verify, Fail, vars
<1>6. CASE UNCHANGED allVars
  BY <1>6 DEF allVars, vars
<1>. QED  BY <1>1, <1>2, <1>3, <1>4, <1>5, <1>6 DEF ScenarioNext, Scenario

(* The scenario's own outage is one of the faults. *)
OutageCounted == stage \in Waits \ {"normal operation"} => faults >= 1

(* What each of the scenario's steps does to its stage. *)
LEMMA StageSteps ==
  ASSUME [ScenarioNext]_allVars, stage' \in Waits
  PROVE  /\ stage \in Waits
         /\ \/ stage' = stage /\ (Gateway \/ Network \/ UNCHANGED allVars)
            \/ InjectOutage \/ SeeOutage \/ ClearOutage \/ SeeReconnect \/ SeeReplay \/ StopThreads
<1>1. CASE Gateway \/ Network
  BY <1>1 DEF Gateway, Network
<1>2. CASE InjectOutage \/ SeeOutage \/ ClearOutage \/ SeeReconnect \/ SeeReplay \/ StopThreads
  BY <1>2 DEF InjectOutage, SeeOutage, ClearOutage, SeeReconnect, SeeReplay, StopThreads, Proceed, Waits
<1>3. CASE Verify \/ Fail
  BY <1>3 DEF Verify, Fail, Waits
<1>4. CASE UNCHANGED allVars
  BY <1>4 DEF allVars, scenarioVars
<1>. QED  BY <1>1, <1>2, <1>3, <1>4 DEF ScenarioNext, Scenario

(* What that means for the count. *)
LEMMA FaultsSoFar ==
  ASSUME Structure, [ScenarioNext]_allVars
  PROVE  /\ faults' = 0 => faults = 0
         /\ faults >= 1 => faults' >= 1 /\ (faults' = 1 => faults = 1)
         /\ faults' = faults + 1 => faults' >= 1 /\ (faults' = 1 => faults = 0)
         /\ faults = 0 => ~(faults >= 1)
<1>1. PICK m \in Nat : m = faults
  BY FaultsCounted
<1>2. PICK n : n = faults'
  OBVIOUS
<1>3. n = m \/ n = m + 1
  BY <1>1, <1>2, FaultsGrow
<1>4. /\ n = 0 => m = 0
      /\ m >= 1 => n >= 1 /\ (n = 1 => m = 1)
      /\ n = m + 1 => n >= 1 /\ (n = 1 => m = 0)
      /\ m = 0 => ~(m >= 1)
  BY <1>3
<1>. QED  BY <1>1, <1>2, <1>4, Zenon

(* It is counted when it begins. *)
LEMMA OutageCountedKept ==
  ASSUME Structure, OutageCounted, [ScenarioNext]_allVars
  PROVE  OutageCounted'
<1>. SUFFICES ASSUME stage' \in Waits, stage' # "normal operation"
              PROVE  faults' >= 1
  BY DEF OutageCounted
<1>1. CASE InjectOutage
  BY <1>1, FaultsSoFar DEF InjectOutage, InjectConnectionOutage
<1>2. CASE stage \in Waits \ {"normal operation"}
  BY <1>2, FaultsSoFar, Zenon DEF OutageCounted
<1>3. CASE SeeOutage \/ ClearOutage \/ SeeReconnect \/ SeeReplay \/ StopThreads
  <2>1. stage \in Waits \ {"normal operation"}
    BY <1>3 DEF SeeOutage, ClearOutage, SeeReconnect, SeeReplay, StopThreads, Proceed, Waits
  <2>. QED  BY <1>2, <2>1
<1>4. CASE stage' = stage
  <2>1. stage \in Waits \ {"normal operation"}
    BY <1>4
  <2>. QED  BY <1>2, <2>1
<1>. QED  BY <1>1, <1>3, <1>4, StageSteps

(* A run that is quiet after a step was quiet before it, and the gateway   *)
(* and the network added no fault.                                         *)
LEMMA QuietBefore ==
  ASSUME Structure, OutageCounted, [ScenarioNext]_allVars, stage' \in Waits, Quiet'
  PROVE  /\ stage \in Waits /\ Quiet
         /\ Gateway \/ Network => faults' = faults
<1>1. stage \in Waits
  BY StageSteps
<1>2. /\ stage = "normal operation" => (Quiet <=> faults = 0)
      /\ stage # "normal operation" => (Quiet <=> faults = 1)
      /\ stage' = "normal operation" => faults' = 0
      /\ stage' # "normal operation" => faults' = 1
      /\ stage # "normal operation" => faults >= 1
  BY <1>1 DEF Quiet, OutageCounted
<1>3. CASE stage' = stage
  <2>1. CASE stage = "normal operation"
    BY <1>1, <1>2, <1>3, <2>1, FaultsSoFar, Zenon
  <2>2. CASE stage # "normal operation"
    BY <1>1, <1>2, <1>3, <2>2, FaultsSoFar, Zenon
  <2>. QED  BY <2>1, <2>2
<1>4. CASE InjectOutage
  <2>1. stage = "normal operation" /\ stage' = "outage injection" /\ faults' = faults + 1
    BY <1>4 DEF InjectOutage, InjectConnectionOutage, Proceed
  <2>2. faults' = 1 /\ stage' # stage
    BY <1>2, <2>1
  <2>3. faults = 0
    BY <2>1, <2>2, FaultsSoFar, Zenon
  <2>4. ~Gateway /\ ~Network
    BY <2>2 DEF Gateway, Network
  <2>. QED  BY <1>1, <1>2, <2>1, <2>3, <2>4, Zenon
<1>5. CASE SeeOutage \/ ClearOutage \/ SeeReconnect \/ SeeReplay \/ StopThreads
  <2>1. stage # "normal operation" /\ stage' # "normal operation" /\ stage' # stage
    BY <1>5 DEF SeeOutage, ClearOutage, SeeReconnect, SeeReplay, StopThreads, Proceed
  <2>2. ~Gateway /\ ~Network
    BY <2>1 DEF Gateway, Network
  <2>3. faults = 1
    BY <1>2, <2>1, FaultsSoFar, Zenon
  <2>. QED  BY <1>1, <1>2, <2>1, <2>2, <2>3, Zenon
<1>. QED  BY <1>3, <1>4, <1>5, StageSteps

(* Where the records of a step of the thread go that shows nothing: there  *)
(* are none.                                                               *)
LEMMA NothingShown ==
  ASSUME log \in Seq(Record), Gateway, ShowsNothing \/ RecvAccepted \/ EnqueueEvent
  PROVE  log' = log
<1>1. Recorded = <<>>
  BY DEF ShowsNothing, RecvAccepted, EnqueueEvent, Recorded, Goto
<1>. QED  BY <1>1, ConcatEmptySeq DEF Gateway

(* The phases follow one another: a step of the thread stays in its phase, *)
(* or goes on to the next one when an attempt finds the outage over or the *)
(* last row is gone.                                                       *)
LEMMA PhaseThroughThread ==
  ASSUME Structure, Logged, Untroubled, InPhase, Gateway, faults' = faults
  PROVE  Untroubled' /\ InPhase'
<1>0. log \in Seq(Record)
  BY DEF Logged
<1>. USE DEF Calm
<1>1. GatewayThread /\ stage' = stage
  BY DEF Gateway
<1>2. RecordBuffered => accepted \in Event
  BY DEF Logged, Unlogged, RecordBuffered
<1>3. CASE BeforeOutage
  <2>1. /\ Calm
        /\ UNCHANGED <<connected, linkIntact, replayRequested, bufferVars>>
        /\ pc' \in LivePoints
        /\ ShowsNothing \/ RecvAccepted \/ LiveConfirmed
    BY <1>1, <1>3, LiveThread DEF BeforeOutage
  <2>2. Places("buffered")' = {} /\ Places("replayed")' = {} /\ Places("reconnected")' = {}
    <3>1. CASE LiveConfirmed
      BY <1>3, <1>0, <3>1, ThreadLogs, PublishedPlace DEF BeforeOutage
    <3>2. CASE ShowsNothing \/ RecvAccepted
      <4>1. log' = log
        BY <1>0, <3>2, NothingShown
      <4>. QED  BY <1>3, <4>1 DEF BeforeOutage, Places
    <3>. QED  BY <2>1, <3>1, <3>2
  <2>3. table' = table
    BY <2>1 DEF bufferVars
  <2>4. BeforeOutage'
    BY <1>1, <1>3, <2>1, <2>2, <2>3 DEF BeforeOutage
  <2>5. Untroubled'
    BY <1>1, <2>1 DEF Untroubled
  <2>. QED  BY <2>4, <2>5 DEF InPhase
<1>4. CASE Drained
  <2>1. /\ Calm
        /\ UNCHANGED <<connected, linkIntact, replayRequested, bufferVars>>
        /\ pc' \in LivePoints
    BY <1>1, <1>4, LiveThread DEF Drained, AfterOutage
  <2>2. table' = table
    BY <2>1 DEF bufferVars
  <2>3. Drained'
    BY <1>1, <1>4, <2>1, <2>2 DEF Drained, AfterOutage
  <2>4. Untroubled'
    BY <1>1, <2>1 DEF Untroubled
  <2>. QED  BY <2>3, <2>4 DEF InPhase
<1>5. CASE Draining
  <2>1. /\ Calm
        /\ UNCHANGED <<connected, linkIntact, accepted>>
        /\ \/ /\ replayRequested' = replayRequested
              /\ pc' \in DrainPoints
              /\ pc' = "remove" => confirmed' = batch'
           \/ ~replayRequested' /\ pc' = "recv" /\ DOMAIN table = {} /\ ShowsNothing
    BY <1>1, <1>5, DrainThread DEF Draining, AfterOutage
  <2>2. Untroubled'
    BY <1>1, <2>1 DEF Untroubled
  <2>3. AfterOutage'
    BY <1>1, <1>5, <2>1 DEF Draining, AfterOutage
  <2>4. CASE replayRequested' = replayRequested /\ pc' \in DrainPoints /\ (pc' = "remove" => confirmed' = batch')
    <3>1. Draining'
      BY <1>5, <2>3, <2>4 DEF Draining
    <3>. QED  BY <2>2, <3>1 DEF InPhase
  <2>5. CASE ~replayRequested' /\ pc' = "recv" /\ DOMAIN table = {} /\ ShowsNothing
    <3>1. table' = table
      BY <2>5 DEF ShowsNothing, bufferVars
    <3>2. Drained'
      BY <2>3, <2>5, <3>1 DEF Drained, LivePoints
    <3>. QED  BY <2>2, <3>2 DEF InPhase
  <2>. QED  BY <2>1, <2>2, <2>4, <2>5
<1>6. CASE DuringOutage
  <2>1. /\ Calm
        /\ \/ /\ ~simulatedOutage /\ pc' = "gate"
              /\ connected' /\ ~linkIntact' /\ replayRequested'
           \/ /\ UNCHANGED <<connected, linkIntact, replayRequested>>
              /\ pc' \in OutagePoints \ {"liveAwait"}
              /\ ShowsNothing \/ RecvAccepted \/ LiveConfirmed \/ EnqueueEvent \/ RecordBuffered
    BY <1>1, <1>6, OutageThread DEF DuringOutage
  <2>2. CASE ~simulatedOutage /\ pc' = "gate" /\ connected' /\ ~linkIntact' /\ replayRequested'
    <3>1. stage = "recovery" /\ ~simulatedOutage'
      BY <1>6, <2>1, <2>2 DEF Untroubled, DuringOutage
    <3>2. Draining'
      BY <1>1, <2>2, <3>1 DEF Draining, AfterOutage, DrainPoints
    <3>3. Untroubled'
      BY <1>1, <2>1, <2>2, <3>1 DEF Untroubled
    <3>. QED  BY <3>2, <3>3 DEF InPhase
  <2>3. CASE /\ UNCHANGED <<connected, linkIntact, replayRequested>>
             /\ pc' \in OutagePoints \ {"liveAwait"}
             /\ ShowsNothing \/ RecvAccepted \/ LiveConfirmed \/ EnqueueEvent \/ RecordBuffered
    <3>1. Untroubled'
      BY <1>1, <2>1, <2>3 DEF Untroubled
    <3>2. Places("replayed")' = Places("replayed") /\ Places("reconnected")' = Places("reconnected")
      <4>1. CASE LiveConfirmed
        BY <1>0, <4>1, ThreadLogs, PublishedPlace
      <4>2. CASE RecordBuffered
        BY <1>0, <1>2, <4>2, ThreadLogs, BufferedPlace
      <4>3. CASE ShowsNothing \/ RecvAccepted \/ EnqueueEvent
        BY <1>0, <4>3, NothingShown DEF Places
      <4>. QED  BY <2>3, <4>1, <4>2, <4>3
    <3>3. DuringOutage'
      BY <1>1, <1>6, <2>3, <3>2 DEF DuringOutage
    <3>. QED  BY <3>1, <3>3 DEF InPhase
  <2>. QED  BY <2>1, <2>2, <2>3
<1>. QED  BY <1>3, <1>4, <1>5, <1>6 DEF InPhase

(* The stages of the scenario bring the outage and end it; the rest of     *)
(* them, and the network, leave the phase as it is.                        *)
LEMMA PhaseKept ==
  ASSUME Structure, Logged, Untroubled, InPhase, [ScenarioNext]_allVars, stage' \in Waits,
         Gateway \/ Network => faults' = faults
  PROVE  Untroubled' /\ InPhase'
<1>. USE DEF Proceed, gatewayVars, bufferVars, replayVars, publisherVars, flagVars, linkVars
<1>1. CASE Gateway
  BY <1>1, PhaseThroughThread
<1>2. CASE log' = log /\ UNCHANGED <<gatewayVars, connected, linkIntact, stage>> /\ Calm
  <2>1. \A kind : Places(kind)' = Places(kind)
    BY <1>2 DEF Places
  <2>2. Untroubled'
    BY <1>2 DEF Untroubled, Calm
  <2>3. BeforeOutage => BeforeOutage'
    BY <1>2, <2>1 DEF BeforeOutage
  <2>4. DuringOutage => DuringOutage'
    BY <1>2, <2>1 DEF DuringOutage
  <2>5. Draining => Draining'
    BY <1>2 DEF Draining, AfterOutage
  <2>6. Drained => Drained'
    BY <1>2 DEF Drained, AfterOutage
  <2>. QED  BY <2>2, <2>3, <2>4, <2>5, <2>6 DEF InPhase
<1>3. CASE InjectOutage
  <2>1. /\ stage = "normal operation" /\ stage' = "outage injection"
        /\ log' = log /\ UNCHANGED <<gatewayVars, linkVars, messageVars, forcedFailures>>
        /\ simulatedOutage' /\ ~connected' /\ linkIntact' = (connected \/ linkIntact)
    BY <1>3 DEF InjectOutage, InjectConnectionOutage
  <2>2. BeforeOutage
    BY <2>1 DEF InPhase, DuringOutage, Draining, Drained, AfterOutage
  <2>3. linkIntact'
    BY <2>1, <2>2 DEF BeforeOutage
  <2>4. \A kind : Places(kind)' = Places(kind)
    BY <2>1 DEF Places
  <2>5. DuringOutage'
    BY <2>1, <2>2, <2>4 DEF BeforeOutage, DuringOutage, OutagePoints
  <2>6. Untroubled'
    BY <2>1, <2>3 DEF Untroubled, messageVars
  <2>. QED  BY <2>5, <2>6 DEF InPhase
<1>4. CASE SeeOutage \/ ClearOutage
  <2>1. /\ log' = log /\ UNCHANGED <<gatewayVars, linkVars, messageVars, forcedFailures, connected, linkIntact>>
        /\ \/ stage = "outage injection" /\ stage' = "buffering" /\ simulatedOutage' = simulatedOutage
           \/ stage = "buffering" /\ stage' = "recovery" /\ ~simulatedOutage'
    BY <1>4 DEF SeeOutage, ClearOutage, ClearConnectionOutage
  <2>2. DuringOutage
    BY <2>1 DEF InPhase, BeforeOutage, Draining, Drained, AfterOutage
  <2>3. \A kind : Places(kind)' = Places(kind)
    BY <2>1 DEF Places
  <2>4. DuringOutage'
    BY <2>1, <2>2, <2>3 DEF DuringOutage
  <2>5. Untroubled'
    BY <2>1 DEF Untroubled, messageVars
  <2>. QED  BY <2>4, <2>5 DEF InPhase
<1>5. CASE SeeReconnect \/ SeeReplay \/ StopThreads
  <2>1. /\ log' = log /\ UNCHANGED <<gatewayVars, publisherVars>>
        /\ stage \in {"recovery", "replay", "return to normal"}
        /\ stage' \in {"replay", "return to normal", "verification"}
        /\ stage = "recovery" => Places("reconnected") # {}
    BY <1>5 DEF SeeReconnect, SeeReplay, StopThreads, Reached
  <2>2. AfterOutage /\ (Draining \/ Drained)
    BY <2>1 DEF InPhase, BeforeOutage, DuringOutage, Draining, Drained, AfterOutage
  <2>3. AfterOutage'
    BY <2>1, <2>2 DEF AfterOutage
  <2>4. Draining => Draining'
    BY <2>1, <2>3 DEF Draining
  <2>5. Drained => Drained'
    BY <2>1, <2>3 DEF Drained
  <2>6. Untroubled'
    BY <2>1 DEF Untroubled, messageVars
  <2>. QED  BY <2>2, <2>4, <2>5, <2>6 DEF InPhase
<1>6. CASE Network
  BY <1>2, <1>6, QuietNetwork
<1>7. CASE UNCHANGED allVars
  <2>1. log' = log /\ UNCHANGED <<gatewayVars, publisherVars, stage>>
    BY <1>7 DEF allVars, scenarioVars, vars
  <2>. QED  BY <1>2, <2>1 DEF Calm, messageVars
<1>. QED  BY <1>1, <1>3, <1>4, <1>5, <1>6, <1>7, StageSteps

-----------------------------------------------------------------------------
(* The log and the counters.                                               *)

(* The log and the gateway's counters agree: what is confirmed and not yet *)
(* deleted is counted and not yet logged.                                  *)
Counted ==
  /\ startRows = 0
  /\ metrics.processed = Cardinality(Places("published"))
  /\ metrics.buffered = Cardinality(Places("buffered"))
  /\ metrics.replayed = Cardinality(Places("replayed")) + Cardinality(confirmed)

(* A record at a new place is one more. *)
LEMMA OneMorePlace ==
  ASSUME log \in Seq(Record), NEW kind, NEW n \in Int, \A i \in DOMAIN log : i \in Int /\ i < n
  PROVE  Cardinality(Places(kind) \cup {n}) = Cardinality(Places(kind)) + 1
<1>1. IsFiniteSet(Places(kind))
  BY PlacesTyped
<1>2. n \notin Places(kind)
  <2>1. ~(n < n)
    OBVIOUS
  <2>. QED  BY <2>1 DEF Places
<1>. QED  BY <1>1, <1>2, FS_AddElement

(* What is confirmed is a finite number of rows. *)
LEMMA ConfirmedRows ==
  ASSUME Structure
  PROVE  /\ confirmed \in SUBSET Nat /\ confirmed \subseteq DOMAIN table
         /\ IsFiniteSet(confirmed) /\ Cardinality(confirmed) \in Nat
<1>1. confirmed \subseteq DOMAIN table /\ confirmed \subseteq RowIds
  BY DEF Structure, BatchIsOldest, TypeOK, ThreadTypeOK
<1>2. IsFiniteSet(confirmed)
  BY <1>1, TableReady, FS_Subset
<1>. QED  BY <1>1, <1>2, FS_CardinalityType DEF RowIds

(* The records of a replay follow the log, in the order of the rows.       *)
LEMMA ReplayAdds ==
  ASSUME Structure, log \in Seq(Record), log' = log \o ReplayRecords
  PROVE  LET m == Len(log)
             n == Cardinality(confirmed)
         IN  /\ m \in Nat /\ n \in Nat
             /\ Places("replayed")' = Places("replayed") \cup (m + 1 .. m + n)
             /\ \A i \in m + 1 .. m + n : log'[i].event = table[NthOf(confirmed, i - m)]
             /\ Cardinality(Places("replayed")') = Cardinality(Places("replayed")) + n
<1>. DEFINE m == Len(log)
            n == Cardinality(confirmed)
            new == ReplayRecords
            old == Places("replayed")
<1>1. m \in Nat /\ n \in Nat /\ new \in Seq(Record) /\ old \in SUBSET (1 .. m) /\ IsFiniteSet(old)
      /\ Cardinality(old) \in Nat /\ DOMAIN log = 1 .. m
  BY ConfirmedRows, ReplayedRecords, PlacesTyped, LenProperties
<1>2. /\ DOMAIN new = 1 .. n
      /\ \A k \in 1 .. n : new[k].kind = "replayed" /\ new[k].event = table[NthOf(confirmed, k)]
  BY DEF ReplayRecords
<1>3. Len(new) = n
  BY <1>1, <1>2, LenProperties
<1>4. /\ Len(log \o new) = m + n
      /\ \A i \in 1 .. m + n : (log \o new)[i] = IF i <= m THEN log[i] ELSE new[i - m]
      /\ log \o new \in Seq(Record)
  BY <1>1, <1>3, ConcatProperties
<1>5. /\ DOMAIN log' = 1 .. m + n
      /\ \A i \in 1 .. m + n : log'[i] = IF i <= m THEN log[i] ELSE new[i - m]
  BY <1>4, LenProperties
<1>. HIDE DEF m, n, new
<1>6. /\ \A i \in 1 .. m : i \in 1 .. m + n /\ i <= m
      /\ \A i \in m + 1 .. m + n : i \in 1 .. m + n /\ i - m \in 1 .. n /\ ~(i <= m)
      /\ \A i \in 1 .. m + n : i \in 1 .. m \/ i \in m + 1 .. m + n
  BY <1>1
<1>7. /\ \A i \in 1 .. m : log'[i] = log[i]
      /\ \A i \in m + 1 .. m + n :
           log'[i].kind = "replayed" /\ log'[i].event = table[NthOf(confirmed, i - m)]
  <2>1. \A i \in 1 .. m : log'[i] = log[i]
    BY <1>5, <1>6
  <2>2. \A i \in m + 1 .. m + n : log'[i] = new[i - m]
    BY <1>5, <1>6
  <2>3. \A i \in m + 1 .. m + n :
          new[i - m].kind = "replayed" /\ new[i - m].event = table[NthOf(confirmed, i - m)]
    BY <1>2, <1>6
  <2>. QED  BY <2>1, <2>2, <2>3
<1>8. Places("replayed")' = old \cup (m + 1 .. m + n)
  <2>1. \A i \in old : i \in 1 .. m + n /\ log'[i].kind = "replayed"
    BY <1>1, <1>6, <1>7 DEF Places
  <2>2. \A i \in m + 1 .. m + n : i \in 1 .. m + n /\ log'[i].kind = "replayed"
    BY <1>6, <1>7
  <2>3. \A i \in 1 .. m + n : log'[i].kind = "replayed" => i \in old \/ i \in m + 1 .. m + n
    BY <1>1, <1>6, <1>7 DEF Places
  <2>4. Places("replayed")' = {i \in 1 .. m + n : log'[i].kind = "replayed"}
    BY <1>5 DEF Places
  <2>. HIDE DEF old
  <2>. QED  BY <2>1, <2>2, <2>3, <2>4
<1>9. Cardinality(old \cup (m + 1 .. m + n)) = Cardinality(old) + n
  <2>1. PICK a \in Int, b \in Int : a = m + 1 /\ b = m + n
    BY <1>1
  <2>2. IsFiniteSet(a .. b) /\ Cardinality(a .. b) = IF a > b THEN 0 ELSE b - a + 1
    BY FS_Interval
  <2>3. Cardinality(a .. b) = n
    BY <1>1, <2>1, <2>2
  <2>4. old \cap (a .. b) = {}
    BY <1>1, <2>1
  <2>5. Cardinality(old \cap (a .. b)) = 0
    BY <2>4, FS_EmptySet
  <2>6. Cardinality(old \cup (a .. b)) = Cardinality(old) + Cardinality(a .. b) - Cardinality(old \cap (a .. b))
    BY <1>1, <2>2, FS_Union
  <2>. QED  BY <1>1, <2>1, <2>3, <2>5, <2>6
<1>. QED  BY <1>1, <1>7, <1>8, <1>9 DEF m, n, old

(* The steps of the thread that count, and the others. *)
LEMMA ThreadCounts ==
  ASSUME Structure, GatewayThread
  PROVE  /\ startRows' = startRows
         /\ \/ /\ LiveConfirmed
               /\ metrics'.processed = metrics.processed + 1
               /\ UNCHANGED <<metrics.buffered, metrics.replayed, confirmed>>
            \/ /\ RecordBuffered
               /\ metrics'.buffered = metrics.buffered + 1
               /\ UNCHANGED <<metrics.processed, metrics.replayed, confirmed>>
            \/ /\ pc = "rowAwait"
               /\ confirmed' = confirmed \cup {NextRow}
               /\ metrics'.replayed = metrics.replayed + 1
               /\ UNCHANGED <<metrics.processed, metrics.buffered>>
            \/ /\ RemoveConfirmed
               /\ confirmed' = {}
               /\ UNCHANGED <<metrics.processed, metrics.buffered, metrics.replayed>>
            \/ /\ pc \notin {"record", "remove"} /\ ~(pc = "liveAwait" /\ pc' = "top")
               /\ UNCHANGED <<metrics.processed, metrics.buffered, metrics.replayed, confirmed>>
<1>1. metrics \in [processed : Nat, rejected : Nat, publish_failures : Nat, buffered : Nat, replayed : Nat]
  BY DEF Structure, TypeOK, CountersTypeOK
<1>. USE DEF Goto, replayVars, historyVars
<1>2. CASE CheckConnection \/ DecideReplay
  BY <1>2 DEF CheckConnection, DecideReplay
<1>3. CASE Reconnect
  BY <1>3 DEF Reconnect, AttemptNotDue, AttemptFails, ResumeLink, StartReconnect, ReconnectSucceeds,
     ReconnectFails, FinishReconnect
<1>4. CASE PeekEmpty \/ PeekRows \/ RowNotSent \/ SendRow \/ RowUnconfirmed
  BY <1>4 DEF PeekEmpty, PeekRows, RowNotSent, SendRow, RowUnconfirmed
<1>5. CASE RowConfirmed
  BY <1>1, <1>5 DEF RowConfirmed
<1>6. CASE RemoveConfirmed
  BY <1>6 DEF RemoveConfirmed
<1>7. CASE RecvNothing \/ RecvAccepted \/ LiveRefused \/ SendLive \/ LiveUnconfirmed \/ EnqueueEvent
  BY <1>7 DEF RecvNothing, RecvAccepted, LiveRefused, SendLive, LiveUnconfirmed, EnqueueEvent
<1>8. CASE RecvRejected
  BY <1>1, <1>8 DEF RecvRejected
<1>9. CASE RecordPublishFailure
  BY <1>1, <1>9 DEF RecordPublishFailure
<1>10. CASE LiveConfirmed
  BY <1>1, <1>10 DEF LiveConfirmed
<1>11. CASE RecordBuffered
  BY <1>1, <1>11 DEF RecordBuffered
<1>. QED
  BY <1>2, <1>3, <1>4, <1>5, <1>6, <1>7, <1>8, <1>9, <1>10, <1>11
  DEF GatewayThread, ReplayBuffered, HandleFrame

(* Nothing but the thread changes the log or what the thread keeps. *)
LEMMA OthersLogNothing ==
  ASSUME Structure, Network \/ Scenario \/ UNCHANGED allVars
  PROVE  log' = log /\ UNCHANGED gatewayVars
<1>1. simulatedOutage \in BOOLEAN
  BY DEF Structure, TypeOK, PublisherTypeOK
<1>2. UNCHANGED gatewayVars
  BY <1>1, StageStep DEF Network, allVars, vars
<1>3. log' = log
  BY DEF Network, Scenario, InjectOutage, SeeOutage, ClearOutage, SeeReconnect, SeeReplay, StopThreads,
     Proceed, Verify, Fail, allVars, scenarioVars
<1>. QED  BY <1>2, <1>3

(* A step of the thread that logs none of the three kinds keeps their      *)
(* places.                                                                 *)
LEMMA PlacesThroughTheRest ==
  ASSUME Logged, Gateway, pc \notin {"record", "remove"}, ~(pc = "liveAwait" /\ pc' = "top")
  PROVE  /\ Places("published")' = Places("published")
         /\ Places("buffered")' = Places("buffered")
         /\ Places("replayed")' = Places("replayed")
         /\ \A i \in DOMAIN log : log'[i] = log[i]
<1>1. Recorded \in Seq(Record) /\ \A k \in DOMAIN Recorded : Recorded[k].kind = "reconnected"
  BY OtherRecords
<1>2. \A k \in DOMAIN Recorded :
        Recorded[k].kind # "published" /\ Recorded[k].kind # "buffered" /\ Recorded[k].kind # "replayed"
  BY <1>1
<1>3. log' = log \o Recorded /\ log \in Seq(Record)
  BY DEF Gateway, Logged
<1>. QED  BY <1>1, <1>2, <1>3, PlacesStay, RecordsAdd

(* Every step keeps the count. *)
LEMMA CountedKept ==
  ASSUME Structure, Logged, Counted, [ScenarioNext]_allVars
  PROVE  Counted'
<1>1. log \in Seq(Record)
  BY DEF Logged
<1>2. /\ startRows = 0
      /\ metrics.processed = Cardinality(Places("published"))
      /\ metrics.buffered = Cardinality(Places("buffered"))
      /\ metrics.replayed = Cardinality(Places("replayed")) + Cardinality(confirmed)
  BY DEF Counted
<1>3. CASE Network \/ Scenario \/ UNCHANGED allVars
  <2>1. log' = log /\ startRows' = startRows /\ metrics' = metrics /\ confirmed' = confirmed
    BY <1>3, OthersLogNothing DEF gatewayVars, historyVars, replayVars
  <2>. QED  BY <1>2, <2>1 DEF Counted, Places
<1>4. CASE Gateway
  <2>1. GatewayThread /\ startRows' = 0
    BY <1>2, <1>4, ThreadCounts DEF Gateway
  <2>2. CASE /\ LiveConfirmed
             /\ metrics'.processed = metrics.processed + 1
             /\ UNCHANGED <<metrics.buffered, metrics.replayed, confirmed>>
    <3>1. LogsPublished
      BY <1>4, <2>2, ThreadLogs
    <3>2. PICK n \in Int :
            /\ \A i \in DOMAIN log : i \in Int /\ i < n
            /\ Places("published")' = Places("published") \cup {n}
            /\ Places("buffered")' = Places("buffered")
            /\ Places("replayed")' = Places("replayed")
      BY <1>1, <3>1, PublishedPlace
    <3>3. Cardinality(Places("published") \cup {n}) = Cardinality(Places("published")) + 1
      BY <1>1, <3>2, OneMorePlace
    <3>. QED  BY <1>2, <2>1, <2>2, <3>2, <3>3 DEF Counted
  <2>3. CASE /\ RecordBuffered
             /\ metrics'.buffered = metrics.buffered + 1
             /\ UNCHANGED <<metrics.processed, metrics.replayed, confirmed>>
    <3>1. LogsBuffered /\ accepted \in Event
      BY <1>4, <2>3, ThreadLogs DEF Logged, Unlogged, RecordBuffered
    <3>2. PICK n \in Int :
            /\ \A i \in DOMAIN log : i \in Int /\ i < n
            /\ Places("published")' = Places("published")
            /\ Places("buffered")' = Places("buffered") \cup {n}
            /\ Places("replayed")' = Places("replayed")
      BY <1>1, <3>1, BufferedPlace
    <3>3. Cardinality(Places("buffered") \cup {n}) = Cardinality(Places("buffered")) + 1
      BY <1>1, <3>2, OneMorePlace
    <3>. QED  BY <1>2, <2>1, <2>3, <3>2, <3>3 DEF Counted
  <2>4. CASE /\ pc = "rowAwait"
             /\ confirmed' = confirmed \cup {NextRow}
             /\ metrics'.replayed = metrics.replayed + 1
             /\ UNCHANGED <<metrics.processed, metrics.buffered>>
    <3>1. /\ Places("published")' = Places("published")
          /\ Places("buffered")' = Places("buffered")
          /\ Places("replayed")' = Places("replayed")
      BY <1>4, <2>4, PlacesThroughTheRest
    <3>2. Cardinality(confirmed \cup {NextRow}) = Cardinality(confirmed) + 1
      <4>1. NextRow \notin confirmed /\ IsFiniteSet(confirmed)
        BY <2>4, NextRowProperties, ConfirmedRows
      <4>. QED  BY <4>1, FS_AddElement
    <3>3. Cardinality(confirmed) \in Nat /\ Cardinality(Places("replayed")) \in Nat
      BY <1>1, ConfirmedRows, PlacesTyped
    <3>. QED  BY <1>2, <2>1, <2>4, <3>1, <3>2, <3>3 DEF Counted
  <2>5. CASE /\ RemoveConfirmed
             /\ confirmed' = {}
             /\ UNCHANGED <<metrics.processed, metrics.buffered, metrics.replayed>>
    <3>1. LogsReplayed /\ log' = log \o ReplayRecords
      BY <1>4, <2>5, ThreadLogs
    <3>2. /\ Places("published")' = Places("published")
          /\ Places("buffered")' = Places("buffered")
      BY <1>1, <3>1, ReplayedPlaces
    <3>3. /\ Cardinality(Places("replayed")') = Cardinality(Places("replayed")) + Cardinality(confirmed)
          /\ Cardinality(confirmed) \in Nat /\ Cardinality(Places("replayed")) \in Nat
      BY <1>1, <3>1, ReplayAdds, PlacesTyped
    <3>4. Cardinality(confirmed') = 0
      BY <2>5, FS_EmptySet
    <3>. QED  BY <1>2, <2>1, <2>5, <3>2, <3>3, <3>4 DEF Counted
  <2>6. CASE /\ pc \notin {"record", "remove"} /\ ~(pc = "liveAwait" /\ pc' = "top")
             /\ UNCHANGED <<metrics.processed, metrics.buffered, metrics.replayed, confirmed>>
    <3>1. /\ Places("published")' = Places("published")
          /\ Places("buffered")' = Places("buffered")
          /\ Places("replayed")' = Places("replayed")
      BY <1>4, <2>6, PlacesThroughTheRest
    <3>. QED  BY <1>2, <2>1, <2>6, <3>1 DEF Counted
  <2>. QED  BY <2>1, <2>2, <2>3, <2>4, <2>5, <2>6, ThreadCounts
<1>. QED  BY <1>3, <1>4 DEF ScenarioNext

-----------------------------------------------------------------------------
(* What the steps of a quiet run show.                                     *)

(* A backlog is being built up, or replayed. *)
Backlogged == replayRequested \/ ~connected

(* The records of the three kinds stay as they are. *)
SameRecords ==
  /\ Places("published")' = Places("published")
  /\ Places("buffered")' = Places("buffered")
  /\ Places("replayed")' = Places("replayed")
  /\ \A i \in DOMAIN log : log'[i] = log[i]

(* A step may show nothing, ... *)
Passes ==
  /\ SameRecords
  /\ UNCHANGED <<table, droppedCount, accepted>>
  /\ pc' = "record" <=> pc = "record"
  /\ pc' \in Refused => pc \in Refused
  /\ Backlogged' => Backlogged \/ Places("buffered") = {}

(* ... accept an event, ... *)
Takes ==
  /\ SameRecords
  /\ UNCHANGED <<table, droppedCount>>
  /\ NothingArrives
  /\ accepted' = accepted + 1
  /\ pc = "recv" /\ pc' = "publish"
  /\ Backlogged' => Backlogged

(* ... log it as published, with no buffered one about, ... *)
Publishes ==
  /\ LogsPublished
  /\ UNCHANGED <<table, droppedCount>>
  /\ pc = "liveAwait" /\ pc' = "top"
  /\ Backlogged' => Backlogged
  /\ Backlogged => Places("buffered") = {}

(* ... store it in the outage, ... *)
Stores ==
  /\ EnqueueEvent /\ SameRecords
  /\ NothingArrives
  /\ Backlogged
  /\ Places("replayed") = {}
  /\ stage \in {"outage injection", "buffering", "recovery"}

(* ... log that, ... *)
Buffers ==
  /\ LogsBuffered
  /\ UNCHANGED <<table, droppedCount>>
  /\ pc = "record" /\ pc' = "top"
  /\ Backlogged
  /\ Places("replayed") = {}
  /\ stage \in {"outage injection", "buffering", "recovery"}

(* ... or delete and log what was replayed.                                *)
Replays ==
  /\ RemoveConfirmed /\ LogsReplayed
  /\ confirmed = batch
  /\ log' = log \o ReplayRecords
  /\ Backlogged

(* Every step of a quiet run's thread is one of these. *)
LEMMA QuietThread ==
  ASSUME Structure, Logged, Untroubled, InPhase, Gateway, faults' = faults
  PROVE  Passes \/ Takes \/ Publishes \/ Stores \/ Buffers \/ Replays
<1>0. GatewayThread /\ log \in Seq(Record) /\ NothingArrives
  BY ThreadStep DEF Gateway, Logged, NothingArrives
<1>1. ASSUME ShowsNothing \/ RecvAccepted \/ EnqueueEvent
      PROVE  SameRecords
  BY <1>0, <1>1, NothingShown DEF SameRecords, Places
<1>2. ASSUME ShowsNothing, Backlogged' => Backlogged
      PROVE  Passes
  BY <1>1, <1>2 DEF ShowsNothing, Passes, bufferVars
<1>3. ASSUME RecvAccepted, Backlogged' => Backlogged
      PROVE  Takes
  BY <1>0, <1>1, <1>3 DEF RecvAccepted, Goto, Takes, bufferVars
<1>4. ASSUME LiveConfirmed, Backlogged' => Backlogged, Backlogged => Places("buffered") = {}
      PROVE  Publishes
  <2>1. LogsPublished
    BY <1>4, ThreadLogs
  <2>. QED  BY <1>4, <2>1 DEF LiveConfirmed, Goto, Publishes, bufferVars
<1>5. CASE BeforeOutage \/ Drained
  <2>1. /\ connected /\ ~replayRequested /\ pc \in LivePoints
        /\ UNCHANGED <<connected, replayRequested>>
        /\ ShowsNothing \/ RecvAccepted \/ LiveConfirmed
    BY <1>0, <1>5, LiveThread DEF BeforeOutage, Drained, AfterOutage
  <2>2. ~Backlogged /\ ~Backlogged'
    BY <2>1 DEF Backlogged
  <2>. QED  BY <1>2, <1>3, <1>4, <2>1, <2>2
<1>6. CASE Draining
  <2>1. /\ Backlogged
        /\ ShowsNothing \/ RemoveConfirmed
        /\ pc = "remove" => confirmed = batch
    BY <1>0, <1>6, DrainThread DEF Draining, AfterOutage, Backlogged
  <2>2. CASE RemoveConfirmed
    <3>1. pc = "remove"
      BY <2>2 DEF RemoveConfirmed
    <3>. QED  BY <2>1, <2>2, <3>1, ThreadLogs DEF Replays
  <2>. QED  BY <1>2, <2>1, <2>2
<1>7. CASE DuringOutage
  <2>1. /\ Backlogged
        /\ Places("replayed") = {}
        /\ stage \in {"outage injection", "buffering", "recovery"}
        /\ pc = "liveAwait" => Places("buffered") = {}
    BY <1>7 DEF DuringOutage, Backlogged
  <2>2. \/ pc = "attempt" /\ pc' = "gate" /\ UNCHANGED <<bufferVars, accepted>>
        \/ ShowsNothing \/ RecvAccepted \/ LiveConfirmed \/ EnqueueEvent \/ RecordBuffered
    BY <1>0, <1>7, OutageThread DEF DuringOutage
  <2>3. CASE pc = "attempt" /\ pc' = "gate" /\ UNCHANGED <<bufferVars, accepted>>
    <3>1. SameRecords
      BY <2>3, PlacesThroughTheRest DEF SameRecords
    <3>. QED  BY <2>1, <2>3, <3>1 DEF Passes, Refused, bufferVars
  <2>4. CASE LiveConfirmed
    <3>1. pc = "liveAwait"
      BY <2>4 DEF LiveConfirmed
    <3>. QED  BY <1>4, <2>1, <2>4, <3>1
  <2>5. CASE EnqueueEvent
    BY <1>0, <1>1, <2>1, <2>5 DEF Stores
  <2>6. CASE RecordBuffered
    <3>1. LogsBuffered
      BY <2>6, ThreadLogs
    <3>. QED  BY <2>1, <2>6, <3>1 DEF RecordBuffered, Goto, Buffers, bufferVars
  <2>. QED  BY <1>2, <1>3, <2>1, <2>2, <2>3, <2>4, <2>5, <2>6
<1>. QED  BY <1>5, <1>6, <1>7 DEF InPhase

(* The steps of the network and of the stages show nothing. *)
LEMMA QuietRest ==
  ASSUME Structure, Logged, Untroubled, InPhase, [ScenarioNext]_allVars, ~Gateway, stage' \in Waits,
         Network => faults' = faults
  PROVE  Passes
<1>1. log' = log /\ UNCHANGED <<gatewayVars>>
  BY OthersLogNothing DEF ScenarioNext
<1>2. SameRecords
  BY <1>1 DEF SameRecords, Places
<1>3. connected' = connected \/ Places("buffered") = {}
  <2>1. CASE Network
    BY <2>1, QuietNetwork
  <2>2. CASE InjectOutage
    <3>1. stage = "normal operation"
      BY <2>2 DEF InjectOutage, Proceed
    <3>2. BeforeOutage
      BY <3>1 DEF InPhase, DuringOutage, Draining, Drained, AfterOutage
    <3>. QED  BY <3>2 DEF BeforeOutage
  <2>3. CASE SeeOutage \/ ClearOutage \/ SeeReconnect \/ SeeReplay \/ StopThreads
    BY <2>3 DEF SeeOutage, ClearOutage, SeeReconnect, SeeReplay, StopThreads, ClearConnectionOutage,
       publisherVars, flagVars
  <2>4. CASE UNCHANGED allVars
    BY <2>4 DEF allVars, vars, publisherVars, flagVars
  <2>. QED  BY <2>1, <2>2, <2>3, <2>4, StageSteps
<1>. QED  BY <1>1, <1>2, <1>3 DEF Passes, Backlogged, gatewayVars, bufferVars, replayVars

-----------------------------------------------------------------------------
(* The rows and the records of a quiet run.                                *)

(* Every row is of a buffered event, or of the one being stored. *)
RowsAreBuffered ==
  \A id \in DOMAIN table :
    \/ \E b \in Places("buffered") : log[b].event = table[id]
    \/ pc = "record" /\ table[id] = accepted

(* What was replayed was buffered, and is older than all rows that are     *)
(* left.                                                                   *)
ReplaysAreOldest ==
  \A r \in Places("replayed") :
    /\ \E b \in Places("buffered") : log[b].event = log[r].event
    /\ \A id \in DOMAIN table : log[r].event < table[id]

(* It was replayed in the order of acceptance. *)
ReplaysAscend ==
  \A r, s \in Places("replayed") : r < s => log[r].event < log[s].event

(* Live events were published before the backlog or after it. *)
LiveStaysOut ==
  /\ \A p \in Places("published"), b \in Places("buffered"), r \in Places("replayed") : p < b \/ r < p
  /\ Backlogged => \A p \in Places("published"), b \in Places("buffered") : p < b

(* Every arrival of e is behind one of d. *)
Follows(s, d, e) == \A q \in DOMAIN s : s[q] = e => \E p \in DOMAIN s : p < q /\ s[p] = d

(* A buffered event never arrives before those buffered ahead of it. *)
BufferedArrives ==
  /\ pc \in Refused => accepted \notin Arrived
  /\ droppedCount = 0 =>
       \A a, b \in Places("buffered") : a < b => Follows(arrivals, log[a].event, log[b].event)

(* What the stages waited for has happened. *)
StagesSeen ==
  /\ stage \in {"buffering", "recovery", "replay", "return to normal", "verification"} =>
       Places("buffered") # {}
  /\ stage = "replay" => Len(owed) = Cardinality(Places("buffered"))
  /\ stage \in {"return to normal", "verification"} =>
       /\ DOMAIN table = {}
       /\ droppedCount = 0
       /\ Cardinality(Places("replayed")) = Cardinality(Places("buffered"))
       /\ mark \in Nat /\ \A r \in Places("replayed") : r <= mark
  /\ stage = "verification" => \E p \in Places("published") : mark < p

(* Everything that is true of a quiet run. *)
QuietRun ==
  stage \in Waits /\ Quiet =>
    /\ Untroubled
    /\ InPhase
    /\ RowsAreBuffered
    /\ ReplaysAreOldest
    /\ ReplaysAscend
    /\ LiveStaysOut
    /\ BufferedArrives
    /\ StagesSeen

(* A verdict against a run has a reason. *)
Condemned ==
  /\ stage = "verification" => stop
  /\ result = "verification" => stage = "cleanup" /\ QuietRunPasses

(* Rows keep their records, ... *)
LEMMA RowsAreBufferedKept ==
  ASSUME Structure, Logged, RowsAreBuffered,
         Passes \/ Takes \/ Publishes \/ Stores \/ Buffers \/ Replays
  PROVE  RowsAreBuffered'
<1>. DEFINE Stays(event) ==
              (\E b \in Places("buffered") : log[b].event = event)
                => \E b \in Places("buffered")' : log'[b].event = event
<1>0. log \in Seq(Record) /\ Places("buffered") \subseteq DOMAIN log
  BY DEF Logged, Places
<1>1. ASSUME SameRecords
      PROVE  \A event : Stays(event)
  BY <1>0, <1>1 DEF SameRecords
<1>2. CASE Passes
  BY <1>1, <1>2 DEF Passes, RowsAreBuffered
<1>3. CASE Takes
  BY <1>1, <1>3 DEF Takes, RowsAreBuffered
<1>4. CASE Publishes
  <2>1. /\ \A i \in DOMAIN log : log'[i] = log[i]
        /\ Places("buffered")' = Places("buffered")
    BY <1>0, <1>4, PublishedPlace DEF Publishes
  <2>. QED  BY <1>0, <1>4, <2>1 DEF Publishes, RowsAreBuffered
<1>5. CASE Stores
  <2>1. /\ DOMAIN table' \subseteq DOMAIN table \cup {FreshId}
        /\ \A id \in DOMAIN table' \ {FreshId} : table'[id] = table[id]
        /\ table'[FreshId] = accepted
    BY <1>5, EnqueueEffect DEF Stores
  <2>2. pc = "enqueue" /\ pc' = "record" /\ accepted' = accepted
    BY <1>5 DEF Stores, EnqueueEvent, Goto
  <2>3. SameRecords
    BY <1>5 DEF Stores
  <2>. QED  BY <1>1, <2>1, <2>2, <2>3 DEF RowsAreBuffered
<1>6. CASE Buffers
  <2>0. accepted \in Event
    BY <1>6 DEF Buffers, Logged, Unlogged
  <2>1. \E n \in Int :
          /\ \A i \in DOMAIN log : log'[i] = log[i]
          /\ log'[n].event = accepted
          /\ Places("buffered")' = Places("buffered") \cup {n}
    BY <1>0, <1>6, <2>0, BufferedPlace DEF Buffers
  <2>. QED  BY <1>0, <1>6, <2>1 DEF Buffers, RowsAreBuffered
<1>7. CASE Replays
  <2>1. /\ \A i \in DOMAIN log : log'[i] = log[i]
        /\ Places("buffered")' = Places("buffered")
    BY <1>0, <1>7, ReplayedPlaces DEF Replays
  <2>2. /\ DOMAIN table' \subseteq DOMAIN table
        /\ \A id \in DOMAIN table' : table'[id] = table[id]
    BY <1>7, RemoveEffect DEF Replays
  <2>3. pc # "record"
    BY <1>7 DEF Replays, RemoveConfirmed
  <2>. QED  BY <1>0, <2>1, <2>2, <2>3 DEF RowsAreBuffered
<1>. QED  BY <1>2, <1>3, <1>4, <1>5, <1>6, <1>7

(* The n-th members of a set ascend. *)
LEMMA NthOfAscends ==
  ASSUME NEW numbers \in SUBSET Nat, IsFiniteSet(numbers),
         NEW i \in 1 .. Cardinality(numbers), NEW k \in 1 .. Cardinality(numbers), i < k
  PROVE  NthOf(numbers, i) < NthOf(numbers, k)
<1>1. PICK x \in numbers : Rank(numbers, x) = i
  BY RanksAreTaken
<1>2. PICK y \in numbers : Rank(numbers, y) = k
  BY RanksAreTaken
<1>3. NthOf(numbers, i) = x /\ NthOf(numbers, k) = y
  BY <1>1, <1>2, NthOfProperties
<1>4. x \in Nat /\ y \in Nat /\ i \in Int /\ k \in Int
  BY FS_CardinalityType
<1>5. x # y /\ ~(y < x)
  <2>1. y < x => k < i
    BY <1>1, <1>2, RankProperties
  <2>. QED  BY <1>1, <1>2, <1>4, <2>1
<1>. QED  BY <1>3, <1>4, <1>5

(* What a replay adds to the records: the events of the rows of the batch, *)
(* in their order, and older than all rows that stay.                      *)
LEMMA ReplayedBatch ==
  ASSUME Structure, Logged, Replays
  PROVE  /\ \A r \in Places("replayed")' \ Places("replayed") :
              \E k \in batch : log'[r].event = table[k]
         /\ \A r, s \in Places("replayed")' \ Places("replayed") :
              r < s => log'[r].event < log'[s].event
         /\ \A k \in batch, id \in DOMAIN table' : table[k] < table'[id]
<1>. DEFINE m == Len(log)
            n == Cardinality(confirmed)
<1>0. log \in Seq(Record) /\ confirmed = batch /\ batch \subseteq DOMAIN table
  BY DEF Logged, Replays, Structure, BatchIsOldest
<1>1. /\ m \in Nat /\ n \in Nat
      /\ Places("replayed")' = Places("replayed") \cup (m + 1 .. m + n)
      /\ \A i \in m + 1 .. m + n : log'[i].event = table[NthOf(confirmed, i - m)]
  BY <1>0, ReplayAdds DEF Replays
<1>2. /\ confirmed \in SUBSET Nat /\ IsFiniteSet(confirmed)
      /\ \A i, k \in DOMAIN table : i < k => table[i] < table[k]
      /\ \A i, k \in DOMAIN table : i \in Int /\ k \in Int
  BY ConfirmedRows DEF Structure, RowsInAcceptanceOrder, TypeOK, TableTypeOK, RowIds
<1>3. /\ \A i \in 1 .. n : NthOf(confirmed, i) \in confirmed
      /\ \A i, k \in 1 .. n : i < k => NthOf(confirmed, i) < NthOf(confirmed, k)
  BY <1>2, NthOfProperties, NthOfAscends
<1>. HIDE DEF m, n
<1>4. \A r \in Places("replayed")' \ Places("replayed") : r \in m + 1 .. m + n /\ r - m \in 1 .. n
  BY <1>1
<1>5. ASSUME NEW r \in Places("replayed")' \ Places("replayed"),
             NEW s \in Places("replayed")' \ Places("replayed"), r < s
      PROVE  log'[r].event < log'[s].event
  <2>1. r - m \in 1 .. n /\ s - m \in 1 .. n /\ r - m < s - m
    BY <1>1, <1>4, <1>5
  <2>. QED  BY <1>0, <1>1, <1>2, <1>3, <1>4, <2>1
<1>6. \A r \in Places("replayed")' \ Places("replayed") : \E k \in batch : log'[r].event = table[k]
  BY <1>0, <1>1, <1>3, <1>4
<1>7. ASSUME NEW k \in batch, NEW id \in DOMAIN table'
      PROVE  table[k] < table'[id]
  <2>1. id \in DOMAIN table \ confirmed /\ table'[id] = table[id]
    BY RemoveEffect DEF Replays
  <2>2. ~(id < k) /\ id # k
    BY <1>0, <2>1 DEF Structure, BatchIsOldest
  <2>. QED  BY <1>0, <1>2, <2>1, <2>2
<1>. QED  BY <1>5, <1>6, <1>7

(* ... the replay takes them oldest first, ... *)
LEMMA ReplaysAreOldestKept ==
  ASSUME Structure, Logged, RowsAreBuffered, ReplaysAreOldest,
         Passes \/ Takes \/ Publishes \/ Stores \/ Buffers \/ Replays
  PROVE  ReplaysAreOldest'
<1>0. log \in Seq(Record) /\ \A kind : Places(kind) \subseteq DOMAIN log
  BY DEF Logged, Places
<1>1. CASE Passes \/ Takes
  <2>1. SameRecords /\ table' = table
    BY <1>1 DEF Passes, Takes
  <2>. QED  BY <1>0, <2>1 DEF SameRecords, ReplaysAreOldest
<1>2. CASE Publishes
  <2>1. /\ \A i \in DOMAIN log : log'[i] = log[i]
        /\ Places("buffered")' = Places("buffered")
        /\ Places("replayed")' = Places("replayed")
    BY <1>0, <1>2, PublishedPlace DEF Publishes
  <2>. QED  BY <1>0, <1>2, <2>1 DEF Publishes, ReplaysAreOldest
<1>3. CASE Stores
  BY <1>3 DEF Stores, SameRecords, ReplaysAreOldest
<1>4. CASE Buffers
  <2>1. accepted \in Event
    BY <1>4 DEF Buffers, Logged, Unlogged
  <2>2. Places("replayed")' = Places("replayed")
    BY <1>0, <1>4, <2>1, BufferedPlace DEF Buffers
  <2>. QED  BY <1>4, <2>2 DEF Buffers, ReplaysAreOldest
<1>5. CASE Replays
  <2>1. /\ \A i \in DOMAIN log : log'[i] = log[i]
        /\ Places("buffered")' = Places("buffered")
    BY <1>0, <1>5, ReplayedPlaces DEF Replays
  <2>2. /\ DOMAIN table' \subseteq DOMAIN table
        /\ \A id \in DOMAIN table' : table'[id] = table[id]
    BY <1>5, RemoveEffect DEF Replays
  <2>3. \A k \in batch : \E b \in Places("buffered")' : log'[b].event = table[k]
    <3>1. pc # "record" /\ batch \subseteq DOMAIN table
      BY <1>5 DEF Replays, RemoveConfirmed, Structure, BatchIsOldest
    <3>. QED  BY <1>0, <2>1, <3>1 DEF RowsAreBuffered
  <2>4. ASSUME NEW r \in Places("replayed")'
        PROVE  /\ \E b \in Places("buffered")' : log'[b].event = log'[r].event
               /\ \A id \in DOMAIN table' : log'[r].event < table'[id]
    <3>1. CASE r \in Places("replayed")
      BY <1>0, <2>1, <2>2, <3>1 DEF ReplaysAreOldest
    <3>2. CASE r \notin Places("replayed")
      BY <1>5, <2>3, <3>2, ReplayedBatch
    <3>. QED  BY <3>1, <3>2
  <2>. QED  BY <2>4 DEF ReplaysAreOldest
<1>. QED  BY <1>1, <1>2, <1>3, <1>4, <1>5

(* ... which keeps their order, ... *)
LEMMA ReplaysAscendKept ==
  ASSUME Structure, Logged, ReplaysAreOldest, ReplaysAscend,
         Passes \/ Takes \/ Publishes \/ Stores \/ Buffers \/ Replays
  PROVE  ReplaysAscend'
<1>0. log \in Seq(Record) /\ \A kind : Places(kind) \subseteq DOMAIN log
  BY DEF Logged, Places
<1>1. CASE Passes \/ Takes \/ Stores
  <2>1. SameRecords
    BY <1>1 DEF Passes, Takes, Stores
  <2>. QED  BY <1>0, <2>1 DEF SameRecords, ReplaysAscend
<1>2. CASE Publishes
  <2>1. /\ \A i \in DOMAIN log : log'[i] = log[i]
        /\ Places("replayed")' = Places("replayed")
    BY <1>0, <1>2, PublishedPlace DEF Publishes
  <2>. QED  BY <1>0, <2>1 DEF ReplaysAscend
<1>3. CASE Buffers
  <2>1. accepted \in Event
    BY <1>3 DEF Buffers, Logged, Unlogged
  <2>2. Places("replayed")' = Places("replayed")
    BY <1>0, <1>3, <2>1, BufferedPlace DEF Buffers
  <2>. QED  BY <1>3, <2>2 DEF Buffers, ReplaysAscend
<1>4. CASE Replays
  <2>1. /\ \A i \in DOMAIN log : i \in Int /\ log'[i] = log[i]
        /\ log' \in Seq(Record)
        /\ \A i \in Places("replayed")' \ Places("replayed") : \A j \in DOMAIN log : j < i
    BY <1>0, <1>4, ReplayedPlaces DEF Replays
  <2>2. \A r \in Places("replayed")' : r \in Int
    BY <2>1, LenProperties DEF Places
  <2>3. ASSUME NEW r \in Places("replayed")', NEW s \in Places("replayed")', r < s
        PROVE  log'[r].event < log'[s].event
    <3>1. CASE s \in Places("replayed")
      <4>1. r \in Places("replayed")
        <5>1. ~(s < r)
          BY <2>2, <2>3
        <5>. QED  BY <1>0, <2>1, <3>1, <5>1
      <4>. QED  BY <1>0, <2>1, <2>3, <3>1, <4>1 DEF ReplaysAscend
    <3>2. CASE s \notin Places("replayed") /\ r \in Places("replayed")
      <4>1. PICK k \in batch : log'[s].event = table[k]
        BY <1>4, <3>2, ReplayedBatch
      <4>2. k \in DOMAIN table /\ log'[r] = log[r]
        BY <1>0, <2>1, <3>2 DEF Structure, BatchIsOldest
      <4>. QED  BY <3>2, <4>1, <4>2 DEF ReplaysAreOldest
    <3>3. CASE s \notin Places("replayed") /\ r \notin Places("replayed")
      BY <1>4, <2>3, <3>3, ReplayedBatch
    <3>. QED  BY <3>1, <3>2, <3>3
  <2>. QED  BY <2>3 DEF ReplaysAscend
<1>. QED  BY <1>1, <1>2, <1>3, <1>4

(* ... and while there is a backlog nothing is published live. *)
LEMMA LiveStaysOutKept ==
  ASSUME Structure, Logged, LiveStaysOut,
         Passes \/ Takes \/ Publishes \/ Stores \/ Buffers \/ Replays
  PROVE  LiveStaysOut'
<1>0. log \in Seq(Record) /\ \A kind : Places(kind) \subseteq DOMAIN log
  BY DEF Logged, Places
<1>1. CASE Passes \/ Takes \/ Stores
  <2>1. SameRecords /\ (Backlogged' => Backlogged \/ Places("buffered") = {})
    BY <1>1 DEF Passes, Takes, Stores
  <2>. QED  BY <2>1 DEF SameRecords, LiveStaysOut
<1>2. CASE Publishes
  <2>1. PICK n \in Int :
          /\ \A i \in DOMAIN log : i < n
          /\ Places("published")' = Places("published") \cup {n}
          /\ Places("buffered")' = Places("buffered")
          /\ Places("replayed")' = Places("replayed")
    BY <1>0, <1>2, PublishedPlace DEF Publishes
  <2>2. \A r \in Places("replayed") : r < n
    BY <1>0, <2>1
  <2>. QED  BY <1>2, <2>1, <2>2 DEF Publishes, LiveStaysOut
<1>3. CASE Buffers
  <2>1. accepted \in Event
    BY <1>3 DEF Buffers, Logged, Unlogged
  <2>2. PICK n \in Int :
          /\ \A i \in DOMAIN log : i < n
          /\ Places("published")' = Places("published")
          /\ Places("buffered")' = Places("buffered") \cup {n}
          /\ Places("replayed")' = Places("replayed")
    BY <1>0, <1>3, <2>1, BufferedPlace DEF Buffers
  <2>3. \A p \in Places("published") : p < n
    BY <1>0, <2>2
  <2>. QED  BY <1>3, <2>2, <2>3 DEF Buffers, LiveStaysOut
<1>4. CASE Replays
  <2>1. /\ Places("published")' = Places("published")
        /\ Places("buffered")' = Places("buffered")
    BY <1>0, <1>4, ReplayedPlaces DEF Replays
  <2>. QED  BY <1>4, <2>1 DEF Replays, LiveStaysOut
<1>. QED  BY <1>1, <1>2, <1>3, <1>4

(* What arrives in a quiet run is the message the thread waits for. *)
LEMMA QuietArrival ==
  ASSUME Structure, Untroubled, Observed, Network, faults' = faults, NEW e \in Event, Arrives(e)
  PROVE  pc \in {"rowAwait", "liveAwait"} /\ pc' = pc /\ e = sending
<1>1. arrivals' # arrivals
  <2>1. \E q \in DOMAIN arrivals' : \A p \in DOMAIN arrivals : p < q
    BY ArrivalAdds DEF Observed
  <2>2. \A q \in DOMAIN arrivals : q \in Int
    BY LenProperties DEF Observed
  <2>3. \A q \in DOMAIN arrivals : ~(q < q)
    BY <2>2
  <2>. QED  BY <2>1, <2>3
<1>2. BrokerReceives /\ UNCHANGED gatewayVars
  BY <1>1, QuietNetwork DEF NothingArrives
<1>3. pc \in {"rowAwait", "liveAwait"} /\ pc' = pc
  BY <1>2 DEF BrokerReceives, Structure, WaitsForItsMessage, gatewayVars
<1>4. PICK g \in Event : received'[g] # received[g]
  BY <1>1 DEF Network, NewlyReceived
<1>5. g = sending
  <2>1. received' = [received EXCEPT ![sending] = OneMore(@)] /\ received \in [Event -> 0 .. 2]
    BY <1>2 DEF BrokerReceives, Structure, TypeOK, PublisherTypeOK
  <2>. QED  BY <1>4, <2>1
<1>6. g = e
  BY <1>4 DEF Arrives
<1>. QED  BY <1>3, <1>5, <1>6

(* When a buffered event arrives without one dropped, those buffered ahead *)
(* of it have: they are not in the table any more, or confirmed.           *)
LEMMA EarlierArrived ==
  ASSUME Structure, NoEventDisappears, OneProcess, Observed, Logged, droppedCount = 0,
         pc \in {"rowAwait", "liveAwait"},
         NEW a \in Places("buffered"), NEW b \in Places("buffered"), a < b, log[b].event = sending
  PROVE  log[a].event \in Arrived
<1>. DEFINE d == log[a].event
            e == log[b].event
<1>1. d < e /\ d \in 1 .. accepted /\ (Unlogged => e # accepted)
  BY DEF Logged, LoggedInOrder, Firsthand
<1>2. pc = "rowAwait" /\ e = table[NextRow]
  BY <1>1 DEF Unlogged, EventInHand, Structure, WaitsForItsMessage
<1>3. accepted \in Nat /\ 1 .. accepted \subseteq Event
  <2>1. accepted \in 0 .. MaxEvents
    BY DEF Structure, TypeOK, ThreadTypeOK
  <2>. QED  BY <2>1, EventsAssumption DEF Event
<1>. HIDE DEF d, e
<1>4. received[d] > 0 \/ \E k \in DOMAIN table : table[k] = d
  <2>1. InHand = {} /\ overflowed = {} /\ lost = {}
    BY <1>2 DEF InHand, EventInHand, OneProcess
  <2>. QED  BY <1>1, <2>1 DEF NoEventDisappears, Delivered, Range
<1>5. ASSUME NEW k \in DOMAIN table, table[k] = d
      PROVE  received[d] > 0
  <2>1. /\ NextRow \in batch \ confirmed /\ NextRow \in DOMAIN table
        /\ \A i \in batch \ confirmed : NextRow <= i
    BY <1>2, NextRowProperties
  <2>2. /\ \A i, j \in DOMAIN table : i < j => table[i] < table[j]
        /\ \A i \in DOMAIN table : i \in Int /\ table[i] \in Int
    BY DEF Structure, RowsInAcceptanceOrder, TypeOK, TableTypeOK, RowIds, Event
  <2>3. k < NextRow
    <3>1. k # NextRow /\ ~(NextRow < k)
      <4>1. d \in Int /\ e \in Int
        BY <1>2, <1>5, <2>1, <2>2
      <4>. QED  BY <1>1, <1>2, <1>5, <2>1, <2>2, <4>1
    <3>. QED  BY <2>1, <2>2, <3>1
  <2>4. k \in batch
    BY <2>1, <2>3 DEF Structure, BatchIsOldest
  <2>5. k \in confirmed
    <3>1. ~(NextRow <= k)
      BY <2>1, <2>2, <2>3
    <3>. QED  BY <2>1, <2>4, <3>1
  <2>. QED  BY <1>5, <2>5 DEF Structure, BatchIsOldest
<1>. QED  BY <1>1, <1>3, <1>4, <1>5 DEF Observed, d

(* So a buffered event never arrives before those buffered ahead of it. *)
LEMMA BufferedArrivesKept ==
  ASSUME Structure, NoEventDisappears, OneProcess, Observed, Logged, BufferedArrives, Untroubled,
         Network => faults' = faults,
         NothingArrives \/ (Network /\ \E e \in Event : Arrives(e)),
         Passes \/ Takes \/ Publishes \/ Stores \/ Buffers \/ Replays
  PROVE  BufferedArrives'
<1>0. log \in Seq(Record) /\ Places("buffered") \subseteq DOMAIN log
  BY DEF Logged, Places
<1>. DEFINE InOrder == \A a, b \in Places("buffered") :
                         a < b => Follows(arrivals, log[a].event, log[b].event)
<1>1. ASSUME NothingArrives, droppedCount' = 0 => droppedCount = 0,
             \A i \in DOMAIN log : log'[i] = log[i], Places("buffered")' = Places("buffered"),
             pc' \in Refused => accepted' \notin Arrived
      PROVE  BufferedArrives'
  <2>1. arrivals' = arrivals /\ Arrived' = Arrived
    BY <1>1 DEF NothingArrives, Arrived
  <2>2. droppedCount' = 0 => InOrder'
    BY <1>0, <1>1, <2>1 DEF BufferedArrives
  <2>. QED  BY <1>1, <2>1, <2>2 DEF BufferedArrives
<1>2. CASE Passes /\ NothingArrives
  BY <1>1, <1>2 DEF Passes, SameRecords, BufferedArrives
<1>3. CASE Passes /\ ~NothingArrives
  <2>1. PICK e \in Event : Arrives(e)
    BY <1>3
  <2>2. pc \in {"rowAwait", "liveAwait"} /\ pc' = pc /\ e = sending
    BY <1>3, <2>1, QuietArrival
  <2>3. PICK q \in DOMAIN arrivals' :
          /\ DOMAIN arrivals' = DOMAIN arrivals \cup {q}
          /\ arrivals'[q] = e
          /\ \A p \in DOMAIN arrivals : p < q
    BY <2>1, ArrivalAdds DEF Observed
  <2>4. \A p \in DOMAIN arrivals : p \in DOMAIN arrivals' /\ arrivals'[p] = arrivals[p]
    BY <2>1, ArrivalAdds DEF Observed
  <2>5. /\ \A i \in DOMAIN log : log'[i] = log[i]
        /\ Places("buffered")' = Places("buffered")
        /\ droppedCount' = droppedCount
    BY <1>3 DEF Passes, SameRecords
  <2>6. ASSUME droppedCount = 0, NEW a \in Places("buffered"), NEW b \in Places("buffered"), a < b
        PROVE  Follows(arrivals', log[a].event, log[b].event)
    <3>1. Follows(arrivals, log[a].event, log[b].event)
      BY <2>6 DEF BufferedArrives
    <3>2. CASE log[b].event = e
      <4>1. log[a].event \in Arrived
        BY <2>2, <2>6, <3>2, EarlierArrived
      <4>2. PICK p \in DOMAIN arrivals : arrivals[p] = log[a].event
        BY <4>1 DEF Arrived
      <4>3. p \in DOMAIN arrivals' /\ arrivals'[p] = log[a].event /\ p < q
        BY <2>3, <2>4, <4>2
      <4>. QED  BY <2>3, <2>4, <3>1, <4>3 DEF Follows
    <3>3. CASE log[b].event # e
      BY <2>3, <2>4, <3>1, <3>3 DEF Follows
    <3>. QED  BY <3>2, <3>3
  <2>7. droppedCount' = 0 => InOrder'
    BY <1>0, <2>5, <2>6
  <2>8. pc' \notin Refused
    BY <2>2 DEF Refused
  <2>. QED  BY <2>7, <2>8 DEF BufferedArrives
<1>4. CASE Takes
  <2>1. \A x \in Arrived : x <= accepted
    BY DEF Observed
  <2>2. ~(accepted + 1 <= accepted)
    BY EventsAssumption DEF Structure, TypeOK, ThreadTypeOK
  <2>. QED  BY <1>1, <1>4, <2>1, <2>2 DEF Takes, SameRecords
<1>5. CASE Publishes
  <2>1. /\ \A i \in DOMAIN log : log'[i] = log[i]
        /\ Places("buffered")' = Places("buffered")
    BY <1>0, <1>5, PublishedPlace DEF Publishes
  <2>. QED  BY <1>1, <1>5, <2>1 DEF Publishes, LogsPublished, Refused
<1>6. CASE Stores
  <2>1. droppedCount' = 0 => droppedCount = 0
    <3>1. droppedCount' = droppedCount + Cardinality(Displaced) /\ Cardinality(Displaced) \in Nat
      BY <1>6, EnqueueEffect DEF Stores
    <3>2. droppedCount \in Nat
      BY DEF Structure, TypeOK, CountersTypeOK
    <3>. QED  BY <3>1, <3>2
  <2>2. accepted' = accepted /\ pc \in Refused
    BY <1>6 DEF Stores, EnqueueEvent, Refused
  <2>. QED  BY <1>1, <1>6, <2>1, <2>2 DEF Stores, SameRecords, BufferedArrives
<1>7. CASE Buffers
  <2>1. accepted \in Event /\ accepted \notin Arrived
    BY <1>7 DEF Buffers, Logged, Unlogged, BufferedArrives, Refused
  <2>2. PICK n \in Int :
          /\ \A i \in DOMAIN log : i \in Int /\ i < n /\ log'[i] = log[i]
          /\ log'[n].event = accepted
          /\ Places("buffered")' = Places("buffered") \cup {n}
    BY <1>0, <1>7, <2>1, BufferedPlace DEF Buffers
  <2>3. arrivals' = arrivals /\ pc' \notin Refused /\ droppedCount' = droppedCount
    BY <1>7 DEF Buffers, LogsBuffered, NothingArrives, Refused
  <2>4. \A d : Follows(arrivals, d, accepted)
    BY <2>1 DEF Follows, Arrived
  <2>5. ASSUME droppedCount = 0, NEW a \in Places("buffered")', NEW b \in Places("buffered")', a < b
        PROVE  Follows(arrivals, log'[a].event, log'[b].event)
    <3>1. CASE b = n
      BY <2>2, <2>4, <3>1
    <3>2. CASE b \in Places("buffered")
      <4>1. a \in Places("buffered")
        <5>1. ~(n < b)
          BY <1>0, <2>2, <3>2
        <5>. QED  BY <2>2, <2>5, <5>1
      <4>. QED  BY <1>0, <2>2, <2>5, <3>2, <4>1 DEF BufferedArrives
    <3>. QED  BY <2>2, <3>1, <3>2
  <2>6. droppedCount' = 0 => InOrder'
    BY <2>3, <2>5
  <2>. QED  BY <2>3, <2>6 DEF BufferedArrives
<1>8. CASE Replays
  <2>1. /\ \A i \in DOMAIN log : log'[i] = log[i]
        /\ Places("buffered")' = Places("buffered")
    BY <1>0, <1>8, ReplayedPlaces DEF Replays
  <2>. QED  BY <1>1, <1>8, <2>1 DEF Replays, LogsReplayed, RemoveConfirmed, Goto, Refused
<1>. QED  BY <1>2, <1>3, <1>4, <1>5, <1>6, <1>7, <1>8

-----------------------------------------------------------------------------
(* What the stages have seen.                                              *)

(* Steps that go on with a stage keep what the earlier ones have seen. *)
LEMMA StagesSeenStay ==
  ASSUME Structure, Logged, StagesSeen, UNCHANGED <<stage, owed, mark>>,
         Passes \/ Takes \/ Publishes \/ Stores \/ Buffers \/ Replays
  PROVE  StagesSeen'
<1>0. log \in Seq(Record)
  BY DEF Logged
<1>6. \A m \in Nat : m + 1 .. m + 0 = {}
  OBVIOUS
<1>. USE DEF StagesSeen
<1>1. CASE Passes \/ Takes
  BY <1>1 DEF Passes, Takes, SameRecords
<1>2. CASE Publishes
  BY <1>0, <1>2, PublishedPlace DEF Publishes
<1>3. CASE Stores
  BY <1>3 DEF Stores, SameRecords
<1>4. CASE Buffers
  <2>1. accepted \in Event
    BY <1>4 DEF Buffers, Logged, Unlogged
  <2>2. \E n \in Int : Places("buffered")' = Places("buffered") \cup {n}
    BY <1>0, <1>4, <2>1, BufferedPlace DEF Buffers
  <2>3. stage' \in {"outage injection", "buffering", "recovery"}
    BY <1>4 DEF Buffers
  <2>4. Places("buffered")' # {}
    BY <2>2
  <2>. QED  BY <2>3, <2>4
<1>5. CASE Replays
  <2>1. /\ Places("published")' = Places("published")
        /\ Places("buffered")' = Places("buffered")
        /\ droppedCount' = droppedCount /\ DOMAIN table' \subseteq DOMAIN table
    BY <1>0, <1>5, ReplayedPlaces, RemoveEffect DEF Replays, RemoveConfirmed
  <2>2. ASSUME DOMAIN table = {}
        PROVE  Places("replayed")' = Places("replayed")
    <3>1. confirmed = {}
      BY <2>2, ConfirmedRows
    <3>2. Cardinality(confirmed) = 0
      BY <3>1, FS_EmptySet
    <3>3. PICK m \in Nat : Places("replayed")' = Places("replayed") \cup (m + 1 .. m + 0)
      BY <1>0, <1>5, <3>2, ReplayAdds DEF Replays
    <3>. QED  BY <1>6, <3>3
  <2>. QED  BY <2>1, <2>2
<1>. QED  BY <1>1, <1>2, <1>3, <1>4, <1>5

(* When the replay stage has seen as many events replayed as were          *)
(* buffered, no row is left and none was dropped: the counters add up.     *)
LEMMA AllReplayed ==
  ASSUME Structure, Logged, OneProcess, CountersAddUp, Counted, pc # "record",
         Cardinality(Places("replayed")) >= Cardinality(Places("buffered"))
  PROVE  /\ DOMAIN table = {} /\ droppedCount = 0
         /\ Cardinality(Places("replayed")) = Cardinality(Places("buffered"))
<1>1. PICK rows \in Nat, confirms \in Nat, reps \in Nat, bufs \in Nat, dropped \in Nat :
        /\ rows = Cardinality(DOMAIN table) /\ confirms = Cardinality(confirmed)
        /\ reps = Cardinality(Places("replayed")) /\ bufs = Cardinality(Places("buffered"))
        /\ dropped = droppedCount
  BY TableReady, ConfirmedRows, PlacesTyped DEF Logged, Structure, TypeOK, CountersTypeOK
<1>2. rows + dropped + (reps + confirms) = 0 + bufs + 0 + confirms
  BY <1>1 DEF CountersAddUp, Counted, OneProcess, Count
<1>3. reps >= bufs
  BY <1>1
<1>4. rows = 0 /\ dropped = 0 /\ reps = bufs
  BY <1>2, <1>3
<1>. QED  BY <1>1, <1>4, TableReady, FS_EmptySet

(* Each stage finds what it waited for, and hands it on to the next one.   *)
LEMMA StagesSeenKept ==
  ASSUME Structure, Logged, OneProcess, CountersAddUp, Counted, InPhase, StagesSeen,
         InjectOutage \/ SeeOutage \/ ClearOutage \/ SeeReconnect \/ SeeReplay \/ StopThreads,
         Passes
  PROVE  StagesSeen'
<1>0. log \in Seq(Record)
  BY DEF Logged
<1>1. /\ Places("buffered")' = Places("buffered")
      /\ Places("published")' = Places("published")
      /\ Places("replayed")' = Places("replayed")
      /\ table' = table /\ droppedCount' = droppedCount
  BY DEF Passes, SameRecords
<1>8. \A n \in Nat : \A r \in 1 .. n : r <= n
  OBVIOUS
<1>. USE DEF Proceed, Reached
<1>2. CASE InjectOutage
  BY <1>2 DEF InjectOutage, StagesSeen
<1>3. CASE SeeOutage
  <2>1. stage' = "buffering" /\ metrics.buffered >= 1
    BY <1>3 DEF SeeOutage
  <2>2. Places("buffered") # {}
    <3>1. Cardinality(Places("buffered")) >= 1
      BY <2>1 DEF Counted
    <3>2. ~(0 >= 1)
      OBVIOUS
    <3>. QED  BY <3>1, <3>2, FS_EmptySet
  <2>. QED  BY <1>1, <2>1, <2>2 DEF StagesSeen
<1>4. CASE ClearOutage
  BY <1>1, <1>4 DEF ClearOutage, StagesSeen
<1>5. CASE SeeReconnect
  <2>1. stage = "recovery" /\ stage' = "replay" /\ owed' = EventsOf("buffered")
    BY <1>5 DEF SeeReconnect
  <2>2. Len(owed') = Cardinality(Places("buffered"))
    <3>1. Cardinality(Places("buffered")) \in Nat
      BY <1>0, PlacesTyped
    <3>. QED  BY <2>1, <3>1 DEF EventsOf
  <2>. QED  BY <1>1, <2>1, <2>2 DEF StagesSeen
<1>6. CASE SeeReplay
  <2>1. /\ stage = "replay" /\ stage' = "return to normal" /\ mark' = Len(log)
        /\ Cardinality(Places("replayed")) >= Len(owed)
    BY <1>6 DEF SeeReplay
  <2>2. pc # "record"
    BY <2>1 DEF InPhase, BeforeOutage, DuringOutage, Draining, DrainPoints, Drained, LivePoints
  <2>3. /\ DOMAIN table = {} /\ droppedCount = 0
        /\ Cardinality(Places("replayed")) = Cardinality(Places("buffered"))
    BY <2>1, <2>2, AllReplayed DEF StagesSeen
  <2>4. mark' \in Nat /\ \A r \in Places("replayed") : r <= mark'
    <3>1. mark' \in Nat /\ Places("replayed") \in SUBSET (1 .. mark')
      BY <1>0, <2>1, PlacesTyped
    <3>. QED  BY <1>8, <3>1
  <2>. QED  BY <1>1, <2>1, <2>3, <2>4 DEF StagesSeen
<1>7. CASE StopThreads
  <2>1. /\ stage = "return to normal" /\ stage' = "verification" /\ mark' = mark
        /\ Cardinality(LiveSinceMark) >= RecoveryEvents
    BY <1>7 DEF StopThreads
  <2>2. \E p \in Places("published") : mark < p
    <3>1. LiveSinceMark # {}
      <4>1. ~(0 >= RecoveryEvents)
        BY ScenarioAssumption
      <4>. QED  BY <2>1, <4>1, FS_EmptySet
    <3>. QED  BY <3>1 DEF LiveSinceMark
  <2>. QED  BY <1>1, <2>1, <2>2 DEF StagesSeen
<1>. QED  BY <1>2, <1>3, <1>4, <1>5, <1>6, <1>7

-----------------------------------------------------------------------------
(* All of it together.                                                     *)

(* A scenario starts quiet, with nothing logged ... *)
LEMMA QuietAtStart == ScenarioInit => OutageCounted /\ Counted /\ QuietRun /\ Condemned
<1>. SUFFICES ASSUME ScenarioInit PROVE OutageCounted /\ Counted /\ QuietRun /\ Condemned
  OBVIOUS
<1>1. /\ log = <<>> /\ arrivals = <<>> /\ stage = "normal operation" /\ result = "none" /\ pc = "top"
      /\ connected = TRUE /\ linkIntact = FALSE /\ simulatedOutage = FALSE /\ forcedFailures = 0
      /\ linkUp = TRUE /\ dropPending = FALSE /\ stale = {} /\ faults = 0
      /\ replayRequested = FALSE /\ confirmed = {} /\ table = EmptyTable /\ startRows = 0
      /\ metrics = NoMetrics
  BY DEF ScenarioInit, Init, PublisherInit
<1>2. \A kind : Places(kind) = {}
  <2>1. DOMAIN <<>> = {}
    OBVIOUS
  <2>2. DOMAIN log = {}
    BY <1>1, <2>1, Zenon
  <2>. QED  BY <2>2 DEF Places
<1>3. DOMAIN table = {}
  BY <1>1 DEF EmptyTable
<1>4. OutageCounted /\ Condemned
  BY <1>1 DEF OutageCounted, Condemned
<1>5. Counted
  <2>1. Cardinality({}) = 0 /\ 0 = 0 + 0
    BY FS_EmptySet
  <2>2. metrics.processed = 0 /\ metrics.buffered = 0 /\ metrics.replayed = 0
    BY <1>1 DEF NoMetrics
  <2>. QED  BY <1>1, <1>2, <2>1, <2>2, Zenon DEF Counted
<1>6. Untroubled
  BY <1>1 DEF Untroubled
<1>7. InPhase
  BY <1>1, <1>2, <1>3 DEF InPhase, BeforeOutage, LivePoints
<1>8. RowsAreBuffered /\ ReplaysAreOldest /\ ReplaysAscend /\ LiveStaysOut
  BY <1>2, <1>3 DEF RowsAreBuffered, ReplaysAreOldest, ReplaysAscend, LiveStaysOut
<1>9. BufferedArrives /\ StagesSeen
  BY <1>1, <1>2 DEF BufferedArrives, StagesSeen, Refused
<1>. QED  BY <1>4, <1>5, <1>6, <1>7, <1>8, <1>9 DEF QuietRun

(* ... and what is true of a quiet run stays true as long as it is one.    *)
LEMMA QuietRunKept ==
  ASSUME ScenarioInvariant, OutageCounted, Counted, QuietRun, [ScenarioNext]_allVars
  PROVE  QuietRun'
<1>. SUFFICES ASSUME stage' \in Waits, Quiet'
              PROVE  /\ Untroubled' /\ InPhase' /\ RowsAreBuffered' /\ ReplaysAreOldest'
                     /\ ReplaysAscend' /\ LiveStaysOut' /\ BufferedArrives' /\ StagesSeen'
  BY DEF QuietRun
<1>1. /\ Structure /\ NothingEarly /\ NoEventDisappears /\ CountersAddUp /\ OneProcess
      /\ Observed /\ Logged
  BY DEF ScenarioInvariant, GatewayAsSpecified, GatewayInvariant
<1>2. /\ stage \in Waits /\ Quiet
      /\ Gateway \/ Network => faults' = faults
  BY <1>1, QuietBefore
<1>3. /\ Untroubled /\ InPhase /\ RowsAreBuffered /\ ReplaysAreOldest
      /\ ReplaysAscend /\ LiveStaysOut /\ BufferedArrives /\ StagesSeen
  BY <1>2 DEF QuietRun
<1>4. Untroubled' /\ InPhase'
  BY <1>1, <1>2, <1>3, PhaseKept
<1>5. ~Gateway => Passes
  BY <1>1, <1>2, <1>3, QuietRest
<1>6. Passes \/ Takes \/ Publishes \/ Stores \/ Buffers \/ Replays
  BY <1>1, <1>2, <1>3, <1>5, QuietThread
<1>7. RowsAreBuffered' /\ ReplaysAreOldest' /\ ReplaysAscend' /\ LiveStaysOut'
  BY <1>1, <1>3, <1>6, RowsAreBufferedKept, ReplaysAreOldestKept, ReplaysAscendKept, LiveStaysOutKept
<1>8. BufferedArrives'
  <2>1. NothingArrives \/ (Network /\ \E e \in Event : Arrives(e))
    BY <1>1, ArrivalsChange
  <2>. QED  BY <1>1, <1>2, <1>3, <1>6, <2>1, BufferedArrivesKept
<1>9. StagesSeen'
  <2>1. CASE Gateway \/ Network \/ UNCHANGED allVars
    <3>1. UNCHANGED <<stage, owed, mark>>
      BY <2>1 DEF Gateway, Network, allVars, scenarioVars
    <3>. QED  BY <1>1, <1>3, <1>6, <3>1, StagesSeenStay
  <2>2. CASE InjectOutage \/ SeeOutage \/ ClearOutage \/ SeeReconnect \/ SeeReplay \/ StopThreads
    <3>1. ~Gateway
      <4>1. stage' # stage
        BY <2>2 DEF InjectOutage, SeeOutage, ClearOutage, SeeReconnect, SeeReplay, StopThreads, Proceed
      <4>. QED  BY <4>1 DEF Gateway
    <3>. QED  BY <1>1, <1>3, <1>5, <2>2, <3>1, StagesSeenKept
  <2>. QED  BY <2>1, <2>2, StageSteps
<1>. QED  BY <1>4, <1>7, <1>8, <1>9

-----------------------------------------------------------------------------
(* What _verify() then finds.                                              *)

(* A map between sets of numbers that ascends, and leaves none out, takes  *)
(* the n-th number to the n-th.                                            *)
LEMMA SameOrder ==
  ASSUME NEW from \in SUBSET Nat, IsFiniteSet(from), NEW to \in SUBSET Nat, IsFiniteSet(to),
         Cardinality(from) = Cardinality(to),
         NEW map \in [from -> to], \A i, k \in from : i < k => map[i] < map[k]
  PROVE  \A n \in 1 .. Cardinality(from) : NthOf(to, n) = map[NthOf(from, n)]
<1>1. \A i, k \in from : i \in Nat /\ k \in Nat /\ map[i] \in Nat /\ map[k] \in Nat
  OBVIOUS
<1>2. ASSUME NEW i \in from, NEW k \in from
      PROVE  /\ i <= k <=> map[i] <= map[k]
             /\ map[i] = map[k] => i = k
  <2>1. i < k \/ i = k \/ k < i
    BY <1>1
  <2>. QED  BY <1>1, <2>1
<1>3. map \in Surjection(from, to)
  <2>1. map \in Injection(from, to)
    BY <1>2 DEF Injection, IsInjective
  <2>. QED  BY <2>1, FS_Injection
<1>4. ASSUME NEW i \in from
      PROVE  Rank(to, map[i]) = Rank(from, i)
  <2>. DEFINE fromBelow == {j \in from : j <= i}
              toBelow == {j \in to : j <= map[i]}
              part == [j \in fromBelow |-> map[j]]
  <2>1. IsFiniteSet(fromBelow)
    BY FS_Subset
  <2>2. part \in [fromBelow -> toBelow]
    BY <1>2
  <2>3. \A j, k \in fromBelow : part[j] = part[k] => j = k
    BY <1>2
  <2>4. \A t \in toBelow : \E j \in fromBelow : part[j] = t
    <3>1. ASSUME NEW t \in toBelow
          PROVE  \E j \in fromBelow : part[j] = t
      <4>1. PICK j \in from : map[j] = t
        BY <1>3 DEF Surjection
      <4>. QED  BY <1>2, <4>1
    <3>. QED  BY <3>1
  <2>. HIDE DEF part, fromBelow, toBelow
  <2>5. part \in Surjection(fromBelow, toBelow) /\ part \in Injection(fromBelow, toBelow)
    BY <2>2, <2>3, <2>4 DEF Injection, Surjection, IsInjective
  <2>6. Cardinality(toBelow) = Cardinality(fromBelow)
    BY <2>1, <2>5, FS_Surjection
  <2>. QED  BY <2>6 DEF Rank, fromBelow, toBelow
<1>5. ASSUME NEW n \in 1 .. Cardinality(from)
      PROVE  NthOf(to, n) = map[NthOf(from, n)]
  <2>1. PICK i \in from : Rank(from, i) = n
    BY RanksAreTaken
  <2>2. NthOf(from, n) = i
    BY <2>1, NthOfProperties
  <2>3. NthOf(to, Rank(to, map[i])) = map[i]
    BY NthOfProperties
  <2>. QED  BY <1>4, <2>1, <2>2, <2>3
<1>. QED  BY <1>5

(* In a quiet run as many events are replayed as were buffered, in order:  *)
(* they are the same.                                                      *)
LEMMA SameEvents ==
  ASSUME Logged, ReplaysAreOldest, ReplaysAscend,
         Cardinality(Places("replayed")) = Cardinality(Places("buffered"))
  PROVE  /\ EventsOf("replayed") = EventsOf("buffered")
         /\ \A b \in Places("buffered") : log[b].event \in Arrived
<1>. DEFINE rep == Places("replayed")
            buf == Places("buffered")
            twin == [r \in rep |-> CHOOSE b \in buf : log[b].event = log[r].event]
<1>1. /\ rep \in SUBSET Nat /\ IsFiniteSet(rep) /\ Cardinality(rep) \in Nat
      /\ buf \in SUBSET Nat /\ IsFiniteSet(buf)
  BY PlacesTyped DEF Logged
<1>2. Cardinality(rep) = Cardinality(buf)
  OBVIOUS
<1>3. twin \in [rep -> buf] /\ \A r \in rep : log[twin[r]].event = log[r].event
  BY DEF ReplaysAreOldest
<1>4. \A a, b \in buf : a < b => log[a].event < log[b].event
  BY DEF Logged, LoggedInOrder, Firsthand
<1>5. \A r, s \in rep : r < s => log[r].event < log[s].event
  BY DEF ReplaysAscend
<1>6. \A b \in buf : log[b].event \in Int
  BY DEF Logged, LoggedInOrder, Firsthand
<1>7. \A r \in rep : log[r].event \in Arrived
  BY DEF Logged, Acknowledged
<1>8. /\ DOMAIN EventsOf("replayed") = 1 .. Cardinality(rep)
      /\ EventsOf("replayed") = [n \in 1 .. Cardinality(rep) |-> log[NthOf(rep, n)].event]
      /\ EventsOf("buffered") = [n \in 1 .. Cardinality(buf) |-> log[NthOf(buf, n)].event]
  BY DEF EventsOf
<1>. HIDE DEF rep, buf, twin
<1>9. ASSUME NEW r \in rep, NEW s \in rep, r < s
      PROVE  twin[r] < twin[s]
  <2>1. twin[r] \in buf /\ twin[s] \in buf /\ log[twin[r]].event < log[twin[s]].event
    BY <1>3, <1>5, <1>9
  <2>2. twin[r] # twin[s] /\ ~(twin[s] < twin[r])
    BY <1>4, <1>6, <2>1
  <2>3. twin[r] \in Nat /\ twin[s] \in Nat
    BY <1>1, <2>1
  <2>. QED  BY <2>2, <2>3
<1>10. \A n \in 1 .. Cardinality(rep) : NthOf(buf, n) = twin[NthOf(rep, n)]
  BY <1>1, <1>2, <1>3, <1>9, SameOrder
<1>11. \A n \in 1 .. Cardinality(rep) : NthOf(rep, n) \in rep
  BY <1>1, NthOfProperties
<1>12. \A n \in 1 .. Cardinality(rep) : log[NthOf(buf, n)].event = log[NthOf(rep, n)].event
  BY <1>3, <1>10, <1>11
<1>13. EventsOf("replayed") = EventsOf("buffered")
  BY <1>2, <1>8, <1>12
<1>14. ASSUME NEW b \in buf
       PROVE  log[b].event \in Arrived
  <2>1. PICK n \in 1 .. Cardinality(rep) : n = Rank(buf, b)
    BY <1>1, <1>2, RankProperties
  <2>2. NthOf(buf, n) = b
    BY <1>1, <2>1, NthOfProperties
  <2>. QED  BY <1>7, <1>11, <1>12, <2>2
<1>. QED  BY <1>13, <1>14 DEF buf

(* Their first arrivals are in that order too.                             *)
LEMMA BufferedInOrder ==
  ASSUME Observed, Logged, BufferedArrives, droppedCount = 0,
         \A b \in Places("buffered") : log[b].event \in Arrived
  PROVE  IsSubsequencePerTopic(EventsOf("buffered"), arrivals)
<1>. DEFINE buf == Places("buffered")
            needles == EventsOf("buffered")
            place == [n \in DOMAIN needles |-> First(Arrivals(needles[n]))]
<1>1. /\ DOMAIN needles = 1 .. Cardinality(buf)
      /\ \A n \in 1 .. Cardinality(buf) : needles[n] = log[NthOf(buf, n)].event
      /\ Cardinality(buf) \in Nat
  BY PlacesTyped DEF EventsOf, Logged
<1>2. /\ \A n \in 1 .. Cardinality(buf) : NthOf(buf, n) \in buf
      /\ \A i, k \in 1 .. Cardinality(buf) : i < k => NthOf(buf, i) < NthOf(buf, k)
  BY PlacesTyped, NthOfProperties, NthOfAscends DEF Logged
<1>3. Len(arrivals) \in Nat /\ DOMAIN arrivals = 1 .. Len(arrivals)
  BY LenProperties DEF Observed
<1>4. \A e \in Arrived : /\ First(Arrivals(e)) \in Arrivals(e)
                         /\ \A i \in Arrivals(e) : First(Arrivals(e)) <= i
  <2>1. ASSUME NEW e \in Arrived
        PROVE  Arrivals(e) \in SUBSET (1 .. Len(arrivals)) /\ Arrivals(e) # {}
    BY <1>3 DEF Arrived, Arrivals
  <2>. QED  BY <1>3, <2>1, FirstAndLast
<1>5. \A a, b \in buf : a < b => Follows(arrivals, log[a].event, log[b].event)
  BY DEF BufferedArrives
<1>6. \A n \in DOMAIN needles : needles[n] \in Arrived
  BY <1>1, <1>2
<1>7. /\ place \in [DOMAIN needles -> DOMAIN arrivals]
      /\ \A n \in DOMAIN needles : arrivals[place[n]] = needles[n]
  BY <1>4, <1>6 DEF Arrivals
<1>8. \A n \in DOMAIN needles : place[n] = First(Arrivals(needles[n]))
  OBVIOUS
<1>. HIDE DEF place, needles, buf
<1>9. ASSUME NEW i \in DOMAIN needles, NEW j \in DOMAIN needles, i < j
      PROVE  place[i] < place[j]
  <2>1. Follows(arrivals, needles[i], needles[j])
    BY <1>1, <1>2, <1>5, <1>9
  <2>2. PICK p \in DOMAIN arrivals : p < place[j] /\ arrivals[p] = needles[i]
    BY <1>7, <2>1 DEF Follows
  <2>3. place[i] <= p
    BY <1>4, <1>6, <1>8, <2>2 DEF Arrivals
  <2>4. place[i] \in Int /\ place[j] \in Int /\ p \in Int
    BY <1>3, <1>7
  <2>. QED  BY <2>2, <2>3, <2>4
<1>10. IsSubsequencePerTopic(needles, arrivals)
  BY <1>7, <1>9 DEF IsSubsequencePerTopic
<1>. QED  BY <1>10 DEF needles

(* All checks of _verify() hold of a quiet run that came so far, unless a  *)
(* frame was rejected.                                                     *)
LEMMA QuietIsVerified ==
  ASSUME ScenarioInvariant, Counted, QuietRun, Quiet, stage = "verification", ThreadEnded,
         ~(metrics.rejected > 0)
  PROVE  Verified
<1>1. /\ Structure /\ CountersAddUp /\ OneProcess /\ Observed /\ Logged /\ log \in Seq(Record)
      /\ Untroubled /\ InPhase /\ ReplaysAreOldest /\ ReplaysAscend /\ LiveStaysOut
      /\ BufferedArrives /\ StagesSeen
  BY DEF ScenarioInvariant, GatewayAsSpecified, GatewayInvariant, Logged, QuietRun, Waits
<1>2. /\ DOMAIN table = {} /\ droppedCount = 0
      /\ Cardinality(Places("replayed")) = Cardinality(Places("buffered"))
      /\ mark \in Nat /\ \A r \in Places("replayed") : r <= mark
      /\ Places("buffered") # {}
      /\ \E p \in Places("published") : mark < p
  BY <1>1 DEF StagesSeen
<1>3. Fifo
  BY <1>1, <1>2, SameEvents, BufferedInOrder DEF Fifo
<1>4. Places("replayed") # {}
  BY <1>1, <1>2, PlacesTyped, FS_EmptySet
<1>5. /\ Len(log) \in Nat
      /\ Places("buffered") \in SUBSET (1 .. Len(log))
      /\ Places("replayed") \in SUBSET (1 .. Len(log))
      /\ Places("published") \in SUBSET (1 .. Len(log))
  BY <1>1, PlacesTyped
<1>6. /\ First(Places("buffered")) \in Places("buffered")
      /\ Last(Places("replayed")) \in Places("replayed")
  BY <1>2, <1>4, <1>5, FirstAndLast
<1>7. NothingOvertook
  <2>1. ASSUME NEW p \in Places("published")
        PROVE  ~(First(Places("buffered")) < p /\ p < Last(Places("replayed")))
    <3>1. p < First(Places("buffered")) \/ Last(Places("replayed")) < p
      BY <1>1, <1>6 DEF LiveStaysOut
    <3>2. p \in Int /\ First(Places("buffered")) \in Int /\ Last(Places("replayed")) \in Int
      BY <1>5, <1>6
    <3>. QED  BY <3>1, <3>2
  <2>. QED  BY <2>1 DEF NothingOvertook
<1>8. \A i \in Places("published") \cup Places("replayed") : log[i].event \in Arrived
  BY <1>1 DEF Logged, Acknowledged
<1>9. \E p \in Places("published") : Last(Places("replayed")) < p
  <2>1. PICK p \in Places("published") : mark < p
    BY <1>2
  <2>2. Last(Places("replayed")) <= mark
    BY <1>2, <1>6
  <2>3. mark \in Int
    BY <1>2
  <2>4. p \in Int /\ Last(Places("replayed")) \in Int
    BY <1>5, <1>6
  <2>. QED  BY <2>1, <2>2, <2>3, <2>4
<1>10. MetricsAgree
  <2>1. pc = "top"
    BY DEF ThreadEnded
  <2>2. metrics.publish_failures = metrics.buffered + 0 /\ metrics.publish_failures \in Nat
        /\ metrics.buffered \in Nat /\ metrics.rejected \in Nat /\ metrics.replayed \in Nat
    BY <1>1, <2>1 DEF CountersAddUp, Count, Structure, TypeOK, CountersTypeOK
  <2>3. Cardinality(confirmed) = 0
    <3>1. confirmed = {}
      BY <1>1, <1>2, ConfirmedRows
    <3>. QED  BY <3>1, FS_EmptySet
  <2>4. metrics.replayed = Cardinality(Places("replayed"))
    BY <1>1, <2>3, PlacesTyped DEF Counted
  <2>5. metrics.publish_failures = metrics.buffered /\ metrics.rejected = 0
    BY <2>2
  <2>. QED  BY <1>2, <2>4, <2>5 DEF MetricsAgree, Counted
<1>. QED  BY <1>2, <1>3, <1>7, <1>8, <1>9, <1>10 DEF Verified

(* So a run is failed for a reason, and nothing happens after that. *)
LEMMA CondemnedKept ==
  ASSUME ScenarioInvariant, OutageCounted, Counted, QuietRun, Condemned, [ScenarioNext]_allVars
  PROVE  Condemned'
<1>1. /\ stage \in Waits => result # "verification"
      /\ "cleanup" \notin Waits /\ "verification" \in Waits
  BY DEF ScenarioInvariant, Judged, Waits
<1>2. CASE UNCHANGED allVars
  BY <1>2 DEF allVars, scenarioVars, vars, publisherVars, gatewayVars, ThreadEnded, QuietRunPasses, Condemned
<1>3. CASE Gateway \/ Network
  BY <1>1, <1>3 DEF Gateway, Network, Condemned
<1>4. CASE InjectOutage \/ SeeOutage \/ ClearOutage \/ SeeReconnect \/ SeeReplay \/ StopThreads
  BY <1>1, <1>4 DEF InjectOutage, SeeOutage, ClearOutage, SeeReconnect, SeeReplay, StopThreads, Proceed,
     Waits, Condemned
<1>5. CASE Fail
  <2>1. stage' = "cleanup" /\ result' = stage /\ ~Reached /\ stop' = TRUE /\ pc' = pc
    BY <1>5 DEF Fail, gatewayVars
  <2>2. stage = "verification" => ~ThreadEnded'
    BY <2>1 DEF Reached, ThreadEnded, Condemned
  <2>. QED  BY <2>1, <2>2 DEF QuietRunPasses, Condemned
<1>6. CASE Verify
  <2>1. /\ stage = "verification" /\ ThreadEnded /\ stage' = "cleanup"
        /\ result' = IF Verified THEN "passed" ELSE "verification"
    BY <1>6 DEF Verify, Reached
  <2>2. UNCHANGED <<faults, metrics, pc, stop>>
    BY <1>6 DEF Verify, vars, publisherVars, gatewayVars
  <2>3. ASSUME ~Verified
        PROVE  faults > 1 \/ metrics.rejected > 0
    <3>1. Quiet \/ faults > 1
      <4>1. faults \in Nat
        BY FaultsCounted DEF ScenarioInvariant, GatewayAsSpecified, GatewayInvariant
      <4>2. faults >= 1
        BY <1>1, <2>1 DEF OutageCounted
      <4>3. faults = 1 \/ faults > 1
        BY <4>1, <4>2
      <4>. QED  BY <2>1, <4>3 DEF Quiet
    <3>. QED  BY <2>1, <2>3, <3>1, QuietIsVerified
  <2>. QED  BY <2>1, <2>2, <2>3 DEF QuietRunPasses, Condemned
<1>. QED  BY <1>2, <1>3, <1>4, <1>5, <1>6 DEF ScenarioNext, Scenario

(* The inductive invariant of the scenario's quiet runs.                   *)
QuietInvariant == ScenarioInvariant /\ OutageCounted /\ Counted /\ QuietRun /\ Condemned

(* Every step keeps it. *)
LEMMA QuietInvariantKept ==
  ASSUME QuietInvariant, [ScenarioNext]_allVars
  PROVE  QuietInvariant'
<1>1. /\ ScenarioInvariant /\ OutageCounted /\ Counted /\ QuietRun /\ Condemned
      /\ Structure /\ Logged
  BY DEF QuietInvariant, ScenarioInvariant, GatewayAsSpecified, GatewayInvariant
<1>2. ScenarioInvariant'
  BY <1>1, ScenarioInvariantKept
<1>3. OutageCounted'
  BY <1>1, OutageCountedKept
<1>4. Counted'
  BY <1>1, CountedKept
<1>5. QuietRun'
  BY <1>1, QuietRunKept
<1>6. Condemned'
  BY <1>1, CondemnedKept
<1>. QED  BY <1>2, <1>3, <1>4, <1>5, <1>6 DEF QuietInvariant

(* A run in which nothing goes wrong but the outage the scenario injects   *)
(* is not failed by _verify(), whenever the outage hits the thread and     *)
(* whenever it is found to be over, for any number of events, topics, rows *)
(* and batches: once the stages are through, every one of its checks       *)
(* holds.                                                                  *)
THEOREM QuietRunsAlwaysPass == ScenarioSpec => []QuietRunPasses
<1>1. ScenarioInit => QuietInvariant
  BY ScenarioInvariantAtStart, QuietAtStart DEF QuietInvariant
<1>2. QuietInvariant => QuietRunPasses
  BY DEF QuietInvariant, Condemned, QuietRunPasses
<1>. QED
  BY <1>1, <1>2, QuietInvariantKept, PTL DEF ScenarioSpec

=============================================================================
