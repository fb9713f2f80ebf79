-------------------------- MODULE EdgeGatewayProofs --------------------------
(***************************************************************************)
(* The safety properties of the edge gateway hold for every table size,    *)
(* batch size and bound, and it implements TelemetryDelivery.              *)
(*                                                                         *)
(* Facts about its two parts come first: what the queries of               *)
(* TelemetryBuffer return, for tables of any size, and what every step of  *)
(* the publisher, its client and the broker preserves, whoever takes it.   *)
(* Then the structure every state has, which the proofs of all properties  *)
(* rest on.  One section per property gives what has to be added to the    *)
(* structure and why each step keeps it; the last two put them together    *)
(* into the inductive invariant and prove the refinement.                  *)
(***************************************************************************)
EXTENDS EdgeGatewayProperties, FiniteSetTheorems, WellFoundedInduction, TLAPS

-----------------------------------------------------------------------------
(* The table.                                                              *)

(* A non-empty set of row ids has a least member, whatever its size.       *)
LEMMA LeastExists ==
  ASSUME NEW ids \in SUBSET Nat, ids # {}
  PROVE  \E id \in ids : \A k \in ids : id <= k
<1>1. PICK id \in ids : \A k \in ids : ~ (<<k, id>> \in OpToRel(<, Nat))
  BY NatLessThanWellFounded, WFMin
<1>2. \A k \in ids : ~ (k < id)
  BY <1>1 DEF OpToRel
<1>. QED  BY <1>2

(* The row a replay publishes next is one of those left, and the oldest.   *)
LEMMA FirstOfProperties ==
  ASSUME NEW ids \in SUBSET Nat, ids # {}
  PROVE  FirstOf(ids) \in ids /\ \A k \in ids : FirstOf(ids) <= k
BY LeastExists DEF FirstOf

(* ORDER BY id ASC LIMIT n returns ids of the table ...                    *)
LEMMA OldestSubset ==
  ASSUME NEW ids, NEW n
  PROVE  Oldest(ids, n) \subseteq ids
BY DEF Oldest

(* ... none that skips an older one: with an id come all smaller ids.      *)
LEMMA OldestIsPrefix ==
  ASSUME NEW ids \in SUBSET Nat, IsFiniteSet(ids), NEW n \in Int,
         NEW i \in Oldest(ids, n), NEW k \in ids, k < i
  PROVE  k \in Oldest(ids, n)
<1>. DEFINE Older(id) == {j \in ids : j < id}
<1>0. i \in Nat /\ k \in Nat
  BY DEF Oldest
<1>1. Older(k) \subseteq Older(i) /\ Older(i) \subseteq ids
  <2>1. \A j \in ids : j \in Nat /\ (j < k => j < i)
    BY <1>0
  <2>. QED  BY <2>1
<1>2. IsFiniteSet(Older(i))
  BY <1>1, FS_Subset
<1>3. /\ Cardinality(Older(k)) <= Cardinality(Older(i))
      /\ Cardinality(Older(k)) \in Nat
      /\ Cardinality(Older(i)) \in Nat
  BY <1>1, <1>2, FS_Subset, FS_CardinalityType
<1>4. Cardinality(Older(i)) < n
  BY DEF Oldest
<1>. QED  BY <1>3, <1>4 DEF Oldest

(* LIMIT 0, or an overflow that is not there, selects nothing.             *)
LEMMA OldestOfNone ==
  ASSUME NEW ids, IsFiniteSet(ids), NEW n \in Int, n <= 0
  PROVE  Oldest(ids, n) = {}
<1>1. ASSUME NEW i \in ids
      PROVE  ~ (Cardinality({k \in ids : k < i}) < n)
  <2>1. IsFiniteSet({k \in ids : k < i})
    BY FS_Subset
  <2>. QED  BY <2>1, FS_CardinalityType
<1>. QED  BY <1>1 DEF Oldest

(* A positive LIMIT on a table with rows selects at least the oldest.      *)
LEMMA OldestHasFirst ==
  ASSUME NEW ids \in SUBSET Nat, ids # {}, NEW n \in Int, n >= 1
  PROVE  FirstOf(ids) \in Oldest(ids, n)
<1>1. {k \in ids : k < FirstOf(ids)} = {}
  <2>1. FirstOf(ids) \in Nat /\ \A k \in ids : FirstOf(ids) <= k
    BY FirstOfProperties
  <2>2. \A k \in ids : ~ (k < FirstOf(ids))
    BY <2>1
  <2>. QED  BY <2>2
<1>2. Cardinality({k \in ids : k < FirstOf(ids)}) = 0
  BY <1>1, FS_EmptySet
<1>. QED  BY <1>2, FirstOfProperties DEF Oldest

(* LIMIT 1 selects the oldest row and no other.                            *)
LEMMA OldestOne ==
  ASSUME NEW ids \in SUBSET Nat, IsFiniteSet(ids), ids # {}
  PROVE  Oldest(ids, 1) = {FirstOf(ids)}
<1>. DEFINE f == FirstOf(ids)
<1>1. f \in ids /\ \A k \in ids : f <= k
  BY FirstOfProperties
<1>2. ASSUME NEW i \in Oldest(ids, 1)
      PROVE  i = f
  <2>. DEFINE Older == {k \in ids : k < i}
  <2>1. IsFiniteSet(Older)
    BY FS_Subset
  <2>2. Cardinality(Older) < 1
    BY DEF Oldest
  <2>3. Older = {}
    BY <2>1, <2>2, FS_EmptySet, FS_CardinalityType
  <2>4. i \in ids
    BY DEF Oldest
  <2>5. ~ (f < i)
    BY <1>1, <2>3
  <2>6. f \in Nat /\ i \in Nat /\ f <= i
    BY <1>1, <2>4
  <2>. QED  BY <2>5, <2>6
<1>3. f \in Oldest(ids, 1)
  BY OldestHasFirst
<1>. QED  BY <1>2, <1>3

-----------------------------------------------------------------------------

(* Deleting rows deletes those rows and touches no other.                  *)
LEMMA RemoveProperties ==
  ASSUME NEW stored, NEW ids
  PROVE  /\ DOMAIN Remove(stored, ids) = DOMAIN stored \ ids
         /\ \A i \in DOMAIN stored \ ids : Remove(stored, ids)[i] = stored[i]
BY DEF Remove, Restrict

(* What is left of a table of events is a table of events. *)
LEMMA RemoveTyped ==
  ASSUME NEW stored, NEW ids, NEW Events, stored \in [DOMAIN stored -> Events]
  PROVE  Remove(stored, ids) \in [DOMAIN Remove(stored, ids) -> Events]
BY DEF Remove, Restrict

(* The precondition of every enqueue(): the ids in the table are positive  *)
(* and below the next one, and the last enqueue() left at most MaxSize.    *)
StoredBelow(stored, id) ==
  /\ DOMAIN stored \subseteq 1 .. id - 1
  /\ Cardinality(DOMAIN stored) <= MaxSize

(* enqueue() into a table with room deletes nothing; into a full one it    *)
(* deletes the oldest row and nothing else, never the row it inserted.     *)
LEMMA OverflowingProperties ==
  ASSUME NEW stored, NEW id \in Nat \ {0}, NEW event, StoredBelow(stored, id)
  PROVE  LET grown == Insert(stored, id, event)
             out == Overflowing(grown)
         IN /\ IsFiniteSet(DOMAIN stored)
            /\ Cardinality(DOMAIN stored) \in Nat
            /\ Cardinality(DOMAIN grown) = Cardinality(DOMAIN stored) + 1
            /\ Cardinality(DOMAIN stored) < MaxSize => out = {}
            /\ Cardinality(DOMAIN stored) = MaxSize =>
                 /\ DOMAIN stored # {}
                 /\ out = {FirstOf(DOMAIN stored)}
<1>. DEFINE ids == DOMAIN stored
            grown == Insert(stored, id, event)
<1>. USE MaxSizeAssumption
<1>1. ids \in SUBSET Nat /\ id \notin ids /\ \A k \in ids : k < id
  BY DEF StoredBelow
<1>2. IsFiniteSet(ids)
  <2>1. IsFiniteSet(1 .. id - 1)
    BY FS_Interval
  <2>. QED  BY <2>1, FS_Subset DEF StoredBelow
<1>3. Cardinality(ids) \in Nat /\ Cardinality(ids) <= MaxSize
  BY <1>2, FS_CardinalityType DEF StoredBelow
<1>4. DOMAIN grown = ids \cup {id}
  BY DEF Insert
<1>5. IsFiniteSet(DOMAIN grown) /\ Cardinality(DOMAIN grown) = Cardinality(ids) + 1
  BY <1>1, <1>2, <1>4, FS_AddElement
<1>6. ASSUME Cardinality(ids) < MaxSize
      PROVE  Overflowing(grown) = {}
  <2>1. Cardinality(DOMAIN grown) - MaxSize \in Int /\ Cardinality(DOMAIN grown) - MaxSize <= 0
    BY <1>3, <1>5, <1>6
  <2>. QED  BY <1>5, <2>1, OldestOfNone DEF Overflowing
<1>7. ASSUME Cardinality(ids) = MaxSize
      PROVE  ids # {} /\ Overflowing(grown) = {FirstOf(ids)}
  <2>1. ids # {}
    BY <1>7, FS_EmptySet
  <2>2. Cardinality(DOMAIN grown) - MaxSize = 1
    BY <1>3, <1>5, <1>7
  <2>3. DOMAIN grown \in SUBSET Nat /\ DOMAIN grown # {}
    BY <1>1, <1>4
  <2>4. Overflowing(grown) = {FirstOf(DOMAIN grown)}
    BY <1>5, <2>2, <2>3, OldestOne DEF Overflowing
  <2>5. FirstOf(DOMAIN grown) \in DOMAIN grown /\ \A k \in DOMAIN grown : FirstOf(DOMAIN grown) <= k
    BY <2>3, FirstOfProperties
  <2>6. FirstOf(ids) \in ids /\ \A k \in ids : FirstOf(ids) <= k
    BY <1>1, <2>1, FirstOfProperties
  <2>7. FirstOf(DOMAIN grown) = FirstOf(ids)
    <3>. DEFINE a == FirstOf(DOMAIN grown)  b == FirstOf(ids)
    <3>1. a <= b /\ b \in ids /\ a \in ids \cup {id}
      BY <1>4, <2>5, <2>6
    <3>2. a # id
      BY <1>1, <3>1
    <3>3. b <= a
      BY <2>6, <3>1, <3>2
    <3>. QED  BY <1>1, <3>1, <3>2, <3>3
  <2>. QED  BY <2>1, <2>4, <2>7
<1>. QED  BY <1>2, <1>3, <1>5, <1>6, <1>7

(* What enqueue() leaves: the new row, every old row but at most the       *)
(* oldest, each with the event it had, and no more than MaxSize rows.      *)
LEMMA EnqueueProperties ==
  ASSUME NEW stored, NEW id \in Nat \ {0}, NEW event, StoredBelow(stored, id)
  PROVE  LET new == Enqueue(stored, id, event)
             out == Overflowing(Insert(stored, id, event))
         IN /\ DOMAIN new = (DOMAIN stored \cup {id}) \ out
            /\ id \in DOMAIN new
            /\ new[id] = event
            /\ out \subseteq DOMAIN stored
            /\ \A i \in DOMAIN stored \ out : new[i] = stored[i]
            /\ \A i \in out : Insert(stored, id, event)[i] = stored[i]
            /\ \A i \in out, k \in DOMAIN new : i < k
            /\ IsFiniteSet(out)
            /\ out # {} => /\ out = {FirstOf(DOMAIN stored)}
                           /\ Cardinality(out) = 1
                           /\ Cardinality(DOMAIN stored) = MaxSize
            /\ Cardinality(out) \in Nat
            /\ Cardinality(DOMAIN new) = Cardinality(DOMAIN stored) + 1 - Cardinality(out)
            /\ Cardinality(DOMAIN new) <= MaxSize
<1>. DEFINE ids == DOMAIN stored
            grown == Insert(stored, id, event)
            out == Overflowing(grown)
            new == Enqueue(stored, id, event)
<1>. USE MaxSizeAssumption
<1>1. ids \in SUBSET Nat /\ id \notin ids /\ (\A k \in ids : k < id) /\ Cardinality(ids) <= MaxSize
  BY DEF StoredBelow
<1>2. /\ DOMAIN grown = ids \cup {id}
      /\ grown[id] = event
      /\ \A i \in ids : grown[i] = stored[i]
  BY <1>1 DEF Insert
<1>3. /\ DOMAIN new = DOMAIN grown \ out
      /\ \A i \in DOMAIN grown \ out : new[i] = grown[i]
  <2>1. new = Remove(grown, out)
    BY DEF Enqueue
  <2>. QED  BY <2>1 DEF Remove, Restrict
<1>4. /\ IsFiniteSet(ids)
      /\ Cardinality(ids) \in Nat
      /\ Cardinality(DOMAIN grown) = Cardinality(ids) + 1
      /\ Cardinality(ids) < MaxSize => out = {}
      /\ Cardinality(ids) = MaxSize => ids # {} /\ out = {FirstOf(ids)}
  BY OverflowingProperties
<1>5. Cardinality({}) = 0 /\ IsFiniteSet({}) /\ \A x : IsFiniteSet({x}) /\ Cardinality({x}) = 1
  BY FS_EmptySet, FS_Singleton
<1>6. CASE Cardinality(ids) < MaxSize
  <2>1. out = {}
    BY <1>4, <1>6
  <2>2. Cardinality(out) = 0 /\ IsFiniteSet(out)
    BY <1>5, <2>1
  <2>3. DOMAIN new = ids \cup {id}
    BY <1>2, <1>3, <2>1
  <2>4. Cardinality(DOMAIN new) = Cardinality(ids) + 1
    BY <1>2, <1>4, <2>3
  <2>. QED  BY <1>1, <1>2, <1>3, <1>4, <1>6, <2>1, <2>2, <2>3, <2>4
<1>7. CASE Cardinality(ids) = MaxSize
  <2>. DEFINE f == FirstOf(ids)
  <2>1. out = {f} /\ f \in ids /\ \A k \in ids : f <= k
    BY <1>1, <1>4, <1>7, FirstOfProperties
  <2>2. Cardinality(out) = 1 /\ IsFiniteSet(out)
    BY <1>5, <2>1
  <2>3. DOMAIN new = (ids \cup {id}) \ {f}
    BY <1>2, <1>3, <2>1
  <2>4. IsFiniteSet(DOMAIN grown)
    BY <1>2, <1>4, FS_AddElement
  <2>5. Cardinality(DOMAIN new) = Cardinality(ids)
    BY <1>2, <1>4, <2>1, <2>3, <2>4, FS_RemoveElement
  <2>6. \A k \in DOMAIN new : f < k
    BY <1>1, <2>1, <2>3
  <2>7. id \in DOMAIN new /\ new[id] = event
    BY <1>1, <1>2, <1>3, <2>1, <2>3
  <2>. QED  BY <1>1, <1>2, <1>3, <1>4, <1>7, <2>1, <2>2, <2>3, <2>5, <2>6, <2>7
<1>. QED  BY <1>1, <1>4, <1>6, <1>7

(* enqueue() leaves a table of events. *)
LEMMA EnqueueTyped ==
  ASSUME NEW stored, NEW id, NEW Events, NEW event \in Events, stored \in [DOMAIN stored -> Events]
  PROVE  Enqueue(stored, id, event) \in [DOMAIN Enqueue(stored, id, event) -> Events]
<1>1. Insert(stored, id, event) \in [DOMAIN Insert(stored, id, event) -> Events]
  BY DEF Insert
<1>. QED  BY <1>1, RemoveTyped DEF Enqueue

-----------------------------------------------------------------------------
(* The publisher, its client and the broker.                               *)

(* A step of the thread in publish() of event e, or in try_reconnect(). *)
PublishStep(e) ==
  PublishRefused \/ PublishHandedOver(e) \/ PublishConfirmed \/ PublishUnconfirmed
ReconnectStep ==
  \/ AttemptHitsSimulatedOutage
  \/ AttemptFindsLinkIntact
  \/ AttemptNeedsNewLink
  \/ NewLinkOpened
  \/ NewLinkRefused
  \/ MarkConnected
PublisherStep(e) ==
  \/ PublishStep(e)
  \/ ReconnectStep
  \/ PublisherEnvironment
  \/ PublisherGone
  \/ PublisherConnects
  \/ UNCHANGED publisherVars

(* Every step leaves the fields of the publisher well-typed. *)
LEMMA PublisherTypesKept ==
  ASSUME PublisherTypeOK, wait # "idle" => sending \in Event,
         NEW e \in Event, PublisherStep(e)
  PROVE  PublisherTypeOK'
<1>. USE FaultsAssumption, EventsAssumption
     DEF PublisherTypeOK, publisherVars, flagVars, linkVars, messageVars
<1>1. CASE PublishRefused
  BY <1>1 DEF PublishRefused
<1>2. CASE PublishHandedOver(e)
  BY <1>2 DEF PublishHandedOver, WaitState
<1>3. CASE PublishConfirmed
  BY <1>3 DEF PublishConfirmed, WaitState
<1>4. CASE PublishUnconfirmed
  <2>1. faults' \in 0 .. MaxFaults
    BY <1>4 DEF PublishUnconfirmed
  <2>2. stale' \subseteq Event
    BY <1>4 DEF PublishUnconfirmed
  <2>. QED  BY <1>4, <2>1, <2>2 DEF PublishUnconfirmed, WaitState
<1>5. CASE AttemptHitsSimulatedOutage \/ AttemptFindsLinkIntact \/ AttemptNeedsNewLink \/ MarkConnected
  BY <1>5 DEF AttemptHitsSimulatedOutage, AttemptFindsLinkIntact, AttemptNeedsNewLink, MarkConnected
<1>6. CASE NewLinkOpened
  <2>1. wait' \in WaitState
    BY <1>6 DEF NewLinkOpened, WaitState
  <2>. QED  BY <1>6, <2>1 DEF NewLinkOpened
<1>7. CASE NewLinkRefused
  <2>1. faults' \in 0 .. MaxFaults
    BY <1>7 DEF NewLinkRefused
  <2>. QED  BY <1>7, <2>1 DEF NewLinkRefused
<1>8. CASE LinkDrops
  <2>1. wait' \in WaitState
    BY <1>8 DEF LinkDrops, WaitState
  <2>2. faults' \in 0 .. MaxFaults
    BY <1>8 DEF LinkDrops
  <2>. QED  BY <1>8, <2>1, <2>2 DEF LinkDrops
<1>9. CASE HandleDisconnect \/ PahoReopensLink \/ ClearInjectedFailures \/ ClearConnectionOutage
  <2>1. forcedFailures' \in 0 .. MaxFaults /\ faults' \in 0 .. MaxFaults
    BY <1>9 DEF HandleDisconnect, PahoReopensLink, ClearInjectedFailures, ClearConnectionOutage
  <2>. QED
    BY <1>9, <2>1 DEF HandleDisconnect, PahoReopensLink, ClearInjectedFailures, ClearConnectionOutage
<1>10. CASE BrokerReceives
  <2>1. received' \in [Event -> 0 .. 2]
    BY <1>10 DEF BrokerReceives, OneMore
  <2>. QED  BY <1>10, <2>1 DEF BrokerReceives, WaitState
<1>11. CASE PubackArrives
  BY <1>11 DEF PubackArrives, WaitState
<1>12. CASE PahoResends
  <2>1. received' \in [Event -> 0 .. 2]
    BY <1>12 DEF PahoResends, OneMore
  <2>2. stale' \subseteq Event
    BY <1>12 DEF PahoResends
  <2>. QED  BY <1>12, <2>1, <2>2 DEF PahoResends
<1>13. CASE InjectPublishFailures
  <2>1. faults' \in 0 .. MaxFaults /\ forcedFailures' \in 0 .. MaxFaults
    BY <1>13 DEF InjectPublishFailures
  <2>. QED  BY <1>13, <2>1 DEF InjectPublishFailures
<1>14. CASE InjectConnectionOutage
  <2>1. faults' \in 0 .. MaxFaults
    BY <1>14 DEF InjectConnectionOutage
  <2>. QED  BY <1>14, <2>1 DEF InjectConnectionOutage
<1>15. CASE PublisherGone
  <2>1. forcedFailures' \in 0 .. MaxFaults
    BY <1>15 DEF PublisherGone
  <2>. QED  BY <1>15, <2>1 DEF PublisherGone, WaitState
<1>16. CASE PublisherConnects
  BY <1>16 DEF PublisherConnects
<1>17. CASE UNCHANGED publisherVars
  BY <1>17
<1>. QED
  BY <1>1, <1>2, <1>3, <1>4, <1>5, <1>6, <1>7, <1>8, <1>9, <1>10, <1>11, <1>12, <1>13, <1>14, <1>15,
     <1>16, <1>17
  DEF PublisherStep, PublishStep, ReconnectStep, PublisherEnvironment

(* What the broker got it keeps, across drops, restarts and resends. *)
LEMMA ReceivedKept ==
  ASSUME PublisherTypeOK, NEW e \in Event, PublisherStep(e), NEW g \in Event, received[g] > 0
  PROVE  received'[g] > 0
<1>. USE DEF PublisherTypeOK, publisherVars, flagVars, linkVars, messageVars
<1>1. CASE BrokerReceives
  BY <1>1 DEF BrokerReceives, OneMore
<1>2. CASE PahoResends
  BY <1>2 DEF PahoResends, OneMore
<1>3. CASE PublishStep(e)
  BY <1>3 DEF PublishStep, PublishRefused, PublishHandedOver, PublishConfirmed, PublishUnconfirmed
<1>4. CASE ReconnectStep
  BY <1>4 DEF ReconnectStep, AttemptHitsSimulatedOutage, AttemptFindsLinkIntact, AttemptNeedsNewLink,
     NewLinkOpened, NewLinkRefused, MarkConnected
<1>5. CASE PublisherEnvironment
  BY <1>1, <1>2, <1>5 DEF PublisherEnvironment, LinkDrops, HandleDisconnect, PahoReopensLink, PubackArrives,
     InjectPublishFailures, ClearInjectedFailures, InjectConnectionOutage, ClearConnectionOutage
<1>6. CASE PublisherGone \/ PublisherConnects \/ UNCHANGED publisherVars
  BY <1>6 DEF PublisherGone, PublisherConnects
<1>. QED  BY <1>1, <1>2, <1>3, <1>4, <1>5, <1>6 DEF PublisherStep

(* Another thread never changes which message publish() waits for, nor     *)
(* whether it waits, and it never connects the publisher; a message the    *)
(* broker has, or whose PUBACK came, counts as received.                   *)
LEMMA EnvironmentKeepsWait ==
  ASSUME PublisherTypeOK, PublisherEnvironment,
         wait # "idle" => sending \in Event,
         wait \in {"received", "acked"} => received[sending] > 0
  PROVE  /\ sending' = sending
         /\ wait' = "idle" <=> wait = "idle"
         /\ wait' \in {"received", "acked"} => received'[sending'] > 0
         /\ connected' => connected
<1>. USE DEF PublisherTypeOK, publisherVars, flagVars, linkVars, messageVars
<1>1. CASE BrokerReceives
  BY <1>1 DEF BrokerReceives, OneMore
<1>2. CASE PahoResends
  BY <1>2 DEF PahoResends, OneMore
<1>3. CASE LinkDrops \/ HandleDisconnect \/ PahoReopensLink \/ PubackArrives
  BY <1>3 DEF LinkDrops, HandleDisconnect, PahoReopensLink, PubackArrives
<1>4. CASE InjectPublishFailures \/ ClearInjectedFailures \/ InjectConnectionOutage \/ ClearConnectionOutage
  BY <1>4 DEF InjectPublishFailures, ClearInjectedFailures, InjectConnectionOutage, ClearConnectionOutage
<1>. QED  BY <1>1, <1>2, <1>3, <1>4 DEF PublisherEnvironment

-----------------------------------------------------------------------------
(* The gateway.                                                            *)

(* The event in hand is one this process accepted. *)
HandOfThisProcess ==
  /\ startEvents <= accepted
  /\ EventInHand => startEvents < accepted

(* publish() waits for the message of the row, or of the live event, that  *)
(* the thread stands at, and counts as received only what was received.    *)
WaitsForItsMessage ==
  /\ pc = "rowAwait" => sending = table[NextRow] /\ wait # "idle"
  /\ pc = "liveAwait" => sending = accepted /\ wait # "idle"
  /\ pc \notin {"rowAwait", "liveAwait"} => sending = 0 /\ wait = "idle"
  /\ wait \in {"received", "acked"} => received[sending] > 0

(* The batch of a replay is the oldest rows, some of them confirmed, and   *)
(* confirmed rows were received.                                           *)
BatchIsOldest ==
  /\ batch \subseteq DOMAIN table
  /\ confirmed \subseteq batch
  /\ ~Replaying => batch = {}
  /\ pc \in {"row", "rowAwait"} => batch \ confirmed # {}
  /\ \A i \in batch, k \in DOMAIN table : k < i => k \in batch
  /\ \A i \in confirmed : received[table[i]] > 0

(* No row has an id AUTOINCREMENT has yet to assign. *)
IdsAssigned == DOMAIN table \subseteq 1 .. lastId

(* Nothing is stored that was not accepted. *)
OnlyAccepted == \A i \in DOMAIN table : table[i] <= accepted

Structure ==
  /\ TypeOK
  /\ HandOfThisProcess
  /\ WaitsForItsMessage
  /\ BatchIsOldest
  /\ IdsAssigned
  /\ OnlyAccepted
  /\ RowsInAcceptanceOrder
  /\ BufferBounded

(* A first process starts with the structure in place. *)
LEMMA StructureAtStart == Init => Structure
<1>. SUFFICES ASSUME Init PROVE Structure
  OBVIOUS
<1>. USE EventsAssumption, FaultsAssumption, EndsAssumption DEF Init, PublisherInit, EmptyTable, Event
<1>1. PublisherTypeOK
  <2>1. received \in [Event -> 0 .. 2]
    OBVIOUS
  <2>2. forcedFailures \in 0 .. MaxFaults /\ faults \in 0 .. MaxFaults
    OBVIOUS
  <2>. QED  BY <2>1, <2>2 DEF PublisherTypeOK, WaitState
<1>2. ThreadTypeOK /\ HistoryTypeOK
  <2>1. accepted \in 0 .. MaxEvents /\ ends \in 0 .. MaxEnds
    OBVIOUS
  <2>. QED  BY <2>1 DEF ThreadTypeOK, HistoryTypeOK, Points
<1>3. CountersTypeOK
  BY DEF CountersTypeOK, NoMetrics
<1>4. TableTypeOK
  BY DEF TableTypeOK
<1>5. HandOfThisProcess /\ WaitsForItsMessage /\ BatchIsOldest /\ IdsAssigned /\ OnlyAccepted
  BY DEF HandOfThisProcess, EventInHand, WaitsForItsMessage, BatchIsOldest, Replaying, IdsAssigned, OnlyAccepted
<1>6. RowsInAcceptanceOrder /\ BufferBounded
  <2>1. DOMAIN table = {} /\ Cardinality(DOMAIN table) = 0
    BY FS_EmptySet
  <2>. QED  BY <2>1, MaxSizeAssumption DEF RowsInAcceptanceOrder, EventInHand, BufferBounded
<1>. QED  BY <1>1, <1>2, <1>3, <1>4, <1>5, <1>6 DEF Structure, TypeOK

-----------------------------------------------------------------------------

(* While a batch is published, the next row is stored, not yet confirmed,  *)
(* and older than every other unconfirmed row of the batch.                *)
LEMMA NextRowProperties ==
  ASSUME Structure, pc \in {"row", "rowAwait"}
  PROVE  /\ NextRow \in batch \ confirmed
         /\ NextRow \in DOMAIN table
         /\ table[NextRow] \in Event
         /\ \A i \in batch \ confirmed : NextRow <= i
<1>. USE DEF Structure, TypeOK
<1>1. batch \ confirmed \in SUBSET Nat /\ batch \ confirmed # {}
  BY DEF ThreadTypeOK, RowIds, BatchIsOldest
<1>2. NextRow \in batch \ confirmed /\ \A i \in batch \ confirmed : NextRow <= i
  BY <1>1, FirstOfProperties DEF NextRow
<1>3. NextRow \in DOMAIN table
  BY <1>2 DEF BatchIsOldest
<1>. QED  BY <1>2, <1>3 DEF TableTypeOK

(* The event in hand, and the event of the message publish() waits for,    *)
(* are accepted events.                                                    *)
LEMMA EventsInUse ==
  ASSUME Structure
  PROVE  /\ EventInHand => accepted \in Event
         /\ wait # "idle" => sending \in Event
<1>1. EventInHand => accepted \in Event
  BY EventsAssumption DEF Structure, TypeOK, HandOfThisProcess, ThreadTypeOK, HistoryTypeOK, Event
<1>2. wait # "idle" => sending \in Event
  BY <1>1, NextRowProperties DEF Structure, WaitsForItsMessage, EventInHand
<1>. QED  BY <1>1, <1>2

(* The table is finite and as enqueue() expects to find it. *)
LEMMA TableReady ==
  ASSUME Structure
  PROVE  /\ IsFiniteSet(DOMAIN table)
         /\ Cardinality(DOMAIN table) \in Nat
         /\ FreshId \in Nat \ {0}
         /\ StoredBelow(table, FreshId)
<1>. USE DEF Structure, TypeOK
<1>1. DOMAIN table \subseteq 1 .. FreshId - 1 /\ FreshId \in Nat \ {0}
  BY DEF IdsAssigned, FreshId, TableTypeOK
<1>2. IsFiniteSet(1 .. FreshId - 1)
  BY <1>1, FS_Interval
<1>3. IsFiniteSet(DOMAIN table) /\ Cardinality(DOMAIN table) \in Nat
  BY <1>1, <1>2, FS_Subset, FS_CardinalityType
<1>. QED  BY <1>1, <1>3 DEF StoredBelow, BufferBounded

(* remove(confirmed_ids) deletes the confirmed rows and nothing else. *)
LEMMA RemoveEffect ==
  ASSUME RemoveConfirmed
  PROVE  /\ DOMAIN table' = DOMAIN table \ confirmed
         /\ \A i \in DOMAIN table \ confirmed : table'[i] = table[i]
BY DEF RemoveConfirmed, Remove, Restrict

(* The rows an enqueue() of the event in hand deletes. *)
Displaced == Overflowing(Insert(table, FreshId, accepted))

(* What the enqueue() of the event in hand does to the table and to the    *)
(* counts kept about it.                                                   *)
LEMMA EnqueueEffect ==
  ASSUME Structure, EnqueueEvent
  PROVE  /\ DOMAIN table' = (DOMAIN table \cup {FreshId}) \ Displaced
         /\ FreshId \in DOMAIN table' /\ FreshId \notin DOMAIN table
         /\ table'[FreshId] = accepted
         /\ Displaced \subseteq DOMAIN table
         /\ \A i \in DOMAIN table \ Displaced : table'[i] = table[i]
         /\ overflowed' = overflowed \cup {table[i] : i \in Displaced}
         /\ \A i \in Displaced, k \in DOMAIN table' : i < k
         /\ Displaced # {} => /\ Displaced = {FirstOf(DOMAIN table)}
                              /\ Cardinality(DOMAIN table) = MaxSize
                              /\ Cardinality(DOMAIN table') = MaxSize
         /\ Cardinality(Displaced) \in Nat
         /\ droppedCount' = droppedCount + Cardinality(Displaced)
         /\ Cardinality(DOMAIN table') = Cardinality(DOMAIN table) + 1 - Cardinality(Displaced)
         /\ Cardinality(DOMAIN table') <= MaxSize
<1>. DEFINE grown == Insert(table, FreshId, accepted)
            new == Enqueue(table, FreshId, accepted)
<1>1. FreshId \in Nat \ {0} /\ StoredBelow(table, FreshId) /\ Cardinality(DOMAIN table) \in Nat
  BY TableReady
<1>2. /\ DOMAIN new = (DOMAIN table \cup {FreshId}) \ Displaced
      /\ FreshId \in DOMAIN new
      /\ new[FreshId] = accepted
      /\ Displaced \subseteq DOMAIN table
      /\ \A i \in DOMAIN table \ Displaced : new[i] = table[i]
      /\ \A i \in Displaced : grown[i] = table[i]
      /\ \A i \in Displaced, k \in DOMAIN new : i < k
      /\ IsFiniteSet(Displaced)
      /\ Displaced # {} => /\ Displaced = {FirstOf(DOMAIN table)}
                           /\ Cardinality(Displaced) = 1
                           /\ Cardinality(DOMAIN table) = MaxSize
      /\ Cardinality(Displaced) \in Nat
      /\ Cardinality(DOMAIN new) = Cardinality(DOMAIN table) + 1 - Cardinality(Displaced)
      /\ Cardinality(DOMAIN new) <= MaxSize
  BY <1>1, EnqueueProperties DEF Displaced
<1>. HIDE DEF new, grown
<1>3. /\ table' = new
      /\ droppedCount' = droppedCount + Cardinality(Displaced)
      /\ overflowed' = overflowed \cup {grown[i] : i \in Displaced}
  BY DEF EnqueueEvent, Displaced, new, grown
<1>4. {grown[i] : i \in Displaced} = {table[i] : i \in Displaced}
  BY <1>2
<1>5. FreshId \notin DOMAIN table
  BY <1>1 DEF StoredBelow
<1>6. Displaced # {} => Cardinality(DOMAIN new) = MaxSize
  BY <1>1, <1>2, MaxSizeAssumption
<1>. QED  BY <1>2, <1>3, <1>4, <1>5, <1>6

-----------------------------------------------------------------------------

(* Every step of the gateway takes at most one step of its publisher. *)
LEMMA GatewayStepsThePublisher ==
  ASSUME Structure, [Next]_vars
  PROVE  \E e \in Event : PublisherStep(e)
<1>. USE DEF PublisherStep, vars
<1>0. 1 \in Event
  BY EventsAssumption DEF Event
<1>1. CASE UNCHANGED vars
  BY <1>0, <1>1
<1>2. CASE CheckConnection \/ DecideReplay \/ ProcessEnds \/ ProcessStarts
  BY <1>0, <1>2 DEF CheckConnection, DecideReplay, ProcessEnds, ProcessStarts
<1>3. CASE Reconnect
  BY <1>0, <1>3 DEF Reconnect, AttemptNotDue, AttemptFails, ResumeLink, StartReconnect, ReconnectSucceeds,
     ReconnectFails, FinishReconnect, ReconnectStep
<1>4. CASE SendRow
  BY <1>4, NextRowProperties DEF SendRow, PublishStep
<1>5. CASE ReplayBuffered /\ ~SendRow
  BY <1>0, <1>5 DEF ReplayBuffered, PeekEmpty, PeekRows, RowNotSent, RowConfirmed, RowUnconfirmed,
     RemoveConfirmed, PublishStep
<1>6. CASE SendLive
  BY <1>6, EventsInUse DEF SendLive, PublishStep, EventInHand
<1>7. CASE HandleFrame /\ ~SendLive
  BY <1>0, <1>7 DEF HandleFrame, RecvNothing, RecvRejected, RecvAccepted, LiveRefused, LiveConfirmed,
     LiveUnconfirmed, RecordPublishFailure, EnqueueEvent, RecordBuffered, PublishStep
<1>8. CASE Environment
  BY <1>0, <1>8 DEF Environment, Meanwhile
<1>. QED
  BY <1>1, <1>2, <1>3, <1>4, <1>5, <1>6, <1>7, <1>8 DEF Next, GatewayThread

(* Two steps change the table: remove() and enqueue(). *)
LEMMA TableChanges ==
  ASSUME [Next]_vars
  PROVE  UNCHANGED <<table, lastId>> \/ RemoveConfirmed \/ EnqueueEvent
<1>. USE DEF bufferVars, replayVars, gatewayVars, vars, historyVars
<1>1. CASE UNCHANGED vars
  BY <1>1
<1>2. CASE CheckConnection \/ DecideReplay \/ ProcessEnds \/ ProcessStarts
  BY <1>2 DEF CheckConnection, DecideReplay, ProcessEnds, ProcessStarts
<1>3. CASE Reconnect
  BY <1>3 DEF Reconnect, AttemptNotDue, AttemptFails, ResumeLink, StartReconnect, ReconnectSucceeds,
     ReconnectFails, FinishReconnect
<1>4. CASE ReplayBuffered
  BY <1>4 DEF ReplayBuffered, PeekEmpty, PeekRows, RowNotSent, SendRow, RowConfirmed, RowUnconfirmed
<1>5. CASE HandleFrame
  BY <1>5 DEF HandleFrame, RecvNothing, RecvRejected, RecvAccepted, LiveRefused, SendLive, LiveConfirmed,
     LiveUnconfirmed, RecordPublishFailure, RecordBuffered
<1>6. CASE Environment
  BY <1>6 DEF Environment, Meanwhile
<1>. QED  BY <1>1, <1>2, <1>3, <1>4, <1>5, <1>6 DEF Next, GatewayThread

(* The thread's own variables stay well-typed. *)
LEMMA ThreadTypesKept ==
  ASSUME Structure, [Next]_vars
  PROVE  ThreadTypeOK'
<1>. USE EventsAssumption
     DEF ThreadTypeOK, Points, Goto, bufferVars, replayVars, gatewayVars, vars, historyVars
<1>0. ThreadTypeOK /\ DOMAIN table \subseteq RowIds
  BY DEF Structure, TypeOK, TableTypeOK
<1>1. CASE UNCHANGED vars
  BY <1>0, <1>1
<1>2. CASE CheckConnection \/ DecideReplay \/ ProcessEnds \/ ProcessStarts
  BY <1>0, <1>2 DEF CheckConnection, DecideReplay, ProcessEnds, ProcessStarts
<1>3. CASE Reconnect
  BY <1>0, <1>3 DEF Reconnect, AttemptNotDue, AttemptFails, ResumeLink, StartReconnect, ReconnectSucceeds,
     ReconnectFails, FinishReconnect
<1>4. CASE PeekRows
  BY <1>0, <1>4, OldestSubset DEF PeekRows, PeekBatch
<1>5. CASE RowConfirmed
  BY <1>0, <1>5, NextRowProperties DEF RowConfirmed
<1>6. CASE ReplayBuffered /\ ~PeekRows /\ ~RowConfirmed
  BY <1>0, <1>6 DEF ReplayBuffered, PeekEmpty, RowNotSent, SendRow, RowUnconfirmed, RemoveConfirmed
<1>7. CASE RecvAccepted
  BY <1>0, <1>7 DEF RecvAccepted
<1>8. CASE HandleFrame /\ ~RecvAccepted
  BY <1>0, <1>8 DEF HandleFrame, RecvNothing, RecvRejected, LiveRefused, SendLive, LiveConfirmed,
     LiveUnconfirmed, RecordPublishFailure, EnqueueEvent, RecordBuffered
<1>9. CASE Environment
  BY <1>0, <1>9 DEF Environment, Meanwhile
<1>. QED
  BY <1>1, <1>2, <1>3, <1>4, <1>5, <1>6, <1>7, <1>8, <1>9 DEF Next, GatewayThread

(* The table stays well-typed, and its ids assigned ones. *)
LEMMA TableTypesKept ==
  ASSUME Structure, [Next]_vars
  PROVE  TableTypeOK' /\ IdsAssigned'
<1>. USE DEF TableTypeOK, IdsAssigned
<1>0. TableTypeOK /\ IdsAssigned
  BY DEF Structure, TypeOK
<1>1. CASE UNCHANGED <<table, lastId>>
  BY <1>0, <1>1
<1>2. CASE RemoveConfirmed
  <2>1. table' = Remove(table, confirmed) /\ lastId' = lastId
    BY <1>2 DEF RemoveConfirmed
  <2>. QED  BY <1>0, <2>1, RemoveTyped, RemoveProperties
<1>3. CASE EnqueueEvent
  <2>1. table' = Enqueue(table, FreshId, accepted) /\ lastId' = FreshId /\ accepted \in Event
    BY <1>3, EventsInUse DEF EnqueueEvent, EventInHand
  <2>2. table' \in [DOMAIN table' -> Event]
    BY <1>0, <2>1, EnqueueTyped
  <2>3. DOMAIN table' \subseteq DOMAIN table \cup {FreshId}
    BY <1>3, EnqueueEffect
  <2>. QED  BY <1>0, <2>1, <2>2, <2>3 DEF FreshId, RowIds
<1>. QED  BY <1>1, <1>2, <1>3, TableChanges

(* The counters stay natural numbers: none is ever decremented. *)
LEMMA CountersTypesKept ==
  ASSUME Structure, [Next]_vars
  PROVE  CountersTypeOK'
<1>. USE DEF CountersTypeOK, bufferVars, replayVars, gatewayVars, vars, historyVars
<1>0. CountersTypeOK
  BY DEF Structure, TypeOK
<1>1. CASE UNCHANGED <<droppedCount, metrics>>
  BY <1>0, <1>1
<1>2. CASE UNCHANGED vars
  BY <1>0, <1>2
<1>3. CASE CheckConnection \/ DecideReplay \/ ProcessEnds \/ ProcessStarts
  BY <1>0, <1>3 DEF CheckConnection, DecideReplay, ProcessEnds, ProcessStarts, NoMetrics
<1>4. CASE Reconnect
  BY <1>1, <1>4 DEF Reconnect, AttemptNotDue, AttemptFails, ResumeLink, StartReconnect, ReconnectSucceeds,
     ReconnectFails, FinishReconnect
<1>5. CASE RowConfirmed
  BY <1>0, <1>5 DEF RowConfirmed
<1>6. CASE ReplayBuffered /\ ~RowConfirmed
  BY <1>1, <1>6 DEF ReplayBuffered, PeekEmpty, PeekRows, RowNotSent, SendRow, RowUnconfirmed, RemoveConfirmed
<1>7. CASE RecvRejected
  BY <1>0, <1>7 DEF RecvRejected
<1>8. CASE LiveConfirmed \/ RecordPublishFailure \/ RecordBuffered
  BY <1>0, <1>8 DEF LiveConfirmed, RecordPublishFailure, RecordBuffered
<1>9. CASE EnqueueEvent
  BY <1>0, <1>9, EnqueueEffect DEF EnqueueEvent
<1>10. CASE RecvNothing \/ RecvAccepted \/ LiveRefused \/ SendLive \/ LiveUnconfirmed
  BY <1>1, <1>10 DEF RecvNothing, RecvAccepted, LiveRefused, SendLive, LiveUnconfirmed
<1>11. CASE Environment
  BY <1>1, <1>11 DEF Environment, Meanwhile
<1>. QED
  BY <1>1, <1>2, <1>3, <1>4, <1>5, <1>6, <1>7, <1>8, <1>9, <1>10, <1>11
  DEF Next, GatewayThread, HandleFrame

(* The history variables stay well-typed. *)
LEMMA HistoryTypesKept ==
  ASSUME Structure, [Next]_vars
  PROVE  HistoryTypeOK'
<1>. USE EndsAssumption DEF HistoryTypeOK, bufferVars, replayVars, gatewayVars, vars, historyVars
<1>0. HistoryTypeOK
  BY DEF Structure, TypeOK
<1>1. CASE UNCHANGED historyVars
  BY <1>0, <1>1
<1>2. CASE UNCHANGED vars
  BY <1>0, <1>2
<1>3. CASE CheckConnection \/ DecideReplay
  BY <1>1, <1>3 DEF CheckConnection, DecideReplay
<1>4. CASE ProcessEnds
  <2>1. lost' \subseteq Event
    BY <1>0, <1>4, EventsInUse DEF ProcessEnds, InHand
  <2>. QED  BY <1>0, <1>4, <2>1 DEF ProcessEnds
<1>5. CASE ProcessStarts
  <2>1. accepted \in Nat
    BY EventsAssumption DEF Structure, TypeOK, ThreadTypeOK
  <2>. QED  BY <1>0, <1>5, <2>1, TableReady DEF ProcessStarts
<1>6. CASE Reconnect
  BY <1>1, <1>6 DEF Reconnect, AttemptNotDue, AttemptFails, ResumeLink, StartReconnect, ReconnectSucceeds,
     ReconnectFails, FinishReconnect
<1>7. CASE RowConfirmed \/ LiveConfirmed
  <2>1. acked' \subseteq Event
    BY <1>0, <1>7, EventsInUse DEF RowConfirmed, LiveConfirmed, PublishConfirmed
  <2>. QED  BY <1>0, <1>7, <2>1 DEF RowConfirmed, LiveConfirmed
<1>8. CASE ReplayBuffered /\ ~RowConfirmed
  BY <1>1, <1>8 DEF ReplayBuffered, PeekEmpty, PeekRows, RowNotSent, SendRow, RowUnconfirmed, RemoveConfirmed
<1>9. CASE RecvNothing \/ RecvRejected \/ RecvAccepted
  BY <1>0, <1>9 DEF RecvNothing, RecvRejected, RecvAccepted
<1>10. CASE LiveRefused
  <2>1. outage' \subseteq Event
    BY <1>0, <1>10, EventsInUse DEF LiveRefused, EventInHand
  <2>. QED  BY <1>0, <1>10, <2>1 DEF LiveRefused
<1>11. CASE EnqueueEvent
  <2>1. {table[i] : i \in Displaced} \subseteq Event
    BY <1>11, EnqueueEffect DEF Structure, TypeOK, TableTypeOK
  <2>2. overflowed' \subseteq Event
    BY <1>0, <1>11, <2>1, EnqueueEffect
  <2>. QED  BY <1>0, <1>11, <2>2 DEF EnqueueEvent
<1>12. CASE SendLive \/ LiveUnconfirmed \/ RecordPublishFailure \/ RecordBuffered
  BY <1>1, <1>12 DEF SendLive, LiveUnconfirmed, RecordPublishFailure, RecordBuffered
<1>13. CASE Environment
  BY <1>1, <1>13 DEF Environment, Meanwhile
<1>. QED
  BY <1>1, <1>2, <1>3, <1>4, <1>5, <1>6, <1>7, <1>8, <1>9, <1>10, <1>11, <1>12, <1>13
  DEF Next, GatewayThread, HandleFrame

(* Every step leaves every variable well-typed. *)
LEMMA TypesKept ==
  ASSUME Structure, [Next]_vars
  PROVE  TypeOK'
<1>1. PublisherTypeOK'
  BY EventsInUse, GatewayStepsThePublisher, PublisherTypesKept DEF Structure, TypeOK
<1>. QED
  BY <1>1, ThreadTypesKept, TableTypesKept, CountersTypesKept, HistoryTypesKept DEF TypeOK

(* An event is taken in hand only when it is accepted. *)
LEMMA HandKept ==
  ASSUME Structure, [Next]_vars
  PROVE  HandOfThisProcess'
<1>. USE DEF HandOfThisProcess, EventInHand, Goto, bufferVars, replayVars, gatewayVars, vars, historyVars
<1>0. HandOfThisProcess /\ accepted \in Nat /\ startEvents \in Nat
  BY EventsAssumption DEF Structure, TypeOK, ThreadTypeOK, HistoryTypeOK
<1>1. CASE UNCHANGED vars
  BY <1>0, <1>1
<1>2. CASE CheckConnection \/ DecideReplay \/ ProcessEnds \/ ProcessStarts
  BY <1>0, <1>2 DEF CheckConnection, DecideReplay, ProcessEnds, ProcessStarts
<1>3. CASE Reconnect
  BY <1>0, <1>3 DEF Reconnect, AttemptNotDue, AttemptFails, ResumeLink, StartReconnect, ReconnectSucceeds,
     ReconnectFails, FinishReconnect
<1>4. CASE ReplayBuffered
  BY <1>0, <1>4 DEF ReplayBuffered, PeekEmpty, PeekRows, RowNotSent, SendRow, RowConfirmed, RowUnconfirmed,
     RemoveConfirmed
<1>5. CASE HandleFrame
  BY <1>0, <1>5 DEF HandleFrame, RecvNothing, RecvRejected, RecvAccepted, LiveRefused, SendLive, LiveConfirmed,
     LiveUnconfirmed, RecordPublishFailure, EnqueueEvent, RecordBuffered
<1>6. CASE Environment
  BY <1>0, <1>6 DEF Environment, Meanwhile
<1>. QED
  BY <1>1, <1>2, <1>3, <1>4, <1>5, <1>6 DEF Next, GatewayThread

(* publish() keeps waiting for the message the thread stands at. *)
LEMMA WaitKept ==
  ASSUME Structure, [Next]_vars
  PROVE  WaitsForItsMessage'
<1>. USE DEF WaitsForItsMessage, Goto
<1>. USE DEF bufferVars, replayVars, gatewayVars, vars, historyVars, publisherVars, flagVars, linkVars, messageVars
<1>0. WaitsForItsMessage /\ PublisherTypeOK /\ pc \in Points
  BY DEF Structure, TypeOK, ThreadTypeOK
<1>1. CASE UNCHANGED vars
  BY <1>0, <1>1 DEF NextRow
<1>2. CASE CheckConnection \/ DecideReplay
  BY <1>0, <1>2 DEF CheckConnection, DecideReplay
<1>3. CASE ProcessEnds \/ ProcessStarts
  BY <1>0, <1>3 DEF ProcessEnds, ProcessStarts, PublisherGone, PublisherConnects
<1>4. CASE Reconnect
  BY <1>0, <1>4 DEF Reconnect, AttemptNotDue, AttemptFails, ResumeLink, StartReconnect, ReconnectSucceeds,
     ReconnectFails, FinishReconnect, AttemptHitsSimulatedOutage, AttemptFindsLinkIntact, AttemptNeedsNewLink,
     NewLinkOpened, NewLinkRefused, MarkConnected
<1>5. CASE SendRow
  BY <1>0, <1>5 DEF SendRow, PublishHandedOver, NextRow
<1>6. CASE ReplayBuffered /\ ~SendRow
  BY <1>0, <1>6 DEF ReplayBuffered, PeekEmpty, PeekRows, RowNotSent, RowConfirmed, RowUnconfirmed, RemoveConfirmed,
     PublishRefused, PublishConfirmed, PublishUnconfirmed
<1>7. CASE RecvNothing \/ RecvRejected \/ RecvAccepted \/ RecordPublishFailure \/ EnqueueEvent \/ RecordBuffered
  BY <1>0, <1>7 DEF RecvNothing, RecvRejected, RecvAccepted, RecordPublishFailure, EnqueueEvent, RecordBuffered
<1>8. CASE LiveRefused \/ SendLive \/ LiveConfirmed \/ LiveUnconfirmed
  BY <1>0, <1>8 DEF LiveRefused, SendLive, LiveConfirmed, LiveUnconfirmed,
     PublishRefused, PublishHandedOver, PublishConfirmed, PublishUnconfirmed
<1>9. CASE Environment
  <2>1. /\ sending' = sending
        /\ wait' = "idle" <=> wait = "idle"
        /\ wait' \in {"received", "acked"} => received'[sending'] > 0
    BY <1>0, <1>9, EventsInUse, EnvironmentKeepsWait DEF Environment, Meanwhile
  <2>2. UNCHANGED <<pc, accepted, table, batch, confirmed>>
    BY <1>9 DEF Environment, Meanwhile
  <2>. QED  BY <1>0, <2>1, <2>2 DEF NextRow
<1>. QED
  BY <1>1, <1>2, <1>3, <1>4, <1>5, <1>6, <1>7, <1>8, <1>9 DEF Next, GatewayThread, HandleFrame

(* What the broker got stays received. *)
LEMMA ReceivedStays ==
  ASSUME Structure, [Next]_vars
  PROVE  \A e \in Event : received[e] > 0 => received'[e] > 0
BY GatewayStepsThePublisher, ReceivedKept DEF Structure, TypeOK

(* peek_batch() returns the oldest rows, and nothing that happens during a *)
(* replay inserts or deletes a row under it.                               *)
LEMMA BatchKept ==
  ASSUME Structure, [Next]_vars
  PROVE  BatchIsOldest'
<1>. DEFINE Confirmed == \A i \in confirmed : received[table[i]] > 0
<1>. USE DEF BatchIsOldest, Replaying, Goto
<1>. USE DEF bufferVars, replayVars, gatewayVars, vars, historyVars
<1>0. /\ BatchIsOldest
      /\ \A i \in DOMAIN table : table[i] \in Event
      /\ ~Replaying => batch = {} /\ confirmed = {}
  BY DEF Structure, TypeOK, TableTypeOK
<1>1. UNCHANGED <<table, confirmed>> => Confirmed'
  BY <1>0, ReceivedStays
<1>2. CASE UNCHANGED vars
  BY <1>0, <1>1, <1>2
<1>3. CASE CheckConnection \/ DecideReplay \/ ProcessStarts
  BY <1>0, <1>1, <1>3 DEF CheckConnection, DecideReplay, ProcessStarts
<1>4. CASE ProcessEnds
  BY <1>4 DEF ProcessEnds
<1>5. CASE Reconnect
  BY <1>0, <1>1, <1>5 DEF Reconnect, AttemptNotDue, AttemptFails, ResumeLink, StartReconnect, ReconnectSucceeds,
     ReconnectFails, FinishReconnect
<1>6. CASE PeekRows
  <2>1. /\ batch' = PeekBatch(table, BatchSize) /\ batch' # {} /\ confirmed' = {}
        /\ table' = table /\ pc' = "row"
    <3>1. confirmed = {}
      BY <1>0, <1>6 DEF PeekRows
    <3>. QED  BY <1>6, <3>1 DEF PeekRows
  <2>2. batch' \subseteq DOMAIN table
    BY <2>1, OldestSubset DEF PeekBatch
  <2>3. ASSUME NEW i \in batch', NEW k \in DOMAIN table, k < i
        PROVE  k \in batch'
    <3>1. DOMAIN table \in SUBSET Nat /\ IsFiniteSet(DOMAIN table) /\ BatchSize \in Int
      BY TableReady, BatchSizeAssumption DEF Structure, TypeOK, TableTypeOK, RowIds
    <3>. QED  BY <2>1, <2>3, <3>1, OldestIsPrefix DEF PeekBatch
  <2>. QED  BY <2>1, <2>2, <2>3
<1>7. CASE RowConfirmed
  <2>1. NextRow \in batch \ confirmed
    BY <1>7, NextRowProperties DEF RowConfirmed
  <2>2. received[table[NextRow]] > 0
    BY <1>7 DEF RowConfirmed, PublishConfirmed, Structure, WaitsForItsMessage
  <2>3. received' = received
    BY <1>7 DEF RowConfirmed, PublishConfirmed
  <2>4. Confirmed'
    BY <1>0, <1>7, <2>2, <2>3 DEF RowConfirmed
  <2>. QED  BY <1>0, <1>7, <2>1, <2>4 DEF RowConfirmed
<1>8. CASE RemoveConfirmed
  BY <1>8 DEF RemoveConfirmed
<1>9. CASE PeekEmpty \/ RowNotSent \/ SendRow \/ RowUnconfirmed
  BY <1>0, <1>1, <1>9 DEF PeekEmpty, RowNotSent, SendRow, RowUnconfirmed
<1>10. CASE EnqueueEvent
  <2>1. batch = {} /\ confirmed = {}
    BY <1>0, <1>10 DEF EnqueueEvent
  <2>2. batch' = {} /\ confirmed' = {} /\ pc' = "record"
    BY <1>10, <2>1 DEF EnqueueEvent
  <2>. QED  BY <2>2
<1>11. CASE HandleFrame /\ ~EnqueueEvent
  BY <1>0, <1>1, <1>11 DEF HandleFrame, RecvNothing, RecvRejected, RecvAccepted, LiveRefused, SendLive,
     LiveConfirmed, LiveUnconfirmed, RecordPublishFailure, RecordBuffered
<1>12. CASE Environment
  BY <1>0, <1>1, <1>12 DEF Environment, Meanwhile
<1>. QED
  BY <1>2, <1>3, <1>4, <1>5, <1>6, <1>7, <1>8, <1>9, <1>10, <1>11, <1>12
  DEF Next, GatewayThread, ReplayBuffered

(* An event is accepted, and taken in hand, in RecvAccepted only. *)
LEMMA HandChanges ==
  ASSUME [Next]_vars
  PROVE  RecvAccepted \/ (accepted' = accepted /\ (EventInHand' => EventInHand))
<1>. USE DEF EventInHand, Goto, bufferVars, replayVars, gatewayVars, vars, historyVars
<1>1. CASE UNCHANGED vars
  BY <1>1
<1>2. CASE CheckConnection \/ DecideReplay \/ ProcessEnds \/ ProcessStarts
  BY <1>2 DEF CheckConnection, DecideReplay, ProcessEnds, ProcessStarts
<1>3. CASE Reconnect
  BY <1>3 DEF Reconnect, AttemptNotDue, AttemptFails, ResumeLink, StartReconnect, ReconnectSucceeds,
     ReconnectFails, FinishReconnect
<1>4. CASE ReplayBuffered
  BY <1>4 DEF ReplayBuffered, PeekEmpty, PeekRows, RowNotSent, SendRow, RowConfirmed, RowUnconfirmed,
     RemoveConfirmed
<1>5. CASE HandleFrame
  BY <1>5 DEF HandleFrame, RecvNothing, RecvRejected, LiveRefused, SendLive, LiveConfirmed, LiveUnconfirmed,
     RecordPublishFailure, EnqueueEvent, RecordBuffered
<1>6. CASE Environment
  BY <1>6 DEF Environment, Meanwhile
<1>. QED  BY <1>1, <1>2, <1>3, <1>4, <1>5, <1>6 DEF Next, GatewayThread

(* enqueue() appends the newest event under the highest id, remove() and   *)
(* the trim only thin the table out: the order of acceptance is kept.      *)
LEMMA OrderKept ==
  ASSUME Structure, [Next]_vars
  PROVE  OnlyAccepted' /\ RowsInAcceptanceOrder'
<1>. USE DEF OnlyAccepted, RowsInAcceptanceOrder
<1>0. /\ OnlyAccepted /\ RowsInAcceptanceOrder
      /\ accepted \in Nat
      /\ DOMAIN table \subseteq 1 .. lastId /\ lastId \in Nat
      /\ \A i \in DOMAIN table : table[i] \in Nat
  BY EventsAssumption DEF Structure, TypeOK, ThreadTypeOK, TableTypeOK, IdsAssigned, Event
<1>1. CASE RecvAccepted
  <2>1. accepted' = accepted + 1 /\ table' = table
    BY <1>1 DEF RecvAccepted, bufferVars
  <2>. QED  BY <1>0, <2>1
<1>2. CASE RemoveConfirmed
  <2>1. /\ DOMAIN table' \subseteq DOMAIN table
        /\ \A i \in DOMAIN table' : table'[i] = table[i]
    BY <1>2, RemoveEffect
  <2>2. ~EventInHand' /\ accepted' = accepted
    BY <1>2 DEF RemoveConfirmed, EventInHand, Goto
  <2>. QED  BY <1>0, <2>1, <2>2
<1>3. CASE EnqueueEvent
  <2>1. EventInHand /\ ~EventInHand' /\ accepted' = accepted
    BY <1>3 DEF EnqueueEvent, EventInHand, Goto
  <2>2. /\ DOMAIN table' \subseteq DOMAIN table \cup {FreshId}
        /\ \A i \in DOMAIN table' : table'[i] = IF i = FreshId THEN accepted ELSE table[i]
    BY <1>3, EnqueueEffect
  <2>3. \A i, j \in DOMAIN table' : i < j => table'[i] < table'[j]
    BY <1>0, <2>1, <2>2 DEF FreshId
  <2>. QED  BY <1>0, <2>1, <2>2, <2>3
<1>4. CASE UNCHANGED table /\ accepted' = accepted /\ (EventInHand' => EventInHand)
  BY <1>0, <1>4
<1>. QED  BY <1>1, <1>2, <1>3, <1>4, TableChanges, HandChanges

(* No step leaves more than MaxSize rows in the table. *)
LEMMA BoundKept ==
  ASSUME Structure, [Next]_vars
  PROVE  BufferBounded'
<1>. USE DEF BufferBounded
<1>0. BufferBounded /\ IsFiniteSet(DOMAIN table) /\ Cardinality(DOMAIN table) \in Nat
  BY TableReady DEF Structure
<1>1. CASE UNCHANGED table
  BY <1>0, <1>1
<1>2. CASE RemoveConfirmed
  <2>1. DOMAIN table' \subseteq DOMAIN table
    BY <1>2, RemoveEffect
  <2>2. Cardinality(DOMAIN table') <= Cardinality(DOMAIN table) /\ Cardinality(DOMAIN table') \in Nat
    BY <1>0, <2>1, FS_Subset, FS_CardinalityType
  <2>. QED  BY <1>0, <2>2, MaxSizeAssumption
<1>3. CASE EnqueueEvent
  BY <1>3, EnqueueEffect
<1>. QED  BY <1>1, <1>2, <1>3, TableChanges

(* Every step keeps the structure. *)
LEMMA StructureKept ==
  ASSUME Structure, [Next]_vars
  PROVE  Structure'
BY TypesKept, TableTypesKept, HandKept, WaitKept, BatchKept, OrderKept, BoundKept DEF Structure

-----------------------------------------------------------------------------
(* The thread lets go of the event in hand only when it was acknowledged,  *)
(* stored, or taken by the end of the process; what was overflowed or lost *)
(* stays so.                                                               *)
LEMMA HandReleased ==
  ASSUME [Next]_vars
  PROVE  /\ EventInHand => EventInHand' \/ LiveConfirmed \/ EnqueueEvent \/ ProcessEnds
         /\ overflowed \subseteq overflowed'
         /\ lost \subseteq lost'
<1>. USE DEF EventInHand, Goto, bufferVars, replayVars, gatewayVars, vars, historyVars
<1>1. CASE UNCHANGED vars
  BY <1>1
<1>2. CASE CheckConnection \/ DecideReplay \/ ProcessEnds \/ ProcessStarts
  BY <1>2 DEF CheckConnection, DecideReplay, ProcessEnds, ProcessStarts
<1>3. CASE Reconnect
  BY <1>3 DEF Reconnect, AttemptNotDue, AttemptFails, ResumeLink, StartReconnect, ReconnectSucceeds,
     ReconnectFails, FinishReconnect
<1>4. CASE ReplayBuffered
  BY <1>4 DEF ReplayBuffered, PeekEmpty, PeekRows, RowNotSent, SendRow, RowConfirmed, RowUnconfirmed,
     RemoveConfirmed
<1>5. CASE HandleFrame
  BY <1>5 DEF HandleFrame, RecvNothing, RecvRejected, RecvAccepted, LiveRefused, SendLive, LiveConfirmed,
     LiveUnconfirmed, RecordPublishFailure, EnqueueEvent, RecordBuffered
<1>6. CASE Environment
  BY <1>6 DEF Environment, Meanwhile
<1>. QED  BY <1>1, <1>2, <1>3, <1>4, <1>5, <1>6 DEF Next, GatewayThread

Accounted(e) ==
  \/ received[e] > 0
  \/ \E i \in DOMAIN table : table[i] = e
  \/ EventInHand /\ e = accepted
  \/ e \in overflowed
  \/ e \in lost

AllAccounted == \A e \in 1 .. accepted : Accounted(e)

(* NoEventDisappears, event by event. *)
LEMMA AccountedMeans == Structure => (NoEventDisappears <=> AllAccounted)
<1>. SUFFICES ASSUME Structure PROVE NoEventDisappears <=> AllAccounted
  OBVIOUS
<1>1. 1 .. accepted \subseteq Event
  BY EventsAssumption DEF Structure, TypeOK, ThreadTypeOK, Event
<1>2. \A e \in Event : e \in Delivered <=> received[e] > 0
  BY DEF Delivered
<1>3. \A e : e \in Range(table) <=> \E i \in DOMAIN table : table[i] = e
  BY DEF Range
<1>4. \A e : e \in InHand <=> EventInHand /\ e = accepted
  BY DEF InHand
<1>. QED  BY <1>1, <1>2, <1>3, <1>4 DEF NoEventDisappears, AllAccounted, Accounted

(* No step makes an accepted event disappear. *)
LEMMA NoEventDisappearsStep ==
  ASSUME Structure, NoEventDisappears, [Next]_vars
  PROVE  NoEventDisappears'
<1>. USE DEF AllAccounted, Accounted
<1>0. /\ \A e \in 1 .. accepted : Accounted(e) /\ e \in Event
      /\ accepted \in Nat
  BY AccountedMeans, EventsAssumption DEF Structure, TypeOK, ThreadTypeOK, Event
<1>. SUFFICES AllAccounted'
  BY StructureKept, AccountedMeans, PTL
<1>. SUFFICES ASSUME NEW e \in 1 .. accepted' PROVE Accounted(e)'
  OBVIOUS
<1>1. CASE RecvAccepted
  <2>1. /\ accepted' = accepted + 1 /\ EventInHand' /\ ~EventInHand
        /\ UNCHANGED <<table, received, overflowed, lost>>
    BY <1>1 DEF RecvAccepted, EventInHand, Goto, bufferVars, publisherVars, messageVars
  <2>2. e \in 1 .. accepted \/ e = accepted + 1
    BY <1>0, <2>1
  <2>. QED  BY <1>0, <2>1, <2>2
<1>2. CASE RemoveConfirmed
  <2>1. /\ accepted' = accepted /\ ~EventInHand
        /\ UNCHANGED <<received, overflowed, lost>>
    BY <1>2 DEF RemoveConfirmed, EventInHand, historyVars, publisherVars, messageVars
  <2>2. \A i \in confirmed : received[table[i]] > 0
    BY DEF Structure, BatchIsOldest
  <2>. QED  BY <1>0, <1>2, <2>1, <2>2, RemoveEffect
<1>3. CASE EnqueueEvent
  <2>1. /\ accepted' = accepted /\ UNCHANGED <<received, lost>>
    BY <1>3 DEF EnqueueEvent, publisherVars, messageVars
  <2>. QED  BY <1>0, <1>3, <2>1, EnqueueEffect
<1>4. CASE LiveConfirmed
  <2>1. received[accepted] > 0 /\ accepted' = accepted /\ UNCHANGED <<table, received, overflowed, lost>>
    BY <1>4 DEF LiveConfirmed, PublishConfirmed, Structure, WaitsForItsMessage, bufferVars
  <2>. QED  BY <1>0, <2>1
<1>5. CASE ProcessEnds
  <2>1. lost' = lost \cup InHand /\ UNCHANGED <<accepted, table, received, overflowed>>
    BY <1>5 DEF ProcessEnds, PublisherGone
  <2>. QED  BY <1>0, <2>1 DEF InHand
<1>6. CASE UNCHANGED table /\ accepted' = accepted /\ (EventInHand => EventInHand')
  BY <1>0, <1>6, ReceivedStays, HandReleased
<1>. QED
  BY <1>1, <1>2, <1>3, <1>4, <1>5, <1>6, TableChanges, HandChanges, HandReleased

-----------------------------------------------------------------------------

(* The event in hand counts as refused only from the moment publish() saw  *)
(* the publisher disconnected, and it stays so until the event is stored.  *)
RefusedWhileDown ==
  /\ pc \in {"publish", "liveAwait"} => accepted \notin outage
  /\ pc \in {"failed", "enqueue"} /\ accepted \in outage => ~connected
  /\ \A e \in outage : e <= accepted

(* Every step keeps RefusedWhileDown: only the thread itself, when it      *)
(* reconnects, turns the publisher back to connected.                      *)
LEMMA RefusedKept ==
  ASSUME Structure, RefusedWhileDown, [Next]_vars
  PROVE  RefusedWhileDown'
<1>. USE DEF RefusedWhileDown, Goto
<1>. USE DEF bufferVars, replayVars, gatewayVars, vars, historyVars, publisherVars, flagVars, linkVars, messageVars
<1>0. accepted \in Nat /\ outage \subseteq Nat
  BY EventsAssumption DEF Structure, TypeOK, ThreadTypeOK, HistoryTypeOK, Event
<1>1. CASE UNCHANGED vars
  BY <1>1
<1>2. CASE CheckConnection \/ DecideReplay \/ ProcessEnds \/ ProcessStarts
  BY <1>2 DEF CheckConnection, DecideReplay, ProcessEnds, ProcessStarts
<1>3. CASE Reconnect
  BY <1>3 DEF Reconnect, AttemptNotDue, AttemptFails, ResumeLink, StartReconnect, ReconnectSucceeds,
     ReconnectFails, FinishReconnect
<1>4. CASE ReplayBuffered
  BY <1>4 DEF ReplayBuffered, PeekEmpty, PeekRows, RowNotSent, SendRow, RowConfirmed, RowUnconfirmed,
     RemoveConfirmed
<1>5. CASE RecvNothing \/ RecvRejected \/ RecvAccepted
  BY <1>0, <1>5 DEF RecvNothing, RecvRejected, RecvAccepted
<1>6. CASE LiveRefused
  BY <1>0, <1>6 DEF LiveRefused, PublishRefused, Structure, TypeOK, PublisherTypeOK
<1>7. CASE SendLive \/ LiveConfirmed \/ LiveUnconfirmed
  BY <1>7 DEF SendLive, LiveConfirmed, LiveUnconfirmed
<1>8. CASE RecordPublishFailure \/ EnqueueEvent \/ RecordBuffered
  BY <1>8 DEF RecordPublishFailure, EnqueueEvent, RecordBuffered
<1>9. CASE Environment
  <2>1. connected' => connected
    BY <1>9, EventsInUse, EnvironmentKeepsWait
    DEF Environment, Meanwhile, Structure, TypeOK, WaitsForItsMessage
  <2>. QED  BY <1>9, <2>1 DEF Environment, Meanwhile
<1>. QED
  BY <1>1, <1>2, <1>3, <1>4, <1>5, <1>6, <1>7, <1>8, <1>9 DEF Next, GatewayThread, HandleFrame

(* No step strands a backlog: what connects the publisher also requests a  *)
(* replay, a request is dropped only over an empty table, and an event     *)
(* refused during an outage is stored while the outage lasts.              *)
LEMMA BacklogIsOwedStep ==
  ASSUME Structure, RefusedWhileDown, BacklogIsOwed, [Next]_vars
  PROVE  BacklogIsOwed'
<1>. USE DEF BacklogIsOwed, Goto
<1>. USE DEF bufferVars, replayVars, gatewayVars, vars, historyVars, publisherVars, flagVars, linkVars, messageVars
<1>0. UNCHANGED <<connected, replayRequested, table, outage, startEvents>> => BacklogIsOwed'
  OBVIOUS
<1>1. CASE UNCHANGED vars
  BY <1>1
<1>2. CASE CheckConnection \/ DecideReplay
  BY <1>2 DEF CheckConnection, DecideReplay
<1>3. CASE ProcessEnds
  BY <1>3 DEF ProcessEnds, PublisherGone
<1>4. CASE ProcessStarts
  BY <1>4 DEF ProcessStarts
<1>5. CASE ResumeLink \/ FinishReconnect
  BY <1>5 DEF ResumeLink, FinishReconnect
<1>6. CASE Reconnect /\ ~ResumeLink /\ ~FinishReconnect
  BY <1>0, <1>6 DEF Reconnect, AttemptNotDue, AttemptFails, StartReconnect, ReconnectSucceeds, ReconnectFails,
     AttemptHitsSimulatedOutage, AttemptNeedsNewLink, NewLinkOpened, NewLinkRefused
<1>7. CASE PeekEmpty
  <2>1. DOMAIN table = {}
    <3>1. DOMAIN table \in SUBSET Nat /\ BatchSize \in Int /\ BatchSize >= 1
      BY BatchSizeAssumption DEF Structure, TypeOK, TableTypeOK, RowIds
    <3>. QED  BY <1>7, <3>1, OldestHasFirst DEF PeekEmpty, PeekBatch
  <2>. QED  BY <1>7, <2>1 DEF PeekEmpty
<1>8. CASE RemoveConfirmed
  <2>1. UNCHANGED <<connected, outage, startEvents, replayRequested>>
    BY <1>8 DEF RemoveConfirmed
  <2>. QED  BY <1>8, <2>1, RemoveEffect
<1>9. CASE PeekRows \/ RowNotSent \/ SendRow \/ RowConfirmed \/ RowUnconfirmed
  BY <1>0, <1>9 DEF PeekRows, RowNotSent, SendRow, RowConfirmed, RowUnconfirmed,
     PublishRefused, PublishHandedOver, PublishConfirmed, PublishUnconfirmed
<1>10. CASE RecvNothing \/ RecvRejected \/ RecvAccepted
  BY <1>10 DEF RecvNothing, RecvRejected, RecvAccepted
<1>11. CASE LiveRefused
  <2>1. \A i \in DOMAIN table : table[i] # accepted
    BY <1>11 DEF LiveRefused, Structure, RowsInAcceptanceOrder, EventInHand, TypeOK, TableTypeOK, ThreadTypeOK, Event
  <2>. QED  BY <1>11, <2>1 DEF LiveRefused, PublishRefused
<1>12. CASE SendLive \/ LiveConfirmed \/ LiveUnconfirmed \/ RecordPublishFailure \/ RecordBuffered
  BY <1>0, <1>12 DEF SendLive, LiveConfirmed, LiveUnconfirmed, RecordPublishFailure, RecordBuffered,
     PublishHandedOver, PublishConfirmed, PublishUnconfirmed
<1>13. CASE EnqueueEvent
  <2>1. UNCHANGED <<connected, outage, startEvents, replayRequested>> /\ pc = "enqueue"
    BY <1>13 DEF EnqueueEvent
  <2>2. connected => accepted \notin outage /\ ~(accepted <= startEvents)
    BY <2>1, EventsAssumption
    DEF RefusedWhileDown, Structure, HandOfThisProcess, EventInHand, TypeOK, ThreadTypeOK, HistoryTypeOK
  <2>. QED  BY <1>13, <2>1, <2>2, EnqueueEffect
<1>14. CASE Environment
  <2>1. connected' => connected
    BY <1>14, EventsInUse, EnvironmentKeepsWait
    DEF Environment, Meanwhile, Structure, TypeOK, WaitsForItsMessage
  <2>. QED  BY <1>14, <2>1 DEF Environment, Meanwhile
<1>. QED
  BY <1>1, <1>2, <1>3, <1>4, <1>5, <1>6, <1>7, <1>8, <1>9, <1>10, <1>11, <1>12, <1>13, <1>14
  DEF Next, GatewayThread, ReplayBuffered, HandleFrame

-----------------------------------------------------------------------------

(* A process that starts counts from zero. *)
CountersStartOver == pc = "down" => metrics = NoMetrics /\ droppedCount = 0

(* Nothing is counted while there is no process. *)
LEMMA CountersStartOverStep ==
  ASSUME Structure, CountersStartOver, [Next]_vars
  PROVE  CountersStartOver'
<1>. USE DEF CountersStartOver, Goto, bufferVars, replayVars, gatewayVars, vars, historyVars
<1>1. CASE UNCHANGED vars
  BY <1>1
<1>2. CASE CheckConnection \/ DecideReplay \/ ProcessEnds \/ ProcessStarts
  BY <1>2 DEF CheckConnection, DecideReplay, ProcessEnds, ProcessStarts
<1>3. CASE Reconnect
  BY <1>3 DEF Reconnect, AttemptNotDue, AttemptFails, ResumeLink, StartReconnect, ReconnectSucceeds,
     ReconnectFails, FinishReconnect
<1>4. CASE ReplayBuffered
  BY <1>4 DEF ReplayBuffered, PeekEmpty, PeekRows, RowNotSent, SendRow, RowConfirmed, RowUnconfirmed,
     RemoveConfirmed
<1>5. CASE HandleFrame
  BY <1>5 DEF HandleFrame, RecvNothing, RecvRejected, RecvAccepted, LiveRefused, SendLive, LiveConfirmed,
     LiveUnconfirmed, RecordPublishFailure, EnqueueEvent, RecordBuffered
<1>6. CASE Environment
  BY <1>6 DEF Environment, Meanwhile
<1>. QED  BY <1>1, <1>2, <1>3, <1>4, <1>5, <1>6 DEF Next, GatewayThread

(* No step puts the counters out of step with the table. *)
LEMMA CountersAddUpStep ==
  ASSUME Structure, CountersStartOver, CountersAddUp, [Next]_vars
  PROVE  CountersAddUp'
<1>. USE DEF CountersAddUp, Count, Goto, bufferVars, replayVars, gatewayVars, vars, historyVars
<1>0. /\ accepted \in Nat /\ startEvents \in Nat /\ startRows \in Nat /\ droppedCount \in Nat
      /\ metrics \in [processed : Nat, rejected : Nat, publish_failures : Nat, buffered : Nat, replayed : Nat]
      /\ Cardinality(DOMAIN table) \in Nat
      /\ IsFiniteSet(confirmed) /\ Cardinality(confirmed) \in Nat
      /\ ~Replaying => confirmed = {} /\ Cardinality(confirmed) = 0
  <2>1. confirmed \subseteq DOMAIN table /\ (~Replaying => confirmed = {})
    BY DEF Structure, BatchIsOldest
  <2>2. IsFiniteSet(confirmed) /\ Cardinality(confirmed) \in Nat
    BY <2>1, TableReady, FS_Subset, FS_CardinalityType
  <2>. QED
    BY <2>1, <2>2, TableReady, FS_EmptySet, EventsAssumption
    DEF Structure, TypeOK, ThreadTypeOK, HistoryTypeOK, CountersTypeOK
<1>1. CASE UNCHANGED vars
  BY <1>1
<1>2. CASE CheckConnection \/ DecideReplay
  BY <1>2 DEF CheckConnection, DecideReplay
<1>3. CASE ProcessEnds
  BY <1>3 DEF ProcessEnds
<1>4. CASE ProcessStarts
  <2>1. confirmed' = {} /\ Cardinality(confirmed') = 0
    BY <1>0, <1>4 DEF ProcessStarts, Replaying
  <2>. QED  BY <1>0, <1>4, <2>1 DEF ProcessStarts, CountersStartOver, NoMetrics
<1>5. CASE Reconnect
  BY <1>5 DEF Reconnect, AttemptNotDue, AttemptFails, ResumeLink, StartReconnect, ReconnectSucceeds,
     ReconnectFails, FinishReconnect
<1>6. CASE RowConfirmed
  <2>1. NextRow \notin confirmed /\ confirmed' = confirmed \cup {NextRow}
    BY <1>6, NextRowProperties DEF RowConfirmed
  <2>2. Cardinality(confirmed') = Cardinality(confirmed) + 1
    BY <1>0, <2>1, FS_AddElement
  <2>. QED  BY <1>0, <1>6, <2>2 DEF RowConfirmed
<1>7. CASE RemoveConfirmed
  <2>1. DOMAIN table' = DOMAIN table \ confirmed /\ confirmed \subseteq DOMAIN table
    BY <1>7, RemoveEffect DEF Structure, BatchIsOldest
  <2>2. Cardinality(DOMAIN table') = Cardinality(DOMAIN table) - Cardinality(confirmed)
    <3>1. DOMAIN table \cap confirmed = confirmed
      BY <2>1
    <3>2. Cardinality(DOMAIN table \ confirmed)
            = Cardinality(DOMAIN table) - Cardinality(DOMAIN table \cap confirmed)
      BY TableReady, FS_Difference
    <3>. QED  BY <2>1, <3>1, <3>2
  <2>3. confirmed' = {} /\ Cardinality(confirmed') = 0
    BY <1>7, FS_EmptySet DEF RemoveConfirmed
  <2>. QED  BY <1>0, <1>7, <2>2, <2>3 DEF RemoveConfirmed
<1>8. CASE PeekEmpty \/ PeekRows \/ RowNotSent \/ SendRow \/ RowUnconfirmed
  BY <1>8 DEF PeekEmpty, PeekRows, RowNotSent, SendRow, RowUnconfirmed
<1>9. CASE RecvNothing \/ RecvRejected \/ RecvAccepted
  BY <1>0, <1>9 DEF RecvNothing, RecvRejected, RecvAccepted
<1>10. CASE LiveRefused \/ SendLive \/ LiveUnconfirmed
  BY <1>10 DEF LiveRefused, SendLive, LiveUnconfirmed
<1>11. CASE LiveConfirmed
  BY <1>0, <1>11 DEF LiveConfirmed
<1>12. CASE RecordPublishFailure
  BY <1>0, <1>12 DEF RecordPublishFailure
<1>13. CASE RecordBuffered
  BY <1>0, <1>13 DEF RecordBuffered
<1>14. CASE EnqueueEvent
  <2>1. UNCHANGED <<metrics, accepted, startEvents, startRows, confirmed>> /\ pc = "enqueue" /\ pc' = "record"
    BY <1>14 DEF EnqueueEvent
  <2>. QED  BY <1>0, <1>14, <2>1, EnqueueEffect
<1>15. CASE Environment
  BY <1>15 DEF Environment, Meanwhile
<1>. QED
  BY <1>1, <1>2, <1>3, <1>4, <1>5, <1>6, <1>7, <1>8, <1>9, <1>10, <1>11, <1>12, <1>13, <1>14, <1>15
  DEF Next, GatewayThread, ReplayBuffered, HandleFrame

(* A row is sent only after every older stored row was confirmed. *)
LEMMA ReplayInOrderStep ==
  ASSUME Structure, [Next]_vars, pc = "row", pc' = "rowAwait",
         NEW i \in DOMAIN table, table[i] < sending'
  PROVE  i \in confirmed
<1>1. SendRow
  <2>. USE DEF Goto, bufferVars, replayVars, gatewayVars, vars, historyVars
  <2>1. CASE UNCHANGED vars
    BY <2>1
  <2>2. CASE CheckConnection \/ DecideReplay \/ ProcessEnds \/ ProcessStarts
    BY <2>2 DEF CheckConnection, DecideReplay, ProcessEnds, ProcessStarts
  <2>3. CASE Reconnect
    BY <2>3 DEF Reconnect, AttemptNotDue, AttemptFails, ResumeLink, StartReconnect, ReconnectSucceeds,
       ReconnectFails, FinishReconnect
  <2>4. CASE ReplayBuffered
    BY <2>4 DEF ReplayBuffered, PeekEmpty, PeekRows, RowNotSent, RowConfirmed, RowUnconfirmed, RemoveConfirmed
  <2>5. CASE HandleFrame
    BY <2>5 DEF HandleFrame, RecvNothing, RecvRejected, RecvAccepted, LiveRefused, SendLive, LiveConfirmed,
       LiveUnconfirmed, RecordPublishFailure, EnqueueEvent, RecordBuffered
  <2>6. CASE Environment
    BY <2>6 DEF Environment, Meanwhile
  <2>. QED  BY <2>1, <2>2, <2>3, <2>4, <2>5, <2>6 DEF Next, GatewayThread
<1>2. /\ NextRow \in batch \ confirmed /\ NextRow \in DOMAIN table
      /\ \A k \in batch \ confirmed : NextRow <= k
  BY NextRowProperties
<1>3. sending' = table[NextRow]
  BY <1>1 DEF SendRow, PublishHandedOver
<1>4. DOMAIN table \subseteq Nat /\ \A k \in DOMAIN table : table[k] \in Nat
  BY DEF Structure, TypeOK, TableTypeOK, RowIds, Event
<1>5. i < NextRow
  <2>1. ~(NextRow < i) /\ i # NextRow
    BY <1>2, <1>3, <1>4 DEF Structure, RowsInAcceptanceOrder
  <2>. QED  BY <1>2, <1>4, <2>1
<1>6. i \in batch
  BY <1>2, <1>5 DEF Structure, BatchIsOldest
<1>. QED  BY <1>2, <1>4, <1>5, <1>6

(* A row leaves the table received, or displaced as the oldest of a full   *)
(* table.                                                                  *)
LEMMA RowsLeaveStep ==
  ASSUME Structure, [Next]_vars, NEW i \in DOMAIN table \ DOMAIN table'
  PROVE  \/ received[table[i]] > 0
         \/ /\ Cardinality(DOMAIN table') = MaxSize
            /\ \A j \in DOMAIN table' : i < j
<1>1. CASE UNCHANGED table
  BY <1>1
<1>2. CASE RemoveConfirmed
  <2>1. i \in confirmed
    BY <1>2, RemoveEffect
  <2>. QED  BY <2>1 DEF Structure, BatchIsOldest
<1>3. CASE EnqueueEvent
  <2>1. i \in Displaced
    BY <1>3, EnqueueEffect
  <2>. QED  BY <1>3, <2>1, EnqueueEffect
<1>. QED  BY <1>1, <1>2, <1>3, TableChanges

-----------------------------------------------------------------------------

(* Only accepted events are with paho, or acknowledged; the one in hand is *)
(* not acknowledged; and there is no process only after one ended.         *)
NothingEarly ==
  /\ stale \subseteq 1 .. accepted
  /\ \A e \in acked : e <= accepted /\ (EventInHand => e < accepted)
  /\ pc = "down" => ends > 0

(* publish() never waits for an event that was not accepted. *)
LEMMA SendingAccepted ==
  ASSUME Structure, wait # "idle"
  PROVE  sending \in 1 .. accepted
<1>1. CASE pc = "liveAwait"
  BY <1>1, EventsInUse DEF Structure, WaitsForItsMessage, EventInHand, Event
<1>2. CASE pc = "rowAwait"
  <2>1. sending = table[NextRow] /\ NextRow \in DOMAIN table /\ table[NextRow] \in Event
    BY <1>2, NextRowProperties DEF Structure, WaitsForItsMessage
  <2>2. table[NextRow] <= accepted
    BY <2>1 DEF Structure, OnlyAccepted
  <2>. QED  BY <2>1, <2>2 DEF Event, Structure, TypeOK, ThreadTypeOK
<1>. QED  BY <1>1, <1>2 DEF Structure, WaitsForItsMessage

(* Every step keeps NothingEarly. *)
LEMMA NothingEarlyStep ==
  ASSUME Structure, NothingEarly, [Next]_vars
  PROVE  NothingEarly'
<1>. USE DEF NothingEarly, EventInHand, Goto
<1>. USE DEF bufferVars, replayVars, gatewayVars, vars, historyVars, publisherVars, flagVars, linkVars, messageVars
<1>0. accepted \in Nat /\ ends \in Nat /\ acked \subseteq Nat
  BY EventsAssumption, EndsAssumption DEF Structure, TypeOK, ThreadTypeOK, HistoryTypeOK, Event
<1>1. CASE UNCHANGED vars
  BY <1>1
<1>2. CASE CheckConnection \/ DecideReplay
  BY <1>2 DEF CheckConnection, DecideReplay
<1>3. CASE ProcessEnds \/ ProcessStarts
  <2>1. /\ UNCHANGED <<accepted, acked>> /\ ~EventInHand'
        /\ pc' = "down" => ends' > 0
    BY <1>0, <1>3 DEF ProcessEnds, ProcessStarts
  <2>2. stale' \subseteq stale
    BY <1>3 DEF ProcessEnds, ProcessStarts, PublisherGone, PublisherConnects
  <2>. QED  BY <2>1, <2>2
<1>4. CASE Reconnect
  BY <1>4 DEF Reconnect, AttemptNotDue, AttemptFails, ResumeLink, StartReconnect, ReconnectSucceeds,
     ReconnectFails, FinishReconnect, AttemptHitsSimulatedOutage, AttemptFindsLinkIntact, AttemptNeedsNewLink,
     NewLinkOpened, NewLinkRefused, MarkConnected
<1>5. CASE RowConfirmed \/ LiveConfirmed
  <2>1. sending \in 1 .. accepted /\ UNCHANGED <<accepted, stale, ends>> /\ ~EventInHand' /\ pc' # "down"
    BY <1>5, SendingAccepted DEF RowConfirmed, LiveConfirmed, PublishConfirmed
  <2>2. acked' = acked \cup {sending}
    BY <1>5 DEF RowConfirmed, LiveConfirmed
  <2>. QED  BY <1>0, <2>1, <2>2
<1>6. CASE RowUnconfirmed \/ LiveUnconfirmed
  <2>1. sending \in 1 .. accepted
    BY <1>6, SendingAccepted DEF RowUnconfirmed, LiveUnconfirmed, PublishUnconfirmed
  <2>. QED  BY <1>6, <2>1 DEF RowUnconfirmed, LiveUnconfirmed, PublishUnconfirmed
<1>7. CASE PeekEmpty \/ PeekRows \/ RowNotSent \/ SendRow \/ RemoveConfirmed
  BY <1>7 DEF PeekEmpty, PeekRows, RowNotSent, SendRow, RemoveConfirmed, PublishRefused, PublishHandedOver
<1>8. CASE RecvNothing \/ RecvRejected
  BY <1>8 DEF RecvNothing, RecvRejected
<1>9. CASE RecvAccepted
  BY <1>0, <1>9 DEF RecvAccepted
<1>10. CASE LiveRefused \/ SendLive
  BY <1>10 DEF LiveRefused, SendLive, PublishRefused, PublishHandedOver
<1>11. CASE RecordPublishFailure \/ EnqueueEvent \/ RecordBuffered
  BY <1>11 DEF RecordPublishFailure, EnqueueEvent, RecordBuffered
<1>12. CASE Environment
  <2>1. stale' \subseteq stale
    BY <1>12 DEF Environment, Meanwhile, PublisherEnvironment, LinkDrops, HandleDisconnect, PahoReopensLink,
       BrokerReceives, PubackArrives, PahoResends, InjectPublishFailures, ClearInjectedFailures,
       InjectConnectionOutage, ClearConnectionOutage
  <2>. QED  BY <1>12, <2>1 DEF Environment, Meanwhile
<1>. QED
  BY <1>1, <1>2, <1>3, <1>4, <1>5, <1>6, <1>7, <1>8, <1>9, <1>10, <1>11, <1>12
  DEF Next, GatewayThread, ReplayBuffered, HandleFrame

(* Every step keeps ConfirmedRowsLeave. *)
LEMMA ConfirmedRowsLeaveStep ==
  ASSUME Structure, NothingEarly, ConfirmedRowsLeave, [Next]_vars
  PROVE  ConfirmedRowsLeave'
<1>. USE DEF ConfirmedRowsLeave, Goto
<1>. USE DEF bufferVars, replayVars, gatewayVars, vars, historyVars
<1>0. /\ accepted \in Nat /\ ends \in Nat /\ startEvents \in Nat
      /\ \A i \in DOMAIN table : table[i] \in Nat /\ i \in Nat
      /\ ~Replaying => confirmed = {}
      /\ RowsInAcceptanceOrder /\ OnlyAccepted
  BY EventsAssumption, EndsAssumption
  DEF Structure, TypeOK, ThreadTypeOK, TableTypeOK, HistoryTypeOK, BatchIsOldest, Event, RowIds
<1>1. CASE UNCHANGED vars
  BY <1>1
<1>2. CASE CheckConnection \/ DecideReplay
  BY <1>2 DEF CheckConnection, DecideReplay
<1>3. CASE ProcessEnds
  BY <1>3 DEF ProcessEnds
<1>4. CASE ProcessStarts
  BY <1>0, <1>4 DEF ProcessStarts, NothingEarly, OnlyAccepted
<1>5. CASE Reconnect
  BY <1>5 DEF Reconnect, AttemptNotDue, AttemptFails, ResumeLink, StartReconnect, ReconnectSucceeds,
     ReconnectFails, FinishReconnect
<1>6. CASE RowConfirmed
  <2>1. /\ UNCHANGED <<table, ends, startEvents>>
        /\ acked' = acked \cup {sending} /\ confirmed' = confirmed \cup {NextRow}
        /\ sending = table[NextRow] /\ NextRow \in DOMAIN table /\ pc = "rowAwait"
    BY <1>6, NextRowProperties DEF RowConfirmed, Structure, WaitsForItsMessage
  <2>2. \A i \in DOMAIN table : table[i] = sending => i = NextRow
    BY <1>0, <2>1 DEF RowsInAcceptanceOrder
  <2>. QED  BY <2>1, <2>2
<1>7. CASE RemoveConfirmed
  <2>1. UNCHANGED <<acked, ends, startEvents>> /\ pc = "remove"
    BY <1>7 DEF RemoveConfirmed
  <2>. QED  BY <1>7, <2>1, RemoveEffect
<1>8. CASE PeekEmpty \/ PeekRows \/ RowNotSent \/ SendRow \/ RowUnconfirmed
  BY <1>8 DEF PeekEmpty, PeekRows, RowNotSent, SendRow, RowUnconfirmed
<1>9. CASE RecvNothing \/ RecvRejected \/ RecvAccepted \/ LiveRefused
  BY <1>9 DEF RecvNothing, RecvRejected, RecvAccepted, LiveRefused
<1>10. CASE LiveConfirmed
  <2>1. UNCHANGED <<table, confirmed, ends, startEvents>> /\ acked' = acked \cup {accepted} /\ EventInHand
        /\ pc = "liveAwait"
    BY <1>10 DEF LiveConfirmed, Structure, WaitsForItsMessage, EventInHand
  <2>2. \A i \in DOMAIN table : table[i] # accepted
    BY <1>0, <2>1 DEF RowsInAcceptanceOrder
  <2>. QED  BY <2>1, <2>2
<1>11. CASE SendLive \/ LiveUnconfirmed \/ RecordPublishFailure \/ RecordBuffered
  BY <1>11 DEF SendLive, LiveUnconfirmed, RecordPublishFailure, RecordBuffered
<1>12. CASE EnqueueEvent
  <2>1. UNCHANGED <<acked, confirmed, ends, startEvents>> /\ EventInHand /\ pc = "enqueue"
    BY <1>12 DEF EnqueueEvent, EventInHand
  <2>2. accepted \notin acked
    BY <1>0, <2>1 DEF NothingEarly
  <2>. QED  BY <1>12, <2>1, <2>2, EnqueueEffect
<1>13. CASE Environment
  BY <1>13 DEF Environment, Meanwhile
<1>. QED
  BY <1>1, <1>2, <1>3, <1>4, <1>5, <1>6, <1>7, <1>8, <1>9, <1>10, <1>11, <1>12, <1>13
  DEF Next, GatewayThread, ReplayBuffered, HandleFrame

-----------------------------------------------------------------------------

(* The inductive invariant: the structure, what it takes to prove each of  *)
(* the safety properties, and the properties themselves.                   *)
GatewayInvariant ==
  /\ Structure
  /\ RefusedWhileDown
  /\ CountersStartOver
  /\ NothingEarly
  /\ NoEventDisappears
  /\ BacklogIsOwed
  /\ CountersAddUp
  /\ ConfirmedRowsLeave

(* The invariant holds when a first process starts ... *)
LEMMA InvariantAtStart == Init => GatewayInvariant
<1>. SUFFICES ASSUME Init PROVE GatewayInvariant
  OBVIOUS
<1>. USE DEF Init, PublisherInit, EmptyTable
<1>1. RefusedWhileDown /\ CountersStartOver /\ NothingEarly
  BY DEF RefusedWhileDown, CountersStartOver, NothingEarly, EventInHand
<1>2. NoEventDisappears /\ BacklogIsOwed /\ ConfirmedRowsLeave
  <2>1. 1 .. accepted = {}
    OBVIOUS
  <2>. QED  BY <2>1 DEF NoEventDisappears, BacklogIsOwed, ConfirmedRowsLeave
<1>3. CountersAddUp
  <2>1. Cardinality(DOMAIN table) = 0 /\ Cardinality(confirmed) = 0
    BY FS_EmptySet
  <2>. QED  BY <2>1 DEF CountersAddUp, NoMetrics, Count
<1>. QED  BY <1>1, <1>2, <1>3, StructureAtStart DEF GatewayInvariant

(* ... every step keeps it ... *)
LEMMA InvariantKept == GatewayInvariant /\ [Next]_vars => GatewayInvariant'
BY StructureKept, RefusedKept, CountersStartOverStep, NothingEarlyStep, NoEventDisappearsStep,
   BacklogIsOwedStep, CountersAddUpStep, ConfirmedRowsLeaveStep
DEF GatewayInvariant

(* ... so it holds in every state the gateway reaches. *)
THEOREM InvariantAlways == Spec => []GatewayInvariant
BY InvariantAtStart, InvariantKept, PTL DEF Spec

(* Every variable stays in its type, for every table size, batch size and  *)
(* bound.                                                                  *)
THEOREM TypesHold == Spec => []TypeOK
<1>1. GatewayInvariant => TypeOK
  BY DEF GatewayInvariant, Structure
<1>. QED  BY <1>1, InvariantAlways, PTL

(* No accepted event disappears, through drops, failed publishes, partial  *)
(* replays, crashes and restarts (run_once(), _replay_buffered(), run()).  *)
THEOREM NoEventEverDisappears == Spec => []NoEventDisappears
<1>1. GatewayInvariant => NoEventDisappears
  BY DEF GatewayInvariant
<1>. QED  BY <1>1, InvariantAlways, PTL

(* ORDER BY id ASC is the order of acceptance in every table the gateway   *)
(* leaves behind, across restarts (buffer.py, AUTOINCREMENT).              *)
THEOREM RowsStayInOrder == Spec => []RowsInAcceptanceOrder
<1>1. GatewayInvariant => RowsInAcceptanceOrder
  BY DEF GatewayInvariant, Structure
<1>. QED  BY <1>1, InvariantAlways, PTL

(* The table never holds more than max_size rows (buffer.py, enqueue()). *)
THEOREM BufferStaysBounded == Spec => []BufferBounded
<1>1. GatewayInvariant => BufferBounded
  BY DEF GatewayInvariant, Structure
<1>. QED  BY <1>1, InvariantAlways, PTL

(* No outage or restart strands a backlog while the publisher is connected *)
(* (gateway.py, _replay_requested).                                        *)
THEOREM BacklogAlwaysOwed == Spec => []BacklogIsOwed
<1>1. GatewayInvariant => BacklogIsOwed
  BY DEF GatewayInvariant
<1>. QED  BY <1>1, InvariantAlways, PTL

(* The counters and the table can be reconciled at every step (metrics.py, *)
(* buffer.py dropped_count).                                               *)
THEOREM CountersAlwaysAddUp == Spec => []CountersAddUp
<1>1. GatewayInvariant => CountersAddUp
  BY DEF GatewayInvariant
<1>. QED  BY <1>1, InvariantAlways, PTL

(* Without a crash the gateway publishes nothing twice that was confirmed  *)
(* to it (_replay_buffered(), remove()).                                   *)
THEOREM ConfirmedRowsAlwaysLeave == Spec => []ConfirmedRowsLeave
<1>1. GatewayInvariant => ConfirmedRowsLeave
  BY DEF GatewayInvariant
<1>. QED  BY <1>1, InvariantAlways, PTL

(* A replay never overtakes an older row (_replay_buffered()). *)
THEOREM ReplayAlwaysInOrder == Spec => ReplayInOrder
<1>1. GatewayInvariant /\ [Next]_vars =>
        [pc = "row" /\ pc' = "rowAwait" => \A i \in DOMAIN table : table[i] < sending' => i \in confirmed]_vars
  BY ReplayInOrderStep DEF GatewayInvariant
<1>. QED  BY <1>1, InvariantAlways, PTL DEF Spec, ReplayInOrder

(* A row leaves the table received or displaced (remove(),                 *)
(* _trim_to_max_locked()).                                                 *)
THEOREM RowsAlwaysLeaveForAReason == Spec => RowsLeaveForAReason
<1>1. GatewayInvariant /\ [Next]_vars =>
        [\A i \in DOMAIN table \ DOMAIN table' :
           \/ received[table[i]] > 0
           \/ /\ Cardinality(DOMAIN table') = MaxSize
              /\ \A j \in DOMAIN table' : i < j]_vars
  BY RowsLeaveStep DEF GatewayInvariant
<1>. QED  BY <1>1, InvariantAlways, PTL DEF Spec, RowsLeaveForAReason

-----------------------------------------------------------------------------
(***************************************************************************)
(* The edge gateway implements TelemetryDelivery, for every value of the   *)
(* constants: the initial states map to initial states, every step to a    *)
(* step or a stutter.                                                      *)
(***************************************************************************)

(* What one step does to the events the gateway has custody of and to      *)
(* those the broker has, in the terms of TelemetryDelivery.                *)
Custody == Range(table) \cup InHand

(* The event in hand is newer than every stored one, so it is not stored. *)
LEMMA HandNotStored ==
  ASSUME Structure, EventInHand
  PROVE  \A i \in DOMAIN table : table[i] < accepted /\ table[i] # accepted
BY EventsAssumption DEF Structure, RowsInAcceptanceOrder, TypeOK, TableTypeOK, ThreadTypeOK, Event

(* As many events are stored as there are rows. *)
LEMMA StoredCount ==
  ASSUME Structure
  PROVE  IsFiniteSet(Range(table)) /\ Cardinality(Range(table)) = Cardinality(DOMAIN table)
<1>1. \A i, j \in DOMAIN table : table[i] = table[j] => i = j
  BY DEF Structure, RowsInAcceptanceOrder, TypeOK, TableTypeOK, RowIds, Event
<1>2. table \in Bijection(DOMAIN table, Range(table))
  <2>1. table \in [DOMAIN table -> Range(table)]
    BY DEF Range, Structure, TypeOK, TableTypeOK
  <2>2. table \in Injection(DOMAIN table, Range(table))
    BY <1>1, <2>1 DEF Injection, IsInjective
  <2>3. table \in Surjection(DOMAIN table, Range(table))
    BY <2>1 DEF Surjection, Range
  <2>. QED  BY <2>2, <2>3 DEF Bijection
<1>3. ExistsBijection(DOMAIN table, Range(table))
  BY <1>2 DEF ExistsBijection
<1>. QED  BY <1>3, TableReady, FS_Bijection

(* What the broker has changes in two steps only. *)
LEMMA ReceivedChanges ==
  ASSUME [Next]_vars
  PROVE  UNCHANGED received \/ Meanwhile(BrokerReceives) \/ Meanwhile(PahoResends)
<1>. USE DEF vars, publisherVars, messageVars
<1>1. CASE UNCHANGED vars
  BY <1>1
<1>2. CASE CheckConnection \/ DecideReplay
  BY <1>2 DEF CheckConnection, DecideReplay
<1>3. CASE ProcessEnds \/ ProcessStarts
  BY <1>3 DEF ProcessEnds, ProcessStarts, PublisherGone, PublisherConnects
<1>4. CASE Reconnect
  BY <1>4 DEF Reconnect, AttemptNotDue, AttemptFails, ResumeLink, StartReconnect, ReconnectSucceeds,
     ReconnectFails, FinishReconnect, AttemptHitsSimulatedOutage, AttemptFindsLinkIntact, AttemptNeedsNewLink,
     NewLinkOpened, NewLinkRefused, MarkConnected
<1>5. CASE ReplayBuffered
  BY <1>5 DEF ReplayBuffered, PeekEmpty, PeekRows, RowNotSent, SendRow, RowConfirmed, RowUnconfirmed,
     RemoveConfirmed, PublishRefused, PublishHandedOver, PublishConfirmed, PublishUnconfirmed
<1>6. CASE HandleFrame
  BY <1>6 DEF HandleFrame, RecvNothing, RecvRejected, RecvAccepted, LiveRefused, SendLive, LiveConfirmed,
     LiveUnconfirmed, RecordPublishFailure, EnqueueEvent, RecordBuffered,
     PublishRefused, PublishHandedOver, PublishConfirmed, PublishUnconfirmed
<1>7. CASE Environment
  BY <1>7 DEF Environment, Meanwhile, PublisherEnvironment, LinkDrops, HandleDisconnect, PahoReopensLink,
     PubackArrives, InjectPublishFailures, ClearInjectedFailures, InjectConnectionOutage, ClearConnectionOutage
<1>. QED  BY <1>1, <1>2, <1>3, <1>4, <1>5, <1>6, <1>7 DEF Next, GatewayThread

(* Only ProcessEnds counts as an end of the process. *)
LEMMA EndsChange ==
  ASSUME [Next]_vars
  PROVE  UNCHANGED ends \/ ProcessEnds
<1>. USE DEF vars, gatewayVars, historyVars
<1>1. CASE UNCHANGED vars
  BY <1>1
<1>2. CASE CheckConnection \/ DecideReplay \/ ProcessEnds \/ ProcessStarts
  BY <1>2 DEF CheckConnection, DecideReplay, ProcessEnds, ProcessStarts
<1>3. CASE Reconnect
  BY <1>3 DEF Reconnect, AttemptNotDue, AttemptFails, ResumeLink, StartReconnect, ReconnectSucceeds,
     ReconnectFails, FinishReconnect
<1>4. CASE ReplayBuffered
  BY <1>4 DEF ReplayBuffered, PeekEmpty, PeekRows, RowNotSent, SendRow, RowConfirmed, RowUnconfirmed,
     RemoveConfirmed
<1>5. CASE HandleFrame
  BY <1>5 DEF HandleFrame, RecvNothing, RecvRejected, RecvAccepted, LiveRefused, SendLive, LiveConfirmed,
     LiveUnconfirmed, RecordPublishFailure, EnqueueEvent, RecordBuffered
<1>6. CASE Environment
  BY <1>6 DEF Environment, Meanwhile
<1>. QED  BY <1>1, <1>2, <1>3, <1>4, <1>5, <1>6 DEF Next, GatewayThread

(* Every step of the gateway is a step of TelemetryDelivery or changes     *)
(* nothing it speaks of.                                                   *)
LEMMA PromiseStep ==
  ASSUME Structure, NothingEarly, [Next]_vars
  PROVE  Promise!Next \/ UNCHANGED <<accepted, Custody, Delivered, ends>>
<1>0. accepted \in Nat /\ 1 .. accepted \subseteq Event
  BY EventsAssumption DEF Structure, TypeOK, ThreadTypeOK, Event
<1>1. CASE RecvAccepted
  <2>1. /\ accepted < MaxEvents /\ accepted' = accepted + 1 /\ ~EventInHand /\ EventInHand'
        /\ UNCHANGED <<table, received, ends>>
    BY <1>1 DEF RecvAccepted, EventInHand, Goto, bufferVars, publisherVars, messageVars
  <2>2. Custody' = Custody \cup {accepted + 1} /\ Delivered' = Delivered
    BY <2>1 DEF Custody, InHand, Delivered
  <2>. QED  BY <2>1, <2>2 DEF Promise!Next, Promise!Accept, Custody
<1>2. CASE Meanwhile(BrokerReceives)
  <2>1. /\ UNCHANGED <<accepted, table, pc, ends>>
        /\ received' = [received EXCEPT ![sending] = OneMore(@)] /\ sending \in 1 .. accepted
    BY <1>2, SendingAccepted DEF Meanwhile, BrokerReceives, gatewayVars, bufferVars, historyVars
  <2>2. Custody' = Custody
    BY <2>1 DEF Custody, InHand, EventInHand
  <2>3. Delivered' = Delivered \cup {sending}
    BY <1>0, <2>1 DEF Delivered, OneMore, Structure, TypeOK, PublisherTypeOK
  <2>. QED  BY <2>1, <2>2, <2>3 DEF Promise!Next, Promise!Deliver, Custody
<1>3. CASE Meanwhile(PahoResends)
  <2>1. PICK e \in stale : received' = [received EXCEPT ![e] = OneMore(@)]
    BY <1>3 DEF Meanwhile, PahoResends
  <2>2. UNCHANGED <<accepted, table, pc, ends>> /\ e \in 1 .. accepted
    BY <1>3 DEF Meanwhile, gatewayVars, bufferVars, historyVars, NothingEarly
  <2>3. Custody' = Custody
    BY <2>2 DEF Custody, InHand, EventInHand
  <2>4. Delivered' = Delivered \cup {e}
    BY <1>0, <2>1, <2>2 DEF Delivered, OneMore, Structure, TypeOK, PublisherTypeOK
  <2>. QED  BY <2>2, <2>3, <2>4 DEF Promise!Next, Promise!Deliver, Custody
<1>4. CASE LiveConfirmed
  <2>1. /\ received[accepted] > 0 /\ EventInHand /\ ~EventInHand'
        /\ UNCHANGED <<accepted, table, received, ends>>
    BY <1>4 DEF LiveConfirmed, PublishConfirmed, Structure, WaitsForItsMessage, bufferVars, EventInHand, Goto
  <2>2. Custody' = Custody \ {accepted} /\ accepted \in Custody
    BY <2>1, HandNotStored DEF Custody, InHand, Range
  <2>3. Delivered' = Delivered /\ accepted \in Delivered
    BY <2>1, EventsInUse DEF Delivered
  <2>. QED  BY <2>1, <2>2, <2>3 DEF Promise!Next, Promise!Release, Custody
<1>5. CASE RemoveConfirmed
  <2>. DEFINE gone == {table[i] : i \in confirmed}
  <2>1. UNCHANGED <<accepted, received, ends>> /\ ~EventInHand /\ ~EventInHand' /\ confirmed \subseteq DOMAIN table
    BY <1>5 DEF RemoveConfirmed, EventInHand, Goto, publisherVars, messageVars, historyVars,
       Structure, BatchIsOldest
  <2>2. \A i, j \in DOMAIN table : table[i] = table[j] => i = j
    BY DEF Structure, RowsInAcceptanceOrder, TypeOK, TableTypeOK, RowIds, Event
  <2>3. Custody' = Custody \ gone
    <3>1. Custody = {table[i] : i \in DOMAIN table}
      BY <2>1 DEF Custody, InHand, Range
    <3>2. Custody' = {table[i] : i \in DOMAIN table \ confirmed}
      BY <1>5, <2>1, RemoveEffect DEF Custody, InHand, Range
    <3>. QED  BY <2>1, <2>2, <3>1, <3>2
  <2>4. gone \subseteq Delivered /\ Delivered' = Delivered /\ gone \subseteq Custody
    BY <2>1 DEF Delivered, Structure, BatchIsOldest, TypeOK, TableTypeOK, Custody, Range
  <2>. QED  BY <2>1, <2>3, <2>4 DEF Promise!Next, Promise!Release, Custody
<1>6. CASE EnqueueEvent
  <2>1. UNCHANGED <<accepted, received, ends>> /\ EventInHand /\ ~EventInHand'
    BY <1>6 DEF EnqueueEvent, EventInHand, Goto, publisherVars, messageVars, historyVars
  <2>2. Delivered' = Delivered
    BY <2>1 DEF Delivered
  <2>3. /\ Custody = {table[i] : i \in DOMAIN table} \cup {accepted}
        /\ Custody' = {table'[i] : i \in DOMAIN table'}
    BY <2>1 DEF Custody, InHand, Range
  <2>4. {table'[i] : i \in DOMAIN table'} = {table[i] : i \in DOMAIN table \ Displaced} \cup {accepted}
    BY <1>6, EnqueueEffect
  <2>5. CASE Displaced = {}
    BY <2>1, <2>2, <2>3, <2>4, <2>5
  <2>6. CASE Displaced # {}
    <3>. DEFINE f == FirstOf(DOMAIN table)
    <3>1. Displaced = {f} /\ Cardinality(DOMAIN table) = MaxSize /\ f \in DOMAIN table
      BY <1>6, <2>6, EnqueueEffect
    <3>2. \A i \in DOMAIN table : f <= i
      <4>1. DOMAIN table \in SUBSET Nat /\ DOMAIN table # {}
        BY <3>1 DEF Structure, TypeOK, TableTypeOK, RowIds
      <4>. QED  BY <4>1, FirstOfProperties
    <3>3. \A i \in DOMAIN table : table[f] <= table[i] /\ table[f] < accepted /\ table[f] # accepted
                                     /\ (i # f => table[i] # table[f])
      <4>1. f \in Nat /\ \A i \in DOMAIN table : i \in Nat /\ table[i] \in Nat
        BY <3>1 DEF Structure, TypeOK, TableTypeOK, RowIds, Event
      <4>2. \A i \in DOMAIN table : i # f => f < i
        BY <3>2, <4>1
      <4>3. \A i \in DOMAIN table : i # f => table[f] < table[i]
        BY <3>1, <4>2 DEF Structure, RowsInAcceptanceOrder
      <4>. QED  BY <2>1, <3>1, <4>1, <4>3, HandNotStored
    <3>4. Custody' = Custody \ {table[f]} /\ table[f] \in Custody
      BY <2>3, <2>4, <3>1, <3>3
    <3>5. \A e \in Custody : table[f] <= e
      <4>1. table[f] \in Nat
        BY <3>1 DEF Structure, TypeOK, TableTypeOK, Event
      <4>2. table[f] <= accepted
        BY <1>0, <3>1, <3>3, <4>1
      <4>. QED  BY <2>3, <3>3, <4>2
    <3>6. Cardinality(Custody) = MaxSize + 1
      <4>1. accepted \notin Range(table)
        BY <2>1, HandNotStored DEF Range
      <4>2. Custody = Range(table) \cup {accepted}
        BY <2>1 DEF Custody, InHand
      <4>3. /\ IsFiniteSet(Range(table)) /\ Cardinality(Range(table)) = MaxSize
        BY <3>1, StoredCount
      <4>. QED  BY <4>1, <4>2, <4>3, FS_AddElement
    <3>7. \E e \in Custody : (\A other \in Custody : e <= other) /\ Custody' = Custody \ {e}
      BY <3>4, <3>5
    <3>8. Promise!GiveUpOldest
      <4>1. Cardinality(Range(table) \cup InHand) = MaxSize + 1
        BY <3>6 DEF Custody
      <4>2. \E e \in Range(table) \cup InHand :
              /\ \A other \in Range(table) \cup InHand : e <= other
              /\ (Range(table) \cup InHand)' = (Range(table) \cup InHand) \ {e}
        BY <3>7 DEF Custody
      <4>3. UNCHANGED <<accepted, Delivered, ends>>
        BY <2>1, <2>2
      <4>4. Promise!Cardinality(Range(table) \cup InHand) = Cardinality(Range(table) \cup InHand)
        BY DEF Promise!Cardinality, Cardinality
      <4>. QED  BY <4>1, <4>2, <4>3, <4>4 DEF Promise!GiveUpOldest
    <3>. QED  BY <3>8 DEF Promise!Next
  <2>. QED  BY <2>5, <2>6
<1>7. CASE ProcessEnds
  <2>1. ends' = ends + 1 /\ UNCHANGED <<accepted, table, received>> /\ ~EventInHand'
    BY <1>7 DEF ProcessEnds, PublisherGone, EventInHand, Goto
  <2>2. Delivered' = Delivered
    BY <2>1 DEF Delivered
  <2>3. Custody' = Range(table)
    BY <2>1 DEF Custody, InHand, Range
  <2>4. Range(table) \in {Custody, Custody \ {accepted}}
    BY HandNotStored DEF Custody, InHand, Range
  <2>. QED  BY <2>1, <2>2, <2>3, <2>4 DEF Promise!Next, Promise!ProcessEnds, Custody
<1>8. CASE /\ UNCHANGED <<table, received, ends, accepted>>
           /\ EventInHand' <=> EventInHand
  BY <1>8 DEF Custody, InHand, Delivered
<1>. QED
  BY <1>1, <1>2, <1>3, <1>4, <1>5, <1>6, <1>7, <1>8,
     TableChanges, HandChanges, HandReleased, ReceivedChanges, EndsChange

(* A first process starts as TelemetryDelivery does. *)
LEMMA PromiseAtStart == Init => Promise!Init
<1>. SUFFICES ASSUME Init PROVE Promise!Init
  OBVIOUS
<1>1. Range(table) \cup InHand = {} /\ Delivered = {}
  BY DEF Init, PublisherInit, EmptyTable, Range, InHand, EventInHand, Delivered
<1>. QED  BY <1>1 DEF Init, Promise!Init

-----------------------------------------------------------------------------

(* The gateway implements at-least-once delivery with its two exceptions:  *)
(* TelemetryDelivery under the refinement mapping of EdgeGatewayProperties. *)
THEOREM GatewayKeepsItsPromise == Spec => DeliversAsPromised
<1>1. GatewayInvariant /\ [Next]_vars => [Promise!Next]_(Promise!deliveryVars)
  BY PromiseStep DEF GatewayInvariant, Promise!deliveryVars, Custody
<1>. QED
  BY <1>1, PromiseAtStart, InvariantAlways, PTL DEF Spec, DeliversAsPromised, Promise!Spec

=============================================================================
