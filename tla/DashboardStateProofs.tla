-------------------------- MODULE DashboardStateProofs --------------------------
(***************************************************************************)
(* For every limit, any events and any number of callbacks of the four     *)
(* threads: the dashboard's state stays within its limits, the duplicates  *)
(* it counts are real, an event is shown as replayed exactly when its      *)
(* replay is recent enough, and the feed neither repeats nor miscounts.    *)
(***************************************************************************)
EXTENDS DashboardStateProperties, SequenceTheorems, FiniteSetTheorems,
        WellFoundedInduction, TLAPS

-----------------------------------------------------------------------------
(* The bounded stores.                                                     *)

(* A non-empty set of natural numbers has a least member.                  *)
LEMMA FirstInProperties ==
  ASSUME NEW places \in SUBSET Nat, places # {}
  PROVE  FirstIn(places) \in places /\ \A j \in places : FirstIn(places) <= j
<1>1. PICK i \in places : \A j \in places : ~ (<<j, i>> \in OpToRel(<, Nat))
  BY NatLessThanWellFounded, WFMin
<1>2. \A j \in places : ~ (j < i)
  BY <1>1 DEF OpToRel
<1>3. \A j \in places : i <= j
  BY <1>2
<1> QED BY <1>1, <1>3 DEF FirstIn

(* A set of natural numbers that is bounded has a greatest member.         *)
LEMMA GreatestExists ==
  ASSUME NEW bound \in Nat, NEW places \in SUBSET (0 .. bound), places # {}
  PROVE  \E i \in places : \A j \in places : j <= i
<1> DEFINE gaps == {g \in Nat : bound - g \in places}
<1>1. gaps # {}
  <2>1. PICK i \in places : TRUE
    OBVIOUS
  <2>2. bound - i \in Nat /\ bound - (bound - i) = i
    BY <2>1
  <2> QED BY <2>1, <2>2
<1>2. FirstIn(gaps) \in gaps /\ \A g \in gaps : FirstIn(gaps) <= g
  BY <1>1, FirstInProperties
<1> HIDE DEF gaps
<1>3. bound - FirstIn(gaps) \in places
  BY <1>2 DEF gaps
<1>4. ASSUME NEW j \in places PROVE j <= bound - FirstIn(gaps)
  <2>1. bound - j \in gaps
    <3>1. bound - j \in Nat /\ bound - (bound - j) = j
      OBVIOUS
    <3> QED BY <3>1 DEF gaps
  <2>2. FirstIn(gaps) <= bound - j /\ FirstIn(gaps) \in Nat
    BY <1>2, <2>1 DEF gaps
  <2> QED BY <2>2
<1> QED BY <1>3, <1>4

(* What is left of a sequence without one of its entries. *)
LEMMA WithoutProperties ==
  ASSUME NEW S, NEW s \in Seq(S), NEW k \in 1 .. Len(s)
  PROVE  /\ Without(s, k) \in Seq(S)
         /\ Len(Without(s, k)) = Len(s) - 1
         /\ \A i \in 1 .. Len(s) - 1 : Without(s, k)[i] = IF i < k THEN s[i] ELSE s[i + 1]
<1> DEFINE front == SubSeq(s, 1, k - 1)
           back == SubSeq(s, k + 1, Len(s))
<1>1. /\ front \in Seq(S) /\ Len(front) = k - 1
      /\ \A i \in 1 .. k - 1 : front[i] = s[i]
  OBVIOUS
<1>2. /\ back \in Seq(S) /\ Len(back) = Len(s) - k
      /\ \A i \in 1 .. Len(s) - k : back[i] = s[i + k]
  OBVIOUS
<1>3. Without(s, k) = front \o back
  BY DEF Without
<1> HIDE DEF front, back
<1>4. /\ Without(s, k) \in Seq(S) /\ Len(Without(s, k)) = Len(s) - 1
      /\ \A i \in 1 .. Len(s) - 1 :
           Without(s, k)[i] = IF i <= k - 1 THEN front[i] ELSE back[i - (k - 1)]
  <2>1. Len(front) + Len(back) = Len(s) - 1
    BY <1>1, <1>2
  <2>2. /\ front \o back \in Seq(S) /\ Len(front \o back) = Len(front) + Len(back)
        /\ \A i \in 1 .. Len(front) + Len(back) :
             (front \o back)[i] = IF i <= Len(front) THEN front[i] ELSE back[i - Len(front)]
    BY <1>1, <1>2, ConcatProperties
  <2> QED BY <1>1, <1>3, <2>1, <2>2
<1>5. ASSUME NEW i \in 1 .. Len(s) - 1
      PROVE  Without(s, k)[i] = IF i < k THEN s[i] ELSE s[i + 1]
  <2>1. CASE i < k
    BY <1>1, <1>4, <2>1
  <2>2. CASE ~(i < k)
    <3>1. i - (k - 1) \in 1 .. Len(s) - k /\ i - (k - 1) + k = i + 1
      BY <2>2
    <3> QED BY <1>2, <1>4, <2>2, <3>1
  <2> QED BY <2>1, <2>2
<1> QED BY <1>4, <1>5

(* The newest entries are the last ones, in their order. *)
LEMMA NewestProperties ==
  ASSUME NEW S, NEW s \in Seq(S), NEW n \in Nat \ {0}
  PROVE  /\ Newest(s, n) \in Seq(S)
         /\ Len(s) <= n => Newest(s, n) = s
         /\ Len(s) > n =>
              /\ Len(Newest(s, n)) = n
              /\ \A i \in 1 .. n : Newest(s, n)[i] = s[i + (Len(s) - n)]
         /\ Len(Newest(s, n)) <= n
<1>1. CASE Len(s) <= n
  BY <1>1 DEF Newest
<1>2. CASE Len(s) > n
  <2>1. Newest(s, n) = SubSeq(s, Len(s) - n + 1, Len(s))
    BY <1>2 DEF Newest
  <2>2. /\ Newest(s, n) \in Seq(S)
        /\ Len(Newest(s, n)) = n
        /\ \A i \in 1 .. n : Newest(s, n)[i] = s[i + (Len(s) - n)]
    BY <1>2, <2>1
  <2> QED BY <1>2, <2>2
<1> QED BY <1>1, <1>2

(* What _remember() does to a store that holds no id twice: the id goes to *)
(* the end, and at most one place k is given up for it: its own, or the    *)
(* first one of a full store that did not know it.                         *)
Remembered(store, key, limit, k, new) ==
  /\ \A p \in 1 .. Len(store) : p # k => store[p] # key
  /\ k <= Len(store) => store[k] = key \/ (k = 1 /\ Len(store) = limit)
  /\ k = Len(store) + 1 => Len(store) < limit
  /\ Len(new) = IF k <= Len(store) THEN Len(store) ELSE Len(store) + 1
  /\ new[Len(new)] = key
  /\ \A i \in 1 .. Len(new) - 1 : new[i] = IF i < k THEN store[i] ELSE store[i + 1]

(* _remember() does that.                                                  *)
LEMMA RememberEffect ==
  ASSUME NEW S, NEW store \in Seq(S), NEW key \in S, NEW limit \in Nat \ {0},
         Len(store) <= limit,
         \A i, j \in 1 .. Len(store) : store[i] = store[j] => i = j
  PROVE  /\ Remember(store, key, limit) \in Seq(S)
         /\ \E k \in 1 .. Len(store) + 1 :
              Remembered(store, key, limit, k, Remember(store, key, limit))
<1> DEFINE known == {i \in DOMAIN store : store[i] = key}
           new == Remember(store, key, limit)
<1>1. known \in SUBSET Nat /\ known \subseteq 1 .. Len(store)
  OBVIOUS
<1>2. CASE known # {}
  <2> DEFINE k == FirstIn(known)
             others == Without(store, k)
             longer == Append(others, key)
  <2>1. k \in known
    BY <1>1, <1>2, FirstInProperties
  <2>2. k \in 1 .. Len(store) /\ store[k] = key
    BY <2>1
  <2> HIDE DEF k
  <2>3. /\ others \in Seq(S) /\ Len(others) = Len(store) - 1
        /\ \A i \in 1 .. Len(store) - 1 : others[i] = IF i < k THEN store[i] ELSE store[i + 1]
    BY <2>2, WithoutProperties
  <2>4. new = Newest(longer, limit)
    BY <1>2 DEF Remember, k
  <2> HIDE DEF others, new
  <2>5. /\ longer \in Seq(S) /\ Len(longer) = Len(store) /\ longer[Len(store)] = key
        /\ \A i \in 1 .. Len(store) - 1 : longer[i] = others[i]
    BY <2>2, <2>3
  <2> HIDE DEF longer
  <2>6. new = longer
    BY <2>4, <2>5, NewestProperties
  <2>7. Remembered(store, key, limit, k, new)
    <3>1. \A p \in 1 .. Len(store) : p # k => store[p] # key
      BY <2>2
    <3>2. Len(new) = Len(store) /\ new[Len(new)] = key
      BY <2>5, <2>6
    <3>3. \A i \in 1 .. Len(new) - 1 : new[i] = IF i < k THEN store[i] ELSE store[i + 1]
      BY <2>3, <2>5, <2>6
    <3>4. k <= Len(store) /\ k # Len(store) + 1
      BY <2>2
    <3> QED BY <2>2, <3>1, <3>2, <3>3, <3>4 DEF Remembered
  <2> QED BY <2>2, <2>5, <2>6, <2>7 DEF new
<1>3. CASE known = {} /\ Len(store) < limit
  <2> DEFINE longer == Append(store, key)
  <2>1. new = Newest(longer, limit)
    BY <1>3 DEF Remember
  <2>2. /\ longer \in Seq(S) /\ Len(longer) = Len(store) + 1
        /\ longer[Len(store) + 1] = key
        /\ \A i \in 1 .. Len(store) : longer[i] = store[i]
    OBVIOUS
  <2> HIDE DEF new, longer
  <2>3. new = longer
    <3>1. Len(longer) <= limit
      BY <1>3, <2>2
    <3> QED BY <2>1, <2>2, <3>1, NewestProperties
  <2>4. \A p \in 1 .. Len(store) : store[p] # key
    BY <1>3
  <2>5. Remembered(store, key, limit, Len(store) + 1, new)
    <3>1. Len(new) = Len(store) + 1 /\ new[Len(new)] = key
      BY <2>2, <2>3
    <3>2. \A i \in 1 .. Len(new) - 1 : i < Len(store) + 1 /\ new[i] = store[i]
      BY <2>2, <2>3
    <3>3. ~(Len(store) + 1 <= Len(store)) /\ \A p \in 1 .. Len(store) : p # Len(store) + 1
      OBVIOUS
    <3> HIDE DEF known
    <3> QED BY <1>3, <2>4, <3>1, <3>2, <3>3 DEF Remembered
  <2> QED BY <2>2, <2>3, <2>5 DEF new
<1>4. CASE known = {} /\ Len(store) = limit
  <2> DEFINE longer == Append(store, key)
  <2>1. new = Newest(longer, limit)
    BY <1>4 DEF Remember
  <2>2. /\ longer \in Seq(S) /\ Len(longer) = limit + 1
        /\ longer[limit + 1] = key
        /\ \A i \in 1 .. limit : longer[i] = store[i]
    BY <1>4
  <2> HIDE DEF new, longer
  <2>3. /\ new \in Seq(S) /\ Len(new) = limit
        /\ \A i \in 1 .. limit : new[i] = longer[i + 1]
    <3>1. Len(longer) > limit /\ Len(longer) - limit = 1
      BY <2>2
    <3>2. /\ Newest(longer, limit) \in Seq(S)
          /\ Len(Newest(longer, limit)) = limit
          /\ \A i \in 1 .. limit : Newest(longer, limit)[i] = longer[i + (Len(longer) - limit)]
      <4>1. longer \in Seq(S) /\ Len(longer) > limit
        BY <2>2, <3>1
      <4> QED BY <4>1, NewestProperties, Zenon
    <3>3. \A i \in 1 .. limit : new[i] = longer[i + 1]
      <4>1. \A i \in 1 .. limit : new[i] = longer[i + (Len(longer) - limit)]
        BY <2>1, <3>2
      <4> QED BY <3>1, <4>1
    <3> QED BY <2>1, <3>2, <3>3
  <2>4. \A p \in 1 .. Len(store) : store[p] # key
    BY <1>4
  <2>5. Remembered(store, key, limit, 1, new)
    <3>1. Len(new) = Len(store) /\ new[Len(new)] = key
      BY <1>4, <2>2, <2>3
    <3>2. \A i \in 1 .. Len(new) - 1 : new[i] = store[i + 1]
      BY <1>4, <2>2, <2>3
    <3>3. \A i \in 1 .. Len(new) - 1 : ~(i < 1)
      BY <3>1
    <3>4. 1 <= Len(store) /\ 1 # Len(store) + 1
      BY <1>4
    <3> HIDE DEF known
    <3> QED BY <1>4, <2>4, <3>1, <3>2, <3>3, <3>4 DEF Remembered
  <2> QED BY <2>3, <2>5 DEF new
<1>5. Len(store) = limit \/ Len(store) < limit
  OBVIOUS
<1> QED BY <1>2, <1>3, <1>4, <1>5

(* No id is in the store twice, and what is in it. *)
Distinct(store) == \A i, j \in 1 .. Len(store) : store[i] = store[j] => i = j
Ids(store) == {store[i] : i \in 1 .. Len(store)}

(* A store holds no id twice afterwards either; it has gained the new id   *)
(* and lost at most the one of the place given up.                         *)
LEMMA RememberedIds ==
  ASSUME NEW S, NEW store \in Seq(S), NEW new \in Seq(S), NEW key \in S, NEW limit \in Nat \ {0},
         NEW k \in 1 .. Len(store) + 1, Distinct(store), Len(store) <= limit,
         Remembered(store, key, limit, k, new)
  PROVE  /\ Distinct(new) /\ Len(new) <= limit
         /\ key \in Ids(new) /\ Ids(new) \subseteq Ids(store) \cup {key}
         /\ \A p \in 1 .. Len(store) : p # k => store[p] \in Ids(new)
<1> DEFINE n == Len(store)
           m == Len(new)
<1>1. /\ n \in Nat /\ m \in Nat /\ n <= limit /\ m <= limit /\ 0 < m
      /\ m = IF k <= n THEN n ELSE n + 1
      /\ new[m] = key
      /\ \A i \in 1 .. m - 1 : new[i] = IF i < k THEN store[i] ELSE store[i + 1]
      /\ \A p \in 1 .. n : p # k => store[p] # key
  BY DEF Remembered
<1>2. \A i, j \in 1 .. n : store[i] = store[j] => i = j
  BY DEF Distinct
<1>3. Ids(new) = {new[i] : i \in 1 .. m} /\ Ids(store) = {store[i] : i \in 1 .. n}
  BY DEF Ids
<1>4. Distinct(new) <=> \A i, j \in 1 .. m : new[i] = new[j] => i = j
  BY DEF Distinct
<1> HIDE DEF n, m
<1> DEFINE old(i) == IF i < k THEN i ELSE i + 1
<1>5. \A i \in 1 .. m - 1 : old(i) \in 1 .. n /\ old(i) # k /\ new[i] = store[old(i)]
  BY <1>1
<1>6. \A i, j \in 1 .. m - 1 : old(i) = old(j) => i = j
  BY <1>1
<1>7. ASSUME NEW p \in 1 .. n, p # k PROVE \E i \in 1 .. m - 1 : old(i) = p
  <2>1. CASE p < k
    <3>1. p \in 1 .. m - 1
      BY <1>1, <2>1
    <3> QED BY <2>1, <3>1
  <2>2. CASE p > k
    <3>1. p - 1 \in 1 .. m - 1 /\ ~(p - 1 < k) /\ (p - 1) + 1 = p
      BY <1>1, <2>2
    <3> QED BY <3>1
  <2> QED BY <1>7, <2>1, <2>2
<1> HIDE DEF old
<1>8. \A i \in 1 .. m : i = m \/ i \in 1 .. m - 1
  BY <1>1
<1>9. \A i \in 1 .. m - 1 : new[i] # key
  BY <1>1, <1>5
<1>10. Distinct(new)
  <2>1. SUFFICES ASSUME NEW i \in 1 .. m, NEW j \in 1 .. m, new[i] = new[j] PROVE i = j
    BY <1>4
  <2>2. CASE i \in 1 .. m - 1 /\ j \in 1 .. m - 1
    <3>1. store[old(i)] = store[old(j)] /\ old(i) \in 1 .. n /\ old(j) \in 1 .. n
      BY <1>5, <2>1, <2>2
    <3>2. old(i) = old(j)
      BY <1>2, <3>1
    <3> QED BY <1>6, <2>2, <3>2
  <2> QED BY <1>1, <1>8, <1>9, <2>1, <2>2
<1>11. m \in 1 .. m /\ 1 .. m - 1 \subseteq 1 .. m
  BY <1>1
<1>12. key \in Ids(new) /\ Ids(new) \subseteq Ids(store) \cup {key}
  <2>1. new[m] = key /\ key \in Ids(new)
    BY <1>1, <1>3, <1>11
  <2>2. \A i \in 1 .. m - 1 : new[i] \in Ids(store)
    BY <1>3, <1>5
  <2>3. \A i \in 1 .. m : new[i] \in Ids(store) \cup {key}
    BY <1>8, <2>1, <2>2
  <2> QED BY <1>3, <2>1, <2>3
<1>13. \A p \in 1 .. n : p # k => store[p] \in Ids(new)
  BY <1>3, <1>5, <1>7, <1>11
<1> QED BY <1>1, <1>10, <1>12, <1>13 DEF n, m

(* A store that holds no id twice holds as many as it has places. *)
LEMMA IdsOfDistinct ==
  ASSUME NEW S, NEW store \in Seq(S)
  PROVE  /\ IsFiniteSet(Ids(store)) /\ Cardinality(Ids(store)) <= Len(store)
         /\ Distinct(store) => Cardinality(Ids(store)) = Len(store)
<1> DEFINE f == [i \in 1 .. Len(store) |-> store[i]]
<1>1. IsFiniteSet(1 .. Len(store)) /\ Cardinality(1 .. Len(store)) = Len(store)
  <2>1. Len(store) \in Nat /\ 1 \in Int /\ Len(store) \in Int
    OBVIOUS
  <2>2. IsFiniteSet(1 .. Len(store))
        /\ Cardinality(1 .. Len(store)) = IF 1 > Len(store) THEN 0 ELSE Len(store) - 1 + 1
    BY <2>1, FS_Interval
  <2> QED BY <2>1, <2>2
<1>2. f \in Surjection(1 .. Len(store), Ids(store))
  BY DEF Surjection, Ids
<1>3. /\ IsFiniteSet(Ids(store))
      /\ Cardinality(Ids(store)) <= Cardinality(1 .. Len(store))
      /\ Cardinality(Ids(store)) = Cardinality(1 .. Len(store))
           <=> f \in Injection(1 .. Len(store), Ids(store))
  BY <1>1, <1>2, FS_Surjection
<1>4. Distinct(store) => f \in Injection(1 .. Len(store), Ids(store))
  BY <1>2 DEF Surjection, Injection, IsInjective, Distinct
<1> QED BY <1>1, <1>3, <1>4

-----------------------------------------------------------------------------
(* The limits.                                                             *)

(* The limits are positive. *)
LEMMA LimitsArePositive ==
  /\ MaxSeen \in Nat \ {0} /\ MaxReplayed \in Nat \ {0} /\ MaxRecent \in Nat \ {0}
  /\ MaxVehicles \in Nat \ {0} /\ MaxActivity \in Nat \ {0} /\ Lookback \in Nat \ {0}
  /\ Vehicles \in Nat \ {0} /\ Lookback < MaxActivity
BY DashboardAssumption

(* What a step does to the events received, to the replays logged, to the  *)
(* feed and to the threads.                                                *)
TelemetryStep ==
  \/ \E e \in Events : /\ total' = [total EXCEPT !.received = @ + 1,
                                                 !.duplicates = @ + CountDuplicate(e)]
                       /\ seen' = Remember(seen, e, MaxSeen)
                       /\ recent' = Newest(Append(recent, e), MaxRecent)
                       /\ vehicles' = UpdateVehicle(VehicleOf(e))
                       /\ delivered' = delivered \cup {e}
  \/ total' = [total EXCEPT !.malformed = @ + 1] /\ UNCHANGED telemetryVars
  \/ UNCHANGED <<total, telemetryVars>>

ReplayStep ==
  \/ \E ids \in Batches : /\ replayed' = RememberAll(replayed, ids, MaxReplayed)
                          /\ logged' = logged \o ids
  \/ UNCHANGED replayVars

FeedStep ==
  \/ \E text \in Texts : AddActivity(text)
  \/ UNCHANGED feedVars

(* Every step of a thread is one of these for each of the three. *)
LEMMA EveryStep ==
  ASSUME ThreadsTypeOK, [Next]_vars
  PROVE  TelemetryStep /\ ReplayStep /\ FeedStep
<1> USE DEF TelemetryStep, ReplayStep, FeedStep
<1>1. CASE \E e \in Events : Receive(e)
  BY <1>1 DEF Receive
<1>2. CASE ReceiveMalformed
  BY <1>2 DEF ReceiveMalformed
<1>3. CASE OnConnect
  BY <1>3 DEF OnConnect
<1>4. CASE OnDisconnect
  BY <1>4 DEF OnDisconnect
<1>5. ASSUME NEW t \in Threads, AddNote(t) PROVE TelemetryStep /\ ReplayStep /\ FeedStep
  <2>1. note[t] \in Texts
    BY <1>5 DEF AddNote, ThreadsTypeOK
  <2> QED BY <1>5, <2>1 DEF AddNote
<1>6. CASE LogReplayed
  BY <1>6 DEF LogReplayed
<1>7. CASE LogOther
  BY <1>7 DEF LogOther
<1>8. CASE Start
  BY <1>8 DEF Start
<1>9. CASE AnnounceStart
  BY <1>9 DEF AnnounceStart, Texts
<1>10. CASE StopLoop
  BY <1>10 DEF StopLoop
<1>11. CASE DisconnectClient
  BY <1>11 DEF DisconnectClient
<1>12. CASE StopDone
  BY <1>12 DEF StopDone
<1>13. CASE UNCHANGED vars
  BY <1>13 DEF vars
<1>14. {"network", "gateway", "main"} \subseteq Threads
  BY DEF Threads
<1> QED BY <1>1, <1>2, <1>3, <1>4, <1>5, <1>6, <1>7, <1>8, <1>9, <1>10, <1>11, <1>12, <1>13,
           <1>14 DEF Next, Subscription, Logging, MainThread

-----------------------------------------------------------------------------
(* Duplicates.                                                             *)

(* No id is remembered twice or without having been received, and one that *)
(* was received and is not remembered was forgotten because more ids than  *)
(* the limit have come; every message beyond the first of its id counts as *)
(* a duplicate until then.                                                 *)
SeenInv ==
  /\ Distinct(seen) /\ Ids(seen) \subseteq delivered
  /\ IsFiniteSet(delivered)
  /\ \A e \in delivered : e \notin Ids(seen) => Cardinality(delivered) > MaxSeen
  /\ total.duplicates + Cardinality(delivered) <= total.received
  /\ Cardinality(delivered) <= MaxSeen =>
       total.duplicates + Cardinality(delivered) = total.received

(* A message is counted as a duplicate exactly if its id is remembered.    *)
LEMMA CountDuplicateIs ==
  ASSUME NEW e, seen \in Seq(Events)
  PROVE  CountDuplicate(e) = IF e \in Ids(seen) THEN 1 ELSE 0
BY DEF CountDuplicate, InSeq, Ids

(* Receiving a message keeps the store and the figures right. *)
LEMMA SeenInvReceive ==
  ASSUME TelemetryTypeOK, SeenInv, NEW e \in Events,
         total' = [total EXCEPT !.received = @ + 1, !.duplicates = @ + CountDuplicate(e)],
         seen' = Remember(seen, e, MaxSeen),
         delivered' = delivered \cup {e}
  PROVE  SeenInv' /\ seen' \in Seq(Events) /\ Len(seen') <= MaxSeen
<1>1. seen \in Seq(Events) /\ Len(seen) <= MaxSeen /\ MaxSeen \in Nat \ {0}
  BY LimitsArePositive DEF TelemetryTypeOK
<1>2. Distinct(seen) /\ Ids(seen) \subseteq delivered /\ IsFiniteSet(delivered)
      /\ \A d \in delivered : d \notin Ids(seen) => Cardinality(delivered) > MaxSeen
  BY DEF SeenInv
<1>3. /\ Remember(seen, e, MaxSeen) \in Seq(Events)
      /\ \E k \in 1 .. Len(seen) + 1 :
           Remembered(seen, e, MaxSeen, k, Remember(seen, e, MaxSeen))
  BY <1>1, <1>2, RememberEffect DEF Distinct
<1>4. PICK k \in 1 .. Len(seen) + 1 : Remembered(seen, e, MaxSeen, k, seen')
  BY <1>3
<1>5. seen' \in Seq(Events)
  BY <1>3
<1>6. /\ Distinct(seen') /\ Len(seen') <= MaxSeen
      /\ e \in Ids(seen') /\ Ids(seen') \subseteq Ids(seen) \cup {e}
      /\ \A p \in 1 .. Len(seen) : p # k => seen[p] \in Ids(seen')
  BY <1>1, <1>2, <1>4, <1>5, RememberedIds
<1>7. IsFiniteSet(delivered') /\ Ids(seen') \subseteq delivered'
  BY <1>2, <1>6, FS_AddElement
<1>8. /\ Cardinality(delivered) \in Nat
      /\ Cardinality(delivered') = IF e \in delivered THEN Cardinality(delivered)
                                  ELSE Cardinality(delivered) + 1
  BY <1>2, FS_AddElement, FS_CardinalityType
<1>9. ASSUME NEW d \in delivered', d \notin Ids(seen')
      PROVE  Cardinality(delivered') > MaxSeen
  <2>1. d \in delivered /\ d # e
    BY <1>6, <1>9
  <2>2. CASE d \notin Ids(seen)
    BY <1>1, <1>2, <1>8, <2>1, <2>2
  <2>3. CASE d \in Ids(seen)
    <3>1. PICK p \in 1 .. Len(seen) : seen[p] = d
      BY <2>3 DEF Ids
    <3>2. p = k
      BY <1>6, <1>9, <3>1
    <3>3. k <= Len(seen) /\ seen[k] # e
      BY <1>1, <2>1, <3>1, <3>2
    <3>4. k = 1 /\ Len(seen) = MaxSeen /\ \A q \in 1 .. Len(seen) : seen[q] # e
      BY <1>1, <1>4, <3>3 DEF Remembered
    <3>5. e \notin Ids(seen)
      BY <3>4 DEF Ids
    <3>6. CASE e \in delivered
      BY <1>1, <1>2, <1>8, <3>5, <3>6
    <3>7. CASE e \notin delivered
      <4>1. Cardinality(Ids(seen)) = Len(seen)
        BY <1>1, <1>2, IdsOfDistinct
      <4>2. Cardinality(Ids(seen)) <= Cardinality(delivered)
        BY <1>2, FS_Subset
      <4> QED BY <1>1, <1>8, <3>4, <3>7, <4>1, <4>2
    <3> QED BY <3>6, <3>7
  <2> QED BY <2>2, <2>3
<1> DEFINE n == Cardinality(delivered)
           m == Cardinality(delivered')
           r == total.received
           d == total.duplicates
           c == CountDuplicate(e)
<1>10. /\ r \in Nat /\ d \in Nat /\ c = (IF e \in Ids(seen) THEN 1 ELSE 0)
       /\ total'.received = r + 1 /\ total'.duplicates = d + c
  BY <1>1, CountDuplicateIs DEF TelemetryTypeOK
<1>11. /\ n \in Nat /\ m = (IF e \in delivered THEN n ELSE n + 1)
       /\ d + n <= r /\ (n <= MaxSeen => d + n = r)
       /\ (e \in Ids(seen) => e \in delivered)
       /\ (e \in delivered /\ e \notin Ids(seen) => n > MaxSeen)
  BY <1>2, <1>8 DEF SeenInv
<1> HIDE DEF n, m, r, d, c
<1>12. (d + c) + m <= r + 1 /\ (m <= MaxSeen => (d + c) + m = r + 1)
  BY <1>1, <1>10, <1>11
<1>13. /\ total'.duplicates + Cardinality(delivered') <= total'.received
       /\ Cardinality(delivered') <= MaxSeen =>
            total'.duplicates + Cardinality(delivered') = total'.received
  BY <1>10, <1>12 DEF m
<1>14. SeenInv'
  BY <1>6, <1>7, <1>9, <1>13 DEF SeenInv
<1> QED BY <1>5, <1>6, <1>14

-----------------------------------------------------------------------------
(* Replays.                                                                *)

(* The place at which a log of events names an event last. *)
PlaceIn(e, log) == CHOOSE i \in DOMAIN log :
  log[i] = e /\ \A j \in DOMAIN log : log[j] = e => j <= i

(* There is one for each event of the log, and no later one. *)
LEMMA PlaceInProperties ==
  ASSUME NEW S, NEW log \in Seq(S), NEW e \in Ids(log)
  PROVE  /\ PlaceIn(e, log) \in 1 .. Len(log) /\ log[PlaceIn(e, log)] = e
         /\ \A j \in 1 .. Len(log) : log[j] = e => j <= PlaceIn(e, log)
<1> DEFINE places == {i \in 1 .. Len(log) : log[i] = e}
<1>1. places # {} /\ places \in SUBSET (0 .. Len(log)) /\ Len(log) \in Nat
  BY DEF Ids
<1>2. \E i \in places : \A j \in places : j <= i
  BY <1>1, GreatestExists
<1>3. DOMAIN log = 1 .. Len(log)
  OBVIOUS
<1>4. \E i \in DOMAIN log : log[i] = e /\ \A j \in DOMAIN log : log[j] = e => j <= i
  BY <1>2, <1>3
<1> QED BY <1>3, <1>4 DEF PlaceIn

(* The last place of an event is unique. *)
LEMMA PlaceInIs ==
  ASSUME NEW S, NEW log \in Seq(S), NEW i \in 1 .. Len(log),
         \A j \in 1 .. Len(log) : log[j] = log[i] => j <= i
  PROVE  PlaceIn(log[i], log) = i
<1>1. log[i] \in Ids(log)
  BY DEF Ids
<1>2. /\ PlaceIn(log[i], log) \in 1 .. Len(log) /\ log[PlaceIn(log[i], log)] = log[i]
      /\ \A j \in 1 .. Len(log) : log[j] = log[i] => j <= PlaceIn(log[i], log)
  BY <1>1, PlaceInProperties
<1> QED BY <1>2

(* A further event of the log comes last; the others keep their places.    *)
LEMMA PlaceInAppend ==
  ASSUME NEW S, NEW log \in Seq(S), NEW key \in S
  PROVE  /\ Ids(Append(log, key)) = Ids(log) \cup {key}
         /\ PlaceIn(key, Append(log, key)) = Len(log) + 1
         /\ \A e \in Ids(log) :
              e # key => PlaceIn(e, Append(log, key)) = PlaceIn(e, log)
<1> DEFINE longer == Append(log, key)
<1>1. /\ longer \in Seq(S) /\ Len(longer) = Len(log) + 1 /\ longer[Len(log) + 1] = key
      /\ \A i \in 1 .. Len(log) : longer[i] = log[i]
      /\ Len(log) \in Nat
  OBVIOUS
<1> HIDE DEF longer
<1>2. \A i \in 1 .. Len(log) + 1 : i \in 1 .. Len(log) \/ i = Len(log) + 1
  BY <1>1
<1>3. Ids(longer) = Ids(log) \cup {key}
  <2>1. Ids(longer) = {longer[i] : i \in 1 .. Len(log) + 1}
    BY <1>1 DEF Ids
  <2>2. 1 .. Len(log) \subseteq 1 .. Len(log) + 1 /\ Len(log) + 1 \in 1 .. Len(log) + 1
    BY <1>1
  <2> QED BY <1>1, <1>2, <2>1, <2>2 DEF Ids
<1>4. PlaceIn(key, longer) = Len(log) + 1
  <2>1. Len(log) + 1 \in 1 .. Len(longer)
        /\ \A j \in 1 .. Len(longer) : longer[j] = longer[Len(log) + 1] => j <= Len(log) + 1
    BY <1>1
  <2>2. PlaceIn(longer[Len(log) + 1], longer) = Len(log) + 1
    BY <1>1, <2>1, PlaceInIs
  <2> QED BY <1>1, <2>2
<1>5. ASSUME NEW e \in Ids(log), e # key
      PROVE  PlaceIn(e, longer) = PlaceIn(e, log)
  <2>1. PICK i \in 1 .. Len(log) : i = PlaceIn(e, log) /\ log[i] = e
                                 /\ \A j \in 1 .. Len(log) : log[j] = e => j <= i
    BY PlaceInProperties
  <2>2. i \in 1 .. Len(longer) /\ longer[i] = e
        /\ \A j \in 1 .. Len(longer) : longer[j] = longer[i] => j <= i
    BY <1>1, <1>2, <1>5, <2>1
  <2>3. PlaceIn(longer[i], longer) = i
    BY <1>1, <2>2, PlaceInIs
  <2> QED BY <2>1, <2>2, <2>3
<1> QED BY <1>3, <1>4, <1>5 DEF longer

(* The ids remembered as replayed are the newest of those the log names,   *)
(* in the order of their last places in it: one that is missing was named  *)
(* before all of them, and the store is full.                              *)
Tracks(store, log) ==
  /\ store \in Seq(Events) /\ Len(store) <= MaxReplayed /\ log \in Seq(Events)
  /\ Ids(store) \subseteq Ids(log)
  /\ \A i, j \in 1 .. Len(store) :
       i < j => PlaceIn(store[i], log) < PlaceIn(store[j], log)
  /\ \A e \in Ids(log) : e \notin Ids(store) =>
       /\ Len(store) = MaxReplayed
       /\ \A i \in 1 .. Len(store) : PlaceIn(e, log) < PlaceIn(store[i], log)

(* Such a store holds no id twice. *)
LEMMA TracksDistinct ==
  ASSUME NEW store, NEW log, Tracks(store, log)
  PROVE  Distinct(store)
<1>1. store \in Seq(Events) /\ log \in Seq(Events) /\ Ids(store) \subseteq Ids(log)
  BY DEF Tracks
<1>2. SUFFICES ASSUME NEW i \in 1 .. Len(store), NEW j \in 1 .. Len(store),
                      store[i] = store[j], i < j
               PROVE  FALSE
  BY <1>1 DEF Distinct
<1>3. PlaceIn(store[i], log) < PlaceIn(store[j], log)
  BY <1>2 DEF Tracks
<1>4. store[i] \in Ids(log)
  BY <1>1 DEF Ids
<1>5. PlaceIn(store[i], log) \in 1 .. Len(log)
  BY <1>1, <1>4, PlaceInProperties
<1> QED BY <1>2, <1>3, <1>5

(* It stays so when the log names one more event. *)
LEMMA TracksOne ==
  ASSUME NEW store, NEW log, Tracks(store, log), NEW key \in Events
  PROVE  Tracks(Remember(store, key, MaxReplayed), Append(log, key))
<1>1. /\ store \in Seq(Events) /\ Len(store) <= MaxReplayed /\ log \in Seq(Events)
      /\ Ids(store) \subseteq Ids(log) /\ MaxReplayed \in Nat \ {0}
  BY LimitsArePositive DEF Tracks
<1>2. Distinct(store)
  BY TracksDistinct
<1>3. /\ Remember(store, key, MaxReplayed) \in Seq(Events)
      /\ \E k \in 1 .. Len(store) + 1 :
           Remembered(store, key, MaxReplayed, k, Remember(store, key, MaxReplayed))
  BY <1>1, <1>2, RememberEffect DEF Distinct
<1>4. PICK new \in Seq(Events) : new = Remember(store, key, MaxReplayed)
  BY <1>3
<1>5. PICK k \in 1 .. Len(store) + 1 : Remembered(store, key, MaxReplayed, k, new)
  BY <1>3, <1>4
<1>6. /\ Len(new) <= MaxReplayed
      /\ key \in Ids(new) /\ Ids(new) \subseteq Ids(store) \cup {key}
      /\ \A p \in 1 .. Len(store) : p # k => store[p] \in Ids(new)
  BY <1>1, <1>2, <1>5, RememberedIds
<1>7. PICK longer \in Seq(Events) : longer = Append(log, key)
  <2>1. Append(log, key) \in Seq(Events)
    BY <1>1
  <2> QED BY <2>1
<1>8. /\ Ids(longer) = Ids(log) \cup {key} /\ PlaceIn(key, longer) = Len(log) + 1
      /\ \A e \in Ids(log) : e # key => PlaceIn(e, longer) = PlaceIn(e, log)
      /\ \A e \in Ids(log) : PlaceIn(e, log) \in 1 .. Len(log)
  BY <1>1, <1>7, PlaceInAppend, PlaceInProperties
<1>9. PICK n \in Nat, m \in Nat : n = Len(store) /\ m = Len(new)
  BY <1>1
<1>10. /\ m = (IF k <= n THEN n ELSE n + 1) /\ new[m] = key
       /\ k \in 1 .. n + 1
       /\ (k <= n => store[k] = key \/ (k = 1 /\ n = MaxReplayed))
       /\ (k = n + 1 => n < MaxReplayed)
       /\ \A i \in 1 .. m - 1 : new[i] = IF i < k THEN store[i] ELSE store[i + 1]
       /\ \A p \in 1 .. n : p # k => store[p] # key
  BY <1>5, <1>9 DEF Remembered
<1> DEFINE old(i) == IF i < k THEN i ELSE i + 1
<1>11. \A i \in 1 .. m - 1 : old(i) \in 1 .. n /\ old(i) # k /\ new[i] = store[old(i)]
  BY <1>9, <1>10
<1>12. \A i, j \in 1 .. m - 1 : i < j => old(i) < old(j)
  BY <1>9, <1>10
<1> HIDE DEF old
<1>13. \A p \in 1 .. n : store[p] \in Ids(log)
  BY <1>1, <1>9 DEF Ids
<1>14. \A i \in 1 .. m - 1 : /\ new[i] # key /\ new[i] \in Ids(log)
                            /\ PlaceIn(new[i], longer) = PlaceIn(store[old(i)], log)
  BY <1>8, <1>10, <1>11, <1>13
<1>15. \A i \in 1 .. m : i = m \/ i \in 1 .. m - 1
  BY <1>9
<1>16. ASSUME NEW i \in 1 .. m, NEW j \in 1 .. m, i < j
       PROVE  PlaceIn(new[i], longer) < PlaceIn(new[j], longer)
  <2>1. i \in 1 .. m - 1
    BY <1>9, <1>16
  <2>2. CASE j = m
    <3>1. PlaceIn(new[i], longer) = PlaceIn(store[old(i)], log)
          /\ PlaceIn(store[old(i)], log) \in 1 .. Len(log)
      BY <1>8, <1>11, <1>13, <1>14, <2>1
    <3>2. PlaceIn(new[j], longer) = Len(log) + 1
      BY <1>8, <1>10, <2>2
    <3> QED BY <1>1, <3>1, <3>2
  <2>3. CASE j \in 1 .. m - 1
    <3>1. old(i) < old(j) /\ old(i) \in 1 .. n /\ old(j) \in 1 .. n
      BY <1>11, <1>12, <1>16, <2>1, <2>3
    <3>2. PlaceIn(store[old(i)], log) < PlaceIn(store[old(j)], log)
      BY <1>9, <3>1 DEF Tracks
    <3> QED BY <1>14, <2>1, <2>3, <3>2
  <2> QED BY <1>15, <2>2, <2>3
<1>17. ASSUME NEW e \in Ids(longer), e \notin Ids(new)
       PROVE  /\ m = MaxReplayed
              /\ \A i \in 1 .. m : PlaceIn(e, longer) < PlaceIn(new[i], longer)
  <2>1. e # key /\ e \in Ids(log) /\ PlaceIn(e, longer) = PlaceIn(e, log)
        /\ PlaceIn(e, log) \in 1 .. Len(log)
    BY <1>6, <1>8, <1>17
  <2>2. m = MaxReplayed /\ \A i \in 1 .. m - 1 : PlaceIn(e, log) < PlaceIn(store[old(i)], log)
    <3>1. CASE e \in Ids(store)
      <4>1. PICK p \in 1 .. n : store[p] = e
        BY <1>9, <3>1 DEF Ids
      <4>2. p = k
        BY <1>6, <1>9, <1>17, <4>1
      <4>3. k = 1 /\ n = MaxReplayed /\ m = n
        BY <1>10, <2>1, <4>1, <4>2
      <4>4. \A i \in 1 .. m - 1 : 1 < old(i) /\ old(i) \in 1 .. n /\ 1 \in 1 .. n
        BY <1>9, <1>11, <4>3
      <4>5. \A i \in 1 .. m - 1 : PlaceIn(store[1], log) < PlaceIn(store[old(i)], log)
        BY <1>9, <4>4 DEF Tracks
      <4> QED BY <4>1, <4>2, <4>3, <4>5
    <3>2. CASE e \notin Ids(store)
      <4>1. n = MaxReplayed /\ \A p \in 1 .. n : PlaceIn(e, log) < PlaceIn(store[p], log)
        BY <1>9, <2>1, <3>2 DEF Tracks
      <4>2. m = n
        BY <1>9, <1>10, <4>1
      <4> QED BY <1>11, <4>1, <4>2
    <3> QED BY <3>1, <3>2
  <2>3. \A i \in 1 .. m - 1 : PlaceIn(e, longer) < PlaceIn(new[i], longer)
    BY <1>14, <2>1, <2>2
  <2>4. PlaceIn(e, longer) < PlaceIn(new[m], longer)
    BY <1>1, <1>8, <1>10, <2>1
  <2> QED BY <1>15, <2>2, <2>3, <2>4
<1>18. Ids(new) \subseteq Ids(longer)
  BY <1>1, <1>6, <1>8
<1>19. Tracks(new, longer)
  BY <1>6, <1>9, <1>16, <1>17, <1>18 DEF Tracks
<1> QED BY <1>4, <1>7, <1>19

(* The ids of a log record are remembered one after the other. *)
LEMMA RememberAllIs ==
  ASSUME NEW store, NEW keys, NEW limit
  PROVE  /\ Len(keys) = 1 => RememberAll(store, keys, limit) = Remember(store, keys[1], limit)
         /\ Len(keys) = 2 => RememberAll(store, keys, limit)
                              = Remember(Remember(store, keys[1], limit), keys[2], limit)
<1>1. PICK first : first = Remember(store, keys[1], limit)
  OBVIOUS
<1>2. PICK second : second = Remember(first, keys[2], limit)
  OBVIOUS
<1>3. ASSUME Len(keys) = 1 PROVE RememberAll(store, keys, limit) = first
  <2> DEFINE After == CHOOSE f : f = [n \in 0 .. 1 |->
                IF n = 0 THEN store ELSE Remember(f[n - 1], keys[n], limit)]
             g == [n \in 0 .. 1 |-> IF n = 0 THEN store ELSE first]
  <2>1. RememberAll(store, keys, limit) = After[1]
    BY <1>3, Zenon DEF RememberAll
  <2>2. g = [n \in 0 .. 1 |-> IF n = 0 THEN store ELSE Remember(g[n - 1], keys[n], limit)]
    <3>1. \A n \in 0 .. 1 : n = 0 \/ n = 1
      OBVIOUS
    <3>2. g[1 - 1] = store
      OBVIOUS
    <3>3. \A n \in 0 .. 1 : (IF n = 0 THEN store ELSE first)
                            = IF n = 0 THEN store ELSE Remember(g[n - 1], keys[n], limit)
      BY <1>1, <3>1, <3>2
    <3> QED BY <3>3
  <2> HIDE DEF g
  <2>3. After = [n \in 0 .. 1 |->
                  IF n = 0 THEN store ELSE Remember(After[n - 1], keys[n], limit)]
    BY <2>2
  <2> HIDE DEF After
  <2>4. After[0] = store
    BY <2>3
  <2>5. After[1] = Remember(After[1 - 1], keys[1], limit)
    BY <2>3
  <2> QED BY <1>1, <2>1, <2>4, <2>5
<1>4. ASSUME Len(keys) = 2 PROVE RememberAll(store, keys, limit) = second
  <2> DEFINE After == CHOOSE f : f = [n \in 0 .. 2 |->
                IF n = 0 THEN store ELSE Remember(f[n - 1], keys[n], limit)]
             g == [n \in 0 .. 2 |-> IF n = 0 THEN store ELSE IF n = 1 THEN first ELSE second]
  <2>1. RememberAll(store, keys, limit) = After[2]
    BY <1>4, Zenon DEF RememberAll
  <2>2. g = [n \in 0 .. 2 |-> IF n = 0 THEN store ELSE Remember(g[n - 1], keys[n], limit)]
    <3>1. \A n \in 0 .. 2 : n = 0 \/ n = 1 \/ n = 2
      OBVIOUS
    <3>2. g[1 - 1] = store /\ g[2 - 1] = first
      OBVIOUS
    <3>3. \A n \in 0 .. 2 : (IF n = 0 THEN store ELSE IF n = 1 THEN first ELSE second)
                            = IF n = 0 THEN store ELSE Remember(g[n - 1], keys[n], limit)
      BY <1>1, <1>2, <3>1, <3>2
    <3> QED BY <3>3
  <2> HIDE DEF g
  <2>3. After = [n \in 0 .. 2 |->
                  IF n = 0 THEN store ELSE Remember(After[n - 1], keys[n], limit)]
    BY <2>2
  <2> HIDE DEF After
  <2>4. After[0] = store
    BY <2>3
  <2>5. After[1] = Remember(After[1 - 1], keys[1], limit)
    BY <2>3
  <2>6. After[2] = Remember(After[2 - 1], keys[2], limit)
    BY <2>3
  <2> QED BY <1>1, <1>2, <2>1, <2>4, <2>5, <2>6
<1> QED BY <1>1, <1>2, <1>3, <1>4

(* A log record keeps the store in step with the log. *)
LEMMA TracksBatch ==
  ASSUME Tracks(replayed, logged), NEW ids \in Batches,
         replayed' = RememberAll(replayed, ids, MaxReplayed), logged' = logged \o ids
  PROVE  Tracks(replayed', logged')
<1>1. logged \in Seq(Events)
  BY DEF Tracks
<1>2. ASSUME NEW e \in Events, ids = <<e>> PROVE Tracks(replayed', logged')
  <2>1. logged \o <<e>> = Append(logged, e)
    BY <1>1
  <2>2. Tracks(Remember(replayed, e, MaxReplayed), Append(logged, e))
    BY TracksOne
  <2>3. replayed' = Remember(replayed, e, MaxReplayed) /\ logged' = Append(logged, e)
    <3>1. Len(ids) = 1 /\ ids[1] = e
      BY <1>2
    <3> QED BY <1>2, <2>1, <3>1, RememberAllIs
  <2> QED BY <2>2, <2>3
<1>3. ASSUME NEW a \in Events, NEW b \in Events, ids = <<a, b>>
      PROVE  Tracks(replayed', logged')
  <2>1. logged \o <<a, b>> = Append(Append(logged, a), b)
    BY <1>1
  <2>2. PICK one, log : one = Remember(replayed, a, MaxReplayed) /\ log = Append(logged, a)
    OBVIOUS
  <2>3. Tracks(one, log)
    BY <2>2, TracksOne
  <2>4. Tracks(Remember(one, b, MaxReplayed), Append(log, b))
    BY <2>3, TracksOne
  <2>5. replayed' = Remember(one, b, MaxReplayed) /\ logged' = Append(log, b)
    <3>1. Len(ids) = 2 /\ ids[1] = a /\ ids[2] = b
      BY <1>3
    <3> QED BY <1>3, <2>1, <2>2, <3>1, RememberAllIs
  <2> QED BY <2>4, <2>5
<1>4. \/ \E e \in Events : ids = <<e>>
      \/ \E a \in Events, b \in Events : ids = <<a, b>>
  BY DEF Batches
<1> QED BY <1>2, <1>3, <1>4

(* An event is remembered as replayed if and only if it was logged, and    *)
(* fewer than the limit of others since.                                   *)
LEMMA TracksShows ==
  ASSUME Tracks(replayed, logged), NEW e \in Events
  PROVE  InSeq(e, replayed) <=>
           /\ InSeq(e, logged)
           /\ Cardinality({d \in Events : InSeq(d, logged) /\ LoggedAt(d) > LoggedAt(e)})
                < MaxReplayed
<1>1. /\ replayed \in Seq(Events) /\ Len(replayed) <= MaxReplayed /\ logged \in Seq(Events)
      /\ Ids(replayed) \subseteq Ids(logged) /\ MaxReplayed \in Nat \ {0}
      /\ Distinct(replayed)
  BY LimitsArePositive, TracksDistinct DEF Tracks
<1>2. \A d : (InSeq(d, replayed) <=> d \in Ids(replayed))
           /\ (InSeq(d, logged) <=> d \in Ids(logged))
  BY <1>1 DEF InSeq, Ids
<1>3. \A d : LoggedAt(d) = PlaceIn(d, logged)
  BY DEF LoggedAt, PlaceIn
<1>4. PICK later : later = {d \in Events : InSeq(d, logged) /\ LoggedAt(d) > LoggedAt(e)}
  OBVIOUS
<1>5. later = {d \in Ids(logged) : PlaceIn(d, logged) > PlaceIn(e, logged)}
  <2>1. Ids(logged) \subseteq Events
    BY <1>1 DEF Ids
  <2> QED BY <1>2, <1>3, <1>4, <2>1
<1>6. \A d \in Ids(logged) : PlaceIn(d, logged) \in Nat
  BY <1>1, PlaceInProperties
<1>7. /\ IsFiniteSet(Ids(replayed)) /\ Cardinality(Ids(replayed)) = Len(replayed)
      /\ IsFiniteSet(Ids(logged)) /\ Len(replayed) \in Nat
  BY <1>1, IdsOfDistinct
<1>8. IsFiniteSet(later)
  BY <1>5, <1>7, FS_Subset
<1>9. Cardinality(later) \in Nat
  BY <1>8, FS_CardinalityType
<1>10. ASSUME e \in Ids(replayed)
       PROVE  e \in Ids(logged) /\ Cardinality(later) < MaxReplayed
  <2>1. PICK p \in 1 .. Len(replayed) : replayed[p] = e
    BY <1>10 DEF Ids
  <2>2. e \in Ids(logged)
    BY <1>1, <1>10
  <2>3. later \subseteq Ids(replayed)
    <3>1. SUFFICES ASSUME NEW d \in later, d \notin Ids(replayed) PROVE FALSE
      OBVIOUS
    <3>2. d \in Ids(logged) /\ PlaceIn(d, logged) > PlaceIn(e, logged)
      BY <1>5, <3>1
    <3>3. PlaceIn(d, logged) < PlaceIn(e, logged)
      BY <2>1, <3>1, <3>2 DEF Tracks
    <3> QED BY <1>6, <2>2, <3>2, <3>3
  <2>4. e \notin later
    BY <1>5, <1>6, <2>2
  <2>5. later \subseteq Ids(replayed) \ {e}
    BY <2>3, <2>4
  <2>6. /\ IsFiniteSet(Ids(replayed) \ {e})
        /\ Cardinality(Ids(replayed) \ {e}) = Len(replayed) - 1
    BY <1>7, <1>10, FS_RemoveElement
  <2>7. Cardinality(later) <= Cardinality(Ids(replayed) \ {e})
    BY <2>5, <2>6, FS_Subset
  <2> QED BY <1>1, <1>7, <1>9, <2>2, <2>6, <2>7
<1>11. ASSUME e \in Ids(logged), e \notin Ids(replayed)
       PROVE  ~(Cardinality(later) < MaxReplayed)
  <2>1. /\ Len(replayed) = MaxReplayed
        /\ \A p \in 1 .. Len(replayed) : PlaceIn(e, logged) < PlaceIn(replayed[p], logged)
    BY <1>11 DEF Tracks
  <2>2. Ids(replayed) \subseteq later
    <3>1. SUFFICES ASSUME NEW d \in Ids(replayed) PROVE d \in later
      OBVIOUS
    <3>2. PICK p \in 1 .. Len(replayed) : replayed[p] = d
      BY DEF Ids
    <3>3. d \in Ids(logged) /\ PlaceIn(e, logged) < PlaceIn(d, logged)
      BY <1>1, <2>1, <3>2
    <3> QED BY <1>5, <1>6, <1>11, <3>3
  <2>3. Cardinality(Ids(replayed)) <= Cardinality(later)
    BY <1>8, <2>2, FS_Subset
  <2> QED BY <1>1, <1>7, <1>9, <2>1, <2>3
<1> QED BY <1>2, <1>4, <1>10, <1>11

-----------------------------------------------------------------------------
(* The feed.                                                               *)

Entry == [key : Nat, at : Nat, text : Texts, count : Nat]

(* f sums up the counts of the first m entries. *)
Sums(s, f, m) ==
  /\ f \in [0 .. m -> Int]
  /\ f[0] = 0
  /\ \A n \in 1 .. m : f[n] = f[n - 1] + s[n].count

(* There is such a function. *)
LEMMA SumsExist ==
  ASSUME NEW s \in Seq(Entry)
  PROVE  \E f : Sums(s, f, Len(s))
<1> DEFINE bad == {m \in 0 .. Len(s) : ~ \E f : Sums(s, f, m)}
<1>1. Len(s) \in 0 .. Len(s)
  OBVIOUS
<1>2. SUFFICES ASSUME bad # {} PROVE FALSE
  BY <1>1
<1>3. bad \in SUBSET Nat
  OBVIOUS
<1>4. PICK m \in bad : \A j \in bad : m <= j
  BY <1>2, <1>3, FirstInProperties
<1>5. m \in 0 .. Len(s) /\ ~ \E f : Sums(s, f, m)
  BY <1>4
<1>6. m # 0
  <2>1. Sums(s, [n \in 0 .. 0 |-> 0], 0)
    BY DEF Sums
  <2> QED BY <1>5, <2>1
<1>7. m - 1 \in 0 .. Len(s) /\ ~(m <= m - 1)
  BY <1>5, <1>6
<1>8. PICK f : Sums(s, f, m - 1)
  BY <1>4, <1>7
<1>9. s[m].count \in Nat
  <2>1. s[m] \in Entry
    BY <1>5, <1>6
  <2> QED BY <2>1 DEF Entry
<1>10. PICK c \in Nat : c = s[m].count
  BY <1>9
<1> DEFINE g == [n \in 0 .. m |-> IF n = m THEN f[m - 1] + c ELSE f[n]]
<1>11. g \in [0 .. m -> Int] /\ g[0] = 0
  BY <1>5, <1>6, <1>8 DEF Sums
<1>12. ASSUME NEW n \in 1 .. m PROVE g[n] = g[n - 1] + s[n].count
  <2>1. n - 1 \in 0 .. m - 1 /\ g[n - 1] = f[n - 1]
    BY <1>5
  <2>2. CASE n = m
    BY <1>10, <2>1, <2>2
  <2>3. CASE n # m
    <3>1. n \in 1 .. m - 1 /\ g[n] = f[n]
      BY <1>5, <2>3
    <3> QED BY <1>8, <2>1, <3>1 DEF Sums
  <2> QED BY <2>2, <2>3
<1> HIDE DEF g
<1>13. Sums(s, g, m)
  BY <1>11, <1>12 DEF Sums
<1> QED BY <1>5, <1>13

(* The counts of a feed are what any function that sums them up arrives at. *)
LEMMA CountsOfIs ==
  ASSUME NEW s \in Seq(Entry), NEW f, Sums(s, f, Len(s))
  PROVE  CountsOf(s) = f[Len(s)]
<1> DEFINE L == Len(s)
           c == [n \in 1 .. L |-> s[n].count]
           Sum == CHOOSE g : g = [n \in 0 .. L |-> IF n = 0 THEN 0 ELSE g[n - 1] + s[n].count]
<1>1. L \in Nat
  OBVIOUS
<1>2. CountsOf(s) = Sum[L]
  BY Zenon DEF CountsOf
<1>3. f = [n \in 0 .. L |-> f[n]]
  BY DEF Sums
<1>4. \A n \in 0 .. L : f[n] = IF n = 0 THEN 0 ELSE f[n - 1] + s[n].count
  <2>1. \A n \in 0 .. L : n = 0 \/ n \in 1 .. L
    OBVIOUS
  <2> QED BY <2>1 DEF Sums
<1>5. f = [n \in 0 .. L |-> IF n = 0 THEN 0 ELSE f[n - 1] + s[n].count]
  BY <1>3, <1>4
<1>6. Sum = [n \in 0 .. L |-> IF n = 0 THEN 0 ELSE Sum[n - 1] + s[n].count]
  BY <1>5
<1> HIDE DEF Sum
<1>7. \A n \in 0 .. L : Sum[n] = IF n = 0 THEN 0 ELSE Sum[n - 1] + s[n].count
  BY <1>6
<1>8. \A n \in 1 .. L : s[n].count \in Int
  <2>1. \A n \in 1 .. L : s[n] \in Entry
    OBVIOUS
  <2> QED BY <2>1 DEF Entry
<1> DEFINE bad == {m \in 0 .. L : f[m] # Sum[m]}
<1>9. bad = {}
  <2>1. SUFFICES ASSUME bad # {} PROVE FALSE
    OBVIOUS
  <2>2. bad \in SUBSET Nat
    OBVIOUS
  <2>3. PICK m \in bad : \A j \in bad : m <= j
    BY <2>1, <2>2, FirstInProperties
  <2>4. m \in 0 .. L /\ f[m] # Sum[m]
    BY <2>3
  <2>5. m # 0
    BY <1>4, <1>7, <2>4
  <2>6. m - 1 \in 0 .. L /\ ~(m <= m - 1)
    BY <1>1, <2>4, <2>5
  <2>7. f[m - 1] = Sum[m - 1]
    BY <2>3, <2>6
  <2> QED BY <1>4, <1>7, <2>4, <2>5, <2>7
<1>10. L \in 0 .. L
  BY <1>1
<1> QED BY <1>2, <1>9, <1>10

(* An entry more is its count more. *)
LEMMA CountsOfAppend ==
  ASSUME NEW s \in Seq(Entry), NEW e \in Entry
  PROVE  CountsOf(s) \in Int /\ CountsOf(Append(s, e)) = CountsOf(s) + e.count
<1>1. PICK f : Sums(s, f, Len(s))
  BY SumsExist
<1>2. CountsOf(s) = f[Len(s)]
  BY <1>1, CountsOfIs
<1>3. PICK longer \in Seq(Entry) :
        /\ longer = Append(s, e) /\ Len(longer) = Len(s) + 1 /\ longer[Len(s) + 1] = e
        /\ \A i \in 1 .. Len(s) : longer[i] = s[i]
  <2>1. /\ Append(s, e) \in Seq(Entry)
        /\ Len(Append(s, e)) = Len(s) + 1 /\ Append(s, e)[Len(s) + 1] = e
        /\ \A i \in 1 .. Len(s) : Append(s, e)[i] = s[i]
    OBVIOUS
  <2> QED BY <2>1, Zenon
<1>4. PICK L \in Nat, c \in Nat : L = Len(s) /\ c = e.count
  BY DEF Entry
<1> DEFINE g == [n \in 0 .. L + 1 |-> IF n = L + 1 THEN f[L] + c ELSE f[n]]
<1>5. g \in [0 .. L + 1 -> Int] /\ g[0] = 0 /\ g[L + 1] = f[L] + c
  <2>1. /\ f[0] = 0 /\ 0 \in 0 .. L + 1 /\ L + 1 \in 0 .. L + 1 /\ L \in 0 .. L
        /\ \A n \in 0 .. L : f[n] \in Int
    BY <1>1, <1>4 DEF Sums
  <2>2. \A n \in 0 .. L + 1 : n = L + 1 \/ n \in 0 .. L
    BY <1>4
  <2>3. \A n \in 0 .. L + 1 : (IF n = L + 1 THEN f[L] + c ELSE f[n]) \in Int
    BY <1>4, <2>1, <2>2
  <2> QED BY <2>1, <2>3
<1>6. ASSUME NEW n \in 1 .. L + 1 PROVE g[n] = g[n - 1] + longer[n].count
  <2>1. n - 1 \in 0 .. L /\ g[n - 1] = f[n - 1]
    OBVIOUS
  <2>2. CASE n = L + 1
    BY <1>3, <1>4, <1>5, <2>1, <2>2
  <2>3. CASE n # L + 1
    <3>1. n \in 1 .. L /\ g[n] = f[n] /\ longer[n] = s[n]
      BY <1>3, <1>4, <2>3
    <3> QED BY <1>1, <1>4, <2>1, <3>1 DEF Sums
  <2> QED BY <2>2, <2>3
<1> HIDE DEF g
<1>7. Sums(longer, g, Len(longer))
  BY <1>3, <1>4, <1>5, <1>6 DEF Sums
<1>8. CountsOf(longer) = g[L + 1]
  BY <1>3, <1>4, <1>7, CountsOfIs
<1>9. f[L] \in Int
  BY <1>1, <1>4 DEF Sums
<1> QED BY <1>2, <1>3, <1>4, <1>5, <1>8, <1>9

(* An entry less is its count less. *)
LEMMA CountsOfWithout ==
  ASSUME NEW s \in Seq(Entry), NEW k \in 1 .. Len(s), NEW t \in Seq(Entry),
         Len(t) = Len(s) - 1,
         \A i \in 1 .. Len(s) - 1 : t[i] = IF i < k THEN s[i] ELSE s[i + 1]
  PROVE  CountsOf(t) = CountsOf(s) - s[k].count
<1>1. PICK f : Sums(s, f, Len(s))
  BY SumsExist
<1>2. CountsOf(s) = f[Len(s)]
  BY <1>1, CountsOfIs
<1>3. PICK L \in Nat : L = Len(s)
  OBVIOUS
<1>4. PICK q : q = [n \in 1 .. L |-> s[n].count]
  OBVIOUS
<1>5. /\ k \in 1 .. L /\ q \in [1 .. L -> Int]
      /\ \A n \in 1 .. L : s[n].count = q[n]
  <2>1. \A n \in 1 .. L : s[n] \in Entry
    BY <1>3
  <2>2. ASSUME NEW n \in 1 .. L PROVE s[n].count \in Int
    <3>1. s[n] \in Entry
      BY <2>1
    <3> QED BY ONLY <3>1 DEF Entry
  <2>3. q \in [1 .. L -> Int]
    BY ONLY <1>4, <2>2, Zenon
  <2>4. \A n \in 1 .. L : s[n].count = q[n]
    BY ONLY <1>4
  <2> QED BY <1>3, <2>3, <2>4
<1>6. /\ f[0] = 0 /\ \A n \in 0 .. L : f[n] \in Int
      /\ \A n \in 1 .. L : f[n] = f[n - 1] + q[n]
  BY <1>1, <1>3, <1>5 DEF Sums
<1>7. \A n \in 1 .. L - 1 : t[n].count = IF n < k THEN q[n] ELSE q[n + 1]
  <2>1. \A n \in 1 .. L - 1 : n \in 1 .. L /\ n + 1 \in 1 .. L
    OBVIOUS
  <2> QED BY <1>3, <1>5, <2>1
<1> DEFINE g == [n \in 0 .. L - 1 |-> IF n < k THEN f[n] ELSE f[n + 1] - q[k]]
<1>8. \A n \in 0 .. L - 1 : /\ n \in 0 .. L /\ n + 1 \in 0 .. L
                            /\ g[n] = IF n < k THEN f[n] ELSE f[n + 1] - q[k]
  OBVIOUS
<1>9. g \in [0 .. L - 1 -> Int]
  <2>1. \A n \in 0 .. L - 1 : (IF n < k THEN f[n] ELSE f[n + 1] - q[k]) \in Int
    <3>1. \A n \in 0 .. L - 1 : f[n] \in Int /\ f[n + 1] \in Int
      BY <1>6, <1>8
    <3>2. q[k] \in Int
      BY <1>5
    <3>3. \A x \in Int : x - q[k] \in Int
      BY <3>2
    <3> QED BY <3>1, <3>3
  <2> QED BY <2>1
<1> HIDE DEF g
<1>10. g[0] = 0
  BY <1>5, <1>6, <1>8
<1>11. ASSUME NEW n \in 1 .. L - 1 PROVE g[n] = g[n - 1] + t[n].count
  <2>1. /\ n \in 0 .. L - 1 /\ n - 1 \in 0 .. L - 1 /\ n \in 1 .. L /\ n + 1 \in 1 .. L
        /\ (n + 1) - 1 = n /\ (n - 1) + 1 = n /\ n \in 0 .. L
    OBVIOUS
  <2>2. f[n] = f[n - 1] + q[n] /\ f[n + 1] = f[n] + q[n + 1]
    BY <1>6, <2>1
  <2>3. /\ g[n] = (IF n < k THEN f[n] ELSE f[n + 1] - q[k])
        /\ g[n - 1] = (IF n - 1 < k THEN f[n - 1] ELSE f[n] - q[k])
        /\ t[n].count = (IF n < k THEN q[n] ELSE q[n + 1])
    BY <1>7, <1>8, <2>1
  <2>4. f[n] \in Int /\ f[n - 1] \in Int /\ f[n + 1] \in Int
        /\ q[n] \in Int /\ q[n + 1] \in Int /\ q[k] \in Int
    BY <1>5, <1>6, <1>8, <2>1
  <2>5. CASE n < k
    BY <1>5, <2>2, <2>3, <2>4, <2>5
  <2>6. CASE n = k
    <3>1. g[n] = f[n + 1] - q[n] /\ g[n - 1] = f[n - 1] /\ t[n].count = q[n + 1]
      BY <1>5, <2>3, <2>6
    <3>2. \A u, v, w \in Int : ((u + v) + w) - v = u + w
      OBVIOUS
    <3>3. f[n + 1] = (f[n - 1] + q[n]) + q[n + 1]
      BY <2>2
    <3>4. ((f[n - 1] + q[n]) + q[n + 1]) - q[n] = f[n - 1] + q[n + 1]
      BY <2>4, <3>2
    <3> QED BY <3>1, <3>3, <3>4
  <2>7. CASE n > k
    <3>1. g[n] = f[n + 1] - q[k] /\ g[n - 1] = f[n] - q[k] /\ t[n].count = q[n + 1]
      BY <1>5, <2>3, <2>7
    <3>3. f[n + 1] - q[k] = (f[n] - q[k]) + q[n + 1]
      <4>1. (f[n] + q[n + 1]) - q[k] = (f[n] - q[k]) + q[n + 1]
        <5>1. PICK u \in Int, v \in Int, w \in Int : u = f[n] /\ v = q[n + 1] /\ w = q[k]
          BY <2>4
        <5>2. (u + v) - w = (u - w) + v
          OBVIOUS
        <5> QED BY <5>1, <5>2
      <4> QED BY <2>2, <4>1
    <3> QED BY <3>1, <3>3
  <2> QED BY <1>5, <2>5, <2>6, <2>7
<1>12. g[L - 1] = f[L] - q[k]
  <2>1. L - 1 \in 0 .. L - 1 /\ (L - 1) + 1 = L /\ L \in 1 .. L
    BY <1>5
  <2>2. f[L] = f[L - 1] + q[L] /\ f[L - 1] \in Int /\ q[L] \in Int
    BY <1>5, <1>6, <1>8, <2>1
  <2>3. g[L - 1] = IF L - 1 < k THEN f[L - 1] ELSE f[L] - q[k]
    BY <1>8, <2>1
  <2>4. CASE L - 1 < k
    <3>1. k = L
      BY <1>5, <2>4
    <3>2. \A u, v \in Int : (u + v) - v = u
      OBVIOUS
    <3>3. (f[L - 1] + q[L]) - q[L] = f[L - 1]
      BY <2>2, <3>2
    <3> QED BY <2>2, <2>3, <2>4, <3>1, <3>3
  <2> QED BY <2>3, <2>4
<1>13. Sums(t, g, Len(t))
  BY <1>3, <1>9, <1>10, <1>11 DEF Sums
<1>14. CountsOf(t) = g[L - 1]
  BY <1>3, <1>13, CountsOfIs
<1> QED BY <1>2, <1>3, <1>5, <1>12, <1>14

(* There is a key that no entry has. *)
LEMMA FreshKeyIsFresh ==
  ASSUME activity \in Seq(Entry)
  PROVE  FreshKey \in Nat /\ \A i \in 1 .. Len(activity) : activity[i].key # FreshKey
<1> DEFINE free == {k \in 1 .. Len(activity) + 1 : \A i \in DOMAIN activity : activity[i].key # k}
           L == Len(activity)
           holder == [k \in 1 .. L + 1 |-> CHOOSE i \in 1 .. L : activity[i].key = k]
<1>1. L \in Nat /\ DOMAIN activity = 1 .. L
  OBVIOUS
<1>2. free # {}
  <2>1. SUFFICES ASSUME free = {} PROVE FALSE
    OBVIOUS
  <2>2. ASSUME NEW k \in 1 .. L + 1
        PROVE  holder[k] \in 1 .. L /\ activity[holder[k]].key = k
    <3>1. \E i \in 1 .. L : activity[i].key = k
      BY <1>1, <2>1
    <3> QED BY <3>1
  <2> HIDE DEF holder
  <2>3. holder \in [1 .. L + 1 -> 1 .. L]
    <3>1. holder = [k \in 1 .. L + 1 |-> holder[k]]
      BY DEF holder
    <3> QED BY <2>2, <3>1
  <2>4. /\ IsFiniteSet(1 .. L + 1) /\ Cardinality(1 .. L + 1) = L + 1
        /\ IsFiniteSet(1 .. L) /\ Cardinality(1 .. L) = L
    <3>1. 1 \in Int /\ L \in Int /\ L + 1 \in Int
      BY <1>1
    <3>2. /\ IsFiniteSet(1 .. L + 1)
          /\ Cardinality(1 .. L + 1) = IF 1 > L + 1 THEN 0 ELSE (L + 1) - 1 + 1
      BY <3>1, FS_Interval
    <3>3. IsFiniteSet(1 .. L) /\ Cardinality(1 .. L) = IF 1 > L THEN 0 ELSE L - 1 + 1
      BY <3>1, FS_Interval
    <3> QED BY <1>1, <3>2, <3>3
  <2>5. Cardinality(1 .. L) < Cardinality(1 .. L + 1)
    BY <1>1, <2>4
  <2>6. PICK x \in 1 .. L + 1, y \in 1 .. L + 1 : x # y /\ holder[x] = holder[y]
    BY <2>3, <2>4, <2>5, FS_PigeonHole
  <2> QED BY <2>2, <2>6
<1>3. FreshKey = FirstIn(free) /\ free \in SUBSET Nat
  BY DEF FreshKey
<1>4. FreshKey \in free
  BY <1>2, <1>3, FirstInProperties
<1> QED BY <1>1, <1>4

(* A sequence r that gives up the place k of s, if s has it, and goes on   *)
(* with one more entry.                                                    *)
Moved(s, k, r) ==
  /\ k \in 1 .. Len(s) + 1
  /\ Len(r) = IF k <= Len(s) THEN Len(s) ELSE Len(s) + 1
  /\ \A i \in 1 .. Len(r) - 1 : r[i] = IF i < k THEN s[i] ELSE s[i + 1]

(* The counts change by those of the two entries. *)
LEMMA CountsOfMoved ==
  ASSUME NEW s \in Seq(Entry), NEW r \in Seq(Entry), NEW k, Moved(s, k, r)
  PROVE  CountsOf(r) = IF k <= Len(s) THEN (CountsOf(s) - s[k].count) + r[Len(r)].count
                       ELSE CountsOf(s) + r[Len(r)].count
<1>1. PICK n \in Nat, m \in Nat : n = Len(s) /\ m = Len(r)
  OBVIOUS
<1>2. /\ k \in 1 .. n + 1 /\ m = (IF k <= n THEN n ELSE n + 1) /\ m \in Nat \ {0}
      /\ \A i \in 1 .. m - 1 : r[i] = IF i < k THEN s[i] ELSE s[i + 1]
  BY <1>1 DEF Moved
<1>3. r[m] \in Entry /\ \A i \in 1 .. m - 1 : r[i] \in Entry
  <2>1. m \in 1 .. Len(r) /\ \A i \in 1 .. m - 1 : i \in 1 .. Len(r)
    BY <1>1, <1>2
  <2> QED BY <2>1, ElementOfSeq
<1>4. PICK t : t = [i \in 1 .. m - 1 |-> r[i]]
  OBVIOUS
<1>5. t \in Seq(Entry) /\ Len(t) = m - 1 /\ \A i \in 1 .. m - 1 : t[i] = r[i]
  BY <1>2, <1>3, <1>4
<1>6. r = Append(t, r[m])
  <2>1. /\ Append(t, r[m]) \in Seq(Entry) /\ Len(Append(t, r[m])) = m
        /\ Append(t, r[m])[m] = r[m]
        /\ \A i \in 1 .. m - 1 : Append(t, r[m])[i] = r[i]
    BY <1>2, <1>3, <1>5
  <2>2. \A i \in 1 .. m : i = m \/ i \in 1 .. m - 1
    BY <1>2
  <2>3. \A i \in 1 .. Len(r) : r[i] = Append(t, r[m])[i]
    BY <1>1, <2>1, <2>2
  <2> QED BY <1>1, <2>1, <2>3, SeqEqual
<1>7. CountsOf(r) = CountsOf(t) + r[m].count
  BY <1>3, <1>5, <1>6, CountsOfAppend
<1>8. CASE k <= n
  <2>1. k \in 1 .. Len(s) /\ Len(t) = Len(s) - 1
        /\ \A i \in 1 .. Len(s) - 1 : t[i] = IF i < k THEN s[i] ELSE s[i + 1]
    BY <1>1, <1>2, <1>5, <1>8
  <2>2. CountsOf(t) = CountsOf(s) - s[k].count
    BY <1>5, <2>1, CountsOfWithout
  <2> QED BY <1>1, <1>7, <1>8, <2>2
<1>9. CASE ~(k <= n)
  <2>1. Len(t) = Len(s) /\ \A i \in 1 .. Len(t) : t[i] = s[i]
    BY <1>1, <1>2, <1>5, <1>9
  <2>2. t = s
    BY <1>5, <2>1, SeqEqual
  <2> QED BY <1>1, <1>7, <1>9, <2>2
<1> QED BY <1>8, <1>9

(* A new entry goes to the end; a full feed loses its oldest for that. *)
LEMMA NewestAppend ==
  ASSUME NEW s \in Seq(Entry), NEW e \in Entry, Len(s) <= MaxActivity
  PROVE  /\ Newest(Append(s, e), MaxActivity) \in Seq(Entry)
         /\ Len(Newest(Append(s, e), MaxActivity)) <= MaxActivity
         /\ Moved(s, IF Len(s) < MaxActivity THEN Len(s) + 1 ELSE 1,
                  Newest(Append(s, e), MaxActivity))
         /\ Newest(Append(s, e), MaxActivity)[Len(Newest(Append(s, e), MaxActivity))] = e
<1>1. MaxActivity \in Nat \ {0} /\ Len(s) \in Nat
  BY LimitsArePositive
<1>2. PICK longer : longer = Append(s, e)
  OBVIOUS
<1>3. /\ longer \in Seq(Entry) /\ Len(longer) = Len(s) + 1 /\ longer[Len(s) + 1] = e
      /\ \A i \in 1 .. Len(s) : longer[i] = s[i]
  BY <1>2
<1>4. PICK new : new = Newest(longer, MaxActivity)
  OBVIOUS
<1>5. /\ new \in Seq(Entry) /\ Len(new) <= MaxActivity
      /\ Len(longer) <= MaxActivity => new = longer
      /\ Len(longer) > MaxActivity =>
           /\ Len(new) = MaxActivity
           /\ \A i \in 1 .. MaxActivity : new[i] = longer[i + (Len(longer) - MaxActivity)]
  BY <1>1, <1>3, <1>4, NewestProperties
<1>6. CASE Len(s) < MaxActivity
  <2>1. new = longer
    BY <1>1, <1>3, <1>5, <1>6
  <2>2. Moved(s, Len(s) + 1, new) /\ new[Len(new)] = e
    BY <1>1, <1>3, <2>1 DEF Moved
  <2> QED BY <1>2, <1>4, <1>5, <1>6, <2>2
<1>7. CASE ~(Len(s) < MaxActivity)
  <2>1. Len(s) = MaxActivity /\ Len(longer) > MaxActivity /\ Len(longer) - MaxActivity = 1
    BY <1>1, <1>3, <1>7
  <2>2. Len(new) = MaxActivity /\ \A i \in 1 .. MaxActivity : new[i] = longer[i + 1]
    BY <1>5, <2>1
  <2>3. new[Len(new)] = e
    BY <1>1, <1>3, <2>1, <2>2
  <2>4. Moved(s, 1, new)
    BY <1>1, <1>3, <2>1, <2>2 DEF Moved
  <2> QED BY <1>2, <1>4, <1>5, <1>7, <2>3, <2>4
<1> QED BY <1>6, <1>7

(* A repeated entry goes to the end, counted once more; with keys and      *)
(* times that differ it is the one that was removed.                       *)
LEMMA CoalescedEffect ==
  ASSUME activity \in Seq(Entry), NEW text \in Texts, NEW now \in Nat, Repeated(text) # {}
  PROVE  /\ Coalesced(text, now) \in Seq(Entry)
         /\ Len(Coalesced(text, now)) = Len(activity)
         /\ \E f \in Repeated(text) :
              /\ Coalesced(text, now)[Len(activity)]
                   = [activity[f] EXCEPT !.count = @ + 1, !.at = now]
              /\ (\A i, j \in 1 .. Len(activity) : i # j =>
                    activity[i].at # activity[j].at /\ activity[i].key # activity[j].key)
                 => Moved(activity, f, Coalesced(text, now))
<1>1. PICK L \in Nat : L = Len(activity) /\ DOMAIN activity = 1 .. L
  OBVIOUS
<1>2. PICK f : f = FirstIn(Repeated(text))
  OBVIOUS
<1>3. Repeated(text) \in SUBSET Nat /\ Repeated(text) \subseteq 1 .. L
  BY <1>1 DEF Repeated
<1>4. f \in Repeated(text) /\ f \in 1 .. L
  BY <1>2, <1>3, FirstInProperties
<1>5. PICK old \in Entry : old = activity[f]
  BY <1>1, <1>4, ElementOfSeq
<1>6. PICK new : new = [old EXCEPT !.count = @ + 1, !.at = now]
  OBVIOUS
<1>7. new \in Entry
  <2>1. old.count \in Nat /\ old.count + 1 \in Nat
    BY DEF Entry
  <2> QED BY <1>6, <2>1 DEF Entry
<1>8. PICK equal : equal = {i \in DOMAIN activity : Equal(activity[i], old)}
  OBVIOUS
<1>9. PICK g : g = FirstIn(equal)
  OBVIOUS
<1>10. f \in equal /\ equal \in SUBSET Nat
  BY <1>1, <1>4, <1>5, <1>8 DEF Equal
<1>11. g \in equal /\ g \in 1 .. L
  BY <1>1, <1>8, <1>9, <1>10, FirstInProperties
<1>12. PICK rest : rest = Without(activity, g)
  OBVIOUS
<1>13. /\ rest \in Seq(Entry) /\ Len(rest) = L - 1 /\ DOMAIN rest = 1 .. L - 1
       /\ \A i \in 1 .. L - 1 : rest[i] = IF i < g THEN activity[i] ELSE activity[i + 1]
  <2>1. /\ rest \in Seq(Entry) /\ Len(rest) = L - 1
        /\ \A i \in 1 .. L - 1 : rest[i] = IF i < g THEN activity[i] ELSE activity[i + 1]
    BY <1>1, <1>11, <1>12, WithoutProperties
  <2> QED BY <2>1
<1>14. PICK marked : marked = [i \in DOMAIN rest |-> IF rest[i].key = old.key THEN new ELSE rest[i]]
  OBVIOUS
<1>15. Coalesced(text, now) = Append(marked, new)
  BY <1>2, <1>5, <1>6, <1>8, <1>9, <1>12, <1>14, Zenon DEF Coalesced
<1>16. /\ marked \in Seq(Entry) /\ Len(marked) = L - 1
       /\ \A i \in 1 .. L - 1 : marked[i] = IF rest[i].key = old.key THEN new ELSE rest[i]
  <2>1. \A i \in 1 .. L - 1 : rest[i] \in Entry
    BY <1>13, ElementOfSeq
  <2>2. \A i \in 1 .. L - 1 : (IF rest[i].key = old.key THEN new ELSE rest[i]) \in Entry
    BY <1>7, <2>1
  <2>3. marked = [i \in 1 .. L - 1 |-> IF rest[i].key = old.key THEN new ELSE rest[i]]
    BY <1>13, <1>14
  <2>4. L - 1 \in Nat
    BY <1>1, <1>4
  <2> QED BY <2>2, <2>3, <2>4
<1>17. PICK r : r = Append(marked, new)
  OBVIOUS
<1>18. /\ r \in Seq(Entry) /\ Len(r) = L /\ r[L] = new
       /\ \A i \in 1 .. L - 1 : r[i] = marked[i]
  BY <1>4, <1>7, <1>16, <1>17
<1>19. ASSUME \A i, j \in 1 .. L : i # j =>
               activity[i].at # activity[j].at /\ activity[i].key # activity[j].key
       PROVE  Moved(activity, f, r)
  <2>1. activity[g].at = activity[f].at
    BY <1>5, <1>8, <1>11 DEF Equal
  <2>2. g = f
    BY <1>4, <1>11, <1>19, <2>1
  <2>3. ASSUME NEW i \in 1 .. L - 1
        PROVE  r[i] = IF i < f THEN activity[i] ELSE activity[i + 1]
    <3>1. PICK p \in 1 .. L : p # f /\ p = IF i < f THEN i ELSE i + 1
      <4>1. i \in 1 .. L /\ i + 1 \in 1 .. L /\ i \in Nat /\ f \in Nat
        BY <1>4
      <4> QED BY <4>1
    <3>2. rest[i] = activity[p]
      BY <1>13, <2>2, <3>1
    <3>3. rest[i].key # old.key
      BY <1>4, <1>5, <1>19, <3>1, <3>2
    <3> QED BY <1>16, <1>18, <3>1, <3>2, <3>3
  <2>4. f \in 1 .. L + 1 /\ f <= L
    BY <1>4
  <2> QED BY <1>1, <1>18, <2>3, <2>4 DEF Moved
<1> QED BY <1>1, <1>4, <1>5, <1>6, <1>15, <1>17, <1>18, <1>19

(* An entry more keeps the feed typed and within its limit. *)
LEMMA AddActivityType ==
  ASSUME FeedTypeOK, NEW text \in Texts, AddActivity(text)
  PROVE  FeedTypeOK'
<1>1. /\ activity \in Seq(Entry) /\ Len(activity) <= MaxActivity
      /\ clock \in Nat /\ entries \in Nat /\ tied \in BOOLEAN
  BY DEF FeedTypeOK, Entry
<1>2. /\ entries' \in Nat /\ clock' \in Nat
  BY <1>1 DEF AddActivity
<1>3. tied' \in BOOLEAN
  BY <1>1, Zenon DEF AddActivity
<1>4. activity' \in Seq(Entry) /\ Len(activity') <= MaxActivity
  <2>1. CASE Repeated(text) # {}
    <3>1. activity' = Coalesced(text, clock')
      BY <2>1 DEF AddActivity
    <3>2. PICK now \in Nat : now = clock'
      BY <1>2
    <3>3. Coalesced(text, now) \in Seq(Entry) /\ Len(Coalesced(text, now)) = Len(activity)
      BY <1>1, <2>1, CoalescedEffect
    <3> QED BY <1>1, <3>1, <3>2, <3>3
  <2>2. CASE Repeated(text) = {}
    <3>1. PICK new : new = [key |-> FreshKey, at |-> clock', text |-> text, count |-> 1]
      OBVIOUS
    <3>2. new \in Entry
      BY <1>1, <1>2, <3>1, FreshKeyIsFresh DEF Entry
    <3>3. activity' = Newest(Append(activity, new), MaxActivity)
      BY <2>2, <3>1 DEF AddActivity
    <3> QED BY <1>1, <3>2, <3>3, NewestAppend
  <2> QED BY <2>1, <2>2
<1> QED BY <1>2, <1>3, <1>4 DEF FeedTypeOK, Entry

(* Unless two entries read the same time: keys differ, times increase up   *)
(* to that of the last reading, the newest entries carry different         *)
(* messages, and the counts make up the calls until one is evicted.        *)
FeedIs(feed, now, calls) ==
  /\ \A i, j \in 1 .. Len(feed) : i < j => feed[i].at < feed[j].at
  /\ \A i \in 1 .. Len(feed) : feed[i].at <= now
  /\ \A i, j \in 1 .. Len(feed) : i # j => feed[i].key # feed[j].key
  /\ \A i, j \in 1 .. Len(feed) :
       i < j /\ Len(feed) - i <= Lookback => feed[i].text # feed[j].text
  /\ CountsOf(feed) <= calls
  /\ Len(feed) < MaxActivity => CountsOf(feed) = calls

FeedInv == ~tied => FeedIs(activity, clock, entries)

(* A feed that gives up one place and goes on with an entry of a new time  *)
(* stays so, if no other of the newest entries carries its message.        *)
LEMMA FeedMoved ==
  ASSUME NEW s \in Seq(Entry), NEW r \in Seq(Entry), NEW now \in Nat, NEW calls \in Nat, NEW k,
         NEW new, FeedIs(s, now, calls), Moved(s, k, r), r[Len(r)] = new,
         new.at = now + 1,
         \A p \in 1 .. Len(s) : p # k => s[p].key # new.key,
         \A p \in 1 .. Len(s) :
           p # k /\ Len(r) - Lookback <= (IF p < k THEN p ELSE p - 1)
             => s[p].text # new.text,
         IF k <= Len(s)
         THEN \/ new.count = s[k].count + 1
              \/ new.count = 1 /\ Len(s) = MaxActivity
         ELSE new.count = 1
  PROVE  FeedIs(r, now + 1, calls + 1)
<1>1. Lookback \in Nat /\ MaxActivity \in Nat
  BY LimitsArePositive
<1>2. PICK n \in Nat, m \in Nat : n = Len(s) /\ m = Len(r)
  OBVIOUS
<1>3. /\ k \in 1 .. n + 1 /\ m = (IF k <= n THEN n ELSE n + 1) /\ m \in Nat \ {0}
      /\ \A i \in 1 .. m - 1 : r[i] = IF i < k THEN s[i] ELSE s[i + 1]
      /\ r[m] = new
  <2>1. /\ k \in 1 .. n + 1 /\ m = (IF k <= n THEN n ELSE n + 1)
        /\ \A i \in 1 .. m - 1 : r[i] = IF i < k THEN s[i] ELSE s[i + 1]
    BY <1>2 DEF Moved
  <2>2. m \in Nat \ {0}
    BY <2>1
  <2> QED BY <1>2, <2>1, <2>2
<1>4. /\ new.at = now + 1
      /\ \A p \in 1 .. n : p # k => s[p].key # new.key
      /\ \A p \in 1 .. n : p # k /\ m - Lookback <= (IF p < k THEN p ELSE p - 1)
            => s[p].text # new.text
  BY <1>2
<1> DEFINE old(i) == IF i < k THEN i ELSE i + 1
<1>5. \A i \in 1 .. m - 1 : /\ old(i) \in 1 .. n /\ old(i) # k /\ r[i] = s[old(i)]
                           /\ n - old(i) <= m - i
                           /\ (IF old(i) < k THEN old(i) ELSE old(i) - 1) = i
  BY <1>3
<1>6. \A i, j \in 1 .. m - 1 : i < j => old(i) < old(j)
  BY <1>3
<1>7. \A i, j \in 1 .. m - 1 : i # j => old(i) # old(j)
  BY <1>3
<1> HIDE DEF old
<1>8. \A i \in 1 .. m : i = m \/ i \in 1 .. m - 1
  BY <1>3
<1>9. \A p \in 1 .. n : s[p].at \in Nat
  <2>1. \A p \in 1 .. n : s[p] \in Entry
    BY <1>2, ElementOfSeq
  <2> QED BY <2>1 DEF Entry
<1>10. /\ \A i, j \in 1 .. n : i < j => s[i].at < s[j].at
       /\ \A i \in 1 .. n : s[i].at <= now
       /\ \A i, j \in 1 .. n : i # j => s[i].key # s[j].key
       /\ \A i, j \in 1 .. n : i < j /\ n - i <= Lookback => s[i].text # s[j].text
       /\ CountsOf(s) <= calls
       /\ n < MaxActivity => CountsOf(s) = calls
  BY <1>2 DEF FeedIs
<1>11. \A i \in 1 .. m : r[i].at <= now + 1
  <2>1. ASSUME NEW i \in 1 .. m - 1 PROVE r[i].at <= now + 1
    <3>1. PICK p \in 1 .. n : r[i] = s[p]
      BY <1>5
    <3>2. s[p].at <= now /\ s[p].at \in Nat
      BY <1>9, <1>10
    <3> QED BY <3>1, <3>2
  <2>2. r[m].at <= now + 1
    BY <1>3, <1>4
  <2> QED BY <1>8, <2>1, <2>2
<1>12. ASSUME NEW i \in 1 .. m, NEW j \in 1 .. m, i < j PROVE r[i].at < r[j].at
  <2>1. i \in 1 .. m - 1 /\ r[i] = s[old(i)] /\ old(i) \in 1 .. n
    BY <1>2, <1>5, <1>12
  <2>2. CASE j = m
    <3>1. PICK a \in Nat : a = s[old(i)].at /\ a <= now
      BY <1>9, <1>10, <2>1
    <3>2. r[i].at = a /\ r[j].at = now + 1
      BY <1>3, <1>4, <2>1, <2>2, <3>1
    <3> QED BY <3>1, <3>2
  <2>3. CASE j \in 1 .. m - 1
    <3>1. old(i) < old(j) /\ old(j) \in 1 .. n /\ r[j] = s[old(j)]
      BY <1>5, <1>6, <1>12, <2>1, <2>3
    <3> QED BY <1>10, <2>1, <3>1
  <2> QED BY <1>8, <2>2, <2>3
<1>13. ASSUME NEW i \in 1 .. m, NEW j \in 1 .. m, i # j PROVE r[i].key # r[j].key
  <2>1. CASE i \in 1 .. m - 1 /\ j \in 1 .. m - 1
    <3>1. /\ old(i) # old(j) /\ old(i) \in 1 .. n /\ old(j) \in 1 .. n
          /\ r[i] = s[old(i)] /\ r[j] = s[old(j)]
      BY <1>5, <1>7, <1>13, <2>1
    <3> QED BY <1>10, <3>1
  <2>4. ASSUME NEW l \in 1 .. m - 1 PROVE r[l].key # r[m].key
    <3>1. old(l) \in 1 .. n /\ old(l) # k /\ r[l] = s[old(l)]
      BY <1>5
    <3> QED BY <1>3, <1>4, <3>1
  <2>2. CASE i = m /\ j \in 1 .. m - 1
    BY <2>2, <2>4
  <2>3. CASE j = m /\ i \in 1 .. m - 1
    BY <2>3, <2>4
  <2> QED BY <1>8, <1>13, <2>1, <2>2, <2>3
<1>14. ASSUME NEW i \in 1 .. m, NEW j \in 1 .. m, i < j, m - i <= Lookback
       PROVE  r[i].text # r[j].text
  <2>1. /\ i \in 1 .. m - 1 /\ r[i] = s[old(i)] /\ old(i) \in 1 .. n /\ old(i) # k
        /\ n - old(i) <= m - i
        /\ (IF old(i) < k THEN old(i) ELSE old(i) - 1) = i
    BY <1>2, <1>5, <1>14
  <2>2. CASE j = m
    <3>1. m - Lookback <= i
      BY <1>1, <1>2, <1>14
    <3>2. s[old(i)].text # new.text
      BY <1>4, <2>1, <3>1
    <3> QED BY <1>3, <2>1, <2>2, <3>2
  <2>3. CASE j \in 1 .. m - 1
    <3>1. old(i) < old(j) /\ old(j) \in 1 .. n /\ r[j] = s[old(j)]
      BY <1>5, <1>6, <1>14, <2>1, <2>3
    <3>2. n - old(i) <= Lookback
      BY <1>1, <1>2, <1>14, <2>1
    <3> QED BY <1>10, <2>1, <3>1, <3>2
  <2> QED BY <1>8, <2>2, <2>3
<1>15. CountsOf(r) = IF k <= n THEN (CountsOf(s) - s[k].count) + new.count
                     ELSE CountsOf(s) + new.count
  BY <1>2, CountsOfMoved
<1>16. CountsOf(s) \in Int
  <2>1. [key |-> 0, at |-> 0, text |-> "started", count |-> 0] \in Entry
    BY DEF Entry, Texts
  <2> QED BY <2>1, CountsOfAppend
<1>17. CountsOf(r) <= calls + 1 /\ (m < MaxActivity => CountsOf(r) = calls + 1)
  <2>1. CASE k <= n
    <3>1. s[k].count \in Nat
      <4>1. s[k] \in Entry
        BY <1>2, <1>3, <2>1, ElementOfSeq
      <4> QED BY <4>1 DEF Entry
    <3>2. PICK c \in Int, d \in Nat : c = CountsOf(s) /\ d = s[k].count
      BY <1>16, <3>1
    <3>3. CASE new.count = s[k].count + 1
      <4>1. CountsOf(r) = c + 1
        BY <1>15, <2>1, <3>2, <3>3
      <4>2. c <= calls /\ (n < MaxActivity => c = calls) /\ m = n
        BY <1>3, <1>10, <2>1, <3>2
      <4> QED BY <4>1, <4>2
    <3>4. CASE new.count = 1 /\ n = MaxActivity
      <4>1. CountsOf(r) = (c - d) + 1 /\ c <= calls /\ m = MaxActivity
        BY <1>3, <1>10, <1>15, <2>1, <3>2, <3>4
      <4>2. \A x \in Int, y, z \in Nat : x <= z => (x - y) + 1 <= z + 1
        OBVIOUS
      <4>3. ~(m < MaxActivity)
        BY <1>1, <4>1
      <4> QED BY <3>2, <4>1, <4>2, <4>3
    <3> QED BY <1>2, <2>1, <3>3, <3>4
  <2>2. CASE ~(k <= n)
    <3>1. new.count = 1 /\ CountsOf(r) = CountsOf(s) + 1 /\ m = n + 1
      BY <1>2, <1>3, <1>15, <2>2
    <3> QED BY <1>1, <1>10, <1>16, <3>1
  <2> QED BY <2>1, <2>2
<1> QED BY <1>2, <1>11, <1>12, <1>13, <1>14, <1>17 DEF FeedIs

(* An entry more keeps the feed so. *)
LEMMA FeedInvStep ==
  ASSUME FeedTypeOK, FeedInv, NEW text \in Texts, AddActivity(text)
  PROVE  FeedInv'
<1>1. /\ activity \in Seq(Entry) /\ Len(activity) <= MaxActivity
      /\ clock \in Nat /\ entries \in Nat
  BY DEF FeedTypeOK, Entry
<1>2. SUFFICES ASSUME ~tied' PROVE FeedIs(activity', clock', entries')
  BY DEF FeedInv
<1>3. ~tied /\ clock' # clock
  BY <1>2, Zenon DEF AddActivity
<1>4. clock' = clock + 1 /\ entries' = entries + 1
  BY <1>3 DEF AddActivity
<1>5. FeedIs(activity, clock, entries)
  BY <1>3 DEF FeedInv
<1>6. PICK L \in Nat : L = Len(activity)
  BY <1>1
<1>7. \A i, j \in 1 .. L : i # j => activity[i].at # activity[j].at /\ activity[i].key # activity[j].key
  <2>1. SUFFICES ASSUME NEW i \in 1 .. L, NEW j \in 1 .. L, i # j
                 PROVE  activity[i].at # activity[j].at /\ activity[i].key # activity[j].key
    OBVIOUS
  <2>2. activity[i].at \in Nat /\ activity[j].at \in Nat
    <3>1. activity[i] \in Entry /\ activity[j] \in Entry
      BY <1>1, <1>6, ElementOfSeq
    <3> QED BY <3>1 DEF Entry
  <2>3. i < j \/ j < i
    BY <2>1
  <2>4. activity[i].at < activity[j].at \/ activity[j].at < activity[i].at
    BY <1>5, <1>6, <2>3 DEF FeedIs
  <2>5. activity[i].key # activity[j].key
    BY <1>5, <1>6, <2>1 DEF FeedIs
  <2> QED BY <2>2, <2>4, <2>5
<1>8. \A p \in 1 .. L : activity[p].text = text /\ L - Lookback < p <=> p \in Repeated(text)
  BY <1>1, <1>6 DEF Repeated
<1>9. Repeated(text) \subseteq 1 .. L
  BY <1>1, <1>6 DEF Repeated
<1>10. Lookback \in Nat \ {0} /\ MaxActivity \in Nat \ {0}
  BY LimitsArePositive
<1>11. PICK now \in Nat : now = clock + 1
  BY <1>1
<1>12. CASE Repeated(text) # {}
  <2>1. activity' = Coalesced(text, now)
    BY <1>4, <1>11, <1>12 DEF AddActivity
  <2>2. PICK r \in Seq(Entry) : r = Coalesced(text, now)
    BY <1>1, <1>12, CoalescedEffect
  <2>3. /\ Len(r) = L
        /\ \E f \in Repeated(text) :
             /\ r[L] = [activity[f] EXCEPT !.count = @ + 1, !.at = now]
             /\ Moved(activity, f, r)
    BY <1>1, <1>6, <1>7, <1>12, <2>2, CoalescedEffect
  <2>4. PICK f \in Repeated(text) : /\ r[L] = [activity[f] EXCEPT !.count = @ + 1, !.at = now]
                                   /\ Moved(activity, f, r)
    BY <2>3
  <2>5. f \in 1 .. L /\ L - Lookback < f /\ activity[f].text = text
    BY <1>8, <1>9, <2>4
  <2>6. activity[f] \in Entry
    BY <1>1, <1>6, <2>5, ElementOfSeq
  <2>7. PICK new : new = r[L]
    OBVIOUS
  <2>8. /\ new.at = clock + 1 /\ new.text = text /\ new.key = activity[f].key
        /\ new.count = activity[f].count + 1
    BY <1>11, <2>4, <2>5, <2>6, <2>7 DEF Entry
  <2>9. \A p \in 1 .. L : p # f => activity[p].key # new.key
    BY <1>7, <2>5, <2>8
  <2>10. ASSUME NEW p \in 1 .. L, p # f, L - Lookback <= (IF p < f THEN p ELSE p - 1)
         PROVE  activity[p].text # new.text
    <3>1. CASE p < f
      <4>1. L - p <= Lookback
        BY <1>10, <2>10, <3>1
      <4> QED BY <1>5, <1>6, <2>5, <2>8, <3>1, <4>1 DEF FeedIs
    <3>2. CASE p > f
      <4>1. L - f <= Lookback
        BY <1>10, <2>5
      <4> QED BY <1>5, <1>6, <2>5, <2>8, <3>2, <4>1 DEF FeedIs
    <3> QED BY <2>5, <2>10, <3>1, <3>2
  <2>11. FeedIs(r, clock + 1, entries + 1)
    <3>1. /\ \A p \in 1 .. Len(activity) : p # f => activity[p].key # new.key
          /\ \A p \in 1 .. Len(activity) :
               p # f /\ Len(r) - Lookback <= (IF p < f THEN p ELSE p - 1)
                 => activity[p].text # new.text
      BY <1>6, <2>3, <2>9, <2>10
    <3>2. f <= Len(activity) /\ r[Len(r)] = new
      BY <1>6, <2>3, <2>5, <2>7
    <3>3. /\ activity \in Seq(Entry) /\ r \in Seq(Entry) /\ clock \in Nat /\ entries \in Nat
          /\ FeedIs(activity, clock, entries) /\ Moved(activity, f, r)
      BY <1>1, <1>5, <2>3, <2>4
    <3>4. new.at = clock + 1 /\ new.count = activity[f].count + 1
      BY <2>8
    <3> QED BY ONLY <3>1, <3>2, <3>3, <3>4, FeedMoved
  <2> QED BY <1>4, <2>1, <2>2, <2>11
<1>13. CASE Repeated(text) = {}
  <2>1. PICK new : new = [key |-> FreshKey, at |-> now, text |-> text, count |-> 1]
    OBVIOUS
  <2>2. new \in Entry /\ \A p \in 1 .. L : activity[p].key # new.key
    BY <1>1, <1>6, <2>1, FreshKeyIsFresh DEF Entry
  <2>3. activity' = Newest(Append(activity, new), MaxActivity)
    BY <1>4, <1>11, <1>13, <2>1 DEF AddActivity
  <2>4. PICK r, k : r = Newest(Append(activity, new), MaxActivity)
                    /\ k = IF L < MaxActivity THEN L + 1 ELSE 1
    OBVIOUS
  <2>5. r \in Seq(Entry) /\ Moved(activity, k, r) /\ r[Len(r)] = new
    BY <1>1, <1>6, <2>2, <2>4, NewestAppend
  <2>6. /\ new.at = clock + 1 /\ new.text = text /\ new.count = 1
    BY <1>11, <2>1
  <2>7. Len(r) = IF k <= L THEN L ELSE L + 1
    BY <1>6, <2>5 DEF Moved
  <2>8. ASSUME NEW p \in 1 .. L, p # k, Len(r) - Lookback <= (IF p < k THEN p ELSE p - 1)
        PROVE  activity[p].text # new.text
    <3>1. L - Lookback < p
      BY <1>10, <2>4, <2>7, <2>8
    <3> QED BY <1>8, <1>13, <2>6, <3>1
  <2>9. IF k <= L THEN new.count = 1 /\ L = MaxActivity ELSE new.count = 1
    BY <1>1, <1>6, <1>10, <2>4, <2>6
  <2>10. FeedIs(r, clock + 1, entries + 1)
    <3>1. /\ \A p \in 1 .. Len(activity) : p # k => activity[p].key # new.key
          /\ \A p \in 1 .. Len(activity) :
               p # k /\ Len(r) - Lookback <= (IF p < k THEN p ELSE p - 1)
                 => activity[p].text # new.text
      BY <1>6, <2>2, <2>8
    <3>2. IF k <= Len(activity)
          THEN \/ new.count = activity[k].count + 1
               \/ new.count = 1 /\ Len(activity) = MaxActivity
          ELSE new.count = 1
      BY <1>6, <2>9
    <3> QED BY <1>1, <1>5, <2>5, <2>6, <3>1, <3>2, FeedMoved
  <2> QED BY <1>4, <2>3, <2>4, <2>10
<1> QED BY <1>12, <1>13

-----------------------------------------------------------------------------
(* The invariant.                                                          *)

(* The table of vehicles keeps its type and its limit. *)
LEMMA UpdateVehicleType ==
  ASSUME TelemetryTypeOK, NEW e \in Events
  PROVE  /\ UpdateVehicle(VehicleOf(e)) \in Seq([name : 0 .. Vehicles - 1, count : Nat])
         /\ Len(UpdateVehicle(VehicleOf(e))) <= MaxVehicles
<1> DEFINE Rows == [name : 0 .. Vehicles - 1, count : Nat]
           known == {i \in DOMAIN vehicles : vehicles[i].name = VehicleOf(e)}
           others == IF known = {} THEN vehicles ELSE Without(vehicles, FirstIn(known))
           count == IF known = {} THEN 0 ELSE vehicles[FirstIn(known)].count
           new == [name |-> VehicleOf(e), count |-> count + 1]
<1>1. vehicles \in Seq(Rows)
  BY DEF TelemetryTypeOK
<1>2. VehicleOf(e) \in 0 .. Vehicles - 1
  <2>1. e \in Nat /\ Vehicles \in Nat \ {0}
    BY LimitsArePositive, DashboardAssumption
  <2> QED BY <2>1 DEF VehicleOf
<1>3. UpdateVehicle(VehicleOf(e)) = Newest(Append(others, new), MaxVehicles)
  BY DEF UpdateVehicle
<1>4. known \in SUBSET Nat /\ known \subseteq 1 .. Len(vehicles)
  BY <1>1
<1>5. known # {} => FirstIn(known) \in 1 .. Len(vehicles)
  BY <1>4, FirstInProperties
<1>6. others \in Seq(Rows)
  BY <1>1, <1>5, WithoutProperties
<1>7. count \in Nat
  <2>1. CASE known # {}
    <3>1. vehicles[FirstIn(known)] \in Rows
      BY <1>1, <1>5, <2>1, ElementOfSeq
    <3> QED BY <2>1, <3>1
  <2> QED BY <2>1
<1> HIDE DEF others, count
<1>8. new \in Rows
  BY <1>2, <1>7
<1> HIDE DEF Rows, new
<1>9. Append(others, new) \in Seq(Rows) /\ MaxVehicles \in Nat \ {0}
  BY <1>6, <1>8, LimitsArePositive
<1>10. /\ Newest(Append(others, new), MaxVehicles) \in Seq(Rows)
       /\ Len(Newest(Append(others, new), MaxVehicles)) <= MaxVehicles
  BY <1>9, NewestProperties
<1> QED BY <1>3, <1>10 DEF Rows

(* What a message does keeps the types, the limits and the figures. *)
LEMMA TelemetryStepKeeps ==
  ASSUME TelemetryTypeOK, SeenInv, TelemetryStep
  PROVE  TelemetryTypeOK' /\ SeenInv'
<1>1. ASSUME NEW e \in Events,
             total' = [total EXCEPT !.received = @ + 1, !.duplicates = @ + CountDuplicate(e)],
             seen' = Remember(seen, e, MaxSeen),
             recent' = Newest(Append(recent, e), MaxRecent),
             vehicles' = UpdateVehicle(VehicleOf(e)),
             delivered' = delivered \cup {e}
      PROVE  TelemetryTypeOK' /\ SeenInv'
  <2>1. SeenInv' /\ seen' \in Seq(Events) /\ Len(seen') <= MaxSeen
    BY <1>1, SeenInvReceive
  <2>2. recent' \in Seq(Events) /\ Len(recent') <= MaxRecent
    <3>1. Append(recent, e) \in Seq(Events) /\ MaxRecent \in Nat \ {0}
      BY LimitsArePositive DEF TelemetryTypeOK
    <3> QED BY <1>1, <3>1, NewestProperties
  <2>3. /\ vehicles' \in Seq([name : 0 .. Vehicles - 1, count : Nat])
        /\ Len(vehicles') <= MaxVehicles
    BY <1>1, UpdateVehicleType
  <2>4. delivered' \subseteq Events
    BY <1>1 DEF TelemetryTypeOK
  <2>5. total' \in [received : Nat, malformed : Nat, duplicates : Nat]
    <3>1. CountDuplicate(e) \in {0, 1}
      BY DEF CountDuplicate
    <3>2. total.received + 1 \in Nat /\ total.duplicates + CountDuplicate(e) \in Nat
      BY <3>1 DEF TelemetryTypeOK
    <3> QED BY <1>1, <3>2 DEF TelemetryTypeOK
  <2> QED BY <2>1, <2>2, <2>3, <2>4, <2>5 DEF TelemetryTypeOK
<1>2. CASE total' = [total EXCEPT !.malformed = @ + 1] /\ UNCHANGED telemetryVars
  <2>1. /\ total' \in [received : Nat, malformed : Nat, duplicates : Nat]
        /\ total'.received = total.received /\ total'.duplicates = total.duplicates
    <3>1. total \in [received : Nat, malformed : Nat, duplicates : Nat]
      BY DEF TelemetryTypeOK
    <3>2. total.malformed + 1 \in Nat
      BY <3>1
    <3> QED BY <1>2, <3>1, <3>2
  <2>2. seen' = seen /\ recent' = recent /\ vehicles' = vehicles /\ delivered' = delivered
    BY <1>2 DEF telemetryVars
  <2> QED BY <2>1, <2>2 DEF TelemetryTypeOK, SeenInv
<1>3. CASE UNCHANGED <<total, telemetryVars>>
  BY <1>3 DEF TelemetryTypeOK, SeenInv, telemetryVars
<1> QED BY <1>1, <1>2, <1>3 DEF TelemetryStep

(* What each action does to the threads. *)
LEMMA ThreadsTypeStep ==
  ASSUME ThreadsTypeOK, [Next]_vars
  PROVE  ThreadsTypeOK'
<1> DEFINE Marks == Texts \cup {Nothing}
           Statuses == {"not started", "connecting", "connected", "disconnected", "stopped"}
           Places == {"new", "starting", "serving", "stopping", "unlinked", "stopped"}
<1>1. /\ status \in Statuses /\ link \in BOOLEAN /\ loop \in BOOLEAN /\ tapped \in BOOLEAN
      /\ main \in Places /\ note \in [Threads -> Marks] /\ callbacks \in 0 .. MaxCallbacks
  BY DEF ThreadsTypeOK
<1>2. {"network", "gateway", "main"} \subseteq Threads
      /\ {"connected", "disconnected", "malformed", "replayed", "buffered"} \subseteq Marks
      /\ Nothing \in Marks
      /\ MaxCallbacks \in Nat
  BY DashboardAssumption DEF Threads, Texts
<1>3. ASSUME NEW t \in Threads, NEW new \in {"connected", "disconnected"}, SetStatus(t, new)
      PROVE  status' \in Statuses /\ note' \in [Threads -> Marks]
  BY <1>1, <1>2, <1>3 DEF SetStatus
<1>4. Callback => callbacks' \in 0 .. MaxCallbacks
  <2>1. \A n \in 0 .. MaxCallbacks : n < MaxCallbacks => n + 1 \in 0 .. MaxCallbacks
    BY <1>2
  <2> QED BY <1>1, <2>1 DEF Callback
<1> HIDE DEF Marks, Statuses
<1>5. CASE \E e \in Events : Receive(e)
  BY <1>1, <1>4, <1>5 DEF Receive, ThreadsTypeOK, subscriberVars
<1>6. CASE ReceiveMalformed
  <2>1. note' \in [Threads -> Marks]
    BY <1>1, <1>2, <1>6 DEF ReceiveMalformed
  <2> QED BY <1>1, <1>4, <1>6, <2>1 DEF ReceiveMalformed, ThreadsTypeOK, subscriberVars, Marks
<1>7. CASE OnConnect
  <2>1. status' \in Statuses /\ note' \in [Threads -> Marks]
    BY <1>2, <1>3, <1>7 DEF OnConnect
  <2> QED BY <1>1, <1>4, <1>7, <2>1 DEF OnConnect, ThreadsTypeOK, Marks, Statuses
<1>8. CASE OnDisconnect
  <2>1. status' \in Statuses /\ note' \in [Threads -> Marks]
    BY <1>2, <1>3, <1>8 DEF OnDisconnect
  <2> QED BY <1>1, <1>4, <1>8, <2>1 DEF OnDisconnect, ThreadsTypeOK, Marks, Statuses
<1>9. ASSUME NEW t \in Threads, AddNote(t) PROVE ThreadsTypeOK'
  <2>1. note' \in [Threads -> Marks]
    BY <1>1, <1>2, <1>9 DEF AddNote
  <2> QED BY <1>1, <1>9, <2>1 DEF AddNote, ThreadsTypeOK, subscriberVars, Marks
<1>10. CASE LogReplayed
  <2>1. note' \in [Threads -> Marks]
    BY <1>1, <1>2, <1>10 DEF LogReplayed
  <2> QED BY <1>1, <1>4, <1>10, <2>1 DEF LogReplayed, ThreadsTypeOK, subscriberVars, Marks
<1>11. CASE LogOther
  <2>1. note' \in [Threads -> Marks]
    BY <1>1, <1>2, <1>11 DEF LogOther
  <2> QED BY <1>1, <1>4, <1>11, <2>1 DEF LogOther, ThreadsTypeOK, subscriberVars, Marks
<1>12. CASE Start
  <2>1. status' \in Statuses /\ note' \in [Threads -> Marks]
    BY <1>1, <1>2, <1>3, <1>12 DEF Start, Statuses
  <2> QED BY <1>1, <1>12, <2>1 DEF Start, ThreadsTypeOK, Marks, Statuses
<1>13. CASE AnnounceStart
  BY <1>1, <1>13 DEF AnnounceStart, ThreadsTypeOK, subscriberVars
<1>14. CASE StopLoop
  BY <1>1, <1>14 DEF StopLoop, ThreadsTypeOK
<1>15. CASE DisconnectClient
  <2>1. status' \in Statuses /\ note' \in [Threads -> Marks]
    BY <1>1, <1>2, <1>3, <1>15 DEF DisconnectClient
  <2> QED BY <1>1, <1>15, <2>1 DEF DisconnectClient, ThreadsTypeOK, Marks, Statuses
<1>16. CASE StopDone
  BY <1>1, <1>16 DEF StopDone, ThreadsTypeOK
<1>17. CASE UNCHANGED vars
  BY <1>1, <1>17 DEF vars, ThreadsTypeOK, subscriberVars
<1> QED BY <1>2, <1>5, <1>6, <1>7, <1>8, <1>9, <1>10, <1>11, <1>12, <1>13, <1>14, <1>15, <1>16,
           <1>17 DEF Next, Subscription, Logging, MainThread

DashboardInv == TypeOK /\ SeenInv /\ Tracks(replayed, logged) /\ FeedInv

(* It holds at first. *)
LEMMA DashboardInvInit == Init => DashboardInv
<1>1. SUFFICES ASSUME Init PROVE DashboardInv
  OBVIOUS
<1>2. MaxSeen \in Nat \ {0} /\ MaxReplayed \in Nat \ {0} /\ MaxRecent \in Nat \ {0}
      /\ MaxVehicles \in Nat \ {0} /\ MaxActivity \in Nat \ {0} /\ MaxCallbacks \in Nat
  BY LimitsArePositive, DashboardAssumption
<1>3. TelemetryTypeOK /\ ReplayTypeOK /\ FeedTypeOK
  <2>1. /\ seen = <<>> /\ recent = <<>> /\ vehicles = <<>> /\ replayed = <<>> /\ logged = <<>>
        /\ activity = <<>> /\ clock = 0 /\ entries = 0 /\ delivered = {}
    BY <1>1 DEF Init
  <2>2. tied \in BOOLEAN
    BY <1>1, Zenon DEF Init
  <2>3. total = [received |-> 0, malformed |-> 0, duplicates |-> 0]
    BY <1>1 DEF Init
  <2>4. total \in [received : Nat, malformed : Nat, duplicates : Nat]
    BY <2>3
  <2>5. \A S : <<>> \in Seq(S)
    BY EmptySeq
  <2>6. Len(<<>>) = 0
    OBVIOUS
  <2>7. TelemetryTypeOK
    BY <1>2, <2>1, <2>4, <2>5, <2>6 DEF TelemetryTypeOK
  <2>8. ReplayTypeOK
    BY <1>2, <2>1, <2>5, <2>6 DEF ReplayTypeOK
  <2>9. FeedTypeOK
    BY <1>2, <2>1, <2>2, <2>5, <2>6 DEF FeedTypeOK
  <2> QED BY <2>7, <2>8, <2>9
<1>4. ThreadsTypeOK
  <2>1. status = "not started" /\ main = "new" /\ callbacks = 0
    BY <1>1 DEF Init
  <2>2. link \in BOOLEAN /\ loop \in BOOLEAN /\ tapped \in BOOLEAN
    BY <1>1, Zenon DEF Init
  <2>3. note \in [Threads -> Texts \cup {Nothing}]
    BY <1>1 DEF Init
  <2>4. callbacks \in 0 .. MaxCallbacks
    <3>1. MaxCallbacks \in Nat
      BY <1>2
    <3>2. 0 \in 0 .. MaxCallbacks
      BY <3>1
    <3>3. callbacks = 0
      BY <2>1
    <3> QED BY <3>2, <3>3, Zenon
  <2>5. /\ status \in {"not started", "connecting", "connected", "disconnected", "stopped"}
        /\ main \in {"new", "starting", "serving", "stopping", "unlinked", "stopped"}
    BY <2>1
  <2> QED BY <2>2, <2>3, <2>4, <2>5, Zenon DEF ThreadsTypeOK
<1>5. SeenInv
  <2>1. Distinct(<<>>) /\ Ids(<<>>) = {}
    BY DEF Distinct, Ids
  <2>2. seen = <<>> /\ delivered = {} /\ total.received = 0 /\ total.duplicates = 0
    BY <1>1 DEF Init
  <2>3. IsFiniteSet(delivered) /\ Cardinality(delivered) = 0
    BY <2>2, FS_EmptySet
  <2> QED BY <2>1, <2>2, <2>3 DEF SeenInv
<1>6. Tracks(replayed, logged)
  <2>1. Ids(<<>>) = {} /\ Len(<<>>) = 0
    BY DEF Ids
  <2>2. <<>> \in Seq(Events)
    BY EmptySeq
  <2>3. replayed = <<>> /\ logged = <<>>
    BY <1>1 DEF Init
  <2> QED BY <1>2, <2>1, <2>2, <2>3 DEF Tracks
<1>7. FeedInv
  <2>1. activity = <<>> /\ entries = 0 /\ Len(activity) = 0 /\ activity \in Seq(Entry)
    BY <1>1, EmptySeq DEF Init
  <2>2. Sums(activity, [n \in 0 .. 0 |-> 0], 0)
    BY DEF Sums
  <2>3. CountsOf(activity) = 0
    BY <2>1, <2>2, CountsOfIs
  <2> QED BY <2>1, <2>3 DEF FeedInv, FeedIs
<1> QED BY <1>3, <1>4, <1>5, <1>6, <1>7 DEF DashboardInv, TypeOK

(* Every step keeps it. *)
LEMMA DashboardInvStep ==
  ASSUME DashboardInv, [Next]_vars
  PROVE  DashboardInv'
<1>1. TelemetryTypeOK /\ ReplayTypeOK /\ FeedTypeOK /\ ThreadsTypeOK /\ SeenInv
      /\ Tracks(replayed, logged) /\ FeedInv
  BY DEF DashboardInv, TypeOK
<1>2. TelemetryStep /\ ReplayStep /\ FeedStep
  BY <1>1, EveryStep
<1>3. TelemetryTypeOK' /\ SeenInv'
  BY <1>1, <1>2, TelemetryStepKeeps
<1>4. ThreadsTypeOK'
  BY <1>1, ThreadsTypeStep
<1>5. Tracks(replayed', logged')
  <2>1. CASE UNCHANGED replayVars
    BY <1>1, <2>1 DEF replayVars
  <2> QED BY <1>1, <1>2, <2>1, TracksBatch DEF ReplayStep
<1>6. ReplayTypeOK'
  BY <1>5 DEF Tracks, ReplayTypeOK
<1>7. FeedTypeOK' /\ FeedInv'
  <2>1. CASE UNCHANGED feedVars
    BY <1>1, <2>1 DEF feedVars, FeedTypeOK, FeedInv
  <2> QED BY <1>1, <1>2, <2>1, AddActivityType, FeedInvStep DEF FeedStep
<1> QED BY <1>3, <1>4, <1>5, <1>6, <1>7 DEF DashboardInv, TypeOK

(* So it always holds. *)
THEOREM DashboardInvAlways == Spec => []DashboardInv
<1>1. DashboardInv /\ [Next]_vars => DashboardInv'
  BY DashboardInvStep
<1> QED BY DashboardInvInit, <1>1, PTL DEF Spec

(* Every store, table and feed of the dashboard keeps within its limit     *)
(* (state.py 86-106, 151-180, 221-222), whatever the four threads do.      *)
THEOREM DashboardStaysWithinLimits == Spec => []TypeOK
<1>1. DashboardInv => TypeOK
  BY DEF DashboardInv
<1> QED BY DashboardInvAlways, <1>1, PTL

(* The duplicates shown never exceed the repeated deliveries, and are all  *)
(* of them while no id had to be forgotten (state.py 140-142).             *)
THEOREM DuplicatesAreAlwaysReal == Spec => []DuplicatesAreReal
<1>1. ASSUME DashboardInv PROVE DuplicatesAreReal
  <2>1. PICK n : n = Cardinality(delivered)
    OBVIOUS
  <2>2. /\ IsFiniteSet(delivered)
        /\ total.duplicates + n <= total.received
        /\ n <= MaxSeen => total.duplicates + n = total.received
    BY <1>1, <2>1 DEF DashboardInv, SeenInv
  <2>3. n \in Nat
    BY <2>1, <2>2, FS_CardinalityType
  <2>4. total.duplicates \in Nat /\ total.received \in Nat
    BY <1>1 DEF DashboardInv, TypeOK, TelemetryTypeOK
  <2>5. PICK d \in Nat, r \in Nat : d = total.duplicates /\ r = total.received
    BY <2>4
  <2>6. d <= r - n /\ (n <= MaxSeen => d = r - n)
    BY <2>2, <2>3, <2>5
  <2> QED BY <2>1, <2>5, <2>6 DEF DuplicatesAreReal
<1> QED BY DashboardInvAlways, <1>1, PTL

(* An event of the stream is shown as replayed if and only if the gateway  *)
(* logged its replay, and fewer than the limit of others since (state.py   *)
(* 192-193, 260).                                                          *)
THEOREM ReplayedIsAlwaysShown == Spec => []ReplayedIsShown
<1>1. ASSUME DashboardInv PROVE ReplayedIsShown
  <2>1. Tracks(replayed, logged) /\ recent \in Seq(Events)
    BY <1>1 DEF DashboardInv, TypeOK, TelemetryTypeOK
  <2>2. ASSUME NEW i \in DOMAIN recent
        PROVE  Shown(recent[i]) = "replayed" <=>
                 /\ InSeq(recent[i], logged)
                 /\ Cardinality({e \in Events : /\ InSeq(e, logged)
                                                /\ LoggedAt(e) > LoggedAt(recent[i])})
                      < MaxReplayed
    <3>1. PICK d \in Events : d = recent[i]
      BY <2>1, <2>2
    <3>2. Shown(d) = "replayed" <=> InSeq(d, replayed)
      BY DEF Shown
    <3>3. InSeq(d, replayed) <=>
            /\ InSeq(d, logged)
            /\ Cardinality({e \in Events : InSeq(e, logged) /\ LoggedAt(e) > LoggedAt(d)})
                 < MaxReplayed
      BY <2>1, TracksShows
    <3> QED BY <3>1, <3>2, <3>3
  <2> QED BY <2>2 DEF ReplayedIsShown
<1> QED BY DashboardInvAlways, <1>1, PTL

(* Unless two entries read the same time, the newest entries of the feed   *)
(* carry different messages, and the counts shown never exceed the calls   *)
(* and make them up until the feed is full (state.py 209-222).             *)
THEOREM FeedIsAlwaysCoalesced == Spec => []FeedIsCoalesced
<1>1. ASSUME DashboardInv PROVE FeedIsCoalesced
  <2>1. DOMAIN activity = 1 .. Len(activity)
    BY <1>1 DEF DashboardInv, TypeOK, FeedTypeOK
  <2> QED BY <1>1, <2>1 DEF DashboardInv, FeedInv, FeedIs, FeedIsCoalesced
<1> QED BY DashboardInvAlways, <1>1, PTL

===============================================================================
