----------------------- MODULE DiagnosticAnalyzerProofs -----------------------
(***************************************************************************)
(* What analyze() reports, for lists, thresholds and windows of any size.  *)
(* The invariant says where the scan is: the reports lie behind it, and    *)
(* behind it no burst begins that is not reported.                         *)
(***************************************************************************)
EXTENDS DiagnosticAnalyzerProperties, FiniteSetTheorems, WellFoundedInduction, TLAPS

TimeOf(x) == events[group[x]].time

(* A full window begins at position x of the group. *)
BurstBegins(x) ==
  /\ x + Threshold[rule] - 1 <= Len(group)
  /\ TimeOf(x + Threshold[rule] - 1) - TimeOf(x) <= Window[rule]

(* Every burst of the ECU's matching events has an event in a report. *)
Noticed(r, ecu) ==
  \A S \in SUBSET Matching(r, ecu) :
    /\ \A i, j \in S : events[i].time - events[j].time <= Window[r]
    /\ Cardinality(S) >= Threshold[r]
    => S \cap Reported(r) # {}

GroupInv ==
  \/ group = <<>>
  \/ \E ecu \in ECU : ecu \notin waiting /\ Sorted(group, Matching(rule, ecu))

WindowInv ==
  /\ start <= end
  /\ start <= Len(group) + 1
  /\ rule \in Rule /\ Scanning =>
       /\ end <= Len(group)
       /\ \A x \in start .. end : TimeOf(x) - TimeOf(start) <= Window[rule]

ReportsBehindInv ==
  \A k \in DOMAIN reports :
    /\ reports[k].rule <= rule
    /\ reports[k].rule = rule =>
         \A i \in EventsOf(reports[k]) :
           /\ events[i].ecu \notin waiting
           /\ \A x \in DOMAIN group : group[x] = i => x < start

ScanInv ==
  rule \in Rule => \A x \in DOMAIN group : x < start /\ BurstBegins(x) => group[x] \in Reported(rule)

NoticedInv ==
  /\ \A r \in Rule : r < rule => \A ecu \in ECU : Noticed(r, ecu)
  /\ rule \in Rule =>
       \A ecu \in ECU : ecu \in waiting \/ Noticed(rule, ecu) \/ Sorted(group, Matching(rule, ecu))

ReportsInv == ReportsAreBursts /\ EventsReportedOnce /\ ReportsAreMaximal

Inv ==
  /\ TypeOK
  /\ GroupInv
  /\ WindowInv
  /\ ReportsBehindInv
  /\ ScanInv
  /\ NoticedInv
  /\ ReportsInv

-----------------------------------------------------------------------------
(* The events of the list and of a sorted group.                           *)

LEMMA EventFacts ==
  ASSUME TypeOK, NEW i \in Position
  PROVE  events[i].time \in Nat /\ events[i].ecu \in ECU /\ i \in Nat
<1>1. i \in 1 .. Len(events) /\ events \in Seq(Event)
  BY DEF TypeOK, Position
<1>2. events[i] \in Event
  BY <1>1
<1>3. MaxTime \in Nat
  BY BoundsAssumption
<1>. QED  BY <1>1, <1>2, <1>3 DEF Event

(* A rule's threshold is positive, its window a length of time. *)
LEMMA RuleFacts ==
  ASSUME NEW r \in Rule
  PROVE  Threshold[r] \in Nat /\ Threshold[r] >= 1 /\ Window[r] \in Nat
<1>1. Threshold[r] \in Nat \ {0} /\ Window[r] \in Nat
  BY ThresholdAssumption, WindowAssumption
<1>. QED  BY <1>1

(* Along a sorted group times do not fall and no event comes twice.        *)
LEMMA GroupFacts ==
  ASSUME TypeOK, NEW M \in SUBSET Position, Sorted(group, M)
  PROVE  /\ DOMAIN group = 1 .. Len(group) /\ Len(group) \in Nat
         /\ \A x \in DOMAIN group : group[x] \in M /\ group[x] \in Position /\ TimeOf(x) \in Nat
         /\ \A x, y \in DOMAIN group : x < y => TimeOf(x) <= TimeOf(y) /\ group[x] # group[y]
<1>1. group \in Seq(Position)
  BY DEF TypeOK
<1>2. DOMAIN group = 1 .. Len(group) /\ Len(group) \in Nat
  BY <1>1
<1>3. \A x \in DOMAIN group : group[x] \in M /\ group[x] \in Position
  BY DEF Sorted
<1>4. \A x \in DOMAIN group : TimeOf(x) \in Nat
  BY <1>3, EventFacts DEF TimeOf
<1>5. ASSUME NEW x \in DOMAIN group, NEW y \in DOMAIN group, x < y
      PROVE  TimeOf(x) <= TimeOf(y) /\ group[x] # group[y]
  <2>1. Before(group[x], group[y])
    BY <1>5 DEF Sorted
  <2>2. group[x] \in Nat /\ group[y] \in Nat /\ TimeOf(x) \in Nat /\ TimeOf(y) \in Nat
    BY <1>3, <1>4, EventFacts
  <2>. QED  BY <2>1, <2>2 DEF Before, TimeOf
<1>. QED  BY <1>2, <1>3, <1>4, <1>5

(* What the type of the reports says of one of them. *)
LEMMA ReportFacts ==
  ASSUME TypeOK
  PROVE  /\ DOMAIN reports = 1 .. Len(reports) /\ Len(reports) \in Nat
         /\ \A k \in DOMAIN reports : reports[k].rule \in Rule /\ reports[k].events \in Seq(Position)
<1>. DEFINE R == [rule : Rule, events : Seq(Position)]
<1>1. reports \in Seq(R)
  BY DEF TypeOK
<1>2. \A r \in R : r.rule \in Rule /\ r.events \in Seq(Position)
  OBVIOUS
<1>. HIDE DEF R
<1>3. DOMAIN reports = 1 .. Len(reports) /\ Len(reports) \in Nat
  BY <1>1
<1>4. \A k \in DOMAIN reports : reports[k] \in R
  BY <1>1, <1>3
<1>. QED  BY <1>2, <1>3, <1>4

(* A set of numbers that is not empty has a least one. *)
LEMMA LeastExists ==
  ASSUME NEW S \in SUBSET Nat, S # {}
  PROVE  \E m \in S : \A x \in S : m <= x
<1>1. PICK m \in S : \A x \in S : ~ (<<x, m>> \in OpToRel(<, Nat))
  BY NatLessThanWellFounded, WFMin
<1>2. \A x \in S : ~ (x < m)
  BY <1>1 DEF OpToRel
<1>. QED  BY <1>2

(* There are fewer numbers from m to m + k - 2 than k. *)
LEMMA ShortInterval ==
  ASSUME NEW m \in Nat, NEW k \in Nat \ {0}
  PROVE  /\ IsFiniteSet(m .. m + k - 2)
         /\ Cardinality(m .. m + k - 2) \in Nat
         /\ Cardinality(m .. m + k - 2) < k
<1>. DEFINE l == m + k - 2
<1>1. l \in Int
  OBVIOUS
<1>2. IsFiniteSet(m .. l) /\ Cardinality(m .. l) = IF m > l THEN 0 ELSE l - m + 1
  <2>. HIDE DEF l
  <2>. QED  BY <1>1, FS_Interval
<1>3. Cardinality(m .. l) \in Nat
  <2>. HIDE DEF l
  <2>. QED  BY <1>2, FS_CardinalityType
<1>4. Cardinality(m .. l) < k
  <2>. HIDE DEF l
  <2>1. l = m + k - 2
    BY DEF l
  <2>. QED  BY <2>1, <1>1, <1>2
<1>. QED  BY <1>2, <1>3, <1>4

(* When the scan of a group is over, its bursts are all noticed: take the  *)
(* first position of the burst; fewer than the threshold fit behind it     *)
(* unless a full window begins there, and then it is reported.             *)
LEMMA ScannedIsNoticed ==
  ASSUME TypeOK, rule \in Rule, ~Scanning, ScanInv, NEW ecu \in ECU,
         Sorted(group, Matching(rule, ecu))
  PROVE  Noticed(rule, ecu)
<1>. DEFINE n == Len(group)
            t == Threshold[rule]
            w == Window[rule]
<1>0. Matching(rule, ecu) \in SUBSET Position
  BY DEF Matching
<1>1. /\ DOMAIN group = 1 .. n /\ n \in Nat
      /\ \A x \in 1 .. n : TimeOf(x) \in Nat /\ group[x] \in Position
      /\ \A x, y \in 1 .. n : x < y => TimeOf(x) <= TimeOf(y) /\ group[x] # group[y]
  BY <1>0, GroupFacts
<1>2. t \in Nat /\ t >= 1 /\ w \in Nat
  BY RuleFacts
<1>3. start \in Nat /\ start > n - t + 1
  BY <1>1, <1>2 DEF TypeOK, Scanning
<1>. SUFFICES ASSUME NEW S \in SUBSET Matching(rule, ecu),
                     \A i, j \in S : events[i].time - events[j].time <= w,
                     Cardinality(S) >= t
              PROVE  S \cap Reported(rule) # {}
  BY DEF Noticed
<1>. DEFINE P == {x \in 1 .. n : group[x] \in S}
            f == [x \in P |-> group[x]]
<1>4. f \in Surjection(P, S)
  <2>1. f \in [P -> S]
    OBVIOUS
  <2>2. \A i \in S : \E x \in P : f[x] = i
    BY <1>1 DEF Sorted
  <2>. QED  BY <2>1, <2>2 DEF Surjection
<1>5. IsFiniteSet(P) /\ IsFiniteSet(S) /\ Cardinality(S) <= Cardinality(P)
      /\ Cardinality(P) \in Nat /\ Cardinality(S) \in Nat
  <2>1. IsFiniteSet(1 .. n)
    BY <1>1, FS_Interval
  <2>2. IsFiniteSet(P)
    BY <2>1, FS_Subset
  <2>3. IsFiniteSet(S) /\ Cardinality(S) <= Cardinality(P)
    BY <2>2, <1>4, FS_Surjection
  <2>. QED  BY <2>2, <2>3, FS_CardinalityType
<1>6. P # {}
  BY <1>5, <1>2, FS_EmptySet
<1>7. PICK m \in P : \A x \in P : m <= x
  <2>1. P \in SUBSET Nat
    BY <1>1
  <2>. QED  BY <1>6, <2>1, LeastExists
<1>8. BurstBegins(m)
  <2>. SUFFICES ASSUME ~BurstBegins(m)
                PROVE  FALSE
    OBVIOUS
  <2>1. ASSUME NEW x \in P
        PROVE  x \in m .. m + t - 2
    <3>1. m \in 1 .. n /\ x \in 1 .. n /\ m <= x
      BY <1>7
    <3>2. TimeOf(x) - TimeOf(m) <= w
      BY <1>7 DEF TimeOf
    <3>3. CASE m + t - 1 > n
      BY <3>1, <3>3, <1>1, <1>2
    <3>4. CASE m + t - 1 <= n
      <4>1. m + t - 1 \in 1 .. n
        BY <3>1, <3>4, <1>1, <1>2
      <4>2. ~ (TimeOf(m + t - 1) - TimeOf(m) <= w)
        BY <3>4 DEF BurstBegins
      <4>3. ~ (m + t - 1 <= x)
        <5>1. TimeOf(m + t - 1) \in Nat /\ TimeOf(m) \in Nat /\ TimeOf(x) \in Nat
          BY <4>1, <3>1, <1>1
        <5>2. ~ (TimeOf(m + t - 1) <= TimeOf(x))
          BY <5>1, <4>2, <3>2, <1>2
        <5>3. m + t - 1 # x
          BY <5>2, <5>1
        <5>4. ~ (m + t - 1 < x)
          BY <5>2, <4>1, <3>1, <1>1
        <5>. QED  BY <5>3, <5>4, <4>1, <3>1, <1>1
      <4>. QED  BY <4>3, <4>1, <3>1, <1>1, <1>2
    <3>. QED  BY <3>3, <3>4, <3>1, <1>1, <1>2
  <2>2. m \in Nat /\ m + t - 2 \in Int
    BY <1>1, <1>2
  <2>3. /\ IsFiniteSet(m .. m + t - 2)
        /\ Cardinality(m .. m + t - 2) \in Nat
        /\ Cardinality(m .. m + t - 2) < t
    <3>1. t \in Nat \ {0}
      BY <1>2
    <3>. HIDE DEF t
    <3>. QED  BY <2>2, <3>1, ShortInterval
  <2>4. Cardinality(P) <= Cardinality(m .. m + t - 2)
    BY <2>1, <2>3, FS_Subset
  <2>. QED  BY <2>4, <2>3, <1>5, <1>2
<1>9. m < start /\ m \in DOMAIN group
  BY <1>8, <1>7, <1>1, <1>2, <1>3 DEF BurstBegins
<1>10. group[m] \in Reported(rule)
  BY <1>8, <1>9 DEF ScanInv
<1>. QED  BY <1>10, <1>7

-----------------------------------------------------------------------------
(* Init.                                                                   *)

LEMMA NothingMatchesUnseen ==
  ASSUME NEW r \in Rule, NEW ecu \in ECU, \A i \in Position : events[i].ecu # ecu
  PROVE  Noticed(r, ecu)
<1>1. Matching(r, ecu) = {}
  BY DEF Matching
<1>2. Cardinality({}) = 0
  BY FS_EmptySet
<1>3. \A S \in SUBSET Matching(r, ecu) : ~ (Cardinality(S) >= Threshold[r])
  BY <1>1, <1>2, RuleFacts
<1>. QED  BY <1>3 DEF Noticed

(* The variables have their types at the beginning. *)
LEMMA InitTypeOK == Init => TypeOK
<1>. SUFFICES ASSUME Init PROVE TypeOK
  OBVIOUS
<1>1. PICK n \in 1 .. MaxEvents : events \in [1 .. n -> Event]
  BY DEF Init
<1>2. n \in Nat /\ MaxEvents \in Nat
  BY BoundsAssumption
<1>3. events \in Seq(Event) /\ Len(events) = n
  BY <1>1, <1>2
<1>4. {events[i].ecu : i \in Position} \subseteq ECU
  BY <1>1 DEF Position, Event
<1>. QED  BY <1>2, <1>3, <1>4 DEF Init, TypeOK, Position, Rule

(* The invariant holds at the beginning. *)
LEMMA InitInv == Init => Inv
<1>. SUFFICES ASSUME Init PROVE Inv
  OBVIOUS
<1>1. TypeOK
  BY InitTypeOK
<1>2. rule = 1 /\ rule \in Rule /\ group = <<>> /\ Len(group) = 0 /\ start = 1 /\ end = 1
      /\ reports = <<>> /\ DOMAIN reports = {} /\ DOMAIN group = {}
  BY DEF Init, Rule
<1>3. ~Scanning
  BY <1>2, RuleFacts DEF Scanning
<1>4. GroupInv /\ WindowInv /\ ReportsBehindInv /\ ScanInv
  BY <1>2, <1>3 DEF GroupInv, WindowInv, ReportsBehindInv, ScanInv
<1>5. NoticedInv
  <2>1. \A ecu \in ECU : ecu \in waiting \/ Noticed(1, ecu)
    BY <1>2, NothingMatchesUnseen DEF Init
  <2>2. \A r \in Rule : ~ (r < rule)
    BY <1>2 DEF Rule
  <2>. QED  BY <2>1, <2>2, <1>2 DEF NoticedInv
<1>6. ReportsInv
  BY <1>2 DEF ReportsInv, ReportsAreBursts, EventsReportedOnce, ReportsAreMaximal
<1>. QED  BY <1>1, <1>4, <1>5, <1>6 DEF Inv

-----------------------------------------------------------------------------
(* Steps that report nothing.                                              *)

LEMMA NothingReported ==
  ASSUME UNCHANGED <<events, reports>>
  PROVE  /\ ReportsInv => ReportsInv'
         /\ \A r : Reported(r)' = Reported(r)
         /\ \A r, ecu : Noticed(r, ecu)' <=> Noticed(r, ecu)
         /\ \A r, ecu : Matching(r, ecu)' = Matching(r, ecu)
<1>1. Position' = Position /\ \A r, ecu : Matching(r, ecu)' = Matching(r, ecu)
  BY DEF Position, Matching
<1>2. \A r, S : IsBurst(r, S)' <=> IsBurst(r, S)
  BY <1>1 DEF IsBurst
<1>3. \A r : EventsOf(r)' = EventsOf(r)
  BY DEF EventsOf
<1>4. \A r : Reported(r)' = Reported(r)
  BY <1>3 DEF Reported
<1>5. \A r, ecu : Noticed(r, ecu)' <=> Noticed(r, ecu)
  BY <1>1, <1>4 DEF Noticed
<1>6. ReportsAreBursts => ReportsAreBursts'
  BY <1>2, <1>3 DEF ReportsAreBursts
<1>7. EventsReportedOnce => EventsReportedOnce'
  BY <1>3 DEF EventsReportedOnce
<1>8. ReportsAreMaximal => ReportsAreMaximal'
  BY <1>1, <1>3 DEF ReportsAreMaximal
<1>. QED  BY <1>1, <1>4, <1>5, <1>6, <1>7, <1>8 DEF ReportsInv

(* Extending the window keeps the invariant. *)
LEMMA ExtendKeepsInv == Inv /\ Extend => Inv'
<1>. SUFFICES ASSUME Inv, Extend PROVE Inv'
  OBVIOUS
<1>. USE DEF Inv
<1>0. /\ UNCHANGED <<events, rule, waiting, group, start, reports>>
      /\ rule \in Rule /\ Scanning /\ WithinWindow(end + 1) /\ end' = end + 1
      /\ start \in Nat \ {0} /\ end \in Nat \ {0}
  BY DEF Extend, TypeOK
<1>1. TypeOK'
  <2>1. end' \in Nat \ {0}
    BY <1>0
  <2>. QED  BY <1>0, <2>1 DEF TypeOK, Position, Event
<1>2. GroupInv'
  BY <1>0, NothingReported DEF GroupInv, Sorted, Before
<1>3. WindowInv'
  <2>1. start <= end /\ start <= Len(group) + 1 /\ end + 1 <= Len(group)
        /\ TimeOf(end + 1) - TimeOf(start) <= Window[rule]
        /\ \A x \in start .. end : TimeOf(x) - TimeOf(start) <= Window[rule]
    BY <1>0 DEF WindowInv, WithinWindow, TimeOf
  <2>2. \A x \in start .. end + 1 : x \in start .. end \/ x = end + 1
    BY <1>0
  <2>3. \A x \in start .. end + 1 : TimeOf(x) - TimeOf(start) <= Window[rule]
    BY <2>1, <2>2
  <2>4. start <= end + 1
    BY <2>1, <1>0
  <2>. QED  BY <1>0, <2>1, <2>3, <2>4 DEF WindowInv, TimeOf
<1>4. ReportsBehindInv'
  BY <1>0, NothingReported DEF ReportsBehindInv, EventsOf
<1>5. ScanInv'
  BY <1>0, NothingReported DEF ScanInv, BurstBegins, TimeOf
<1>6. NoticedInv'
  BY <1>0, NothingReported DEF NoticedInv, Sorted, Before
<1>. QED  BY <1>0, <1>1, <1>2, <1>3, <1>4, <1>5, <1>6, NothingReported

(* What holds while the scan is in the middle of a group.                  *)
LEMMA ScanningFacts ==
  ASSUME Inv, rule \in Rule, Scanning
  PROVE  /\ start \in Nat /\ end \in Nat /\ 1 <= start /\ start <= end /\ end <= Len(group)
         /\ Len(group) \in Nat /\ DOMAIN group = 1 .. Len(group)
         /\ Threshold[rule] \in Nat /\ Threshold[rule] >= 1 /\ Window[rule] \in Nat
         /\ \A x \in 1 .. Len(group) : TimeOf(x) \in Nat /\ group[x] \in Position
         /\ \A x, y \in 1 .. Len(group) : x < y => TimeOf(x) <= TimeOf(y) /\ group[x] # group[y]
         /\ \A x \in start .. end : TimeOf(x) - TimeOf(start) <= Window[rule]
         /\ \E ecu \in ECU : ecu \notin waiting /\ Sorted(group, Matching(rule, ecu))
<1>. USE DEF Inv
<1>1. start \in Nat /\ end \in Nat /\ 1 <= start /\ group \in Seq(Position)
  BY DEF TypeOK
<1>2. Threshold[rule] \in Nat /\ Threshold[rule] >= 1 /\ Window[rule] \in Nat
  BY RuleFacts
<1>3. start <= end /\ end <= Len(group) /\ \A x \in start .. end : TimeOf(x) - TimeOf(start) <= Window[rule]
  BY DEF WindowInv
<1>4. Len(group) \in Nat /\ Len(group) # 0
  BY <1>1, <1>3
<1>5. PICK ecu \in ECU : ecu \notin waiting /\ Sorted(group, Matching(rule, ecu))
  BY <1>4 DEF GroupInv
<1>6. Matching(rule, ecu) \in SUBSET Position
  BY DEF Matching
<1>7. /\ DOMAIN group = 1 .. Len(group)
      /\ \A x \in 1 .. Len(group) : TimeOf(x) \in Nat /\ group[x] \in Position
      /\ \A x, y \in 1 .. Len(group) : x < y => TimeOf(x) <= TimeOf(y) /\ group[x] # group[y]
  BY <1>5, <1>6, GroupFacts
<1>. QED  BY <1>1, <1>2, <1>3, <1>4, <1>5, <1>7

(* A run that is too short is no burst, so passing over its first event    *)
(* leaves no burst behind.                                                 *)
LEMMA SlideKeepsInv == Inv /\ Slide => Inv'
<1>. SUFFICES ASSUME Inv, Slide PROVE Inv'
  OBVIOUS
<1>0. /\ UNCHANGED <<events, rule, waiting, group, reports>>
      /\ rule \in Rule /\ Scanning /\ ~WithinWindow(end + 1)
      /\ end - start + 1 < Threshold[rule]
      /\ start' = start + 1 /\ end' = start + 1
  BY DEF Slide, ClusterSize
<1>1. /\ start \in Nat /\ end \in Nat /\ 1 <= start /\ start <= end /\ end <= Len(group)
      /\ Len(group) \in Nat /\ DOMAIN group = 1 .. Len(group)
      /\ Threshold[rule] \in Nat /\ Threshold[rule] >= 1 /\ Window[rule] \in Nat
  BY <1>0, ScanningFacts
<1>2. /\ \A x \in 1 .. Len(group) : TimeOf(x) \in Nat
      /\ \A x, y \in 1 .. Len(group) : x < y => TimeOf(x) <= TimeOf(y)
  BY <1>0, ScanningFacts
<1>3. ~BurstBegins(start)
  <2>. SUFFICES ASSUME BurstBegins(start) PROVE FALSE
    OBVIOUS
  <2>. DEFINE last == start + Threshold[rule] - 1
  <2>1. last <= Len(group) /\ TimeOf(last) - TimeOf(start) <= Window[rule]
    BY DEF BurstBegins
  <2>2. end + 1 <= last /\ last \in 1 .. Len(group) /\ end + 1 \in 1 .. Len(group) /\ start \in 1 .. Len(group)
    BY <1>0, <1>1, <2>1
  <2>3. TimeOf(end + 1) <= TimeOf(last)
    <3>1. CASE end + 1 = last
      BY <3>1, <2>2, <1>2
    <3>2. CASE end + 1 < last
      BY <3>2, <2>2, <1>2
    <3>. QED  BY <3>1, <3>2, <2>2
  <2>4. TimeOf(end + 1) \in Nat /\ TimeOf(last) \in Nat /\ TimeOf(start) \in Nat
    BY <2>2, <1>2
  <2>5. TimeOf(end + 1) - TimeOf(start) <= Window[rule]
    BY <2>1, <2>3, <2>4, <1>1
  <2>6. end + 1 <= Len(group)
    BY <2>2
  <2>. QED  BY <2>5, <2>6, <1>0 DEF WithinWindow, TimeOf
<1>. USE DEF Inv
<1>4. TypeOK'
  <2>1. start' \in Nat \ {0} /\ end' \in Nat \ {0}
    BY <1>0, <1>1
  <2>. QED  BY <1>0, <2>1 DEF TypeOK, Position, Event
<1>5. GroupInv'
  BY <1>0, NothingReported DEF GroupInv, Sorted, Before
<1>6. WindowInv'
  <2>1. start + 1 <= Len(group) + 1
    BY <1>1
  <2>2. Scanning' => start + 1 <= Len(group)
    BY <1>0, <1>1 DEF Scanning
  <2>3. Scanning' => \A x \in start + 1 .. start + 1 : TimeOf(x) - TimeOf(start + 1) <= Window[rule]
    <3>1. ASSUME start + 1 <= Len(group) PROVE TimeOf(start + 1) - TimeOf(start + 1) <= Window[rule]
      BY <3>1, <1>1, <1>2
    <3>. QED  BY <3>1, <2>2, <1>1
  <2>. QED  BY <1>0, <1>1, <2>1, <2>2, <2>3 DEF WindowInv, TimeOf
<1>7. ReportsBehindInv'
  <2>1. \A x \in DOMAIN group : x < start => x < start'
    BY <1>0, <1>1
  <2>. QED  BY <1>0, <2>1, NothingReported DEF ReportsBehindInv, EventsOf
<1>8. ScanInv'
  <2>1. \A x \in DOMAIN group : x < start' => x < start \/ x = start
    BY <1>0, <1>1
  <2>2. \A x : BurstBegins(x)' <=> BurstBegins(x)
    BY <1>0 DEF BurstBegins, TimeOf
  <2>3. \A x \in DOMAIN group : x < start' /\ BurstBegins(x) => group[x] \in Reported(rule)
    BY <2>1, <1>3, <1>0 DEF ScanInv
  <2>. QED  BY <2>2, <2>3, <1>0, NothingReported DEF ScanInv
<1>9. NoticedInv'
  BY <1>0, NothingReported DEF NoticedInv, Sorted, Before
<1>. QED  BY <1>0, <1>4, <1>5, <1>6, <1>7, <1>8, <1>9, NothingReported

(* The group the scan leaves is noticed, the one it enters is sorted.      *)
LEMMA NextGroupKeepsInv == Inv /\ NextGroup => Inv'
<1>. SUFFICES ASSUME Inv, NextGroup PROVE Inv'
  OBVIOUS
<1>. USE DEF Inv
<1>0. /\ UNCHANGED <<events, rule, reports>> /\ rule \in Rule /\ ~Scanning
      /\ start' = 1 /\ end' = 1
  BY DEF NextGroup
<1>1. PICK i \in Position :
        /\ events[i].ecu \in waiting
        /\ waiting' = waiting \ {events[i].ecu}
        /\ \E seq \in [1 .. Cardinality(Matching(rule, events[i].ecu)) -> Matching(rule, events[i].ecu)] :
             Sorted(seq, Matching(rule, events[i].ecu)) /\ group' = seq
  BY DEF NextGroup
<1>20. PICK ecu0 \in ECU : ecu0 = events[i].ecu
  BY EventFacts
<1>. DEFINE M == Matching(rule, ecu0)
            n == Cardinality(M)
<1>2. group' \in [1 .. n -> M] /\ Sorted(group', M)
  BY <1>1, <1>20
<1>3. ecu0 \in waiting /\ ecu0 \notin waiting' /\ waiting' = waiting \ {ecu0}
  BY <1>1, <1>20
<1>4. M \subseteq Position /\ n \in Nat
  <2>1. M \subseteq 1 .. Len(events) /\ Len(events) \in Nat
    BY DEF Matching, Position, TypeOK
  <2>2. IsFiniteSet(1 .. Len(events))
    BY <2>1, FS_Interval
  <2>3. IsFiniteSet(M)
    BY <2>1, <2>2, FS_Subset
  <2>. QED  BY <2>3, FS_CardinalityType DEF Matching
<1>5. group' \in Seq(Position) /\ Len(group') = n /\ DOMAIN group' = 1 .. n
  <2>1. group' \in [1 .. n -> Position]
    BY <1>2, <1>4
  <2>. QED  BY <2>1, <1>4
<1>6. Position' = Position /\ Matching(rule, ecu0)' = M
  BY <1>0 DEF Position, Matching
<1>7. Sorted(group, Matching(rule, ecu0))'
  BY <1>0, <1>2, <1>6 DEF Sorted, Before
<1>8. TypeOK'
  <2>1. waiting' \subseteq ECU
    BY <1>1 DEF TypeOK
  <2>2. 1 \in Nat \ {0}
    OBVIOUS
  <2>. QED  BY <1>0, <1>5, <1>6, <2>1, <2>2 DEF TypeOK, Position, Event
<1>9. GroupInv'
  BY <1>3, <1>7, <1>20 DEF GroupInv
<1>10. WindowInv'
  <2>1. Threshold[rule] \in Nat /\ Threshold[rule] >= 1 /\ Window[rule] \in Nat
    BY <1>0, RuleFacts
  <2>2. Scanning' => 1 <= n
    BY <1>0, <1>4, <1>5, <2>1 DEF Scanning
  <2>3. ASSUME 1 <= n PROVE TimeOf(1)' - TimeOf(1)' <= Window[rule]
    <3>1. group'[1] \in Position
      BY <2>3, <1>2, <1>4
    <3>2. TimeOf(1)' \in Nat
      BY <3>1, <1>0, EventFacts DEF TimeOf
    <3>. QED  BY <3>2, <2>1
  <2>4. Scanning' => \A x \in 1 .. 1 : TimeOf(x)' - TimeOf(1)' <= Window[rule]
    BY <2>2, <2>3
  <2>5. start' <= end' /\ start' <= Len(group') + 1
    BY <1>0, <1>4, <1>5
  <2>. QED  BY <1>0, <1>5, <2>2, <2>4, <2>5 DEF WindowInv, TimeOf
<1>11. ReportsBehindInv'
  <2>. SUFFICES ASSUME NEW k \in DOMAIN reports
                PROVE  /\ reports[k].rule <= rule
                       /\ reports[k].rule = rule =>
                            \A j \in EventsOf(reports[k]) :
                              /\ events[j].ecu \notin waiting'
                              /\ \A x \in DOMAIN group' : group'[x] = j => x < start'
    BY <1>0 DEF ReportsBehindInv, EventsOf
  <2>1. reports[k].rule <= rule
    BY DEF ReportsBehindInv
  <2>2. ASSUME reports[k].rule = rule, NEW j \in EventsOf(reports[k])
        PROVE  events[j].ecu \notin waiting' /\ \A x \in DOMAIN group' : group'[x] # j
    <3>1. events[j].ecu \notin waiting
      BY <2>2 DEF ReportsBehindInv
    <3>2. \A x \in DOMAIN group' : events[group'[x]].ecu = ecu0
      BY <1>2, <1>5 DEF Matching
    <3>. QED  BY <3>1, <3>2, <1>3
  <2>. QED  BY <2>1, <2>2
<1>12. ScanInv'
  <2>1. \A x \in DOMAIN group' : ~ (x < start')
    BY <1>0, <1>5
  <2>. QED  BY <2>1 DEF ScanInv
<1>13. NoticedInv'
  <2>1. ASSUME NEW ecu \in ECU, ecu \notin waiting
        PROVE  Noticed(rule, ecu)
    <3>1. Noticed(rule, ecu) \/ Sorted(group, Matching(rule, ecu))
      BY <2>1, <1>0 DEF NoticedInv
    <3>. QED  BY <3>1, <1>0, ScannedIsNoticed
  <2>2. ASSUME NEW ecu \in ECU
        PROVE  (ecu \in waiting \/ Noticed(rule, ecu) \/ Sorted(group, Matching(rule, ecu)))'
    <3>1. CASE ecu = ecu0
      BY <3>1, <1>7
    <3>2. CASE ecu # ecu0 /\ ecu \in waiting
      BY <3>2, <1>3
    <3>3. CASE ecu \notin waiting
      <4>1. Noticed(rule, ecu)
        BY <3>3, <2>1
      <4>2. Noticed(rule, ecu)'
        BY <4>1, <1>0, NothingReported
      <4>. QED  BY <4>2
    <3>. QED  BY <3>1, <3>2, <3>3
  <2>3. \A r \in Rule : r < rule => \A ecu \in ECU : Noticed(r, ecu)'
    BY <1>0, NothingReported DEF NoticedInv
  <2>. QED  BY <2>2, <2>3, <1>0 DEF NoticedInv
<1>14. ReportsInv'
  BY <1>0, NothingReported
<1>. QED  BY <1>8, <1>9, <1>10, <1>11, <1>12, <1>13, <1>14

(* Going on to the next rule keeps the invariant. *)
LEMMA NextRuleKeepsInv == Inv /\ NextRule => Inv'
<1>. SUFFICES ASSUME Inv, NextRule PROVE Inv'
  OBVIOUS
<1>. USE DEF Inv
<1>0. /\ UNCHANGED <<events, reports>> /\ rule \in Rule /\ ~Scanning /\ waiting = {}
      /\ rule' = rule + 1 /\ waiting' = {events[i].ecu : i \in Position}
      /\ group' = <<>> /\ start' = 1 /\ end' = 1
  BY DEF NextRule
<1>1. Len(group') = 0 /\ DOMAIN group' = {} /\ group' \in Seq(Position)
  BY <1>0
<1>2. rule \in 1 .. 3 /\ rule' \in 1 .. 4
  BY <1>0 DEF Rule
<1>3. TypeOK'
  <2>1. waiting' \subseteq ECU
    BY <1>0, EventFacts
  <2>2. 1 \in Nat \ {0}
    OBVIOUS
  <2>. QED  BY <1>0, <1>1, <1>2, <2>1, <2>2 DEF TypeOK, Position, Event
<1>4. GroupInv' /\ ScanInv'
  BY <1>0, <1>1 DEF GroupInv, ScanInv
<1>5. WindowInv'
  <2>1. rule' \in Rule => ~Scanning'
    <3>1. rule' \in Rule => Threshold[rule'] \in Nat /\ Threshold[rule'] >= 1
      BY RuleFacts
    <3>. QED  BY <3>1, <1>0, <1>1 DEF Scanning
  <2>. QED  BY <2>1, <1>0, <1>1 DEF WindowInv
<1>6. ReportsBehindInv'
  <2>1. ASSUME NEW k \in DOMAIN reports
        PROVE  reports[k].rule <= rule + 1 /\ reports[k].rule # rule + 1
    <3>1. reports[k].rule <= rule
      BY DEF ReportsBehindInv
    <3>4. reports[k].rule \in 1 .. 3
      BY ReportFacts DEF Rule
    <3>. QED  BY <3>1, <3>4, <1>2
  <2>. QED  BY <2>1, <1>0 DEF ReportsBehindInv
<1>7. NoticedInv'
  <2>1. ASSUME NEW ecu \in ECU
        PROVE  Noticed(rule, ecu)
    <3>1. Noticed(rule, ecu) \/ Sorted(group, Matching(rule, ecu))
      BY <1>0 DEF NoticedInv
    <3>. QED  BY <3>1, <1>0, ScannedIsNoticed
  <2>2. ASSUME NEW r \in Rule, r < rule + 1, NEW ecu \in ECU
        PROVE  Noticed(r, ecu)
    <3>1. r < rule \/ r = rule
      BY <2>2, <1>2 DEF Rule
    <3>. QED  BY <3>1, <2>1 DEF NoticedInv
  <2>3. ASSUME NEW r \in Rule, r < rule + 1, NEW ecu \in ECU
        PROVE  Noticed(r, ecu)'
    BY <2>2, <2>3, <1>0, NothingReported
  <2>4. ASSUME NEW r \in Rule, r = rule', NEW ecu \in ECU
        PROVE  ecu \in waiting' \/ Noticed(rule, ecu)'
    <3>1. ecu \in waiting' \/ Noticed(r, ecu)
      BY <1>0, NothingMatchesUnseen
    <3>2. Noticed(r, ecu) => Noticed(r, ecu)'
      BY <1>0, NothingReported
    <3>3. Noticed(r, ecu)' <=> Noticed(rule, ecu)'
      BY <2>4 DEF Noticed, Matching, Reported
    <3>. QED  BY <3>1, <3>2, <3>3
  <2>. QED  BY <2>3, <2>4, <1>0 DEF NoticedInv
<1>8. ReportsInv'
  BY <1>0, NothingReported
<1>. QED  BY <1>3, <1>4, <1>5, <1>6, <1>7, <1>8

-----------------------------------------------------------------------------
(* The step that reports.                                                  *)

NewReport == [rule |-> rule, events |-> SubSeq(group, start, end)]

(* A new report is appended to the others and holds the window's events. *)
LEMMA NewReportFacts ==
  ASSUME Inv, Report
  PROVE  /\ DOMAIN reports' = 1 .. Len(reports) + 1 /\ Len(reports) + 1 \notin DOMAIN reports
         /\ \A k \in DOMAIN reports : k \in DOMAIN reports' /\ reports'[k] = reports[k]
         /\ reports'[Len(reports) + 1] = NewReport
         /\ reports' \in Seq([rule : Rule, events : Seq(Position)])
         /\ DOMAIN NewReport.events = 1 .. end - start + 1
         /\ \A x \in 1 .. end - start + 1 : NewReport.events[x] = group[start + x - 1]
         /\ EventsOf(NewReport) = {group[x] : x \in start .. end}
<1>. USE DEF Inv
<1>0. rule \in Rule /\ Scanning /\ reports' = Append(reports, NewReport)
  BY DEF Report, NewReport
<1>1. /\ start \in Nat /\ end \in Nat /\ 1 <= start /\ start <= end /\ end <= Len(group)
      /\ group \in Seq(Position)
  BY <1>0, ScanningFacts DEF TypeOK
<1>2. SubSeq(group, start, end) \in Seq(Position)
  <2>1. \A x \in start .. end : group[x] \in Position
    BY <1>0, <1>1, ScanningFacts
  <2>. QED  BY <1>1, <2>1
<1>3. /\ DOMAIN NewReport.events = 1 .. end - start + 1
      /\ \A x \in 1 .. end - start + 1 : NewReport.events[x] = group[start + x - 1]
  <2>1. Len(SubSeq(group, start, end)) = end - start + 1
    BY <1>1
  <2>2. \A x \in 1 .. end - start + 1 : SubSeq(group, start, end)[x] = group[start + x - 1]
    BY <1>1
  <2>. QED  BY <1>1, <1>2, <2>1, <2>2 DEF NewReport
<1>4. EventsOf(NewReport) = {group[x] : x \in start .. end}
  <2>1. \A x \in 1 .. end - start + 1 : start + x - 1 \in start .. end
    BY <1>1
  <2>2. \A y \in start .. end : y - start + 1 \in 1 .. end - start + 1 /\ start + (y - start + 1) - 1 = y
    BY <1>1
  <2>3. EventsOf(NewReport) \subseteq {group[x] : x \in start .. end}
    BY <1>3, <2>1 DEF EventsOf
  <2>4. ASSUME NEW y \in start .. end
        PROVE  group[y] \in EventsOf(NewReport)
    <3>1. NewReport.events[y - start + 1] = group[start + (y - start + 1) - 1]
      BY <2>2, <1>3
    <3>2. NewReport.events[y - start + 1] = group[y]
      BY <3>1, <2>2
    <3>. QED  BY <3>2, <2>2, <1>3 DEF EventsOf
  <2>. QED  BY <2>3, <2>4
<1>5. NewReport \in [rule : Rule, events : Seq(Position)]
  BY <1>0, <1>2 DEF NewReport
<1>6. reports \in Seq([rule : Rule, events : Seq(Position)])
  BY DEF TypeOK
<1>7. /\ DOMAIN reports' = 1 .. Len(reports) + 1 /\ Len(reports) + 1 \notin DOMAIN reports
      /\ \A k \in DOMAIN reports : k \in DOMAIN reports' /\ reports'[k] = reports[k]
      /\ reports'[Len(reports) + 1] = NewReport
  BY <1>0, <1>5, <1>6
<1>8. reports' \in Seq([rule : Rule, events : Seq(Position)])
  BY <1>0, <1>5, <1>6
<1>. QED  BY <1>3, <1>4, <1>7, <1>8

(* What the step does to the helpers the invariant is stated with.         *)
LEMMA ReportEffect ==
  ASSUME Inv, Report
  PROVE  /\ \A r, ecu : Matching(r, ecu)' = Matching(r, ecu)
         /\ \A r : EventsOf(r)' = EventsOf(r)
         /\ \A r : Reported(r) \subseteq Reported(r)'
         /\ \A x \in start .. end : group[x] \in Reported(rule)'
         /\ \A r, ecu : Noticed(r, ecu) => Noticed(r, ecu)'
<1>1. Position' = Position /\ \A r, ecu : Matching(r, ecu)' = Matching(r, ecu)
  BY DEF Report, Position, Matching
<1>2. \A r : EventsOf(r)' = EventsOf(r)
  BY DEF EventsOf
<1>3. \A r : Reported(r) \subseteq Reported(r)'
  BY <1>2, NewReportFacts DEF Reported
<1>4. \A x \in start .. end : group[x] \in Reported(rule)'
  <2>. DEFINE last == Len(reports) + 1
  <2>1. last \in DOMAIN reports' /\ reports'[last] = NewReport
    <3>1. Len(reports) \in Nat
      BY ReportFacts DEF Inv
    <3>. QED  BY <3>1, NewReportFacts
  <2>2. NewReport.rule = rule /\ rule' = rule
    BY DEF NewReport, Report
  <2>3. EventsOf(NewReport) = {group[x] : x \in start .. end}
    BY NewReportFacts
  <2>4. EventsOf(NewReport) \subseteq Reported(rule)'
    BY <2>1, <2>2, <1>2 DEF Reported, EventsOf
  <2>. QED  BY <2>3, <2>4
<1>5. ASSUME NEW r, NEW ecu, Noticed(r, ecu)
      PROVE  Noticed(r, ecu)'
  <2>1. events' = events
    BY DEF Report
  <2>. QED  BY <1>1, <1>3, <1>5, <2>1 DEF Noticed
<1>. QED  BY <1>1, <1>2, <1>3, <1>4, <1>5

(* The new report is a burst: enough events, no two too far apart.         *)
LEMMA NewReportIsBurst ==
  ASSUME Inv, Report
  PROVE  IsBurst(rule, EventsOf(NewReport))
<1>. DEFINE S == EventsOf(NewReport)
<1>0. rule \in Rule /\ Scanning /\ end - start + 1 >= Threshold[rule]
  BY DEF Report, ClusterSize
<1>1. /\ start \in Nat /\ end \in Nat /\ 1 <= start /\ start <= end /\ end <= Len(group)
      /\ Len(group) \in Nat /\ DOMAIN group = 1 .. Len(group)
      /\ Threshold[rule] \in Nat /\ Window[rule] \in Nat
  BY <1>0, ScanningFacts
<1>2. /\ \A x \in 1 .. Len(group) : TimeOf(x) \in Nat
      /\ \A x, y \in 1 .. Len(group) : x < y => TimeOf(x) <= TimeOf(y) /\ group[x] # group[y]
      /\ \A x \in start .. end : TimeOf(x) - TimeOf(start) <= Window[rule]
  BY <1>0, ScanningFacts
<1>3. S = {group[x] : x \in start .. end}
  BY NewReportFacts
<1>4. \A x \in start .. end : x \in 1 .. Len(group)
  BY <1>1
<1>5. \E ecu \in ECU : S \subseteq Matching(rule, ecu)
  <2>1. PICK ecu \in ECU : Sorted(group, Matching(rule, ecu))
    BY <1>0, ScanningFacts
  <2>2. \A x \in start .. end : group[x] \in Matching(rule, ecu)
    BY <2>1, <1>1, <1>4 DEF Sorted
  <2>. QED  BY <2>2, <1>3
<1>6. ASSUME NEW x \in start .. end, NEW y \in start .. end
      PROVE  TimeOf(x) - TimeOf(y) <= Window[rule]
  <2>1. TimeOf(start) <= TimeOf(y)
    <3>1. start \in 1 .. Len(group) /\ y \in 1 .. Len(group) /\ (start = y \/ start < y)
      BY <1>1
    <3>. QED  BY <3>1, <1>2
  <2>2. TimeOf(x) - TimeOf(start) <= Window[rule]
    BY <1>2
  <2>3. TimeOf(x) \in Nat /\ TimeOf(y) \in Nat /\ TimeOf(start) \in Nat
    BY <1>1, <1>2, <1>4
  <2>. QED  BY <2>1, <2>2, <2>3, <1>1
<1>7. \A i, j \in S : events[i].time - events[j].time <= Window[rule]
  BY <1>3, <1>6 DEF TimeOf
<1>8. Cardinality(S) >= Threshold[rule]
  <2>. DEFINE f == [x \in start .. end |-> group[x]]
  <2>1. f \in [start .. end -> S]
    BY <1>3
  <2>2. \A x, y \in start .. end : x # y => f[x] # f[y]
    <3>1. \A x, y \in start .. end : x < y \/ y < x \/ x = y
      BY <1>1
    <3>. QED  BY <3>1, <1>2, <1>4
  <2>3. f \in Bijection(start .. end, S)
    <3>1. \A i \in S : \E x \in start .. end : f[x] = i
      BY <1>3
    <3>2. f \in Surjection(start .. end, S)
      BY <2>1, <3>1 DEF Surjection
    <3>3. f \in Injection(start .. end, S)
      BY <2>1, <2>2 DEF Injection, IsInjective
    <3>. QED  BY <3>2, <3>3 DEF Bijection
  <2>4. IsFiniteSet(start .. end) /\ Cardinality(start .. end) = end - start + 1
    <3>1. start \in Int /\ end \in Int /\ ~ (start > end)
      BY <1>1
    <3>2. Cardinality(start .. end) = IF start > end THEN 0 ELSE end - start + 1
      BY <3>1, FS_Interval
    <3>. QED  BY <3>1, <3>2, FS_Interval
  <2>5. ExistsBijection(start .. end, S)
    BY <2>3 DEF ExistsBijection
  <2>6. Cardinality(S) = Cardinality(start .. end)
    BY <2>4, <2>5, FS_Bijection
  <2>. QED  BY <2>4, <2>6, <1>0, <1>1
<1>. QED  BY <1>5, <1>7, <1>8 DEF IsBurst

(* Its events are new to the rule's reports.                               *)
LEMMA NewReportIsNew ==
  ASSUME Inv, Report, NEW k \in DOMAIN reports, reports[k].rule = rule
  PROVE  EventsOf(reports[k]) \cap EventsOf(NewReport) = {}
<1>1. \A i \in EventsOf(reports[k]) : \A x \in DOMAIN group : group[x] = i => x < start
  BY DEF Inv, ReportsBehindInv
<1>2. rule \in Rule /\ Scanning
  BY DEF Report
<1>3. start \in Nat /\ end \in Nat /\ 1 <= start /\ end <= Len(group) /\ DOMAIN group = 1 .. Len(group)
      /\ Len(group) \in Nat
  BY <1>2, ScanningFacts
<1>4. \A x \in start .. end : x \in DOMAIN group /\ ~ (x < start)
  BY <1>3
<1>5. EventsOf(NewReport) = {group[x] : x \in start .. end}
  BY NewReportFacts
<1>. QED  BY <1>1, <1>4, <1>5

(* What the window of its first event holds and it does not was reported   *)
(* before: later events are outside the window, and an earlier one at the  *)
(* same time begins a burst of its own.                                    *)
LEMMA NewReportIsMaximal ==
  ASSUME Inv, Report, NEW i \in Matching(rule, events[group[start]].ecu),
         TimeOf(start) <= events[i].time, events[i].time - TimeOf(start) <= Window[rule]
  PROVE  i \in EventsOf(NewReport) \/ i \in Reported(rule)
<1>0. rule \in Rule /\ Scanning /\ end - start + 1 >= Threshold[rule] /\ ~WithinWindow(end + 1)
  BY DEF Report, ClusterSize
<1>1. /\ start \in Nat /\ end \in Nat /\ 1 <= start /\ start <= end /\ end <= Len(group)
      /\ Len(group) \in Nat /\ DOMAIN group = 1 .. Len(group)
      /\ Threshold[rule] \in Nat /\ Threshold[rule] >= 1 /\ Window[rule] \in Nat
  BY <1>0, ScanningFacts
<1>2. /\ \A x \in 1 .. Len(group) : TimeOf(x) \in Nat
      /\ \A x, y \in 1 .. Len(group) : x < y => TimeOf(x) <= TimeOf(y)
      /\ \A x \in start .. end : TimeOf(x) - TimeOf(start) <= Window[rule]
  BY <1>0, ScanningFacts
<1>3. PICK x \in 1 .. Len(group) : group[x] = i
  <2>1. PICK ecu \in ECU : Sorted(group, Matching(rule, ecu))
    BY <1>0, ScanningFacts
  <2>2. group[start] \in Matching(rule, ecu)
    BY <2>1, <1>1 DEF Sorted
  <2>3. events[group[start]].ecu = ecu
    BY <2>2 DEF Matching
  <2>. QED  BY <2>1, <2>3, <1>1 DEF Sorted
<1>4. CASE x \in start .. end
  BY <1>3, <1>4, NewReportFacts
<1>5. CASE x > end
  <2>1. end + 1 \in 1 .. Len(group) /\ start \in 1 .. Len(group) /\ (end + 1 < x \/ end + 1 = x)
    BY <1>1, <1>5
  <2>2. ~ (TimeOf(end + 1) - TimeOf(start) <= Window[rule])
    BY <1>0, <2>1 DEF WithinWindow, TimeOf
  <2>3. TimeOf(end + 1) <= TimeOf(x)
    BY <2>1, <1>2
  <2>4. TimeOf(x) - TimeOf(start) <= Window[rule]
    BY <1>3 DEF TimeOf
  <2>5. TimeOf(x) \in Nat /\ TimeOf(start) \in Nat /\ TimeOf(end + 1) \in Nat
    BY <2>1, <1>2
  <2>. QED  BY <2>2, <2>3, <2>4, <2>5, <1>1
<1>6. CASE x < start
  <2>. DEFINE last == x + Threshold[rule] - 1
  <2>1. start \in 1 .. Len(group) /\ end \in 1 .. Len(group) /\ last \in 1 .. Len(group) /\ last < end
    BY <1>0, <1>1, <1>6
  <2>2. TimeOf(x) = TimeOf(start)
    <3>1. TimeOf(x) <= TimeOf(start)
      BY <1>6, <2>1, <1>2
    <3>2. TimeOf(start) <= TimeOf(x)
      BY <1>3 DEF TimeOf
    <3>. QED  BY <3>1, <3>2, <2>1, <1>2
  <2>3. TimeOf(last) <= TimeOf(end) /\ TimeOf(end) - TimeOf(start) <= Window[rule]
    <3>1. end \in start .. end
      BY <1>1
    <3>. QED  BY <3>1, <2>1, <1>2
  <2>4. TimeOf(last) - TimeOf(x) <= Window[rule]
    <3>1. TimeOf(last) \in Nat /\ TimeOf(end) \in Nat /\ TimeOf(start) \in Nat
      BY <2>1, <1>2
    <3>. QED  BY <3>1, <2>2, <2>3, <1>1
  <2>5. BurstBegins(x)
    BY <2>1, <2>4 DEF BurstBegins
  <2>6. group[x] \in Reported(rule)
    BY <2>5, <1>0, <1>1, <1>6 DEF Inv, ScanInv
  <2>. QED  BY <2>6, <1>3
<1>. QED  BY <1>4, <1>5, <1>6, <1>1

(* Reporting keeps the part of the invariant that is about reports. *)
LEMMA ReportKeepsReportsInv == Inv /\ Report => ReportsInv'
<1>. SUFFICES ASSUME Inv, Report PROVE ReportsInv'
  OBVIOUS
<1>. DEFINE last == Len(reports) + 1
<1>0. events' = events /\ rule' = rule /\ rule \in Rule /\ Position' = Position
  BY DEF Report, Position
<1>1. /\ DOMAIN reports = 1 .. Len(reports) /\ Len(reports) \in Nat
      /\ DOMAIN reports' = 1 .. last /\ last \in DOMAIN reports' /\ reports'[last] = NewReport
      /\ \A k \in DOMAIN reports : k \in DOMAIN reports' /\ reports'[k] = reports[k]
      /\ \A k \in DOMAIN reports' : k \in DOMAIN reports \/ k = last
  <2>1. DOMAIN reports = 1 .. Len(reports) /\ Len(reports) \in Nat
    BY ReportFacts DEF Inv
  <2>. QED  BY <2>1, NewReportFacts
<1>2. NewReport.rule = rule /\ DOMAIN NewReport.events = 1 .. end - start + 1
      /\ \A x \in 1 .. end - start + 1 : NewReport.events[x] = group[start + x - 1]
  BY NewReportFacts DEF NewReport
<1>3. /\ \A r : EventsOf(r)' = EventsOf(r)
      /\ \A r, ecu : Matching(r, ecu)' = Matching(r, ecu)
  BY ReportEffect
<1>4. \A r, S : IsBurst(r, S)' <=> IsBurst(r, S)
  BY <1>0, <1>3 DEF IsBurst
<1>5. ReportsAreBursts'
  <2>1. \A k \in DOMAIN reports : IsBurst(reports[k].rule, EventsOf(reports[k]))
    BY DEF Inv, ReportsInv, ReportsAreBursts
  <2>2. IsBurst(rule, EventsOf(NewReport))
    BY NewReportIsBurst
  <2>3. \A k \in DOMAIN reports' : IsBurst(reports'[k].rule, EventsOf(reports'[k]))
    BY <2>1, <2>2, <1>1, <1>2
  <2>. QED  BY <2>3, <1>0, <1>3 DEF ReportsAreBursts, IsBurst, EventsOf
<1>6. EventsReportedOnce'
  <2>1. \A k \in DOMAIN reports : \A x, y \in DOMAIN reports[k].events :
          reports[k].events[x] = reports[k].events[y] => x = y
    BY DEF Inv, ReportsInv, EventsReportedOnce
  <2>2. ASSUME NEW x \in DOMAIN NewReport.events, NEW y \in DOMAIN NewReport.events,
               NewReport.events[x] = NewReport.events[y]
        PROVE  x = y
    <3>1. /\ start \in Nat /\ end \in Nat /\ 1 <= start /\ end <= Len(group) /\ Len(group) \in Nat
          /\ \A u, v \in 1 .. Len(group) : u < v => group[u] # group[v]
      BY ScanningFacts DEF Report
    <3>2. start + x - 1 \in 1 .. Len(group) /\ start + y - 1 \in 1 .. Len(group)
      BY <1>2, <3>1
    <3>3. group[start + x - 1] = group[start + y - 1]
      BY <2>2, <1>2
    <3>4. ~ (start + x - 1 < start + y - 1) /\ ~ (start + y - 1 < start + x - 1)
      BY <3>1, <3>2, <3>3
    <3>. QED  BY <3>1, <3>4, <1>2
  <2>3. \A k, l \in DOMAIN reports : k # l /\ reports[k].rule = reports[l].rule
          => EventsOf(reports[k]) \cap EventsOf(reports[l]) = {}
    BY DEF Inv, ReportsInv, EventsReportedOnce
  <2>4. \A k \in DOMAIN reports : reports[k].rule = rule
          => EventsOf(reports[k]) \cap EventsOf(NewReport) = {}
    BY NewReportIsNew
  <2>5. \A k \in DOMAIN reports' : \A x, y \in DOMAIN reports'[k].events :
          reports'[k].events[x] = reports'[k].events[y] => x = y
    BY <2>1, <2>2, <1>1
  <2>6. \A k, l \in DOMAIN reports' : k # l /\ reports'[k].rule = reports'[l].rule
          => EventsOf(reports'[k]) \cap EventsOf(reports'[l]) = {}
    BY <2>3, <2>4, <1>1, <1>2
  <2>. QED  BY <2>5, <2>6 DEF EventsReportedOnce, EventsOf
<1>7. ReportsAreMaximal'
  <2>. DEFINE first(k) == events[reports'[k].events[1]]
              within(k, i) == first(k).time <= events[i].time
                                /\ events[i].time - first(k).time <= Window[reports'[k].rule]
  <2>. SUFFICES ASSUME NEW k \in DOMAIN reports', NEW i \in Matching(reports'[k].rule, first(k).ecu),
                       within(k, i)
                PROVE  \E l \in 1 .. k : reports'[l].rule = reports'[k].rule /\ i \in EventsOf(reports'[l])
    BY <1>0, <1>3 DEF ReportsAreMaximal, EventsOf, Matching, Position
  <2>1. CASE k \in DOMAIN reports
    <3>1. PICK l \in 1 .. k : reports[l].rule = reports[k].rule /\ i \in EventsOf(reports[l])
      BY <2>1, <1>1 DEF Inv, ReportsInv, ReportsAreMaximal
    <3>2. l \in DOMAIN reports
      BY <2>1, <1>1
    <3>. QED  BY <3>1, <3>2, <2>1, <1>1
  <2>2. CASE k = last
    <3>0. reports'[k] = NewReport /\ reports'[k].rule = rule
      BY <2>2, <1>1, <1>2
    <3>1. NewReport.events[1] = group[start]
      <4>1. start \in Nat /\ end \in Nat /\ start <= end
        BY ScanningFacts DEF Report
      <4>2. 1 \in 1 .. end - start + 1 /\ start + 1 - 1 = start
        BY <4>1
      <4>. QED  BY <4>2, <1>2
    <3>2. i \in Matching(rule, events[group[start]].ecu) /\ TimeOf(start) <= events[i].time
          /\ events[i].time - TimeOf(start) <= Window[rule]
      BY <3>0, <3>1 DEF TimeOf
    <3>3. i \in EventsOf(NewReport) \/ i \in Reported(rule)
      BY <3>2, NewReportIsMaximal
    <3>4. ASSUME i \in Reported(rule)
          PROVE  \E l \in DOMAIN reports : reports[l].rule = rule /\ i \in EventsOf(reports[l])
      BY <3>4 DEF Reported
    <3>5. \A l \in DOMAIN reports : l \in 1 .. k
      BY <2>2, <1>1
    <3>6. k \in 1 .. k
      BY <2>2, <1>1
    <3>. QED  BY <3>0, <3>3, <3>4, <3>5, <3>6, <1>1
  <2>. QED  BY <2>1, <2>2, <1>1
<1>. QED  BY <1>5, <1>6, <1>7 DEF ReportsInv

(* Reporting keeps the invariant. *)
LEMMA ReportKeepsInv == Inv /\ Report => Inv'
<1>. SUFFICES ASSUME Inv, Report PROVE Inv'
  OBVIOUS
<1>0. /\ UNCHANGED <<events, rule, waiting, group>>
      /\ rule \in Rule /\ Scanning /\ start' = end + 1 /\ end' = end + 1
  BY DEF Report
<1>1. /\ start \in Nat /\ end \in Nat /\ 1 <= start /\ start <= end /\ end <= Len(group)
      /\ Len(group) \in Nat /\ DOMAIN group = 1 .. Len(group)
      /\ Threshold[rule] \in Nat /\ Threshold[rule] >= 1 /\ Window[rule] \in Nat
  BY <1>0, ScanningFacts
<1>2. /\ \A x \in 1 .. Len(group) : TimeOf(x) \in Nat
      /\ \A x, y \in 1 .. Len(group) : x < y => group[x] # group[y]
  BY <1>0, ScanningFacts
<1>3. \A r, ecu : Matching(r, ecu)' = Matching(r, ecu)
  BY ReportEffect
<1>4. TypeOK'
  <2>1. start' \in Nat \ {0} /\ end' \in Nat \ {0}
    BY <1>0, <1>1
  <2>2. reports' \in Seq([rule : Rule, events : Seq(Position)])
    BY NewReportFacts
  <2>. QED  BY <1>0, <2>1, <2>2 DEF Inv, TypeOK, Position, Event
<1>5. GroupInv'
  BY <1>0, <1>3 DEF Inv, GroupInv, Sorted, Before
<1>6. WindowInv'
  <2>1. end + 1 <= Len(group) + 1
    BY <1>1
  <2>2. Scanning' => end + 1 <= Len(group)
    BY <1>0, <1>1 DEF Scanning
  <2>3. Scanning' => \A x \in end + 1 .. end + 1 : TimeOf(x) - TimeOf(end + 1) <= Window[rule]
    <3>1. ASSUME end + 1 <= Len(group) PROVE TimeOf(end + 1) - TimeOf(end + 1) <= Window[rule]
      BY <3>1, <1>1, <1>2
    <3>. QED  BY <3>1, <2>2, <1>1
  <2>. QED  BY <1>0, <1>1, <2>1, <2>2, <2>3 DEF WindowInv, TimeOf
<1>7. ReportsBehindInv'
  <2>. SUFFICES ASSUME NEW k \in DOMAIN reports'
                PROVE  /\ reports'[k].rule <= rule
                       /\ reports'[k].rule = rule =>
                            \A i \in EventsOf(reports'[k]) :
                              /\ events[i].ecu \notin waiting
                              /\ \A x \in DOMAIN group : group[x] = i => x < end + 1
    BY <1>0 DEF ReportsBehindInv, EventsOf
  <2>1. \A x \in DOMAIN group : x < start => x < end + 1
    BY <1>1
  <2>2. CASE k \in DOMAIN reports
    <3>1. reports'[k] = reports[k]
      BY <2>2, NewReportFacts
    <3>. QED  BY <2>1, <2>2, <3>1 DEF Inv, ReportsBehindInv
  <2>3. CASE reports'[k] = NewReport
    <3>1. EventsOf(NewReport) = {group[x] : x \in start .. end}
      BY NewReportFacts
    <3>2. PICK ecu \in ECU : ecu \notin waiting /\ Sorted(group, Matching(rule, ecu))
      BY <1>0, ScanningFacts
    <3>3. \A y \in start .. end : events[group[y]].ecu \notin waiting
      <4>1. \A y \in start .. end : y \in DOMAIN group
        BY <1>1
      <4>. QED  BY <4>1, <3>2 DEF Sorted, Matching
    <3>4. ASSUME NEW y \in start .. end, NEW x \in DOMAIN group, group[x] = group[y]
          PROVE  x < end + 1
      <4>1. x \in 1 .. Len(group) /\ y \in 1 .. Len(group) /\ y < end + 1
        BY <1>1
      <4>2. ~ (y < x)
        BY <4>1, <3>4, <1>2
      <4>. QED  BY <4>1, <4>2, <1>1
    <3>5. rule <= rule
      BY <1>0 DEF Rule
    <3>6. NewReport.rule = rule
      BY DEF NewReport
    <3>7. \A i \in EventsOf(NewReport) :
            events[i].ecu \notin waiting /\ \A x \in DOMAIN group : group[x] = i => x < end + 1
      BY <3>1, <3>3, <3>4
    <3>. QED  BY <2>3, <3>5, <3>6, <3>7
  <2>4. k \in DOMAIN reports \/ reports'[k] = NewReport
    <3>1. DOMAIN reports = 1 .. Len(reports) /\ Len(reports) \in Nat
      BY ReportFacts DEF Inv
    <3>2. k \in DOMAIN reports \/ k = Len(reports) + 1
      BY <3>1, NewReportFacts
    <3>. QED  BY <3>2, NewReportFacts
  <2>. QED  BY <2>2, <2>3, <2>4
<1>8. ScanInv'
  <2>1. \A x : BurstBegins(x)' <=> BurstBegins(x)
    BY <1>0 DEF BurstBegins, TimeOf
  <2>2. ASSUME NEW x \in DOMAIN group, x < end + 1, BurstBegins(x)
        PROVE  group[x] \in Reported(rule)'
    <3>1. x < start \/ x \in start .. end
      BY <2>2, <1>1
    <3>2. CASE x < start
      <4>1. group[x] \in Reported(rule)
        BY <3>2, <2>2, <1>0 DEF Inv, ScanInv
      <4>2. PICK r : r = rule
        OBVIOUS
      <4>3. Reported(r)' = Reported(rule)'
        BY <4>2, <1>0 DEF Reported
      <4>4. Reported(r) \subseteq Reported(r)'
        BY ReportEffect
      <4>. QED  BY <4>1, <4>2, <4>3, <4>4
    <3>3. CASE x \in start .. end
      BY <3>3, ReportEffect
    <3>. QED  BY <3>1, <3>2, <3>3
  <2>. QED  BY <2>1, <2>2, <1>0 DEF ScanInv
<1>9. NoticedInv'
  <2>1. \A r, ecu : Noticed(r, ecu) => Noticed(r, ecu)'
    BY ReportEffect
  <2>2. \A r \in Rule : r < rule => \A ecu \in ECU : Noticed(r, ecu)'
    BY <2>1 DEF Inv, NoticedInv
  <2>3. ASSUME NEW ecu \in ECU
        PROVE  (ecu \in waiting \/ Noticed(rule, ecu) \/ Sorted(group, Matching(rule, ecu)))'
    <3>1. PICK r : r = rule
      OBVIOUS
    <3>2. Noticed(r, ecu)' <=> Noticed(rule, ecu)'
      BY <3>1, <1>0 DEF Noticed, Matching, Reported
    <3>3. Sorted(group, Matching(rule, ecu)) => Sorted(group, Matching(rule, ecu))'
      BY <1>0, <1>3 DEF Sorted, Before
    <3>4. ecu \in waiting \/ Noticed(r, ecu) \/ Sorted(group, Matching(rule, ecu))
      BY <3>1, <1>0 DEF Inv, NoticedInv
    <3>. QED  BY <3>2, <3>3, <3>4, <2>1, <1>0
  <2>. QED  BY <2>2, <2>3, <1>0 DEF NoticedInv
<1>10. ReportsInv'
  BY ReportKeepsReportsInv
<1>. QED  BY <1>4, <1>5, <1>6, <1>7, <1>8, <1>9, <1>10 DEF Inv

-----------------------------------------------------------------------------
(* The theorems.                                                           *)

LEMMA InvHolds == Spec => []Inv
<1>1. Init => Inv
  BY InitInv
<1>2. Inv /\ [Next]_vars => Inv'
  <2>. SUFFICES ASSUME Inv, [Next]_vars PROVE Inv'
    OBVIOUS
  <2>1. CASE NextGroup
    BY <2>1, NextGroupKeepsInv
  <2>2. CASE Extend
    BY <2>2, ExtendKeepsInv
  <2>3. CASE Report
    BY <2>3, ReportKeepsInv
  <2>4. CASE Slide
    BY <2>4, SlideKeepsInv
  <2>5. CASE NextRule
    BY <2>5, NextRuleKeepsInv
  <2>6. CASE UNCHANGED vars
    <3>1. UNCHANGED <<events, rule, waiting, group, start, end, reports>>
      BY <2>6 DEF vars, scan
    <3>2. TypeOK' /\ ReportsInv'
      BY <3>1, NothingReported DEF Inv, TypeOK, Position, Event
    <3>3. GroupInv' /\ WindowInv'
      BY <3>1, NothingReported DEF Inv, GroupInv, WindowInv, Scanning, TimeOf, Sorted, Before
    <3>4. ReportsBehindInv' /\ ScanInv'
      BY <3>1, NothingReported DEF Inv, ReportsBehindInv, EventsOf, ScanInv, BurstBegins, TimeOf
    <3>5. NoticedInv'
      BY <3>1, NothingReported DEF Inv, NoticedInv, Sorted, Before
    <3>. QED  BY <3>2, <3>3, <3>4, <3>5 DEF Inv
  <2>. QED  BY <2>1, <2>2, <2>3, <2>4, <2>5, <2>6 DEF Next
<1>. QED  BY <1>1, <1>2, PTL DEF Spec

(* The variables keep their types (analyze(), _cluster_by_window()).       *)
THEOREM AnalyzerTypesHold == Spec => []TypeOK
<1>1. Inv => TypeOK
  BY DEF Inv
<1>. QED  BY <1>1, InvHolds, PTL

(* Every report is a burst of one ECU within the rule's window, of at      *)
(* least its threshold, whatever the order of the list (_build_report()).  *)
THEOREM EveryReportIsABurst == Spec => []ReportsAreBursts
<1>1. Inv => ReportsAreBursts
  BY DEF Inv, ReportsInv
<1>. QED  BY <1>1, InvHolds, PTL

(* A rule reports no event twice (_cluster_by_window() resumes after a     *)
(* cluster).                                                               *)
THEOREM NoEventReportedTwice == Spec => []EventsReportedOnce
<1>1. Inv => EventsReportedOnce
  BY DEF Inv, ReportsInv
<1>. QED  BY <1>1, InvHolds, PTL

(* Reports are maximal, up to what the rule reported before ("a maximal    *)
(* run", docs/analyzer-spec.md).                                           *)
THEOREM EveryReportIsMaximal == Spec => []ReportsAreMaximal
<1>1. Inv => ReportsAreMaximal
  BY DEF Inv, ReportsInv
<1>. QED  BY <1>1, InvHolds, PTL

(* The greedy scan overlooks no burst, wherever it lies in the list        *)
(* (_cluster_by_window(), for every threshold and window).                 *)
THEOREM EveryBurstIsNoticed == Spec => []NoBurstGoesUnnoticed
<1>1. Inv => NoBurstGoesUnnoticed
  BY DEF Inv, NoticedInv, Noticed, NoBurstGoesUnnoticed, IsBurst
<1>. QED  BY <1>1, InvHolds, PTL

=============================================================================
