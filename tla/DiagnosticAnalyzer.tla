-------------------------- MODULE DiagnosticAnalyzer --------------------------
(***************************************************************************)
(* DiagnosticAnalyzer.analyze() of analyzer/analyzer.py and the three      *)
(* rules of analyzer/rules.py, one step per iteration of their loops.  The *)
(* analyzer takes a list of DiagnosticEvents in any order; each rule       *)
(* groups it by ECU, sorts and filters each group, and cuts the group into *)
(* clusters by one greedy scan (_cluster_by_window()).                     *)
(*                                                                         *)
(* Events are known by their position in the list.  Positions of a group   *)
(* start at 1, not 0.  Of a report only what the rules decide is kept; its *)
(* texts and its severity follow from the rule.                            *)
(***************************************************************************)
EXTENDS Integers, Sequences, FiniteSets

CONSTANTS
  ECU,          (* The ECUs that answer diagnostic requests.               *)
  Responses,    (* Bound: the kinds of response in the list.               *)
  Threshold,    (* threshold of each rule                                  *)
  Window,       (* window_seconds of each rule                             *)
  MaxEvents,    (* Bound: events in the list.                              *)
  MaxTime       (* Bound: their timestamps.                                *)

Rule == 1 .. 3  (* ALL_RULES: negative responses, DTC queries, P0217       *)

(* Of a response the rules look at is_positive_response, service_name =    *)
(* ReadDTCInformation and the mention of P0217 in response_summary.        *)
Response == [positive : BOOLEAN, dtc : BOOLEAN, p0217 : BOOLEAN]

ASSUME ResponsesAssumption == Responses \subseteq Response
ASSUME ThresholdAssumption == Threshold \in [Rule -> Nat \ {0}]
ASSUME WindowAssumption == Window \in [Rule -> Nat]
ASSUME BoundsAssumption == MaxEvents \in Nat /\ MaxTime \in Nat

VARIABLES
  events,       (* the argument of analyze()                               *)
  rule,         (* the rule that runs; 4: analyze() returned               *)
  waiting,      (* ECUs whose group the rule has not got to                *)
  group,        (* the events the scan runs over, in its order             *)
  start,        (* `start` of _cluster_by_window()                         *)
  end,          (* `end` of _cluster_by_window()                           *)
  reports       (* reports so far: the rule and the events of its cluster  *)

scan == <<group, start, end>>
vars == <<events, rule, waiting, scan, reports>>

Event == [ecu : ECU, response : Responses, time : 0 .. MaxTime]
Position == DOMAIN events

TypeOK ==
  /\ events \in Seq(Event) /\ Len(events) \in 1 .. MaxEvents
  /\ rule \in 1 .. 4
  /\ waiting \subseteq ECU
  /\ group \in Seq(Position)
  /\ start \in Nat \ {0}
  /\ end \in Nat \ {0}
  /\ reports \in Seq([rule : Rule, events : Seq(Position)])

(* The event is of the kind the rule is about. *)
Matches(r, response) ==
  \/ r = 1 /\ ~response.positive
  \/ r = 2 /\ response.dtc
  \/ r = 3 /\ response.dtc /\ response.positive /\ response.p0217

Matching(r, ecu) == {i \in Position : events[i].ecu = ecu /\ Matches(r, events[i].response)}

(* Mutant of Before: the list is taken as it comes. *)
BeforeInList(i, j) == i < j

(* list.sort() by timestamp, which is stable. *)
Before(i, j) ==
  \/ events[i].time < events[j].time
  \/ events[i].time = events[j].time /\ i < j

(* The sequence of the elements of S in that order. *)
Sorted(seq, S) ==
  /\ \A k \in DOMAIN seq : seq[k] \in S
  /\ \A i \in S : \E k \in DOMAIN seq : seq[k] = i
  /\ \A k, l \in DOMAIN seq : k < l => Before(seq[k], seq[l])

(* analyze() returns at once for an empty list. *)
Init ==
  /\ events \in UNION {[1 .. n -> Event] : n \in 1 .. MaxEvents}
  /\ rule = 1
  /\ waiting = {events[i].ecu : i \in Position}
  /\ group = <<>>
  /\ start = 1
  /\ end = 1
  /\ reports = <<>>

(* `while start <= n - threshold` *)
Scanning == start <= Len(group) - Threshold[rule] + 1

(* Mutant of WithinWindow: each event is compared with the one before it.  *)
WithinWindowOfPrevious(k) ==
  k <= Len(group) /\ events[group[k]].time - events[group[k - 1]].time <= Window[rule]

(* The event at k is there, and not later than the window of the first.    *)
WithinWindow(k) ==
  k <= Len(group) /\ events[group[k]].time - events[group[start]].time <= Window[rule]

ClusterSize == end - start + 1

(* The rule's next group: dict order, the order the ECUs first appear in.  *)
NextGroup ==
  /\ rule \in Rule /\ ~Scanning
  /\ \E i \in Position :
       /\ events[i].ecu \in waiting
       /\ \A j \in 1 .. i - 1 : events[j].ecu \notin waiting
       /\ waiting' = waiting \ {events[i].ecu}
       /\ LET matching == Matching(rule, events[i].ecu)
          IN \E seq \in [1 .. Cardinality(matching) -> matching] :
               Sorted(seq, matching) /\ group' = seq
  /\ start' = 1
  /\ end' = 1
  /\ UNCHANGED <<events, rule, reports>>

Extend ==
  /\ rule \in Rule /\ Scanning
  /\ WithinWindow(end + 1)
  /\ end' = end + 1
  /\ UNCHANGED <<events, rule, waiting, group, start, reports>>

(* Mutant of Report: the scan goes on inside the cluster. *)
ReportAndSlide ==
  /\ rule \in Rule /\ Scanning
  /\ ~WithinWindow(end + 1)
  /\ ClusterSize >= Threshold[rule]
  /\ reports' = Append(reports, [rule |-> rule, events |-> SubSeq(group, start, end)])
  /\ start' = start + 1
  /\ end' = start + 1
  /\ UNCHANGED <<events, rule, waiting, group>>

Report ==
  /\ rule \in Rule /\ Scanning
  /\ ~WithinWindow(end + 1)
  /\ ClusterSize >= Threshold[rule]
  /\ reports' = Append(reports, [rule |-> rule, events |-> SubSeq(group, start, end)])
  /\ start' = end + 1
  /\ end' = end + 1
  /\ UNCHANGED <<events, rule, waiting, group>>

(* Mutant of Slide: the events of a run that is too short are skipped. *)
SlidePastRun ==
  /\ rule \in Rule /\ Scanning
  /\ ~WithinWindow(end + 1)
  /\ ClusterSize < Threshold[rule]
  /\ start' = end + 1
  /\ end' = end + 1
  /\ UNCHANGED <<events, rule, waiting, group, reports>>

(* Mutant of Slide: the scan tries the same event again. *)
SlideInPlace ==
  /\ rule \in Rule /\ Scanning
  /\ ~WithinWindow(end + 1)
  /\ ClusterSize < Threshold[rule]
  /\ end' = start
  /\ UNCHANGED <<events, rule, waiting, group, start, reports>>

Slide ==
  /\ rule \in Rule /\ Scanning
  /\ ~WithinWindow(end + 1)
  /\ ClusterSize < Threshold[rule]
  /\ start' = start + 1
  /\ end' = start + 1
  /\ UNCHANGED <<events, rule, waiting, group, reports>>

(* The next of the rules in the order of analyze(), or it returns. *)
NextRule ==
  /\ rule \in Rule /\ ~Scanning
  /\ waiting = {}
  /\ rule' = rule + 1
  /\ waiting' = {events[i].ecu : i \in Position}
  /\ group' = <<>>
  /\ start' = 1
  /\ end' = 1
  /\ UNCHANGED <<events, reports>>

Next == NextGroup \/ Extend \/ Report \/ Slide \/ NextRule

Spec == Init /\ [][Next]_vars

=============================================================================
