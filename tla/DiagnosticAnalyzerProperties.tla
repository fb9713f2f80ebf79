-------------------- MODULE DiagnosticAnalyzerProperties --------------------
(***************************************************************************)
(* What the analyzer's reports say about the list they were made from,     *)
(* stated without the scan and its order.                                  *)
(***************************************************************************)
EXTENDS DiagnosticAnalyzer

(* The events of a report, and those of every report of a rule. *)
EventsOf(report) == {report.events[k] : k \in DOMAIN report.events}
Reported(r) == UNION {EventsOf(reports[k]) : k \in {l \in DOMAIN reports : reports[l].rule = r}}

(* The events all match the rule, for one ECU, and lie within its window.  *)
IsBurst(r, S) ==
  /\ \E ecu \in ECU : S \subseteq Matching(r, ecu)
  /\ \A i, j \in S : events[i].time - events[j].time <= Window[r]
  /\ Cardinality(S) >= Threshold[r]

(* Nothing is reported that is not a burst: never two ECUs in one report,  *)
(* never events further apart than the window, never fewer than the        *)
(* threshold, whatever order the list was in (_group_by_ecu(),             *)
(* _cluster_by_window()).                                                  *)
ReportsAreBursts ==
  \A k \in DOMAIN reports : IsBurst(reports[k].rule, EventsOf(reports[k]))

(* "Exactly one AnomalyReport, not one per event in it": a rule reports an *)
(* event once, within a report and between them.                           *)
EventsReportedOnce ==
  /\ \A k \in DOMAIN reports : \A x, y \in DOMAIN reports[k].events :
       reports[k].events[x] = reports[k].events[y] => x = y
  /\ \A k, l \in DOMAIN reports :
       k # l /\ reports[k].rule = reports[l].rule
         => EventsOf(reports[k]) \cap EventsOf(reports[l]) = {}

(* A report leaves nothing out: a matching event of its ECU within the     *)
(* window of its first event is in it, or in an earlier report of the rule *)
(* ("a maximal run", docs/analyzer-spec.md).                               *)
ReportsAreMaximal ==
  \A k \in DOMAIN reports :
    LET r == reports[k].rule
        first == events[reports[k].events[1]]
    IN \A i \in Matching(r, first.ecu) :
         first.time <= events[i].time /\ events[i].time - first.time <= Window[r]
           => \E l \in 1 .. k : reports[l].rule = r /\ i \in EventsOf(reports[l])

(* No burst goes unnoticed: when a rule is through, every set of events    *)
(* that makes a burst has an event in one of its reports, although the     *)
(* greedy scan looks at windows that begin at an unreported event only.    *)
NoBurstGoesUnnoticed ==
  \A r \in Rule : r < rule =>
    \A S \in SUBSET Position : IsBurst(r, S) => S \cap Reported(r) # {}

(* The scan ends: analyze() returns. *)
FairSpec == Spec /\ WF_vars(Next)
AnalysisEnds == <>(rule = 4)

=============================================================================
