--------------------- MODULE ResilienceScenarioProperties ---------------------
(***************************************************************************)
(* What a verdict of the resilience scenario is worth.                     *)
(***************************************************************************)
EXTENDS ResilienceScenario

Arrivals(e) == {i \in DOMAIN arrivals : arrivals[i] = e}

(* A run is reported as passed only if what it set out to show did happen, *)
(* told from the broker's and the table's state and not from the records   *)
(* _verify() looks at (resilience_demo.py 435-497): every event accepted   *)
(* reached the broker, no row was dropped or left behind, and apart from   *)
(* copies an event arrived before those accepted after it on its topic:    *)
(* its first arrival precedes their last one.                              *)
PassIsEarned ==
  result = "passed" =>
    /\ \A e \in 1 .. accepted : received[e] >= 1
    /\ overflowed = {}
    /\ table = EmptyTable
    /\ \A d, e \in 1 .. accepted :
         d < e /\ Topic(d) = Topic(e) => First(Arrivals(d)) < Last(Arrivals(e))

(* The other way round: a run whose connection suffered nothing but the    *)
(* scenario's own outage, and whose frames were all valid, is never failed *)
(* by _verify(): its checks hold for every moment at which the outage hits *)
(* the gateway's thread and every moment at which it is found to be over.  *)
QuietRunPasses ==
  result = "verification" => faults > 1 \/ ~ThreadEnded \/ metrics.rejected > 0

=============================================================================
