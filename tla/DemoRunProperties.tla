--------------------------- MODULE DemoRunProperties ---------------------------
(***************************************************************************)
(* What a run of run_demo.py promises about its events and its last log    *)
(* line.                                                                   *)
(***************************************************************************)
EXTENDS DemoRun

(* However a run ends, by a write that fails in the middle of enqueue() or *)
(* by a main() that closes everything under a late thread, every accepted  *)
(* event is acknowledged, in the table (or trimmed from it), or the one    *)
(* event the thread had in hand (gateway.py 123-134, run_demo.py 125-143). *)
LosesAtMostOne ==
  /\ accepted = count["processed"] + stored + Hand + lost
  /\ lost <= 1
  /\ lost = 1 => diskFailed \/ late

(* If the gateway's thread ended before main() stopped waiting for it, the *)
(* "demo stopped" line accounts for every event: it was processed or it    *)
(* failed, a failed one that is not buffered is lost; and unless a write   *)
(* failed, the rows left are those an earlier run left and those buffered, *)
(* less those dropped and replayed, and are what the next run will find    *)
(* (run_demo.py 137-142, buffer.py 136).                                   *)
SummaryIsExact ==
  still # -1 /\ ~late =>
    /\ summary["processed"] + summary["publish_failures"] = accepted
    /\ summary["publish_failures"] = summary["buffered"] + lost
    /\ still = rows
    /\ ~diskFailed =>
         still + summary["dropped"] + summary["replayed"] = startRows + summary["buffered"]

==============================================================================
