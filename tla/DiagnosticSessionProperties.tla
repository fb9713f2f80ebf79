--------------------- MODULE DiagnosticSessionProperties ---------------------
(***************************************************************************)
(* What the dashboard's UDS sessions promise whatever the order of the     *)
(* tester's and the servers' threads.                                      *)
(***************************************************************************)
EXTENDS DiagnosticSession

(* The events of the first n requests of the script. *)
Transcript(n) == [i \in 1 .. n |-> HandleRequest(Script[i])]

(* Every request a server handled leaves its event, in the order of the    *)
(* script, and only the request being handled may lack it.  The answer     *)
(* leaves before the event is recorded, so the tester may hold one answer  *)
(* more than there are events, and never two: run_server(), and the wait   *)
(* for the list to fill up in run_uds_session().                           *)
EventPerTransaction ==
  /\ \A s \in Session :
       /\ events[s] = Transcript(Len(events[s]))
       /\ handled[s] - Len(events[s]) = (IF server[s] \in {"answering", "recording"} THEN 1 ELSE 0)
  /\ session > 0 /\ tester # "opening" =>
       /\ answered <= handled[session] /\ handled[session] <= sent
       /\ answered <= Len(events[session]) + 1

(* A session reported as completed whose server ended in time shows the    *)
(* whole script, and the findings of the whole script: what on_event still *)
(* had to record when the answers were in is not missing.                  *)
CompletedIsWhole ==
  diagnostics.status = "completed" /\ ~late[diagnostics.session] =>
    /\ diagnostics.events = Transcript(Len(Script))
    /\ diagnostics.findings = Findings(Transcript(Len(Script)))

(* Threads run; run_server() looks at the stop event between requests.     *)
FairSpec ==
  /\ Spec
  /\ WF_vars(TesterProceeds)
  /\ \A s \in Session : WF_vars(ServerProceeds(s))

(* A session that was started reports completed or failed and its server's *)
(* thread ends, also after an answer that did not come or a join that      *)
(* timed out: the finally of run_uds_session().                            *)
SessionsEnd ==
  \A s \in Session :
    session = s ~> /\ server[s] = "ended"
                   /\ session = s => tester = "dead" /\ diagnostics.status \in {"completed", "failed"}

=============================================================================
