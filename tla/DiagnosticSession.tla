-------------------------- MODULE DiagnosticSession --------------------------
(***************************************************************************)
(* The dashboard's UDS sessions (dashboard/backend/controls.py,            *)
(* start_diagnostics(), _run_diagnostics() and run_uds_session()) and the  *)
(* server they talk to (simulation/uds/uds_server.py).                     *)
(*                                                                         *)
(* A session has two threads: the tester's, which sends a fixed script of  *)
(* requests one after the other, and the server's, which answers each and  *)
(* then appends a DiagnosticEvent to a list both can see.  The tester ends *)
(* the server, takes the list and has the analyzer's rules look at it.     *)
(*                                                                         *)
(* ISO-TP and udsoncan's client are external: a request sent is received,  *)
(* an answer sent arrives, and a tester that waits may give up before it   *)
(* does.  A session's buses are shut down before its tester's thread ends, *)
(* so frames never pass from one session to another.                       *)
(***************************************************************************)
EXTENDS Integers, Sequences, FiniteSets

CONSTANTS
  Script,       (* the requests run_uds_session() sends                    *)
  Threshold,    (* threshold of each of ALL_RULES                          *)
  MaxSessions   (* Bound: sessions started.                                *)

(* The requests the script is made of, by what the server looks at.        *)
Request == {"extendedSession", "vin", "speed", "rpm", "dtcs", "unknownDid"}

Rule == 1 .. 3  (* negative responses, DTC queries, P0217                  *)

ASSUME ScriptAssumption == Script \in Seq(Request)
ASSUME ThresholdAssumption == Threshold \in [Rule -> Nat \ {0}]
ASSUME SessionsAssumption == MaxSessions \in Nat \ {0}

VARIABLES
  session,      (* sessions started so far; the last one is the only one   *)
                (* whose tester may be alive                               *)
  tester,       (* where the tester's thread is                            *)
  sent,         (* requests it sent in this session                        *)
  answered,     (* answers it got                                          *)
  raised,       (* an exception left its script                            *)
  request,      (* a request is on its way to the server                   *)
  response,     (* an answer is on its way to the tester                   *)
  server,       (* of each session: where its server's thread is           *)
  stop,         (* of each session: the stop event is set                  *)
  handled,      (* of each session: requests handle_request() returned for *)
  events,       (* of each session: the list on_event appends to           *)
  late,         (* of each session: the join of the server timed out       *)
  result,       (* the list run_uds_session() returned                     *)
  diagnostics   (* what set_diagnostics() stored                           *)

testerVars == <<session, tester, sent, answered, raised, result, diagnostics>>
serverVars == <<server, handled, events>>
wire == <<request, response>>
vars == <<testerVars, serverVars, wire, stop, late>>

Session == 1 .. MaxSessions

(* handle_request(): the tester's unknown identifier is out of range, all  *)
(* other requests of the script are supported, the live values too since   *)
(* the server has a powertrain ECU to read them from.  Reading the DTCs    *)
(* lists both static ones, P0217 among them.                               *)
HandleRequest(kind) ==
  [request |-> kind, positive |-> kind # "unknownDid",
   dtc |-> kind = "dtcs", p0217 |-> kind = "dtcs"]

Event == [request : Request, positive : BOOLEAN, dtc : BOOLEAN, p0217 : BOOLEAN]

(* What a rule looks for in an event. *)
Matches(rule, event) ==
  \/ rule = 1 /\ ~event.positive
  \/ rule = 2 /\ event.dtc
  \/ rule = 3 /\ event.dtc /\ event.positive /\ event.p0217

(* The rules with a finding in a list.  All its events lie in one window:  *)
(* each took at most the tester's two seconds, a window has sixty.         *)
Findings(list) ==
  {rule \in Rule :
     Cardinality({i \in DOMAIN list : Matches(rule, list[i])}) >= Threshold[rule]}

(* What set_diagnostics() is given when there is nothing to show. *)
EmptyReport(status, n) == [status |-> status, session |-> n, events |-> <<>>, findings |-> {}]

TypeOK ==
  /\ session \in 0 .. MaxSessions
  /\ tester \in {"none", "opening", "script", "waiting", "polling", "stopping",
                 "joining", "storing", "reporting", "dead"}
  /\ sent \in 0 .. Len(Script)
  /\ answered \in 0 .. Len(Script)
  /\ raised \in BOOLEAN
  /\ request \in BOOLEAN
  /\ response \in BOOLEAN
  /\ server \in [Session -> {"none", "receiving", "answering", "recording", "ended"}]
  /\ stop \in [Session -> BOOLEAN]
  /\ handled \in [Session -> 0 .. Len(Script)]
  /\ events \in [Session -> Seq(Event)]
  /\ late \in [Session -> BOOLEAN]
  /\ result \in Seq(Event)
  /\ diagnostics \in [status : {"not run", "running", "completed", "failed"},
                      session : 0 .. MaxSessions, events : Seq(Event), findings : SUBSET Rule]

Init ==
  /\ session = 0
  /\ tester = "none"
  /\ sent = 0
  /\ answered = 0
  /\ raised = FALSE
  /\ request = FALSE
  /\ response = FALSE
  /\ server = [s \in Session |-> "none"]
  /\ stop = [s \in Session |-> FALSE]
  /\ handled = [s \in Session |-> 0]
  /\ events = [s \in Session |-> <<>>]
  /\ late = [s \in Session |-> FALSE]
  /\ result = <<>>
  /\ diagnostics = EmptyReport("not run", 0)

-----------------------------------------------------------------------------
(* The tester.                                                             *)

(* start_diagnostics(), under the controller's lock: refused while the     *)
(* thread of the last session is alive.                                    *)
StartDiagnostics ==
  /\ tester \in {"none", "dead"}
  /\ session < MaxSessions
  /\ session' = session + 1
  /\ diagnostics' = EmptyReport("running", session + 1)
  /\ tester' = "opening"
  /\ UNCHANGED <<sent, answered, raised, result, serverVars, wire, stop, late>>

(* run_uds_session(): two buses, a server and its thread. *)
OpenSession ==
  /\ tester = "opening"
  /\ tester' = "script"
  /\ sent' = 0
  /\ answered' = 0
  /\ raised' = FALSE
  /\ request' = FALSE
  /\ response' = FALSE
  /\ server' = [server EXCEPT ![session] = "receiving"]
  /\ UNCHANGED <<session, result, diagnostics, handled, events, stop, late>>

SendRequest ==
  /\ tester = "script"
  /\ sent < Len(Script)
  /\ sent' = sent + 1
  /\ request' = TRUE
  /\ tester' = "waiting"
  /\ UNCHANGED <<session, answered, raised, result, diagnostics, response, serverVars, stop, late>>

(* A positive answer, or the negative one that is suppressed. *)
GetAnswer ==
  /\ tester = "waiting"
  /\ response
  /\ answered' = answered + 1
  /\ response' = FALSE
  /\ tester' = "script"
  /\ UNCHANGED <<session, sent, raised, result, diagnostics, request, serverVars, stop, late>>

(* udsoncan's TimeoutException ends the script. *)
GiveUp ==
  /\ tester = "waiting"
  /\ raised' = TRUE
  /\ tester' = "stopping"
  /\ UNCHANGED <<session, sent, answered, result, diagnostics, wire, serverVars, stop, late>>

FinishScript ==
  /\ tester = "script"
  /\ sent = Len(Script)
  /\ tester' = "polling"
  /\ UNCHANGED <<session, sent, answered, raised, result, diagnostics, wire, serverVars, stop, late>>

(* The list has as many events as were expected, or the deadline passed.   *)
StopPolling ==
  /\ tester = "polling"
  /\ tester' = "stopping"
  /\ UNCHANGED <<session, sent, answered, raised, result, diagnostics, wire, serverVars, stop, late>>

(* Mutant of StopServer: the stop event is forgotten. *)
LeaveServer ==
  /\ tester = "stopping"
  /\ tester' = "joining"
  /\ UNCHANGED <<session, sent, answered, raised, result, diagnostics, wire, serverVars, stop, late>>

StopServer ==
  /\ tester = "stopping"
  /\ stop' = [stop EXCEPT ![session] = TRUE]
  /\ tester' = "joining"
  /\ UNCHANGED <<session, sent, answered, raised, result, diagnostics, wire, serverVars, late>>

(* Mutant of CloseSession: nobody waits for the server. *)
CloseSessionAtOnce ==
  /\ tester = "joining"
  /\ result' = events[session]
  /\ request' = FALSE
  /\ response' = FALSE
  /\ tester' = "storing"
  /\ UNCHANGED <<session, sent, answered, raised, diagnostics, serverVars, stop, late>>

(* The join of the server's thread returns, because it ended or after its  *)
(* timeout; the buses go down with the frames on them, and the caller gets *)
(* the list as it is then.                                                 *)
CloseSession ==
  /\ tester = "joining"
  /\ late' = [late EXCEPT ![session] = server[session] # "ended"]
  /\ result' = events[session]
  /\ request' = FALSE
  /\ response' = FALSE
  /\ tester' = "storing"
  /\ UNCHANGED <<session, sent, answered, raised, diagnostics, serverVars, stop>>

(* _run_diagnostics() stores the list with what the rules find in it ...   *)
StoreResult ==
  /\ tester = "storing"
  /\ ~raised
  /\ diagnostics' = [status |-> "completed", session |-> session,
                     events |-> result, findings |-> Findings(result)]
  /\ tester' = "reporting"
  /\ UNCHANGED <<session, sent, answered, raised, result, wire, serverVars, stop, late>>

(* ... or the exception. *)
StoreFailure ==
  /\ tester = "storing"
  /\ raised
  /\ diagnostics' = EmptyReport("failed", session)
  /\ tester' = "reporting"
  /\ UNCHANGED <<session, sent, answered, raised, result, wire, serverVars, stop, late>>

ReportActivity ==
  /\ tester = "reporting"
  /\ tester' = "dead"
  /\ UNCHANGED <<session, sent, answered, raised, result, diagnostics, wire, serverVars, stop, late>>

TesterProceeds ==
  \/ OpenSession
  \/ SendRequest
  \/ GetAnswer
  \/ GiveUp
  \/ FinishScript
  \/ StopPolling
  \/ StopServer
  \/ CloseSession
  \/ StoreResult
  \/ StoreFailure
  \/ ReportActivity

-----------------------------------------------------------------------------
(* The server's thread of session s, run_server().                         *)

(* recv() returns the request and handle_request() its answer and event.   *)
ReceiveRequest(s) ==
  /\ server[s] = "receiving"
  /\ s = session
  /\ request
  /\ request' = FALSE
  /\ handled' = [handled EXCEPT ![s] = @ + 1]
  /\ server' = [server EXCEPT ![s] = "answering"]
  /\ UNCHANGED <<testerVars, response, events, stop, late>>

(* send(): an answer the tester no longer waits for is of no use. *)
SendAnswer(s) ==
  /\ server[s] = "answering"
  /\ response' = (response \/ (s = session /\ tester = "waiting"))
  /\ server' = [server EXCEPT ![s] = "recording"]
  /\ UNCHANGED <<testerVars, request, handled, events, stop, late>>

(* Mutant of RecordEvent: requests that were refused leave no event. *)
RecordPositive(s) ==
  LET event == HandleRequest(Script[handled[s]])
  IN /\ server[s] = "recording"
     /\ events' = [events EXCEPT ![s] = IF event.positive THEN Append(@, event) ELSE @]
     /\ server' = [server EXCEPT ![s] = "receiving"]
     /\ UNCHANGED <<testerVars, wire, handled, stop, late>>

(* on_event appends the event of the request handled last. *)
RecordEvent(s) ==
  /\ server[s] = "recording"
  /\ events' = [events EXCEPT ![s] = Append(@, HandleRequest(Script[handled[s]]))]
  /\ server' = [server EXCEPT ![s] = "receiving"]
  /\ UNCHANGED <<testerVars, wire, handled, stop, late>>

(* Between two requests the loop finds the stop event set. *)
EndServer(s) ==
  /\ server[s] = "receiving"
  /\ stop[s]
  /\ server' = [server EXCEPT ![s] = "ended"]
  /\ UNCHANGED <<testerVars, wire, handled, events, stop, late>>

ServerProceeds(s) ==
  ReceiveRequest(s) \/ SendAnswer(s) \/ RecordEvent(s) \/ EndServer(s)

-----------------------------------------------------------------------------

Next ==
  \/ StartDiagnostics
  \/ TesterProceeds
  \/ \E s \in Session : ServerProceeds(s)

Spec == Init /\ [][Next]_vars

=============================================================================
