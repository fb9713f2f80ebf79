----------------------- MODULE DiagnosticSessionProofs -----------------------
(***************************************************************************)
(* The dashboard's UDS sessions, for every script, any thresholds and any  *)
(* number of sessions: the events are a transcript of the script, and a    *)
(* completed session whose server ended in time shows all of it.           *)
(***************************************************************************)
EXTENDS DiagnosticSessionProperties, SequenceTheorems, TLAPS

(* The tester's thread is past the opening of its session. *)
Opened == session > 0 /\ tester # "opening"

(* Its script is over. *)
Over == tester \in {"polling", "stopping", "joining", "storing", "reporting", "dead"}

(* Sessions that were not opened have left nothing behind. *)
Untouched ==
  /\ tester = "none" <=> session = 0
  /\ \A s \in Session :
       s > session \/ (s = session /\ tester = "opening") =>
         server[s] = "none" /\ events[s] = <<>> /\ handled[s] = 0

(* The events of a session are the transcript of what its server handled.  *)
Transcribed ==
  \A s \in Session :
    /\ events[s] = Transcript(Len(events[s]))
    /\ handled[s] - Len(events[s]) = (IF server[s] \in {"answering", "recording"} THEN 1 ELSE 0)

(* How far the tester and its server may be apart: a request on its way is *)
(* not handled yet, an answer on its way was not counted yet, and a script *)
(* that ended without an exception had all its answers.                    *)
InStep ==
  Opened =>
    /\ answered <= handled[session] /\ handled[session] <= sent
    /\ request => handled[session] < sent
    /\ tester = "script" =>
         /\ ~raised /\ ~request /\ ~response
         /\ answered = sent /\ server[session] # "answering"
    /\ tester = "waiting" =>
         /\ ~raised
         /\ answered = sent - 1
         /\ request => ~response /\ server[session] # "answering"
         /\ ~request => handled[session] = sent
         /\ response => ~request /\ server[session] # "answering"
    /\ Over /\ ~raised => answered = Len(Script) /\ sent = Len(Script)

(* What a session returned and what is reported of it. *)
Reported ==
  /\ diagnostics.session = session
  /\ tester \notin {"none", "reporting", "dead"} => diagnostics.status = "running"
  /\ tester = "storing" /\ ~raised /\ ~late[session] => result = Transcript(Len(Script))
  /\ CompletedIsWhole

IInv == TypeOK /\ Untouched /\ Transcribed /\ InStep /\ Reported

-----------------------------------------------------------------------------
(* The transcript of the first n requests is a list of events, one longer  *)
(* than the transcript of the first n - 1: handle_request() and on_event.  *)
LEMMA TranscriptGrows ==
  ASSUME NEW n \in 0 .. Len(Script)
  PROVE  /\ Transcript(n) \in Seq(Event)
         /\ Len(Transcript(n)) = n
         /\ n < Len(Script) =>
              Append(Transcript(n), HandleRequest(Script[n + 1])) = Transcript(n + 1)
<1>1. \A i \in 1 .. Len(Script) : HandleRequest(Script[i]) \in Event
  BY ScriptAssumption DEF HandleRequest, Event
<1>2. Transcript(n) \in Seq(Event) /\ Len(Transcript(n)) = n
  BY <1>1, ScriptAssumption DEF Transcript
<1>3. ASSUME n < Len(Script)
      PROVE  Append(Transcript(n), HandleRequest(Script[n + 1])) = Transcript(n + 1)
  BY <1>3, <1>1, ScriptAssumption DEF Transcript
<1> QED BY <1>2, <1>3

(* The rules of the analyzer name a set of rules: DiagnosticAnalyzer. *)
LEMMA FindingsAreRules == \A list : Findings(list) \in SUBSET Rule
BY DEF Findings

(* What set_diagnostics() is given is a report. *)
Report == [status : {"not run", "running", "completed", "failed"},
           session : 0 .. MaxSessions, events : Seq(Event), findings : SUBSET Rule]

(* What is stored of a session that has no result is a report. *)
LEMMA EmptyIsReport ==
  ASSUME NEW status \in {"not run", "running", "failed"}, NEW n \in 0 .. MaxSessions
  PROVE  /\ EmptyReport(status, n) \in Report
         /\ EmptyReport(status, n).status = status
         /\ EmptyReport(status, n).session = n
<1>1. <<>> \in Seq(Event)
  BY EmptySeq
<1>2. {} \in SUBSET Rule
  OBVIOUS
<1>3. \A list \in Seq(Event), found \in SUBSET Rule :
        [status |-> status, session |-> n, events |-> list, findings |-> found] \in Report
  BY DEF Report
<1> QED BY <1>1, <1>2, <1>3 DEF EmptyReport

(* So is what is stored of a completed one. *)
LEMMA FullReport ==
  ASSUME NEW n \in 0 .. MaxSessions, NEW list \in Seq(Event), NEW found \in SUBSET Rule
  PROVE  [status |-> "completed", session |-> n, events |-> list, findings |-> found] \in Report
BY DEF Report

(* Nothing was started when the controller is created. *)
LEMMA InitEstablishes == Init => IInv
<1> SUFFICES ASSUME Init PROVE IInv
  OBVIOUS
<1>1. TypeOK
  <2>1. 0 \in 0 .. Len(Script) /\ 0 \in 0 .. MaxSessions
    BY ScriptAssumption, SessionsAssumption
  <2>2. <<>> \in Seq(Event)
    BY EmptySeq
  <2>3. diagnostics \in Report
    BY <2>1, EmptyIsReport DEF Init
  <2> QED BY <2>1, <2>2, <2>3 DEF TypeOK, Report, Init
<1>2. Untouched
  BY SessionsAssumption DEF Untouched, Session, Init
<1>3. Transcribed
  <2>1. 0 \in 0 .. Len(Script)
    BY ScriptAssumption
  <2>2. Transcript(0) \in Seq(Event) /\ Len(Transcript(0)) = 0
    BY <2>1, TranscriptGrows
  <2>3. Transcript(0) = <<>>
    BY <2>2, EmptySeq
  <2>4. Len(<<>>) = 0
    BY EmptySeq
  <2>5. \A s \in Session : events[s] = <<>> /\ handled[s] = 0 /\ server[s] = "none"
    BY DEF Init
  <2> SUFFICES ASSUME NEW s \in Session
               PROVE  /\ events[s] = Transcript(Len(events[s]))
                      /\ handled[s] - Len(events[s]) =
                           (IF server[s] \in {"answering", "recording"} THEN 1 ELSE 0)
    BY DEF Transcribed
  <2>6. events[s] = Transcript(0) /\ Len(events[s]) = 0
    BY <2>3, <2>4, <2>5
  <2> QED BY <2>5, <2>6
<1>4. InStep
  <2>1. session = 0
    BY DEF Init
  <2>2. ~(session > 0)
    BY <2>1
  <2> QED BY <2>2 DEF InStep, Opened
<1>5. Reported
  BY EmptyIsReport DEF Reported, EmptyReport, CompletedIsWhole, Init
<1> QED BY <1>1, <1>2, <1>3, <1>4, <1>5 DEF IInv

(* What the steps' proofs use of the types. *)
LEMMA Typed ==
  ASSUME IInv
  PROVE  /\ TypeOK /\ Untouched /\ Transcribed /\ InStep /\ Reported
         /\ Len(Script) \in Nat
         /\ session \in 0 .. MaxSessions
         /\ sent \in 0 .. Len(Script)
         /\ answered \in 0 .. Len(Script)
         /\ handled \in [Session -> 0 .. Len(Script)]
         /\ events \in [Session -> Seq(Event)]
         /\ DOMAIN server = Session
         /\ DOMAIN late = Session
         /\ tester # "none" => session \in Session
<1>1. TypeOK /\ Untouched /\ Transcribed /\ InStep /\ Reported
  BY DEF IInv
<1>2. Len(Script) \in Nat
  BY ScriptAssumption
<1>3. session \in 0 .. MaxSessions
  BY <1>1 DEF TypeOK
<1>4. sent \in 0 .. Len(Script)
  BY <1>1 DEF TypeOK
<1>5. answered \in 0 .. Len(Script)
  BY <1>1 DEF TypeOK
<1>6. handled \in [Session -> 0 .. Len(Script)]
  BY <1>1 DEF TypeOK
<1>7. events \in [Session -> Seq(Event)]
  BY <1>1 DEF TypeOK
<1>8. DOMAIN server = Session /\ DOMAIN late = Session
  BY <1>1 DEF TypeOK
<1>9. tester # "none" => session \in Session
  BY <1>1, <1>3, SessionsAssumption DEF Untouched, Session
<1> QED BY <1>1, <1>2, <1>3, <1>4, <1>5, <1>6, <1>7, <1>8, <1>9

(* One step of the user, the tester or a server keeps the invariant. *)
LEMMA StepPreserves == IInv /\ [Next]_vars => IInv'
<1> SUFFICES ASSUME IInv, [Next]_vars PROVE IInv'
  OBVIOUS
<1>t. TypeOK
  BY Typed
<1>u. Untouched
  BY Typed
<1>e. Transcribed
  BY Typed
<1>i. InStep
  BY Typed
<1>r. Reported
  BY Typed
<1>l. Len(Script) \in Nat
  BY Typed
<1>c. /\ session \in 0 .. MaxSessions
      /\ sent \in 0 .. Len(Script)
      /\ answered \in 0 .. Len(Script)
      /\ tester # "none" => session \in Session
  BY Typed
<1>h. handled \in [Session -> 0 .. Len(Script)]
  BY Typed
<1>v. events \in [Session -> Seq(Event)]
  BY Typed
<1>d. DOMAIN server = Session /\ DOMAIN late = Session
  BY Typed
<1>1. CASE StartDiagnostics
  <2>1. TypeOK'
    <3>1. session' \in 0 .. MaxSessions
      BY <1>1, <1>c, SessionsAssumption DEF StartDiagnostics, testerVars, serverVars, wire
    <3>2. diagnostics' \in Report
      BY <1>1, <3>1, EmptyIsReport DEF StartDiagnostics, testerVars, serverVars, wire
    <3> QED BY <1>1, <1>t, <3>1, <3>2 DEF TypeOK, Report, StartDiagnostics, testerVars, serverVars, wire
  <2>2. Untouched'
    BY <1>1, <1>u, <1>c, <1>h, <1>v, <1>d, <1>i DEF Untouched, InStep, Opened, Session, StartDiagnostics, testerVars, serverVars, wire
  <2>3. Transcribed'
    BY <1>1, <1>e, <1>c, <1>h, <1>v, <1>d DEF Transcribed, StartDiagnostics, testerVars, serverVars, wire
  <2>4. InStep'
    BY <1>1, <1>i, <1>u, <1>c, <1>h, <1>l, <1>d DEF InStep, Opened, Over, Untouched, StartDiagnostics, testerVars, serverVars, wire
  <2>5. Reported'
    BY <1>1, <1>r, <1>u, <1>c DEF Reported, CompletedIsWhole, Untouched, EmptyReport, StartDiagnostics, testerVars, serverVars, wire
  <2> QED BY <2>1, <2>2, <2>3, <2>4, <2>5 DEF IInv
<1>2. CASE OpenSession
  <2>1. TypeOK'
    <3>1. sent' \in 0 .. Len(Script) /\ answered' \in 0 .. Len(Script)
      BY <1>2, <1>l DEF OpenSession, testerVars, serverVars, wire
    <3> QED BY <1>2, <1>t, <3>1 DEF TypeOK, OpenSession, testerVars, serverVars, wire
  <2>2. Untouched'
    BY <1>2, <1>u, <1>c, <1>h, <1>v, <1>d, <1>i DEF Untouched, InStep, Opened, Session, OpenSession, testerVars, serverVars, wire
  <2>3. Transcribed'
    BY <1>2, <1>e, <1>u, <1>c, <1>h, <1>v, <1>d DEF Transcribed, Untouched, OpenSession, testerVars, serverVars, wire
  <2>4. InStep'
    BY <1>2, <1>i, <1>u, <1>c, <1>h, <1>l, <1>d DEF InStep, Opened, Over, Untouched, OpenSession, testerVars, serverVars, wire
  <2>5. Reported'
    BY <1>2, <1>r, <1>u, <1>c DEF Reported, CompletedIsWhole, Untouched, EmptyReport, OpenSession, testerVars, serverVars, wire
  <2> QED BY <2>1, <2>2, <2>3, <2>4, <2>5 DEF IInv
<1>3. CASE SendRequest
  <2>1. TypeOK'
    <3>1. sent' \in 0 .. Len(Script)
      BY <1>3, <1>l, <1>c DEF SendRequest, testerVars, serverVars, wire
    <3> QED BY <1>3, <1>t, <3>1 DEF TypeOK, SendRequest, testerVars, serverVars, wire
  <2>2. Untouched'
    BY <1>3, <1>u, <1>c, <1>h, <1>v, <1>d, <1>i DEF Untouched, InStep, Opened, Session, SendRequest, testerVars, serverVars, wire
  <2>3. Transcribed'
    BY <1>3, <1>e, <1>c, <1>h, <1>v, <1>d DEF Transcribed, SendRequest, testerVars, serverVars, wire
  <2>4. InStep'
    BY <1>3, <1>i, <1>u, <1>c, <1>h, <1>l, <1>d DEF InStep, Opened, Over, Untouched, SendRequest, testerVars, serverVars, wire
  <2>5. Reported'
    BY <1>3, <1>r, <1>u, <1>c DEF Reported, CompletedIsWhole, Untouched, EmptyReport, SendRequest, testerVars, serverVars, wire
  <2> QED BY <2>1, <2>2, <2>3, <2>4, <2>5 DEF IInv
<1>4. CASE GetAnswer
  <2>1. TypeOK'
    <3>1. answered' \in 0 .. Len(Script)
      BY <1>4, <1>l, <1>c, <1>u, <1>i, <1>h DEF Untouched, InStep, Opened, GetAnswer, testerVars, serverVars, wire
    <3> QED BY <1>4, <1>t, <3>1 DEF TypeOK, GetAnswer, testerVars, serverVars, wire
  <2>2. Untouched'
    BY <1>4, <1>u, <1>c, <1>h, <1>v, <1>d, <1>i DEF Untouched, InStep, Opened, Session, GetAnswer, testerVars, serverVars, wire
  <2>3. Transcribed'
    BY <1>4, <1>e, <1>c, <1>h, <1>v, <1>d DEF Transcribed, GetAnswer, testerVars, serverVars, wire
  <2>4. InStep'
    BY <1>4, <1>i, <1>u, <1>c, <1>h, <1>l, <1>d DEF InStep, Opened, Over, Untouched, GetAnswer, testerVars, serverVars, wire
  <2>5. Reported'
    BY <1>4, <1>r, <1>u, <1>c DEF Reported, CompletedIsWhole, Untouched, EmptyReport, GetAnswer, testerVars, serverVars, wire
  <2> QED BY <2>1, <2>2, <2>3, <2>4, <2>5 DEF IInv
<1>5. CASE GiveUp
  <2>1. TypeOK'
    BY <1>5, <1>t DEF TypeOK, GiveUp, testerVars, serverVars, wire
  <2>2. Untouched'
    BY <1>5, <1>u, <1>c, <1>h, <1>v, <1>d, <1>i DEF Untouched, InStep, Opened, Session, GiveUp, testerVars, serverVars, wire
  <2>3. Transcribed'
    BY <1>5, <1>e, <1>c, <1>h, <1>v, <1>d DEF Transcribed, GiveUp, testerVars, serverVars, wire
  <2>4. InStep'
    BY <1>5, <1>i, <1>u, <1>c, <1>h, <1>l, <1>d DEF InStep, Opened, Over, Untouched, GiveUp, testerVars, serverVars, wire
  <2>5. Reported'
    BY <1>5, <1>r, <1>u, <1>c DEF Reported, CompletedIsWhole, Untouched, EmptyReport, GiveUp, testerVars, serverVars, wire
  <2> QED BY <2>1, <2>2, <2>3, <2>4, <2>5 DEF IInv
<1>6. CASE FinishScript
  <2>1. TypeOK'
    BY <1>6, <1>t DEF TypeOK, FinishScript, testerVars, serverVars, wire
  <2>2. Untouched'
    BY <1>6, <1>u, <1>c, <1>h, <1>v, <1>d, <1>i DEF Untouched, InStep, Opened, Session, FinishScript, testerVars, serverVars, wire
  <2>3. Transcribed'
    BY <1>6, <1>e, <1>c, <1>h, <1>v, <1>d DEF Transcribed, FinishScript, testerVars, serverVars, wire
  <2>4. InStep'
    BY <1>6, <1>i, <1>u, <1>c, <1>h, <1>l, <1>d DEF InStep, Opened, Over, Untouched, FinishScript, testerVars, serverVars, wire
  <2>5. Reported'
    BY <1>6, <1>r, <1>u, <1>c DEF Reported, CompletedIsWhole, Untouched, EmptyReport, FinishScript, testerVars, serverVars, wire
  <2> QED BY <2>1, <2>2, <2>3, <2>4, <2>5 DEF IInv
<1>7. CASE StopPolling
  <2>1. TypeOK'
    BY <1>7, <1>t DEF TypeOK, StopPolling, testerVars, serverVars, wire
  <2>2. Untouched'
    BY <1>7, <1>u, <1>c, <1>h, <1>v, <1>d, <1>i DEF Untouched, InStep, Opened, Session, StopPolling, testerVars, serverVars, wire
  <2>3. Transcribed'
    BY <1>7, <1>e, <1>c, <1>h, <1>v, <1>d DEF Transcribed, StopPolling, testerVars, serverVars, wire
  <2>4. InStep'
    BY <1>7, <1>i, <1>u, <1>c, <1>h, <1>l, <1>d DEF InStep, Opened, Over, Untouched, StopPolling, testerVars, serverVars, wire
  <2>5. Reported'
    BY <1>7, <1>r, <1>u, <1>c DEF Reported, CompletedIsWhole, Untouched, EmptyReport, StopPolling, testerVars, serverVars, wire
  <2> QED BY <2>1, <2>2, <2>3, <2>4, <2>5 DEF IInv
<1>8. CASE StopServer
  <2>1. TypeOK'
    BY <1>8, <1>t DEF TypeOK, StopServer, testerVars, serverVars, wire
  <2>2. Untouched'
    BY <1>8, <1>u, <1>c, <1>h, <1>v, <1>d, <1>i DEF Untouched, InStep, Opened, Session, StopServer, testerVars, serverVars, wire
  <2>3. Transcribed'
    BY <1>8, <1>e, <1>c, <1>h, <1>v, <1>d DEF Transcribed, StopServer, testerVars, serverVars, wire
  <2>4. InStep'
    BY <1>8, <1>i, <1>u, <1>c, <1>h, <1>l, <1>d DEF InStep, Opened, Over, Untouched, StopServer, testerVars, serverVars, wire
  <2>5. Reported'
    BY <1>8, <1>r, <1>u, <1>c DEF Reported, CompletedIsWhole, Untouched, EmptyReport, StopServer, testerVars, serverVars, wire
  <2> QED BY <2>1, <2>2, <2>3, <2>4, <2>5 DEF IInv
<1>9. CASE CloseSession
  <2>1. TypeOK'
    <3>1. result' \in Seq(Event)
      BY <1>9, <1>v, <1>c DEF CloseSession, testerVars, serverVars, wire
    <3> QED BY <1>9, <1>t, <3>1 DEF TypeOK, CloseSession, testerVars, serverVars, wire
  <2>2. Untouched'
    BY <1>9, <1>u, <1>c, <1>h, <1>v, <1>d, <1>i DEF Untouched, InStep, Opened, Session, CloseSession, testerVars, serverVars, wire
  <2>3. Transcribed'
    BY <1>9, <1>e, <1>c, <1>h, <1>v, <1>d DEF Transcribed, CloseSession, testerVars, serverVars, wire
  <2>4. InStep'
    BY <1>9, <1>i, <1>u, <1>c, <1>h, <1>l, <1>d DEF InStep, Opened, Over, Untouched, CloseSession, testerVars, serverVars, wire
  <2>5. Reported'
    <3>2. session \in Session
      BY <1>9, <1>c DEF CloseSession
    <3>1. ASSUME ~raised, server[session] = "ended"
          PROVE  events[session] = Transcript(Len(Script))
      <4>1. handled[session] = Len(Script)
        BY <1>9, <3>1, <1>i, <1>u, <1>c, <1>h, <1>l DEF InStep, Opened, Over, Untouched, CloseSession
      <4>2. /\ events[session] = Transcript(Len(events[session]))
            /\ handled[session] - Len(events[session]) = 0
        BY ONLY <3>1, <3>2, <1>e DEF Transcribed
      <4>3. Len(events[session]) = handled[session]
        <5>1. PICK h \in Int, n \in Nat : h = handled[session] /\ n = Len(events[session])
          BY <3>2, <1>h, <1>l, <1>v
        <5> QED BY ONLY <4>2, <5>1
      <4> QED BY <4>1, <4>2, <4>3
    <3>3. late'[session] = (server[session] # "ended") /\ result' = events[session]
      BY <1>9, <3>2, <1>d DEF CloseSession
    <3>4. UNCHANGED <<session, raised, diagnostics>> /\ tester' = "storing" /\ diagnostics.status = "running"
      BY <1>9, <1>r DEF Reported, CloseSession
    <3> QED BY <3>1, <3>3, <3>4, <1>r DEF Reported, CompletedIsWhole
  <2> QED BY <2>1, <2>2, <2>3, <2>4, <2>5 DEF IInv
<1>10. CASE StoreResult
  <2>1. TypeOK'
    <3>1. result \in Seq(Event)
      BY <1>10, <1>t DEF TypeOK, StoreResult, testerVars, serverVars, wire
    <3>2. diagnostics' \in Report
      BY <1>10, <3>1, <1>c, FindingsAreRules, FullReport DEF StoreResult, testerVars, serverVars, wire
    <3> QED BY <1>10, <1>t, <3>1, <3>2 DEF TypeOK, Report, StoreResult, testerVars, serverVars, wire
  <2>2. Untouched'
    BY <1>10, <1>u, <1>c, <1>h, <1>v, <1>d, <1>i DEF Untouched, InStep, Opened, Session, StoreResult, testerVars, serverVars, wire
  <2>3. Transcribed'
    BY <1>10, <1>e, <1>c, <1>h, <1>v, <1>d DEF Transcribed, StoreResult, testerVars, serverVars, wire
  <2>4. InStep'
    BY <1>10, <1>i, <1>u, <1>c, <1>h, <1>l, <1>d DEF InStep, Opened, Over, Untouched, StoreResult, testerVars, serverVars, wire
  <2>5. Reported'
    BY <1>10, <1>r, <1>u, <1>c DEF Reported, CompletedIsWhole, Untouched, EmptyReport, StoreResult, testerVars, serverVars, wire
  <2> QED BY <2>1, <2>2, <2>3, <2>4, <2>5 DEF IInv
<1>11. CASE StoreFailure
  <2>1. TypeOK'
    <3>1. diagnostics' \in Report
      BY <1>11, <1>c, EmptyIsReport DEF StoreFailure, testerVars, serverVars, wire
    <3> QED BY <1>11, <1>t, <3>1 DEF TypeOK, Report, StoreFailure, testerVars, serverVars, wire
  <2>2. Untouched'
    BY <1>11, <1>u, <1>c, <1>h, <1>v, <1>d, <1>i DEF Untouched, InStep, Opened, Session, StoreFailure, testerVars, serverVars, wire
  <2>3. Transcribed'
    BY <1>11, <1>e, <1>c, <1>h, <1>v, <1>d DEF Transcribed, StoreFailure, testerVars, serverVars, wire
  <2>4. InStep'
    BY <1>11, <1>i, <1>u, <1>c, <1>h, <1>l, <1>d DEF InStep, Opened, Over, Untouched, StoreFailure, testerVars, serverVars, wire
  <2>5. Reported'
    BY <1>11, <1>r, <1>u, <1>c DEF Reported, CompletedIsWhole, Untouched, EmptyReport, StoreFailure, testerVars, serverVars, wire
  <2> QED BY <2>1, <2>2, <2>3, <2>4, <2>5 DEF IInv
<1>12. CASE ReportActivity
  <2>1. TypeOK'
    BY <1>12, <1>t DEF TypeOK, ReportActivity, testerVars, serverVars, wire
  <2>2. Untouched'
    BY <1>12, <1>u, <1>c, <1>h, <1>v, <1>d, <1>i DEF Untouched, InStep, Opened, Session, ReportActivity, testerVars, serverVars, wire
  <2>3. Transcribed'
    BY <1>12, <1>e, <1>c, <1>h, <1>v, <1>d DEF Transcribed, ReportActivity, testerVars, serverVars, wire
  <2>4. InStep'
    BY <1>12, <1>i, <1>u, <1>c, <1>h, <1>l, <1>d DEF InStep, Opened, Over, Untouched, ReportActivity, testerVars, serverVars, wire
  <2>5. Reported'
    BY <1>12, <1>r, <1>u, <1>c DEF Reported, CompletedIsWhole, Untouched, EmptyReport, ReportActivity, testerVars, serverVars, wire
  <2> QED BY <2>1, <2>2, <2>3, <2>4, <2>5 DEF IInv
<1>13. ASSUME NEW s \in Session, ReceiveRequest(s) PROVE IInv'
  <2>1. TypeOK'
    <3>1. handled' \in [Session -> 0 .. Len(Script)]
      BY <1>13, <1>l, <1>c, <1>h, <1>u, <1>i, <1>d DEF Untouched, InStep, Opened, ReceiveRequest, testerVars, serverVars, wire
    <3> QED BY <1>13, <1>t, <3>1 DEF TypeOK, ReceiveRequest, testerVars, serverVars, wire
  <2>2. Untouched'
    BY <1>13, <1>u, <1>c, <1>h, <1>v, <1>d, <1>i DEF Untouched, InStep, Opened, Session, ReceiveRequest, testerVars, serverVars, wire
  <2>3. Transcribed'
    BY <1>13, <1>e, <1>c, <1>h, <1>v, <1>d DEF Transcribed, ReceiveRequest, testerVars, serverVars, wire
  <2>4. InStep'
    BY <1>13, <1>i, <1>u, <1>c, <1>h, <1>l, <1>d DEF InStep, Opened, Over, Untouched, ReceiveRequest, testerVars, serverVars, wire
  <2>5. Reported'
    BY <1>13, <1>r, <1>u, <1>c DEF Reported, CompletedIsWhole, Untouched, EmptyReport, ReceiveRequest, testerVars, serverVars, wire
  <2> QED BY <2>1, <2>2, <2>3, <2>4, <2>5 DEF IInv
<1>14. ASSUME NEW s \in Session, SendAnswer(s) PROVE IInv'
  <2>1. TypeOK'
    BY <1>14, <1>t DEF TypeOK, SendAnswer, testerVars, serverVars, wire
  <2>2. Untouched'
    BY <1>14, <1>u, <1>c, <1>h, <1>v, <1>d, <1>i DEF Untouched, InStep, Opened, Session, SendAnswer, testerVars, serverVars, wire
  <2>3. Transcribed'
    BY <1>14, <1>e, <1>c, <1>h, <1>v, <1>d DEF Transcribed, SendAnswer, testerVars, serverVars, wire
  <2>4. InStep'
    BY <1>14, <1>i, <1>u, <1>c, <1>h, <1>l, <1>d DEF InStep, Opened, Over, Untouched, SendAnswer, testerVars, serverVars, wire
  <2>5. Reported'
    BY <1>14, <1>r, <1>u, <1>c DEF Reported, CompletedIsWhole, Untouched, EmptyReport, SendAnswer, testerVars, serverVars, wire
  <2> QED BY <2>1, <2>2, <2>3, <2>4, <2>5 DEF IInv
<1>15. ASSUME NEW s \in Session, RecordEvent(s) PROVE IInv'
  <2>0. /\ handled[s] = Len(events[s]) + 1
        /\ Len(events[s]) \in 0 .. Len(Script) /\ Len(events[s]) < Len(Script)
        /\ events[s] = Transcript(Len(events[s]))
        /\ events'[s] = Append(events[s], HandleRequest(Script[handled[s]]))
        /\ events' = [events EXCEPT ![s] = events'[s]]
    BY <1>15, <1>e, <1>h, <1>v, <1>l DEF Transcribed, RecordEvent
  <2>a. events'[s] = Transcript(Len(events[s]) + 1)
    BY <2>0, TranscriptGrows
  <2>b. events'[s] \in Seq(Event) /\ Len(events'[s]) = Len(events[s]) + 1
    <3>1. Len(events[s]) + 1 \in 0 .. Len(Script)
      BY <2>0, <1>l
    <3> QED BY <3>1, <2>a, TranscriptGrows
  <2>1. TypeOK'
    <3>1. events' \in [Session -> Seq(Event)]
      BY <1>15, <2>0, <2>b, <1>v DEF RecordEvent, testerVars, serverVars, wire
    <3> QED BY <1>15, <1>t, <3>1 DEF TypeOK, RecordEvent, testerVars, serverVars, wire
  <2>2. Untouched'
    BY <1>15, <1>u, <1>c, <1>h, <1>v, <1>d, <1>i DEF Untouched, InStep, Opened, Session, RecordEvent, testerVars, serverVars, wire
  <2>3. Transcribed'
    BY <1>15, <2>0, <2>a, <2>b, <1>e, <1>h, <1>v, <1>d DEF Transcribed, RecordEvent, testerVars, serverVars, wire
  <2>4. InStep'
    BY <1>15, <1>i, <1>u, <1>c, <1>h, <1>l, <1>d DEF InStep, Opened, Over, Untouched, RecordEvent, testerVars, serverVars, wire
  <2>5. Reported'
    BY <1>15, <1>r, <1>u, <1>c DEF Reported, CompletedIsWhole, Untouched, EmptyReport, RecordEvent, testerVars, serverVars, wire
  <2> QED BY <2>1, <2>2, <2>3, <2>4, <2>5 DEF IInv
<1>16. ASSUME NEW s \in Session, EndServer(s) PROVE IInv'
  <2>1. TypeOK'
    BY <1>16, <1>t DEF TypeOK, EndServer, testerVars, serverVars, wire
  <2>2. Untouched'
    BY <1>16, <1>u, <1>c, <1>h, <1>v, <1>d, <1>i DEF Untouched, InStep, Opened, Session, EndServer, testerVars, serverVars, wire
  <2>3. Transcribed'
    BY <1>16, <1>e, <1>c, <1>h, <1>v, <1>d DEF Transcribed, EndServer, testerVars, serverVars, wire
  <2>4. InStep'
    BY <1>16, <1>i, <1>u, <1>c, <1>h, <1>l, <1>d DEF InStep, Opened, Over, Untouched, EndServer, testerVars, serverVars, wire
  <2>5. Reported'
    BY <1>16, <1>r, <1>u, <1>c DEF Reported, CompletedIsWhole, Untouched, EmptyReport, EndServer, testerVars, serverVars, wire
  <2> QED BY <2>1, <2>2, <2>3, <2>4, <2>5 DEF IInv
<1>17. CASE UNCHANGED vars
  <2>1. TypeOK'
    BY <1>17, <1>t DEF vars, testerVars, serverVars, wire, TypeOK
  <2>2. Untouched'
    BY <1>17, <1>u DEF vars, testerVars, serverVars, wire, Untouched
  <2>3. Transcribed'
    BY <1>17, <1>e DEF vars, testerVars, serverVars, wire, Transcribed
  <2>4. InStep'
    BY <1>17, <1>i DEF vars, testerVars, serverVars, wire, InStep, Opened, Over
  <2>5. Reported'
    BY <1>17, <1>r DEF vars, testerVars, serverVars, wire, Reported, CompletedIsWhole
  <2> QED BY <2>1, <2>2, <2>3, <2>4, <2>5 DEF IInv
<1> QED BY <1>1, <1>2, <1>3, <1>4, <1>5, <1>6, <1>7, <1>8, <1>9, <1>10, <1>11, <1>12, <1>13, <1>14, <1>15, <1>16, <1>17 DEF Next, TesterProceeds, ServerProceeds

(* The invariant gives what the runs check. *)
LEMMA InvariantGives == IInv => TypeOK /\ EventPerTransaction /\ CompletedIsWhole
<1> SUFFICES ASSUME IInv PROVE TypeOK /\ EventPerTransaction /\ CompletedIsWhole
  OBVIOUS
<1>1. TypeOK /\ CompletedIsWhole
  BY DEF IInv, Reported
<1>2. Transcribed /\ InStep
  BY Typed
<1>3. session > 0 => session \in Session
  BY Typed, SessionsAssumption DEF Session
<1>4. /\ Len(Script) \in Nat /\ answered \in 0 .. Len(Script)
      /\ handled \in [Session -> 0 .. Len(Script)] /\ events \in [Session -> Seq(Event)]
  BY Typed
<1>5. EventPerTransaction
  BY <1>2, <1>3, <1>4 DEF Transcribed, InStep, Opened, EventPerTransaction
<1> QED BY <1>1, <1>5

(* Sessions (controls.py, uds_server.py) keep the inductive invariant. *)
THEOREM Invariance == Spec => []IInv
BY InitEstablishes, StepPreserves, PTL DEF Spec

(* Type correctness of the sessions' state. *)
THEOREM SessionTypeCorrect == Spec => []TypeOK
BY Invariance, InvariantGives, PTL

(* Each session's list is the transcript of the requests its server        *)
(* handled, at most one event behind the answers the tester holds:         *)
(* run_server() answers first and calls on_event after.                    *)
THEOREM SessionTranscript == Spec => []EventPerTransaction
BY Invariance, InvariantGives, PTL

(* A completed session whose server's thread was joined in time shows the  *)
(* whole script and its findings: run_uds_session(), _run_diagnostics().   *)
THEOREM CompletedSessionIsWhole == Spec => []CompletedIsWhole
BY Invariance, InvariantGives, PTL

=============================================================================
