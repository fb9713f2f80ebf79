------------------------- MODULE DemoControllerProofs -------------------------
(***************************************************************************)
(* The safety properties of the dashboard's controller hold for any number *)
(* of gateway runs, any depth of the live run's buffer and any batch size. *)
(***************************************************************************)
EXTENDS DemoControllerProperties, TLAPS

RunState ==
  [thread : {"none", "alive", "dead"}, stop : BOOLEAN, closed : BOOLEAN, late : BOOLEAN]
ScriptedState ==
  [status : {"not run", "running", "passed", "failed"}, run : 0 .. MaxRuns,
   thread : {"none", "setup", "stages", "joining", "returned", "reported", "dead"}]

Same(t, s, fields) == \A f \in fields : t[f] = s[f]

(* What an assignment to one field of one run does. *)
LEMMA SetThread ==
  ASSUME run \in [Run -> RunState], NEW r \in Run, NEW v \in {"none", "alive", "dead"},
         run' = [run EXCEPT ![r].thread = v]
  PROVE  /\ run' \in [Run -> RunState]
         /\ run'[r].thread = v /\ run'[r].stop = run[r].stop
         /\ run'[r].closed = run[r].closed /\ run'[r].late = run[r].late
         /\ \A s \in Run \ {r} : run'[s] = run[s]
BY DEF RunState

(* A run is told to stop. *)
LEMMA SetStop ==
  ASSUME run \in [Run -> RunState], NEW r \in Run, run' = [run EXCEPT ![r].stop = TRUE]
  PROVE  /\ run' \in [Run -> RunState]
         /\ run'[r].stop /\ run'[r].thread = run[r].thread
         /\ run'[r].closed = run[r].closed /\ run'[r].late = run[r].late
         /\ \A s \in Run \ {r} : run'[s] = run[s]
BY DEF RunState

(* Its bus, buffer and publisher are closed. *)
LEMMA SetClosed ==
  ASSUME run \in [Run -> RunState], NEW r \in Run, run' = [run EXCEPT ![r].closed = TRUE]
  PROVE  /\ run' \in [Run -> RunState]
         /\ run'[r].closed /\ run'[r].thread = run[r].thread
         /\ run'[r].stop = run[r].stop /\ run'[r].late = run[r].late
         /\ \A s \in Run \ {r} : run'[s] = run[s]
BY DEF RunState

(* A join that is over: a thread still alive is known to be late. *)
LEMMA SetLate ==
  ASSUME run \in [Run -> RunState], NEW r \in Run, run' = JoinOf(r)
  PROVE  /\ run' \in [Run -> RunState]
         /\ run'[r].late = (run[r].late \/ run[r].thread = "alive")
         /\ run'[r].thread = run[r].thread /\ run'[r].stop = run[r].stop
         /\ run'[r].closed = run[r].closed
         /\ \A s \in Run \ {r} : run'[s] = run[s]
BY DEF RunState, JoinOf

(* Both at once: what a cleanup closes after the joins it gave up. *)
LEMMA SetLateAndClosed ==
  ASSUME run \in [Run -> RunState], NEW r \in Run, run' = [JoinOf(r) EXCEPT ![r].closed = TRUE]
  PROVE  /\ run' \in [Run -> RunState]
         /\ run'[r].late = (run[r].late \/ run[r].thread = "alive")
         /\ run'[r].thread = run[r].thread /\ run'[r].stop = run[r].stop
         /\ run'[r].closed
         /\ \A s \in Run \ {r} : run'[s] = run[s]
BY DEF RunState, JoinOf

-----------------------------------------------------------------------------
(* Who owns a run that is under way.                                       *)

Working == {"connecting", "joining", "closing"}

(* The variables that say so, and the actions that change them. *)
ownerVars == <<lock, live, runs, run, scripted>>

OwnerStep ==
  \/ BeginLive \/ LiveFails \/ LiveStarts
  \/ TakeLiveOut \/ Joined \/ Closed
  \/ StartResilienceRun \/ ScenarioStarts \/ ScenarioSetupFails \/ ScenarioStops
  \/ ScenarioReturns \/ ScriptedReports \/ ScriptedEnds
  \/ StatusConnection \/ StatusDepth \/ StatusMetrics \/ StatusAnswers
  \/ \E r \in Run : GatewayDies(r) \/ GatewayEnds(r)

(* No other action changes them. *)
LEMMA OwnerSteps == [Next]_vars => UNCHANGED ownerVars \/ OwnerStep
<1>. SUFFICES ASSUME [Next]_vars PROVE UNCHANGED ownerVars \/ OwnerStep
  OBVIOUS
<1>. USE DEF ownerVars, OwnerStep, controlVars, statusVars, vars
<1>1. CASE UNCHANGED vars
  BY <1>1
<1>2. CASE Request
  BY <1>2 DEF Request, BeginStop, InjectOutage, ClearOutage
<1>3. CASE HolderProceeds
  BY <1>3 DEF HolderProceeds
<1>4. CASE ScriptedProceeds
  BY <1>4 DEF ScriptedProceeds
<1>5. CASE Shutdown
  BY <1>5 DEF Shutdown, BeginShutdown, ServerCloses
<1>6. CASE GatewayThreads
  BY <1>6 DEF GatewayThreads, GatewayStep, GatewayBuffers, GatewayAttempts, GatewayReconnects,
     GatewayAttemptFails, GatewayBeginsReplay, GatewayDrained, GatewayPeeks, GatewayPublishes,
     GatewayConfirmed, GatewayUnconfirmed, GatewayStopsPass, GatewayRemoves, GatewayLogs,
     ConnectionDrops, RecentReplayChanges
<1>. QED  BY <1>1, <1>2, <1>3, <1>4, <1>5, <1>6 DEF Next

OwnerType ==
  /\ lock \in {"free", "connecting", "joining", "closing", "depth", "metrics", "age"}
  /\ live \in 0 .. MaxRuns
  /\ runs \in 0 .. MaxRuns
  /\ run \in [Run -> RunState]
  /\ scripted \in ScriptedState

Unused(r) == run[r].thread = "none" /\ ~run[r].stop /\ ~run[r].closed /\ ~run[r].late
Running(r) == ~run[r].stop /\ ~run[r].closed
Stopping(r) == run[r].stop /\ ~run[r].closed
Ended(r) == run[r].closed /\ (run[r].thread = "alive" => run[r].stop /\ run[r].late)

(* At most the last run started is under way, and exactly one of the three *)
(* owns it: start_live() or stop_live() under the lock, _live, or the      *)
(* scripted thread; every earlier run has ended, every later one is unused.*)
Owners ==
  /\ live # 0 => live = runs /\ ~ScriptedAlive /\ lock \notin Working
  /\ lock \in Working => runs # 0 /\ ~ScriptedAlive
  /\ lock \in {"depth", "metrics", "age"} => live # 0
  /\ ScriptedAlive => runs # 0 /\ scripted.run = runs
LastRun ==
  /\ live # 0 => Running(runs)
  /\ lock = "connecting" => Unused(runs)
  /\ lock \in {"joining", "closing"} => Stopping(runs)
  /\ scripted.thread = "setup" => Unused(runs)
  /\ scripted.thread = "stages" => Running(runs)
  /\ scripted.thread = "joining" => Stopping(runs)
  /\ live = 0 /\ lock \notin Working /\ scripted.thread \notin {"setup", "stages", "joining"}
       /\ runs # 0 => Ended(runs)
OtherRuns == \A r \in Run : (r > runs => Unused(r)) /\ (r < runs => Ended(r))

(* scripted["status"] follows the thread. *)
Reports ==
  /\ scripted.thread \in {"reported", "dead"} => scripted.status \in {"passed", "failed"}
  /\ scripted.thread \in {"setup", "stages", "joining"} => scripted.status = "running"

OwnerInv == OwnerType /\ Owners /\ LastRun /\ OtherRuns /\ Reports

(* Nothing runs when the controller is made. *)
LEMMA OwnerInit == Init => OwnerInv
<1>. SUFFICES ASSUME Init PROVE OwnerInv
  OBVIOUS
<1>i. /\ lock = "free" /\ live = 0 /\ runs = 0
      /\ run = [r \in Run |-> [thread |-> "none", stop |-> FALSE, closed |-> FALSE, late |->
         FALSE]]
      /\ scripted = [status |-> "not run", run |-> 0, thread |-> "none"]
  BY DEF Init
<1>n. 0 \in 0 .. MaxRuns
  BY RunsAssumption
<1>a. run \in [Run -> RunState]
  BY <1>i DEF RunState
<1>b. scripted \in ScriptedState
  BY <1>i, <1>n DEF ScriptedState
<1>c. \A r \in Run : Unused(r)
  BY <1>i DEF Unused
<1>e. runs = 0
  BY <1>i
<1>d. \A r \in Run : ~ (r < runs)
  BY <1>e, RunsAssumption DEF Run
<1>1. OwnerType
  BY <1>i, <1>n, <1>a, <1>b DEF OwnerType
<1>2. Owners /\ LastRun /\ Reports
  BY <1>i DEF Owners, LastRun, Reports, ScriptedAlive, Working
<1>3. OtherRuns
  BY <1>c, <1>d DEF OtherRuns
<1>. QED  BY <1>1, <1>2, <1>3 DEF OwnerInv

(* A step of the scripted thread changes the thread and the status only.   *)
LEMMA ScriptedMoves ==
  ASSUME scripted \in ScriptedState, NEW from, NEW to \in {"stages", "joining", "returned",
         "reported", "dead"}, NEW status \in {"not run", "running", "passed", "failed"},
         ScriptedStep(from, to, status)
  PROVE  /\ scripted' \in ScriptedState
         /\ scripted.thread = from /\ scripted'.thread = to /\ scripted'.status = status
         /\ scripted'.run = scripted.run
         /\ UNCHANGED <<lock, live, runs>>
BY DEF ScriptedStep, ScriptedState, controlVars

(* No action breaks the ownership of runs. *)
LEMMA OwnersKept == OwnerInv /\ [Next]_vars => OwnerInv'
<1>. SUFFICES ASSUME OwnerInv, UNCHANGED ownerVars \/ OwnerStep PROVE OwnerInv'
  BY OwnerSteps
<1>t. OwnerType /\ Owners /\ LastRun /\ OtherRuns /\ Reports
  BY DEF OwnerInv
<1>n. MaxRuns \in Nat /\ MaxRuns > 0 /\ runs \in Nat /\ runs <= MaxRuns
  BY RunsAssumption, <1>t DEF OwnerType
<1>r. runs # 0 => runs \in Run
  BY <1>t DEF OwnerType, Run
<1>1. CASE UNCHANGED ownerVars
  BY <1>1, <1>t DEF ownerVars, OwnerInv, OwnerType, Owners, LastRun, OtherRuns, Reports, Unused,
     Running, Stopping, Ended, ScriptedAlive
<1>2. CASE BeginLive
  <2>1. /\ lock = "free" /\ live = 0 /\ ~ScriptedAlive /\ runs < MaxRuns
        /\ runs' = runs + 1 /\ lock' = "connecting" /\ UNCHANGED <<live, run, scripted>>
    BY <1>2 DEF BeginLive, Enters
  <2>2. OwnerType'
    BY <2>1, <1>n, <1>r, <1>t DEF OwnerType
  <2>3. Owners'
    BY <2>1, <1>n, <1>r, <1>t DEF Owners, ScriptedAlive, Working
  <2>4. LastRun'
    BY <2>1, <1>n, <1>r, <1>t DEF Owners, LastRun, OtherRuns, Unused, Running, Stopping, Ended,
       ScriptedAlive, Working, Run
  <2>5. OtherRuns'
    BY <2>1, <1>n, <1>r, <1>t DEF Owners, LastRun, OtherRuns, Unused, Running, Stopping, Ended,
       ScriptedAlive, Working, Run
  <2>6. Reports'
    BY <2>1, <1>n, <1>r, <1>t DEF Reports, ScriptedAlive
  <2>. QED  BY <2>2, <2>3, <2>4, <2>5, <2>6 DEF OwnerInv
<1>3. CASE LiveFails
  <2>1. /\ lock = "connecting" /\ lock' = "free" /\ run' = [run EXCEPT ![runs].closed = TRUE]
        /\ UNCHANGED <<live, runs, scripted>>
    BY <1>3 DEF LiveFails
  <2>2. runs \in Run
    BY <2>1, <1>t, <1>r DEF Owners, Working, ScriptedAlive
  <2>3. /\ run' \in [Run -> RunState]
        /\ run'[runs].closed
        /\ run'[runs].thread = run[runs].thread
        /\ run'[runs].stop = run[runs].stop
        /\ run'[runs].late = run[runs].late
        /\ \A s \in Run \ {runs} : run'[s] = run[s]
    BY <2>1, <2>2, <1>t, SetClosed DEF OwnerType
  <2>4. OwnerType'
    BY <2>1, <2>2, <2>3, <1>n, <1>r, <1>t DEF OwnerType
  <2>5. Owners'
    BY <2>1, <2>2, <2>3, <1>n, <1>r, <1>t DEF Owners, ScriptedAlive, Working
  <2>6. LastRun'
    BY <2>1, <2>2, <2>3, <1>n, <1>r, <1>t DEF Owners, LastRun, OtherRuns, Unused, Running,
       Stopping, Ended, ScriptedAlive, Working, Run
  <2>7. OtherRuns'
    BY <2>1, <2>2, <2>3, <1>n, <1>r, <1>t DEF Owners, LastRun, OtherRuns, Unused, Running,
       Stopping, Ended, ScriptedAlive, Working, Run
  <2>8. Reports'
    BY <2>1, <2>2, <2>3, <1>n, <1>r, <1>t DEF Reports, ScriptedAlive
  <2>. QED  BY <2>4, <2>5, <2>6, <2>7, <2>8 DEF OwnerInv
<1>4. CASE LiveStarts
  <2>1. /\ lock = "connecting" /\ lock' = "free" /\ live' = runs
        /\ run' = [run EXCEPT ![runs].thread = "alive"]
        /\ UNCHANGED <<runs, scripted>>
    BY <1>4 DEF LiveStarts
  <2>2. runs \in Run
    BY <2>1, <1>t, <1>r DEF Owners, Working, ScriptedAlive
  <2>3. /\ run' \in [Run -> RunState]
        /\ run'[runs].thread = "alive"
        /\ run'[runs].closed = run[runs].closed
        /\ run'[runs].stop = run[runs].stop
        /\ run'[runs].late = run[runs].late
        /\ \A s \in Run \ {runs} : run'[s] = run[s]
    BY <2>1, <2>2, <1>t, SetThread DEF OwnerType
  <2>4. OwnerType'
    BY <2>1, <2>2, <2>3, <1>n, <1>r, <1>t DEF OwnerType
  <2>5. Owners'
    BY <2>1, <2>2, <2>3, <1>n, <1>r, <1>t DEF Owners, ScriptedAlive, Working
  <2>6. LastRun'
    BY <2>1, <2>2, <2>3, <1>n, <1>r, <1>t DEF Owners, LastRun, OtherRuns, Unused, Running,
       Stopping, Ended, ScriptedAlive, Working, Run
  <2>7. OtherRuns'
    BY <2>1, <2>2, <2>3, <1>n, <1>r, <1>t DEF Owners, LastRun, OtherRuns, Unused, Running,
       Stopping, Ended, ScriptedAlive, Working, Run
  <2>8. Reports'
    BY <2>1, <2>2, <2>3, <1>n, <1>r, <1>t DEF Reports, ScriptedAlive
  <2>. QED  BY <2>4, <2>5, <2>6, <2>7, <2>8 DEF OwnerInv
<1>5. CASE TakeLiveOut
  <2>1. /\ live # 0 /\ lock' = "joining" /\ live' = 0
        /\ run' = [run EXCEPT ![live].stop = TRUE]
        /\ UNCHANGED <<runs, scripted>>
    BY <1>5 DEF TakeLiveOut
  <2>2. runs \in Run /\ live = runs
    BY <2>1, <1>t, <1>r DEF Owners
  <2>3. /\ run' \in [Run -> RunState]
        /\ run'[runs].stop
        /\ run'[runs].closed = run[runs].closed
        /\ run'[runs].thread = run[runs].thread
        /\ run'[runs].late = run[runs].late
        /\ \A s \in Run \ {runs} : run'[s] = run[s]
    BY <2>1, <2>2, <1>t, SetStop DEF OwnerType
  <2>4. OwnerType'
    BY <2>1, <2>2, <2>3, <1>n, <1>r, <1>t DEF OwnerType
  <2>5. Owners'
    BY <2>1, <2>2, <2>3, <1>n, <1>r, <1>t DEF Owners, ScriptedAlive, Working
  <2>6. LastRun'
    BY <2>1, <2>2, <2>3, <1>n, <1>r, <1>t DEF Owners, LastRun, OtherRuns, Unused, Running,
       Stopping, Ended, ScriptedAlive, Working, Run
  <2>7. OtherRuns'
    BY <2>1, <2>2, <2>3, <1>n, <1>r, <1>t DEF Owners, LastRun, OtherRuns, Unused, Running,
       Stopping, Ended, ScriptedAlive, Working, Run
  <2>8. Reports'
    BY <2>1, <2>2, <2>3, <1>n, <1>r, <1>t DEF Reports, ScriptedAlive
  <2>. QED  BY <2>4, <2>5, <2>6, <2>7, <2>8 DEF OwnerInv
<1>6. CASE Joined
  <2>1. /\ lock = "joining" /\ lock' = "closing" /\ run' = JoinOf(runs)
        /\ UNCHANGED <<live, runs, scripted>>
    BY <1>6 DEF Joined
  <2>2. runs \in Run
    BY <2>1, <1>t, <1>r DEF Owners, Working, ScriptedAlive
  <2>3. /\ run' \in [Run -> RunState]

        /\ run'[runs].closed = run[runs].closed
        /\ run'[runs].thread = run[runs].thread
        /\ run'[runs].stop = run[runs].stop
        /\ \A s \in Run \ {runs} : run'[s] = run[s]
    BY <2>1, <2>2, <1>t, SetLate DEF OwnerType
  <2>4. OwnerType'
    BY <2>1, <2>2, <2>3, <1>n, <1>r, <1>t DEF OwnerType
  <2>5. Owners'
    BY <2>1, <2>2, <2>3, <1>n, <1>r, <1>t DEF Owners, ScriptedAlive, Working
  <2>6. LastRun'
    BY <2>1, <2>2, <2>3, <1>n, <1>r, <1>t DEF Owners, LastRun, OtherRuns, Unused, Running,
       Stopping, Ended, ScriptedAlive, Working, Run
  <2>7. OtherRuns'
    BY <2>1, <2>2, <2>3, <1>n, <1>r, <1>t DEF Owners, LastRun, OtherRuns, Unused, Running,
       Stopping, Ended, ScriptedAlive, Working, Run
  <2>8. Reports'
    BY <2>1, <2>2, <2>3, <1>n, <1>r, <1>t DEF Reports, ScriptedAlive
  <2>. QED  BY <2>4, <2>5, <2>6, <2>7, <2>8 DEF OwnerInv
<1>7. CASE Closed
  <2>1. /\ lock = "closing" /\ lock' = "free"
        /\ run' = [JoinOf(runs) EXCEPT ![runs].closed = TRUE]
        /\ UNCHANGED <<live, runs, scripted>>
    BY <1>7 DEF Closed
  <2>2. runs \in Run
    BY <2>1, <1>t, <1>r DEF Owners, Working, ScriptedAlive
  <2>3. /\ run' \in [Run -> RunState]
        /\ run'[runs].closed /\ run'[runs].late = (run[runs].late \/ run[runs].thread = "alive")
        /\ run'[runs].thread = run[runs].thread
        /\ run'[runs].stop = run[runs].stop
        /\ \A s \in Run \ {runs} : run'[s] = run[s]
    BY <2>1, <2>2, <1>t, SetLateAndClosed DEF OwnerType
  <2>4. OwnerType'
    BY <2>1, <2>2, <2>3, <1>n, <1>r, <1>t DEF OwnerType
  <2>5. Owners'
    BY <2>1, <2>2, <2>3, <1>n, <1>r, <1>t DEF Owners, ScriptedAlive, Working
  <2>6. LastRun'
    BY <2>1, <2>2, <2>3, <1>n, <1>r, <1>t DEF Owners, LastRun, OtherRuns, Unused, Running,
       Stopping, Ended, ScriptedAlive, Working, Run
  <2>7. OtherRuns'
    BY <2>1, <2>2, <2>3, <1>n, <1>r, <1>t DEF Owners, LastRun, OtherRuns, Unused, Running,
       Stopping, Ended, ScriptedAlive, Working, Run
  <2>8. Reports'
    BY <2>1, <2>2, <2>3, <1>n, <1>r, <1>t DEF Reports, ScriptedAlive
  <2>. QED  BY <2>4, <2>5, <2>6, <2>7, <2>8 DEF OwnerInv
<1>8. CASE StartResilienceRun
  <2>1. /\ lock = "free" /\ live = 0 /\ ~ScriptedAlive /\ runs < MaxRuns
        /\ runs' = runs + 1
        /\ scripted' = [status |-> "running", run |-> runs + 1, thread |-> "setup"]
        /\ UNCHANGED <<lock, live, run>>
    BY <1>8 DEF StartResilienceRun, Enters
  <2>2. scripted'.thread = "setup" /\ scripted'.run = runs + 1 /\ scripted'.status = "running"
    BY <2>1
  <2>3. scripted' \in ScriptedState
    BY <2>1, <1>n DEF ScriptedState
  <2>4. OwnerType'
    BY <2>1, <2>2, <2>3, <1>n, <1>r, <1>t DEF OwnerType
  <2>5. Owners'
    BY <2>1, <2>2, <2>3, <1>n, <1>r, <1>t DEF Owners, ScriptedAlive, Working
  <2>6. LastRun'
    BY <2>1, <2>2, <2>3, <1>n, <1>r, <1>t DEF Owners, LastRun, OtherRuns, Unused, Running,
       Stopping, Ended, ScriptedAlive, Working, Run
  <2>7. OtherRuns'
    BY <2>1, <2>2, <2>3, <1>n, <1>r, <1>t DEF Owners, LastRun, OtherRuns, Unused, Running,
       Stopping, Ended, ScriptedAlive, Working, Run
  <2>8. Reports'
    BY <2>1, <2>2, <2>3, <1>n, <1>r, <1>t DEF Reports, ScriptedAlive
  <2>. QED  BY <2>4, <2>5, <2>6, <2>7, <2>8 DEF OwnerInv
<1>9. CASE ScenarioStarts
  <2>1. /\ scripted.thread = "setup"
        /\ scripted'.thread = "stages"
        /\ scripted'.status = "running"
        /\ scripted' \in ScriptedState /\ scripted'.run = scripted.run
        /\ UNCHANGED <<lock, live, runs>>
    BY <1>9, <1>t, ScriptedMoves DEF ScenarioStarts, OwnerType
  <2>2. runs \in Run /\ scripted.run = runs
    BY <2>1, <1>t, <1>r DEF Owners, ScriptedAlive
  <2>3. run' = [run EXCEPT ![runs].thread = "alive"]
    BY <1>9, <2>2 DEF ScenarioStarts
  <2>4. /\ run' \in [Run -> RunState]
        /\ run'[runs].thread = "alive"
        /\ run'[runs].closed = run[runs].closed
        /\ run'[runs].stop = run[runs].stop
        /\ run'[runs].late = run[runs].late
        /\ \A s \in Run \ {runs} : run'[s] = run[s]
    BY <2>2, <2>3, <1>t, SetThread DEF OwnerType
  <2>5. OwnerType'
    BY <2>1, <2>2, <2>3, <2>4, <1>n, <1>r, <1>t DEF OwnerType
  <2>6. Owners'
    BY <2>1, <2>2, <2>3, <2>4, <1>n, <1>r, <1>t DEF Owners, ScriptedAlive, Working
  <2>7. LastRun'
    BY <2>1, <2>2, <2>3, <2>4, <1>n, <1>r, <1>t DEF Owners, LastRun, OtherRuns, Unused,
       Running, Stopping, Ended, ScriptedAlive, Working, Run
  <2>8. OtherRuns'
    BY <2>1, <2>2, <2>3, <2>4, <1>n, <1>r, <1>t DEF Owners, LastRun, OtherRuns, Unused,
       Running, Stopping, Ended, ScriptedAlive, Working, Run
  <2>9. Reports'
    BY <2>1, <2>2, <2>3, <2>4, <1>n, <1>r, <1>t DEF Reports, ScriptedAlive
  <2>. QED  BY <2>5, <2>6, <2>7, <2>8, <2>9 DEF OwnerInv
<1>10. CASE ScenarioSetupFails
  <2>1. /\ scripted.thread = "setup"
        /\ scripted'.thread = "returned"
        /\ scripted'.status = "running"
        /\ scripted' \in ScriptedState /\ scripted'.run = scripted.run
        /\ UNCHANGED <<lock, live, runs>>
    BY <1>10, <1>t, ScriptedMoves DEF ScenarioSetupFails, OwnerType
  <2>2. runs \in Run /\ scripted.run = runs
    BY <2>1, <1>t, <1>r DEF Owners, ScriptedAlive
  <2>3. run' = [run EXCEPT ![runs].closed = TRUE]
    BY <1>10, <2>2 DEF ScenarioSetupFails
  <2>4. /\ run' \in [Run -> RunState]
        /\ run'[runs].closed
        /\ run'[runs].thread = run[runs].thread
        /\ run'[runs].stop = run[runs].stop
        /\ run'[runs].late = run[runs].late
        /\ \A s \in Run \ {runs} : run'[s] = run[s]
    BY <2>2, <2>3, <1>t, SetClosed DEF OwnerType
  <2>5. OwnerType'
    BY <2>1, <2>2, <2>3, <2>4, <1>n, <1>r, <1>t DEF OwnerType
  <2>6. Owners'
    BY <2>1, <2>2, <2>3, <2>4, <1>n, <1>r, <1>t DEF Owners, ScriptedAlive, Working
  <2>7. LastRun'
    BY <2>1, <2>2, <2>3, <2>4, <1>n, <1>r, <1>t DEF Owners, LastRun, OtherRuns, Unused,
       Running, Stopping, Ended, ScriptedAlive, Working, Run
  <2>8. OtherRuns'
    BY <2>1, <2>2, <2>3, <2>4, <1>n, <1>r, <1>t DEF Owners, LastRun, OtherRuns, Unused,
       Running, Stopping, Ended, ScriptedAlive, Working, Run
  <2>9. Reports'
    BY <2>1, <2>2, <2>3, <2>4, <1>n, <1>r, <1>t DEF Reports, ScriptedAlive
  <2>. QED  BY <2>5, <2>6, <2>7, <2>8, <2>9 DEF OwnerInv
<1>11. CASE ScenarioStops
  <2>1. /\ scripted.thread = "stages"
        /\ scripted'.thread = "joining"
        /\ scripted'.status = "running"
        /\ scripted' \in ScriptedState /\ scripted'.run = scripted.run
        /\ UNCHANGED <<lock, live, runs>>
    BY <1>11, <1>t, ScriptedMoves DEF ScenarioStops, OwnerType
  <2>2. runs \in Run /\ scripted.run = runs
    BY <2>1, <1>t, <1>r DEF Owners, ScriptedAlive
  <2>3. run' = [run EXCEPT ![runs].stop = TRUE]
    BY <1>11, <2>2 DEF ScenarioStops
  <2>4. /\ run' \in [Run -> RunState]
        /\ run'[runs].stop
        /\ run'[runs].closed = run[runs].closed
        /\ run'[runs].thread = run[runs].thread
        /\ run'[runs].late = run[runs].late
        /\ \A s \in Run \ {runs} : run'[s] = run[s]
    BY <2>2, <2>3, <1>t, SetStop DEF OwnerType
  <2>5. OwnerType'
    BY <2>1, <2>2, <2>3, <2>4, <1>n, <1>r, <1>t DEF OwnerType
  <2>6. Owners'
    BY <2>1, <2>2, <2>3, <2>4, <1>n, <1>r, <1>t DEF Owners, ScriptedAlive, Working
  <2>7. LastRun'
    BY <2>1, <2>2, <2>3, <2>4, <1>n, <1>r, <1>t DEF Owners, LastRun, OtherRuns, Unused,
       Running, Stopping, Ended, ScriptedAlive, Working, Run
  <2>8. OtherRuns'
    BY <2>1, <2>2, <2>3, <2>4, <1>n, <1>r, <1>t DEF Owners, LastRun, OtherRuns, Unused,
       Running, Stopping, Ended, ScriptedAlive, Working, Run
  <2>9. Reports'
    BY <2>1, <2>2, <2>3, <2>4, <1>n, <1>r, <1>t DEF Reports, ScriptedAlive
  <2>. QED  BY <2>5, <2>6, <2>7, <2>8, <2>9 DEF OwnerInv
<1>12. CASE ScenarioReturns
  <2>1. /\ scripted.thread = "joining"
        /\ scripted'.thread = "returned"
        /\ scripted'.status = "running"
        /\ scripted' \in ScriptedState /\ scripted'.run = scripted.run
        /\ UNCHANGED <<lock, live, runs>>
    BY <1>12, <1>t, ScriptedMoves DEF ScenarioReturns, OwnerType
  <2>2. runs \in Run /\ scripted.run = runs
    BY <2>1, <1>t, <1>r DEF Owners, ScriptedAlive
  <2>3. run' = [JoinOf(runs) EXCEPT ![runs].closed = TRUE]
    BY <1>12, <2>2 DEF ScenarioReturns
  <2>4. /\ run' \in [Run -> RunState]
        /\ run'[runs].closed /\ run'[runs].late = (run[runs].late \/ run[runs].thread = "alive")
        /\ run'[runs].thread = run[runs].thread
        /\ run'[runs].stop = run[runs].stop
        /\ \A s \in Run \ {runs} : run'[s] = run[s]
    BY <2>2, <2>3, <1>t, SetLateAndClosed DEF OwnerType
  <2>5. OwnerType'
    BY <2>1, <2>2, <2>3, <2>4, <1>n, <1>r, <1>t DEF OwnerType
  <2>6. Owners'
    BY <2>1, <2>2, <2>3, <2>4, <1>n, <1>r, <1>t DEF Owners, ScriptedAlive, Working
  <2>7. LastRun'
    <3>1. live' = 0 /\ lock' \notin Working /\ runs' = runs
      BY <2>1, <1>t DEF Owners, ScriptedAlive
    <3>2. run[runs].stop /\ run'[runs].closed
      BY <2>1, <2>2, <2>4, <1>t DEF LastRun, Stopping
    <3>3. run'[runs].stop = run[runs].stop
      BY <2>4
    <3>4. run'[runs].thread = "alive" => run'[runs].stop /\ run'[runs].late
      BY <2>4, <3>2, <3>3
    <3> QED BY <2>1, <3>1, <3>2, <3>4, <1>t DEF LastRun, Ended, Working, Running
  <2>8. OtherRuns'
    BY <2>1, <2>2, <2>3, <2>4, <1>n, <1>r, <1>t DEF Owners, LastRun, OtherRuns, Unused,
       Running, Stopping, Ended, ScriptedAlive, Working, Run
  <2>9. Reports'
    BY <2>1, <2>2, <2>3, <2>4, <1>n, <1>r, <1>t DEF Reports, ScriptedAlive
  <2>. QED  BY <2>5, <2>6, <2>7, <2>8, <2>9 DEF OwnerInv
<1>13. CASE ScriptedReports
  <2>1. /\ scripted.thread = "returned" /\ scripted'.thread = "reported"
        /\ scripted'.status \in {"passed", "failed"}
        /\ scripted' \in ScriptedState /\ scripted'.run = scripted.run
        /\ UNCHANGED <<lock, live, runs, run>>
    BY <1>13, <1>t, ScriptedMoves DEF ScriptedReports, OwnerType
  <2>2. OwnerType'
    BY <2>1, <1>n, <1>r, <1>t DEF OwnerType
  <2>3. Owners'
    BY <2>1, <1>n, <1>r, <1>t DEF Owners, ScriptedAlive, Working
  <2>4. LastRun'
    BY <2>1, <1>n, <1>r, <1>t DEF Owners, LastRun, OtherRuns, Unused, Running, Stopping, Ended,
       ScriptedAlive, Working, Run
  <2>5. OtherRuns'
    BY <2>1, <1>n, <1>r, <1>t DEF Owners, LastRun, OtherRuns, Unused, Running, Stopping, Ended,
       ScriptedAlive, Working, Run
  <2>6. Reports'
    BY <2>1, <1>n, <1>r, <1>t DEF Reports, ScriptedAlive
  <2>. QED  BY <2>2, <2>3, <2>4, <2>5, <2>6 DEF OwnerInv
<1>14. CASE ScriptedEnds
  <2>1. /\ scripted.thread = "reported" /\ scripted'.thread = "dead"
        /\ scripted'.status = scripted.status
        /\ scripted' \in ScriptedState /\ scripted'.run = scripted.run
        /\ UNCHANGED <<lock, live, runs, run>>
    BY <1>14, <1>t, ScriptedMoves DEF ScriptedEnds, OwnerType, ScriptedState
  <2>2. OwnerType'
    BY <2>1, <1>n, <1>r, <1>t DEF OwnerType
  <2>3. Owners'
    BY <2>1, <1>n, <1>r, <1>t DEF Owners, ScriptedAlive, Working
  <2>4. LastRun'
    BY <2>1, <1>n, <1>r, <1>t DEF Owners, LastRun, OtherRuns, Unused, Running, Stopping, Ended,
       ScriptedAlive, Working, Run
  <2>5. OtherRuns'
    BY <2>1, <1>n, <1>r, <1>t DEF Owners, LastRun, OtherRuns, Unused, Running, Stopping, Ended,
       ScriptedAlive, Working, Run
  <2>6. Reports'
    BY <2>1, <1>n, <1>r, <1>t DEF Reports, ScriptedAlive
  <2>. QED  BY <2>2, <2>3, <2>4, <2>5, <2>6 DEF OwnerInv
<1>15. CASE StatusConnection
  <2>1. /\ lock = "free" /\ live # 0 /\ lock' = "depth" /\ UNCHANGED <<live, runs, run, scripted>>
    BY <1>15 DEF StatusConnection, Enters, NextRead
  <2>2. OwnerType'
    BY <2>1, <1>n, <1>r, <1>t DEF OwnerType
  <2>3. Owners'
    BY <2>1, <1>n, <1>r, <1>t DEF Owners, ScriptedAlive, Working
  <2>4. LastRun'
    BY <2>1, <1>n, <1>r, <1>t DEF Owners, LastRun, OtherRuns, Unused, Running, Stopping, Ended,
       ScriptedAlive, Working, Run
  <2>5. OtherRuns'
    BY <2>1, <1>n, <1>r, <1>t DEF Owners, LastRun, OtherRuns, Unused, Running, Stopping, Ended,
       ScriptedAlive, Working, Run
  <2>6. Reports'
    BY <2>1, <1>n, <1>r, <1>t DEF Reports, ScriptedAlive
  <2>. QED  BY <2>2, <2>3, <2>4, <2>5, <2>6 DEF OwnerInv
<1>16. CASE StatusDepth
  <2>1. /\ lock = "depth" /\ lock' = "metrics" /\ UNCHANGED <<live, runs, run, scripted>>
    BY <1>16 DEF StatusDepth, NextRead
  <2>2. OwnerType'
    BY <2>1, <1>n, <1>r, <1>t DEF OwnerType
  <2>3. Owners'
    BY <2>1, <1>n, <1>r, <1>t DEF Owners, ScriptedAlive, Working
  <2>4. LastRun'
    BY <2>1, <1>n, <1>r, <1>t DEF Owners, LastRun, OtherRuns, Unused, Running, Stopping, Ended,
       ScriptedAlive, Working, Run
  <2>5. OtherRuns'
    BY <2>1, <1>n, <1>r, <1>t DEF Owners, LastRun, OtherRuns, Unused, Running, Stopping, Ended,
       ScriptedAlive, Working, Run
  <2>6. Reports'
    BY <2>1, <1>n, <1>r, <1>t DEF Reports, ScriptedAlive
  <2>. QED  BY <2>2, <2>3, <2>4, <2>5, <2>6 DEF OwnerInv
<1>17. CASE StatusAnswers
  <2>1. /\ lock = "age" /\ lock' = "free" /\ UNCHANGED <<live, runs, run, scripted>>
    BY <1>17 DEF StatusAnswers
  <2>2. OwnerType'
    BY <2>1, <1>n, <1>r, <1>t DEF OwnerType
  <2>3. Owners'
    BY <2>1, <1>n, <1>r, <1>t DEF Owners, ScriptedAlive, Working
  <2>4. LastRun'
    BY <2>1, <1>n, <1>r, <1>t DEF Owners, LastRun, OtherRuns, Unused, Running, Stopping, Ended,
       ScriptedAlive, Working, Run
  <2>5. OtherRuns'
    BY <2>1, <1>n, <1>r, <1>t DEF Owners, LastRun, OtherRuns, Unused, Running, Stopping, Ended,
       ScriptedAlive, Working, Run
  <2>6. Reports'
    BY <2>1, <1>n, <1>r, <1>t DEF Reports, ScriptedAlive
  <2>. QED  BY <2>2, <2>3, <2>4, <2>5, <2>6 DEF OwnerInv
<1>19. CASE StatusMetrics
  <2>1. /\ lock = "metrics" /\ lock' = "age" /\ UNCHANGED <<live, runs, run, scripted>>
    BY <1>19 DEF StatusMetrics, NextRead
  <2>2. OwnerType'
    BY <2>1, <1>n, <1>r, <1>t DEF OwnerType
  <2>3. Owners'
    BY <2>1, <1>n, <1>r, <1>t DEF Owners, ScriptedAlive, Working
  <2>4. LastRun'
    BY <2>1, <1>n, <1>r, <1>t DEF Owners, LastRun, OtherRuns, Unused, Running, Stopping, Ended,
       ScriptedAlive, Working, Run
  <2>5. OtherRuns'
    BY <2>1, <1>n, <1>r, <1>t DEF Owners, LastRun, OtherRuns, Unused, Running, Stopping, Ended,
       ScriptedAlive, Working, Run
  <2>6. Reports'
    BY <2>1, <1>n, <1>r, <1>t DEF Reports, ScriptedAlive
  <2>. QED  BY <2>2, <2>3, <2>4, <2>5, <2>6 DEF OwnerInv
<1>18. CASE \E r \in Run : GatewayDies(r) \/ GatewayEnds(r)
  <2>. PICK r \in Run : GatewayDies(r) \/ GatewayEnds(r)
    BY <1>18
  <2>1. /\ run[r].thread = "alive"
        /\ run' = [run EXCEPT ![r].thread = "dead"]
        /\ UNCHANGED <<lock, live, runs, scripted>>
    BY DEF GatewayDies, GatewayEnds, controlVars
  <2>2. /\ run' \in [Run -> RunState]
        /\ run'[r].thread = "dead" /\ run'[r].stop = run[r].stop
        /\ run'[r].closed = run[r].closed /\ run'[r].late = run[r].late
        /\ \A s \in Run \ {r} : run'[s] = run[s]
    BY <2>1, <1>t, SetThread DEF OwnerType
  <2>3. OwnerType'
    BY <2>1, <2>2, <1>n, <1>r, <1>t DEF OwnerType
  <2>4. Owners'
    BY <2>1, <2>2, <1>n, <1>r, <1>t DEF Owners, ScriptedAlive, Working
  <2>5. LastRun'
    BY <2>1, <2>2, <1>n, <1>r, <1>t DEF Owners, LastRun, OtherRuns, Unused, Running, Stopping,
       Ended, ScriptedAlive, Working, Run
  <2>6. OtherRuns'
    BY <2>1, <2>2, <1>n, <1>r, <1>t
       DEF OwnerType, OtherRuns, Unused, Running, Stopping, Ended, ScriptedAlive, Working, Run
  <2>7. Reports'
    BY <2>1, <2>2, <1>n, <1>r, <1>t DEF Reports
  <2>. QED  BY <2>3, <2>4, <2>5, <2>6, <2>7 DEF OwnerInv
<1>. QED
  BY <1>1, <1>2, <1>3, <1>4, <1>5, <1>6, <1>7, <1>8, <1>9, <1>10,
     <1>11, <1>12, <1>13, <1>14, <1>15, <1>16, <1>17, <1>18, <1>19
     DEF OwnerStep

-----------------------------------------------------------------------------
(* The gateway of the live run, and what is shown of it.                   *)

GatewayState ==
  [connected : BOOLEAN, outage : BOOLEAN, owed : BOOLEAN,
   at : {"loop", "reconnect", "peek", "row", "publish", "remove", "log"},
   depth : 0 .. MaxDepth, batch : 0 .. MaxDepth, acked : 0 .. MaxDepth, replayed : BOOLEAN]
OutageState == [stack : BOOLEAN, pending : BOOLEAN]
SeenState ==
  [connected : BOOLEAN, outage : {"active", "cleared", "none"},
   depth : {Unknown} \cup (0 .. MaxDepth), replayed : BOOLEAN]
StoredState == [soFar : BOOLEAN, whenRead : BOOLEAN]

ViewType ==
  /\ outage \in OutageState
  /\ gateway \in GatewayState
  /\ recentReplay \in BOOLEAN
  /\ seen \in SeenState
  /\ stored \in StoredState

(* The publisher's outage is the controller's, and is over when the run is *)
(* taken out.                                                              *)
OutageInv == gateway.outage = outage.stack /\ (outage.stack => live # 0)

(* A pass over a batch confirms rows that are still stored, and counts     *)
(* them as replayed before any of them goes.                               *)
PassInv ==
  /\ gateway.acked <= gateway.batch
  /\ gateway.at \in {"row", "publish", "remove"} => gateway.batch <= gateway.depth
  /\ gateway.at = "publish" => gateway.acked < gateway.batch
  /\ gateway.at \in {"loop", "reconnect", "peek"} => gateway.acked = 0
  /\ gateway.acked > 0 => gateway.replayed

(* A row that was ever stored is there or was counted as replayed, and a   *)
(* status() that has read the depth knows, or will read, one of the two.   *)
StoredInv ==
  /\ stored.soFar => gateway.depth # 0 \/ gateway.replayed
  /\ lock = "metrics" /\ stored.whenRead => seen.depth # 0 \/ gateway.replayed
  /\ lock = "age" /\ stored.whenRead => seen.depth # 0 \/ seen.replayed

ViewInv == ViewType /\ OutageInv /\ PassInv /\ StoredInv

(* There is no outage when the controller is made, and nothing was seen. *)
LEMMA ViewInit == Init => ViewInv
<1>. SUFFICES ASSUME Init PROVE ViewInv
  OBVIOUS
<1>n. 0 \in 0 .. MaxDepth
  BY DepthAssumption
<1>1. gateway \in GatewayState /\ gateway.outage = FALSE
  BY <1>n DEF Init, GatewayState, FreshGateway
<1>2. outage \in OutageState /\ outage.stack = FALSE
  BY DEF Init, OutageState, NoOutage
<1>3. seen \in SeenState
  BY DEF Init, SeenState, NothingSeen
<1>4. stored \in StoredState /\ stored.soFar = FALSE /\ stored.whenRead = FALSE
  BY DEF Init, StoredState, NothingStored
<1>5. lock = "free" /\ recentReplay = FALSE
  BY DEF Init
<1>6. PassInv
  <2>1. gateway = FreshGateway
    BY DEF Init
  <2>. QED  BY <2>1 DEF PassInv, FreshGateway
<1>. QED  BY <1>1, <1>2, <1>3, <1>4, <1>5, <1>6 DEF ViewInv, ViewType, OutageInv, StoredInv

(* The steps of the gateway's thread and of paho's that store no row.      *)
GatewayMove ==
  \/ GatewayAttempts \/ GatewayReconnects \/ GatewayAttemptFails
  \/ GatewayBeginsReplay \/ GatewayDrained \/ GatewayPeeks \/ GatewayPublishes
  \/ GatewayConfirmed \/ GatewayUnconfirmed \/ GatewayStopsPass \/ GatewayRemoves
  \/ GatewayLogs \/ ConnectionDrops

ViewStep ==
  \/ LiveStarts \/ TakeLiveOut \/ Closed \/ InjectOutage \/ ClearOutage
  \/ StatusConnection \/ StatusDepth \/ StatusMetrics \/ StatusAnswers
  \/ GatewayBuffers \/ GatewayMove \/ RecentReplayChanges

(* Every other step shows nothing new: at most the lock is taken for a     *)
(* start, or given back after one that failed, or goes on with a stop.     *)
LEMMA ViewSteps ==
  [Next]_vars =>
    \/ ViewStep
    \/ /\ UNCHANGED <<live, outage, gateway, recentReplay, seen, stored>>
       /\ lock' = lock \/ lock' \notin {"depth", "metrics", "age"}
<1>. SUFFICES ASSUME [Next]_vars, ~ViewStep
     PROVE /\ UNCHANGED <<live, outage, gateway, recentReplay, seen, stored>>
           /\ lock' = lock \/ lock' \notin {"depth", "metrics", "age"}
      OBVIOUS
<1>. USE DEF ViewStep, controlVars, statusVars, vars
<1>1. CASE UNCHANGED vars
  BY <1>1
<1>2. CASE Request
  BY <1>2 DEF Request, BeginStop, BeginLive, StartResilienceRun
<1>3. CASE HolderProceeds
  BY <1>3 DEF HolderProceeds, LiveFails, Joined
<1>4. CASE ScriptedProceeds
  BY <1>4 DEF ScriptedProceeds, ScenarioStarts, ScenarioSetupFails, ScenarioStops,
     ScenarioReturns,
     ScriptedReports, ScriptedEnds, ScriptedStep
<1>5. CASE Shutdown
  BY <1>5 DEF Shutdown, BeginShutdown, ServerCloses
<1>6. CASE GatewayThreads
  BY <1>6 DEF GatewayThreads, GatewayMove, GatewayDies, GatewayEnds
<1>. QED  BY <1>1, <1>2, <1>3, <1>4, <1>5, <1>6 DEF Next

(* What a step of the gateway has to leave alone: the outage, and the      *)
(* evidence of every row it ever stored.                                   *)
LEMMA EvidenceStays ==
  ASSUME ViewInv, UNCHANGED <<lock, live, outage, seen, stored>>,
         gateway' \in GatewayState, recentReplay' \in BOOLEAN,
         gateway'.outage = gateway.outage,
         gateway.replayed => gateway'.replayed,
         gateway.depth # 0 => gateway'.depth # 0 \/ gateway'.replayed,
         PassInv'
  PROVE  ViewInv'
<1>1. ViewType' /\ OutageInv'
  BY DEF ViewInv, ViewType, OutageInv
<1>2. StoredInv'
  BY DEF ViewInv, StoredInv
<1>. QED  BY <1>1, <1>2 DEF ViewInv

(* A pass over a batch, and all that can come between its steps, keeps     *)
(* that evidence: a row is counted before it is removed.                   *)
LEMMA EvidenceKept == ViewInv /\ GatewayMove => ViewInv'
<1>. SUFFICES ASSUME ViewInv, GatewayMove PROVE ViewInv'
  OBVIOUS
<1>g. gateway \in GatewayState /\ PassInv /\ recentReplay \in BOOLEAN
  BY DEF ViewInv, ViewType
<1>n. /\ MaxDepth \in Nat /\ BatchSize \in Nat /\ BatchSize > 0
      /\ gateway.depth \in Nat /\ gateway.batch \in Nat /\ gateway.acked \in Nat
      /\ gateway.depth <= MaxDepth /\ gateway.batch <= MaxDepth /\ gateway.acked <= MaxDepth
  BY <1>g, DepthAssumption, BatchAssumption DEF GatewayState
<1>s. /\ UNCHANGED <<lock, live, outage, seen, stored>>
      /\ recentReplay' \in BOOLEAN
  BY <1>g DEF GatewayMove, GatewayAttempts, GatewayReconnects, GatewayAttemptFails,
     GatewayBeginsReplay, GatewayDrained, GatewayPeeks, GatewayPublishes, GatewayConfirmed,
     GatewayUnconfirmed, GatewayStopsPass, GatewayRemoves, GatewayLogs, ConnectionDrops,
     GatewayStep, controlVars, statusVars
<1>. SUFFICES /\ gateway' \in GatewayState
              /\ gateway'.outage = gateway.outage
              /\ gateway.replayed => gateway'.replayed
              /\ gateway.depth # 0 => gateway'.depth # 0 \/ gateway'.replayed
              /\ PassInv'
  BY <1>s, EvidenceStays
<1>p. ASSUME gateway.at \in {"row", "publish"}, gateway' = PassStopped
      PROVE  /\ gateway' \in GatewayState
             /\ gateway'.outage = gateway.outage
             /\ gateway.replayed => gateway'.replayed
             /\ gateway.depth # 0 => gateway'.depth # 0 \/ gateway'.replayed
             /\ PassInv'
  <2>1. CASE gateway.acked > 0
    <3>1. gateway' = [gateway EXCEPT !.at = "remove"]
      BY <1>p, <2>1 DEF PassStopped
    <3>. QED  BY <1>p, <3>1, <1>g, <1>n DEF GatewayState, PassInv
  <2>2. CASE ~ (gateway.acked > 0)
    <3>1. gateway' = [gateway EXCEPT !.at = "loop", !.batch = 0]
      BY <1>p, <2>2 DEF PassStopped
    <3>2. gateway.acked = 0
      BY <2>2, <1>n
    <3>3. /\ gateway' \in GatewayState
          /\ gateway'.at = "loop" /\ gateway'.batch = 0 /\ gateway'.acked = 0
          /\ gateway'.outage = gateway.outage /\ gateway'.depth = gateway.depth
          /\ gateway'.replayed = gateway.replayed
      BY <3>1, <3>2, <1>g, <1>n DEF GatewayState
    <3>4. PassInv'
      BY <3>3 DEF PassInv
    <3>. QED  BY <3>3, <3>4
  <2>. QED  BY <2>1, <2>2
<1>1. CASE GatewayAttempts
  <2>1. /\ gateway.at = "loop"
        /\ gateway' = [gateway EXCEPT !.at = "reconnect"]
    BY <1>1 DEF GatewayAttempts, GatewayStep
  <2>. QED  BY <2>1, <1>g, <1>n DEF GatewayState, PassInv
<1>2. CASE GatewayReconnects
  <2>1. /\ gateway.at = "reconnect"
        /\ gateway' = [gateway EXCEPT !.at = "loop", !.connected = TRUE, !.owed = TRUE]
    BY <1>2 DEF GatewayReconnects, GatewayStep
  <2>. QED  BY <2>1, <1>g, <1>n DEF GatewayState, PassInv
<1>3. CASE GatewayAttemptFails
  <2>1. /\ gateway.at = "reconnect"
        /\ gateway' = [gateway EXCEPT !.at = "loop"]
    BY <1>3 DEF GatewayAttemptFails, GatewayStep
  <2>. QED  BY <2>1, <1>g, <1>n DEF GatewayState, PassInv
<1>4. CASE GatewayBeginsReplay
  <2>1. /\ gateway.at = "loop"
        /\ gateway' = [gateway EXCEPT !.at = "peek"]
    BY <1>4 DEF GatewayBeginsReplay, GatewayStep
  <2>. QED  BY <2>1, <1>g, <1>n DEF GatewayState, PassInv
<1>5. CASE GatewayDrained
  <2>1. /\ gateway.at = "peek"
        /\ gateway' = [gateway EXCEPT !.at = "loop", !.owed = FALSE]
    BY <1>5 DEF GatewayDrained, GatewayStep
  <2>. QED  BY <2>1, <1>g, <1>n DEF GatewayState, PassInv
<1>6. CASE GatewayPublishes
  <2>1. /\ gateway.at = "row" /\ gateway.acked < gateway.batch
        /\ gateway' = [gateway EXCEPT !.at = "publish"]
    BY <1>6 DEF GatewayPublishes, GatewayStep
  <2>. QED  BY <2>1, <1>g, <1>n DEF GatewayState, PassInv
<1>7. CASE GatewayConfirmed
  <2>1. /\ gateway.at = "publish"
        /\ gateway' = [gateway EXCEPT !.at = "row", !.acked = @ + 1, !.replayed = TRUE]
    BY <1>7 DEF GatewayConfirmed, GatewayStep
  <2>2. gateway.acked < gateway.batch /\ gateway.batch <= gateway.depth
    BY <2>1, <1>g DEF PassInv
  <2>3. gateway.acked + 1 \in 0 .. MaxDepth /\ gateway.acked + 1 <= gateway.batch
    BY <2>2, <1>n
  <2>4. /\ gateway' \in GatewayState
        /\ gateway'.at = "row" /\ gateway'.batch = gateway.batch
        /\ gateway'.acked = gateway.acked + 1
        /\ gateway'.outage = gateway.outage /\ gateway'.depth = gateway.depth
        /\ gateway'.replayed
    BY <2>1, <2>3, <1>g DEF GatewayState
  <2>5. PassInv'
    BY <2>2, <2>3, <2>4 DEF PassInv
  <2>. QED  BY <2>4, <2>5
<1>8. CASE GatewayRemoves
  <2>1. /\ gateway.at = "remove"
        /\ gateway' = [gateway EXCEPT !.at = "log", !.depth = @ - gateway.acked]
    BY <1>8 DEF GatewayRemoves, GatewayStep
  <2>2. /\ gateway.acked <= gateway.batch /\ gateway.batch <= gateway.depth
        /\ gateway.acked > 0 => gateway.replayed
    BY <2>1, <1>g DEF PassInv
  <2>3. /\ gateway.depth - gateway.acked \in 0 .. MaxDepth
        /\ gateway.acked = 0 => gateway.depth - gateway.acked = gateway.depth
    BY <2>2, <1>n
  <2>4. /\ gateway' \in GatewayState
        /\ gateway'.at = "log" /\ gateway'.batch = gateway.batch
        /\ gateway'.acked = gateway.acked
        /\ gateway'.outage = gateway.outage /\ gateway'.depth = gateway.depth - gateway.acked
        /\ gateway'.replayed = gateway.replayed
    BY <2>1, <2>3, <1>g DEF GatewayState
  <2>5. PassInv'
    BY <2>2, <2>4 DEF PassInv
  <2>6. gateway.depth # 0 => gateway'.depth # 0 \/ gateway'.replayed
    BY <2>2, <2>3, <2>4, <1>n
  <2>. QED  BY <2>4, <2>5, <2>6
<1>9. CASE ConnectionDrops
  <2>1. gateway' = [gateway EXCEPT !.connected = FALSE]
    BY <1>9 DEF ConnectionDrops
  <2>. QED  BY <2>1, <1>g, <1>n DEF GatewayState, PassInv
<1>10. CASE GatewayPeeks
  <2>. DEFINE batch == IF gateway.depth < BatchSize THEN gateway.depth ELSE BatchSize
  <2>1. /\ gateway.depth > 0 /\ gateway.at = "peek"
        /\ gateway' = [gateway EXCEPT !.at = "row", !.batch = batch]
    BY <1>10 DEF GatewayPeeks, GatewayStep
  <2>2. batch \in 0 .. MaxDepth /\ batch <= gateway.depth
    BY <1>n
  <2>3. gateway.acked = 0 /\ batch >= 0
    BY <2>1, <2>2, <1>g DEF PassInv
  <2>. HIDE DEF batch
  <2>4. /\ gateway' \in GatewayState
        /\ gateway'.at = "row" /\ gateway'.batch = batch /\ gateway'.acked = gateway.acked
        /\ gateway'.outage = gateway.outage /\ gateway'.depth = gateway.depth
        /\ gateway'.replayed = gateway.replayed
    BY <2>1, <2>2, <1>g DEF GatewayState
  <2>5. PassInv'
    BY <2>2, <2>3, <2>4 DEF PassInv
  <2>. QED  BY <2>4, <2>5
<1>11. CASE GatewayUnconfirmed
  <2>1. gateway.at = "publish" /\ gateway' = PassStopped
    BY <1>11 DEF GatewayUnconfirmed, GatewayStep
  <2>. QED  BY <2>1, <1>p
<1>12. CASE GatewayStopsPass
  <2>1. gateway.at = "row" /\ gateway' = PassStopped
    BY <1>12 DEF GatewayStopsPass, GatewayStep
  <2>. QED  BY <2>1, <1>p
<1>13. CASE GatewayLogs
  <2>1. \E to \in {"peek", "loop"} :
          gateway' = [gateway EXCEPT !.at = to, !.batch = 0, !.acked = 0]
    <3>. DEFINE to == IF gateway.acked = gateway.batch THEN "peek" ELSE "loop"
    <3>1. gateway' = [gateway EXCEPT !.at = to, !.batch = 0, !.acked = 0]
      BY <1>13 DEF GatewayLogs, GatewayStep
    <3>2. to \in {"peek", "loop"}
      OBVIOUS
    <3>. QED  BY <3>1, <3>2
  <2>. PICK to \in {"peek", "loop"} :
         gateway' = [gateway EXCEPT !.at = to, !.batch = 0, !.acked = 0]
    BY <2>1
  <2>2. 0 \in 0 .. MaxDepth
    BY <1>n
  <2>3. /\ gateway' \in GatewayState
        /\ gateway'.at = to /\ gateway'.batch = 0 /\ gateway'.acked = 0
        /\ gateway'.outage = gateway.outage /\ gateway'.depth = gateway.depth
        /\ gateway'.replayed = gateway.replayed
    BY <2>2, <1>g DEF GatewayState
  <2>4. PassInv'
    BY <2>3 DEF PassInv
  <2>. QED  BY <2>3, <2>4
<1>. QED
  BY <1>1, <1>2, <1>3, <1>4, <1>5, <1>6, <1>7, <1>8, <1>9, <1>10, <1>11, <1>12, <1>13
     DEF GatewayMove

(* No action breaks what is known of the outage and what was seen. *)
LEMMA ViewKept == ViewInv /\ Owners /\ [Next]_vars => ViewInv'
<1>. SUFFICES ASSUME ViewInv, Owners, [Next]_vars PROVE ViewInv'
  OBVIOUS
<1>t. ViewType /\ OutageInv /\ PassInv /\ StoredInv
  BY DEF ViewInv
<1>n. 0 \in 0 .. MaxDepth /\ MaxDepth \in Nat
  BY DepthAssumption
<1>g. /\ gateway \in GatewayState /\ outage \in OutageState /\ seen \in SeenState
      /\ stored \in StoredState
  BY <1>t DEF ViewType
<1>f. FreshGateway \in GatewayState /\ FreshGateway.outage = FALSE
  BY <1>n DEF FreshGateway, GatewayState
<1>e. NothingStored \in StoredState /\ NothingStored.soFar = FALSE /\ NothingStored.whenRead = FALSE
  BY DEF NothingStored, StoredState
<1>0. CASE /\ UNCHANGED <<live, outage, gateway, recentReplay, seen, stored>>
           /\ lock' = lock \/ lock' \notin {"depth", "metrics", "age"}
  <2>1. ViewType' /\ OutageInv' /\ PassInv'
    BY <1>0, <1>t DEF ViewType, OutageInv, PassInv
  <2>2. StoredInv'
    BY <1>0, <1>t DEF StoredInv
  <2>. QED  BY <2>1, <2>2 DEF ViewInv
<1>1. CASE LiveStarts
  <2>1. /\ lock' = "free" /\ outage' = NoOutage /\ gateway' = FreshGateway
        /\ stored' = NothingStored
        /\ UNCHANGED <<recentReplay, seen>>
    BY <1>1 DEF LiveStarts
  <2>2. outage' \in OutageState /\ outage'.stack = FALSE
    BY <2>1 DEF NoOutage, OutageState
  <2>3. gateway' \in GatewayState /\ gateway'.outage = FALSE
    BY <2>1, <1>f
  <2>4. ViewType'
    BY <2>1, <2>2, <2>3, <1>e, <1>t DEF ViewType
  <2>5. OutageInv'
    BY <2>2, <2>3 DEF OutageInv
  <2>6. PassInv'
    BY <2>1 DEF PassInv, FreshGateway
  <2>7. StoredInv'
    BY <2>1, <1>e DEF StoredInv
  <2>. QED  BY <2>4, <2>5, <2>6, <2>7 DEF ViewInv
<1>2. CASE TakeLiveOut
  <2>1. /\ lock' = "joining" /\ outage' = [outage EXCEPT !.stack = FALSE]
        /\ gateway' = IF outage.stack THEN [gateway EXCEPT !.outage = FALSE] ELSE gateway
        /\ UNCHANGED <<recentReplay, seen, stored>>
    BY <1>2 DEF TakeLiveOut, statusVars
  <2>2. outage' \in OutageState /\ outage'.stack = FALSE
    BY <2>1, <1>g DEF OutageState
  <2>3. gateway' = [gateway EXCEPT !.outage = FALSE]
    BY <2>1, <1>t, <1>g DEF OutageInv, GatewayState, OutageState
  <2>4. /\ gateway' \in GatewayState /\ gateway'.outage = FALSE
        /\ PassInv'
        /\ gateway'.depth = gateway.depth /\ gateway'.replayed = gateway.replayed
    BY <2>3, <1>g, <1>t DEF GatewayState, PassInv
  <2>5. ViewType'
    BY <2>1, <2>2, <2>4, <1>t DEF ViewType
  <2>6. OutageInv'
    BY <2>2, <2>4 DEF OutageInv
  <2>7. StoredInv'
    BY <2>1, <2>4, <1>t DEF StoredInv
  <2>. QED  BY <2>4, <2>5, <2>6, <2>7 DEF ViewInv
<1>3. CASE Closed
  <2>1. /\ lock = "closing"
        /\ lock' = "free"
        /\ gateway' = [FreshGateway EXCEPT !.connected = FALSE]
        /\ stored' = NothingStored
        /\ UNCHANGED <<live, outage, recentReplay, seen>>
    BY <1>3 DEF Closed
  <2>2. gateway' \in GatewayState /\ gateway'.outage = FALSE
    BY <2>1, <1>f DEF GatewayState
  <2>3. live = 0 /\ outage.stack = FALSE
    BY <2>1, <1>t, <1>g DEF OutageInv, Owners, Working, OutageState
  <2>4. ViewType'
    BY <2>1, <2>2, <1>e, <1>t DEF ViewType
  <2>5. OutageInv'
    BY <2>1, <2>2, <2>3 DEF OutageInv
  <2>6. PassInv'
    BY <2>1 DEF PassInv, FreshGateway
  <2>7. StoredInv'
    BY <2>1, <1>e DEF StoredInv
  <2>. QED  BY <2>4, <2>5, <2>6, <2>7 DEF ViewInv
<1>4. CASE InjectOutage
  <2>1. /\ live # 0 /\ lock = "free" /\ outage' = [stack |-> TRUE, pending |-> FALSE]
        /\ gateway' = [gateway EXCEPT !.outage = TRUE, !.connected = FALSE]
        /\ UNCHANGED <<lock, live, recentReplay, seen, stored>>
    BY <1>4 DEF InjectOutage, Enters, controlVars, statusVars
  <2>2. outage' \in OutageState /\ outage'.stack = TRUE
    BY <2>1 DEF OutageState
  <2>3. /\ gateway' \in GatewayState /\ gateway'.outage = TRUE
        /\ PassInv'
        /\ gateway'.depth = gateway.depth /\ gateway'.replayed = gateway.replayed
    BY <2>1, <1>g, <1>t DEF GatewayState, PassInv
  <2>4. ViewType'
    BY <2>1, <2>2, <2>3, <1>t DEF ViewType
  <2>5. OutageInv'
    BY <2>1, <2>2, <2>3 DEF OutageInv
  <2>6. StoredInv'
    BY <2>1, <2>3, <1>t DEF StoredInv
  <2>. QED  BY <2>3, <2>4, <2>5, <2>6 DEF ViewInv
<1>5. CASE ClearOutage
  <2>1. /\ lock = "free" /\ outage' = [stack |-> FALSE, pending |-> TRUE]
        /\ gateway' = [gateway EXCEPT !.outage = FALSE]
        /\ UNCHANGED <<lock, live, recentReplay, seen, stored>>
    BY <1>5 DEF ClearOutage, Enters, controlVars, statusVars
  <2>2. outage' \in OutageState /\ outage'.stack = FALSE
    BY <2>1 DEF OutageState
  <2>3. /\ gateway' \in GatewayState /\ gateway'.outage = FALSE
        /\ PassInv'
        /\ gateway'.depth = gateway.depth /\ gateway'.replayed = gateway.replayed
    BY <2>1, <1>g, <1>t DEF GatewayState, PassInv
  <2>4. ViewType'
    BY <2>1, <2>2, <2>3, <1>t DEF ViewType
  <2>5. OutageInv'
    BY <2>2, <2>3 DEF OutageInv
  <2>6. StoredInv'
    BY <2>1, <2>3, <1>t DEF StoredInv
  <2>. QED  BY <2>3, <2>4, <2>5, <2>6 DEF ViewInv
<1>6. CASE StatusConnection
  <2>1. /\ lock' = "depth"
        /\ UNCHANGED <<live, gateway, recentReplay, stored>>
    BY <1>6 DEF StatusConnection, NextRead
  <2>2. \E p \in BOOLEAN : outage' = [outage EXCEPT !.pending = p]
    BY <1>6, <1>g DEF StatusConnection, OutageState, GatewayState
  <2>3. outage' \in OutageState /\ outage'.stack = outage.stack
    BY <2>2, <1>g DEF OutageState
  <2>4. seen' \in SeenState
    BY <1>6, <1>g DEF StatusConnection, SeenState, GatewayState, NothingSeen
  <2>5. ViewType'
    BY <2>1, <2>3, <2>4, <1>t DEF ViewType
  <2>6. OutageInv' /\ PassInv'
    BY <2>1, <2>3, <1>t DEF OutageInv, PassInv
  <2>7. StoredInv'
    BY <2>1, <1>t DEF StoredInv
  <2>. QED  BY <2>5, <2>6, <2>7 DEF ViewInv
<1>7. CASE StatusDepth
  <2>. PICK depth \in {gateway.depth, Unknown} : seen' = [seen EXCEPT !.depth = depth]
    BY <1>7 DEF StatusDepth
  <2>1. /\ lock' = "metrics"
        /\ stored' = [stored EXCEPT !.whenRead = stored.soFar]
        /\ UNCHANGED <<live, outage, gateway, recentReplay>>
    BY <1>7 DEF StatusDepth, NextRead
  <2>2. seen' \in SeenState /\ seen'.depth = depth
    BY <1>g DEF SeenState, GatewayState
  <2>3. /\ stored' \in StoredState
        /\ stored'.soFar = stored.soFar /\ stored'.whenRead = stored.soFar
    BY <2>1, <1>g DEF StoredState
  <2>4. depth = 0 => gateway.depth = 0
    BY DEF Unknown
  <2>5. ViewType'
    BY <2>1, <2>2, <2>3, <1>t DEF ViewType
  <2>6. OutageInv' /\ PassInv'
    BY <2>1, <1>t DEF OutageInv, PassInv
  <2>7. StoredInv'
    BY <2>1, <2>2, <2>3, <2>4, <1>t DEF StoredInv
  <2>. QED  BY <2>5, <2>6, <2>7 DEF ViewInv
<1>8. CASE StatusMetrics
  <2>1. /\ lock = "metrics" /\ lock' = "age"
        /\ seen' = [seen EXCEPT !.replayed = gateway.replayed]
        /\ UNCHANGED <<live, outage, gateway, recentReplay, stored>>
    BY <1>8 DEF StatusMetrics, NextRead
  <2>2. seen' \in SeenState /\ seen'.depth = seen.depth /\ seen'.replayed = gateway.replayed
    BY <2>1, <1>g DEF SeenState, GatewayState
  <2>3. ViewType'
    BY <2>1, <2>2, <1>t DEF ViewType
  <2>4. OutageInv' /\ PassInv'
    BY <2>1, <1>t DEF OutageInv, PassInv
  <2>5. StoredInv'
    BY <2>1, <2>2, <1>t DEF StoredInv
  <2>. QED  BY <2>3, <2>4, <2>5 DEF ViewInv
<1>9. CASE StatusAnswers
  <2>1. /\ lock' = "free" /\ seen' = NothingSeen
        /\ stored' = [stored EXCEPT !.whenRead = FALSE]
        /\ UNCHANGED <<live, outage, gateway, recentReplay>>
    BY <1>9 DEF StatusAnswers
  <2>2. seen' \in SeenState
    BY <2>1 DEF SeenState, NothingSeen
  <2>3. stored' \in StoredState /\ stored'.soFar = stored.soFar
    BY <2>1, <1>g DEF StoredState
  <2>4. ViewType'
    BY <2>1, <2>2, <2>3, <1>t DEF ViewType
  <2>5. OutageInv' /\ PassInv'
    BY <2>1, <1>t DEF OutageInv, PassInv
  <2>6. StoredInv'
    BY <2>1, <2>3, <1>t DEF StoredInv
  <2>. QED  BY <2>4, <2>5, <2>6 DEF ViewInv
<1>10. CASE GatewayBuffers
  <2>1. /\ gateway.depth < MaxDepth /\ gateway.at = "loop"
        /\ gateway' = [gateway EXCEPT !.depth = @ + 1]
        /\ stored' = [stored EXCEPT !.soFar = TRUE]
        /\ UNCHANGED <<lock, live, outage, recentReplay, seen>>
    BY <1>10 DEF GatewayBuffers, GatewayStep, controlVars
  <2>2. gateway.depth \in Nat /\ gateway.depth + 1 \in 0 .. MaxDepth
    BY <2>1, <1>n, <1>g DEF GatewayState
  <2>3. /\ gateway' \in GatewayState /\ gateway'.outage = gateway.outage
        /\ gateway'.depth # 0 /\ gateway'.replayed = gateway.replayed
        /\ PassInv'
    BY <2>1, <2>2, <1>g, <1>t DEF GatewayState, PassInv
  <2>4. stored' \in StoredState /\ stored'.whenRead = stored.whenRead
    BY <2>1, <1>g DEF StoredState
  <2>5. ViewType'
    BY <2>1, <2>3, <2>4, <1>t DEF ViewType
  <2>6. OutageInv'
    BY <2>1, <2>3, <1>t DEF OutageInv
  <2>7. StoredInv'
    BY <2>1, <2>3, <2>4, <1>t DEF StoredInv
  <2>. QED  BY <2>3, <2>5, <2>6, <2>7 DEF ViewInv
<1>11. CASE GatewayMove
  BY <1>11, EvidenceKept
<1>12. CASE RecentReplayChanges
  <2>1. /\ recentReplay' = ~recentReplay
        /\ UNCHANGED <<lock, live, outage, gateway, seen, stored>>
    BY <1>12 DEF RecentReplayChanges, controlVars, statusVars
  <2>2. ViewType' /\ OutageInv' /\ PassInv'
    BY <2>1, <1>t DEF ViewType, OutageInv, PassInv
  <2>3. StoredInv'
    BY <2>1, <1>t DEF StoredInv
  <2>. QED  BY <2>2, <2>3 DEF ViewInv
<1>. QED
  BY ViewSteps, <1>0, <1>1, <1>2, <1>3, <1>4, <1>5, <1>6, <1>7, <1>8, <1>9, <1>10, <1>11, <1>12
     DEF ViewStep

-----------------------------------------------------------------------------
(* The theorems.                                                           *)

(* Dashboard.stop() goes from one of its places to the next.               *)
Place == {"serving", "stopping", "waiting", "closed"}
(* No action leaves the places of Dashboard.stop(). *)
LEMMA PlaceKept == main \in Place /\ [Next]_vars => main' \in Place
<1>. SUFFICES ASSUME main \in Place, [Next]_vars PROVE main' \in Place
  OBVIOUS
<1>. USE DEF Place, controlVars, vars
<1>1. CASE UNCHANGED vars
  BY <1>1
<1>2. CASE Request
  BY <1>2 DEF Request, BeginStop, BeginLive, StartResilienceRun, InjectOutage, ClearOutage,
     StatusConnection
<1>3. CASE HolderProceeds
  BY <1>3 DEF HolderProceeds, LiveFails, LiveStarts, Joined, Closed, StatusDepth, StatusMetrics,
     StatusAnswers
<1>4. CASE ScriptedProceeds
  BY <1>4 DEF ScriptedProceeds, ScenarioStarts, ScenarioSetupFails, ScenarioStops,
     ScenarioReturns,
     ScriptedReports, ScriptedEnds, ScriptedStep
<1>5. CASE Shutdown
  BY <1>5 DEF Shutdown, BeginShutdown, ServerCloses
<1>6. CASE GatewayThreads
  BY <1>6 DEF GatewayThreads, GatewayStep, GatewayBuffers, GatewayAttempts, GatewayReconnects,
     GatewayAttemptFails, GatewayBeginsReplay, GatewayDrained, GatewayPeeks, GatewayPublishes,
     GatewayConfirmed, GatewayUnconfirmed, GatewayStopsPass, GatewayRemoves, GatewayLogs,
     ConnectionDrops, RecentReplayChanges,
     GatewayDies, GatewayEnds
<1>. QED  BY <1>1, <1>2, <1>3, <1>4, <1>5, <1>6 DEF Next

(* The inductive invariant: every run under way has exactly one owner, and *)
(* what the live run's gateway shows is what the controller knows.         *)
ControllerInv == OwnerInv /\ ViewInv /\ main \in Place

(* The controller (controls.py) keeps the inductive invariant. *)
THEOREM ControllerInvariant == Spec => []ControllerInv
<1>1. Init => ControllerInv
  BY OwnerInit, ViewInit DEF ControllerInv, Place, Init
<1>2. ControllerInv /\ [Next]_vars => ControllerInv'
  BY OwnersKept, ViewKept, PlaceKept DEF ControllerInv, OwnerInv
<1>. QED  BY <1>1, <1>2, PTL DEF Spec

(* The variables keep their types, for any number of runs and rows.        *)
THEOREM ControllerTypesHold == Spec => []TypeOK
<1>1. ControllerInv => TypeOK
  BY DEF ControllerInv, OwnerInv, OwnerType, ViewInv, ViewType, Place, TypeOK, RunState,
     ScriptedState, GatewayState, OutageState, SeenState, StoredState
<1>. QED  BY <1>1, ControllerInvariant, PTL

(* At most one gateway is at work that has not been told to stop, however  *)
(* many were started and by whom (start_live(), start_resilience_run()).   *)
THEOREM AtMostOneGatewayRun == Spec => []OneGatewayRun
<1>1. ControllerInv => OneGatewayRun
  <2>. SUFFICES ASSUME OwnerInv, NEW r \in Run, run[r].thread = "alive" /\ ~run[r].stop
       PROVE  r = runs
    BY DEF ControllerInv, OneGatewayRun
  <2>1. r \in Int /\ runs \in Int
    BY RunsAssumption DEF OwnerInv, OwnerType, Run
  <2>2. ~ (r < runs) /\ ~ (r > runs)
    BY DEF OwnerInv, OtherRuns, Ended, Unused
  <2>. QED  BY <2>1, <2>2
<1>. QED  BY <1>1, ControllerInvariant, PTL

(* Whoever fails, stops or shuts down, no run is left behind with its      *)
(* threads running or its bus, buffer or publisher open (_LiveRun).        *)
THEOREM NoRunEverLeaks == Spec => []NoRunLeaks
<1>1. ControllerInv => NoRunLeaks
  <2>. SUFFICES ASSUME OwnerInv, lock = "free", NEW r \in 1 .. runs, r # live,
                       ~ (r = scripted.run /\ ScriptedAlive)
       PROVE  Ended(r)
    BY DEF ControllerInv, NoRunLeaks, Ended
  <2>t. /\ Owners /\ LastRun /\ OtherRuns
        /\ runs \in 0 .. MaxRuns /\ MaxRuns \in Nat
    BY RunsAssumption DEF OwnerInv, OwnerType
  <2>1. r \in Run /\ r \in Int /\ runs # 0
    BY <2>t DEF Run
  <2>2. CASE r < runs
    BY <2>t, <2>1, <2>2 DEF OtherRuns
  <2>3. CASE r = runs
    <3>1. live = 0 /\ ~ScriptedAlive
      BY <2>t, <2>3 DEF Owners
    <3>2. scripted.thread \notin {"setup", "stages", "joining"} /\ lock \notin Working
      BY <3>1 DEF ScriptedAlive, Working
    <3>. QED  BY <2>t, <2>1, <2>3, <3>1, <3>2 DEF LastRun
  <2>. QED  BY <2>t, <2>1, <2>2, <2>3
<1>. QED  BY <1>1, ControllerInvariant, PTL

(* Nothing is closed under a gateway's thread unless a join of it timed    *)
(* out (the joins come first, in _LiveRun and in run_scenario()).          *)
THEOREM ClosedOnlyAfterTheJoin == Spec => []ClosedOnlyAfterJoin
<1>1. ControllerInv => ClosedOnlyAfterJoin
  <2>. SUFFICES ASSUME OwnerInv, NEW r \in Run, run[r].closed, run[r].thread = "alive"
       PROVE  run[r].late
    BY DEF ControllerInv, ClosedOnlyAfterJoin
  <2>t. /\ Owners /\ LastRun /\ OtherRuns
        /\ runs \in 0 .. MaxRuns /\ MaxRuns \in Nat
        /\ lock \in {"free", "connecting", "joining", "closing", "depth", "metrics", "age"}
    BY RunsAssumption DEF OwnerInv, OwnerType
  <2>1. r \in Int /\ runs \in Int /\ r > 0
    BY <2>t DEF Run
  <2>2. CASE r < runs
    BY <2>t, <2>2 DEF OtherRuns, Ended
  <2>3. CASE r > runs
    BY <2>t, <2>3 DEF OtherRuns, Unused
  <2>4. CASE r = runs
    BY <2>t, <2>1, <2>4 DEF LastRun, Working, Unused, Running, Stopping, Ended
  <2>. QED  BY <2>1, <2>2, <2>3, <2>4
<1>. QED  BY <1>1, ControllerInvariant, PTL

(* The controller and the publisher agree on the simulated outage, which   *)
(* never outlives its run (inject_outage(), clear_outage(), _LiveRun.stop).*)
THEOREM OutageAlwaysAgrees == Spec => []OutageAgrees
<1>1. ControllerInv => OutageAgrees
  BY DEF ControllerInv, ViewInv, OutageInv, OutageAgrees
<1>. QED  BY <1>1, ControllerInvariant, PTL

(* A scripted run that is over is no longer reported as running, and one   *)
(* at work is (_run_scripted() writes without the lock).                   *)
THEOREM EndedWorkAlwaysReported == Spec => []EndedWorkIsReported
<1>1. ControllerInv => EndedWorkIsReported
  BY DEF ControllerInv, OwnerInv, Reports, EndedWorkIsReported
<1>. QED  BY <1>1, ControllerInvariant, PTL

(* status() never answers NORMAL of a run that had stored a row when it    *)
(* read the depth, however many rows there are and wherever the gateway is *)
(* with their replay (_replay_buffered() counts, then removes).            *)
THEOREM NormalAlwaysUntroubled == Spec => []NormalIsUntroubled
<1>1. ControllerInv => NormalIsUntroubled
  <2>. SUFFICES ASSUME ViewInv, lock = "age", Answer = "NORMAL"
       PROVE  ~stored.whenRead
    BY DEF ControllerInv, NormalIsUntroubled
  <2>1. /\ seen \in SeenState /\ recentReplay \in BOOLEAN
        /\ lock = "age" /\ stored.whenRead => seen.depth # 0 \/ seen.replayed
    BY DEF ViewInv, ViewType, StoredInv
  <2>2. seen.connected \in BOOLEAN /\ seen.replayed \in BOOLEAN
    BY <2>1 DEF SeenState
  <2>3. seen.depth = Unknown \/ seen.depth \in Nat
    BY <2>1, DepthAssumption DEF SeenState
  <2>4. seen.depth = 0 /\ ~seen.replayed
    BY <2>1, <2>2, <2>3 DEF Answer, Lifecycle, Unknown
  <2>. QED  BY <2>1, <2>4
<1>. QED  BY <1>1, ControllerInvariant, PTL

=============================================================================
