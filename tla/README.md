# Verification of the edge-to-cloud telemetry system

A simulated vehicle puts CAN frames on a virtual bus. An edge gateway turns
them into telemetry events, publishes them over MQTT (QoS 1) and keeps in
SQLite what it could not publish. Around it are a UDS diagnostic server, an
analyzer of diagnostic events, a dashboard that hosts demo runs, and a scripted
outage demo. The modules here are translated from the Python code; TLC checks
them on small instances and TLAPS proves the central properties for every value
of the constants.

## 1. The system

| component | state | operations | talks to |
|---|---|---|---|
| gateway loop (`edge_gateway/gateway.py`) | `_replay_requested`, the batch in replay | `run`, `run_once`, `_replay_buffered` | bus, publisher, buffer, metrics |
| telemetry buffer (`buffer.py`) | table `pending_telemetry` on disk, `dropped_count` | `enqueue` (insert and trim), `peek_batch`, `remove`, `count` | SQLite |
| MQTT publisher (`mqtt_publisher.py`) | `_connected`, two outage flags, forced failures, backoff | `connect`, `try_reconnect`, `publish`, `_handle_disconnect`, fault hooks, `disconnect` | paho-mqtt and its network thread, broker |
| metrics, fault injection | five counters; none | `record_*`, `snapshot`; two context managers | gateway; publisher |
| ingestion, validation, normalization | none | pure functions of a frame | gateway |
| cloud publisher (`cloud_publisher.py`) | none | environment to publisher | entry point |
| bus, ECUs (`simulation/`) | signal values | `tick`, `run_ecu` | gateway through the bus |
| UDS server and client (`simulation/uds/`) | active session | `handle_request`, `run_server` | ISO-TP over the bus |
| analyzer (`analyzer/`) | none between calls | `analyze`, three rules, `_cluster_by_window` | list of diagnostic events |
| dashboard controls (`dashboard/backend/controls.py`) | live run, scripted run, diagnostics thread, one lock | six actions, `status`, `shutdown` | HTTP threads, gateway runs |
| dashboard state, sources, server | bounded sets of ids, histories, the activity feed, the subscription's status | ingest, log tap, snapshot, `start`, `stop` | MQTT, gateway logs, browser |
| resilience scenario (`scenarios/resilience_demo.py`) | recorded log, observed events | `run_scenario`, `_verify` | its own gateway |
| entry point (`run_demo.py`) | `stop_event`, the threads it joins | `main` | gateway's thread, publisher, buffer |
| infra, docker | none | declarations | |

What is hard here: the publisher's flags are shared by three threads with no
lock; a process may die between an acknowledgement and the deletion of the row;
a timed-out publish may be delivered later; a full table trims; the dashboard
holds one lock over joins with timeouts while a scripted run works without it;
`status()` reads three pieces of state one after the other; a blocking reconnect
may outlast its own backoff; a write to SQLite may fail between two counters; the
entry point stops waiting for a thread and closes everything under it; the
scenario judges a run by records of other threads while the broker still
delivers. The hazards, each at
its line and with the property that covers it, are in `PROJECT.json`.

## 2. The modules

| module | models | notes |
|---|---|---|
| `TelemetryBuffer` | the table as a function from row ids to events, and the operators that change it | no state of its own |
| `MqttPublisher` | the publisher, paho and the broker | the steps of paho, of the broker and of whoever injects faults are its environment |
| `EdgeGateway` | `run()` with everything it calls, from one process to the next | EXTENDS the two above; `pc` names the point in `run_once()` |
| `TelemetryDelivery` | the promise: custody of an event until the broker has it, with two exceptions | abstract; `EdgeGateway` implements it |
| `EdgeGatewayProperties` | properties, fairness and the refinement mapping | |
| `DemoController` | live and scripted runs, outages, `status()`, shutdown | a call that blocks under the lock is split where it blocks, `status()` between its reads, a replay between its publishes and its delete |
| `DemoControllerProperties` | its properties and fairness | |
| `DiagnosticAnalyzer` | `analyze()` over its three rules, one step per loop iteration | |
| `DiagnosticAnalyzerProperties` | its properties | |
| `DiagnosticSession` | a dashboard UDS session: the tester's thread, the server's thread, the list they share | |
| `DiagnosticSessionProperties` | its properties and fairness | |
| `SignalPath` | a reading from the ECU's random walk through the CAN frame to the gateway's range check | values are hundredths of the unit |
| `SignalPathProperties` | its properties | |
| `ReconnectBackoff` | the reconnects of `run()` under a clock: blocking attempts, backoff, a broker that comes and goes | a clock reading is kept as the time that is left |
| `DemoRun`, `DemoRunProperties` | `run_demo.main` from configuration to exit around one gateway thread, with a disk that fills and a join that gives up | EXTENDS `ReconnectBackoff` and implements its clock; what the gateway handles is counted |
| `ResilienceScenario`, `ResilienceScenarioProperties` | `run_scenario()` and `_verify()` around the gateway | EXTENDS `EdgeGateway`: stages and observers run beside its threads |
| `DashboardState`, `DashboardStateProperties` | what the dashboard knows: subscription, log tap, ids, feed, `start()` and `stop()` | |
| `MC*` | the modules TLC runs | |
| `EdgeGatewayProofs` | the gateway's proofs: the lemmas on the buffer's operators and the publisher's steps first, the refinement last | |
| `ResilienceScenarioProofs` | the scenario's proofs, on top of the gateway's | EXTENDS `EdgeGatewayProofs` |
| `DemoRunProofs` | the proofs of `ReconnectBackoff`, then of `DemoRun` | |
| `DemoControllerProofs`, `DiagnosticAnalyzerProofs`, `DiagnosticSessionProofs`, `SignalPathProofs`, `DashboardStateProofs` | the proofs of these modules | |

### Correspondence with the code

*Gateway.* Between two calls that another thread can interleave with, the code
is one step. A call that blocks (`client.reconnect()`, `wait_for_publish()`) is
two: its beginning and its return, with everything other threads do in between.
The counters move where the code moves them, before or after the insert, which is
why `failed`, `enqueue` and `record` are separate points. `enqueue()` is one step,
insert, trim and count, because it is one SQLite transaction. `ProcessEnds` may
happen at every point, as a stop or as a crash; only `table` and `lastId`
(AUTOINCREMENT) survive it. An event is its number in the order of acceptance.

*paho and the broker* are external and modelled from how the code uses them:
a message stays with paho until its PUBACK, whether or not `publish()` still
waits, and is sent again on a new connection; the disconnect callback runs some
time after a drop; paho's own loop may reopen a link without telling the
publisher, which sets `_connected` only in its own calls.

*Controller.* Any number of HTTP threads is one lock holder at a time and a
place (`lock`) where it is; a refused action is no step. Of the live run's
gateway only what `status()` looks at is modelled. `status()` reads the
connection, the depth of the buffer, the counters and the age of the last replay
in four steps. A replay is the gateway's: it reads a batch, publishes row by row,
deletes the confirmed rows and logs, and paho's thread may report a drop at any of
these places, so rows may be deleted after the connection is gone. The depth is
unknown when the buffer's file cannot be read. The gateway's thread may also die
of an exception while nothing was stopped.

*Analyzer.* Events are positions in the list; the wording of reports is dropped.

*Diagnostic session.* A request is what the server looks at in it. The server's
loop is split where another thread can see the difference: after the answer is
handed to the stack and after the event is in the list. An answer may come after
the tester gave up, and the join of the server's thread may time out, which
`late` remembers; nothing else about time is modelled. A session's result is
analyzed by a count per rule, because all its events lie in one window.

*Signal path.* An ECU's tick takes its random numbers as input and computes the
new values as the code does, clamp included; then the readings are sent one by
one, so the ECUs and a UDS session interleave on the bus. `RawValues` is the
set of outcomes `round()` may have: a half of a scale of 1.0 is exact and goes to
the even neighbour, a quotient by 0.1 may come out on either side of a half. The
limits compared in floating point (250.0, 500.0, 100.0, 420.0 and the whole
degrees) are whole numbers and products of 0.1 that come out exactly. The frames
here have the right length: nothing in the system sends another.

*Backoff and demo run.* A step takes no time; time passes in the calls that block,
each up to a constant: `client.reconnect()` (`AttemptTime`) and, once the connection
is lost, the rest of an iteration (`IterationTime`). An injected outage counts as a
broker that cannot be reached, and an attempt fails if the broker was out of reach
at any moment of it. `DemoRun` takes `run_once()` apart where a write can fail or
`main()` can close something under it, `enqueue()` into insert, trim and commit
(the counter `dropped_count` moves with the trim and is not rolled back). What the
replay sends is a number of rows, and one batch holds the table: which events they
are is `EdgeGateway`'s business. `looping` is paho's network thread, which a
`disconnect()` after a real drop leaves running. `_conn.close()` under a thread in a
transaction makes its next statement raise.

*Scenario.* The main thread's waits are its steps: a wait ends when its condition
holds, or in a timeout while it does not. The recorder writes with the gateway's
own steps, the subscriber sees what the broker has. The stage's verdict is then
compared with the broker's and the table's state.

*Dashboard state.* A callback is one step for the counters and one for its entry in
the feed, because it takes the lock twice. Entries of the feed have a key for the
object and compare by content, as dicts do in `deque.remove()`. paho's
`disconnect()` of a connected client runs the callback on the caller's thread, so
the feed says "disconnected" before it says stopped.

## 3. The runs

| run | instance | expects | what it shows |
|---|---|---|---|
| `gateway_safety` | 3 events, table of 2, batches of 2, 2 faults, 1 end of the process (967k states) | pass | no event disappears, order, bound, standing requests, counters, at-least-once, and the refinement of `TelemetryDelivery` |
| `gateway_liveness` | 2 events, batches of 1, 2 faults, 1 end (66k) | pass | events refused in an outage arrive, replays complete, the connection recovers |
| `replay_pass` | 2 batches in one call | violation | one `run_once()` replays more than a batch |
| `crash_repeats` | batch of 2, a crash in it | violation | a crash repeats more than one event |
| `outage_race` | an outage injected during a reconnect | violation | the publisher is connected during an injected outage |
| `controller` | 2 runs, 2 rows, batches of 2 (766k) | pass | one gateway at a time, no leak, no close under a running thread, never NORMAL after an outage that left rows, the lock comes back |
| `diagnostics` | the script of ten requests, 2 sessions (40k) | pass | one event per handled request and in order, a completed session is whole unless the server was late, every session ends |
| `signals` | 3 starting points (the code's and two next to the limits), 3 draws, 2 ticks, 1 UDS frame, 3 frames in the handle (367k) | pass | signals stay in their limits, every reading is encoded and accepted, what arrives is what was sent |
| `analyzer` | every list of at most 4 events, 2 ECUs, 3 times, 2 kinds (293k) | pass | reports are bursts, maximal, disjoint, and no burst is missed; the analysis ends |
| `scenario` | 4 events on 2 topics, one event per stage, 1 fault besides the outage, 1 rejected frame (4.0M) | pass | a run reported as passed delivered everything, in order apart from copies; a run without other faults, whose thread lives and whose frames are valid, is not failed by `_verify()` |
| `demo_run` | attempts of 2 ticks, backoff 1 to 2, iterations of 1, join of 1, table of 1, 2 events (1.0M) | pass | a reachable broker has the gateway back within the bound; a run loses at most the event in hand; its last line is exact |
| `dashboard` | 3 events of 2 vehicles against limits of 1 to 3, 4 callbacks (6.9M) | pass | duplicates are real, an event is shown as replayed if and only if its replay was logged recently enough, the feed counts every entry once |

Type invariants are proved and in no run.

**Bounds.** `MaxEvents`, `MaxFaults`, `MaxRejected`, `MaxEnds` (gateway),
`MaxRuns`, `MaxDepth` (controller), `MaxEvents`, `MaxTime`,
`Responses` (analyzer), `MaxSessions` (diagnostics), `MaxTicks`, `MaxForeign`,
`MaxQueue` (signals), `MaxEvents` (demo run), `MaxCallbacks` (dashboard) cap what the
environment does; `MaxSize`, `BatchSize`, `Threshold`, `Window`, the two backoffs,
`JoinTimeout`, the scenario's event counts and the dashboard's limits are the code's
parameters. Three events against a table
of two is the least that overflows while a replay is half way; two faults are an
outage and a second failure during its recovery; one end of the process leaves a
backlog for a second process. Two runs let a live run meet a scripted one and a
new run meet the outage of an old one. A batch of two rows can be left half
replayed by a drop, and the connection may drop any number of times. Four events make a burst of two or three
with one event before, after or of the other ECU. The second session meets the
server of a first one that outlived its join. The starting points of the signals
lie within one tick of every limit on either side, and the odometer's just below
and just above its range. An attempt that lasts longer than the first backoff makes
the next one due at once, and an iteration as long as the join's timeout outlives
it. The scenario's table holds all its events, as the code's does; one more fault
is a drop, a failed publish or an outage of someone else at any of its moments, one
rejected frame is the difference between the counters and the log that `_verify()`
looks for.
Every limit of the dashboard is below what three events and four callbacks reach.
`received` counts to "2 or
more", which is all any property asks.

**Deadlock** is checked for the gateway. The controller stops after `shutdown()`,
the analyzer after `analyze()` returns, sessions and ECUs after their last one
ended, a scenario after its verdict, a demo run after its exit, the dashboard when
it has stopped, so these check none.

**Fairness.** Gateway: its thread keeps running (`run()` loops with a receive
timeout); a reconnect that is due is attempted infinitely often if it can be
(strong fairness: an outage may make an attempt fail again and again, but the
backoff is at most 30 s and never gives up); paho's thread delivers callbacks
and messages; the context managers of `fault_injection.py` end their outage; a
dead process is started again. No fairness makes frames arrive, faults happen or
processes end. Faults are finitely many, which is what "the broker comes back"
means here. Controller: whoever holds the lock goes on (every join has a timeout,
every call under the lock returns), the scripted thread goes on
(`_wait_for` has timeouts), and a gateway thread that was told to stop ends. None
makes a gateway thread die of an exception.
Analyzer: the loop goes on. Diagnostics: both threads of a session go on (every
wait has a timeout, and the server looks at the stop event every 0.2 s).

## 4. What is proved

For every value of the constants (tables, batches, events, faults and ends of the
process without limit), from the assumptions that stand with the constants:

*Gateway* (`Spec` of `EdgeGateway`): type correctness; no event disappears; rows
stay in the order of acceptance; the buffer stays bounded; a backlog is always
owed a replay; the counters add up; confirmed rows leave; replay is in order;
rows leave only for a reason; and `Spec` implements `TelemetryDelivery!Spec`.

The argument has three layers. `Structure` says how the parts fit and is
inductive by itself: types, the hand (a message `publish()` waits for is of the
row or the live event its `pc` says), the batch is the oldest part of the table
and its confirmed rows were received, ids are at most `lastId`, and the table's
order and bound. The properties are not inductive without it: that deleting the
confirmed rows loses nothing needs that they were received, that the next row is
the oldest unconfirmed one needs that the batch is the oldest part of the table,
and that a trim drops the oldest row needs fresh ids above all others. On top of it
`GatewayInvariant` adds, each with its own step lemma, the properties and what
they need: while an event refused in an outage is not yet stored the publisher is
still down (`RefusedWhileDown`, for `BacklogIsOwed`), counters start over with the
process (`CountersStartOver`, for `CountersAddUp`), and only accepted events are
acknowledged, the one in hand never (`NothingEarly`, for `ConfirmedRowsLeave`). The refinement maps custody
to the rows and the event in hand; each step is an accept, a delivery, a
release, an overflow, an end or a stutter (`PromiseStep`). The module begins
with the facts on the trim: inserting above all ids into a table within bounds
leaves it within bounds and gives up at most the oldest row.

*Analyzer* (`Spec` of `DiagnosticAnalyzer`): types; every report is a burst (as
many events as the threshold, of one ECU and the rule's kind, within the window);
no event is reported twice by a rule; no report could be extended; no burst goes
unnoticed. The inductive invariant says that the group is the sorted list of the
matching events of one ECU, that the window between `start` and `end` fits, that
what is reported of this group lies behind `start`, and that every position
behind `start` that begins a burst holds a reported event. The last part is what
makes the greedy scan correct: what it jumps over it has reported, and what it
passes one by one begins no burst.

*Diagnostic session* (`Spec` of `DiagnosticSession`): types; one event per handled
request, in order; a completed session whose server ended in time is whole. The
inductive invariant says that sessions to come are untouched, that a session's
list is the transcript of what its server handled, that tester, wire and server
are in step (a request is under way only while the tester waits for it, an answer
only after it was handled), and that what is stored came from the list when the
server had ended. That the tester is never two answers ahead rests on the third.

*Signal path* (`Spec` of `SignalPath`): for all draws the signals stay within
their limits, and every reading is encoded and accepted, the odometer beyond
999,999 km excepted. The argument: a tick maps limits to limits (`PowertrainStays`,
`BatteryStays`, `BodyStays`), rounding to a nearest multiple does not cross a
limit that is itself a multiple (`RoundsToNearest`, `EncodedIsPlausible`, signal by
signal), so only plausible frames are in the handle (`QueuePlausible`); and only
the body ECU, which alone sends the odometer, can die (`OdometerIsBodys`).
The readings of each signal arrive once, in the order of the ticks and within half a
step of the encoding (`ReadingsArrive`): what was handled and what is in the handle
make up what was sent (`Counted`), and a frame's number is that of its reading
(`Turn`, the handled ones plus its place among the frames of its signal). A frame of
someone else has no turn; taking the first frame moves all turns up by one.

*Controller* (`Spec` of `DemoController`): types; at most one gateway run that was
not told to stop; no run leaks; nothing is closed under a thread unless its join
gave up; the outage flags agree with what is injected; a scripted run that is over
says so; and `status()` answers NORMAL only if no row of the run was in the buffer
when the depth was read or had been before. The invariant has two halves. `OwnerInv` says that every run
under way has exactly one owner, the controller's `live`, the holder of the lock
or the scripted thread, and what each place of the lock implies of the run it is
about; only the last run may be unstopped, because a run is started only when
nobody owns one. `ViewInv` says where evidence of an outage is kept: a row that was
ever stored is still there or was counted as replayed (`StoredInv`), because a pass
counts the rows it confirms before it deletes them (`PassInv`), with or without a
connection by then; and as `status()` reads the counter after the depth, one of its
two readings shows it. Both halves hold for any number of runs and rows and for any
batch size.

*Backoff* (`ClockSpec` of `ReconnectBackoff`): types, and the recovery bound
`Larger(MaxBackoff, AttemptTime) + IterationTime + AttemptTime`. The invariant
bounds the waiting at every place of the loop: while an attempt is due later, the
waiting and what is left add up to at most the larger of the two; a doomed attempt
began before the broker was back. With the code's 30 s, `recv()` of 0.5 s,
confirmations of 2 s and a connect timeout of 5 s the bound is 37.5 s: the
scenario's 45 s are enough, and not only longer than the cap.

*Demo run* (`Spec` of `DemoRun`): it implements `ClockSpec` (`RunKeepsTime`), so the
recovery bound holds of it; types; it loses at most the event in hand, and only to
a failed write or a join that gave up; its last line is exact. The invariant
accounts for the event in hand by the place it is at (received and not counted,
failed and not buffered) and for how far the counters are ahead of the table, and
ties what is open to where `main()` is.

*Dashboard state* (`Spec` of `DashboardState`): types and limits; the duplicates shown
are real; an event is shown as replayed if and only if the gateway logged its replay
and fewer than the limit of others since; the newest entries of the feed carry
different messages and the counts never exceed the calls. The invariant ties each
bounded store to the history it forgets: the ids seen to what was delivered
(`SeenInv`), the ids replayed to the last places of the ids in the log, of which they
are the newest (`Tracks`), the feed's counts to the calls (`FeedIs`). The counts are
summed up by a recursive function; the proofs use any function that satisfies its
equations (`Sums`), and that an entry may change its place without changing the sum
is `CountsOfMoved`.

*Scenario* (`ScenarioSpec` of `ResilienceScenario`): every behaviour of it is one of the
gateway's `Spec`, so what is proved of the gateway holds in it; a run that passes has
delivered everything in order (`PassIsEarned`); a run whose only fault is the scripted
outage, whose thread lives and whose frames are valid is never failed by `_verify()`
(`QuietRunPasses`). Both are about a judge who sees only records of other threads.
The first needs what a record means: who is logged as acknowledged has arrived and
every event out of hand is logged (`Logged`), and what arrived is in the order that
the log says (`ArrivedInOrder`: an event published live arrived before all later ones, a
replayed one before what was published after its replay). Then each check of
`_verify()` gives one part of `Earned`. The second is the converse and needs
to know where such a run can be: before, in or after its outage, and after it with
the backlog still to replay or not (`InPhase`, `Untroubled`); in these phases the rows
are the buffered events that were not replayed, in order (`RowsAreBuffered`,
`ReplaysAreOldest`, `ReplaysAscend`), live events stay out of the replay
(`LiveStaysOut`), and the broker has buffered events in the order of the log
(`BufferedArrives`); `Counted` ties the counters to the log, and `StagesSeen` keeps
what the stages waited for. From these every check holds in the last stage
(`QuietIsVerified`), so a verdict against a run has a reason (`Condemned`). No
hypothesis is on the moment at which the outage meets the thread.

Every safety invariant and action property that a passing run checks is a theorem.
Only model-checked: liveness under fairness (`OutageEventsArrive`, `ReplayCompletes`,
`ConnectionRecovers`, `LockIsReleased`, `StoppedRunsEnd`, `AnalysisEnds`,
`SessionsEnd`) and freedom from deadlock, which rest on fairness and ENABLED and are
beyond the prover; and the properties that the code violates, which are false.

## 5. Where code and text disagree

The violation runs show them; `PROJECT.json` quotes the lines.

- `replay_pass`: the loop over batches is unbounded; the comment says the batch
  size keeps a backlog from monopolizing `run_once()`.
- `crash_repeats`: the rows of a batch are deleted together, so a crash repeats
  up to a batch; the document says one re-send.
- `outage_race`: `try_reconnect()` assigns `_connected` after a blocking call and
  overwrites what other threads set meanwhile. A drop that the callback reports
  between those lines is lost in the same way: `_connected` stays true without a
  link, and a publish that fails does not change that.

Remarks, which no document contradicts:

- The status says "cleared" after the reconnect until a poll finds the publisher
  connected: the flag is reset by polls only.
- A stop that takes the live run first lets a request start another one before the
  HTTP server is closed; the controller owns that run, nothing stops it.
- `add_activity()` removes the first entry equal to the one it updates. Two entries
  are equal only if they carry the same time, so `FeedIsCoalesced` is about clocks
  that tell them apart. With equal times an entry could be shown and counted twice,
  once more messages than the lookback share one reading of the clock.
- `dropped_count` stays incremented when the commit of a trim fails
  (`buffer.py:136`). The demo run has that step (`EnqueueRaises`), but `SummaryIsExact`
  promises exact counts only without a disk error.
- `status()` puts readings of different moments together. It may answer RECOVERED
  although the publisher was at no moment of the call both connected and without
  rows: connected is read first, a drop comes between the confirmations and the
  delete of a replay, and the depth is read last. Or a row is stored after the depth
  was read. In the same way OUTAGE ("nothing buffered yet") may follow a replay. The
  documents describe the states (`ARCHITECTURE.md`, section on the lifecycle; root
  `README.md`, its table) and not how fresh the readings are, so this is no
  finding. What is proved of the answer is `NormalIsUntroubled`.
- The scenario's wait for a reconnect counts one before its outage. Such a run may
  pass with the gateway not connected at that stage; `PassIsEarned` holds of it all
  the same.
- `disconnect()` after a real drop leaves paho's network thread running until the
  process ends.

Two limits the documents state are part of the model and no findings:
`force_publish_failures` leaves the publisher connected and so starts no replay
(such events wait for the next reconnect or start), and a real outage can deliver
an event twice.

## 6. Not modelled

- CAN frames of a wrong length and UDS requests other than the dashboard's, which
  only tests send, and the UDS server's session state, which nothing reads.
- Of the dashboard: charts, sessions, rates and the values of signals (assignments
  nothing else reads), HTTP routing, the event stream and the browser.
- JSON, schemas and log formatting: declarations and layout. AWS and Docker files:
  declarations. The LLM's text: an optional remote call that only adds prose.
- SQLite failures are in `DemoRun` and not in `EdgeGateway`, time is in
  `ReconnectBackoff` and `DemoRun` and a choice elsewhere: the two would multiply
  without a property that needs both.

## 7. What is left

1. Wrong-length frames and the requests only tests send, which would make the
   bus side and the UDS server complete.
2. The safety halves of the liveness properties: invariants that name, for every
   state in which something is owed, the step that is due next. They are what a
   proof of liveness would rest on and need no ENABLED.
