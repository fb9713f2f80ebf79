---------------------------- MODULE DashboardState ----------------------------
(***************************************************************************)
(* What the dashboard knows of the system: DashboardState of               *)
(* dashboard/backend/state.py, fed by the MQTT subscription and the log    *)
(* tap of sources.py, from Dashboard.start() to Dashboard.stop()           *)
(* (server.py).                                                            *)
(*                                                                         *)
(* Four threads write: paho's network thread of the subscription, those    *)
(* the gateway logs on (one of them at a time holds the handler's lock),   *)
(* and the main thread.  The state's lock is held over single steps only,  *)
(* but what one callback does takes two of them: the counters first, then  *)
(* the entry of the activity feed.                                         *)
(*                                                                         *)
(* An event is its event_id.  Of its content only the vehicle is looked    *)
(* at; sessions, charts, rates and ages are left out.                      *)
(***************************************************************************)
EXTENDS Integers, Sequences, FiniteSets

CONSTANTS
  Events,             (* event_ids                                         *)
  Vehicles,           (* number of vehicles the events are spread over     *)
  MaxSeen,            (* MAX_SEEN_EVENT_IDS                                *)
  MaxReplayed,        (* MAX_REPLAYED_IDS                                  *)
  MaxRecent,          (* MAX_RECENT_EVENTS                                 *)
  MaxVehicles,        (* MAX_VEHICLES                                      *)
  MaxActivity,        (* MAX_ACTIVITY                                      *)
  Lookback,           (* COALESCE_LOOKBACK                                 *)
  MaxCallbacks        (* Bound: callbacks of paho and of the log handler.  *)

ASSUME DashboardAssumption ==
  /\ Events \subseteq Nat
  /\ {Vehicles, MaxSeen, MaxReplayed, MaxRecent, MaxVehicles, MaxActivity, Lookback}
       \subseteq Nat \ {0}
  /\ Lookback < MaxActivity
  /\ MaxCallbacks \in Nat

VARIABLES
  seen,               (* _seen_ids, oldest first                           *)
  replayed,           (* _replayed_ids, oldest first                       *)
  recent,             (* _recent                                           *)
  vehicles,           (* _vehicles: names and event counts, oldest first   *)
  total,              (* _total_received, _malformed, _duplicates          *)
  activity,           (* _activity                                         *)
  clock,              (* the reading of _clock() the last entry carries    *)
  status,             (* TelemetrySubscriber._status                       *)
  link,               (* its client is connected to the broker             *)
  loop,               (* paho's network thread runs                        *)
  tapped,             (* LogTap is attached                                *)
  main,               (* where Dashboard.start() or stop() is              *)
  note                (* per thread, the entry it has yet to add to the    *)
                      (* feed                                              *)

(* History. *)
VARIABLES
  delivered,          (* distinct events received                          *)
  logged,             (* events the gateway logged as replayed, in order   *)
  callbacks,          (* callbacks of paho and of the log handler          *)
  entries,            (* calls of add_activity()                           *)
  tied                (* two of them read the same time                    *)

telemetryVars == <<seen, recent, vehicles, delivered>>
replayVars == <<replayed, logged>>
feedVars == <<activity, clock, entries, tied>>
subscriberVars == <<status, link, loop>>
vars ==
  <<telemetryVars, replayVars, feedVars, subscriberVars, total, tapped, main, note, callbacks>>

Nothing == "nothing"
Texts ==
  {"started", "connected", "disconnected", "malformed", "replayed", "buffered"}
Threads == {"network", "gateway", "main"}

TelemetryTypeOK ==
  /\ seen \in Seq(Events) /\ Len(seen) <= MaxSeen
  /\ recent \in Seq(Events) /\ Len(recent) <= MaxRecent
  /\ vehicles \in Seq([name : 0 .. Vehicles - 1, count : Nat]) /\ Len(vehicles) <= MaxVehicles
  /\ delivered \subseteq Events
  /\ total \in [received : Nat, malformed : Nat, duplicates : Nat]

ReplayTypeOK ==
  /\ replayed \in Seq(Events) /\ Len(replayed) <= MaxReplayed
  /\ logged \in Seq(Events)

FeedTypeOK ==
  /\ activity \in Seq([key : Nat, at : Nat, text : Texts, count : Nat])
  /\ Len(activity) <= MaxActivity
  /\ clock \in Nat
  /\ entries \in Nat
  /\ tied \in BOOLEAN

ThreadsTypeOK ==
  /\ status \in {"not started", "connecting", "connected", "disconnected", "stopped"}
  /\ link \in BOOLEAN /\ loop \in BOOLEAN /\ tapped \in BOOLEAN
  /\ main \in {"new", "starting", "serving", "stopping", "unlinked", "stopped"}
  /\ note \in [Threads -> Texts \cup {Nothing}]
  /\ callbacks \in 0 .. MaxCallbacks

TypeOK == TelemetryTypeOK /\ ReplayTypeOK /\ FeedTypeOK /\ ThreadsTypeOK

Init ==
  /\ seen = <<>>
  /\ replayed = <<>>
  /\ recent = <<>>
  /\ vehicles = <<>>
  /\ total = [received |-> 0, malformed |-> 0, duplicates |-> 0]
  /\ activity = <<>>
  /\ clock = 0
  /\ status = "not started"
  /\ link = FALSE
  /\ loop = FALSE
  /\ tapped = FALSE
  /\ main = "new"
  /\ note = [t \in Threads |-> Nothing]
  /\ delivered = {}
  /\ logged = <<>>
  /\ callbacks = 0
  /\ entries = 0
  /\ tied = FALSE

InSeq(x, s) == \E i \in DOMAIN s : s[i] = x

(* The last n entries of a sequence, or all of them. *)
Newest(s, n) == IF Len(s) <= n THEN s ELSE SubSeq(s, Len(s) - n + 1, Len(s))

FirstIn(places) == CHOOSE i \in places : \A j \in places : i <= j
Without(s, i) == SubSeq(s, 1, i - 1) \o SubSeq(s, i + 1, Len(s))

(* Mutant of Remember: an id that is known keeps its place. *)
RememberInPlace(store, key, limit) ==
  IF InSeq(key, store) THEN store ELSE Newest(Append(store, key), limit)

(* _remember(): to the end, and the oldest beyond the limit are forgotten. *)
Remember(store, key, limit) ==
  LET known == {i \in DOMAIN store : store[i] = key}
      others == IF known = {} THEN store ELSE Without(store, FirstIn(known))
  IN Newest(Append(others, key), limit)

(* The ids of one log record, one after the other. *)
RememberAll(store, keys, limit) ==
  LET After[n \in 0 .. Len(keys)] ==
        IF n = 0 THEN store ELSE Remember(After[n - 1], keys[n], limit)
  IN After[Len(keys)]

(* _update_vehicle(): least recently seen first, evicted from the front. *)
VehicleOf(e) == e % Vehicles
UpdateVehicle(name) ==
  LET known == {i \in DOMAIN vehicles : vehicles[i].name = name}
      others == IF known = {} THEN vehicles ELSE Without(vehicles, FirstIn(known))
      count == IF known = {} THEN 0 ELSE vehicles[FirstIn(known)].count
  IN Newest(Append(others, [name |-> name, count |-> count + 1]), MaxVehicles)

-----------------------------------------------------------------------------
(* add_activity().  An entry is a dict: `key` tells one object from        *)
(* another, `==` compares the rest.                                        *)

Equal(a, b) == a.at = b.at /\ a.text = b.text /\ a.count = b.count

FreshKey ==
  FirstIn({k \in 1 .. Len(activity) + 1 : \A i \in DOMAIN activity : activity[i].key # k})

(* Mutant of Repeated: the newest entry is not compared. *)
RepeatedBefore(text) ==
  {i \in Len(activity) - Lookback + 1 .. Len(activity) - 1 :
     i \in DOMAIN activity /\ activity[i].text = text}

(* Entries of the lookback that carry the same message from the same       *)
(* source.                                                                 *)
Repeated(text) ==
  {i \in DOMAIN activity : Len(activity) - Lookback < i /\ activity[i].text = text}

(* The repeated entry is updated and moved to the end.  What is removed    *)
(* for that is the first entry equal to it, which may be another one.      *)
Coalesced(text, now) ==
  LET old == activity[FirstIn(Repeated(text))]
      new == [old EXCEPT !.count = @ + 1, !.at = now]
      rest == Without(activity, FirstIn({i \in DOMAIN activity : Equal(activity[i], old)}))
  IN Append([i \in DOMAIN rest |-> IF rest[i].key = old.key THEN new ELSE rest[i]], new)

(* add_activity().  It reads the clock before it takes the lock, so threads *)
(* may append out of the order of their readings.  Only whether two of     *)
(* them are equal makes a difference (Equal): readings are numbered in the *)
(* order of the entries, and equal ones are neighbours.                    *)
AddActivity(text) ==
  /\ entries' = entries + 1
  /\ clock' \in {clock, clock + 1}
  /\ tied' = (tied \/ clock' = clock)
  /\ activity' = IF Repeated(text) # {} THEN Coalesced(text, clock')
                 ELSE Newest(Append(activity, [key |-> FreshKey, at |-> clock',
                                               text |-> text, count |-> 1]), MaxActivity)

(* A thread adds the entry it owes. *)
AddNote(t) ==
  /\ note[t] # Nothing
  /\ AddActivity(note[t])
  /\ note' = [note EXCEPT ![t] = Nothing]
  /\ UNCHANGED <<telemetryVars, replayVars, subscriberVars, total, tapped, main, callbacks>>

-----------------------------------------------------------------------------
(* TelemetrySubscriber, on paho's network thread.                          *)

(* A callback is called, and counted. *)
Callback == callbacks < MaxCallbacks /\ callbacks' = callbacks + 1

NetworkIdle == loop /\ note["network"] = Nothing

(* _set_status(): a change is announced once the lock is released. *)
SetStatus(t, new) ==
  /\ status' = new
  /\ note' = IF new # status /\ new \in {"connected", "disconnected"}
             THEN [note EXCEPT ![t] = new] ELSE note

(* Mutant of CountDuplicate: the id is remembered first. *)
CountDuplicateAfter(e) ==
  IF InSeq(e, Remember(seen, e, MaxSeen)) THEN 1 ELSE 0

CountDuplicate(e) == IF InSeq(e, seen) THEN 1 ELSE 0

(* ingest_telemetry() of a message that fits the schema and its topic.     *)
Receive(e) ==
  /\ NetworkIdle
  /\ Callback
  /\ link
  /\ total' = [total EXCEPT !.received = @ + 1, !.duplicates = @ + CountDuplicate(e)]
  /\ seen' = Remember(seen, e, MaxSeen)
  /\ recent' = Newest(Append(recent, e), MaxRecent)
  /\ vehicles' = UpdateVehicle(VehicleOf(e))
  /\ delivered' = delivered \cup {e}
  /\ UNCHANGED <<replayVars, feedVars, subscriberVars, tapped, main, note>>

ReceiveMalformed ==
  /\ NetworkIdle
  /\ Callback
  /\ link
  /\ total' = [total EXCEPT !.malformed = @ + 1]
  /\ note' = [note EXCEPT !["network"] = "malformed"]
  /\ UNCHANGED <<telemetryVars, replayVars, feedVars, subscriberVars, tapped, main>>

OnConnect ==
  /\ NetworkIdle
  /\ Callback
  /\ ~link
  /\ link' = TRUE
  /\ SetStatus("network", "connected")
  /\ UNCHANGED <<telemetryVars, replayVars, feedVars, loop, total, tapped, main>>

(* The broker refuses, cannot be reached, or the session breaks. *)
OnDisconnect ==
  /\ NetworkIdle
  /\ Callback
  /\ status # "stopped"
  /\ link' = FALSE
  /\ SetStatus("network", "disconnected")
  /\ UNCHANGED <<telemetryVars, replayVars, feedVars, loop, total, tapped, main>>

Subscription ==
  \/ \E e \in Events : Receive(e)
  \/ ReceiveMalformed
  \/ OnConnect
  \/ OnDisconnect
  \/ AddNote("network")

-----------------------------------------------------------------------------
(* LogTap, on the threads the gateway logs on: ingest_log_record().        *)

TapIdle == tapped /\ note["gateway"] = Nothing

(* The event_ids of one "replayed buffered events": up to two. *)
Batches == {<<e>> : e \in Events} \cup {b \in Events \X Events : b[1] < b[2]}

LogReplayed ==
  /\ TapIdle
  /\ Callback
  /\ \E ids \in Batches :
       /\ replayed' = RememberAll(replayed, ids, MaxReplayed)
       /\ logged' = logged \o ids
  /\ note' = [note EXCEPT !["gateway"] = "replayed"]
  /\ UNCHANGED <<telemetryVars, feedVars, subscriberVars, total, tapped, main>>

(* Any other record of the gateway that is not routine. *)
LogOther ==
  /\ TapIdle
  /\ Callback
  /\ note' = [note EXCEPT !["gateway"] = "buffered"]
  /\ UNCHANGED <<telemetryVars, replayVars, feedVars, subscriberVars, total, tapped, main>>

Logging == LogReplayed \/ LogOther \/ AddNote("gateway")

-----------------------------------------------------------------------------
(* Dashboard.start() and stop(), on the main thread.                       *)

MainIdle == note["main"] = Nothing

(* connect_async() keeps trying in the background, or fails at once. *)
Start ==
  /\ main = "new"
  /\ tapped' = TRUE
  /\ \/ status' = "connecting" /\ loop' = TRUE /\ UNCHANGED note
     \/ SetStatus("main", "disconnected") /\ UNCHANGED loop
  /\ main' = "starting"
  /\ UNCHANGED <<telemetryVars, replayVars, feedVars, link, total, callbacks>>

AnnounceStart ==
  /\ main = "starting"
  /\ MainIdle
  /\ AddActivity("started")
  /\ main' = "serving"
  /\ UNCHANGED <<telemetryVars, replayVars, subscriberVars, total, tapped, note, callbacks>>

(* loop_stop() waits for the callback that runs. *)
StopLoop ==
  /\ main = "serving"
  /\ note["network"] = Nothing
  /\ loop' = FALSE
  /\ main' = "stopping"
  /\ UNCHANGED <<telemetryVars, replayVars, feedVars, status, link>>
  /\ UNCHANGED <<total, tapped, note, callbacks>>

(* disconnect() of a connected client runs on_disconnect on this thread.   *)
DisconnectClient ==
  /\ main = "stopping"
  /\ IF link THEN SetStatus("main", "disconnected") ELSE UNCHANGED <<status, note>>
  /\ link' = FALSE
  /\ main' = "unlinked"
  /\ UNCHANGED <<telemetryVars, replayVars, feedVars, loop, total, tapped, callbacks>>

StopDone ==
  /\ main = "unlinked"
  /\ MainIdle
  /\ status' = "stopped"
  /\ tapped' = FALSE
  /\ main' = "stopped"
  /\ UNCHANGED <<telemetryVars, replayVars, feedVars, link, loop, total, note, callbacks>>

MainThread ==
  \/ Start
  \/ AnnounceStart
  \/ StopLoop
  \/ DisconnectClient
  \/ StopDone
  \/ AddNote("main")

Next == Subscription \/ Logging \/ MainThread

Spec == Init /\ [][Next]_vars

-----------------------------------------------------------------------------
(* snapshot(): the event stream as the browser gets it.                    *)

Shown(e) == IF InSeq(e, replayed) THEN "replayed" ELSE "live"

=============================================================================
