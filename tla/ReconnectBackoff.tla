---------------------------- MODULE ReconnectBackoff ----------------------------
(***************************************************************************)
(* When EdgeGateway.run() tries to reconnect: try_reconnect() of           *)
(* edge_gateway/mqtt_publisher.py under a clock, called once per iteration *)
(* of the gateway's loop.  The rest of an iteration is one stretch of time *)
(* here; the modules that extend this one say what happens in it.          *)
(*                                                                         *)
(* Time passes in ticks.  Clock readings are kept as the time that is left *)
(* or has passed: `due` is _next_reconnect_attempt_at less the present, 0  *)
(* once that moment is over.  A step takes no time, what takes time is the *)
(* waiting between the steps:                                              *)
(*   client.reconnect()  at most AttemptTime (the client's timeout);       *)
(*   the rest of the iteration, once the publisher is not connected, at    *)
(*     most IterationTime: a publish() that still waits gives up, a replay *)
(*     stops at the next row, recv() times out.                            *)
(***************************************************************************)
EXTENDS Integers

CONSTANTS
  InitialBackoff,   (* INITIAL_RECONNECT_BACKOFF_SECONDS                   *)
  MaxBackoff,       (* MAX_RECONNECT_BACKOFF_SECONDS                       *)
  AttemptTime,
  IterationTime

ASSUME BackoffAssumption ==
  /\ InitialBackoff \in Nat \ {0}
  /\ MaxBackoff \in Nat
  /\ InitialBackoff <= MaxBackoff
ASSUME TimeAssumption == AttemptTime \in Nat /\ IterationTime \in Nat

VARIABLES
  connected,    (* _connected                                              *)
  backoff,      (* _reconnect_backoff_seconds                              *)
  due,          (* time until the next attempt is due                      *)
  at,           (* "off": no thread; "top" of the loop; in an "attempt";   *)
                (* in the "rest" of the iteration                          *)
  spent,        (* time since the thread got there (or lost the connection)*)
  reachable,    (* the broker can be reached; an injected outage counts as *)
                (* one that cannot                                         *)
  doomed,       (* ... and could not at some time of the running attempt   *)
  waiting       (* History: for how long the broker has been reachable and *)
                (* the publisher not connected                             *)

linkVars == <<connected, reachable>>
backoffVars == <<backoff, due>>
clockVars == <<linkVars, backoffVars, at, spent, doomed, waiting>>

Smaller(a, b) == IF a <= b THEN a ELSE b
Larger(a, b) == IF a <= b THEN b ELSE a

(* How long a reachable broker goes without the gateway at most. *)
RecoveryBound == Larger(MaxBackoff, AttemptTime) + IterationTime + AttemptTime

ClockTypeOK ==
  /\ connected \in BOOLEAN
  /\ backoff \in InitialBackoff .. MaxBackoff
  /\ due \in 0 .. MaxBackoff
  /\ at \in {"off", "top", "attempt", "rest"}
  /\ spent \in Nat
  /\ reachable \in BOOLEAN
  /\ doomed \in BOOLEAN
  /\ waiting \in Nat

ClockInit ==
  /\ connected = FALSE
  /\ backoff = InitialBackoff
  /\ due = 0
  /\ at = "off"
  /\ spent = 0
  /\ reachable \in BOOLEAN
  /\ doomed = FALSE
  /\ waiting = 0

-----------------------------------------------------------------------------
(* connect(), and the thread that runs run().                              *)

Connects ==
  /\ at = "off"
  /\ reachable
  /\ connected' = TRUE
  /\ backoff' = InitialBackoff
  /\ due' = 0
  /\ waiting' = 0
  /\ UNCHANGED <<at, spent, reachable, doomed>>

ThreadStarts ==
  /\ at = "off"
  /\ at' = "top"
  /\ UNCHANGED <<linkVars, backoffVars, spent, doomed, waiting>>

(* run() returns or raises, or the process ends. *)
ThreadEnds ==
  /\ at # "off"
  /\ at' = "off"
  /\ waiting' = 0
  /\ UNCHANGED <<linkVars, backoffVars, spent, doomed>>

-----------------------------------------------------------------------------
(* try_reconnect()                                                         *)

(* is_connected(), or the backoff window is still open. *)
NoAttempt ==
  /\ at = "top"
  /\ connected \/ due > 0
  /\ at' = "rest"
  /\ spent' = 0
  /\ UNCHANGED <<linkVars, backoffVars, doomed, waiting>>

AttemptStarts ==
  /\ at = "top"
  /\ ~connected
  /\ due = 0
  /\ at' = "attempt"
  /\ spent' = 0
  /\ doomed' = ~reachable
  /\ UNCHANGED <<linkVars, backoffVars, waiting>>

AttemptSucceeds ==
  /\ at = "attempt"
  /\ reachable
  /\ connected' = TRUE
  /\ backoff' = InitialBackoff
  /\ due' = 0
  /\ at' = "rest"
  /\ spent' = 0
  /\ waiting' = 0
  /\ UNCHANGED <<reachable, doomed>>

(* Mutant of AttemptFails: the window begins when the attempt is over.      *)
AttemptFailsLate ==
  /\ at = "attempt"
  /\ doomed
  /\ due' = backoff
  /\ backoff' = Smaller(2 * backoff, MaxBackoff)
  /\ at' = "rest"
  /\ spent' = 0
  /\ UNCHANGED <<linkVars, doomed, waiting>>

(* The next attempt is due one backoff after this one began: at once if it *)
(* took that long.                                                         *)
AttemptFails ==
  /\ at = "attempt"
  /\ doomed
  /\ due' = Larger(backoff - spent, 0)
  /\ backoff' = Smaller(2 * backoff, MaxBackoff)
  /\ at' = "rest"
  /\ spent' = 0
  /\ UNCHANGED <<linkVars, doomed, waiting>>

RestEnds ==
  /\ at = "rest"
  /\ at' = "top"
  /\ UNCHANGED <<linkVars, backoffVars, spent, doomed, waiting>>

-----------------------------------------------------------------------------
(* The broker, and time.                                                   *)

BrokerGoes ==
  /\ reachable
  /\ reachable' = FALSE
  /\ doomed' = TRUE
  /\ waiting' = 0
  /\ UNCHANGED <<connected, backoffVars, at, spent>>

BrokerComesBack ==
  /\ ~reachable
  /\ reachable' = TRUE
  /\ UNCHANGED <<connected, backoffVars, at, spent, doomed, waiting>>

(* _handle_disconnect(), inject_connection_outage() or disconnect(). *)
ConnectionLost ==
  /\ connected
  /\ connected' = FALSE
  /\ spent' = 0
  /\ UNCHANGED <<reachable, backoffVars, at, doomed, waiting>>

(* The thread need not act before time goes on. *)
ThreadWaits ==
  \/ at = "off"
  \/ at = "attempt" /\ spent < AttemptTime
  \/ at = "rest" /\ (connected \/ spent < IterationTime)

(* Bound: how long a connected thread or none has been there is not told. *)
Tick ==
  /\ ThreadWaits
  /\ due' = Larger(due - 1, 0)
  /\ spent' = IF at = "off" \/ (at = "rest" /\ connected) THEN 0 ELSE spent + 1
  /\ waiting' = IF reachable /\ ~connected /\ at # "off" THEN waiting + 1 ELSE 0
  /\ UNCHANGED <<linkVars, backoff, at, doomed>>

ClockNext ==
  \/ Connects
  \/ ThreadStarts
  \/ ThreadEnds
  \/ NoAttempt
  \/ AttemptStarts
  \/ AttemptSucceeds
  \/ AttemptFails
  \/ RestEnds
  \/ BrokerGoes
  \/ BrokerComesBack
  \/ ConnectionLost
  \/ Tick

ClockSpec == ClockInit /\ [][ClockNext]_clockVars

-----------------------------------------------------------------------------
(* A broker that can be reached has the gateway back within one backoff,   *)
(* one iteration and one attempt, whatever happened before: failed         *)
(* attempts that took longer than their backoff, drops in the middle of an *)
(* iteration, brokers that come and go (mqtt_publisher.py 159-192).  The   *)
(* scenario's recovery timeout of 45 s relies on it.                       *)
RecoversInTime == ~connected /\ at # "off" => waiting <= RecoveryBound

=============================================================================
