-------------------------- MODULE TelemetryDelivery --------------------------
(***************************************************************************)
(* What the edge gateway promises about the telemetry it accepts, with no  *)
(* word about threads, tables or connections:                              *)
(*                                                                         *)
(*   - an accepted event is in the gateway's custody until the broker has  *)
(*     it: at-least-once delivery;                                         *)
(*   - there are two exceptions.  When one event more than Capacity is in  *)
(*     custody the oldest is given up, and each time the process ends it   *)
(*     may take with it the one event it was handling, the newest.         *)
(*                                                                         *)
(* Events are numbered in the order they are accepted.                     *)
(***************************************************************************)
EXTENDS Integers, FiniteSets

CONSTANTS Capacity, LastEvent

VARIABLES
  accepted,   (* events accepted so far: 1 .. accepted                     *)
  custody,    (* events the gateway still answers for                      *)
  delivered,  (* events the broker has                                     *)
  ends        (* how often the process ended                               *)

deliveryVars == <<accepted, custody, delivered, ends>>

Init ==
  /\ accepted = 0
  /\ custody = {}
  /\ delivered = {}
  /\ ends = 0

Accept ==
  /\ accepted < LastEvent
  /\ accepted' = accepted + 1
  /\ custody' = custody \cup {accepted + 1}
  /\ UNCHANGED <<delivered, ends>>

(* Delivery may repeat, and may come after the event was given up.         *)
Deliver ==
  /\ \E e \in 1 .. accepted : delivered' = delivered \cup {e}
  /\ UNCHANGED <<accepted, custody, ends>>

(* The gateway lets go of events, and only of events the broker has.       *)
Release ==
  /\ \E gone \in SUBSET custody :
       /\ gone \subseteq delivered
       /\ custody' = custody \ gone
  /\ UNCHANGED <<accepted, delivered, ends>>

GiveUpOldest ==
  /\ Cardinality(custody) = Capacity + 1
  /\ \E e \in custody :
       /\ \A other \in custody : e <= other
       /\ custody' = custody \ {e}
  /\ UNCHANGED <<accepted, delivered, ends>>

ProcessEnds ==
  /\ ends' = ends + 1
  /\ custody' \in {custody, custody \ {accepted}}
  /\ UNCHANGED <<accepted, delivered>>

Next == Accept \/ Deliver \/ Release \/ GiveUpOldest \/ ProcessEnds

Spec == Init /\ [][Next]_deliveryVars

=============================================================================
