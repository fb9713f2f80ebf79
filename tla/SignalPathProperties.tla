------------------------- MODULE SignalPathProperties -------------------------
(***************************************************************************)
(* What the ECUs, the signal map and the gateway's checks promise each     *)
(* other: three tables of ranges, in three packages, that must agree.      *)
(***************************************************************************)
EXTENDS SignalPath, FiniteSets

(* What a uint32 of whole kilometres still carries. *)
OdometerCarried == Fits("uint32", reading["odometer"] \div 100 + 1)

(* Every reading an ECU can make fits its data type, so no ECU's thread    *)
(* dies in send_event(), and what the gateway decodes from it passes       *)
(* validate_event(): the drift limits of the ECUs, the widths and the      *)
(* valid ranges of the signal map agree.  The odometer, which only counts  *)
(* up, is the exception once it rounds to more than 999,999 km.            *)
EveryReadingIsAccepted ==
  /\ OdometerCarried => \A e \in Ecu : thread[e] # "died"
  /\ \A s \in Signal : \A i \in DOMAIN handled[s] :
       ~handled[s][i].valid => s = "odometer" /\ handled[s][i].value > 99999900

(* Where a signal's frames are on their way to the gateway. *)
Frames(s) == {i \in DOMAIN queue : queue[i].id = s}

(* A decoded value is within half a step of the reading it is of. *)
Rounded(s, value, made) ==
  LET scale == GetSignalDefinition(s).scale IN Between(-scale, 2 * (value - made), scale)

(* The gateway gets each signal's readings once, in the order of the ticks *)
(* and within half a step of the signal's resolution, whatever the other   *)
(* ECUs and a UDS session send in between: what it made of a signal, and   *)
(* then what is on its way, are the readings one by one.                   *)
(* encode_signal() and decode_signal() are inverse up to rounding.         *)
ReadingsArrive ==
  \A s \in Signal :
    /\ Len(handled[s]) + Cardinality(Frames(s)) = Len(sent[s])
    /\ \A i \in DOMAIN handled[s] : Rounded(s, handled[s][i].value, sent[s][i])
    /\ \A i \in Frames(s) :
         LET turn == Len(handled[s]) + Cardinality({j \in Frames(s) : j <= i})
         IN Rounded(s, PhysicalValue(s, queue[i].raw), sent[s][turn])

=============================================================================
