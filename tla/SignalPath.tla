----------------------------- MODULE SignalPath -----------------------------
(***************************************************************************)
(* The way of a reading from a simulated ECU to a validated event:         *)
(* simulation/ecus/ make it, simulation/can_bus.py and the signal map      *)
(* (common/can_signal_map.py) put it on the bus as a frame, and            *)
(* edge_gateway/ingestion.py and validation.py make an event of it again   *)
(* and check its range.                                                    *)
(*                                                                         *)
(* Physical values are integers, hundredths of the signal's unit: an ECU   *)
(* rounds its readings to two places, and every scale, offset and limit of *)
(* the signal map and of the ECUs is a whole number of hundredths.  What   *)
(* an ECU keeps beyond two places is dropped: its next reading moves by at *)
(* most as much either way.  python-can's virtual bus is external: frames  *)
(* reach the other handles in the order they were sent.  The gateway's is  *)
(* opened before the ECUs' threads start.                                  *)
(***************************************************************************)
EXTENDS Integers, Sequences

CONSTANTS
  Begin,       (* what the ECUs' signals may be when the run is first seen *)
  Draws,       (* what the random numbers of a tick may be                 *)
  MaxTicks,    (* Bound: ticks of all ECUs.                                *)
  MaxForeign,  (* Bound: frames of the UDS session on the same bus.        *)
  MaxQueue     (* Bound: frames the gateway is behind.                     *)

Ecu == {"powertrain", "battery", "body"}

(* The readings a tick returns, in the order run_ecu() sends them. *)
Readings ==
  [powertrain |-> <<"speed", "rpm", "throttle">>,
   battery    |-> <<"soc", "voltage", "current", "temp">>,
   body       |-> <<"door", "indicator", "odometer", "ambient">>]

Signal == {"speed", "rpm", "throttle", "soc", "voltage", "current", "temp",
           "door", "indicator", "odometer", "ambient"}

SignalDefinition(dtype, scale, offset, low, high) ==
  [dtype |-> dtype, scale |-> scale, offset |-> offset, low |-> low, high |-> high]

(* Mutant of GetSignalDefinition: the offset of the pack temperature is    *)
(* lost.                                                                   *)
DefinitionWithoutOffset(s) ==
  CASE s = "speed"      -> SignalDefinition("uint16", 10, 0, 0, 25000)
    [] s = "rpm"        -> SignalDefinition("uint16", 100, 0, 0, 800000)
    [] s = "throttle"   -> SignalDefinition("uint8", 100, 0, 0, 10000)
    [] s = "soc"        -> SignalDefinition("uint16", 10, 0, 0, 10000)
    [] s = "voltage"    -> SignalDefinition("uint16", 10, 0, 0, 50000)
    [] s = "current"    -> SignalDefinition("int16", 10, 0, -50000, 50000)
    [] s = "temp"       -> SignalDefinition("uint8", 100, 0, -4000, 12000)
    [] s = "door"       -> SignalDefinition("uint8", 100, 0, 0, 1500)
    [] s = "indicator"  -> SignalDefinition("uint8", 100, 0, 0, 300)
    [] s = "odometer"   -> SignalDefinition("uint32", 100, 0, 0, 99999900)
    [] s = "ambient"    -> SignalDefinition("uint8", 100, -4000, -4000, 6000)

(* get_signal_definition(), the rows of SIGNAL_REGISTRY. *)
GetSignalDefinition(s) ==
  CASE s = "speed"      -> SignalDefinition("uint16", 10, 0, 0, 25000)
    [] s = "rpm"        -> SignalDefinition("uint16", 100, 0, 0, 800000)
    [] s = "throttle"   -> SignalDefinition("uint8", 100, 0, 0, 10000)
    [] s = "soc"        -> SignalDefinition("uint16", 10, 0, 0, 10000)
    [] s = "voltage"    -> SignalDefinition("uint16", 10, 0, 0, 50000)
    [] s = "current"    -> SignalDefinition("int16", 10, 0, -50000, 50000)
    [] s = "temp"       -> SignalDefinition("uint8", 100, -4000, -4000, 12000)
    [] s = "door"       -> SignalDefinition("uint8", 100, 0, 0, 1500)
    [] s = "indicator"  -> SignalDefinition("uint8", 100, 0, 0, 300)
    [] s = "odometer"   -> SignalDefinition("uint32", 100, 0, 0, 99999900)
    [] s = "ambient"    -> SignalDefinition("uint8", 100, -4000, -4000, 6000)

Between(low, value, high) == low <= value /\ value <= high

(* struct.pack() of a raw value does not fail. *)
Fits(dtype, raw) ==
  \/ dtype = "uint8"  /\ Between(0, raw, 255)
  \/ dtype = "uint16" /\ Between(0, raw, 65535)
  \/ dtype = "int16"  /\ Between(-32768, raw, 32767)
  \/ dtype = "uint32" /\ Between(0, raw \div 65536, 65535)

(* Mutant of RawValues: int() instead of round(). *)
TruncatedRawValue(signal, value) ==
  {(value - GetSignalDefinition(signal).offset) \div GetSignalDefinition(signal).scale}

(* round((physical_value - offset) / scale) in encode_signal().  A half is *)
(* exact in floating point when the scale is 1.0 and goes to the even      *)
(* neighbour; a quotient by 0.1 may come out on either side of it.         *)
RawValues(signal, value) ==
  LET scale == GetSignalDefinition(signal).scale
      whole == (value - GetSignalDefinition(signal).offset) \div scale
      rest  == (value - GetSignalDefinition(signal).offset) % scale
  IN {raw \in {whole, whole + 1} :
        /\ raw = whole => 2 * rest <= scale
        /\ raw = whole + 1 => 2 * rest >= scale
        /\ 2 * rest = scale /\ scale = 100 => raw % 2 = 0}

(* decode_signal() *)
PhysicalValue(signal, raw) ==
  raw * GetSignalDefinition(signal).scale + GetSignalDefinition(signal).offset

(* validate_event() *)
IsValid(signal, value) ==
  Between(GetSignalDefinition(signal).low, value, GetSignalDefinition(signal).high)

-----------------------------------------------------------------------------
(* The ECUs' ticks: new values from old ones and the tick's random draws,  *)
(* which are per cent of the step for a signal that drifts.                *)

IsDraw(draw) ==
  /\ draw \in [Signal -> Int]
  /\ \A s \in Signal : Between(-100, draw[s], 100)
  /\ draw["door"] \in 0 .. 4        (* no change, or one of four doors     *)
  /\ draw["indicator"] \in -1 .. 3  (* no change, or the new state         *)
  /\ draw["odometer"] \in 0 .. 2

Drift(current, step, draw, low, high) ==
  LET moved == current + (step * draw) \div 100
  IN IF moved < low THEN low ELSE IF moved > high THEN high ELSE moved

PowertrainTick(r, draw) ==
  LET throttle == Drift(r["throttle"], 500, draw["throttle"], 0, 10000)
  IN [r EXCEPT !["throttle"] = throttle,
               !["speed"] = Drift(@, 200 + throttle \div 20, draw["speed"], 0, 25000),
               !["rpm"] = Drift(@, 10000 + 5 * throttle, draw["rpm"], 80000, 800000)]

BatteryTick(r, draw) ==
  [r EXCEPT !["soc"] = Drift(@ - 5, 30, draw["soc"], 0, 10000),
            !["voltage"] = Drift(@, 200, draw["voltage"], 30000, 42000),
            !["current"] = Drift(@, 1500, draw["current"], -50000, 50000),
            !["temp"] = Drift(@, 50, draw["temp"], -4000, 12000)]

(* A door opens or closes: its bit of the mask is flipped. *)
FlipDoor(mask, door) ==
  LET bit == <<100, 200, 400, 800>>[door]
  IN IF (mask \div bit) % 2 = 1 THEN mask - bit ELSE mask + bit

BodyTick(r, draw) ==
  [r EXCEPT !["door"] = IF draw["door"] = 0 THEN @ ELSE FlipDoor(@, draw["door"]),
            !["indicator"] = IF draw["indicator"] = -1 THEN @ ELSE 100 * draw["indicator"],
            !["odometer"] = @ + draw["odometer"],
            !["ambient"] = Drift(@, 20, draw["ambient"], -4000, 6000)]

(* Where the ECUs keep their signals: the odometer has no upper end. *)
WithinLimits(r) ==
  /\ r \in [Signal -> Int]
  /\ Between(0, r["speed"], 25000)
  /\ Between(80000, r["rpm"], 800000)
  /\ Between(0, r["throttle"], 10000)
  /\ Between(0, r["soc"], 10000)
  /\ Between(30000, r["voltage"], 42000)
  /\ Between(-50000, r["current"], 50000)
  /\ Between(-4000, r["temp"], 12000)
  /\ \E mask \in 0 .. 15 : r["door"] = 100 * mask
  /\ \E state \in 0 .. 3 : r["indicator"] = 100 * state
  /\ 0 <= r["odometer"]
  /\ Between(-4000, r["ambient"], 6000)

ASSUME BeginAssumption == \A r \in Begin : WithinLimits(r)
ASSUME DrawsAssumption == \A draw \in Draws : IsDraw(draw)
ASSUME BoundsAssumption == MaxTicks \in Nat /\ MaxForeign \in Nat /\ MaxQueue \in Nat

-----------------------------------------------------------------------------

VARIABLES
  reading,    (* of each signal: the value in its ECU                      *)
  thread,     (* of each ECU: its thread runs, ended, or died of an error  *)
  toSend,     (* of each ECU: the readings of this tick still to be sent   *)
  stop,       (* the stop event is set                                     *)
  queue,      (* the frames in the gateway's handle on the bus: [id, raw]  *)
  sent,       (* of each signal: the readings put in it                    *)
  handled,    (* of each signal: what the gateway made of them             *)
  ticks,      (* ticks so far                                              *)
  foreign     (* frames of a UDS session so far                            *)

vars == <<reading, thread, toSend, stop, queue, sent, handled, ticks, foreign>>

TypeOK ==
  /\ WithinLimits(reading)
  /\ thread \in [Ecu -> {"running", "ended", "died"}]
  /\ toSend \in [Ecu -> Seq(Signal)]
  /\ stop \in BOOLEAN
  /\ queue \in Seq([id : Signal \cup {"uds"}, raw : Int])
  /\ sent \in [Signal -> Seq(Int)]
  /\ handled \in [Signal -> Seq([value : Int, valid : BOOLEAN])]
  /\ ticks \in 0 .. MaxTicks
  /\ foreign \in 0 .. MaxForeign

Init ==
  /\ reading \in Begin
  /\ thread = [e \in Ecu |-> "running"]
  /\ toSend = [e \in Ecu |-> <<>>]
  /\ stop = FALSE
  /\ queue = <<>>
  /\ sent = [s \in Signal |-> <<>>]
  /\ handled = [s \in Signal |-> <<>>]
  /\ ticks = 0
  /\ foreign = 0

(* run_ecu(): a tick, whose readings are sent one after the other. *)
Tick(e) ==
  /\ thread[e] = "running"
  /\ toSend[e] = <<>>
  /\ ~stop
  /\ ticks < MaxTicks
  /\ ticks' = ticks + 1
  /\ \E draw \in Draws :
       \/ e = "powertrain" /\ reading' = PowertrainTick(reading, draw)
       \/ e = "battery" /\ reading' = BatteryTick(reading, draw)
       \/ e = "body" /\ reading' = BodyTick(reading, draw)
  /\ toSend' = [toSend EXCEPT ![e] = Readings[e]]
  /\ UNCHANGED <<thread, stop, queue, sent, handled, foreign>>

(* send_event().  What encode_signal() raises nothing catches: the ECU's   *)
(* thread is gone.                                                         *)
SendReading(e) ==
  /\ toSend[e] # <<>>
  /\ Len(queue) < MaxQueue
  /\ LET signal == Head(toSend[e])
     IN \E raw \in RawValues(signal, reading[signal]) :
          IF Fits(GetSignalDefinition(signal).dtype, raw)
            THEN /\ toSend' = [toSend EXCEPT ![e] = Tail(@)]
                 /\ queue' = Append(queue, [id |-> signal, raw |-> raw])
                 /\ sent' = [sent EXCEPT ![signal] = Append(@, reading[signal])]
                 /\ UNCHANGED thread
            ELSE /\ thread' = [thread EXCEPT ![e] = "died"]
                 /\ toSend' = [toSend EXCEPT ![e] = <<>>]
                 /\ UNCHANGED <<queue, sent>>
  /\ UNCHANGED <<reading, stop, handled, ticks, foreign>>

(* The loop looks at the stop event before each tick. *)
EcuEnds(e) ==
  /\ thread[e] = "running"
  /\ toSend[e] = <<>>
  /\ stop
  /\ thread' = [thread EXCEPT ![e] = "ended"]
  /\ UNCHANGED <<reading, toSend, stop, queue, sent, handled, ticks, foreign>>

StopEcus ==
  /\ ~stop
  /\ stop' = TRUE
  /\ UNCHANGED <<reading, thread, toSend, queue, sent, handled, ticks, foreign>>

(* A UDS tester or server sends on the same bus. *)
SendForeign ==
  /\ foreign < MaxForeign
  /\ Len(queue) < MaxQueue
  /\ foreign' = foreign + 1
  /\ queue' = Append(queue, [id |-> "uds", raw |-> 0])
  /\ UNCHANGED <<reading, thread, toSend, stop, sent, handled, ticks>>

(* ingest_frame() ignores what is not telemetry. *)
IgnoreFrame ==
  /\ queue # <<>>
  /\ Head(queue).id = "uds"
  /\ queue' = Tail(queue)
  /\ UNCHANGED <<reading, thread, toSend, stop, sent, handled, ticks, foreign>>

(* A frame becomes an event again, which is forwarded or rejected. *)
IngestFrame ==
  /\ queue # <<>>
  /\ Head(queue).id # "uds"
  /\ LET signal == Head(queue).id
         value == PhysicalValue(signal, Head(queue).raw)
     IN handled' = [handled EXCEPT ![signal] =
                      Append(@, [value |-> value, valid |-> IsValid(signal, value)])]
  /\ queue' = Tail(queue)
  /\ UNCHANGED <<reading, thread, toSend, stop, sent, ticks, foreign>>

EcuProceeds(e) == Tick(e) \/ SendReading(e) \/ EcuEnds(e)

Next ==
  \/ \E e \in Ecu : EcuProceeds(e)
  \/ StopEcus
  \/ SendForeign
  \/ IgnoreFrame
  \/ IngestFrame

Spec == Init /\ [][Next]_vars

=============================================================================
