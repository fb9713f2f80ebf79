--------------------------- MODULE SignalPathProofs ---------------------------
(***************************************************************************)
(* For all random draws and any number of ticks the ECUs' signals stay     *)
(* within their limits, every reading can be encoded, and the gateway      *)
(* accepts what it decodes: the ranges of simulation/ecus/, of the signal  *)
(* map and of validation.py agree.                                         *)
(***************************************************************************)
EXTENDS SignalPathProperties, SequenceTheorems, FiniteSetTheorems, TLAPS

(* A drifting signal stays within its limits whatever is drawn: _drift(),  *)
(* and so do the signals of the powertrain, whose steps depend on the      *)
(* throttle, ...                                                           *)
LEMMA PowertrainStays ==
  ASSUME NEW r, WithinLimits(r), NEW draw, IsDraw(draw)
  PROVE  WithinLimits(PowertrainTick(r, draw))
<1> DEFINE throttle == Drift(r["throttle"], 500, draw["throttle"], 0, 10000)
           speed == Drift(r["speed"], 200 + throttle \div 20, draw["speed"], 0, 25000)
           rpm == Drift(r["rpm"], 10000 + 5 * throttle, draw["rpm"], 80000, 800000)
           new == [r EXCEPT !["throttle"] = throttle, !["speed"] = speed, !["rpm"] = rpm]
<1>1. r \in [Signal -> Int] /\ draw \in [Signal -> Int]
  BY DEF WithinLimits, IsDraw
<1>2. r["throttle"] \in Int /\ r["speed"] \in Int /\ r["rpm"] \in Int
  BY <1>1 DEF Signal
<1>3. draw["throttle"] \in Int /\ draw["speed"] \in Int /\ draw["rpm"] \in Int
  BY <1>1 DEF Signal
<1>4. throttle \in Int /\ Between(0, throttle, 10000)
  BY <1>2, <1>3 DEF Drift, Between
<1> HIDE DEF throttle
<1>5. 200 + throttle \div 20 \in Int /\ 10000 + 5 * throttle \in Int
  BY <1>4
<1>6. speed \in Int /\ Between(0, speed, 25000)
  BY <1>2, <1>3, <1>5 DEF Drift, Between
<1>7. rpm \in Int /\ Between(80000, rpm, 800000)
  BY <1>2, <1>3, <1>5 DEF Drift, Between
<1> HIDE DEF speed, rpm
<1>8. PowertrainTick(r, draw) = new
  BY DEF PowertrainTick, throttle, speed, rpm
<1>9. /\ new \in [Signal -> Int]
      /\ new["throttle"] = throttle /\ new["speed"] = speed /\ new["rpm"] = rpm
      /\ \A s \in Signal \ {"throttle", "speed", "rpm"} : new[s] = r[s]
  BY <1>1, <1>4, <1>6, <1>7 DEF Signal
<1> HIDE DEF new
<1>10. WithinLimits(new)
  BY <1>4, <1>6, <1>7, <1>9 DEF WithinLimits, Signal
<1> QED BY <1>8, <1>10

(* ... those of the battery ... *)
LEMMA BatteryStays ==
  ASSUME NEW r, WithinLimits(r), NEW draw, IsDraw(draw)
  PROVE  WithinLimits(BatteryTick(r, draw))
<1> DEFINE soc == Drift(r["soc"] - 5, 30, draw["soc"], 0, 10000)
           voltage == Drift(r["voltage"], 200, draw["voltage"], 30000, 42000)
           current == Drift(r["current"], 1500, draw["current"], -50000, 50000)
           temp == Drift(r["temp"], 50, draw["temp"], -4000, 12000)
           new == [r EXCEPT !["soc"] = soc, !["voltage"] = voltage, !["current"] = current, !["temp"] = temp]
<1>1. r \in [Signal -> Int] /\ draw \in [Signal -> Int]
  BY DEF WithinLimits, IsDraw
<1>2. r["soc"] - 5 \in Int /\ r["voltage"] \in Int /\ r["current"] \in Int /\ r["temp"] \in Int
  BY <1>1 DEF Signal
<1>3. draw["soc"] \in Int /\ draw["voltage"] \in Int /\ draw["current"] \in Int /\ draw["temp"] \in Int
  BY <1>1 DEF Signal
<1>4. soc \in Int /\ Between(0, soc, 10000)
  BY <1>2, <1>3 DEF Drift, Between
<1>5. voltage \in Int /\ Between(30000, voltage, 42000)
  BY <1>2, <1>3 DEF Drift, Between
<1>6. current \in Int /\ Between(-50000, current, 50000)
  BY <1>2, <1>3 DEF Drift, Between
<1>7. temp \in Int /\ Between(-4000, temp, 12000)
  BY <1>2, <1>3 DEF Drift, Between
<1> HIDE DEF soc, voltage, current, temp
<1>8. BatteryTick(r, draw) = new
  BY DEF BatteryTick, soc, voltage, current, temp
<1>9. /\ new \in [Signal -> Int]
      /\ new["soc"] = soc /\ new["voltage"] = voltage /\ new["current"] = current /\ new["temp"] = temp
      /\ \A s \in Signal \ {"soc", "voltage", "current", "temp"} : new[s] = r[s]
  BY <1>1, <1>4, <1>5, <1>6, <1>7 DEF Signal
<1> HIDE DEF new
<1>10. WithinLimits(new)
  BY <1>4, <1>5, <1>6, <1>7, <1>9 DEF WithinLimits, Signal
<1> QED BY <1>8, <1>10

(* Flipping a bit of a mask of four leaves a mask of four. *)
LEMMA FlippedIsMask ==
  ASSUME NEW mask \in 0 .. 15, NEW door \in 1 .. 4
  PROVE  \E flipped \in 0 .. 15 : FlipDoor(100 * mask, door) = 100 * flipped
<1>1. CASE door = 1
  BY <1>1 DEF FlipDoor
<1>2. CASE door = 2
  BY <1>2 DEF FlipDoor
<1>3. CASE door = 3
  BY <1>3 DEF FlipDoor
<1>4. CASE door = 4
  BY <1>4 DEF FlipDoor
<1> QED BY <1>1, <1>2, <1>3, <1>4

(* ... and those of the body. *)
LEMMA BodyStays ==
  ASSUME NEW r, WithinLimits(r), NEW draw, IsDraw(draw)
  PROVE  WithinLimits(BodyTick(r, draw))
<1> DEFINE door == IF draw["door"] = 0 THEN r["door"] ELSE FlipDoor(r["door"], draw["door"])
           indicator == IF draw["indicator"] = -1 THEN r["indicator"] ELSE 100 * draw["indicator"]
           odometer == r["odometer"] + draw["odometer"]
           ambient == Drift(r["ambient"], 20, draw["ambient"], -4000, 6000)
           new == [r EXCEPT !["door"] = door, !["indicator"] = indicator,
                            !["odometer"] = odometer, !["ambient"] = ambient]
<1>1. r \in [Signal -> Int] /\ draw \in [Signal -> Int]
  BY DEF WithinLimits, IsDraw
<1>2. r["ambient"] \in Int /\ draw["ambient"] \in Int
  BY <1>1 DEF Signal
<1>3. r["odometer"] \in Int /\ 0 <= r["odometer"] /\ draw["odometer"] \in 0 .. 2
  BY <1>1 DEF WithinLimits, IsDraw, Signal
<1>4. (\E mask \in 0 .. 15 : r["door"] = 100 * mask) /\ draw["door"] \in 0 .. 4
  BY DEF WithinLimits, IsDraw
<1>5. (\E state \in 0 .. 3 : r["indicator"] = 100 * state) /\ draw["indicator"] \in -1 .. 3
  BY DEF WithinLimits, IsDraw
<1>6. \E mask \in 0 .. 15 : door = 100 * mask
  <2>1. PICK mask \in 0 .. 15 : r["door"] = 100 * mask
    BY <1>4
  <2>2. CASE draw["door"] = 0
    BY <2>1, <2>2
  <2>3. CASE draw["door"] # 0
    <3>1. draw["door"] \in 1 .. 4
      BY <1>4, <2>3
    <3> QED BY <2>1, <2>3, <3>1, FlippedIsMask
  <2> QED BY <2>2, <2>3
<1>7. \E state \in 0 .. 3 : indicator = 100 * state
  BY <1>5
<1>8. odometer \in Int /\ 0 <= odometer
  BY <1>3
<1>9. ambient \in Int /\ Between(-4000, ambient, 6000)
  BY <1>2 DEF Drift, Between
<1> HIDE DEF door, indicator, odometer, ambient
<1>10. BodyTick(r, draw) = new
  BY DEF BodyTick, door, indicator, odometer, ambient
<1>11. door \in Int /\ indicator \in Int
  BY <1>6, <1>7
<1>12. /\ new \in [Signal -> Int]
       /\ new["door"] = door /\ new["indicator"] = indicator
       /\ new["odometer"] = odometer /\ new["ambient"] = ambient
       /\ \A s \in Signal \ {"door", "indicator", "odometer", "ambient"} : new[s] = r[s]
  BY <1>1, <1>8, <1>9, <1>11 DEF Signal
<1> HIDE DEF new
<1>13. WithinLimits(new)
  BY <1>6, <1>7, <1>8, <1>9, <1>12 DEF WithinLimits, Signal
<1> QED BY <1>10, <1>13

-----------------------------------------------------------------------------
(* encode_signal() rounds to a nearest raw value. *)
LEMMA RoundsToNearest ==
  ASSUME NEW s, NEW value \in Int, NEW raw \in RawValues(s, value),
         GetSignalDefinition(s).scale \in {10, 100}, GetSignalDefinition(s).offset \in Int
  PROVE  /\ raw \in Int
         /\ Between(2 * value - GetSignalDefinition(s).scale, 2 * PhysicalValue(s, raw),
                    2 * value + GetSignalDefinition(s).scale)
<1> DEFINE scale == GetSignalDefinition(s).scale
           offset == GetSignalDefinition(s).offset
           whole == (value - offset) \div scale
           rest == (value - offset) % scale
<1>1. /\ raw \in {whole, whole + 1}
      /\ raw = whole => 2 * rest <= scale
      /\ raw = whole + 1 => 2 * rest >= scale
  BY DEF RawValues
<1>2. PhysicalValue(s, raw) = raw * scale + offset
  BY DEF PhysicalValue
<1>3. scale \in {10, 100} /\ offset \in Int
  OBVIOUS
<1> HIDE DEF scale, offset
<1>4. CASE scale = 10
  BY <1>1, <1>2, <1>3, <1>4 DEF Between, scale
<1>5. CASE scale = 100
  BY <1>1, <1>2, <1>3, <1>5 DEF Between, scale
<1> QED BY <1>3, <1>4, <1>5

(* A frame the gateway can only reject if it is the odometer's. *)
Plausible(frame) ==
  frame.id \in Signal =>
    LET value == PhysicalValue(frame.id, frame.raw)
    IN /\ GetSignalDefinition(frame.id).low <= value
       /\ frame.id # "odometer" => value <= GetSignalDefinition(frame.id).high

(* Whatever an ECU reads, its frame can be built and is plausible. *)
LEMMA EncodedIsPlausible ==
  ASSUME NEW r, WithinLimits(r), NEW s \in Signal, NEW raw \in RawValues(s, r[s])
  PROVE  /\ raw \in Int
         /\ GetSignalDefinition(s).low <= PhysicalValue(s, raw)
         /\ s # "odometer" => PhysicalValue(s, raw) <= GetSignalDefinition(s).high
         /\ s # "odometer" => Fits(GetSignalDefinition(s).dtype, raw)
         /\ s = "odometer" /\ Fits("uint32", r["odometer"] \div 100 + 1) =>
              Fits(GetSignalDefinition(s).dtype, raw)
<1>0. r \in [Signal -> Int] /\ r[s] \in Int
  BY DEF WithinLimits
<1>1. CASE s = "speed"
  <2>1. GetSignalDefinition(s) = SignalDefinition("uint16", 10, 0, 0, 25000)
    BY <1>1 DEF GetSignalDefinition
  <2>2. /\ GetSignalDefinition(s).scale = 10 /\ GetSignalDefinition(s).offset = 0
        /\ GetSignalDefinition(s).low = 0 /\ GetSignalDefinition(s).high = 25000
        /\ GetSignalDefinition(s).dtype = "uint16"
    BY <2>1 DEF SignalDefinition
  <2>3. /\ raw \in Int
        /\ Between(2 * r[s] - 10, 2 * PhysicalValue(s, raw), 2 * r[s] + 10)
    BY <1>0, <2>2, RoundsToNearest
  <2>4. PhysicalValue(s, raw) = raw * 10 + 0
    BY <2>2 DEF PhysicalValue
  <2> QED BY <1>0, <1>1, <2>2, <2>3, <2>4 DEF WithinLimits, Between, Fits
<1>2. CASE s = "rpm"
  <2>1. GetSignalDefinition(s) = SignalDefinition("uint16", 100, 0, 0, 800000)
    BY <1>2 DEF GetSignalDefinition
  <2>2. /\ GetSignalDefinition(s).scale = 100 /\ GetSignalDefinition(s).offset = 0
        /\ GetSignalDefinition(s).low = 0 /\ GetSignalDefinition(s).high = 800000
        /\ GetSignalDefinition(s).dtype = "uint16"
    BY <2>1 DEF SignalDefinition
  <2>3. /\ raw \in Int
        /\ Between(2 * r[s] - 100, 2 * PhysicalValue(s, raw), 2 * r[s] + 100)
    BY <1>0, <2>2, RoundsToNearest
  <2>4. PhysicalValue(s, raw) = raw * 100 + 0
    BY <2>2 DEF PhysicalValue
  <2> QED BY <1>0, <1>2, <2>2, <2>3, <2>4 DEF WithinLimits, Between, Fits
<1>3. CASE s = "throttle"
  <2>1. GetSignalDefinition(s) = SignalDefinition("uint8", 100, 0, 0, 10000)
    BY <1>3 DEF GetSignalDefinition
  <2>2. /\ GetSignalDefinition(s).scale = 100 /\ GetSignalDefinition(s).offset = 0
        /\ GetSignalDefinition(s).low = 0 /\ GetSignalDefinition(s).high = 10000
        /\ GetSignalDefinition(s).dtype = "uint8"
    BY <2>1 DEF SignalDefinition
  <2>3. /\ raw \in Int
        /\ Between(2 * r[s] - 100, 2 * PhysicalValue(s, raw), 2 * r[s] + 100)
    BY <1>0, <2>2, RoundsToNearest
  <2>4. PhysicalValue(s, raw) = raw * 100 + 0
    BY <2>2 DEF PhysicalValue
  <2> QED BY <1>0, <1>3, <2>2, <2>3, <2>4 DEF WithinLimits, Between, Fits
<1>4. CASE s = "soc"
  <2>1. GetSignalDefinition(s) = SignalDefinition("uint16", 10, 0, 0, 10000)
    BY <1>4 DEF GetSignalDefinition
  <2>2. /\ GetSignalDefinition(s).scale = 10 /\ GetSignalDefinition(s).offset = 0
        /\ GetSignalDefinition(s).low = 0 /\ GetSignalDefinition(s).high = 10000
        /\ GetSignalDefinition(s).dtype = "uint16"
    BY <2>1 DEF SignalDefinition
  <2>3. /\ raw \in Int
        /\ Between(2 * r[s] - 10, 2 * PhysicalValue(s, raw), 2 * r[s] + 10)
    BY <1>0, <2>2, RoundsToNearest
  <2>4. PhysicalValue(s, raw) = raw * 10 + 0
    BY <2>2 DEF PhysicalValue
  <2> QED BY <1>0, <1>4, <2>2, <2>3, <2>4 DEF WithinLimits, Between, Fits
<1>5. CASE s = "voltage"
  <2>1. GetSignalDefinition(s) = SignalDefinition("uint16", 10, 0, 0, 50000)
    BY <1>5 DEF GetSignalDefinition
  <2>2. /\ GetSignalDefinition(s).scale = 10 /\ GetSignalDefinition(s).offset = 0
        /\ GetSignalDefinition(s).low = 0 /\ GetSignalDefinition(s).high = 50000
        /\ GetSignalDefinition(s).dtype = "uint16"
    BY <2>1 DEF SignalDefinition
  <2>3. /\ raw \in Int
        /\ Between(2 * r[s] - 10, 2 * PhysicalValue(s, raw), 2 * r[s] + 10)
    BY <1>0, <2>2, RoundsToNearest
  <2>4. PhysicalValue(s, raw) = raw * 10 + 0
    BY <2>2 DEF PhysicalValue
  <2> QED BY <1>0, <1>5, <2>2, <2>3, <2>4 DEF WithinLimits, Between, Fits
<1>6. CASE s = "current"
  <2>1. GetSignalDefinition(s) = SignalDefinition("int16", 10, 0, -50000, 50000)
    BY <1>6 DEF GetSignalDefinition
  <2>2. /\ GetSignalDefinition(s).scale = 10 /\ GetSignalDefinition(s).offset = 0
        /\ GetSignalDefinition(s).low = -50000 /\ GetSignalDefinition(s).high = 50000
        /\ GetSignalDefinition(s).dtype = "int16"
    BY <2>1 DEF SignalDefinition
  <2>3. /\ raw \in Int
        /\ Between(2 * r[s] - 10, 2 * PhysicalValue(s, raw), 2 * r[s] + 10)
    BY <1>0, <2>2, RoundsToNearest
  <2>4. PhysicalValue(s, raw) = raw * 10 + 0
    BY <2>2 DEF PhysicalValue
  <2> QED BY <1>0, <1>6, <2>2, <2>3, <2>4 DEF WithinLimits, Between, Fits
<1>7. CASE s = "temp"
  <2>1. GetSignalDefinition(s) = SignalDefinition("uint8", 100, -4000, -4000, 12000)
    BY <1>7 DEF GetSignalDefinition
  <2>2. /\ GetSignalDefinition(s).scale = 100 /\ GetSignalDefinition(s).offset = -4000
        /\ GetSignalDefinition(s).low = -4000 /\ GetSignalDefinition(s).high = 12000
        /\ GetSignalDefinition(s).dtype = "uint8"
    BY <2>1 DEF SignalDefinition
  <2>3. /\ raw \in Int
        /\ Between(2 * r[s] - 100, 2 * PhysicalValue(s, raw), 2 * r[s] + 100)
    BY <1>0, <2>2, RoundsToNearest
  <2>4. PhysicalValue(s, raw) = raw * 100 + -4000
    BY <2>2 DEF PhysicalValue
  <2> QED BY <1>0, <1>7, <2>2, <2>3, <2>4 DEF WithinLimits, Between, Fits
<1>8. CASE s = "door"
  <2>1. GetSignalDefinition(s) = SignalDefinition("uint8", 100, 0, 0, 1500)
    BY <1>8 DEF GetSignalDefinition
  <2>2. /\ GetSignalDefinition(s).scale = 100 /\ GetSignalDefinition(s).offset = 0
        /\ GetSignalDefinition(s).low = 0 /\ GetSignalDefinition(s).high = 1500
        /\ GetSignalDefinition(s).dtype = "uint8"
    BY <2>1 DEF SignalDefinition
  <2>3. /\ raw \in Int
        /\ Between(2 * r[s] - 100, 2 * PhysicalValue(s, raw), 2 * r[s] + 100)
    BY <1>0, <2>2, RoundsToNearest
  <2>4. PhysicalValue(s, raw) = raw * 100 + 0
    BY <2>2 DEF PhysicalValue
  <2> QED BY <1>0, <1>8, <2>2, <2>3, <2>4 DEF WithinLimits, Between, Fits
<1>9. CASE s = "indicator"
  <2>1. GetSignalDefinition(s) = SignalDefinition("uint8", 100, 0, 0, 300)
    BY <1>9 DEF GetSignalDefinition
  <2>2. /\ GetSignalDefinition(s).scale = 100 /\ GetSignalDefinition(s).offset = 0
        /\ GetSignalDefinition(s).low = 0 /\ GetSignalDefinition(s).high = 300
        /\ GetSignalDefinition(s).dtype = "uint8"
    BY <2>1 DEF SignalDefinition
  <2>3. /\ raw \in Int
        /\ Between(2 * r[s] - 100, 2 * PhysicalValue(s, raw), 2 * r[s] + 100)
    BY <1>0, <2>2, RoundsToNearest
  <2>4. PhysicalValue(s, raw) = raw * 100 + 0
    BY <2>2 DEF PhysicalValue
  <2> QED BY <1>0, <1>9, <2>2, <2>3, <2>4 DEF WithinLimits, Between, Fits
<1>10. CASE s = "odometer"
  <2>1. GetSignalDefinition(s) = SignalDefinition("uint32", 100, 0, 0, 99999900)
    BY <1>10 DEF GetSignalDefinition
  <2>2. /\ GetSignalDefinition(s).scale = 100 /\ GetSignalDefinition(s).offset = 0
        /\ GetSignalDefinition(s).low = 0 /\ GetSignalDefinition(s).high = 99999900
        /\ GetSignalDefinition(s).dtype = "uint32"
    BY <2>1 DEF SignalDefinition
  <2>3. /\ raw \in Int
        /\ Between(2 * r[s] - 100, 2 * PhysicalValue(s, raw), 2 * r[s] + 100)
    BY <1>0, <2>2, RoundsToNearest
  <2>4. PhysicalValue(s, raw) = raw * 100 + 0
    BY <2>2 DEF PhysicalValue
  <2> QED BY <1>0, <1>10, <2>2, <2>3, <2>4 DEF WithinLimits, Between, Fits
<1>11. CASE s = "ambient"
  <2>1. GetSignalDefinition(s) = SignalDefinition("uint8", 100, -4000, -4000, 6000)
    BY <1>11 DEF GetSignalDefinition
  <2>2. /\ GetSignalDefinition(s).scale = 100 /\ GetSignalDefinition(s).offset = -4000
        /\ GetSignalDefinition(s).low = -4000 /\ GetSignalDefinition(s).high = 6000
        /\ GetSignalDefinition(s).dtype = "uint8"
    BY <2>1 DEF SignalDefinition
  <2>3. /\ raw \in Int
        /\ Between(2 * r[s] - 100, 2 * PhysicalValue(s, raw), 2 * r[s] + 100)
    BY <1>0, <2>2, RoundsToNearest
  <2>4. PhysicalValue(s, raw) = raw * 100 + -4000
    BY <2>2 DEF PhysicalValue
  <2> QED BY <1>0, <1>11, <2>2, <2>3, <2>4 DEF WithinLimits, Between, Fits
<1> QED BY <1>1, <1>2, <1>3, <1>4, <1>5, <1>6, <1>7, <1>8, <1>9, <1>10, <1>11 DEF Signal

-----------------------------------------------------------------------------
(* Only the body ECU sends the odometer. *)
OdometerIsBodys == \A e \in Ecu \ {"body"} : toSend[e] \in Seq(Signal \ {"odometer"})

(* Only the body ECU dies, when the odometer has outgrown its frame. *)
OnlyBodyDies == \A e \in Ecu : thread[e] = "died" => e = "body" /\ ~OdometerCarried

(* The frames in the gateway's handle are plausible ... *)
QueuePlausible == \A i \in DOMAIN queue : Plausible(queue[i])

(* ... and those it has taken out were accepted, or an odometer's. *)
HandledAccepted ==
  \A s \in Signal : \A i \in DOMAIN handled[s] :
    ~handled[s][i].valid => s = "odometer" /\ handled[s][i].value > 99999900

IInv ==
  /\ TypeOK
  /\ OdometerIsBodys
  /\ OnlyBodyDies
  /\ QueuePlausible
  /\ HandledAccepted

(* Nothing has been sent at the start. *)
LEMMA InitIInv == Init => IInv
<1> SUFFICES ASSUME Init PROVE IInv
  OBVIOUS
<1>1. WithinLimits(reading)
  BY BeginAssumption DEF Init
<1>2. /\ thread \in [Ecu -> {"running", "ended", "died"}]
      /\ toSend \in [Ecu -> Seq(Signal)]
      /\ stop \in BOOLEAN
  BY EmptySeq DEF Init
<1>3. /\ queue \in Seq([id : Signal \cup {"uds"}, raw : Int])
      /\ sent \in [Signal -> Seq(Int)]
      /\ handled \in [Signal -> Seq([value : Int, valid : BOOLEAN])]
  BY EmptySeq DEF Init
<1>4. ticks \in 0 .. MaxTicks /\ foreign \in 0 .. MaxForeign
  BY BoundsAssumption DEF Init
<1>5. TypeOK
  BY <1>1, <1>2, <1>3, <1>4 DEF TypeOK
<1>6. OdometerIsBodys
  BY EmptySeq DEF Init, OdometerIsBodys
<1>7. OnlyBodyDies
  BY DEF Init, OnlyBodyDies
<1>8. QueuePlausible
  BY DEF Init, QueuePlausible
<1>9. HandledAccepted
  BY DEF Init, HandledAccepted
<1> QED BY <1>5, <1>6, <1>7, <1>8, <1>9 DEF IInv

(* What an ECU sends in a tick: only the body's readings hold the odometer. *)
LEMMA ReadingsType ==
  ASSUME NEW e \in Ecu
  PROVE  /\ Readings[e] \in Seq(Signal)
         /\ e # "body" => Readings[e] \in Seq(Signal \ {"odometer"})
<1>1. CASE e = "powertrain"
  <2>1. Readings[e] = <<"speed", "rpm", "throttle">>
    BY <1>1 DEF Readings
  <2>2. {"speed", "rpm", "throttle"} \subseteq Signal \ {"odometer"}
    BY DEF Signal
  <2> QED BY <2>1, <2>2
<1>2. CASE e = "battery"
  <2>1. Readings[e] = <<"soc", "voltage", "current", "temp">>
    BY <1>2 DEF Readings
  <2>2. {"soc", "voltage", "current", "temp"} \subseteq Signal \ {"odometer"}
    BY DEF Signal
  <2> QED BY <2>1, <2>2
<1>3. CASE e = "body"
  <2>1. Readings[e] = <<"door", "indicator", "odometer", "ambient">>
    BY <1>3 DEF Readings
  <2>2. {"door", "indicator", "odometer", "ambient"} \subseteq Signal
    BY DEF Signal
  <2> QED BY <1>3, <2>1, <2>2
<1> QED BY <1>1, <1>2, <1>3 DEF Ecu

(* A tick keeps the signals within their limits, and only the body's moves *)
(* the odometer.                                                           *)
LEMMA TickIInv ==
  ASSUME IInv, NEW e \in Ecu, Tick(e)
  PROVE  IInv'
<1>1. /\ thread[e] = "running"
      /\ ticks < MaxTicks
      /\ ticks' = ticks + 1
      /\ toSend' = [toSend EXCEPT ![e] = Readings[e]]
      /\ UNCHANGED <<thread, stop, queue, sent, handled, foreign>>
  BY DEF Tick
<1>2. PICK draw \in Draws :
        \/ e = "powertrain" /\ reading' = PowertrainTick(reading, draw)
        \/ e = "battery" /\ reading' = BatteryTick(reading, draw)
        \/ e = "body" /\ reading' = BodyTick(reading, draw)
  BY DEF Tick
<1>3. IsDraw(draw)
  BY DrawsAssumption
<1>4. WithinLimits(reading)
  BY DEF IInv, TypeOK
<1>5. WithinLimits(reading')
  BY <1>2, <1>3, <1>4, PowertrainStays, BatteryStays, BodyStays
<1>6. e # "body" => reading'["odometer"] = reading["odometer"]
  <2>1. reading \in [Signal -> Int]
    BY <1>4 DEF WithinLimits
  <2>2. "odometer" \in Signal
    BY DEF Signal
  <2>3. CASE reading' = PowertrainTick(reading, draw)
    BY <2>1, <2>2, <2>3 DEF PowertrainTick
  <2>4. CASE reading' = BatteryTick(reading, draw)
    BY <2>1, <2>2, <2>4 DEF BatteryTick
  <2> QED BY <1>2, <2>3, <2>4
<1>7. toSend' \in [Ecu -> Seq(Signal)]
  <2>1. Readings[e] \in Seq(Signal)
    BY ReadingsType
  <2> QED BY <1>1, <2>1 DEF IInv, TypeOK
<1>8. ticks' \in 0 .. MaxTicks
  BY <1>1, BoundsAssumption DEF IInv, TypeOK
<1>9. TypeOK'
  BY <1>1, <1>5, <1>7, <1>8 DEF IInv, TypeOK
<1>10. OdometerIsBodys'
  <2>1. e # "body" => Readings[e] \in Seq(Signal \ {"odometer"})
    BY ReadingsType
  <2> QED BY <1>1, <2>1 DEF IInv, TypeOK, OdometerIsBodys
<1>11. OnlyBodyDies'
  <2> SUFFICES ASSUME NEW d \in Ecu, thread'[d] = "died"
               PROVE  d = "body" /\ ~OdometerCarried'
    BY DEF OnlyBodyDies
  <2>1. d = "body" /\ ~OdometerCarried /\ e # "body"
    BY <1>1 DEF IInv, OnlyBodyDies
  <2> QED BY <1>6, <2>1 DEF OdometerCarried
<1>12. QueuePlausible' /\ HandledAccepted'
  BY <1>1 DEF IInv, QueuePlausible, HandledAccepted
<1> QED BY <1>9, <1>10, <1>11, <1>12 DEF IInv

(* A reading is encoded, or is an odometer's that has outgrown its frame. *)
LEMMA SendReadingIInv ==
  ASSUME IInv, NEW e \in Ecu, SendReading(e)
  PROVE  IInv'
<1> DEFINE signal == Head(toSend[e])
<1>1. toSend[e] \in Seq(Signal) /\ toSend[e] # <<>>
  BY DEF IInv, TypeOK, SendReading
<1>2. signal \in Signal /\ Tail(toSend[e]) \in Seq(Signal)
  BY <1>1, HeadTailProperties
<1>3. e # "body" => signal # "odometer" /\ Tail(toSend[e]) \in Seq(Signal \ {"odometer"})
  <2> SUFFICES ASSUME e # "body"
               PROVE  signal # "odometer" /\ Tail(toSend[e]) \in Seq(Signal \ {"odometer"})
    OBVIOUS
  <2>1. toSend[e] \in Seq(Signal \ {"odometer"})
    BY DEF IInv, OdometerIsBodys
  <2> QED BY <1>1, <2>1, HeadTailProperties
<1>4. UNCHANGED <<reading, stop, handled, ticks, foreign>>
  BY DEF SendReading
<1>5. WithinLimits(reading) /\ reading[signal] \in Int
  <2>1. WithinLimits(reading)
    BY DEF IInv, TypeOK
  <2>2. reading \in [Signal -> Int]
    BY <2>1 DEF WithinLimits
  <2> QED BY <1>2, <2>1, <2>2
<1>6. PICK raw \in RawValues(signal, reading[signal]) :
        \/ /\ Fits(GetSignalDefinition(signal).dtype, raw)
           /\ toSend' = [toSend EXCEPT ![e] = Tail(@)]
           /\ queue' = Append(queue, [id |-> signal, raw |-> raw])
           /\ sent' = [sent EXCEPT ![signal] = Append(@, reading[signal])]
           /\ UNCHANGED thread
        \/ /\ ~Fits(GetSignalDefinition(signal).dtype, raw)
           /\ thread' = [thread EXCEPT ![e] = "died"]
           /\ toSend' = [toSend EXCEPT ![e] = <<>>]
           /\ UNCHANGED <<queue, sent>>
  BY DEF SendReading
<1>7. /\ raw \in Int
      /\ GetSignalDefinition(signal).low <= PhysicalValue(signal, raw)
      /\ signal # "odometer" =>
           /\ PhysicalValue(signal, raw) <= GetSignalDefinition(signal).high
           /\ Fits(GetSignalDefinition(signal).dtype, raw)
      /\ signal = "odometer" /\ OdometerCarried => Fits(GetSignalDefinition(signal).dtype, raw)
  BY <1>2, <1>5, EncodedIsPlausible DEF OdometerCarried
<1> HIDE DEF signal
<1>8. HandledAccepted'
  BY <1>4 DEF IInv, HandledAccepted
<1>9. CASE Fits(GetSignalDefinition(signal).dtype, raw)
  <2> DEFINE frame == [id |-> signal, raw |-> raw]
             Frame == [id : Signal \cup {"uds"}, raw : Int]
  <2>1. /\ toSend' = [toSend EXCEPT ![e] = Tail(@)]
        /\ queue' = Append(queue, frame)
        /\ sent' = [sent EXCEPT ![signal] = Append(@, reading[signal])]
        /\ thread' = thread
    BY <1>6, <1>9
  <2>2. frame \in Frame /\ frame.id = signal /\ frame.raw = raw
    BY <1>2, <1>7
  <2>3. Plausible(frame)
    BY <1>7, <2>2 DEF Plausible
  <2>4. queue \in Seq(Frame)
    BY DEF IInv, TypeOK
  <2> HIDE DEF frame, Frame
  <2>5. queue' \in Seq(Frame)
    BY <2>1, <2>2, <2>4
  <2>6. QueuePlausible'
    <3> SUFFICES ASSUME NEW i \in DOMAIN queue' PROVE Plausible(queue'[i])
      BY DEF QueuePlausible, Plausible
    <3>1. CASE i = Len(queue) + 1
      BY <2>1, <2>3, <2>4, <3>1
    <3>2. CASE i # Len(queue) + 1
      <4>1. i \in DOMAIN queue /\ queue'[i] = queue[i]
        BY <2>1, <2>4, <3>2
      <4> QED BY <4>1 DEF IInv, QueuePlausible
    <3> QED BY <3>1, <3>2
  <2>7. sent' \in [Signal -> Seq(Int)]
    <3>1. sent \in [Signal -> Seq(Int)]
      BY DEF IInv, TypeOK
    <3>2. Append(sent[signal], reading[signal]) \in Seq(Int)
      BY <1>2, <1>5, <3>1
    <3> QED BY <2>1, <3>1, <3>2
  <2>8. toSend' \in [Ecu -> Seq(Signal)]
    BY <1>2, <2>1 DEF IInv, TypeOK
  <2>9. TypeOK'
    BY <1>4, <2>1, <2>5, <2>7, <2>8 DEF IInv, TypeOK, Frame
  <2>10. OdometerIsBodys'
    BY <1>3, <2>1 DEF IInv, TypeOK, OdometerIsBodys
  <2>11. OnlyBodyDies'
    BY <1>4, <2>1 DEF IInv, OnlyBodyDies, OdometerCarried
  <2> QED BY <1>8, <2>6, <2>9, <2>10, <2>11 DEF IInv
<1>10. CASE ~Fits(GetSignalDefinition(signal).dtype, raw)
  <2>1. /\ thread' = [thread EXCEPT ![e] = "died"]
        /\ toSend' = [toSend EXCEPT ![e] = <<>>]
        /\ queue' = queue
        /\ sent' = sent
    BY <1>6, <1>10
  <2>2. e = "body" /\ ~OdometerCarried
    BY <1>3, <1>7, <1>10
  <2>3. toSend' \in [Ecu -> Seq(Signal)]
    BY <2>1, EmptySeq DEF IInv, TypeOK
  <2>4. thread' \in [Ecu -> {"running", "ended", "died"}]
    BY <2>1 DEF IInv, TypeOK
  <2>5. TypeOK'
    BY <1>4, <2>1, <2>3, <2>4 DEF IInv, TypeOK
  <2>6. OdometerIsBodys'
    BY <2>1, <2>2 DEF IInv, TypeOK, OdometerIsBodys
  <2>7. OnlyBodyDies'
    BY <1>4, <2>1, <2>2 DEF IInv, TypeOK, OnlyBodyDies, OdometerCarried
  <2>8. QueuePlausible'
    BY <2>1 DEF IInv, QueuePlausible
  <2> QED BY <1>8, <2>5, <2>6, <2>7, <2>8 DEF IInv
<1> QED BY <1>9, <1>10

(* A UDS frame is no reading. *)
LEMMA SendForeignIInv ==
  ASSUME IInv, SendForeign
  PROVE  IInv'
<1> DEFINE frame == [id |-> "uds", raw |-> 0]
           Frame == [id : Signal \cup {"uds"}, raw : Int]
<1>1. /\ foreign < MaxForeign
      /\ foreign' = foreign + 1
      /\ queue' = Append(queue, frame)
      /\ UNCHANGED <<reading, thread, toSend, stop, sent, handled, ticks>>
  BY DEF SendForeign
<1>2. frame \in Frame /\ Plausible(frame)
  BY DEF Plausible, Signal
<1>3. queue \in Seq(Frame)
  BY DEF IInv, TypeOK
<1> HIDE DEF frame, Frame
<1>4. queue' \in Seq(Frame)
  BY <1>1, <1>2, <1>3
<1>5. foreign' \in 0 .. MaxForeign
  BY <1>1, BoundsAssumption DEF IInv, TypeOK
<1>6. TypeOK'
  BY <1>1, <1>4, <1>5 DEF IInv, TypeOK, Frame
<1>7. QueuePlausible'
  <2> SUFFICES ASSUME NEW i \in DOMAIN queue' PROVE Plausible(queue'[i])
    BY DEF QueuePlausible, Plausible
  <2>1. CASE i = Len(queue) + 1
    BY <1>1, <1>2, <1>3, <2>1
  <2>2. CASE i # Len(queue) + 1
    <3>1. i \in DOMAIN queue /\ queue'[i] = queue[i]
      BY <1>1, <1>3, <2>2
    <3> QED BY <3>1 DEF IInv, QueuePlausible
  <2> QED BY <2>1, <2>2
<1>8. OdometerIsBodys' /\ OnlyBodyDies' /\ HandledAccepted'
  BY <1>1 DEF IInv, OdometerIsBodys, OnlyBodyDies, OdometerCarried, HandledAccepted
<1> QED BY <1>6, <1>7, <1>8 DEF IInv

(* Frames that are taken out leave a plausible rest. *)
LEMMA TailPlausible ==
  ASSUME IInv, queue # <<>>, queue' = Tail(queue)
  PROVE  /\ queue' \in Seq([id : Signal \cup {"uds"}, raw : Int])
         /\ QueuePlausible'
         /\ Head(queue) \in [id : Signal \cup {"uds"}, raw : Int]
         /\ Plausible(Head(queue))
<1> DEFINE Frame == [id : Signal \cup {"uds"}, raw : Int]
<1>1. queue \in Seq(Frame)
  BY DEF IInv, TypeOK
<1> HIDE DEF Frame
<1>2. /\ Head(queue) \in Frame /\ Tail(queue) \in Seq(Frame)
      /\ Len(Tail(queue)) = Len(queue) - 1
      /\ \A i \in 1 .. Len(Tail(queue)) : Tail(queue)[i] = queue[i + 1]
  BY <1>1, HeadTailProperties
<1>3. 1 \in DOMAIN queue /\ Head(queue) = queue[1]
  BY <1>1
<1>4. Plausible(Head(queue))
  BY <1>3 DEF IInv, QueuePlausible
<1>5. QueuePlausible'
  <2> SUFFICES ASSUME NEW i \in DOMAIN queue' PROVE Plausible(queue'[i])
    BY DEF QueuePlausible, Plausible
  <2>1. i + 1 \in DOMAIN queue /\ queue'[i] = queue[i + 1]
    BY <1>1, <1>2
  <2> QED BY <2>1 DEF IInv, QueuePlausible
<1> QED BY <1>2, <1>4, <1>5 DEF Frame

(* Every row of the signal map is of integers, in steps of 0.1 or 1. *)
LEMMA DefinitionType ==
  ASSUME NEW s \in Signal
  PROVE  LET row == GetSignalDefinition(s)
         IN row.scale \in {10, 100} /\ row.offset \in Int /\ row.low \in Int /\ row.high \in Int
<1>1. CASE s = "speed"
  BY <1>1, SMT DEF GetSignalDefinition, SignalDefinition
<1>2. CASE s = "rpm"
  BY <1>2, SMT DEF GetSignalDefinition, SignalDefinition
<1>3. CASE s = "throttle"
  BY <1>3, SMT DEF GetSignalDefinition, SignalDefinition
<1>4. CASE s = "soc"
  BY <1>4, SMT DEF GetSignalDefinition, SignalDefinition
<1>5. CASE s = "voltage"
  BY <1>5, SMT DEF GetSignalDefinition, SignalDefinition
<1>6. CASE s = "current"
  BY <1>6, SMT DEF GetSignalDefinition, SignalDefinition
<1>7. CASE s = "temp"
  BY <1>7, SMT DEF GetSignalDefinition, SignalDefinition
<1>8. CASE s = "door"
  BY <1>8, SMT DEF GetSignalDefinition, SignalDefinition
<1>9. CASE s = "indicator"
  BY <1>9, SMT DEF GetSignalDefinition, SignalDefinition
<1>10. CASE s = "odometer"
  BY <1>10, SMT DEF GetSignalDefinition, SignalDefinition
<1>11. CASE s = "ambient"
  BY <1>11, SMT DEF GetSignalDefinition, SignalDefinition
<1> QED BY <1>1, <1>2, <1>3, <1>4, <1>5, <1>6, <1>7, <1>8, <1>9, <1>10, <1>11 DEF Signal

(* The odometer's row ends at 999,999 km. *)
LEMMA OdometerRange == GetSignalDefinition("odometer").high = 99999900
BY SMT DEF GetSignalDefinition, SignalDefinition

(* What the gateway decodes from a plausible frame it accepts, unless the  *)
(* odometer is past its range.                                             *)
LEMMA IngestFrameIInv ==
  ASSUME IInv, IngestFrame
  PROVE  IInv'
<1> DEFINE signal == Head(queue).id
           value == PhysicalValue(signal, Head(queue).raw)
           result == [value |-> value, valid |-> IsValid(signal, value)]
           Result == [value : Int, valid : BOOLEAN]
<1>1. /\ queue # <<>> /\ signal # "uds"
      /\ queue' = Tail(queue)
      /\ handled' = [handled EXCEPT ![signal] = Append(@, result)]
      /\ UNCHANGED <<reading, thread, toSend, stop, sent, ticks, foreign>>
  BY DEF IngestFrame
<1>2. /\ queue' \in Seq([id : Signal \cup {"uds"}, raw : Int])
      /\ QueuePlausible'
      /\ Head(queue) \in [id : Signal \cup {"uds"}, raw : Int]
      /\ Plausible(Head(queue))
  BY <1>1, TailPlausible
<1>3. signal \in Signal /\ Head(queue).raw \in Int
  BY <1>1, <1>2
<1>4. /\ GetSignalDefinition(signal).low <= value
      /\ signal # "odometer" => value <= GetSignalDefinition(signal).high
  BY <1>2, <1>3 DEF Plausible
<1>5. value \in Int
  BY <1>3, DefinitionType DEF PhysicalValue
<1> HIDE DEF signal, value
<1>6. result \in Result
  BY <1>5 DEF IsValid, Between
<1>7. ~result.valid => signal = "odometer" /\ result.value > 99999900
  <2>1. GetSignalDefinition("odometer").high = 99999900
    BY OdometerRange, SMT
  <2>2. /\ GetSignalDefinition(signal).low \in Int
        /\ GetSignalDefinition(signal).high \in Int
    BY <1>3, DefinitionType
  <2>3. result.value = value /\ result.valid = IsValid(signal, value)
    OBVIOUS
  <2>4. CASE signal = "odometer"
    <3>1. ~IsValid(signal, value) => value > GetSignalDefinition(signal).high
      BY <1>4, <1>5, <2>2 DEF IsValid, Between
    <3>2. GetSignalDefinition(signal).high = 99999900
      BY <2>1, <2>4, SMT
    <3> QED BY <2>3, <2>4, <3>1, <3>2, SMT
  <2>5. CASE signal # "odometer"
    <3>1. IsValid(signal, value)
      BY <1>4, <1>5, <2>2, <2>5 DEF IsValid, Between
    <3> QED BY <2>3, <3>1
  <2> QED BY <2>4, <2>5
<1>8. handled \in [Signal -> Seq(Result)]
  BY DEF IInv, TypeOK
<1> HIDE DEF result, Result
<1>9. handled' \in [Signal -> Seq(Result)]
  BY <1>1, <1>3, <1>6, <1>8
<1>10. HandledAccepted'
  <2> SUFFICES ASSUME NEW s \in Signal, NEW i \in DOMAIN handled'[s], ~handled'[s][i].valid
               PROVE  s = "odometer" /\ handled'[s][i].value > 99999900
    BY DEF HandledAccepted
  <2>1. handled[s] \in Seq(Result)
    BY <1>8
  <2>2. CASE i \in DOMAIN handled[s] /\ handled'[s][i] = handled[s][i]
    BY <2>2 DEF IInv, HandledAccepted
  <2>3. CASE s = signal /\ handled'[s][i] = result
    BY <1>7, <2>3
  <2> QED BY <1>1, <1>6, <1>8, <2>1, <2>2, <2>3
<1>11. TypeOK'
  BY <1>1, <1>2, <1>9 DEF IInv, TypeOK, Result
<1>12. OdometerIsBodys' /\ OnlyBodyDies'
  BY <1>1 DEF IInv, OdometerIsBodys, OnlyBodyDies, OdometerCarried
<1> QED BY <1>2, <1>10, <1>11, <1>12 DEF IInv

(* IInv is inductive. *)
LEMMA NextIInv == IInv /\ [Next]_vars => IInv'
<1> SUFFICES ASSUME IInv, [Next]_vars PROVE IInv'
  OBVIOUS
<1>1. ASSUME NEW e \in Ecu, Tick(e) PROVE IInv'
  BY <1>1, TickIInv
<1>2. ASSUME NEW e \in Ecu, SendReading(e) PROVE IInv'
  BY <1>2, SendReadingIInv
<1>3. ASSUME NEW e \in Ecu, EcuEnds(e) PROVE IInv'
  <2>1. /\ thread' = [thread EXCEPT ![e] = "ended"]
        /\ UNCHANGED <<reading, toSend, stop, queue, sent, handled, ticks, foreign>>
    BY <1>3 DEF EcuEnds
  <2>2. TypeOK'
    BY <2>1 DEF IInv, TypeOK
  <2>3. OnlyBodyDies'
    BY <2>1 DEF IInv, TypeOK, OnlyBodyDies, OdometerCarried
  <2>4. OdometerIsBodys' /\ QueuePlausible' /\ HandledAccepted'
    BY <2>1 DEF IInv, OdometerIsBodys, QueuePlausible, HandledAccepted
  <2> QED BY <2>2, <2>3, <2>4 DEF IInv
<1>4. CASE StopEcus
  <2>1. stop' \in BOOLEAN /\ UNCHANGED <<reading, thread, toSend, queue, sent, handled, ticks, foreign>>
    BY <1>4 DEF StopEcus
  <2> QED BY <2>1 DEF IInv, TypeOK, OdometerIsBodys, OnlyBodyDies, OdometerCarried,
                     QueuePlausible, HandledAccepted
<1>5. CASE SendForeign
  BY <1>5, SendForeignIInv
<1>6. CASE IgnoreFrame
  <2>1. /\ queue # <<>> /\ queue' = Tail(queue)
        /\ UNCHANGED <<reading, thread, toSend, stop, sent, handled, ticks, foreign>>
    BY <1>6 DEF IgnoreFrame
  <2>2. queue' \in Seq([id : Signal \cup {"uds"}, raw : Int]) /\ QueuePlausible'
    BY <2>1, TailPlausible
  <2> QED BY <2>1, <2>2 DEF IInv, TypeOK, OdometerIsBodys, OnlyBodyDies, OdometerCarried,
                          HandledAccepted
<1>7. CASE IngestFrame
  BY <1>7, IngestFrameIInv
<1>8. CASE UNCHANGED vars
  BY <1>8 DEF vars, IInv, TypeOK, OdometerIsBodys, OnlyBodyDies, OdometerCarried,
             QueuePlausible, HandledAccepted
<1> QED BY <1>1, <1>2, <1>3, <1>4, <1>5, <1>6, <1>7, <1>8 DEF Next, EcuProceeds

(* The inductive invariant holds in every state of every behaviour. *)
THEOREM PathInvariance == Spec => []IInv
<1> QED BY InitIInv, NextIInv, PTL DEF Spec

(* For all draws the ECUs' signals stay within the limits of the models in *)
(* simulation/ecus/, and the state is well typed.                          *)
THEOREM SignalsStayWithinLimits == Spec => []TypeOK
<1>1. IInv => TypeOK
  BY DEF IInv
<1> QED BY <1>1, PathInvariance, PTL

(* encode_signal() never fails for a reading, so no ECU's thread dies, and *)
(* validate_event() accepts what is decoded from it; the odometer past its *)
(* range is the exception.                                                 *)
THEOREM ReadingsAreAccepted == Spec => []EveryReadingIsAccepted
<1>1. IInv => EveryReadingIsAccepted
  BY DEF IInv, OnlyBodyDies, HandledAccepted, EveryReadingIsAccepted
<1> QED BY <1>1, PathInvariance, PTL

-----------------------------------------------------------------------------
(* Readings on their way.  A frame's turn among its signal's is the number *)
(* of those up to its place.                                               *)
Upto(places, i) == {j \in places : j <= i}

(* Places are finitely many, and so are those up to one of them. *)
LEMMA PlacesFinite ==
  ASSUME NEW n \in Nat, NEW places \in SUBSET (1 .. n), NEW i
  PROVE  /\ IsFiniteSet(places) /\ Cardinality(places) \in Nat
         /\ IsFiniteSet(Upto(places, i)) /\ Cardinality(Upto(places, i)) \in Nat
         /\ Cardinality(Upto(places, i)) <= Cardinality(places)
<1>1. IsFiniteSet(1 .. n)
  BY FS_Interval
<1>2. IsFiniteSet(places)
  BY <1>1, FS_Subset
<1>3. Upto(places, i) \subseteq places
  BY DEF Upto
<1> QED BY <1>2, <1>3, FS_Subset, FS_CardinalityType

(* A place of the set has a turn of its own from 1 on. *)
LEMMA TurnIsPositive ==
  ASSUME NEW n \in Nat, NEW places \in SUBSET (1 .. n), NEW i \in places
  PROVE  Cardinality(Upto(places, i)) >= 1
<1>1. i \in Upto(places, i)
  BY DEF Upto
<1>2. IsFiniteSet(Upto(places, i)) /\ Cardinality(Upto(places, i)) \in Nat
  BY PlacesFinite
<1>3. Cardinality(Upto(places, i)) # 0
  BY <1>1, <1>2, FS_EmptySet
<1> QED BY <1>2, <1>3

(* The places one to the front. *)
MovedUp(places) == {i - 1 : i \in places}

(* They are as many. *)
LEMMA MovedUpAsMany ==
  ASSUME NEW places \in SUBSET Int, IsFiniteSet(places), NEW moved,
         moved = MovedUp(places)
  PROVE  Cardinality(moved) = Cardinality(places)
<1> DEFINE f == [i \in places |-> i - 1]
<1>1. f \in Bijection(places, moved)
  <2>1. f \in [places -> moved]
    BY DEF MovedUp
  <2>2. \A i, j \in places : f[i] = f[j] => i = j
    BY DEF MovedUp
  <2>3. \A m \in moved : \E i \in places : f[i] = m
    BY DEF MovedUp
  <2> QED BY <2>1, <2>2, <2>3 DEF Bijection, Injection, Surjection, IsInjective
<1>2. ExistsBijection(places, moved)
  BY <1>1 DEF ExistsBijection
<1> QED BY <1>2, FS_Bijection

(* A frame behind the others takes the turn after theirs and leaves theirs *)
(* alone.                                                                  *)
LEMMA TurnsWithOneMore ==
  ASSUME NEW n \in Nat, NEW places \in SUBSET (1 .. n), NEW more, more = places \cup {n + 1}
  PROVE  /\ Cardinality(more) = Cardinality(places) + 1
         /\ Cardinality(Upto(more, n + 1)) = Cardinality(places) + 1
         /\ \A i \in places : Upto(more, i) = Upto(places, i)
<1>1. IsFiniteSet(places) /\ n + 1 \notin places
  <2>1. IsFiniteSet(places)
    BY PlacesFinite
  <2>2. \A i \in places : i \in Nat /\ i <= n
    OBVIOUS
  <2> QED BY <2>1, <2>2
<1>2. Cardinality(more) = Cardinality(places) + 1
  BY <1>1, FS_AddElement
<1>3. Upto(more, n + 1) = more
  <2>1. \A i \in more : i <= n + 1
    OBVIOUS
  <2> QED BY <2>1 DEF Upto
<1>4. \A i \in places : Upto(more, i) = Upto(places, i)
  BY DEF Upto
<1> QED BY <1>2, <1>3, <1>4

(* When the first of all frames is taken out, one frame less is left of    *)
(* its signal ...                                                          *)
LEMMA OneLessPlace ==
  ASSUME NEW n \in Nat, NEW some \in SUBSET (1 .. n), NEW moved,
         moved = MovedUp(some \ {1})
  PROVE  /\ 1 \notin some => Cardinality(moved) = Cardinality(some)
         /\ 1 \in some => Cardinality(moved) + 1 = Cardinality(some)
<1>1. IsFiniteSet(some) /\ Cardinality(some) \in Nat
  BY PlacesFinite
<1>2. IsFiniteSet(some \ {1})
  BY <1>1, FS_RemoveElement
<1>3. Cardinality(moved) = Cardinality(some \ {1})
  <2>1. some \ {1} \in SUBSET Int
    OBVIOUS
  <2> QED BY <1>1, <1>2, <2>1, MovedUpAsMany
<1>4. 1 \in some => Cardinality(some \ {1}) = Cardinality(some) - 1
  BY <1>1, FS_RemoveElement
<1>5. 1 \notin some => some \ {1} = some
  OBVIOUS
<1>6. CASE 1 \in some
  BY <1>1, <1>3, <1>4, <1>6
<1>7. CASE 1 \notin some
  BY <1>3, <1>5, <1>7
<1> QED BY <1>6, <1>7

(* ... and the others of the signal are one turn earlier, while those of   *)
(* other signals keep their turns.                                         *)
LEMMA OneTurnEarlier ==
  ASSUME NEW n \in Nat, NEW places \in SUBSET (1 .. n), NEW i \in MovedUp(places \ {1})
  PROVE  LET turns == Cardinality(Upto(MovedUp(places \ {1}), i))
         IN /\ 1 \notin places => turns = Cardinality(Upto(places, i + 1))
            /\ 1 \in places => turns + 1 = Cardinality(Upto(places, i + 1))
<1> DEFINE rest == MovedUp(places \ {1})
<1>0. /\ Upto(rest, i) = MovedUp(Upto(places, i + 1) \ {1})
      /\ Upto(places, i + 1) \in SUBSET (1 .. n)
      /\ 1 \in Upto(places, i + 1) <=> 1 \in places
  <2>1. i \in Int /\ 1 <= i
    BY DEF MovedUp
  <2>2. \A j \in places : j \in Int
    OBVIOUS
  <2>3. Upto(places, i + 1) \in SUBSET (1 .. n)
    BY DEF Upto
  <2>4. 1 \in Upto(places, i + 1) <=> 1 \in places
    BY <2>1 DEF Upto
  <2>5. \A j : j \in Upto(rest, i) <=> j + 1 \in places /\ j + 1 # 1 /\ j \in Int /\ j <= i
    <3> HIDE DEF Upto
    <3>1. \A j : j \in Upto(rest, i) <=> j \in rest /\ j <= i
      BY DEF Upto
    <3>2. \A j : j \in rest <=> j + 1 \in places /\ j + 1 # 1 /\ j \in Int
      BY <2>2 DEF MovedUp
    <3> QED BY <3>1, <3>2
  <2>6. \A j \in Upto(places, i + 1) \ {1} : j - 1 \in Upto(rest, i)
    BY <2>1, <2>2, <2>5 DEF Upto
  <2>7. \A j \in Upto(rest, i) : j + 1 \in Upto(places, i + 1) \ {1} /\ j = (j + 1) - 1
    BY <2>1, <2>5 DEF Upto
  <2> QED BY <2>3, <2>4, <2>6, <2>7 DEF MovedUp
<1> QED BY <1>0, OneLessPlace

(* The first of all frames is the first of its signal. *)
LEMMA FirstTurn ==
  ASSUME NEW n \in Nat, NEW places \in SUBSET (1 .. n), 1 \in places
  PROVE  Cardinality(Upto(places, 1)) = 1
<1>1. Upto(places, 1) = {1}
  <2>1. \A j \in Upto(places, 1) : j = 1
    <3>1. \A j \in places : j \in Nat /\ 1 <= j
      OBVIOUS
    <3> QED BY <3>1 DEF Upto
  <2>2. 1 \in Upto(places, 1)
    BY DEF Upto
  <2> QED BY <2>1, <2>2
<1> QED BY <1>1, FS_Singleton

(* What is decoded from the raw value of a reading is within half a step.  *)
LEMMA DecodedIsRounded ==
  ASSUME NEW s \in Signal, NEW made \in Int, NEW raw \in RawValues(s, made)
  PROVE  Rounded(s, PhysicalValue(s, raw), made)
<1>1. GetSignalDefinition(s).scale \in {10, 100} /\ GetSignalDefinition(s).offset \in Int
  BY DefinitionType
<1>2. /\ raw \in Int
      /\ Between(2 * made - GetSignalDefinition(s).scale, 2 * PhysicalValue(s, raw),
                 2 * made + GetSignalDefinition(s).scale)
  BY <1>1, RoundsToNearest
<1>3. PhysicalValue(s, raw) \in Int
  BY <1>1, <1>2 DEF PhysicalValue
<1>4. PICK scale \in Int : scale = GetSignalDefinition(s).scale
  BY <1>1
<1>5. PICK value \in Int : value = PhysicalValue(s, raw)
  BY <1>3
<1>6. 2 * made - scale <= 2 * value /\ 2 * value <= 2 * made + scale
  BY <1>2, <1>4, <1>5 DEF Between
<1>7. Between(-scale, 2 * (value - made), scale)
  BY <1>6 DEF Between
<1> QED BY <1>4, <1>5, <1>7 DEF Rounded

(* The places of a signal's frames are places of the queue. *)
LEMMA FramesFinite ==
  ASSUME TypeOK, NEW s \in Signal
  PROVE  /\ Len(queue) \in Nat /\ Frames(s) \in SUBSET (1 .. Len(queue))
         /\ IsFiniteSet(Frames(s)) /\ Cardinality(Frames(s)) \in Nat
         /\ Len(handled[s]) \in Nat /\ Len(sent[s]) \in Nat
         /\ DOMAIN handled[s] = 1 .. Len(handled[s])
<1>1. Len(queue) \in Nat /\ DOMAIN queue = 1 .. Len(queue)
  BY DEF TypeOK
<1>2. Frames(s) \in SUBSET (1 .. Len(queue))
  BY <1>1 DEF Frames
<1>3. IsFiniteSet(Frames(s)) /\ Cardinality(Frames(s)) \in Nat
  BY <1>1, <1>2, PlacesFinite
<1>4. /\ handled[s] \in Seq([value : Int, valid : BOOLEAN])
      /\ sent[s] \in Seq(Int)
  BY DEF TypeOK
<1> QED BY <1>1, <1>2, <1>3, <1>4

(* The condition for one signal, its parts told apart. *)
Counted(s) == Len(handled[s]) + Cardinality(Frames(s)) = Len(sent[s])
HandledRounded(s) == \A i \in DOMAIN handled[s] : Rounded(s, handled[s][i].value, sent[s][i])
Turn(s, i) == Len(handled[s]) + Cardinality(Upto(Frames(s), i))
FramesRounded(s) ==
  \A i \in Frames(s) : Rounded(s, PhysicalValue(s, queue[i].raw), sent[s][Turn(s, i)])

(* Together they are the property. *)
LEMMA ReadingsArriveParts ==
  /\ ReadingsArrive <=> \A s \in Signal : Counted(s) /\ HandledRounded(s) /\ FramesRounded(s)
  /\ ReadingsArrive' <=>
       \A s \in Signal : Counted(s)' /\ HandledRounded(s)' /\ FramesRounded(s)'
<1> QED BY DEF ReadingsArrive, Counted, HandledRounded, FramesRounded, Turn, Upto

(* Nothing is sent, on its way or handled at the start. *)
LEMMA NoReadingsYet == Init => ReadingsArrive
<1> SUFFICES ASSUME Init, NEW s \in Signal
             PROVE  Counted(s) /\ HandledRounded(s) /\ FramesRounded(s)
  BY ReadingsArriveParts
<1>1. queue = <<>> /\ sent[s] = <<>> /\ handled[s] = <<>>
  BY DEF Init
<1>2. Frames(s) = {}
  BY <1>1 DEF Frames
<1>3. Cardinality(Frames(s)) = 0
  BY <1>2, FS_EmptySet
<1> QED BY <1>1, <1>2, <1>3 DEF Counted, HandledRounded, FramesRounded

(* A frame that is sent goes to the end of the queue.  If it is a          *)
(* reading's, the reading joins those sent.                                *)
LEMMA FrameSent ==
  ASSUME TypeOK, TypeOK', ReadingsArrive, NEW frame, queue' = Append(queue, frame),
         handled' = handled, NEW made \in Int,
         \/ frame.id \notin Signal /\ sent' = sent
         \/ /\ frame.id \in Signal
            /\ sent' = [sent EXCEPT ![frame.id] = Append(@, made)]
            /\ Rounded(frame.id, PhysicalValue(frame.id, frame.raw), made)
  PROVE  ReadingsArrive'
<1> SUFFICES ASSUME NEW s \in Signal
             PROVE  Counted(s)' /\ HandledRounded(s)' /\ FramesRounded(s)'
  BY ReadingsArriveParts
<1> DEFINE n == Len(queue)
<1>1. /\ n \in Nat /\ Frames(s) \in SUBSET (1 .. n)
      /\ Cardinality(Frames(s)) \in Nat
      /\ Len(handled[s]) \in Nat /\ Len(sent[s]) \in Nat
      /\ DOMAIN handled[s] = 1 .. Len(handled[s])
  BY FramesFinite
<1>2. Counted(s) /\ HandledRounded(s) /\ FramesRounded(s)
  BY ReadingsArriveParts
<1>3. /\ DOMAIN queue = 1 .. n /\ DOMAIN queue' = 1 .. n + 1
      /\ queue'[n + 1] = frame
      /\ \A i \in 1 .. n : queue'[i] = queue[i]
  BY DEF TypeOK
<1>4. \A i \in Frames(s) :
        /\ Cardinality(Upto(Frames(s), i)) \in Nat
        /\ 1 <= Cardinality(Upto(Frames(s), i))
        /\ Cardinality(Upto(Frames(s), i)) <= Cardinality(Frames(s))
  BY <1>1, PlacesFinite, TurnIsPositive
<1> HIDE DEF n
<1>5. CASE frame.id # s
  <2>1. Frames(s)' = Frames(s)
    BY <1>1, <1>3, <1>5 DEF Frames
  <2>2. sent'[s] = sent[s]
    BY <1>5 DEF TypeOK
  <2>3. Counted(s)'
    BY <1>2, <2>1, <2>2 DEF Counted
  <2>4. HandledRounded(s)'
    BY <1>2, <2>2 DEF HandledRounded, Rounded
  <2>5. FramesRounded(s)'
    <3>1. \A i \in Frames(s) : Turn(s, i)' = Turn(s, i)
      BY <1>2, <2>1 DEF Turn, Upto
    <3>2. \A i \in Frames(s) : queue'[i] = queue[i]
      BY <1>1, <1>3
    <3> QED BY <1>2, <2>1, <2>2, <3>1, <3>2 DEF FramesRounded, Rounded, PhysicalValue
  <2> QED BY <2>3, <2>4, <2>5
<1>6. CASE frame.id = s
  <2>0. PICK more : more = Frames(s) \cup {n + 1}
    OBVIOUS
  <2>1. Frames(s)' = more
    BY <1>1, <1>3, <1>6, <2>0 DEF Frames
  <2>2. /\ Cardinality(more) = Cardinality(Frames(s)) + 1
        /\ Cardinality(Upto(more, n + 1)) = Cardinality(Frames(s)) + 1
        /\ \A i \in Frames(s) : Upto(more, i) = Upto(Frames(s), i)
    <3>1. \A places \in SUBSET (1 .. n) : \A other :
            other = places \cup {n + 1} =>
              /\ Cardinality(other) = Cardinality(places) + 1
              /\ Cardinality(Upto(other, n + 1)) = Cardinality(places) + 1
              /\ \A i \in places : Upto(other, i) = Upto(places, i)
      BY <1>1, TurnsWithOneMore
    <3> QED BY <1>1, <2>0, <3>1, Zenon
  <2>3. sent[s] \in Seq(Int) /\ sent'[s] = Append(sent[s], made)
    BY <1>6 DEF TypeOK
  <2>4. /\ Len(sent'[s]) = Len(sent[s]) + 1
        /\ sent'[s][Len(sent[s]) + 1] = made
        /\ \A i \in 1 .. Len(sent[s]) : sent'[s][i] = sent[s][i]
    BY <2>3
  <2>5. Counted(s)'
    <3>1. Counted(s)' <=> Len(handled[s]) + Cardinality(more) = Len(sent'[s])
      BY <2>1 DEF Counted
    <3>2. Len(handled[s]) + Cardinality(Frames(s)) = Len(sent[s])
      BY <1>2 DEF Counted
    <3>3. Len(handled[s]) + Cardinality(more) = Len(sent'[s])
      <4> DEFINE before == Len(handled[s])
                 ahead == Cardinality(Frames(s))
                 all == Len(sent[s])
      <4>1. before \in Nat /\ ahead \in Nat /\ all \in Nat /\ before + ahead = all
        BY <1>1, <3>2
      <4>2. Cardinality(more) = ahead + 1 /\ Len(sent'[s]) = all + 1
        BY <2>2, <2>4
      <4> HIDE DEF before, ahead, all
      <4>3. before + Cardinality(more) = Len(sent'[s])
        BY <4>1, <4>2
      <4> QED BY <4>3 DEF before
    <3> QED BY <3>1, <3>3
  <2>6. HandledRounded(s)'
    <3>1. \A i \in DOMAIN handled[s] : sent'[s][i] = sent[s][i]
      BY <1>1, <1>2, <2>4 DEF Counted
    <3> QED BY <1>2, <3>1 DEF HandledRounded, Rounded
  <2>7. FramesRounded(s)'
    <3> SUFFICES ASSUME NEW i \in Frames(s)'
                 PROVE  Rounded(s, PhysicalValue(s, queue'[i].raw), sent'[s][Turn(s, i)'])
      BY DEF FramesRounded, Rounded, PhysicalValue
    <3>1. CASE i = n + 1
      <4>1. Turn(s, i)' = Len(sent[s]) + 1
        <5>1. Turn(s, i)' = Len(handled[s]) + Cardinality(Upto(more, n + 1))
          BY <2>1, <3>1 DEF Turn, Upto
        <5>2. Len(handled[s]) + Cardinality(Frames(s)) = Len(sent[s])
          BY <1>2 DEF Counted
        <5>3. PICK before \in Nat, ahead \in Nat : before = Len(handled[s]) /\ ahead = Cardinality(Frames(s))
          BY <1>1
        <5>4. Cardinality(Upto(more, n + 1)) = ahead + 1
          BY <2>2, <5>3
        <5>5. Turn(s, i)' = before + (ahead + 1) /\ Len(sent[s]) = before + ahead
          BY <5>1, <5>2, <5>3, <5>4
        <5> QED BY <5>5
      <4> QED BY <1>3, <1>6, <2>4, <3>1, <4>1
    <3>2. CASE i \in Frames(s)
      <4>1. Turn(s, i)' = Turn(s, i)
        <5>1. Turn(s, i)' = Len(handled[s]) + Cardinality(Upto(more, i))
          BY <2>1 DEF Turn, Upto
        <5> QED BY <2>2, <3>2, <5>1 DEF Turn
      <4>2. Turn(s, i) \in 1 .. Len(sent[s])
        BY <1>1, <1>2, <1>4, <3>2 DEF Turn, Counted
      <4>3. queue'[i] = queue[i]
        BY <1>1, <1>3, <3>2
      <4> QED BY <1>2, <2>4, <3>2, <4>1, <4>2, <4>3 DEF FramesRounded
    <3> QED BY <2>0, <2>1, <3>1, <3>2
  <2> QED BY <2>5, <2>6, <2>7
<1> QED BY <1>5, <1>6

(* The frame that is taken out is the first of the queue.  If it is a      *)
(* reading's, what is made of it joins what was handled.                   *)
LEMMA FrameTaken ==
  ASSUME TypeOK, TypeOK', ReadingsArrive, queue # <<>>, queue' = Tail(queue),
         sent' = sent, NEW made,
         \/ Head(queue).id \notin Signal /\ handled' = handled
         \/ /\ Head(queue).id \in Signal
            /\ handled' = [handled EXCEPT ![Head(queue).id] = Append(@, made)]
            /\ made \in [value : Int, valid : BOOLEAN]
            /\ made.value = PhysicalValue(Head(queue).id, Head(queue).raw)
  PROVE  ReadingsArrive'
<1> SUFFICES ASSUME NEW s \in Signal
             PROVE  Counted(s)' /\ HandledRounded(s)' /\ FramesRounded(s)'
  BY ReadingsArriveParts
<1> DEFINE n == Len(queue)
           c == Cardinality(Frames(s))
<1>1. /\ n \in Nat /\ Frames(s) \in SUBSET (1 .. n)
      /\ c \in Nat
      /\ Len(handled[s]) \in Nat /\ Len(sent[s]) \in Nat
      /\ DOMAIN handled[s] = 1 .. Len(handled[s])
  BY FramesFinite
<1>2. Counted(s) /\ HandledRounded(s) /\ FramesRounded(s)
  BY ReadingsArriveParts
<1>3. /\ 1 \in 1 .. n /\ Head(queue) = queue[1]
      /\ DOMAIN queue = 1 .. n /\ DOMAIN queue' = 1 .. n - 1
      /\ \A i \in 1 .. n - 1 : queue'[i] = queue[i + 1]
  <2>1. queue \in Seq([id : Signal \cup {"uds"}, raw : Int])
    BY DEF TypeOK
  <2> QED BY <2>1, HeadTailProperties
<1>4. PICK rest : rest = MovedUp(Frames(s) \ {1})
  OBVIOUS
<1>5. Frames(s)' = rest
  <2>1. \A i : i \in Frames(s)' <=> i \in 1 .. n - 1 /\ queue[i + 1].id = s
    BY <1>3 DEF Frames
  <2>2. \A i : i \in rest <=> i \in Int /\ i # 0 /\ i + 1 \in Frames(s)
    BY <1>1, <1>4 DEF MovedUp
  <2>3. \A i : i \in Frames(s) <=> i \in 1 .. n /\ queue[i].id = s
    BY <1>3 DEF Frames
  <2>4. \A i : i \in 1 .. n - 1 <=> i \in Int /\ i # 0 /\ i + 1 \in 1 .. n
    BY <1>1
  <2> HIDE DEF n, Frames
  <2> QED BY <2>1, <2>2, <2>3, <2>4
<1>6. /\ 1 \notin Frames(s) => Cardinality(rest) = c
      /\ 1 \in Frames(s) => Cardinality(rest) + 1 = c
      /\ \A i \in rest :
           /\ 1 \notin Frames(s) =>
                Cardinality(Upto(rest, i)) = Cardinality(Upto(Frames(s), i + 1))
           /\ 1 \in Frames(s) =>
                Cardinality(Upto(rest, i)) + 1 = Cardinality(Upto(Frames(s), i + 1))
      /\ 1 \in Frames(s) => Cardinality(Upto(Frames(s), 1)) = 1
  <2>1. PICK places \in SUBSET (1 .. n) : places = Frames(s)
    BY <1>1
  <2>2. rest = MovedUp(places \ {1})
    BY <1>4, <2>1
  <2>3. n \in Nat
    BY <1>1
  <2> HIDE DEF n
  <2>4. 1 \notin places => Cardinality(rest) = Cardinality(places)
    BY <2>2, <2>3, OneLessPlace
  <2>5. 1 \in places => Cardinality(rest) + 1 = Cardinality(places)
    BY <2>2, <2>3, OneLessPlace
  <2>6. ASSUME NEW i \in rest
        PROVE  /\ 1 \notin places =>
                    Cardinality(Upto(rest, i)) = Cardinality(Upto(places, i + 1))
               /\ 1 \in places =>
                    Cardinality(Upto(rest, i)) + 1 = Cardinality(Upto(places, i + 1))
    BY <2>2, <2>3, OneTurnEarlier
  <2>7. 1 \in places => Cardinality(Upto(places, 1)) = 1
    BY <2>3, FirstTurn
  <2> QED BY <2>1, <2>4, <2>5, <2>6, <2>7
<1>7. /\ rest \in SUBSET (1 .. n) /\ Cardinality(rest) \in Nat
      /\ \A i \in rest : i + 1 \in Frames(s) /\ Cardinality(Upto(rest, i)) \in Nat
  <2>1. rest \in SUBSET (1 .. n) /\ \A i \in rest : i + 1 \in Frames(s)
    BY <1>1, <1>4 DEF MovedUp
  <2> QED BY <1>1, <2>1, PlacesFinite
<1>8. 1 \in Frames(s) <=> Head(queue).id = s
  BY <1>3 DEF Frames
<1>9. /\ Counted(s)' <=> Len(handled'[s]) + Cardinality(rest) = Len(sent[s])
      /\ HandledRounded(s)' <=>
           \A i \in DOMAIN handled'[s] : Rounded(s, handled'[s][i].value, sent[s][i])
      /\ FramesRounded(s)' <=>
           \A i \in rest : Rounded(s, PhysicalValue(s, queue'[i].raw),
                                   sent[s][Len(handled'[s]) + Cardinality(Upto(rest, i))])
  BY <1>5 DEF Counted, HandledRounded, FramesRounded, Turn, Upto, Rounded, PhysicalValue
<1>10. \A i \in rest :
         Rounded(s, PhysicalValue(s, queue'[i].raw),
                 sent[s][Len(handled[s]) + Cardinality(Upto(Frames(s), i + 1))])
  <2> SUFFICES ASSUME NEW i \in rest
               PROVE  Rounded(s, PhysicalValue(s, queue'[i].raw),
                              sent[s][Len(handled[s]) + Cardinality(Upto(Frames(s), i + 1))])
    OBVIOUS
  <2>1. i + 1 \in Frames(s)
    BY <1>7
  <2>2. queue'[i] = queue[i + 1]
    BY <1>1, <1>3, <1>7, <2>1
  <2> QED BY <1>2, <2>1, <2>2 DEF FramesRounded, Turn
<1>11. Len(handled[s]) + c = Len(sent[s])
  BY <1>2 DEF Counted
<1> HIDE DEF n, c
<1>12. CASE Head(queue).id # s
  <2>1. handled'[s] = handled[s]
    BY <1>12 DEF TypeOK
  <2>2. 1 \notin Frames(s)
    BY <1>8, <1>12
  <2>3. Counted(s)'
    BY <1>6, <1>9, <1>11, <2>1, <2>2
  <2>4. HandledRounded(s)'
    BY <1>2, <1>9, <2>1 DEF HandledRounded
  <2>5. FramesRounded(s)'
    BY <1>6, <1>9, <1>10, <2>1, <2>2
  <2> QED BY <2>3, <2>4, <2>5
<1>13. CASE Head(queue).id = s
  <2>1. 1 \in Frames(s)
    BY <1>8, <1>13
  <2>2. /\ handled[s] \in Seq([value : Int, valid : BOOLEAN])
        /\ handled'[s] = Append(handled[s], made)
        /\ made \in [value : Int, valid : BOOLEAN]
        /\ made.value = PhysicalValue(s, queue[1].raw)
    BY <1>3, <1>13 DEF TypeOK
  <2>3. /\ Len(handled'[s]) = Len(handled[s]) + 1
        /\ DOMAIN handled'[s] = 1 .. Len(handled[s]) + 1
        /\ handled'[s][Len(handled[s]) + 1] = made
        /\ \A i \in 1 .. Len(handled[s]) : handled'[s][i] = handled[s][i]
    BY <2>2
  <2>4. Counted(s)'
    <3> DEFINE before == Len(handled[s])
               all == Len(sent[s])
    <3>1. before \in Nat /\ c \in Nat /\ all \in Nat /\ before + c = all
      BY <1>1, <1>11
    <3>2. /\ Cardinality(rest) \in Nat /\ Cardinality(rest) + 1 = c
          /\ Len(handled'[s]) = before + 1
      BY <1>6, <1>7, <2>1, <2>3
    <3> HIDE DEF before, all
    <3>3. Len(handled'[s]) + Cardinality(rest) = all
      BY <3>1, <3>2
    <3> QED BY <1>9, <3>3 DEF all
  <2>5. HandledRounded(s)'
    <3>1. Rounded(s, made.value, sent[s][Len(handled[s]) + 1])
      BY <1>2, <1>6, <2>1, <2>2 DEF FramesRounded, Turn
    <3>2. \A i \in 1 .. Len(handled[s]) : Rounded(s, handled[s][i].value, sent[s][i])
      BY <1>1, <1>2 DEF HandledRounded
    <3>3. ASSUME NEW i \in 1 .. Len(handled[s]) + 1
          PROVE  Rounded(s, handled'[s][i].value, sent[s][i])
      <4>1. i = Len(handled[s]) + 1 \/ i \in 1 .. Len(handled[s])
        BY <1>1
      <4> QED BY <2>3, <3>1, <3>2, <4>1
    <3> QED BY <1>9, <2>3, <3>3
  <2>6. FramesRounded(s)'
    <3>1. \A i \in rest : Len(handled'[s]) + Cardinality(Upto(rest, i))
                            = Len(handled[s]) + Cardinality(Upto(Frames(s), i + 1))
      BY <1>1, <1>6, <1>7, <2>1, <2>3
    <3> QED BY <1>9, <1>10, <3>1
  <2> QED BY <2>4, <2>5, <2>6
<1> QED BY <1>12, <1>13

(* The condition survives every step, given the types. *)
LEMMA ReadingsKept == IInv /\ IInv' /\ ReadingsArrive /\ [Next]_vars => ReadingsArrive'
<1> SUFFICES ASSUME IInv, IInv', ReadingsArrive, [Next]_vars PROVE ReadingsArrive'
  OBVIOUS
<1>1. TypeOK /\ TypeOK'
  BY DEF IInv
<1>2. CASE UNCHANGED <<queue, sent, handled>>
  BY <1>2 DEF ReadingsArrive, Frames, Rounded, PhysicalValue
<1>3. ASSUME NEW e \in Ecu, SendReading(e) PROVE ReadingsArrive'
  <2> DEFINE signal == Head(toSend[e])
  <2>1. signal \in Signal
    <3>1. toSend[e] \in Seq(Signal) /\ toSend[e] # <<>>
      BY <1>1, <1>3 DEF TypeOK, SendReading
    <3> QED BY <3>1, HeadTailProperties
  <2>2. reading[signal] \in Int
    <3>1. reading \in [Signal -> Int]
      BY <1>1 DEF TypeOK, WithinLimits
    <3> QED BY <2>1, <3>1
  <2>3. handled' = handled
    BY <1>3 DEF SendReading
  <2>4. PICK raw \in RawValues(signal, reading[signal]) :
          \/ /\ queue' = Append(queue, [id |-> signal, raw |-> raw])
             /\ sent' = [sent EXCEPT ![signal] = Append(@, reading[signal])]
          \/ UNCHANGED <<queue, sent>>
    BY <1>3 DEF SendReading
  <2>5. CASE UNCHANGED <<queue, sent>>
    BY <1>2, <2>3, <2>5
  <2>6. CASE /\ queue' = Append(queue, [id |-> signal, raw |-> raw])
             /\ sent' = [sent EXCEPT ![signal] = Append(@, reading[signal])]
    <3>1. PICK frame : frame = [id |-> signal, raw |-> raw]
      OBVIOUS
    <3>2. frame.id = signal /\ frame.raw = raw
      BY <3>1
    <3>3. Rounded(signal, PhysicalValue(signal, raw), reading[signal])
      BY <2>1, <2>2, DecodedIsRounded
    <3>4. PICK made \in Int : made = reading[signal]
      BY <2>2
    <3> HIDE DEF signal
    <3>5. queue' = Append(queue, frame) /\ sent' = [sent EXCEPT ![signal] = Append(@, made)]
      BY <2>6, <3>1, <3>4
    <3> QED BY <1>1, <2>1, <2>3, <3>2, <3>3, <3>4, <3>5, FrameSent
  <2> QED BY <2>4, <2>5, <2>6
<1>4. CASE SendForeign
  <2>1. PICK frame : frame = [id |-> "uds", raw |-> 0]
    OBVIOUS
  <2>2. queue' = Append(queue, frame) /\ handled' = handled /\ sent' = sent
    BY <1>4, <2>1 DEF SendForeign
  <2>3. frame.id \notin Signal
    BY <2>1 DEF Signal
  <2> QED BY <1>1, <2>2, <2>3, FrameSent
<1>5. CASE IgnoreFrame
  <2>1. /\ queue # <<>> /\ queue' = Tail(queue)
        /\ handled' = handled /\ sent' = sent
        /\ Head(queue).id = "uds"
    BY <1>5 DEF IgnoreFrame
  <2>2. Head(queue).id \notin Signal
    BY <2>1 DEF Signal
  <2> QED BY <1>1, <2>1, <2>2, FrameTaken
<1>6. CASE IngestFrame
  <2> DEFINE signal == Head(queue).id
             value == PhysicalValue(signal, Head(queue).raw)
  <2>1. PICK made : made = [value |-> value, valid |-> IsValid(signal, value)]
    OBVIOUS
  <2>2. /\ queue # <<>> /\ queue' = Tail(queue) /\ sent' = sent
        /\ handled' = [handled EXCEPT ![signal] = Append(@, made)]
        /\ signal # "uds"
    BY <1>6, <2>1 DEF IngestFrame
  <2>3. signal \in Signal /\ Head(queue).raw \in Int
    <3>1. queue \in Seq([id : Signal \cup {"uds"}, raw : Int])
      BY <1>1 DEF TypeOK
    <3>2. Head(queue) \in [id : Signal \cup {"uds"}, raw : Int]
      BY <2>2, <3>1, HeadTailProperties
    <3> QED BY <2>2, <3>2
  <2>4. value \in Int
    BY <2>3, DefinitionType DEF PhysicalValue
  <2>5. made \in [value : Int, valid : BOOLEAN] /\ made.value = value
    <3> HIDE DEF value, signal
    <3> QED BY <2>1, <2>4 DEF IsValid, Between
  <2> QED BY <1>1, <2>2, <2>3, <2>5, FrameTaken
<1>7. UNCHANGED <<queue, sent, handled>> \/ SendForeign \/ IgnoreFrame \/ IngestFrame
        \/ \E e \in Ecu : SendReading(e)
  BY DEF Next, EcuProceeds, Tick, EcuEnds, StopEcus, vars
<1> QED BY <1>2, <1>3, <1>4, <1>5, <1>6, <1>7

(* For all draws, any number of ticks and any traffic in between: the      *)
(* gateway gets each signal's readings once, in order and within half a    *)
(* step of their resolution (ingestion.py 48, can_signal_map.py 150).      *)
THEOREM ReadingsAlwaysArrive == Spec => []ReadingsArrive
<1> QED BY NoReadingsYet, ReadingsKept, PathInvariance, PTL DEF Spec

=============================================================================
