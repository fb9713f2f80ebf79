----------------------------- MODULE MCSignalPath -----------------------------
(* Signals at their start and at their limits, ticks that move them there. *)
EXTENDS SignalPathProperties

AtStart ==
  [speed |-> 0, rpm |-> 80000, throttle |-> 0, soc |-> 8000, voltage |-> 40000, current |-> 0,
   temp |-> 2500, door |-> 0, indicator |-> 0, odometer |-> 1250000, ambient |-> 2200]
AtLow ==
  [speed |-> 5, rpm |-> 80049, throttle |-> 51, soc |-> 3, voltage |-> 30001, current |-> -49985,
   temp |-> -3999, door |-> 1500, indicator |-> 300, odometer |-> 99999949, ambient |-> -3990]
AtHigh ==
  [speed |-> 24995, rpm |-> 799950, throttle |-> 9950, soc |-> 9999, voltage |-> 41995,
   current |-> 49985, temp |-> 11950, door |-> 800, indicator |-> 200, odometer |-> 100000049,
   ambient |-> 5950]
MCBegin == {AtStart, AtLow, AtHigh}

Uniform(percent, door, indicator, km) ==
  [speed |-> percent, rpm |-> percent, throttle |-> percent, soc |-> percent, voltage |-> percent,
   current |-> percent, temp |-> percent, door |-> door, indicator |-> indicator,
   odometer |-> km, ambient |-> percent]
MCDraws == {Uniform(-100, 4, 3, 0), Uniform(37, 0, -1, 1), Uniform(100, 1, 0, 2)}

=============================================================================
