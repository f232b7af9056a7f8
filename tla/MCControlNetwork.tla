--------------------------- MODULE MCControlNetwork ---------------------------
(* Sets of control networks for TLC.                                         *)
EXTENDS ControlNetwork, TLC

D(d) == [type |-> "device", id |-> d]
C(c) == [type |-> "control", id |-> c]

Control(kind, inputs, latch) ==
  [kind |-> kind, inputs |-> inputs, latch |-> latch, initial |-> FALSE,
   upper |-> FALSE, n |-> 1, delay |-> 0]

(* Gates over two devices and over each other, declared in any order.        *)
GateInputs(c) ==
  LET o1 == (c % 3) + 1
      o2 == (o1 % 3) + 1
  IN  {<<C(o1), D("d1")>>, <<D("d2"), C(o2)>>, <<C(o1), C(o2)>>,
       <<D("d1"), D("d2")>>}

GateNetworks ==
  LET options(c, latch) == {Control(k, in, latch) : in \in GateInputs(c),
                              k \in {"AND_GATE", "XOR_GATE"}}
      all == UNION {{<<x, y, z>> : x \in options(1, l), y \in options(2, l),
                                   z \in options(3, l)} : l \in BOOLEAN}
  IN  {n \in all : Acyclic(n)}

(* A TIME_DELAY of a device, of a gate declared later and of a gate declared *)
(* earlier.                                                                  *)
Delay(in, d) == [Control("TIME_DELAY", <<in>>, FALSE) EXCEPT !.delay = d]

DelayNetworks(gates, delays) ==
  UNION {{<<Delay(in, d), Control(g, <<D("d1"), D("d2")>>, FALSE),
            Delay(C(2), d)>> : in \in {D("d1"), C(2)}, g \in gates} : d \in delays}

TimerNetworks  == DelayNetworks({"AND_GATE", "OR_GATE"}, {1, 2})

(* A thermostat with KILL and RESTART, declared before and after it.         *)
Thermostat(upper) == [Control("DEADBAND", <<D("d1")>>, FALSE) EXCEPT !.upper = upper]

ThermostatNetworks ==
  UNION {{<<Control("KILL", <<k>>, TRUE), Thermostat(u),
            Control("CORE_DUMP", <<C(2)>>, l), Control("CUSTOM", <<D("d1")>>, FALSE)>> :
           k \in {C(2), C(3), D("d2")}} : u \in BOOLEAN, l \in BOOLEAN}
=============================================================================
