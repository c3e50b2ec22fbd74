------------------------------ MODULE MCHazard ------------------------------
(***************************************************************************)
(* A two-bit circuit in which gates that feed each other fall due at the   *)
(* same timestamp.  On a change of the pin u the gates p, q and z commit   *)
(* together; g2 and g3 are then scheduled for the same deadline as h,      *)
(* which takes the support of g2 away at that deadline, and the verdict on *)
(* g2 reverses the verdict on g3.  uw follows u one unit later, so the     *)
(* pending transition of v is replaced and its first event goes stale.     *)
(* Beside it is a gated ring oscillator: with en low it settles, with en   *)
(* high it never does, and only the settle budget ends the call.           *)
(***************************************************************************)
EXTENDS EngineInvariant, Wiring

MCKind ==
  [u  |-> "input_pin", ones |-> "input_pin", low |-> "input_pin",
   p  |-> "and", q |-> "and", h |-> "not", z |-> "not",
   g2 |-> "and", g3 |-> "and", w |-> "wire", o |-> "output_pin",
   uw |-> "wire", v |-> "and",
   en |-> "input_pin", rg |-> "and", rn |-> "not", rw |-> "wire"]

MCComponent == DOMAIN MCKind

MCNet == Wired(MCComponent, MCKind,
  << Edge("u", "p", "a"), Edge("ones", "p", "b"),
     Edge("u", "q", "a"), Edge("low", "q", "b"),
     Edge("u", "z", "in"), Edge("q", "h", "in"),
     Edge("p", "g2", "a"), Edge("h", "g2", "b"),
     Edge("z", "g3", "a"), Edge("g2", "g3", "b"),
     Edge("g3", "w", "in"), Edge("w", "o", "in"),
     Edge("u", "uw", "in"), Edge("u", "v", "a"), Edge("uw", "v", "b"),
     Edge("en", "rg", "a"), Edge("rw", "rg", "b"), Edge("rg", "rn", "in"), Edge("rn", "rw", "in") >>)

MCDrivers == MCNet.drivers
MCOutputs == MCNet.outputs
MCWidth == [c \in MCComponent |-> IF c \in {"en", "rg", "rn", "rw"} THEN 1 ELSE 2]
MCSliceLo == [c \in MCComponent |-> 0]
MCAddrWidth == [c \in MCComponent |-> 0]

MCHostPin == {"u", "ones", "low", "en"}
MCHostValue ==
  [u    |-> {<<"0", "1">>, <<"1", "0">>, <<"1", "1">>, <<"X", "1">>},
   ones |-> {<<"1", "1">>},
   low  |-> {<<"1", "0">>},
   en   |-> {<<"0">>, <<"1">>}]
MCHostWord == [m \in {} |-> {}]
MCHostImage == [m \in {} |-> {}]
=============================================================================
