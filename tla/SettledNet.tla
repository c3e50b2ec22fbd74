----------------------------- MODULE SettledNet -----------------------------
(***************************************************************************)
(* What a host may rely on: the circuit as a box that is handed one pin    *)
(* value at a time and, while it is not busy, shows a net in which every   *)
(* gate and wire-like component agrees with its drivers and every host pin *)
(* holds the last value driven onto it.  There is no queue, no time and no *)
(* budget here; a call may also give up, and then nothing can be read any  *)
(* more.  A bistable circuit has several such nets: which one it settles   *)
(* in is left open.                                                        *)
(***************************************************************************)
EXTENDS Netlist

CONSTANTS HostPin, HostValue

VARIABLES
  pins,     \* the value last driven onto each host pin
  net,      \* what the host reads
  status    \* "idle", "busy" in a host call, or "failed"

vars == <<pins, net, status>>

Blank == [c \in Component |-> Undefined(Width[c])]
BlankPins == [p \in HostPin |-> Undefined(Width[p])]

Settled(n) ==
  /\ \A c \in Gate \cup WireLike : n[c] = Target(c, n)
  /\ \A p \in HostPin : n[p] = pins[p]

Init == pins = BlankPins /\ net = Blank /\ status = "idle"

\* Driving the value the pin already holds is answered at once.
Drive(p) ==
  /\ status = "idle"
  /\ \E v \in HostValue[p] : pins' = [pins EXCEPT ![p] = v]
  /\ pins' # pins
  /\ status' = "busy" /\ net' = Blank

\* A host write to a memory that changes the word on its output.
Disturb ==
  /\ status = "idle" /\ Memory # {}
  /\ status' = "busy" /\ net' = Blank /\ UNCHANGED pins

Settle ==
  /\ status = "busy"
  /\ status' = "idle" /\ UNCHANGED pins
  /\ DOMAIN net' = Component /\ Settled(net')

GiveUp ==
  /\ status = "busy"
  /\ status' = "failed" /\ net' = Blank /\ pins' = BlankPins

Next == (\E p \in HostPin : Drive(p)) \/ Disturb \/ Settle \/ GiveUp

\* Every call comes back, settled or given up.
Answered == status = "busy" ~> status # "busy"

Spec == Init /\ [][Next]_vars /\ Answered
=============================================================================
