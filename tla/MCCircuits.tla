----------------------------- MODULE MCCircuits -----------------------------
(***************************************************************************)
(* The circuits of the runs, but for the one of MCHazard.                  *)
(*                                                                         *)
(* Skew: unequal delays in front of gates.  The two bits of the bus k      *)
(* change one unit apart, so g sees its target change while a transition   *)
(* is pending and replaces it; r is asked twice for the same value; p sees *)
(* a pulse four units wide, and e one exactly as wide as the gate delay.   *)
(* A slice, the wired input pin of a sub-circuit and leds are downstream.  *)
(*                                                                         *)
(* Ram: a one-bit ram with two words.  clk and din both follow the pin c,  *)
(* so they change at the same timestamp and the ram is evaluated once for  *)
(* each; the host also writes, clears and loads the cells between drives.  *)
(*                                                                         *)
(* Rom: a two-bit rom addressed by a bus whose bits change one unit apart, *)
(* and a sub-circuit pin fed by one bit of its word.  Both images show the *)
(* skew on out as a one-unit pulse: the first stores the same word at 00   *)
(* and 11, the second another one that agrees with 00 in bit 0 only.       *)
(*                                                                         *)
(* Feedback: tests/fixtures feedback_register.circ, a master-slave         *)
(* register.  Each or is the builtin of lib/resolver/builtin_circ/or.circ, *)
(* expanded to the input pins, inverters and gate of its body; its output  *)
(* pin is a leaf.  On a falling clock the two and gates of a stage hand    *)
(* over at the same timestamp, which without the inertial filter sets the  *)
(* loop oscillating.  Beside it is the SR latch of the site's examples:    *)
(* two cross-coupled NOR cells, whose net depends on its history; its pins *)
(* may be undefined.                                                       *)
(***************************************************************************)
EXTENDS EngineHistory, Wiring, TLC

SkewKind ==
  [x |-> "input_pin", y |-> "input_pin", w |-> "wire", k |-> "concat",
   n |-> "not", g |-> "and", r |-> "and", p |-> "and", e |-> "and",
   s |-> "slice", sub |-> "input_pin", l |-> "led"]

SkewComponent == DOMAIN SkewKind

SkewNet == Wired(SkewComponent, SkewKind,
  << Edge("x", "w", "in"), OperandEdge("x", "k", 0), OperandEdge("w", "k", 1),
     Edge("k", "g", "a"), Edge("y", "g", "b"), Edge("x", "n", "in"),
     Edge("x", "r", "a"), Edge("w", "r", "b"),
     Edge("w", "p", "a"), Edge("n", "p", "b"),
     Edge("x", "e", "a"), Edge("n", "e", "b"),
     Edge("g", "s", "in"), Edge("s", "sub", "in"), Edge("sub", "l", "in"),
     Edge("p", "l", "in") >>)

SkewDrivers == SkewNet.drivers
SkewOutputs == SkewNet.outputs
SkewWidth == [c \in SkewComponent |-> IF c \in {"k", "g", "y"} THEN 2 ELSE 1]
SkewSliceLo == [c \in SkewComponent |-> IF c = "s" THEN 1 ELSE 0]
SkewAddrWidth == [c \in SkewComponent |-> 0]

SkewHostPin == {"x", "y"}
SkewHostValue ==
  [x |-> {<<"0">>, <<"1">>, <<"X">>}, y |-> {<<"1", "1">>, <<"0", "1">>}]
SkewHostWord == [m \in {} |-> {}]
SkewHostImage == [m \in {} |-> {}]

-----------------------------------------------------------------------------
RamKind ==
  [a |-> "input_pin", c |-> "input_pin", we |-> "input_pin",
   cw |-> "wire", dw |-> "wire", m |-> "ram", o |-> "output_pin"]

RamComponent == DOMAIN RamKind

RamNet == Wired(RamComponent, RamKind,
  << Edge("c", "cw", "in"), Edge("c", "dw", "in"), Edge("a", "m", "addr"),
     Edge("we", "m", "we"), Edge("cw", "m", "clk"), Edge("dw", "m", "din"),
     Edge("m", "o", "in") >>)

RamDrivers == RamNet.drivers
RamOutputs == RamNet.outputs
RamWidth == [c \in RamComponent |-> 1]
RamSliceLo == [c \in RamComponent |-> 0]
RamAddrWidth == [c \in RamComponent |-> IF c = "m" THEN 1 ELSE 0]

RamHostPin == {"a", "c", "we"}
RamHostValue == [p \in RamHostPin |->
  IF p = "we" THEN {<<"0">>, <<"1">>} ELSE {<<"0">>, <<"1">>, <<"X">>}]
RamHostWord == [m \in {"m"} |-> {<<"0">>}]
RamHostImage == [m \in {"m"} |->
  {[a \in Address(m) |-> IF a = <<"0">> THEN <<"0">> ELSE <<"X">>]}]

-----------------------------------------------------------------------------
RomKind ==
  [x |-> "input_pin", w |-> "wire", k |-> "concat", m |-> "rom",
   b |-> "slice", sub |-> "input_pin"]

RomComponent == DOMAIN RomKind

RomNet == Wired(RomComponent, RomKind,
  << Edge("x", "w", "in"), OperandEdge("x", "k", 0), OperandEdge("w", "k", 1),
     Edge("k", "m", "addr"), Edge("m", "b", "in"), Edge("b", "sub", "in") >>)

RomDrivers == RomNet.drivers
RomOutputs == RomNet.outputs
RomWidth == [c \in RomComponent |-> IF c \in {"k", "m"} THEN 2 ELSE 1]
RomSliceLo == [c \in RomComponent |-> 0]
RomAddrWidth == [c \in RomComponent |-> IF c = "m" THEN 2 ELSE 0]

RomHostPin == {"x"}
RomHostValue == [p \in RomHostPin |-> {<<"0">>, <<"1">>}]
RomHostWord == [m \in {"m"} |-> {}]

Image(at11) ==
  [a \in Address("m") |->
     CASE a = <<"0", "0">> -> <<"0", "0">>
       [] a = <<"1", "1">> -> at11
       [] OTHER -> <<"1", "0">>]

RomHostImage == [m \in {"m"} |-> {Image(<<"0", "0">>), Image(<<"0", "1">>)}]

-----------------------------------------------------------------------------
OrKind(a, b, na, nb, inner, n, out) ==
  (a :> "input_pin") @@ (b :> "input_pin") @@ (na :> "not") @@ (nb :> "not")
  @@ (inner :> "and") @@ (n :> "not") @@ (out :> "output_pin")

OrEdges(a, b, na, nb, inner, n, out) ==
  << Edge(a, na, "in"), Edge(b, nb, "in"), Edge(na, inner, "a"),
     Edge(nb, inner, "b"), Edge(inner, n, "in"), Edge(n, out, "in") >>

FeedbackKind ==
  [dado |-> "input_pin", clock |-> "input_pin", nclk |-> "not",
   m1 |-> "and", m2 |-> "and", qm |-> "wire",
   s1 |-> "and", s2 |-> "and", qs |-> "wire", s |-> "output_pin"]
  @@ OrKind("ma", "mb", "mna", "mnb", "minner", "mn", "mout")
  @@ OrKind("sa", "sb", "sna", "snb", "sinner", "sn", "sout")
  @@ [set |-> "input_pin", reset |-> "input_pin", nr |-> "not", ns |-> "not",
      qcell |-> "and", qbcell |-> "and", nq |-> "not", nqbar |-> "not",
      q |-> "output_pin", qbar |-> "output_pin"]

FeedbackComponent == DOMAIN FeedbackKind

FeedbackNet == Wired(FeedbackComponent, FeedbackKind,
  OrEdges("ma", "mb", "mna", "mnb", "minner", "mn", "mout")
  \o << Edge("m1", "ma", "in"), Edge("m2", "mb", "in") >>
  \o OrEdges("sa", "sb", "sna", "snb", "sinner", "sn", "sout")
  \o << Edge("s1", "sa", "in"), Edge("s2", "sb", "in"),
        Edge("clock", "nclk", "in"),
        Edge("dado", "m1", "a"), Edge("clock", "m1", "b"),
        Edge("qm", "m2", "a"), Edge("nclk", "m2", "b"),
        Edge("mn", "qm", "in"),
        Edge("qm", "s1", "a"), Edge("nclk", "s1", "b"),
        Edge("qs", "s2", "a"), Edge("clock", "s2", "b"),
        Edge("sn", "qs", "in"), Edge("qs", "s", "in") >>
  \o << Edge("reset", "nr", "in"), Edge("set", "ns", "in"),
        Edge("nr", "qcell", "a"), Edge("nqbar", "qcell", "b"),
        Edge("ns", "qbcell", "a"), Edge("nq", "qbcell", "b"),
        Edge("qcell", "nq", "in"), Edge("qbcell", "nqbar", "in"),
        Edge("qcell", "q", "in"), Edge("qbcell", "qbar", "in") >>)

FeedbackDrivers == FeedbackNet.drivers
FeedbackOutputs == FeedbackNet.outputs
FeedbackWidth == [c \in FeedbackComponent |-> 1]
FeedbackSliceLo == [c \in FeedbackComponent |-> 0]
FeedbackAddrWidth == [c \in FeedbackComponent |-> 0]

FeedbackHostPin == {"dado", "clock", "set", "reset"}
FeedbackHostValue == [p \in FeedbackHostPin |->
  {<<"0">>, <<"1">>} \cup (IF p \in {"set", "reset"} THEN {<<"X">>} ELSE {})]
FeedbackHostWord == [m \in {} |-> {}]
FeedbackHostImage == [m \in {} |-> {}]

\* The clocked feedback never exhausts the settle budget.
SettlesWithinBudget == ~failed

(***************************************************************************)
(* The handoff pulse is suppressed: when clock falls m1 lets go and m2     *)
(* takes over one gate delay later, and a defined stored bit, on qm and on *)
(* the output s, does not move for an instant; a dado driven while clock   *)
(* is low does not reach qm, nor one driven while clock is high the s.     *)
(***************************************************************************)
Moves(c) == state[c] # <<"X">> /\ state'[c] # state[c]

Calls(p, v) == call # NoCall /\ call[1] = p /\ call[2] = v

HandoffHolds ==
  [][/\ Moves("qm") => Calls("clock", <<"1">>)
                       \/ (state["clock"] = <<"1">> /\ call[1] = "dado")
     /\ Moves("s") => Calls("clock", <<"0">>)]_vars

(***************************************************************************)
(* The latch does what the site says of it: after a call that leaves one   *)
(* pin high and the other low, q and qbar are the complementary pair that  *)
(* pin asks for.                                                           *)
(***************************************************************************)
SetAndReset ==
  phase = "idle" /\ ~failed =>
    /\ state["set"] = <<"1">> /\ state["reset"] = <<"0">> =>
         state["q"] = <<"1">> /\ state["qbar"] = <<"0">>
    /\ state["set"] = <<"0">> /\ state["reset"] = <<"1">> =>
         state["q"] = <<"0">> /\ state["qbar"] = <<"1">>
=============================================================================
