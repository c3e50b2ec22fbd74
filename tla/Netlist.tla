------------------------------- MODULE Netlist ------------------------------
(***************************************************************************)
(* A built circuit: what createComponent and connect leave behind before   *)
(* the first host call, and what every component computes from the states  *)
(* of its drivers.  The graph is constant: no host operation adds, removes *)
(* or rewires a component after init.                                      *)
(***************************************************************************)
EXTENDS Integers, Sequences, FiniteSets

(***************************************************************************)
(* Values, BitVecState of lib/circuit.zig.  The code keeps a (value,       *)
(* defined) pair of u64 masks; a bit is therefore defined-low,             *)
(* defined-high or undefined, and the canonical form Pool.write and the    *)
(* operators keep (value & ~defined = 0, nothing above the width) makes    *)
(* the pair equivalent to a vector of three-valued bits.  Bit k of the     *)
(* code is index k + 1 here.                                               *)
(***************************************************************************)

Trit == {"0", "1", "X"}          \* defined-low, defined-high, undefined

State(w) == [1..w -> Trit]

Undefined(w) == [b \in 1..w |-> "X"]

IsUndefined(s) == \A b \in DOMAIN s : s[b] = "X"

Flip(s) ==
  [b \in DOMAIN s |-> IF s[b] = "0" THEN "1" ELSE IF s[b] = "1" THEN "0" ELSE "X"]

\* Variant: an undefined operand makes the bit undefined.
BitAndStrict(s, t) ==
  [b \in DOMAIN s |->
     IF s[b] = "X" \/ t[b] = "X" THEN "X"
     ELSE IF s[b] = "1" /\ t[b] = "1" THEN "1" ELSE "0"]

BitAnd(s, t) ==
  [b \in DOMAIN s |->
     IF s[b] = "0" \/ t[b] = "0" THEN "0"
     ELSE IF s[b] = "1" /\ t[b] = "1" THEN "1" ELSE "X"]

(***************************************************************************)
(* calculateDominantState: per bit, any driver that reads defined-high     *)
(* locks the bit high; every other bit comes from the LAST driver of the   *)
(* list.  "pool" maps a component to its state, "drivers" is the list.     *)
(***************************************************************************)
Dominant(drivers, pool, w) ==
  [b \in 1..w |->
     IF \E i \in 1..Len(drivers) : pool[drivers[i]][b] = "1" THEN "1"
     ELSE IF drivers = <<>> THEN "X"
     ELSE pool[drivers[Len(drivers)]][b]]

-----------------------------------------------------------------------------
(* The circuit *)

CONSTANTS
  Component,   \* the components, Circuit.nodes
  Kind,        \* Kind[c]: the tag of Component.kind
  Width,       \* Width[c]: state_handle.tier
  Drivers,     \* Drivers[c][p]: the components wired to port p of c, in order
  Outputs,     \* Outputs[c]: Component.outputs, in connect order
  SliceLo,     \* SliceLo[c]: first bit a slice extracts
  AddrWidth    \* AddrWidth[c]: address bits of a memory

Kinds == {"input_pin", "not", "and", "led", "wire", "output_pin", "slice",
          "concat", "rom", "ram"}

Memory == {c \in Component : Kind[c] \in {"rom", "ram"}}
Gate   == {c \in Component : Kind[c] \in {"not", "and"}}

\* The components scheduled with WIRE_PROPAGATION_DELAY.
WireLike ==
  {c \in Component : Kind[c] \in {"led", "wire", "output_pin", "slice", "concat"}}

\* Every port name the kinds use.  A concat's operand_<i> ports are one list.
Port == {"in", "a", "b", "operand", "addr", "din", "we", "clk"}

\* c is read when d is evaluated.
Drives(c, d) == \E p \in Port : \E i \in 1..Len(Drivers[d][p]) : Drivers[d][p][i] = c

Listens(d, c) == \E i \in 1..Len(Outputs[c]) : Outputs[c][i] = d

(***************************************************************************)
(* What connect guarantees: both directions of an edge are recorded, so    *)
(* whatever c reads lists c among its outputs.  The converse may fail: a   *)
(* second connect to a slice or memory port overwrites the driver but      *)
(* leaves the old forward edge.                                            *)
(***************************************************************************)
ASSUME NetlistAssumption ==
  /\ Kind \in [Component -> Kinds]
  /\ Width \in [Component -> Nat \ {0}]
  /\ Drivers \in [Component -> [Port -> Seq(Component)]]
  /\ Outputs \in [Component -> Seq(Component)]
  /\ \A c, d \in Component : Drives(c, d) => Listens(d, c)

\* The widths agree wherever a kind copies its drivers bit by bit, and an address
\* is as wide as the memory asks for (E014).
ASSUME WidthAssumption ==
  /\ SliceLo \in [Component -> Nat]
  /\ AddrWidth \in [Component -> Nat]
  /\ \A c \in Component :
       \A p \in {"in", "a", "b", "din"} : \A i \in 1..Len(Drivers[c][p]) :
         Kind[c] # "slice" => Width[Drivers[c][p][i]] = Width[c]
  /\ \A c \in Component : Kind[c] = "slice" =>
       \A i \in 1..Len(Drivers[c]["in"]) :
         SliceLo[c] + Width[c] <= Width[Drivers[c]["in"][i]]
  /\ \A m \in Memory : \A i \in 1..Len(Drivers[m]["addr"]) :
       Width[Drivers[m]["addr"][i]] = AddrWidth[m]

\* The values the pool can hold: every component one of its own width.
AnyState == UNION {State(Width[c]) : c \in Component}

Pool == {s \in [Component -> AnyState] : \A c \in Component : s[c] \in State(Width[c])}

(***************************************************************************)
(* Concat: operand i fills the bits after those of the operands before it. *)
(***************************************************************************)
Prefix(ops) ==
  LET sum[i \in 0..Len(ops)] == IF i = 0 THEN 0 ELSE sum[i - 1] + Width[ops[i]]
  IN  sum

Concat(ops, pool, w) ==
  LET at == Prefix(ops)
      covers(i, b) == b - at[i - 1] \in 1..Width[ops[i]]
  IN  [b \in 1..w |->
         IF \E i \in 1..Len(ops) : covers(i, b)
           THEN LET i == CHOOSE i \in 1..Len(ops) : covers(i, b)
                IN  pool[ops[i]][b - at[i - 1]]
           ELSE "X"]

Slice(from, lo, pool, w) ==
  IF from = <<>> THEN Undefined(w)
  ELSE [b \in 1..w |-> pool[from[1]][lo + b]]

WireState(drivers, pool, w) ==
  IF \E i \in 1..Len(drivers) : ~IsUndefined(pool[drivers[i]])
    THEN Dominant(drivers, pool, w)
    ELSE Undefined(w)

(***************************************************************************)
(* The state recalculateAndReschedule computes for every component that is *)
(* not a memory.                                                           *)
(***************************************************************************)
Target(c, pool) ==
  LET w == Width[c]
      in == Drivers[c]["in"]
  IN  CASE Kind[c] = "not"   -> Flip(Dominant(in, pool, w))
        [] Kind[c] = "and"   -> BitAnd(Dominant(Drivers[c]["a"], pool, w),
                                       Dominant(Drivers[c]["b"], pool, w))
        [] Kind[c] = "wire"  -> WireState(in, pool, w)
        [] Kind[c] = "slice" -> Slice(in, SliceLo[c], pool, w)
        [] Kind[c] = "concat" -> Concat(Drivers[c]["operand"], pool, w)
        [] OTHER -> Dominant(in, pool, w)

(***************************************************************************)
(* Memories.  A cell is addressed by the vector of its address bits, all   *)
(* of them defined.                                                        *)
(***************************************************************************)
Address(m) == [1..AddrWidth[m] -> {"0", "1"}]

CellPlanes ==
  {f \in [Memory -> UNION {[Address(m) -> State(Width[m])] : m \in Memory}] :
     \A m \in Memory : f[m] \in [Address(m) -> State(Width[m])]}

Connected(c, p) == Drivers[c][p] # <<>>

PortState(c, p, pool) == pool[Drivers[c][p][1]]

\* Bit 0 of the driver of a control port; undefined when nothing drives it.
ControlBit(c, p, pool) == IF Connected(c, p) THEN PortState(c, p, pool)[1] ELSE "X"

\* The address a memory reads, defined only when HasAddress.
HasAddress(m, pool) ==
  /\ Connected(m, "addr")
  /\ \A b \in 1..AddrWidth[m] : PortState(m, "addr", pool)[b] # "X"

AddressOf(m, pool) == [b \in 1..AddrWidth[m] |-> PortState(m, "addr", pool)[b]]

DataIn(m, pool) ==
  IF Connected(m, "din") THEN PortState(m, "din", pool) ELSE Undefined(Width[m])

MemoryReadOut(m, pool, planes) ==
  IF HasAddress(m, pool) THEN planes[m][AddressOf(m, pool)] ELSE Undefined(Width[m])
=============================================================================
