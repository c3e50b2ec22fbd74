------------------------------- MODULE Wiring -------------------------------
(***************************************************************************)
(* Building a circuit: the calls of Circuit.connect, in order, turned into *)
(* the driver lists and forward edges a Netlist takes as constants.        *)
(***************************************************************************)
LOCAL INSTANCE Naturals
LOCAL INSTANCE Sequences

WiringPort == {"in", "a", "b", "operand", "addr", "din", "we", "clk"}

\* A call connect(from.out, to.port); operand ports carry their index from 0.
Edge(from, to, port) == [from |-> from, to |-> to, port |-> port, index |-> 0]
OperandEdge(from, to, i) == [from |-> from, to |-> to, port |-> "operand", index |-> i]

Unwired(components) ==
  [drivers |-> [c \in components |-> [p \in WiringPort |-> <<>>]],
   outputs |-> [c \in components |-> <<>>]]

\* operands.items[index] = from, gaps before it filled with from as well.
PlaceOperand(ops, index, from) ==
  [i \in 1..(IF index + 1 > Len(ops) THEN index + 1 ELSE Len(ops)) |->
     IF i = index + 1 \/ i > Len(ops) THEN from ELSE ops[i]]

\* A slice and every memory port hold one driver, the last one connected.
SinglePort(kind, port) == kind = "slice" \/ port \in {"addr", "din", "we", "clk"}

NewDrivers(old, e, kind) ==
  IF kind = "concat" THEN PlaceOperand(old, e.index, e.from)
  ELSE IF SinglePort(kind, e.port) THEN <<e.from>>
  ELSE Append(old, e.from)

Connect(net, e, kinds) ==
  [drivers |-> [net.drivers EXCEPT ![e.to][e.port] = NewDrivers(@, e, kinds[e.to])],
   outputs |-> [net.outputs EXCEPT ![e.from] = Append(@, e.to)]]

Wired(components, kinds, edges) ==
  LET net[i \in 0..Len(edges)] ==
        IF i = 0 THEN Unwired(components) ELSE Connect(net[i - 1], edges[i], kinds)
  IN net[Len(edges)]
=============================================================================
