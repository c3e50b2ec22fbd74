---------------------------- MODULE EngineProofs ----------------------------
(***************************************************************************)
(* What building a circuit leaves behind, whatever connections are made.   *)
(* Lemmas about the values components compute, for every netlist the       *)
(* assumptions of Netlist allow: they have the width of the component, and *)
(* they depend on nothing but the states of its drivers.  And type         *)
(* correctness of the simulation engine, for every circuit, every set of   *)
(* host values and every settle budget the assumptions of Netlist and      *)
(* Engine allow.                                                           *)
(***************************************************************************)
EXTENDS Engine, FiniteSetTheorems, SequenceTheorems, WellFoundedInduction, TLAPS

-----------------------------------------------------------------------------
(* What building a circuit leaves behind *)

W == INSTANCE Wiring

\* A set of natural numbers that is not empty has a least one.
LEMMA LeastNatural ==
  ASSUME NEW T \in SUBSET Nat, T # {}
  PROVE  \E m \in T : \A n \in T : m <= n
<1> DEFINE R == OpToRel(<, Nat)
<1>1. IsWellFoundedOn(R, Nat)
  BY NatLessThanWellFounded, Zenon
<1> HIDE DEF R
<1>2. PICK m \in T : \A n \in T : <<n, m>> \notin R
  BY <1>1, WFMin
<1>3. \A n \in T : n < m => <<n, m>> \in R
  BY Zenon DEF R, OpToRel
<1>4. \A n \in T : ~(n < m)
  BY <1>2, <1>3
<1>5. m \in Nat /\ \A n \in T : n \in Nat
  OBVIOUS
<1> QED
  BY <1>4, <1>5

\* A circuit in the making: every component has its ports, and whoever is read has its
\* reader among its outputs.
Nets == [drivers : [Component -> [Port -> Seq(Component)]], outputs : [Component -> Seq(Component)]]
Reads(net, c, d) == \E p \in Port : \E i \in 1..Len(net.drivers[d][p]) : net.drivers[d][p][i] = c
Hears(net, c, d) == \E i \in 1..Len(net.outputs[c]) : net.outputs[c][i] = d
Recorded(net) == net \in Nets /\ \A c, d \in Component : Reads(net, c, d) => Hears(net, c, d)
Connections == [from : Component, to : Component, port : Port, index : Nat]

LEMMA PortsAlike == W!WiringPort = Port
BY DEF W!WiringPort, Port

\* Nothing is connected yet.
LEMMA UnwiredRecorded == Recorded(W!Unwired(Component))
<1> DEFINE net == W!Unwired(Component)
<1>1. /\ net.drivers = [c \in Component |-> [p \in Port |-> <<>>]]
      /\ net.outputs = [c \in Component |-> <<>>]
      /\ net = [drivers |-> net.drivers, outputs |-> net.outputs]
  BY PortsAlike DEF W!Unwired
<1> HIDE DEF net
<1>2. /\ net.drivers \in [Component -> [Port -> Seq(Component)]]
      /\ net.outputs \in [Component -> Seq(Component)]
  BY <1>1
<1>3. net \in Nets
  BY <1>1, <1>2 DEF Nets
<1>4. \A c, d \in Component : ~Reads(net, c, d)
  BY <1>1 DEF Reads
<1> QED
  BY <1>3, <1>4 DEF Recorded, net

\* The list of a port after a connection holds what it held, and the new driver.
LEMMA NewDriversAre ==
  ASSUME NEW old \in Seq(Component), NEW e \in Connections, NEW kind
  PROVE  /\ W!NewDrivers(old, e, kind) \in Seq(Component)
         /\ \A i \in 1..Len(W!NewDrivers(old, e, kind)) :
              \/ W!NewDrivers(old, e, kind)[i] = e.from
              \/ \E j \in 1..Len(old) : W!NewDrivers(old, e, kind)[i] = old[j]
<1>1. e.from \in Component /\ e.index \in Nat /\ Len(old) \in Nat
  BY DEF Connections
<1>2. CASE kind = "concat"
  <2> DEFINE n == IF e.index + 1 > Len(old) THEN e.index + 1 ELSE Len(old)
             new == [i \in 1..n |-> IF i = e.index + 1 \/ i > Len(old) THEN e.from ELSE old[i]]
  <2>1. W!NewDrivers(old, e, kind) = new
    BY <1>2 DEF W!NewDrivers, W!PlaceOperand
  <2>2. n \in Nat
    BY <1>1
  <2>3. \A i \in 1..n : /\ new[i] \in Component
                        /\ new[i] = e.from \/ \E j \in 1..Len(old) : new[i] = old[j]
    <3> SUFFICES ASSUME NEW i \in 1..n
                 PROVE  /\ new[i] \in Component
                        /\ new[i] = e.from \/ \E j \in 1..Len(old) : new[i] = old[j]
      OBVIOUS
    <3>1. new[i] = IF i = e.index + 1 \/ i > Len(old) THEN e.from ELSE old[i]
      OBVIOUS
    <3>2. CASE i = e.index + 1 \/ i > Len(old)
      BY <1>1, <3>1, <3>2
    <3>3. CASE ~(i = e.index + 1 \/ i > Len(old))
      <4>1. i \in 1..Len(old)
        BY <1>1, <2>2, <3>3
      <4>2. new[i] = old[i] /\ old[i] \in Component
        BY <3>1, <3>3, <4>1
      <4> QED
        BY <4>1, <4>2
    <3> QED
      BY <3>2, <3>3
  <2>4. new \in Seq(Component) /\ Len(new) = n
    <3>1. new \in [1..n -> Component]
      BY <2>3
    <3> HIDE DEF n, new
    <3> QED
      BY <2>2, <3>1
  <2> HIDE DEF n, new
  <2> QED
    BY <2>1, <2>3, <2>4
<1>3. CASE kind # "concat" /\ W!SinglePort(kind, e.port)
  <2>1. W!NewDrivers(old, e, kind) = <<e.from>>
    BY <1>3 DEF W!NewDrivers
  <2> QED
    BY <1>1, <2>1
<1>4. CASE kind # "concat" /\ ~W!SinglePort(kind, e.port)
  <2>1. W!NewDrivers(old, e, kind) = Append(old, e.from)
    BY <1>4 DEF W!NewDrivers
  <2>2. /\ Append(old, e.from) \in Seq(Component) /\ Len(Append(old, e.from)) = Len(old) + 1
        /\ Append(old, e.from)[Len(old) + 1] = e.from
        /\ \A i \in 1..Len(old) : Append(old, e.from)[i] = old[i]
    BY <1>1, AppendProperties
  <2>3. \A i \in 1..(Len(old) + 1) : i \in 1..Len(old) \/ i = Len(old) + 1
    BY <1>1
  <2> QED
    BY <2>1, <2>2, <2>3
<1> QED
  BY <1>2, <1>3, <1>4

\* connect leaves every reader recorded: it adds one reading and the output that tells
\* of it, and drops no output.
LEMMA ConnectKeeps ==
  ASSUME NEW net, Recorded(net), NEW e \in Connections, NEW kinds
  PROVE  Recorded(W!Connect(net, e, kinds))
<1> DEFINE old == net.drivers[e.to][e.port]
           put == W!NewDrivers(old, e, kinds[e.to])
           drivers == [net.drivers EXCEPT ![e.to][e.port] = put]
           outputs == [net.outputs EXCEPT ![e.from] = Append(@, e.to)]
           after == W!Connect(net, e, kinds)
<1>1. e.from \in Component /\ e.to \in Component /\ e.port \in Port
  BY DEF Connections
<1>2. /\ net.drivers \in [Component -> [Port -> Seq(Component)]]
      /\ net.outputs \in [Component -> Seq(Component)]
      /\ \A c, d \in Component : Reads(net, c, d) => Hears(net, c, d)
  BY DEF Recorded, Nets
<1>3. old \in Seq(Component)
  BY <1>1, <1>2
<1>4. after = [drivers |-> drivers, outputs |-> outputs]
  BY DEF W!Connect
<1> HIDE DEF old
<1>5. /\ put \in Seq(Component)
      /\ \A i \in 1..Len(put) : put[i] = e.from \/ \E j \in 1..Len(old) : put[i] = old[j]
  BY <1>3, NewDriversAre
<1> HIDE DEF put
<1>6. /\ drivers \in [Component -> [Port -> Seq(Component)]]
      /\ drivers[e.to][e.port] = put
      /\ \A d \in Component : \A p \in Port :
           ~(d = e.to /\ p = e.port) => drivers[d][p] = net.drivers[d][p]
  BY <1>1, <1>2, <1>5
<1>7. /\ outputs \in [Component -> Seq(Component)]
      /\ outputs[e.from] = Append(net.outputs[e.from], e.to)
      /\ \A c \in Component : c # e.from => outputs[c] = net.outputs[c]
  BY <1>1, <1>2
<1>8. after.drivers = drivers /\ after.outputs = outputs
  BY <1>4
<1> HIDE DEF drivers, outputs, after
<1>9. after \in Nets
  BY <1>4, <1>6, <1>7 DEF Nets
<1>10. ASSUME NEW c \in Component, NEW d \in Component, Hears(net, c, d)
       PROVE  Hears(after, c, d)
  <2>1. PICK i \in 1..Len(net.outputs[c]) : net.outputs[c][i] = d
    BY <1>10 DEF Hears
  <2>2. CASE c # e.from
    <3>1. after.outputs[c] = net.outputs[c]
      BY <1>7, <1>8, <2>2
    <3> QED
      BY <2>1, <3>1 DEF Hears
  <2>3. CASE c = e.from
    <3>1. /\ net.outputs[c] \in Seq(Component)
          /\ after.outputs[c] = Append(net.outputs[c], e.to)
      BY <1>2, <1>7, <1>8, <2>3
    <3>2. /\ Len(after.outputs[c]) = Len(net.outputs[c]) + 1
          /\ after.outputs[c][i] = net.outputs[c][i]
      BY <1>1, <2>1, <3>1, AppendProperties
    <3>3. Len(net.outputs[c]) \in Nat
      BY <3>1
    <3>4. i \in 1..Len(after.outputs[c])
      BY <2>1, <3>2, <3>3
    <3> QED
      BY <2>1, <3>2, <3>4 DEF Hears
  <2> QED
    BY <2>2, <2>3
<1>11. Hears(after, e.from, e.to)
  <2>1. /\ net.outputs[e.from] \in Seq(Component)
        /\ after.outputs[e.from] = Append(net.outputs[e.from], e.to)
    BY <1>1, <1>2, <1>7, <1>8
  <2>2. /\ Len(after.outputs[e.from]) = Len(net.outputs[e.from]) + 1
        /\ after.outputs[e.from][Len(net.outputs[e.from]) + 1] = e.to
    BY <1>1, <2>1, AppendProperties
  <2>3. Len(net.outputs[e.from]) \in Nat
    BY <2>1
  <2>4. Len(net.outputs[e.from]) + 1 \in 1..Len(after.outputs[e.from])
    BY <2>2, <2>3
  <2> QED
    BY <2>2, <2>4 DEF Hears
<1>12. ASSUME NEW c \in Component, NEW d \in Component, Reads(after, c, d)
       PROVE  Hears(after, c, d)
  <2>1. PICK p \in Port : \E i \in 1..Len(after.drivers[d][p]) : after.drivers[d][p][i] = c
    BY <1>12 DEF Reads
  <2>2. PICK i \in 1..Len(after.drivers[d][p]) : after.drivers[d][p][i] = c
    BY <2>1
  <2>3. CASE ~(d = e.to /\ p = e.port)
    <3>1. after.drivers[d][p] = net.drivers[d][p]
      BY <1>6, <1>8, <2>3
    <3>2. Reads(net, c, d)
      BY <2>2, <3>1 DEF Reads
    <3> QED
      BY <1>2, <1>10, <3>2
  <2>4. CASE d = e.to /\ p = e.port
    <3>1. after.drivers[d][p] = put
      BY <1>6, <1>8, <2>4
    <3>2. c = e.from \/ \E j \in 1..Len(old) : c = old[j]
      BY <1>5, <2>2, <3>1
    <3>3. CASE c = e.from
      BY <1>11, <2>4, <3>3
    <3>4. CASE \E j \in 1..Len(old) : c = old[j]
      <4>1. Reads(net, c, d)
        BY <1>1, <2>4, <3>4 DEF Reads, old
      <4> QED
        BY <1>2, <1>10, <4>1
    <3> QED
      BY <3>2, <3>3, <3>4
  <2> QED
    BY <2>3, <2>4
<1> QED
  BY <1>9, <1>12 DEF Recorded, after

\* The circuit after every number of connect calls: a table of stages exists, so the one
\* Wired chooses is one.
Stages(f, n, edges, kinds) ==
  f = [i \in 0..n |-> IF i = 0 THEN W!Unwired(Component) ELSE W!Connect(f[i - 1], edges[i], kinds)]

LEMMA StagesExist ==
  ASSUME NEW edges, NEW kinds, NEW n \in Nat
  PROVE  \E f : Stages(f, n, edges, kinds)
<1> DEFINE T == {k \in Nat : ~\E f : Stages(f, k, edges, kinds)}
           start == W!Unwired(Component)
           wire(net, i) == W!Connect(net, edges[i], kinds)
<1>1. SUFFICES ASSUME T # {} PROVE FALSE
  OBVIOUS
<1>2. PICK m \in T : \A k \in T : m <= k
  BY <1>1, LeastNatural
<1>3. m \in Nat /\ ~\E f : Stages(f, m, edges, kinds)
  BY <1>2
<1>4. \A f, k : Stages(f, k, edges, kinds) <=>
           f = [i \in 0..k |-> IF i = 0 THEN start ELSE wire(f[i - 1], i)]
  BY DEF Stages
<1> HIDE DEF start, wire
<1>5. CASE m = 0
  <2> DEFINE f == [i \in 0..0 |-> start]
  <2>1. f = [i \in 0..0 |-> IF i = 0 THEN start ELSE wire(f[i - 1], i)]
    OBVIOUS
  <2> HIDE DEF f
  <2> QED
    BY <1>3, <1>4, <1>5, <2>1
<1>6. CASE m # 0
  <2>1. m - 1 \in Nat /\ ~(m <= m - 1)
    BY <1>3, <1>6
  <2>2. m - 1 \notin T
    BY <1>2, <2>1
  <2> DEFINE k == m - 1
  <2>3. PICK g : g = [i \in 0..k |-> IF i = 0 THEN start ELSE wire(g[i - 1], i)]
    BY <1>4, <2>1, <2>2
  <2> DEFINE f == [i \in 0..m |-> IF i <= k THEN g[i] ELSE wire(g[k], i)]
             h == [i \in 0..m |-> IF i = 0 THEN start ELSE wire(f[i - 1], i)]
  <2>4. ASSUME NEW i \in 0..m PROVE f[i] = h[i]
    <3>1. CASE i = 0
      <4>1. f[i] = g[i] /\ g[i] = start /\ h[i] = start
        BY <2>1, <2>3, <3>1
      <4> QED
        BY <4>1
    <3>2. CASE i # 0 /\ i <= k
      <4>1. i \in 0..k /\ i - 1 \in 0..m /\ i - 1 <= k
        BY <1>3, <2>1, <3>2
      <4>2. f[i] = g[i] /\ f[i - 1] = g[i - 1]
            /\ g[i] = wire(g[i - 1], i) /\ h[i] = wire(f[i - 1], i)
        BY <2>3, <3>2, <4>1
      <4> QED
        BY <4>2
    <3>3. CASE ~(i <= k)
      <4>1. i # 0 /\ i - 1 = k /\ k \in 0..m /\ k <= k
        BY <1>3, <2>1, <3>3
      <4>2. f[i] = wire(g[k], i) /\ f[k] = g[k] /\ h[i] = wire(f[i - 1], i)
        BY <3>3, <4>1
      <4> QED
        BY <4>1, <4>2
    <3> QED
      BY <3>1, <3>2, <3>3
  <2>5. f = h
    <3> HIDE DEF h
    <3>1. f = [i \in 0..m |-> f[i]] /\ h = [i \in 0..m |-> h[i]]
      BY DEF h
    <3> HIDE DEF f
    <3> QED
      BY <2>4, <3>1
  <2> HIDE DEF f
  <2> QED
    BY <1>3, <1>4, <2>5
<1> QED
  BY <1>5, <1>6

\* Whatever list of connections builds it, a circuit records every reader.
LEMMA WiredRecorded ==
  ASSUME NEW edges \in Seq(Connections), NEW kinds
  PROVE  Recorded(W!Wired(Component, kinds, edges))
<1> DEFINE n == Len(edges)
           net == CHOOSE f : Stages(f, n, edges, kinds)
           T == {i \in 0..n : ~Recorded(net[i])}
<1>1. n \in Nat
  OBVIOUS
<1>2. W!Wired(Component, kinds, edges) = net[n]
  BY DEF W!Wired, Stages
<1>3. Stages(net, n, edges, kinds)
  BY <1>1, StagesExist
<1> HIDE DEF net, n
<1>4. /\ net[0] = W!Unwired(Component)
      /\ \A i \in 1..n : net[i] = W!Connect(net[i - 1], edges[i], kinds)
  BY <1>1, <1>3 DEF Stages
<1>5. T = {}
  <2>1. SUFFICES ASSUME T # {} PROVE FALSE
    OBVIOUS
  <2>2. T \in SUBSET Nat
    BY <1>1
  <2>3. PICK m \in T : \A i \in T : m <= i
    BY <2>1, <2>2, LeastNatural
  <2>4. m \in 0..n /\ ~Recorded(net[m])
    BY <2>3
  <2>5. m # 0
    BY <1>4, <2>4, UnwiredRecorded
  <2>6. m \in 1..n /\ m - 1 \in 0..n /\ ~(m <= m - 1)
    BY <1>1, <2>4, <2>5
  <2>7. Recorded(net[m - 1])
    BY <2>3, <2>6
  <2>8. edges[m] \in Connections
    BY <2>6 DEF n
  <2> QED
    BY <1>4, <2>4, <2>6, <2>7, <2>8, ConnectKeeps
<1> QED
  BY <1>1, <1>2, <1>5

\* What NetlistAssumption asks of drivers and outputs, Circuit.connect delivers: for any
\* components, any kinds and any calls between them, both directions of every edge are there.
THEOREM ConnectTellsTheReader ==
  ASSUME NEW edges \in Seq(Connections), NEW kinds,
         Drivers = W!Wired(Component, kinds, edges).drivers,
         Outputs = W!Wired(Component, kinds, edges).outputs
  PROVE  /\ Drivers \in [Component -> [Port -> Seq(Component)]]
         /\ Outputs \in [Component -> Seq(Component)]
         /\ \A c, d \in Component : Drives(c, d) => Listens(d, c)
<1>1. Recorded(W!Wired(Component, kinds, edges))
  BY WiredRecorded
<1> QED
  BY <1>1 DEF Recorded, Nets, Reads, Hears, Drives, Listens

-----------------------------------------------------------------------------
(* The values components compute are values of their own width *)

\* The drivers of a port are components, the dominant one among them.
LEMMA DriverFacts ==
  ASSUME NEW c \in Component, NEW p \in Port
  PROVE  /\ Drivers[c][p] \in Seq(Component)
         /\ \A i \in 1..Len(Drivers[c][p]) : Drivers[c][p][i] \in Component
         /\ Drivers[c][p] # <<>> => Len(Drivers[c][p]) \in 1..Len(Drivers[c][p])
BY NetlistAssumption DEF NetlistAssumption

\* The pool holds a word of trits for every component.
LEMMA PoolValue ==
  ASSUME NEW pool \in Pool, NEW c \in Component
  PROVE  /\ pool[c] \in State(Width[c])
         /\ \A b \in 1..Width[c] : pool[c][b] \in Trit
BY DEF Pool, State

\* Every component has a width and a kind.
LEMMA WidthFacts ==
  ASSUME NEW c \in Component
  PROVE  Width[c] \in Nat \ {0} /\ Kind[c] \in Kinds
BY NetlistAssumption DEF NetlistAssumption

\* The undefined word is a word.
LEMMA UndefinedType ==
  ASSUME NEW w
  PROVE  Undefined(w) \in State(w)
BY DEF Undefined, State, Trit

\* The dominant state of drivers as wide as the reader is as wide as the reader.
LEMMA DominantType ==
  ASSUME NEW c \in Component, NEW p \in {"in", "a", "b"}, NEW pool \in Pool,
         Kind[c] # "slice"
  PROVE  Dominant(Drivers[c][p], pool, Width[c]) \in State(Width[c])
<1> DEFINE ds == Drivers[c][p]
<1>1. /\ ds \in Seq(Component) /\ \A i \in 1..Len(ds) : ds[i] \in Component
      /\ ds # <<>> => Len(ds) \in 1..Len(ds)
  BY DriverFacts DEF Port
<1>2. \A i \in 1..Len(ds) : Width[ds[i]] = Width[c]
  BY WidthAssumption DEF WidthAssumption
<1>3. ASSUME NEW b \in 1..Width[c], ds # <<>>
      PROVE  pool[ds[Len(ds)]][b] \in Trit
  BY <1>1, <1>2, <1>3, PoolValue
<1> HIDE DEF ds
<1>4. Dominant(ds, pool, Width[c]) \in State(Width[c])
  BY <1>3 DEF Dominant, State, Trit
<1> QED
  BY <1>4 DEF ds

\* So is a word inverted.
LEMMA FlipType ==
  ASSUME NEW w, NEW s \in State(w)
  PROVE  Flip(s) \in State(w)
BY DEF Flip, State, Trit

\* So is the conjunction of two words.
LEMMA BitAndType ==
  ASSUME NEW w, NEW s \in State(w), NEW t \in State(w)
  PROVE  BitAnd(s, t) \in State(w)
BY DEF BitAnd, State, Trit

\* So is a slice of the driver.
LEMMA SliceType ==
  ASSUME NEW c \in Component, Kind[c] = "slice", NEW pool \in Pool
  PROVE  Slice(Drivers[c]["in"], SliceLo[c], pool, Width[c]) \in State(Width[c])
<1> DEFINE ds == Drivers[c]["in"]
<1>1. CASE ds = <<>>
  BY <1>1, UndefinedType DEF Slice
<1>2. CASE ds # <<>>
  <2>1. 1 \in 1..Len(ds) /\ ds[1] \in Component
    BY <1>2, DriverFacts DEF Port
  <2>2. SliceLo[c] \in Nat /\ SliceLo[c] + Width[c] <= Width[ds[1]]
    BY <2>1, WidthAssumption DEF WidthAssumption
  <2>3. ASSUME NEW b \in 1..Width[c]
        PROVE  pool[ds[1]][SliceLo[c] + b] \in Trit
    <3>1. SliceLo[c] + b \in 1..Width[ds[1]]
      BY <2>1, <2>2, WidthFacts
    <3> QED
      BY <3>1, <2>1, PoolValue
  <2> QED
    BY <1>2, <2>3 DEF Slice, State
<1> QED
  BY <1>1, <1>2

\* So are the operands put together.
LEMMA ConcatType ==
  ASSUME NEW c \in Component, NEW pool \in Pool
  PROVE  Concat(Drivers[c]["operand"], pool, Width[c]) \in State(Width[c])
<1> DEFINE ops == Drivers[c]["operand"]
           at == Prefix(ops)
           covers(i, b) == b - at[i - 1] \in 1..Width[ops[i]]
           bit(b) == IF \E i \in 1..Len(ops) : covers(i, b)
                       THEN LET i == CHOOSE i \in 1..Len(ops) : covers(i, b)
                            IN  pool[ops[i]][b - at[i - 1]]
                       ELSE "X"
<1>1. \A i \in 1..Len(ops) : ops[i] \in Component
  BY DriverFacts DEF Port
<1> HIDE DEF ops, at
<1>2. ASSUME NEW b \in 1..Width[c]
      PROVE  bit(b) \in Trit
  <2>1. CASE \E i \in 1..Len(ops) : covers(i, b)
    <3> DEFINE j == CHOOSE i \in 1..Len(ops) : covers(i, b)
    <3>1. j \in 1..Len(ops) /\ covers(j, b)
      BY <2>1, Zenon
    <3>2. pool[ops[j]][b - at[j - 1]] \in Trit
      BY <3>1, <1>1, PoolValue
    <3> QED
      BY <2>1, <3>2
  <2>2. CASE ~ \E i \in 1..Len(ops) : covers(i, b)
    BY <2>2 DEF Trit
  <2> QED
    BY <2>1, <2>2
<1>3. [b \in 1..Width[c] |-> bit(b)] \in State(Width[c])
  BY <1>2 DEF State
<1> QED
  BY <1>3 DEF Concat, at, ops

\* Target, kind by kind.
LEMMA TargetCases ==
  ASSUME NEW c, NEW pool
  PROVE  /\ Kind[c] = "not" => Target(c, pool) = Flip(Dominant(Drivers[c]["in"], pool, Width[c]))
         /\ Kind[c] = "and" =>
              Target(c, pool) = BitAnd(Dominant(Drivers[c]["a"], pool, Width[c]),
                                       Dominant(Drivers[c]["b"], pool, Width[c]))
         /\ Kind[c] = "wire" => Target(c, pool) = WireState(Drivers[c]["in"], pool, Width[c])
         /\ Kind[c] = "slice" =>
              Target(c, pool) = Slice(Drivers[c]["in"], SliceLo[c], pool, Width[c])
         /\ Kind[c] = "concat" =>
              Target(c, pool) = Concat(Drivers[c]["operand"], pool, Width[c])
         /\ Kind[c] \notin {"not", "and", "wire", "slice", "concat"} =>
              Target(c, pool) = Dominant(Drivers[c]["in"], pool, Width[c])
BY Zenon DEF Target

\* Whatever a component is asked for has its width.
LEMMA TargetType ==
  ASSUME NEW c \in Component, NEW pool \in Pool
  PROVE  Target(c, pool) \in State(Width[c])
<1>1. CASE Kind[c] = "not"
  BY <1>1, DominantType, FlipType, TargetCases
<1>2. CASE Kind[c] = "and"
  BY <1>2, DominantType, BitAndType, TargetCases
<1>3. CASE Kind[c] = "wire"
  BY <1>3, DominantType, UndefinedType, TargetCases DEF WireState
<1>4. CASE Kind[c] = "slice"
  BY <1>4, SliceType, TargetCases
<1>5. CASE Kind[c] = "concat"
  BY <1>5, ConcatType, TargetCases
<1>6. CASE Kind[c] \notin {"not", "and", "wire", "slice", "concat"}
  BY <1>6, DominantType, TargetCases
<1> QED
  BY <1>1, <1>2, <1>3, <1>4, <1>5, <1>6

-----------------------------------------------------------------------------
(* Memories *)

\* A memory is a rom or a ram.
LEMMA MemoryKinds ==
  ASSUME NEW m \in Memory
  PROVE  m \in Component /\ Kind[m] \in {"rom", "ram"}
BY DEF Memory

\* A control bit is a trit.
LEMMA ControlBitType ==
  ASSUME NEW c \in Component, NEW p \in Port, NEW pool \in Pool
  PROVE  ControlBit(c, p, pool) \in Trit
<1>1. CASE Connected(c, p)
  <2>1. 1 \in 1..Len(Drivers[c][p]) /\ Drivers[c][p][1] \in Component
    BY <1>1, DriverFacts DEF Connected
  <2>2. 1 \in 1..Width[Drivers[c][p][1]]
    BY <2>1, WidthFacts
  <2> QED
    BY <1>1, <2>1, <2>2, PoolValue DEF ControlBit, PortState
<1>2. CASE ~Connected(c, p)
  BY <1>2 DEF ControlBit, Trit
<1> QED
  BY <1>1, <1>2

\* An address that is defined is one of the memory.
LEMMA AddressType ==
  ASSUME NEW m \in Memory, NEW pool \in Pool, HasAddress(m, pool)
  PROVE  AddressOf(m, pool) \in Address(m)
<1> DEFINE d == Drivers[m]["addr"][1]
<1>1. 1 \in 1..Len(Drivers[m]["addr"]) /\ d \in Component
  BY MemoryKinds, DriverFacts DEF HasAddress, Connected, Port
<1>2. Width[d] = AddrWidth[m]
  BY <1>1, WidthAssumption DEF WidthAssumption
<1>3. \A b \in 1..AddrWidth[m] : pool[d][b] \in {"0", "1"}
  BY <1>1, <1>2, PoolValue DEF HasAddress, PortState, Trit
<1> QED
  BY <1>3 DEF AddressOf, Address, PortState

\* The data input has the width of the memory.
LEMMA DataInType ==
  ASSUME NEW m \in Memory, NEW pool \in Pool
  PROVE  DataIn(m, pool) \in State(Width[m])
<1>1. CASE Connected(m, "din")
  <2>1. 1 \in 1..Len(Drivers[m]["din"]) /\ Drivers[m]["din"][1] \in Component
    BY <1>1, MemoryKinds, DriverFacts DEF Connected, Port
  <2>2. Width[Drivers[m]["din"][1]] = Width[m]
    BY <2>1, MemoryKinds, WidthAssumption DEF WidthAssumption
  <2> QED
    BY <1>1, <2>1, <2>2, PoolValue DEF DataIn, PortState
<1>2. CASE ~Connected(m, "din")
  BY <1>2, UndefinedType DEF DataIn
<1> QED
  BY <1>1, <1>2

\* So has the word read.
LEMMA MemoryReadOutType ==
  ASSUME NEW m \in Memory, NEW pool \in Pool, NEW planes \in CellPlanes
  PROVE  MemoryReadOut(m, pool, planes) \in State(Width[m])
BY AddressType, UndefinedType DEF MemoryReadOut, CellPlanes

-----------------------------------------------------------------------------
(* What a component computes depends on its drivers only *)

\* The dominant driver depends on the drivers alone.
LEMMA DominantLocal ==
  ASSUME NEW ds, NEW w, NEW p, NEW q, Len(ds) \in Nat,
         ds # <<>> => Len(ds) \in 1..Len(ds),
         \A i \in 1..Len(ds) : p[ds[i]] = q[ds[i]]
  PROVE  Dominant(ds, p, w) = Dominant(ds, q, w)
BY DEF Dominant

\* So does the target of a component.
LEMMA TargetLocal ==
  ASSUME NEW c \in Component, NEW p, NEW q,
         \A d \in Component : Drives(d, c) => p[d] = q[d]
  PROVE  Target(c, p) = Target(c, q)
<1>1. \A port \in Port : \A i \in 1..Len(Drivers[c][port]) :
        p[Drivers[c][port][i]] = q[Drivers[c][port][i]]
  BY DriverFacts DEF Drives
<1>2. \A port \in Port : /\ Len(Drivers[c][port]) \in Nat
                         /\ Drivers[c][port] # <<>> =>
                              /\ Len(Drivers[c][port]) \in 1..Len(Drivers[c][port])
                              /\ 1 \in 1..Len(Drivers[c][port])
  BY DriverFacts
<1>3. \A port \in Port : \A w : Dominant(Drivers[c][port], p, w) = Dominant(Drivers[c][port], q, w)
  BY <1>1, <1>2, DominantLocal
<1>4. CASE Kind[c] \in {"not", "and"}
  BY <1>3, <1>4, TargetCases DEF Port
<1>5. CASE Kind[c] = "wire"
  BY <1>1, <1>3, <1>5, TargetCases DEF Port, WireState
<1>6. CASE Kind[c] = "slice"
  <2>1. Slice(Drivers[c]["in"], SliceLo[c], p, Width[c]) = Slice(Drivers[c]["in"], SliceLo[c], q, Width[c])
    BY <1>1, <1>2 DEF Port, Slice
  <2> QED
    BY <1>6, <2>1, TargetCases
<1>7. CASE Kind[c] = "concat"
  <2> DEFINE ops == Drivers[c]["operand"]
             at == Prefix(ops)
             covers(i, b) == b - at[i - 1] \in 1..Width[ops[i]]
             bit(pool, b) == IF \E i \in 1..Len(ops) : covers(i, b)
                               THEN LET i == CHOOSE i \in 1..Len(ops) : covers(i, b)
                                    IN  pool[ops[i]][b - at[i - 1]]
                               ELSE "X"
  <2>1. \A i \in 1..Len(ops) : p[ops[i]] = q[ops[i]]
    BY <1>1 DEF Port
  <2> HIDE DEF ops, at
  <2>2. ASSUME NEW b \in 1..Width[c]
        PROVE  bit(p, b) = bit(q, b)
    <3>1. CASE \E i \in 1..Len(ops) : covers(i, b)
      <4> DEFINE j == CHOOSE i \in 1..Len(ops) : covers(i, b)
      <4>1. j \in 1..Len(ops)
        BY <3>1, Zenon
      <4> QED
        BY <3>1, <4>1, <2>1
    <3>2. CASE ~ \E i \in 1..Len(ops) : covers(i, b)
      BY <3>2
    <3> QED
      BY <3>1, <3>2
  <2>3. [b \in 1..Width[c] |-> bit(p, b)] = [b \in 1..Width[c] |-> bit(q, b)]
    BY <2>2
  <2>4. Concat(Drivers[c]["operand"], p, Width[c]) = Concat(Drivers[c]["operand"], q, Width[c])
    BY <2>3 DEF Concat, at, ops
  <2> QED
    BY <1>7, <2>4, TargetCases
<1>8. CASE Kind[c] \notin {"not", "and", "wire", "slice", "concat"}
  BY <1>3, <1>8, TargetCases DEF Port
<1> QED
  BY <1>4, <1>5, <1>6, <1>7, <1>8
-----------------------------------------------------------------------------
(* A circuit nothing drives is at rest *)

\* Every bit of an undefined word is undefined.
LEMMA UndefinedBit ==
  ASSUME NEW d \in Component, NEW pool, pool[d] = Undefined(Width[d]), NEW b \in 1..Width[d]
  PROVE  pool[d][b] = "X"
BY DEF Undefined

\* A port with undefined drivers is undefined.
LEMMA DominantUndefined ==
  ASSUME NEW c \in Component, NEW p \in {"in", "a", "b"}, Kind[c] # "slice",
         NEW pool, \A d \in Component : pool[d] = Undefined(Width[d])
  PROVE  Dominant(Drivers[c][p], pool, Width[c]) = Undefined(Width[c])
<1> DEFINE ds == Drivers[c][p]
<1>1. \A i \in 1..Len(ds) : ds[i] \in Component /\ Width[ds[i]] = Width[c]
  <2>1. \A i \in 1..Len(ds) : ds[i] \in Component
    BY DriverFacts DEF Port
  <2>2. \A i \in 1..Len(ds) : Width[ds[i]] = Width[c]
    BY WidthAssumption DEF WidthAssumption
  <2> QED
    BY <2>1, <2>2
<1>2. ds # <<>> => Len(ds) \in 1..Len(ds)
  BY DriverFacts DEF Port
<1> HIDE DEF ds
<1>3. ASSUME NEW i \in 1..Len(ds), NEW b \in 1..Width[c]
      PROVE  pool[ds[i]][b] = "X"
  BY <1>1, UndefinedBit
<1>4. Dominant(ds, pool, Width[c]) = Undefined(Width[c])
  BY <1>2, <1>3 DEF Dominant, Undefined
<1> QED
  BY <1>4 DEF ds

\* With every component undefined, every component computes undefined.
LEMMA UndefinedTarget ==
  ASSUME NEW c \in Component, NEW pool, \A d \in Component : pool[d] = Undefined(Width[d])
  PROVE  Target(c, pool) = Undefined(Width[c])
<1>1. CASE Kind[c] = "not"
  <2>1. Flip(Undefined(Width[c])) = Undefined(Width[c])
    BY DEF Flip, Undefined
  <2> QED
    BY <1>1, <2>1, DominantUndefined, TargetCases
<1>2. CASE Kind[c] = "and"
  <2>1. BitAnd(Undefined(Width[c]), Undefined(Width[c])) = Undefined(Width[c])
    BY DEF BitAnd, Undefined
  <2> QED
    BY <1>2, <2>1, DominantUndefined, TargetCases
<1>3. CASE Kind[c] = "wire"
  BY <1>3, DominantUndefined, TargetCases DEF WireState
<1>4. CASE Kind[c] = "slice"
  <2> DEFINE ds == Drivers[c]["in"]
  <2>1. ASSUME ds # <<>>, NEW b \in 1..Width[c]
        PROVE  pool[ds[1]][SliceLo[c] + b] = "X"
    <3>1. 1 \in 1..Len(ds) /\ ds[1] \in Component
      BY <2>1, DriverFacts DEF Port
    <3>2. SliceLo[c] \in Nat /\ SliceLo[c] + Width[c] <= Width[ds[1]]
      BY <1>4, <3>1, WidthAssumption DEF WidthAssumption
    <3>3. SliceLo[c] + b \in 1..Width[ds[1]]
      BY <3>1, <3>2, WidthFacts
    <3> QED
      BY <3>1, <3>3 DEF Undefined
  <2> HIDE DEF ds
  <2>2. Slice(ds, SliceLo[c], pool, Width[c]) = Undefined(Width[c])
    BY <2>1 DEF Slice, Undefined
  <2> QED
    BY <1>4, <2>2, TargetCases DEF ds
<1>5. CASE Kind[c] = "concat"
  <2> DEFINE ops == Drivers[c]["operand"]
             at == Prefix(ops)
             covers(i, b) == b - at[i - 1] \in 1..Width[ops[i]]
             bit(b) == IF \E i \in 1..Len(ops) : covers(i, b)
                         THEN LET i == CHOOSE i \in 1..Len(ops) : covers(i, b)
                              IN  pool[ops[i]][b - at[i - 1]]
                         ELSE "X"
  <2>1. \A i \in 1..Len(ops) : ops[i] \in Component
    BY DriverFacts DEF Port
  <2> HIDE DEF ops, at
  <2>2. ASSUME NEW b \in 1..Width[c]
        PROVE  bit(b) = "X"
    <3>1. CASE \E i \in 1..Len(ops) : covers(i, b)
      <4> DEFINE j == CHOOSE i \in 1..Len(ops) : covers(i, b)
      <4>1. j \in 1..Len(ops) /\ covers(j, b)
        BY <3>1, Zenon
      <4>2. pool[ops[j]][b - at[j - 1]] = "X"
        BY <4>1, <2>1, UndefinedBit
      <4> QED
        BY <3>1, <4>2
    <3>2. CASE ~ \E i \in 1..Len(ops) : covers(i, b)
      BY <3>2
    <3> QED
      BY <3>1, <3>2
  <2>3. [b \in 1..Width[c] |-> bit(b)] = Undefined(Width[c])
    BY <2>2 DEF Undefined
  <2>4. Concat(Drivers[c]["operand"], pool, Width[c]) = Undefined(Width[c])
    BY <2>3 DEF Concat, at, ops
  <2> QED
    BY <1>5, <2>4, TargetCases
<1>6. CASE Kind[c] \notin {"not", "and", "wire", "slice", "concat"}
  BY <1>6, DominantUndefined, TargetCases
<1> QED
  BY <1>1, <1>2, <1>3, <1>4, <1>5, <1>6

-----------------------------------------------------------------------------
(* Event lists *)

\* What a component may hold is something any component may hold.
LEMMA AnyStateType ==
  ASSUME NEW c \in Component, NEW v \in State(Width[c])
  PROVE  v \in AnyState
BY DEF AnyState

\* A well-formed event at the end leaves a list of events well-formed.
LEMMA AppendEvent ==
  ASSUME NEW s, EventsOK(s), NEW e \in Event,
         e.val \in State(Width[e.comp]), e.gen # 0 <=> e.comp \in Gate
  PROVE  EventsOK(Append(s, e))
BY DEF EventsOK

\* So does taking the first one off, which is well-formed itself.
LEMMA TailEvents ==
  ASSUME NEW s, EventsOK(s), s # <<>>
  PROVE  /\ EventsOK(Tail(s))
         /\ Head(s) \in Event
         /\ Head(s).comp \in Component /\ Head(s).gen \in Nat
         /\ Head(s).val \in State(Width[Head(s).comp])
         /\ Head(s).gen # 0 <=> Head(s).comp \in Gate
<1>1. s \in Seq(Event) /\ 1 \in DOMAIN s /\ Head(s) = s[1] /\ s[1] \in Event
  BY DEF EventsOK
<1>2. /\ s[1].comp \in Component /\ s[1].gen \in Nat
      /\ s[1].val \in State(Width[s[1].comp])
      /\ s[1].gen # 0 <=> s[1].comp \in Gate
  BY <1>1 DEF EventsOK, Event
<1>3. EventsOK(Tail(s))
  <2>1. Tail(s) \in Seq(Event) /\ \A i \in DOMAIN Tail(s) : i + 1 \in DOMAIN s /\ Tail(s)[i] = s[i + 1]
    BY <1>1
  <2> QED
    BY <2>1 DEF EventsOK
<1> QED
  BY <1>1, <1>2, <1>3

\* An empty list is well-formed.
LEMMA EmptyEvents == EventsOK(<<>>) /\ CandidatesOK(<<>>)
BY DEF EventsOK, CandidatesOK

\* An event added to the queue keeps every list of it well formed.
LEMMA Enqueue ==
  ASSUME NEW q \in [Delay -> Seq(Event)], \A d \in Delay : EventsOK(q[d]),
         NEW due \in Delay, NEW c \in Component, NEW v \in State(Width[c]), NEW g \in Nat,
         g # 0 <=> c \in Gate,
         NEW r, r = [q EXCEPT ![due] = Append(@, [comp |-> c, val |-> v, gen |-> g])]
  PROVE  /\ r \in [Delay -> Seq(Event)]
         /\ \A d \in Delay : EventsOK(r[d])
<1> DEFINE e == [comp |-> c, val |-> v, gen |-> g]
<1>1. e \in Event /\ e.val \in State(Width[e.comp]) /\ (e.gen # 0 <=> e.comp \in Gate)
  BY AnyStateType DEF Event
<1>2. EventsOK(Append(q[due], e)) /\ Append(q[due], e) \in Seq(Event)
  BY <1>1, AppendEvent DEF EventsOK
<1> QED
  BY <1>2

\* A function on the domain of a sequence is a sequence of the same length.
LEMMA SequenceOverDomain ==
  ASSUME NEW S, NEW T, NEW s \in Seq(S), NEW f \in [DOMAIN s -> T]
  PROVE  f \in Seq(T) /\ Len(f) = Len(s) /\ DOMAIN f = DOMAIN s
<1>1. DOMAIN s = 1..Len(s) /\ Len(s) \in Nat
  BY LenProperties
<1>2. f \in Seq(T)
  BY <1>1, SeqDef
<1>3. 1..Len(f) = 1..Len(s) /\ Len(f) \in Nat
  BY <1>1, <1>2, LenProperties
<1>4. Len(f) = Len(s)
  BY <1>1, <1>3
<1> QED
  BY <1>2, <1>4

\* Both delays are delays of the queue.
LEMMA DelayFacts ==
  /\ GateDelay \in Delay /\ WireDelay \in Delay
  /\ \A c : DelayOf(c) \in Delay
BY DEF Delay, GateDelay, WireDelay, DelayOf

\* Memories, gates, wires and host pins are different components.
LEMMA KindsApart ==
  /\ Memory \cap Gate = {} /\ Memory \cap WireLike = {} /\ Gate \cap WireLike = {}
  /\ HostPin \cap (Memory \cup Gate \cup WireLike) = {}
  /\ HostPin \subseteq Component
BY EngineAssumption DEF EngineAssumption, Memory, Gate, WireLike

-----------------------------------------------------------------------------
(* Scheduling *)

\* The part of TypeOK that an evaluation may change.
SchedOK ==
  /\ cells \in CellPlanes
  /\ prevClk \in [Memory -> Trit]
  /\ pending \in [Component -> [gen : 0..(GenLimit - 1), val : AnyState]]
  /\ nextGen \in 1..(GenLimit - 1)
  /\ queue \in [Delay -> Seq(Event)] /\ \A d \in Delay : EventsOK(queue[d])

\* A transport event keeps the queue well-formed.
LEMMA ScheduleTransportType ==
  ASSUME SchedOK, NEW c \in Component, c \notin Gate, NEW v \in State(Width[c]),
         ScheduleTransport(c, v)
  PROVE  /\ pending' = pending /\ nextGen' = nextGen
         /\ queue' \in [Delay -> Seq(Event)] /\ \A d \in Delay : EventsOK(queue'[d])
<1>1. CASE state[c] = v
  BY <1>1 DEF ScheduleTransport, SchedOK
<1>2. CASE state[c] # v
  <2>1. queue' = [queue EXCEPT ![DelayOf(c)] = Append(@, [comp |-> c, val |-> v, gen |-> 0])]
    BY <1>2 DEF ScheduleTransport
  <2>2. queue' \in [Delay -> Seq(Event)] /\ \A d \in Delay : EventsOK(queue'[d])
    BY <2>1, DelayFacts, Enqueue DEF SchedOK
  <2> QED
    BY <2>2 DEF ScheduleTransport
<1> QED
  BY <1>1, <1>2

\* The generation that follows is one, also after the last.
LEMMA NextGenerationType ==
  ASSUME nextGen \in 1..(GenLimit - 1)
  PROVE  NextGeneration \in 1..(GenLimit - 1)
BY EngineAssumption DEF EngineAssumption, NextGeneration

\* An inertial event keeps queue and pending table well-formed.
LEMMA ScheduleInertialType ==
  ASSUME SchedOK, NEW c \in Gate, NEW v \in State(Width[c]), ScheduleInertial(c, v)
  PROVE  /\ pending' \in [Component -> [gen : 0..(GenLimit - 1), val : AnyState]]
         /\ nextGen' \in 1..(GenLimit - 1)
         /\ queue' \in [Delay -> Seq(Event)] /\ \A d \in Delay : EventsOK(queue'[d])
<1>1. c \in Component /\ v \in AnyState /\ 0 \in 0..(GenLimit - 1)
  BY AnyStateType, EngineAssumption DEF Gate, EngineAssumption
<1>2. CASE state[c] = v
  <2>1. /\ pending' = [pending EXCEPT ![c] = Dropped(@)]
        /\ UNCHANGED <<queue, nextGen>>
    BY <1>2 DEF ScheduleInertial
  <2>2. Dropped(pending[c]) \in [gen : 0..(GenLimit - 1), val : AnyState]
    BY <1>1 DEF Dropped, SchedOK
  <2> QED
    BY <2>1, <2>2, <1>1 DEF SchedOK
<1>3. CASE state[c] # v /\ pending[c].gen # 0 /\ pending[c].val = v
  BY <1>3 DEF ScheduleInertial, SchedOK
<1>4. CASE state[c] # v /\ ~(pending[c].gen # 0 /\ pending[c].val = v)
  <2>1. /\ pending' = [pending EXCEPT ![c] = [gen |-> nextGen, val |-> v]]
        /\ queue' = [queue EXCEPT ![GateDelay] =
                       Append(@, [comp |-> c, val |-> v, gen |-> nextGen])]
        /\ nextGen' = NextGeneration
    BY <1>4 DEF ScheduleInertial
  <2>2. nextGen \in 0..(GenLimit - 1) /\ nextGen \in Nat /\ nextGen # 0
    BY EngineAssumption DEF SchedOK, EngineAssumption
  <2>3. queue' \in [Delay -> Seq(Event)] /\ \A d \in Delay : EventsOK(queue'[d])
    BY <2>1, <2>2, <1>1, DelayFacts, Enqueue DEF SchedOK
  <2>4. pending' \in [Component -> [gen : 0..(GenLimit - 1), val : AnyState]]
    BY <2>1, <2>2, <1>1 DEF SchedOK
  <2> QED
    BY <2>1, <2>3, <2>4, NextGenerationType DEF SchedOK
<1> QED
  BY <1>2, <1>3, <1>4

\* An evaluation keeps the scheduler well-typed.
LEMMA RecalculateType ==
  ASSUME SchedOK, state \in Pool, NEW c \in Component, Recalculate(c)
  PROVE  SchedOK'
<1>1. CASE c \in Memory
  <2>1. RecalculateMemory(c) /\ c \notin Gate
    BY <1>1, KindsApart DEF Recalculate
  <2>2. cells' \in CellPlanes
    <3>1. CASE RamWrites(c)
      <4>1. cells' = [cells EXCEPT ![c][AddressOf(c, state)] = DataIn(c, state)]
        BY <2>1, <3>1 DEF RecalculateMemory, Written
      <4>2. AddressOf(c, state) \in Address(c) /\ DataIn(c, state) \in State(Width[c])
        BY <1>1, <3>1, AddressType, DataInType DEF RamWrites
      <4>3. cells[c] \in [Address(c) -> State(Width[c])]
        BY <1>1 DEF SchedOK, CellPlanes
      <4>4. [cells[c] EXCEPT ![AddressOf(c, state)] = DataIn(c, state)]
              \in [Address(c) -> State(Width[c])]
        BY <4>2, <4>3
      <4> QED
        BY <4>1, <4>4, <1>1 DEF SchedOK, CellPlanes
    <3>2. CASE ~RamWrites(c)
      BY <2>1, <3>2 DEF RecalculateMemory, Written, SchedOK
    <3> QED
      BY <3>1, <3>2
  <2>3. prevClk' \in [Memory -> Trit]
    <3>1. ControlBit(c, "clk", state) \in Trit
      BY ControlBitType DEF Port
    <3> QED
      BY <2>1, <3>1 DEF RecalculateMemory, SchedOK
  <2>4. /\ pending' = pending /\ nextGen' = nextGen
        /\ queue' \in [Delay -> Seq(Event)] /\ \A d \in Delay : EventsOK(queue'[d])
    <3>1. MemoryReadOut(c, state, cells') \in State(Width[c])
      BY <1>1, <2>2, MemoryReadOutType
    <3> QED
      BY <2>1, <3>1, ScheduleTransportType DEF RecalculateMemory
  <2> QED
    BY <2>2, <2>3, <2>4 DEF SchedOK
<1>2. CASE c \notin Memory /\ c \in Gate
  BY <1>2, TargetType, ScheduleInertialType DEF Recalculate, SchedOK
<1>3. CASE c \notin Memory /\ c \notin Gate /\ Undriven(c)
  BY <1>3 DEF Recalculate, SchedOK
<1>4. CASE c \notin Memory /\ c \notin Gate /\ ~Undriven(c)
  BY <1>4, TargetType, ScheduleTransportType DEF Recalculate, SchedOK
<1> QED
  BY <1>1, <1>2, <1>3, <1>4

-----------------------------------------------------------------------------
(* Host calls *)

\* The event of a host call keeps the queue well-formed.
LEMMA PropagateEventType ==
  ASSUME TypeOK, NEW c \in Component, c \notin Gate, NEW v \in State(Width[c]),
         PropagateEvent(c, v)
  PROVE  /\ queue' \in [Delay -> Seq(Event)] /\ \A d \in Delay : EventsOK(queue'[d])
         /\ phase' \in Phases
         /\ remaining' \in 0..MaxSettleWork
<1>1. CASE state[c] = v
  BY <1>1 DEF PropagateEvent, TypeOK
<1>2. CASE state[c] # v
  <2>1. /\ queue' = [queue EXCEPT ![GateDelay] = Append(@, [comp |-> c, val |-> v, gen |-> 0])]
        /\ phase' = "next"
        /\ remaining' = MaxSettleWork
    BY <1>2 DEF PropagateEvent
  <2>2. queue' \in [Delay -> Seq(Event)] /\ \A d \in Delay : EventsOK(queue'[d])
    BY <2>1, DelayFacts, Enqueue DEF TypeOK
  <2> QED
    BY <2>1, <2>2, EngineAssumption DEF EngineAssumption, Phases
<1> QED
  BY <1>1, <1>2

\* What every host call comes down to: one pin or memory is scheduled, or nothing.
HostEvent(c, v) ==
  /\ c \in HostPin => v \in HostValue[c]
  /\ Callable /\ PropagateEvent(c, v)
  /\ cells' \in CellPlanes /\ (c \notin Memory => cells' = cells)
  /\ UNCHANGED <<state, prevClk, pending, nextGen, step, failed>>

\* A plane written is an event of its memory.
LEMMA SetPlaneCases ==
  ASSUME TypeOK, Callable, NEW m \in Memory, NEW plane \in [Address(m) -> State(Width[m])],
         SetPlane(m, plane)
  PROVE  \E v \in State(Width[m]) : HostEvent(m, v)
<1>1. cells' \in CellPlanes
  BY DEF SetPlane, TypeOK, CellPlanes
<1>2. MemoryReadOut(m, state, cells') \in State(Width[m])
  BY <1>1, MemoryReadOutType DEF TypeOK
<1> QED
  BY <1>1, <1>2, KindsApart DEF SetPlane, HostEvent

\* Every host call is an event for a pin or a memory.
LEMMA HostCallCases ==
  ASSUME TypeOK, HostCall
  PROVE  \E c \in HostPin \cup Memory : \E v \in State(Width[c]) : HostEvent(c, v)
<1>1. ASSUME NEW p \in HostPin, Drive(p)
      PROVE  \E v \in State(Width[p]) : HostEvent(p, v)
  <2>1. PICK v \in HostValue[p] : PropagateEvent(p, v)
    BY <1>1 DEF Drive
  <2>2. v \in State(Width[p])
    BY EngineAssumption DEF EngineAssumption
  <2> QED
    BY <1>1, <2>1, <2>2 DEF Drive, HostEvent, TypeOK
<1>2. ASSUME NEW m \in Memory, MemoryWriteWord(m)
      PROVE  \E v \in State(Width[m]) : HostEvent(m, v)
  <2>1. PICK a \in Address(m), v \in HostWord[m] : SetPlane(m, [cells[m] EXCEPT ![a] = v])
    BY <1>2 DEF MemoryWriteWord
  <2>2. v \in State(Width[m]) /\ cells[m] \in [Address(m) -> State(Width[m])]
    BY EngineAssumption DEF EngineAssumption, TypeOK, CellPlanes
  <2>3. [cells[m] EXCEPT ![a] = v] \in [Address(m) -> State(Width[m])]
    BY <2>2
  <2> QED
    BY <1>2, <2>1, <2>3, SetPlaneCases DEF MemoryWriteWord
<1>3. ASSUME NEW m \in Memory, MemoryClear(m)
      PROVE  \E v \in State(Width[m]) : HostEvent(m, v)
  <2>1. [a \in Address(m) |-> Undefined(Width[m])] \in [Address(m) -> State(Width[m])]
    BY UndefinedType
  <2> QED
    BY <1>3, <2>1, SetPlaneCases DEF MemoryClear
<1>4. ASSUME NEW m \in Memory, MemoryLoadImage(m)
      PROVE  \E v \in State(Width[m]) : HostEvent(m, v)
  <2>1. PICK plane \in HostImage[m] : SetPlane(m, plane)
    BY <1>4 DEF MemoryLoadImage
  <2>2. plane \in [Address(m) -> State(Width[m])]
    BY EngineAssumption DEF EngineAssumption
  <2> QED
    BY <1>4, <2>1, <2>2, SetPlaneCases DEF MemoryLoadImage
<1> QED
  BY <1>1, <1>2, <1>3, <1>4 DEF HostCall

\* Nothing a host call schedules is a gate or a wire.
LEMMA HostSchedules ==
  ASSUME NEW c \in HostPin \cup Memory
  PROVE  c \in Component /\ c \notin Gate /\ c \notin WireLike
BY KindsApart, MemoryKinds

\* A host call keeps the types.
LEMMA HostCallType ==
  ASSUME TypeOK, HostCall
  PROVE  TypeOK'
<1>1. PICK c \in HostPin \cup Memory : \E v \in State(Width[c]) : HostEvent(c, v)
  BY HostCallCases
<1>2. PICK v \in State(Width[c]) : HostEvent(c, v)
  BY <1>1
<1>3. /\ queue' \in [Delay -> Seq(Event)] /\ \A d \in Delay : EventsOK(queue'[d])
      /\ phase' \in Phases
      /\ remaining' \in 0..MaxSettleWork
  BY <1>2, HostSchedules, PropagateEventType DEF HostEvent
<1> QED
  BY <1>2, <1>3 DEF HostEvent, TypeOK, step

-----------------------------------------------------------------------------
(* The loop of propagate() *)

\* A queue that is not empty has an earliest event.
LEMMA EarliestDueFacts ==
  ASSUME ~QueueEmpty
  PROVE  /\ EarliestDue \in Delay
         /\ queue[EarliestDue] # <<>>
         /\ \A e \in Delay : queue[e] # <<>> => EarliestDue <= e
<1>1. \E d \in Delay : queue[d] # <<>> /\ \A e \in Delay : queue[e] # <<>> => d <= e
  BY DEF QueueEmpty, Delay, GateDelay
<1> QED
  BY <1>1, Zenon DEF EarliestDue

\* Time that passes leaves the queue well-formed.
LEMMA ShiftedType ==
  ASSUME NEW q \in [Delay -> Seq(Event)], \A d \in Delay : EventsOK(q[d]), NEW t \in Delay
  PROVE  /\ Shifted(q, t) \in [Delay -> Seq(Event)]
         /\ \A d \in Delay : EventsOK(Shifted(q, t)[d])
BY EmptyEvents DEF Shifted

\* An event staged keeps the types.
LEMMA PopType ==
  ASSUME TypeOK, PopLive
  PROVE  TypeOK'
<1> DEFINE e == Head(batch)
           s == Candidate(e)
<1>1. /\ EventsOK(Tail(batch))
      /\ e \in Event /\ e.comp \in Component /\ e.gen \in Nat
      /\ e.val \in State(Width[e.comp])
      /\ e.gen # 0 <=> e.comp \in Gate
  BY TailEvents DEF PopLive, TypeOK
<1>2. /\ s \in StagedEvent
      /\ s.val \in State(Width[s.comp]) /\ s.old \in State(Width[s.comp])
      /\ s.gate <=> s.comp \in Gate
  BY <1>1, UndefinedType, AnyStateType DEF Candidate, StagedEvent
<1>3. staged \in Seq(StagedEvent) /\ staged' = Append(staged, s)
  BY DEF TypeOK, CandidatesOK, PopLive
<1> HIDE DEF s
<1>4. CandidatesOK(staged')
  BY <1>2, <1>3 DEF TypeOK, CandidatesOK
<1>5. pending' \in [Component -> [gen : 0..(GenLimit - 1), val : AnyState]]
  <2>1. CASE e.gen = 0
    BY <2>1 DEF PopLive, TypeOK
  <2>2. CASE e.gen # 0
    <3>1. pending' = [pending EXCEPT ![e.comp] = Dropped(@)]
      BY <2>2 DEF PopLive
    <3>2. Dropped(pending[e.comp]) \in [gen : 0..(GenLimit - 1), val : AnyState]
      BY <1>1, EngineAssumption DEF Dropped, TypeOK, EngineAssumption
    <3> QED
      BY <3>1, <3>2 DEF TypeOK
  <2> QED
    BY <2>1, <2>2
<1>6. remaining' \in 0..MaxSettleWork
  BY EngineAssumption DEF PopLive, Consume, TypeOK, EngineAssumption
<1>7. idx \in 0..Len(staged') /\ wave \subseteq {i \in DOMAIN staged' : staged'[i].gate}
  BY <1>3 DEF TypeOK
<1> QED
  BY <1>1, <1>4, <1>5, <1>6, <1>7 DEF PopLive, TypeOK

\* An event projected keeps the types.
LEMMA ProjectType ==
  ASSUME TypeOK, Project
  PROVE  TypeOK'
<1> DEFINE n == idx + 1
           s == staged[n]
<1>1. /\ n \in DOMAIN staged /\ s \in StagedEvent
      /\ s.comp \in Component
      /\ s.val \in State(Width[s.comp]) /\ state[s.comp] \in State(Width[s.comp])
      /\ s.gate <=> s.comp \in Gate
  <2>1. n \in DOMAIN staged /\ s \in StagedEvent
    BY DEF Project, TypeOK, CandidatesOK
  <2> QED
    BY <2>1, PoolValue DEF TypeOK, CandidatesOK, StagedEvent
<1>2. /\ staged' = [staged EXCEPT ![n] = Projected(s)]
      /\ state' = [state EXCEPT ![s.comp] = s.val]
      /\ idx' = n
  BY DEF Project
<1>3. /\ Projected(s) \in StagedEvent
      /\ Projected(s).comp = s.comp /\ Projected(s).val = s.val
      /\ Projected(s).gate = s.gate /\ Projected(s).old = state[s.comp]
  BY <1>1, AnyStateType DEF Projected, StagedEvent
<1>4. CandidatesOK(staged') /\ Len(staged') = Len(staged)
  BY <1>1, <1>2, <1>3 DEF TypeOK, CandidatesOK
<1>5. wave' \subseteq {i \in DOMAIN staged' : staged'[i].gate}
  BY <1>1, <1>2, <1>3 DEF Project, TypeOK
<1>6. state' \in Pool
  BY <1>1, <1>2, AnyStateType DEF TypeOK, Pool
<1>7. idx' \in 0..Len(staged')
  BY <1>2, <1>4 DEF Project, TypeOK, CandidatesOK
<1> QED
  BY <1>4, <1>5, <1>6, <1>7 DEF Project, TypeOK

\* A wave has a number of members.
LEMMA WaveFinite ==
  ASSUME TypeOK
  PROVE  Cardinality(wave) \in Nat
<1>1. wave \in SUBSET (1..Len(staged)) /\ Len(staged) \in Int
  BY DEF TypeOK, CandidatesOK
<1>2. IsFiniteSet(1..Len(staged))
  BY <1>1, FS_Interval
<1>3. IsFiniteSet(wave)
  BY <1>1, <1>2, FS_Subset, Zenon
<1> QED
  BY <1>3, FS_CardinalityType

\* A wave validated keeps the types.
LEMMA ValidateWaveType ==
  ASSUME TypeOK, ValidateWave
  PROVE  TypeOK'
<1>1. Flips \subseteq DOMAIN staged
  BY DEF Flips, TypeOK
<1>2. \A i \in DOMAIN staged :
        /\ staged[i] \in StagedEvent /\ Reversed(staged[i]) \in StagedEvent
        /\ staged[i].comp \in Component
        /\ staged[i].val \in State(Width[staged[i].comp])
        /\ staged[i].old \in State(Width[staged[i].comp])
        /\ Reversed(staged[i]).comp = staged[i].comp /\ Reversed(staged[i]).val = staged[i].val
        /\ Reversed(staged[i]).old = staged[i].old /\ Reversed(staged[i]).gate = staged[i].gate
        /\ staged[i].gate <=> staged[i].comp \in Gate
  <2> SUFFICES ASSUME NEW i \in DOMAIN staged
               PROVE  /\ staged[i] \in StagedEvent /\ Reversed(staged[i]) \in StagedEvent
                      /\ staged[i].comp \in Component
                      /\ staged[i].val \in State(Width[staged[i].comp])
                      /\ staged[i].old \in State(Width[staged[i].comp])
                      /\ Reversed(staged[i]).comp = staged[i].comp
                      /\ Reversed(staged[i]).val = staged[i].val
                      /\ Reversed(staged[i]).old = staged[i].old
                      /\ Reversed(staged[i]).gate = staged[i].gate
                      /\ staged[i].gate <=> staged[i].comp \in Gate
    OBVIOUS
  <2>1. /\ staged[i] \in StagedEvent
        /\ staged[i].val \in State(Width[staged[i].comp])
        /\ staged[i].old \in State(Width[staged[i].comp])
        /\ staged[i].gate <=> staged[i].comp \in Gate
    BY DEF TypeOK, CandidatesOK
  <2>2. /\ staged[i].comp \in Component /\ staged[i].val \in AnyState
        /\ staged[i].old \in AnyState /\ staged[i].gate \in BOOLEAN
    BY <2>1 DEF StagedEvent
  <2> QED
    BY <2>1, <2>2 DEF StagedEvent, Reversed
<1>3. staged' = [i \in DOMAIN staged |-> IF i \in Flips THEN Reversed(staged[i]) ELSE staged[i]]
  BY DEF ValidateWave
<1>4. CandidatesOK(staged') /\ Len(staged') = Len(staged)
  <2>1. staged \in Seq(StagedEvent) /\ staged' \in [DOMAIN staged -> StagedEvent]
    BY <1>2, <1>3 DEF TypeOK, CandidatesOK
  <2>2. staged' \in Seq(StagedEvent) /\ Len(staged') = Len(staged) /\ DOMAIN staged' = DOMAIN staged
    BY <2>1, SequenceOverDomain
  <2> QED
    BY <1>2, <1>3, <2>2 DEF CandidatesOK
<1>5. state' \in Pool
  <2>1. ASSUME NEW c \in Component
        PROVE  FlippedState(c) \in State(Width[c])
    <3>1. CASE \E i \in Flips : staged[i].comp = c
      <4> DEFINE j == CHOOSE i \in Flips : staged[i].comp = c
      <4>1. j \in Flips /\ staged[j].comp = c
        BY <3>1, Zenon
      <4>2. FlippedState(c) = IF staged[j].accepted THEN staged[j].old ELSE staged[j].val
        BY <3>1 DEF FlippedState
      <4> QED
        BY <4>1, <4>2, <1>1, <1>2
    <3>2. CASE ~ \E i \in Flips : staged[i].comp = c
      BY <3>2, PoolValue DEF FlippedState, TypeOK
    <3> QED
      BY <3>1, <3>2
  <2>2. state' = [c \in Component |-> FlippedState(c)]
    BY DEF ValidateWave
  <2> QED
    BY <2>1, <2>2, AnyStateType DEF Pool
<1>6. wave' \subseteq {i \in DOMAIN staged' : staged'[i].gate}
  BY <1>2, <1>3 DEF ValidateWave
<1>7. remaining' \in 0..MaxSettleWork
  <2>1. Cardinality(wave) \in Nat
    BY WaveFinite
  <2> QED
    BY <2>1, EngineAssumption DEF ValidateWave, Consume, TypeOK, EngineAssumption
<1> QED
  BY <1>4, <1>5, <1>6, <1>7 DEF ValidateWave, TypeOK, CandidatesOK

\* An evaluation keeps the scheduler well-typed, in any typed state.
LEMMA EvaluateType ==
  ASSUME TypeOK, NEW c \in Component, Recalculate(c)
  PROVE  SchedOK'
BY RecalculateType DEF TypeOK, SchedOK

\* A reader told keeps the types.
LEMMA NotifyType ==
  ASSUME TypeOK, NotifyOutput
  PROVE  TypeOK'
<1>1. Head(outs) \in Component /\ Tail(outs) \in Seq(Component)
  BY DEF NotifyOutput, TypeOK
<1>2. SchedOK'
  BY <1>1, EvaluateType DEF NotifyOutput
<1>3. remaining' \in 0..MaxSettleWork
  BY EngineAssumption DEF NotifyOutput, Consume, TypeOK, EngineAssumption
<1> QED
  BY <1>1, <1>2, <1>3 DEF NotifyOutput, TypeOK, SchedOK

\* So does the next changed component.
LEMMA NextChangedType ==
  ASSUME TypeOK, NextChanged
  PROVE  TypeOK'
<1>1. idx + 1 \in DOMAIN staged /\ staged[idx + 1] \in StagedEvent
  BY DEF NextChanged, TypeOK, CandidatesOK
<1>2. outs' \in Seq(Component)
  BY <1>1, NetlistAssumption DEF NextChanged, NetlistAssumption, StagedEvent
<1>3. idx' \in 0..Len(staged)
  BY DEF NextChanged, TypeOK, CandidatesOK
<1> QED
  BY <1>2, <1>3 DEF NextChanged, TypeOK

\* So does a rejected gate.
LEMMA RequeueType ==
  ASSUME TypeOK, RequeueRejected
  PROVE  TypeOK'
<1>1. idx + 1 \in DOMAIN staged /\ staged[idx + 1] \in StagedEvent
  BY DEF RequeueRejected, TypeOK, CandidatesOK
<1>2. SchedOK'
  BY <1>1, EvaluateType DEF RequeueRejected, StagedEvent
<1>3. remaining' \in 0..MaxSettleWork
  BY EngineAssumption DEF RequeueRejected, Consume, TypeOK, EngineAssumption
<1>4. idx' \in 0..Len(staged)
  BY DEF RequeueRejected, TypeOK, CandidatesOK
<1> QED
  BY <1>2, <1>3, <1>4 DEF RequeueRejected, TypeOK, SchedOK

\* So does giving up.
LEMMA NoSettleType ==
  ASSUME TypeOK, NoSettle
  PROVE  TypeOK'
<1>1. pending' \in [Component -> [gen : 0..(GenLimit - 1), val : AnyState]]
  BY EngineAssumption DEF NoSettle, Dropped, TypeOK, EngineAssumption
<1>2. queue' \in [Delay -> Seq(Event)] /\ \A d \in Delay : EventsOK(queue'[d])
  BY EmptyEvents DEF NoSettle, NoQueue
<1> QED
  BY <1>1, <1>2, EmptyEvents, EngineAssumption
     DEF NoSettle, TypeOK, EngineAssumption, Phases

\* So does every step of propagation.
LEMMA PropagateType ==
  ASSUME TypeOK, Propagate
  PROVE  TypeOK'
<1>1. CASE Advance
  <2>1. EarliestDue \in Delay
    BY <1>1, EarliestDueFacts DEF Advance
  <2>2. /\ Shifted(queue, EarliestDue) \in [Delay -> Seq(Event)]
        /\ \A d \in Delay : EventsOK(Shifted(queue, EarliestDue)[d])
        /\ EventsOK(queue[EarliestDue])
    BY <2>1, ShiftedType DEF TypeOK
  <2> QED
    BY <1>1, <2>2 DEF Advance, TypeOK, Phases
<1>2. CASE Return
  BY <1>2, EngineAssumption DEF Return, TypeOK, step, Phases, EngineAssumption
<1>3. CASE PopLive
  BY <1>3, PopType
<1>4. CASE PopStale
  <2>1. EventsOK(Tail(batch))
    BY <1>4, TailEvents DEF PopStale, TypeOK
  <2>2. remaining' \in 0..MaxSettleWork
    BY <1>4, EngineAssumption DEF PopStale, Consume, TypeOK, EngineAssumption
  <2> QED
    BY <1>4, <2>1, <2>2 DEF PopStale, TypeOK
<1>5. CASE StageDone
  BY <1>5 DEF StageDone, TypeOK, step, Phases
<1>6. CASE Project
  BY <1>6, ProjectType
<1>7. CASE StartValidation
  BY <1>7 DEF StartValidation, TypeOK, Phases, CandidatesOK
<1>8. CASE ValidateWave
  BY <1>8, ValidateWaveType
<1>9. CASE Commit
  BY <1>9 DEF Commit, TypeOK, step, Phases
<1>10. CASE NextChanged
  BY <1>10, NextChangedType
<1>11. CASE NotifyOutput
  BY <1>11, NotifyType
<1>12. CASE NotifyDone
  BY <1>12 DEF NotifyDone, TypeOK, Phases, CandidatesOK
<1>13. CASE RequeueRejected
  BY <1>13, RequeueType
<1>14. CASE SkipAccepted
  <2>1. Len(staged) \in Nat
    BY DEF TypeOK, CandidatesOK
  <2>2. idx' \in 0..Len(staged)
    BY <1>14, <2>1 DEF SkipAccepted, TypeOK
  <2> QED
    BY <1>14, <2>2 DEF SkipAccepted, TypeOK
<1>15. CASE EndStep
  <2>1. CandidatesOK(staged') /\ Len(staged') = 0
    BY <1>15, EmptyEvents, EmptySeq DEF EndStep
  <2>2. wave' \subseteq {i \in DOMAIN staged' : staged'[i].gate} /\ idx' \in 0..Len(staged')
    BY <1>15, <2>1 DEF EndStep
  <2> QED
    BY <1>15, <2>1, <2>2 DEF EndStep, TypeOK, Phases
<1>16. CASE NoSettle
  BY <1>16, NoSettleType
<1> QED
  BY <1>1, <1>2, <1>3, <1>4, <1>5, <1>6, <1>7, <1>8, <1>9, <1>10, <1>11, <1>12,
     <1>13, <1>14, <1>15, <1>16 DEF Propagate

-----------------------------------------------------------------------------
\* The initial state is typed.
LEMMA InitType == Init => TypeOK
<1> SUFFICES ASSUME Init
             PROVE  TypeOK
  OBVIOUS
<1>1. state \in Pool
  BY UndefinedType, AnyStateType DEF Init, Pool
<1>2. cells \in CellPlanes
  BY UndefinedType DEF Init, CellPlanes
<1>3. pending \in [Component -> [gen : 0..(GenLimit - 1), val : AnyState]]
  BY UndefinedType, AnyStateType, EngineAssumption DEF Init, EngineAssumption
<1>4. nextGen \in 1..(GenLimit - 1) /\ remaining \in 0..MaxSettleWork
  BY EngineAssumption DEF Init, EngineAssumption
<1>5. queue \in [Delay -> Seq(Event)] /\ \A d \in Delay : EventsOK(queue[d])
  BY EmptyEvents DEF Init, NoQueue
<1>6. Len(staged) = 0 /\ outs \in Seq(Component)
  BY EmptySeq DEF Init
<1>7. EventsOK(batch) /\ CandidatesOK(staged)
  BY EmptyEvents DEF Init
<1>8. wave \subseteq {i \in DOMAIN staged : staged[i].gate} /\ idx \in 0..Len(staged)
  BY <1>6 DEF Init
<1>9. prevClk \in [Memory -> Trit] /\ phase \in Phases /\ failed \in BOOLEAN
  BY DEF Init, Trit, Phases
<1> QED
  BY <1>1, <1>2, <1>3, <1>4, <1>5, <1>6, <1>7, <1>8, <1>9 DEF TypeOK

\* Every step of the engine keeps the types.
LEMMA StepType ==
  ASSUME TypeOK, [Next]_vars
  PROVE  TypeOK'
<1>1. CASE HostCall
  BY <1>1, HostCallType
<1>2. CASE Propagate
  BY <1>2, PropagateType
<1>3. CASE UNCHANGED vars
  BY <1>3 DEF vars, step, TypeOK
<1> QED
  BY <1>1, <1>2, <1>3 DEF Next

(***************************************************************************)
(* Type correctness: every value the engine keeps for a component has the  *)
(* width of that component, whatever is scheduled, staged, restored or     *)
(* written to a cell, and replaceable events belong to gates only.         *)
(***************************************************************************)
THEOREM TypeCorrect == Spec => []TypeOK
<1>1. Init => TypeOK
  BY InitType
<1>2. TypeOK /\ [Next]_vars => TypeOK'
  BY StepType
<1> QED
  BY <1>1, <1>2, PTL DEF Spec
=============================================================================
