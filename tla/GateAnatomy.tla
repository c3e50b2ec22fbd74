---------------------------- MODULE GateAnatomy ----------------------------
(***************************************************************************)
(* The three containers a gate is drawn from (utils/circ-skins.mjs): the   *)
(* second curve of an exclusive gate, the symbol, the bubble of a negated  *)
(* one, side by side in a box of which the ports and the wires know        *)
(* nothing. A length is a number of thousandths of a cell; a sprite is the *)
(* bounds of what is painted of it, in thousandths of its square.          *)
(***************************************************************************)
EXTENDS Integers

CONSTANTS
  Widths,      \* of the box
  Inputs,      \* the numbers of inputs
  Edges,       \* where the art of a sprite may begin, from its left, top and bottom
  Ends,        \* where it may end on the right
  Apexes       \* how far the back of the art reaches in, beyond its left edge

VARIABLES gate,      \* the gate: its box, its inputs, its sprite's bounds and its recipe
          drawn      \* where its parts were put: a set of at most one

vars == <<gate, drawn>>

Cell == 1000
Inset  == 400     \* NS_INSET
Slot   == 550     \* NS_SLOT
Bubble == 240     \* NS_BUBBLE_R

Least(a, b) == IF a < b THEN a ELSE b
Most(a, b)  == IF a > b THEN a ELSE b

\* A box has a row for each port, one between two of them, and one above and below.
BoxHeight(inputs) == IF inputs > 1 THEN (2 * inputs + 1) * Cell ELSE 3 * Cell

nsGateLayout(width) ==
  LET innerL == Inset
      innerR == width - Inset
  IN [innerL |-> innerL, innerR |-> innerR,
      exclusiveRight |-> innerL + Slot, negateLeft |-> innerR - Slot]

\* The size is from the port rows and the width of the gate's own slot, for every
\* recipe; the painted art is centred on the span.
nsFitSymbol(L, g, cx, span) ==
  LET paintedH == 1000 - 2 * g.edge
      paintedW == g.end - g.edge
      targetH  == Least(BoxHeight(g.inputs), IF g.inputs > 1 THEN (2 * (g.inputs - 1) + 2) * Cell ELSE 2 * Cell)
      size     == Least((targetH * 1000) \div paintedH, ((L.negateLeft - L.exclusiveRight) * 1000) \div paintedW)
      left     == cx - ((g.edge + g.end) * size) \div 2000
  IN [size |-> size, artL |-> left + (g.edge * size) \div 1000, artR |-> left + (g.end * size) \div 1000,
      apexX |-> left + ((g.edge + g.apex) * size) \div 1000]

\* An unused side slot lends its width to the symbol, and the curve needs only the part
\* of its slot that the back of the symbol does not leave free.
gateGeometry(g) ==
  LET L == nsGateLayout(g.width)
      spanL == IF g.exclusive THEN L.innerL + 360 ELSE L.innerL
      spanR == IF g.negate THEN L.negateLeft - 100 ELSE L.innerR
  IN nsFitSymbol(L, g, (spanL + spanR) \div 2, spanR - spanL)

\* The bubble: a gap behind the symbol, within its slot.
nsNegate(L, symbolRight) ==
  LET r  == Least(Bubble, Slot \div 2 - 30)
      at == Least(L.innerR - r, Most(L.negateLeft + r, symbolRight + 140 + r))
  IN [left |-> at - r, right |-> at + r]

\* The second back: its tip a gap before the symbol's, its ends within the slot.
nsExclusive(L, S) ==
  LET tip == S.apexX - 140 - 100
  IN [tip |-> tip, end |-> Most(L.innerL + 100, tip - (S.apexX - S.artL))]

Gates == [width : Widths, inputs : Inputs, edge : Edges, end : Ends, apex : Apexes,
          exclusive : BOOLEAN, negate : BOOLEAN]

Init == gate \in Gates /\ drawn = {}

nsGate ==
  /\ drawn = {}
  /\ LET L == nsGateLayout(gate.width)
         S == gateGeometry(gate)
     IN drawn' = {[symbol |-> S, bubble |-> nsNegate(L, S.artR), curve |-> nsExclusive(L, S)]}
  /\ UNCHANGED gate

Stop == drawn # {} /\ UNCHANGED vars
Next == nsGate \/ Stop
Spec == Init /\ [][Next]_vars

-----------------------------------------------------------------------------
(* Properties.                                                             *)

\* The containers never touch (the comment of the gate's anatomy): the bubble is
\* behind the symbol and the curve before it, and all of them are in the box.
ContainersNeverTouch ==
  \A d \in drawn :
    /\ gate.negate => d.bubble.left > d.symbol.artR /\ d.bubble.right <= gate.width - Inset
    /\ gate.exclusive => d.curve.tip + 100 < d.symbol.apexX /\ d.curve.end - 100 >= Inset
    /\ d.symbol.artL >= 0 /\ d.symbol.artR <= gate.width

Sibling(g, exclusive, negate) == [g EXCEPT !.exclusive = exclusive, !.negate = negate]

\* A gate and its negation, and an or and its exclusive, have symbols of one size.
SiblingsShareASize ==
  \A d \in drawn : \A x, n \in BOOLEAN :
    gateGeometry(Sibling(gate, x, n)).size = d.symbol.size

\* The curve is a back like the symbol's: it is not turned inside out by its slot.
CurveIsABack == \A d \in drawn : gate.exclusive => d.curve.end <= d.curve.tip

\* The parts of a gate keep their places: none touches another, and related gates have
\* symbols of one size.
PartsKeepTheirPlaces == ContainersNeverTouch /\ SiblingsShareASize /\ CurveIsABack
=============================================================================
