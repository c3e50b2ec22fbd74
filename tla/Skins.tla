------------------------------- MODULE Skins -------------------------------
(***************************************************************************)
(* How the site draws a circuit (utils/circ-skins.mjs over the sprites of  *)
(* circ-theme.mjs): each part is painted from the values at its ports, in  *)
(* the palette of the page's theme, with art that is decoded some time     *)
(* after the first frame and tinted once a colour.                         *)
(* A drawing is the set of its marks: what a mark is, its form (filled,    *)
(* hollow, dashed ...), the palette's name for its ink, and what it says.  *)
(* Where a mark is put is left out, but for the bits of a slice's ruler.   *)
(***************************************************************************)
EXTENDS Naturals, Sequences, FiniteSets, SequencesExt

CONSTANTS
  RulerMax,      \* RULER_MAX_BITS
  MaxFrames      \* bound: frames

\* A bit is 0, 1 or 2, for undefined; a value is its bits, the lowest first; <<>> where
\* nothing is wired.
Values(width) == [1..width -> 0..2]
Signal(v) == IF v = <<>> THEN 2 ELSE v[1]
Width(v)  == IF v = <<>> THEN 1 ELSE Len(v)
Defined(v) == \A i \in DOMAIN v : v[i] # 2

\* The parts, the widths of their ports, and whether the first port may be left open.
Part == [
  pin   |-> [ins |-> <<>>,           out |-> 1, skin |-> "input"],
  wide  |-> [ins |-> <<>>,           out |-> 2, skin |-> "input"],
  out   |-> [ins |-> <<1>>,          out |-> 1, skin |-> "output"],
  outs  |-> [ins |-> <<2>>,          out |-> 2, skin |-> "output"],
  led   |-> [ins |-> <<1>>,          out |-> 1, skin |-> "led"],
  not   |-> [ins |-> <<1>>,          out |-> 1, skin |-> "not"],
  xnor  |-> [ins |-> <<1, 1>>,       out |-> 1, skin |-> "subcircuit"],
  adder |-> [ins |-> <<2>>,          out |-> 1, skin |-> "subcircuit"],
  slice |-> [ins |-> <<3>>,          out |-> 2, skin |-> "slice"],
  bit   |-> [ins |-> <<2>>,          out |-> 1, skin |-> "slice"],
  cat   |-> [ins |-> <<1, 1>>,       out |-> 2, skin |-> "concat"],
  rom   |-> [ins |-> <<2>>,          out |-> 2, skin |-> "rom"],
  ram   |-> [ins |-> <<1, 1, 1, 1>>, out |-> 1, skin |-> "ram"] ]

\* A slice takes bits lo to hi - 1.
SliceOf == [slice |-> [lo |-> 1, hi |-> 3], bit |-> [lo |-> 0, hi |-> 1]]

VARIABLES
  part,      \* the part on the canvas
  ins, out,  \* the values at its ports
  theme,     \* the page's theme
  decoded,   \* the sprites are there
  tints,     \* tintCache: [key, art]
  fits,      \* boundsCache: [name, bounds]
  edge,      \* ramEdgeState: the clock of the last draw
  marks,     \* what the last frame drew
  hovered,   \* the part is under the pointer, or marked by the editor
  due,       \* why a frame is due, or "no"
  clock,     \* the engine's last clock of the ram
  wrote,     \* history: the engine wrote on the change the last frame shows
  frames

page == <<theme, decoded>>
caches == <<tints, fits>>
vars == <<part, ins, out, page, caches, edge, marks, hovered, due, clock, wrote, frames>>

-----------------------------------------------------------------------------
(* Marks.                                                                  *)

Mark(what, form, ink, says) == [what |-> what, form |-> form, ink |-> ink, says |-> says]
Question == <<2>>

\* The renderer's: a bus with an unknown bit is undefined, and no bus.
wireStyleOf(v) ==
  IF v = <<>> \/ ~Defined(v) THEN "undefined"
  ELSE IF Len(v) > 1 THEN "bus" ELSE IF v[1] = 1 THEN "active" ELSE "idle"

Ink == [undefined |-> "wireUndefined", bus |-> "wireBus", active |-> "wireActive", idle |-> "wireIdle"]

wireColour(sig, bus) ==
  IF bus THEN "wireBus"
  ELSE CASE sig = 1 -> "wireActive" [] sig = 0 -> "wireIdle" [] OTHER -> "wireUndefined"

nsTail(port, sig, bus) == {Mark("tail", IF bus THEN "heavy" ELSE "light", wireColour(sig, bus), <<port>>)}
nsDot(port, sig) == {Mark("dot", "filled", IF sig = 1 THEN "portOn" ELSE "portOff", <<port>>)}
nsName(ink) == {Mark("name", "text", ink, <<>>)}
nsHalo(ink) == {Mark("halo", "soft", ink, <<>>)}

\* The form carries the state, and not only the colour.
nsPinCircle(sig, on, off) ==
  CASE sig = 2 -> {Mark("circle", "dashed", "labelMuted", <<>>)}
    [] sig = 1 -> nsHalo(on) \cup {Mark("circle", "filled", on, <<>>)}
    [] OTHER   -> {Mark("circle", "hollow", off, <<>>)}

nsValuePill(sig, on, off) ==
  {Mark("pill", CASE sig = 1 -> "filled" [] sig = 2 -> "dashed" [] OTHER -> "hollow",
        CASE sig = 1 -> on [] sig = 2 -> "labelMuted" [] OTHER -> off, <<sig>>)}

\* Fully defined, or a question mark.
nsHex(v) == IF v # <<>> /\ Defined(v) THEN v ELSE Question

-----------------------------------------------------------------------------
(* Sprites.                                                                *)

\* A colour is an ink in a palette.
Colour(ink) == <<ink, theme>>

symbolInk(sig) == CASE sig = 1 -> "inputOn" [] sig = 2 -> "labelMuted" [] OTHER -> "spriteInk"

TintKey(name, ink) == <<name, Colour(ink)>>

\* The art of a sprite in a colour, from the cache or made and kept: none before the
\* sprite is decoded, and none is kept then.
tintedSprite(name, ink) ==
  LET hit == {t \in tints : t.key = TintKey(name, ink)}
  IN IF hit # {} THEN hit
     ELSE IF decoded THEN {[key |-> TintKey(name, ink), art |-> Colour(ink)]} ELSE {}

\* Mutant: bounds are kept from the first frame on.
spriteBoundsKept(name) ==
  LET hit == {f \in fits : f.name = name}
  IN IF hit # {} THEN hit ELSE {[name |-> name, bounds |-> IF decoded THEN "measured" ELSE "triangle"]}

\* Measured once, on the decoded sprite.
spriteBounds(name) ==
  LET hit == {f \in fits : f.name = name}
  IN IF hit # {} THEN hit
     ELSE IF decoded THEN {[name |-> name, bounds |-> "measured"]} ELSE {}

\* RECIPES: the macros the library draws as gates.
RECIPES == [
  not  |-> [sprite |-> "none", negate |-> TRUE,  exclusive |-> FALSE],
  xnor |-> [sprite |-> "OR",   negate |-> TRUE,  exclusive |-> TRUE],
  and  |-> [sprite |-> "AND",  negate |-> FALSE, exclusive |-> FALSE] ]

\* A symbol: its art, its halo when high, and what it was fitted to.
nsSpriteRect(name, sig) ==
  {Mark("symbol", "sprite", t.art[1], <<>>) : t \in tintedSprite(name, symbolInk(sig))}
  \cup {Mark("palette", t.art[2], t.art[1], <<>>) : t \in tintedSprite(name, symbolInk(sig))}
  \cup (IF sig = 1 THEN nsHalo("inputOn") ELSE {})

nsVector(form, sig) == {Mark("symbol", form, symbolInk(sig), <<>>)} \cup (IF sig = 1 THEN nsHalo("inputOn") ELSE {})
nsVectorGate(sig) == {Mark("symbol", "vector", symbolInk(sig), <<>>)}

Tails == UNION {nsTail(i, Signal(ins[i]), Width(ins[i]) > 1) : i \in DOMAIN ins}
         \cup nsTail(0, Signal(out), Part[part].out > 1)
Dots == UNION {nsDot(i, Signal(ins[i])) : i \in DOMAIN ins} \cup nsDot(0, Signal(out))

nsGate(recipe) ==
  LET sig == Signal(out)
      hasSprite == recipe.sprite # "none" /\ decoded
  IN Tails \cup Dots \cup nsName("labelMuted")
     \cup (IF hasSprite THEN nsSpriteRect(recipe.sprite, sig)
           ELSE IF recipe.sprite = "none" THEN nsVector("triangle", sig) ELSE nsVectorGate(sig))
     \cup (IF recipe.exclusive THEN {Mark("exclusive", "curve", symbolInk(sig), <<>>)} ELSE {})
     \cup (IF recipe.negate THEN {Mark("negate", "bubble", symbolInk(sig), <<>>)} ELSE {})
     \cup (IF hasSprite THEN {Mark("fit", f.bounds, "none", <<>>) : f \in spriteBounds(recipe.sprite)}
           ELSE {Mark("fit", "triangle", "none", <<>>)})

-----------------------------------------------------------------------------
(* Skins.                                                                  *)

drawInputPin ==
  nsTail(0, Signal(out), Part[part].out > 1) \cup nsDot(0, Signal(out)) \cup nsName("label")
  \cup nsPinCircle(Signal(out), "inputOn", "inputBorderOff")
  \cup (IF Part[part].out > 1 THEN {} ELSE nsValuePill(Signal(out), "inputOn", "inputBorderOff"))

drawOutputPin ==
  LET sig == Signal(ins[1]) IN
  nsTail(1, sig, Width(ins[1]) > 1) \cup nsDot(1, sig) \cup nsName("label")
  \cup nsPinCircle(sig, "outputOn", "outputBorderOff")
  \cup (IF Part[part].out > 1 THEN {} ELSE nsValuePill(sig, "outputOn", "outputBorderOff"))

drawLed ==
  LET sig == Signal(ins[1]) IN
  nsTail(1, sig, Width(ins[1]) > 1) \cup nsDot(1, sig) \cup nsName("labelMuted")
  \cup (IF sig = 1
        THEN nsHalo("outputOn") \cup {Mark("circle", "filled", "outputOn", <<>>), Mark("glint", "soft", "background", <<>>)}
        ELSE {Mark("circle", IF sig = 2 THEN "dashed" ELSE "hollow",
                   IF sig = 2 THEN "labelMuted" ELSE "outputBorderOff", <<>>),
              Mark("core", "filled", "outputOff", <<>>)})

nsChip == {Mark("shell", "chip", "macro", <<>>)}
nsUserSubcircuit == nsChip \cup {Mark("title", "text", "macro", <<>>)} \cup nsName("label")
nsShell == {Mark("shell", "box", "wireBus", <<>>)}

\* A subcircuit with a recipe is the gate; any other is a chip.
drawSubcircuit ==
  IF part \in DOMAIN RECIPES THEN nsGate(RECIPES[part]) ELSE Tails \cup Dots \cup nsUserSubcircuit

Slices == part \in DOMAIN SliceOf
Slice == SliceOf[part]

TakenForm == CASE Signal(out) = 2 -> "faint" [] Signal(out) = 0 -> "dim" [] OTHER -> "full"

\* The bit at place i of the ruler, from the left: the highest first.
RulerBit(i, inWidth) == inWidth - 1 - i

BarStart(inWidth) == inWidth - Slice.hi

\* A tick for each bit, or a bar over the places of those the slice takes.
nsSliceAsset ==
  LET inWidth == LET w == IF ins[1] = <<>> THEN 0 ELSE Len(ins[1])
                 IN IF w > Slice.hi THEN w ELSE Slice.hi
      taken(i) == RulerBit(i, inWidth) >= Slice.lo /\ RulerBit(i, inWidth) < Slice.hi
  IN nsShell \cup
     IF inWidth <= RulerMax
     THEN {Mark("tick", IF taken(i) THEN TakenForm ELSE "muted", IF taken(i) THEN "wireBus" ELSE "labelMuted", <<i>>)
             : i \in 0..inWidth - 1}
     ELSE {Mark("bar", TakenForm, "wireBus", <<BarStart(inWidth), Slice.hi - Slice.lo>>)}

\* A band an operand, numbered from the top.
nsConcatAsset == nsShell \cup {Mark("band", "filled", "wireBus", <<i - 1>>) : i \in DOMAIN ins}

nsBitPart(body) == Tails \cup Dots \cup body

bit0High(v) == Signal(v) = 1
bit0Low(v)  == Signal(v) = 0

\* The engine's predicate over the ports, and the clock of the draw before.
ramWriting ==
  bit0High(ins[4]) /\ bit0Low(edge) /\ bit0High(ins[3]) /\ ins[1] # <<>> /\ Defined(ins[1])

WordInk(says, ink) == IF says = Question THEN "labelMuted" ELSE ink

nsMemory(ram) ==
  nsChip \cup nsName("label")
  \cup {Mark("address", "text", WordInk(nsHex(ins[1]), "label"), nsHex(ins[1])),
        Mark("word", "text", WordInk(nsHex(out), "wireBus"), nsHex(out))}
  \cup (IF ram /\ ramWriting THEN nsHalo("inputOn") \cup {Mark("wr", "filled", "inputOn", <<>>)}
        ELSE IF ram THEN {Mark("wr", "hollow", "labelMuted", <<>>)} ELSE {})

drawMemory(ram) == Tails \cup Dots \cup nsMemory(ram)

\* The wire a port is on, drawn beside the part.
drawWire(port, v) ==
  {Mark("wire", IF wireStyleOf(v) = "bus" THEN "heavy" ELSE "light", Ink[wireStyleOf(v)], <<port>>)}
  \cup (IF Signal(v) = 1 /\ wireStyleOf(v) # "bus" THEN {Mark("glow", "soft", "wireActive", <<port>>)} ELSE {})
  \cup (IF wireStyleOf(v) = "bus" THEN {Mark("slash", "text", "wireBus", <<port, Len(v)>>)} ELSE {})

drawFanOut(port, v) == {Mark("junction", "ring", Ink[wireStyleOf(v)], <<port>>)}

\* The chip of a bus; a memory has its word in its body. The text is the canvas's.
drawBusValue ==
  IF Part[part].out > 1 /\ Part[part].skin # "rom" THEN {Mark("badge", "filled", "wireBus", <<>>)} ELSE {}

\* A ring around a pin's own, or around any other part's box: nothing is painted over.
drawHighlight ==
  IF hovered THEN {Mark("ring", IF Part[part].skin \in {"input", "output"} THEN "round" ELSE "box", "inputHover", <<>>)}
  ELSE {}

skins ==
  CASE Part[part].skin = "input"      -> drawInputPin
    [] Part[part].skin = "output"     -> drawOutputPin
    [] Part[part].skin = "led"        -> drawLed
    [] Part[part].skin = "not"        -> nsGate(RECIPES.not)
    [] Part[part].skin = "subcircuit" -> drawSubcircuit
    [] Part[part].skin = "slice"      -> nsBitPart(nsSliceAsset)
    [] Part[part].skin = "concat"     -> nsBitPart(nsConcatAsset)
    [] OTHER                          -> drawMemory(Part[part].skin = "ram")

Frame == skins \cup drawBusValue \cup drawHighlight
         \cup UNION {drawWire(i, ins[i]) \cup drawFanOut(i, ins[i]) : i \in DOMAIN ins}
         \cup drawWire(0, out) \cup drawFanOut(0, out)

-----------------------------------------------------------------------------
(* Frames.                                                                 *)

Init ==
  /\ part \in DOMAIN Part
  /\ ins = [i \in DOMAIN Part[part].ins |-> <<>>]
  /\ out = [i \in 1..Part[part].out |-> 2]
  /\ theme \in {"dark", "light"} /\ decoded \in BOOLEAN
  /\ tints = {} /\ fits = {} /\ edge = <<2>> /\ clock = <<2>> /\ wrote = FALSE
  /\ marks = {} /\ hovered = FALSE /\ due = "start" /\ frames = 0

Sprited == part \in DOMAIN RECIPES /\ RECIPES[part].sprite # "none"

\* A frame: the marks, what it leaves in the caches, and the clock it saw.
Paint ==
  /\ due # "no" /\ due' = "no" /\ frames' = frames + 1
  /\ marks' = Frame
  /\ tints' = IF Sprited /\ decoded THEN tints \cup tintedSprite(RECIPES[part].sprite, symbolInk(Signal(out))) ELSE tints
  /\ fits'  = IF Sprited THEN fits \cup spriteBounds(RECIPES[part].sprite) ELSE fits
  /\ edge'  = IF part = "ram" THEN ins[4] ELSE edge
  /\ UNCHANGED <<part, ins, out, page, hovered, clock, wrote>>

Still(why) == due = "no" /\ due' = why /\ frames < MaxFrames /\ UNCHANGED <<part, caches, edge, marks, frames>>

\* The engine's rule for a ram, and the clock it keeps.
Rises(old, new) == Signal(old) = 0 /\ Signal(new) = 1
Engine(now) ==
  IF part = "ram"
  THEN /\ clock' = now[4]
       /\ wrote' = (Rises(clock, now[4]) /\ Signal(now[3]) = 1 /\ now[1] # <<>> /\ Defined(now[1]))
  ELSE UNCHANGED <<clock, wrote>>

\* A value at a port changes, and what the part makes of it with it.
Change ==
  /\ Still("change")
  /\ \E v \in Values(Part[part].out) :
       /\ out' = v
       /\ \/ /\ ins = <<>> /\ v # out /\ UNCHANGED ins
          \/ \E i \in DOMAIN ins : \E w \in Values(Part[part].ins[i]) :
               w # ins[i] /\ ins' = [ins EXCEPT ![i] = w]
  /\ Engine(ins')
  /\ UNCHANGED <<page, hovered>>

\* The pointer or the editor's cursor comes or goes: the same values again.
Redraw == Still("redraw") /\ hovered' = ~hovered /\ wrote' = FALSE /\ UNCHANGED <<ins, out, page, clock>>

SetTheme ==
  /\ Still("theme") /\ wrote' = FALSE
  /\ theme' = IF theme = "dark" THEN "light" ELSE "dark"
  /\ UNCHANGED <<ins, out, decoded, hovered, clock>>

\* loadAssets resolves, and the canvas is told to draw again.
onAssetsReady ==
  /\ Still("assets") /\ wrote' = FALSE
  /\ ~decoded /\ decoded' = TRUE
  /\ UNCHANGED <<ins, out, theme, hovered, clock>>

Stop == due = "no" /\ frames = MaxFrames /\ UNCHANGED vars

Next == Paint \/ Change \/ Redraw \/ SetTheme \/ onAssetsReady \/ Stop
Spec == Init /\ [][Next]_vars

-----------------------------------------------------------------------------
(* Properties.                                                             *)

\* Every value is of its kind, and the caches hold one art for a key.
TypeOK ==
  /\ part \in DOMAIN Part /\ out \in Values(Part[part].out)
  /\ \A i \in DOMAIN ins : ins[i] = <<>> \/ ins[i] \in Values(Part[part].ins[i])
  /\ theme \in {"dark", "light"} /\ decoded \in BOOLEAN /\ hovered \in BOOLEAN /\ due \in {"start", "no", "change", "redraw", "theme", "assets"} /\ wrote \in BOOLEAN
  /\ \A t, u \in tints : t.key = u.key => t = u
  /\ \A f, g \in fits : f.name = g.name => f = g
  /\ frames \in 0..MaxFrames + 1

Shown(what) == {m \in marks : m.what = what}

\* A pill and the text of a memory say the value that is there, or a question mark:
\* never a number of which a bit is not known (nsHex, drawInputPin).
TextTellsTheValue ==
  due = "no" =>
    /\ \A m \in Shown("pill") : m.says = IF part = "out" THEN <<Signal(ins[1])>> ELSE out
    /\ \A m \in Shown("word") : m.says = IF Defined(out) THEN out ELSE Question
    /\ \A m \in Shown("address") : m.says = IF ins[1] # <<>> /\ Defined(ins[1]) THEN ins[1] ELSE Question

\* A gate is painted in the palette of the theme the page has, in the ink of its
\* output, whatever was painted and kept before.
PaintedInTheTheme ==
  due = "no" => \A m \in Shown("palette") : m.form = theme /\ m.ink = symbolInk(Signal(out))

\* Once the art is decoded a gate is painted with it, fitted to the bounds measured
\* on it, and until then fitted to the triangle's.
FittedToWhatIsDrawn ==
  (due = "no" /\ Sprited) =>
    /\ (\E m \in Shown("symbol") : m.form = "sprite") <=> decoded
    /\ \A m \in Shown("fit") : m.form = IF decoded THEN "measured" ELSE "triangle"

\* The ruler marks the bits the slice takes, the highest on the left, as a tick or in
\* the bar: place i of a word of width w is bit w - 1 - i.
RulerShowsTheSlice ==
  (due = "no" /\ Slices) =>
    LET w == IF Width(ins[1]) > Slice.hi THEN Width(ins[1]) ELSE Slice.hi
        places == {w - 1 - b : b \in Slice.lo..Slice.hi - 1}
    IN /\ \A m \in Shown("tick") : (m.form # "muted") <=> m.says[1] \in places
       /\ \A m \in Shown("bar") : m.says[1]..m.says[1] + m.says[2] - 1 = places

\* The write mark of a ram is lit on the frame of the change on which the engine
\* wrote, and on no other: not on the first clock, nor on a redraw.
LitMeansWrote ==
  (due = "no" /\ part = "ram") => ((\E m \in Shown("wr") : m.form = "filled") <=> wrote)

\* What is drawn tells the values, in the theme the page has: text, art, ruler and write
\* mark are those of the last change, whatever was drawn and kept before.
MarksTellTheState ==
  /\ TypeOK /\ TextTellsTheValue /\ PaintedInTheTheme /\ FittedToWhatIsDrawn
  /\ RulerShowsTheSlice /\ LitMeansWrote
=============================================================================
