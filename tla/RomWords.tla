------------------------------ MODULE RomWords ------------------------------
(***************************************************************************)
(* A rom's image edited one word at a time (scripts/rom-words.ts), and     *)
(* what the memory panel does with it. An image is a prefix of the memory: *)
(* it cannot say of a word in it that it is unknown, so the addresses that *)
(* hold a zero nobody chose are carried beside it. The image is its words  *)
(* here; RomShapes has the bytes.                                          *)
(***************************************************************************)
EXTENDS Naturals, Sequences

CONSTANTS
  Cap,      \* maxWords(): 2^A
  MaxWord   \* mask(): 2^W - 1

ASSUME SizeAssumption == Cap \in Nat /\ MaxWord \in Nat

VARIABLES
  words,    \* the words of romImages.get(name)
  implied,  \* romImplied.get(name)
  act       \* what was done last

vars == <<words, implied, act>>

Addr == 0..(Cap - 1)
Word == 0..MaxWord

\* The word at an address, where the image has one.
At(ws, a) == ws[a + 1]

\* Addresses past the end of the image go.
trim(im, length) == {a \in im : a < length}

\* The last word goes, and with it the gap that was only there to reach it.
ShortEnd(im, addr) ==
  CHOOSE e \in 0..addr : (\A a \in e..(addr - 1) : a \in im) /\ (e > 0 => e - 1 \notin im)

Shortened(addr) ==
  LET end == ShortEnd(implied, addr)
  IN /\ words' = SubSeq(words, 1, end)
     /\ implied' = trim(implied, end)

\* Mutant: the zero counts as the reader's.
ZeroedChosen(addr) == words' = [words EXCEPT ![addr + 1] = 0] /\ UNCHANGED implied

\* In the middle nothing can go: the word becomes a zero nobody chose.
Zeroed(addr) ==
  /\ words' = [words EXCEPT ![addr + 1] = 0]
  /\ implied' = implied \cup {addr}

\* editWord(), value === null.
Unset(addr) ==
  /\ act' = "unset"
  /\ \/ /\ addr >= Len(words) /\ UNCHANGED <<words, implied>>
     \/ /\ addr = Len(words) - 1 /\ Shortened(addr)
     \/ /\ addr < Len(words) - 1 /\ Zeroed(addr)

Gap(addr) == Len(words)..(addr - 1)

\* editWord() with a value; one past the end fills the gap up to it.
Set(addr, value) ==
  /\ act' = "set"
  /\ words' = [k \in 1..(IF addr < Len(words) THEN Len(words) ELSE addr + 1) |->
                 IF k = addr + 1 THEN value ELSE IF k <= Len(words) THEN words[k] ELSE 0]
  /\ implied' = (implied \cup Gap(addr)) \ {addr}

\* A text is typed or a file is loaded: nothing in it is implied.
setImage ==
  /\ act' = "replace"
  /\ \E n \in 0..Cap : words' \in [1..n -> Word]
  /\ implied' = {}

clearMemory == act' = "replace" /\ words' = <<>> /\ implied' = {}

\* The page is loaded again: the image is in the envelope, what was implied is not.
selectImages == act' = "reload" /\ implied' = {} /\ UNCHANGED words

Init == words = <<>> /\ implied = {} /\ act = "replace"

Next ==
  \/ \E addr \in Addr, value \in Word : Set(addr, value)
  \/ \E addr \in Addr : Unset(addr)
  \/ setImage \/ clearMemory \/ selectImages

Spec == Init /\ [][Next]_vars

-----------------------------------------------------------------------------

TypeOK ==
  /\ words \in Seq(Word) /\ Len(words) <= Cap
  /\ implied \subseteq 0..(Len(words) - 1)

\* "Addresses that hold a zero the reader never typed": zeros, and between
\* words the reader chose, so an image is never longer than it has to be.
ImpliedIsGap ==
  /\ \A a \in implied : At(words, a) = 0
  /\ Len(words) > 0 => Len(words) - 1 \notin implied

\* The words the reader chose.
Chosen == [a \in (0..(Len(words) - 1)) \ implied |-> At(words, a)]

Sparse == INSTANCE SparseImage WITH chosen <- Chosen

\* Editing word by word changes, of what the reader chose, only the word
\* edited: no filled gap and no shortening ever shows.
EditsAreSparse == Sparse!Spec
=============================================================================
