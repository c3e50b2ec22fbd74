--------------------------- MODULE FacesProofs ---------------------------
(***************************************************************************)
(* Proofs about the memory images.  For a rom of every size, RomWords      *)
(* implements SparseImage: the refinement mapping is Chosen, and the       *)
(* inductive invariant is that what is implied is a zero before the last   *)
(* word.  For any number of edits, ImageBinding finds every image its own  *)
(* memory.                                                                 *)
(***************************************************************************)
EXTENDS MCFaces, SequenceTheorems, WellFoundedInduction, TLAPS

Inv == TypeOK /\ ImpliedIsGap

-----------------------------------------------------------------------------
(* Helpers *)

\* A set of natural numbers that is not empty has a least one.
LEMMA LeastOf ==
  ASSUME NEW T \in SUBSET Nat, T # {}
  PROVE  \E m \in T : \A n \in T : m <= n
<1> DEFINE R == OpToRel(<, Nat)
<1>1. IsWellFoundedOn(R, Nat)
  BY NatLessThanWellFounded
<1> HIDE DEF R
<1>2. PICK m \in T : \A n \in T : <<n, m>> \notin R
  BY <1>1, WFMin
<1>3. \A n \in T : n < m => <<n, m>> \in R
  BY DEF R, OpToRel
<1>4. \A n \in T : ~(n < m)
  BY <1>2, <1>3
<1>5. m \in Nat /\ \A n \in T : n \in Nat
  OBVIOUS
<1> QED
  BY <1>4, <1>5

\* What ShortEnd chooses is there to be chosen: the words from it up to the address
\* are implied, the one before it is not.
LEMMA ShortEndFacts ==
  ASSUME NEW im, NEW addr \in Nat
  PROVE  /\ ShortEnd(im, addr) \in 0..addr
         /\ \A a \in ShortEnd(im, addr)..(addr - 1) : a \in im
         /\ ShortEnd(im, addr) > 0 => ShortEnd(im, addr) - 1 \notin im
<1> DEFINE T == {e \in 0..addr : \A a \in e..(addr - 1) : a \in im}
<1>1. T \in SUBSET Nat /\ addr \in T
  OBVIOUS
<1>2. PICK e \in T : \A n \in T : e <= n
  BY <1>1, LeastOf
<1>3. e > 0 => e - 1 \notin im
  <2> SUFFICES ASSUME e > 0, e - 1 \in im PROVE FALSE
    OBVIOUS
  <2>1. e - 1 \in 0..addr /\ \A a \in (e - 1)..(addr - 1) : a \in e..(addr - 1) \/ a = e - 1
    OBVIOUS
  <2>2. e - 1 \in T
    BY <2>1
  <2> QED
    BY <1>2, <2>2
<1>4. \E x \in 0..addr : (\A a \in x..(addr - 1) : a \in im) /\ (x > 0 => x - 1 \notin im)
  BY <1>2, <1>3
<1> QED
  BY <1>4 DEF ShortEnd

\* The image after a word is set, and after the last is taken off.
LEMMA SetFacts ==
  ASSUME TypeOK, NEW addr \in Addr, NEW value \in Word, Set(addr, value)
  PROVE  /\ Len(words) \in Nat /\ Len(words) <= Cap
         /\ words' \in Seq(Word)
         /\ Len(words') = IF addr < Len(words) THEN Len(words) ELSE addr + 1
         /\ \A a \in 0..(Len(words') - 1) :
              At(words', a) = IF a = addr THEN value ELSE IF a < Len(words) THEN At(words, a) ELSE 0
<1> DEFINE n == IF addr < Len(words) THEN Len(words) ELSE addr + 1
<1>1. Len(words) \in Nat /\ Len(words) <= Cap /\ \A k \in 1..Len(words) : words[k] \in Word
  BY DEF TypeOK
<1>2. addr \in Nat /\ n \in Nat /\ 0 \in Word
  BY <1>1, SizeAssumption DEF Addr, Word
<1>3. words' = [k \in 1..n |-> IF k = addr + 1 THEN value ELSE IF k <= Len(words) THEN words[k] ELSE 0]
  BY DEF Set
<1> HIDE DEF n
<1>4. words' \in [1..n -> Word]
  BY <1>1, <1>2, <1>3
<1>5. words' \in Seq(Word) /\ Len(words') = n
  BY <1>2, <1>4
<1>6. ASSUME NEW a \in 0..(n - 1)
      PROVE  At(words', a) = IF a = addr THEN value ELSE IF a < Len(words) THEN At(words, a) ELSE 0
  BY <1>1, <1>2, <1>3 DEF At
<1> QED
  BY <1>1, <1>5, <1>6 DEF n

\* What is left when the last word goes and takes the implied zeros before it along.
LEMMA ShortFacts ==
  ASSUME TypeOK, NEW addr \in Addr, addr = Len(words) - 1, Shortened(addr)
  PROVE  \E end \in 0..addr :
           /\ \A a \in end..(addr - 1) : a \in implied
           /\ end > 0 => end - 1 \notin implied
           /\ words' \in Seq(Word) /\ Len(words') = end
           /\ \A a \in 0..(end - 1) : At(words', a) = At(words, a)
           /\ implied' = {a \in implied : a < end}
<1> DEFINE end == ShortEnd(implied, addr)
<1>1. addr \in Nat /\ Len(words) \in Nat /\ addr < Len(words)
  BY DEF Addr, TypeOK
<1>2. /\ end \in 0..addr
      /\ \A a \in end..(addr - 1) : a \in implied
      /\ end > 0 => end - 1 \notin implied
  BY <1>1, ShortEndFacts
<1>3. words' = SubSeq(words, 1, end) /\ implied' = {a \in implied : a < end}
  BY DEF Shortened, trim
<1> HIDE DEF end
<1>4. words' \in Seq(Word) /\ Len(words') = end /\ \A k \in 1..end : words'[k] = words[k]
  BY <1>1, <1>2, <1>3 DEF TypeOK
<1>5. \A a \in 0..(end - 1) : At(words', a) = At(words, a)
  BY <1>2, <1>4 DEF At
<1> QED
  BY <1>2, <1>3, <1>4, <1>5

\* What is left when a word in the middle goes: an implied zero.
LEMMA ZeroFacts ==
  ASSUME TypeOK, NEW addr \in Addr, addr < Len(words), Zeroed(addr)
  PROVE  /\ words' \in Seq(Word) /\ Len(words') = Len(words) /\ Len(words) \in Nat
         /\ \A a \in 0..(Len(words) - 1) : At(words', a) = IF a = addr THEN 0 ELSE At(words, a)
         /\ implied' = implied \cup {addr}
<1>1. addr \in Nat /\ Len(words) \in Nat /\ addr + 1 \in 1..Len(words) /\ 0 \in Word
  BY SizeAssumption DEF Addr, Word, TypeOK
<1>2. /\ words' \in Seq(Word) /\ Len(words') = Len(words)
      /\ \A j \in 1..Len(words) : words'[j] = IF j = addr + 1 THEN 0 ELSE words[j]
  BY <1>1, ExceptSeq DEF TypeOK, Zeroed
<1>3. \A a \in 0..(Len(words) - 1) : At(words', a) = IF a = addr THEN 0 ELSE At(words, a)
  BY <1>1, <1>2 DEF At
<1> QED
  BY <1>1, <1>2, <1>3 DEF Zeroed

-----------------------------------------------------------------------------
(* The invariant *)

\* The parts of the invariant, after a step.
LEMMA InvNext ==
  ASSUME words' \in Seq(Word), Len(words') \in Nat, Len(words') <= Cap,
         \A a \in implied' : a \in 0..(Len(words') - 1) /\ At(words', a) = 0,
         Len(words') > 0 => Len(words') - 1 \notin implied'
  PROVE  Inv'
<1>1. implied' \subseteq 0..(Len(words') - 1)
  OBVIOUS
<1>2. TypeOK'
  BY <1>1 DEF TypeOK
<1>3. ImpliedIsGap'
  BY DEF ImpliedIsGap
<1> QED
  BY <1>2, <1>3 DEF Inv

\* The image fits its memory, and what is implied is a zero between words the reader
\* chose (editWord() and the panel's calls of it).
THEOREM RomWordsInvariant == Spec => []Inv
<1>1. Init => Inv
  BY SizeAssumption, EmptySeq DEF Init, Inv, TypeOK, ImpliedIsGap, Word
<1>2. Inv /\ [Next]_vars => Inv'
  <2> SUFFICES ASSUME Inv, [Next]_vars PROVE Inv'
    OBVIOUS
  <2> USE DEF Inv
  <2>0. Len(words) \in Nat /\ Cap \in Nat /\ \A a \in implied : a \in 0..(Len(words) - 1) /\ At(words, a) = 0
    BY SizeAssumption DEF TypeOK, ImpliedIsGap
  <2>1. ASSUME NEW addr \in Addr, NEW value \in Word, Set(addr, value) PROVE Inv'
    <3>1. /\ words' \in Seq(Word)
          /\ Len(words') = IF addr < Len(words) THEN Len(words) ELSE addr + 1
          /\ \A a \in 0..(Len(words') - 1) :
               At(words', a) = IF a = addr THEN value ELSE IF a < Len(words) THEN At(words, a) ELSE 0
      BY <2>1, SetFacts
    <3>2. addr \in Nat /\ addr < Cap
      BY <2>0 DEF Addr
    <3>3. implied' = (implied \cup (Len(words)..(addr - 1))) \ {addr}
      BY <2>1 DEF Set, Gap
    <3>4. Len(words') \in Nat /\ Len(words') <= Cap
      BY <2>0, <3>1, <3>2 DEF TypeOK
    <3>5. \A a \in implied' : a \in 0..(Len(words') - 1) /\ At(words', a) = 0
      BY <2>0, <3>1, <3>2, <3>3
    <3>6. Len(words') > 0 => Len(words') - 1 \notin implied'
      BY <2>0, <3>1, <3>2, <3>3 DEF ImpliedIsGap
    <3> QED
      BY <3>1, <3>4, <3>5, <3>6, InvNext
  <2>2. ASSUME NEW addr \in Addr, Unset(addr) PROVE Inv'
    <3>1. CASE addr >= Len(words) /\ UNCHANGED <<words, implied>>
      BY <3>1 DEF TypeOK, ImpliedIsGap
    <3>2. CASE addr = Len(words) - 1 /\ Shortened(addr)
      <4>1. PICK end \in 0..addr :
              /\ end > 0 => end - 1 \notin implied
              /\ words' \in Seq(Word) /\ Len(words') = end
              /\ \A a \in 0..(end - 1) : At(words', a) = At(words, a)
              /\ implied' = {a \in implied : a < end}
        BY <3>2, ShortFacts
      <4>2. addr \in Nat /\ addr < Cap
        BY <2>0 DEF Addr
      <4>3. \A a \in implied' : a \in 0..(Len(words') - 1) /\ At(words', a) = 0
        BY <2>0, <4>1, <4>2
      <4>4. Len(words') > 0 => Len(words') - 1 \notin implied'
        BY <4>1
      <4>5. Len(words') \in Nat /\ Len(words') <= Cap
        BY <2>0, <4>1, <4>2
      <4> QED
        BY <4>1, <4>3, <4>4, <4>5, InvNext
    <3>3. CASE addr < Len(words) - 1 /\ Zeroed(addr)
      <4>1. addr \in Nat /\ addr < Len(words)
        BY <2>0, <3>3 DEF Addr
      <4>2. /\ words' \in Seq(Word) /\ Len(words') = Len(words)
            /\ \A a \in 0..(Len(words) - 1) : At(words', a) = IF a = addr THEN 0 ELSE At(words, a)
            /\ implied' = implied \cup {addr}
        BY <3>3, <4>1, ZeroFacts
      <4>3. TypeOK' /\ ImpliedIsGap'
        BY <2>0, <3>3, <4>1, <4>2 DEF TypeOK, ImpliedIsGap
      <4> QED
        BY <4>3
    <3> QED
      BY <2>2, <3>1, <3>2, <3>3 DEF Unset
  <2>3. CASE setImage
    <3>1. PICK n \in 0..Cap : words' \in [1..n -> Word]
      BY <2>3 DEF setImage
    <3>2. words' \in Seq(Word) /\ Len(words') = n
      BY <2>0, <3>1
    <3> QED
      BY <2>0, <2>3, <3>2 DEF setImage, TypeOK, ImpliedIsGap
  <2>4. CASE clearMemory
    BY <2>0, <2>4, EmptySeq DEF clearMemory, TypeOK, ImpliedIsGap
  <2>5. CASE selectImages
    BY <2>5 DEF selectImages, TypeOK, ImpliedIsGap
  <2>6. CASE UNCHANGED vars
    BY <2>6 DEF vars, TypeOK, ImpliedIsGap, At
  <2> QED
    BY <2>1, <2>2, <2>3, <2>4, <2>5, <2>6 DEF Next
<1> QED
  BY <1>1, <1>2, PTL DEF Spec

-----------------------------------------------------------------------------
(* The refinement *)

\* Chosen as the reader of a proof wants it: its domain and its words.
LEMMA ChosenIs ==
  /\ DOMAIN Chosen = {a \in 0..(Len(words) - 1) : a \notin implied}
  /\ \A a \in DOMAIN Chosen : Chosen[a] = At(words, a)
  /\ Chosen = [a \in DOMAIN Chosen |-> Chosen[a]]
BY DEF Chosen

\* The words somebody chose, after a step.
LEMMA ChosenNext ==
  /\ DOMAIN Chosen' = {a \in 0..(Len(words') - 1) : a \notin implied'}
  /\ \A a \in DOMAIN Chosen' : Chosen'[a] = At(words', a)
  /\ Chosen' = [a \in DOMAIN Chosen' |-> Chosen'[a]]
BY DEF Chosen

\* A word set is one put into the sparse image.
LEMMA SetIsPut ==
  ASSUME Inv, NEW addr \in Addr, NEW value \in Word, Set(addr, value)
  PROVE  Sparse!Put(addr, value)
<1>1. /\ Len(words) \in Nat
      /\ Len(words') = IF addr < Len(words) THEN Len(words) ELSE addr + 1
      /\ \A a \in 0..(Len(words') - 1) :
           At(words', a) = IF a = addr THEN value ELSE IF a < Len(words) THEN At(words, a) ELSE 0
  BY SetFacts DEF Inv
<1>2. addr \in Nat /\ implied' = (implied \cup (Len(words)..(addr - 1))) \ {addr}
  BY DEF Set, Gap, Addr
<1>3. \A a \in implied : a \in 0..(Len(words) - 1)
  BY DEF Inv, TypeOK
<1>4. DOMAIN Chosen' = DOMAIN Chosen \cup {addr}
  BY <1>1, <1>2, <1>3, ChosenIs, ChosenNext
<1>5. \A b \in DOMAIN Chosen' : Chosen'[b] = IF b = addr THEN value ELSE Chosen[b]
  BY <1>1, <1>2, <1>4, ChosenIs, ChosenNext
<1>6. Chosen' = [b \in DOMAIN Chosen \cup {addr} |-> IF b = addr THEN value ELSE Chosen[b]]
  BY <1>4, <1>5, ChosenNext
<1> QED
  BY <1>6 DEF Sparse!Put, Set

\* A word unset is one erased from it.
LEMMA UnsetIsErase ==
  ASSUME Inv, NEW addr \in Addr, Unset(addr)
  PROVE  Sparse!Erase(addr)
<1>1. Len(words) \in Nat /\ addr \in Nat /\ TypeOK /\ \A a \in implied : a \in 0..(Len(words) - 1)
  BY DEF Inv, TypeOK, Addr
<1>2. /\ DOMAIN Chosen' = DOMAIN Chosen \ {addr}
      /\ \A b \in DOMAIN Chosen' : Chosen'[b] = Chosen[b]
  <2>1. CASE addr >= Len(words) /\ UNCHANGED <<words, implied>>
    <3>1. Chosen' = Chosen
      BY <2>1 DEF Chosen, At
    <3>2. addr \notin DOMAIN Chosen
      BY <1>1, <2>1, ChosenIs
    <3> QED
      BY <3>1, <3>2
  <2>2. CASE addr = Len(words) - 1 /\ Shortened(addr)
    <3>1. PICK end \in 0..addr :
            /\ \A a \in end..(addr - 1) : a \in implied
            /\ Len(words') = end
            /\ \A a \in 0..(end - 1) : At(words', a) = At(words, a)
            /\ implied' = {a \in implied : a < end}
      BY <1>1, <2>2, ShortFacts
    <3>2. DOMAIN Chosen' = DOMAIN Chosen \ {addr}
      BY <1>1, <2>2, <3>1, ChosenIs, ChosenNext
    <3> QED
      BY <1>1, <3>1, <3>2, ChosenIs, ChosenNext
  <2>3. CASE addr < Len(words) - 1 /\ Zeroed(addr)
    <3>1. /\ Len(words') = Len(words)
          /\ \A a \in 0..(Len(words) - 1) : At(words', a) = IF a = addr THEN 0 ELSE At(words, a)
          /\ implied' = implied \cup {addr}
      BY <1>1, <2>3, ZeroFacts
    <3>2. DOMAIN Chosen' = DOMAIN Chosen \ {addr}
      BY <1>1, <3>1, ChosenIs, ChosenNext
    <3> QED
      BY <1>1, <3>1, <3>2, ChosenIs, ChosenNext
  <2> QED
    BY <2>1, <2>2, <2>3 DEF Unset
<1>3. Chosen' = [b \in DOMAIN Chosen \ {addr} |-> Chosen[b]]
  BY <1>2, ChosenNext
<1> QED
  BY <1>3 DEF Sparse!Erase, Unset

\* A text is given: all of its words are chosen.
LEMMA PrefixIsReplace ==
  ASSUME NEW n \in 0..Cap, words' \in [1..n -> Word], implied' = {}, act' = "replace"
  PROVE  Sparse!Replace
<1>1. n \in Nat /\ Len(words') = n
  BY SizeAssumption
<1>2. DOMAIN Chosen' = 0..(n - 1)
  BY <1>1, ChosenNext
<1>3. \A a \in 0..(n - 1) : Chosen'[a] \in Word
  BY <1>1, <1>2, ChosenNext DEF At
<1>4. Chosen' \in [0..(n - 1) -> Word]
  BY <1>2, <1>3, ChosenNext
<1> QED
  BY <1>4 DEF Sparse!Replace, Sparse!Word, Word

\* selectImages() is a reload of the sparse image.
LEMMA SelectIsReload ==
  ASSUME Inv, selectImages
  PROVE  Sparse!Reload
<1> DEFINE n == Len(words)
<1>1. n \in 0..Cap /\ n \in Nat /\ words' = words /\ implied' = {}
  BY SizeAssumption DEF Inv, TypeOK, selectImages
<1>2. DOMAIN Chosen \subseteq 0..(n - 1) /\ (n > 0 => n - 1 \in DOMAIN Chosen)
  BY <1>1, ChosenIs DEF Inv, ImpliedIsGap
<1>3. DOMAIN Chosen' = 0..(n - 1)
  BY <1>1, ChosenNext
<1>4. \A b \in 0..(n - 1) : Chosen'[b] = IF b \in DOMAIN Chosen THEN Chosen[b] ELSE 0
  BY <1>1, <1>3, ChosenIs, ChosenNext DEF Inv, ImpliedIsGap
<1>5. Chosen' = [b \in 0..(n - 1) |-> IF b \in DOMAIN Chosen THEN Chosen[b] ELSE 0]
  BY <1>3, <1>4, ChosenNext
<1> QED
  BY <1>1, <1>2, <1>5 DEF Sparse!Reload, selectImages

\* EditsAreSparse: whatever is set, taken away, typed, loaded and reloaded, only what
\* the reader did to a word shows (editWord() and the panel's calls of it).
THEOREM RomWordsIsSparse == Spec => EditsAreSparse
<1>1. Init => Sparse!Init
  <2> SUFFICES ASSUME Init PROVE Sparse!Init
    OBVIOUS
  <2>1. Len(words) = 0 /\ act = "replace"
    BY EmptySeq DEF Init
  <2>2. DOMAIN Chosen = {}
    BY <2>1, ChosenIs
  <2>3. Chosen = [a \in {} |-> 0]
    BY <2>2, ChosenIs
  <2> QED
    BY <2>1, <2>3 DEF Sparse!Init
<1>2. Inv /\ [Next]_vars => [Sparse!Next]_(Sparse!vars)
  <2> SUFFICES ASSUME Inv, [Next]_vars PROVE [Sparse!Next]_(Sparse!vars)
    OBVIOUS
  <2>1. ASSUME NEW addr \in Addr, NEW value \in Word, Set(addr, value) PROVE Sparse!Next
    BY <2>1, SetIsPut DEF Sparse!Next, Sparse!Addr, Sparse!Word, Addr, Word
  <2>2. ASSUME NEW addr \in Addr, Unset(addr) PROVE Sparse!Next
    BY <2>2, UnsetIsErase DEF Sparse!Next, Sparse!Addr, Addr
  <2>3. CASE setImage
    BY <2>3, PrefixIsReplace DEF setImage, Sparse!Next
  <2>4. CASE clearMemory
    <3>1. 0 \in 0..Cap /\ words' \in [1..0 -> Word] /\ implied' = {} /\ act' = "replace"
      BY <2>4, SizeAssumption DEF clearMemory
    <3> QED
      BY <3>1, PrefixIsReplace DEF Sparse!Next
  <2>5. CASE selectImages
    BY <2>5, SelectIsReload DEF Sparse!Next
  <2>6. CASE UNCHANGED vars
    BY <2>6 DEF vars, Sparse!vars, Chosen, At
  <2> QED
    BY <2>1, <2>2, <2>3, <2>4, <2>5, <2>6 DEF Next
<1> QED
  BY <1>1, <1>2, RomWordsInvariant, PTL DEF Spec, EditsAreSparse, Sparse!Spec

-----------------------------------------------------------------------------
(* An image and the memory it is for *)

Holding == {Binding!Empty} \cup ({"m", "l"} \X Binding!Texts)

\* What a memory holds is of its own file, and a whole number of its words.
Rightly(k, what) ==
  what # Binding!Empty => /\ Binding!Exists(artifact, k)
                          /\ what[1] = Binding!FileOf(k)
                          /\ Binding!Valid(what[2], Binding!Shape(artifact, k))

\* What the type invariant says of the parts of the state.
LEMMA BindingTypes ==
  ASSUME Binding!TypeOK
  PROVE  /\ \A src \in {source, analysis, artifact} : src.m \in 0..2 /\ src.l \in 1..2
         /\ session.on \in BOOLEAN /\ session.rom \in 0..2
         /\ images.m \in Binding!Texts /\ images.l \in Binding!Texts
         /\ \A k \in Binding!Comp : held[k] \in Holding /\ images[Binding!FileOf(k)] \in Binding!Texts
BY DEF Binding!TypeOK, Binding!Sources, Binding!Comp, Binding!FileOf, Holding

\* What becomes of each memory when the images are applied, and why.
LEMMA OutcomesAreRight ==
  ASSUME Binding!TypeOK, NEW rom \in 0..2, NEW k \in Binding!Comp
  PROVE  LET out1 == Binding!Outcome(k, rom, artifact)
             given == images[Binding!FileOf(k)] IN
         /\ out1 = "kept" => given = "none" \/ (k = "m" /\ rom = 0)
         /\ out1 = "written" => Rightly(k, Binding!Written(k)) /\ Binding!Written(k) \in Holding
         /\ out1 = "written" /\ given # "clear" => Binding!Written(k) = <<Binding!FileOf(k), given>>
         /\ out1 \in {"kept", "error", "written"}
         /\ k = "m" /\ refused = {} /\ rom # 0 /\ rom = artifact.m /\ given # "none" /\ Binding!Valid(given, rom)
              => out1 = "written"
<1>1. artifact.m \in 0..2 /\ artifact.l \in 1..2 /\ images.m \in Binding!Texts /\ images.l \in Binding!Texts
  BY BindingTypes
<1>2. CASE k = "m"
  <2>1. /\ Binding!FileOf(k) = "m" /\ Binding!Shape(artifact, k) = artifact.m
        /\ Binding!Outcome(k, rom, artifact) = Binding!RomOutcome(rom, artifact)
    BY <1>2 DEF Binding!FileOf, Binding!Shape, Binding!Outcome
  <2>2. \/ Binding!RomOutcome(rom, artifact) = "kept" /\ (rom = 0 \/ images.m = "none")
        \/ /\ Binding!RomOutcome(rom, artifact) = "error"
           /\ ~Binding!Valid(images.m, rom) \/ artifact.m # rom \/ "m" \in refused
        \/ /\ Binding!RomOutcome(rom, artifact) = "written" /\ rom # 0 /\ images.m # "none"
           /\ Binding!Valid(images.m, rom) /\ artifact.m = rom
    BY DEF Binding!RomOutcome
  <2>3. /\ Binding!Written(k) = IF images.m = "clear" THEN Binding!Empty ELSE <<"m", images.m>>
        /\ images["m"] = images.m
    BY <2>1 DEF Binding!Written
  <2>4. <<"m", images.m>> \in Holding /\ Binding!Empty \in Holding
    BY <1>1 DEF Holding
  <2> QED
    BY <1>1, <1>2, <2>1, <2>2, <2>3, <2>4 DEF Rightly, Binding!Exists
<1>3. CASE k # "m"
  <2>1. /\ Binding!FileOf(k) = "l" /\ Binding!Shape(artifact, k) = artifact.l
        /\ Binding!Outcome(k, rom, artifact) = Binding!ImportOutcome(k, artifact)
    BY <1>3 DEF Binding!FileOf, Binding!Shape, Binding!Outcome
  <2>2. \/ Binding!ImportOutcome(k, artifact) = "kept" /\ images.l = "none"
        \/ Binding!ImportOutcome(k, artifact) = "error"
        \/ /\ Binding!ImportOutcome(k, artifact) = "written" /\ images.l # "none"
           /\ Binding!Valid(images.l, artifact.l)
    BY DEF Binding!ImportOutcome
  <2>3. /\ Binding!Written(k) = IF images.l = "clear" THEN Binding!Empty ELSE <<"l", images.l>>
        /\ images["l"] = images.l
    BY <2>1 DEF Binding!Written
  <2>4. <<"l", images.l>> \in Holding /\ Binding!Empty \in Holding
    BY <1>1 DEF Holding
  <2> QED
    BY <1>1, <1>3, <2>1, <2>2, <2>3, <2>4 DEF Rightly, Binding!Exists
<1> QED
  BY <1>2, <1>3

\* The images are applied, to the cells there are or to new ones.
LEMMA AppliedHolds ==
  ASSUME Binding!TypeOK, NEW rom \in 0..2, NEW old \in [Binding!Comp -> Holding],
         \A k \in Binding!Comp : Rightly(k, old[k]),
         refused \cap {"a", "b"} = {} => old["a"] = old["b"],
         Binding!applyPreloads(rom, artifact, old)
  PROVE  /\ held' \in [Binding!Comp -> Holding] /\ errors' \subseteq Binding!Comp
         /\ \A k \in Binding!Comp : Rightly(k, held'[k])
         /\ refused \cap {"a", "b"} = {} => held'["a"] = held'["b"]
         /\ \A k \in Binding!Comp :
              (IF k = "m" THEN rom # 0 ELSE TRUE) /\ images[Binding!FileOf(k)] \notin {"none", "clear"} =>
                held'[k] = <<Binding!FileOf(k), images[Binding!FileOf(k)]>> \/ k \in errors'
         /\ refused = {} /\ rom # 0 /\ rom = artifact.m /\ images.m \in {"one", "two"} /\ Binding!Valid(images.m, rom)
              => held'["m"] = <<"m", images.m>>
<1>1. /\ held' = [k \in Binding!Comp |->
                  IF Binding!Outcome(k, rom, artifact) = "written" THEN Binding!Written(k) ELSE old[k]]
      /\ errors' = {k \in Binding!Comp : Binding!Outcome(k, rom, artifact) = "error"}
  BY DEF Binding!applyPreloads
<1>2. \A k \in Binding!Comp :
        held'[k] = IF Binding!Outcome(k, rom, artifact) = "written" THEN Binding!Written(k) ELSE old[k]
  BY <1>1
<1>3. \A k \in Binding!Comp : held'[k] \in Holding /\ Rightly(k, held'[k])
  BY <1>2, OutcomesAreRight
<1>4. held' \in [Binding!Comp -> Holding] /\ errors' \subseteq Binding!Comp
  BY <1>1, <1>3
<1>5. refused \cap {"a", "b"} = {} => held'["a"] = held'["b"]
  <2> SUFFICES ASSUME refused \cap {"a", "b"} = {} PROVE held'["a"] = held'["b"]
    OBVIOUS
  <2>1. Binding!Outcome("a", rom, artifact) = Binding!Outcome("b", rom, artifact)
    BY DEF Binding!Outcome, Binding!ImportOutcome
  <2>2. Binding!Written("a") = Binding!Written("b")
    BY DEF Binding!Written, Binding!FileOf
  <2>3. "a" \in Binding!Comp /\ "b" \in Binding!Comp
    BY DEF Binding!Comp
  <2> QED
    BY <1>2, <2>1, <2>2, <2>3
<1>6. ASSUME NEW k \in Binding!Comp, IF k = "m" THEN rom # 0 ELSE TRUE,
             images[Binding!FileOf(k)] \notin {"none", "clear"}
      PROVE  held'[k] = <<Binding!FileOf(k), images[Binding!FileOf(k)]>> \/ k \in errors'
  BY <1>1, <1>2, <1>6, OutcomesAreRight
<1>7. ASSUME refused = {}, rom # 0, rom = artifact.m, images.m \in {"one", "two"}, Binding!Valid(images.m, rom)
      PROVE  held'["m"] = <<"m", images.m>>
  <2>1. "m" \in Binding!Comp /\ Binding!FileOf("m") = "m" /\ images["m"] = images.m
    BY DEF Binding!Comp, Binding!FileOf
  <2>2. Binding!Outcome("m", rom, artifact) = "written" /\ Binding!Written("m") = <<"m", images.m>>
    BY <1>7, <2>1, OutcomesAreRight
  <2> QED
    BY <1>2, <2>1, <2>2
<1> QED
  BY <1>3, <1>4, <1>5, <1>6, <1>7

\* What holds of the cells, in the words of the lemma above.
LEMMA HeldRightly ==
  ASSUME Binding!BindingInv
  PROVE  /\ Binding!TypeOK /\ held \in [Binding!Comp -> Holding]
         /\ \A k \in Binding!Comp : Rightly(k, held[k])
         /\ refused \cap {"a", "b"} = {} => held["a"] = held["b"]
BY DEF Binding!BindingInv, Binding!TypeOK, Binding!NeverTheWrongMemory, Binding!InstancesAlike, Holding, Rightly

\* The images are applied: to a session that begins, that is reset, or that is there.
LEMMA ApplyKeeps ==
  ASSUME Binding!BindingInv, NEW rom \in 0..2, NEW old \in [Binding!Comp -> Holding],
         \A k \in Binding!Comp : Rightly(k, old[k]),
         refused \cap {"a", "b"} = {} => old["a"] = old["b"],
         Binding!applyPreloads(rom, artifact, old),
         source' = source, analysis' = analysis, artifact' = artifact, images' = images, refused' = refused,
         session' = [on |-> TRUE, rom |-> rom]
  PROVE  Binding!BindingInv'
<1>1. Binding!TypeOK
  BY DEF Binding!BindingInv
<1>2. /\ held' \in [Binding!Comp -> Holding] /\ errors' \subseteq Binding!Comp
      /\ \A k \in Binding!Comp : Rightly(k, held'[k])
      /\ refused \cap {"a", "b"} = {} => held'["a"] = held'["b"]
      /\ \A k \in Binding!Comp :
           (IF k = "m" THEN rom # 0 ELSE TRUE) /\ images[Binding!FileOf(k)] \notin {"none", "clear"} =>
             held'[k] = <<Binding!FileOf(k), images[Binding!FileOf(k)]>> \/ k \in errors'
      /\ refused = {} /\ rom # 0 /\ rom = artifact.m /\ images.m \in {"one", "two"} /\ Binding!Valid(images.m, rom)
           => held'["m"] = <<"m", images.m>>
  BY <1>1, AppliedHolds
<1>3. session'.on = TRUE /\ session'.rom = rom /\ session' \in [on : BOOLEAN, rom : 0..2]
  OBVIOUS
<1>4. Binding!TypeOK'
  BY <1>1, <1>2, <1>3 DEF Binding!TypeOK, Holding
<1>5. Binding!NeverTheWrongMemory'
  BY <1>2, <1>3 DEF Binding!NeverTheWrongMemory, Rightly, Binding!Exists, Binding!Shape
<1>6. Binding!InstancesAlike'
  BY <1>2 DEF Binding!InstancesAlike
<1>7. Binding!NothingUnsaid'
  BY <1>2, <1>3 DEF Binding!NothingUnsaid
<1>8. Binding!AppliedIsHeld'
  BY <1>2, <1>3 DEF Binding!AppliedIsHeld
<1> QED
  BY <1>4, <1>5, <1>6, <1>7, <1>8 DEF Binding!BindingInv

\* Cells of a circuit that has not been loaded.
LEMMA UnwrittenHolds ==
  /\ Binding!Unwritten \in [Binding!Comp -> Holding]
  /\ \A k \in Binding!Comp : Binding!Unwritten[k] = Binding!Empty /\ Rightly(k, Binding!Unwritten[k])
  /\ Binding!Unwritten["a"] = Binding!Unwritten["b"]
BY DEF Binding!Unwritten, Rightly, Holding, Binding!Comp

\* Every step of the reader, the compiler and the session keeps what the memories hold right.
LEMMA BindingKeeps == Binding!BindingInv /\ Binding!Next => Binding!BindingInv'
<1> SUFFICES ASSUME Binding!BindingInv, Binding!Next PROVE Binding!BindingInv'
  OBVIOUS
<1>0. Binding!TypeOK
  BY DEF Binding!BindingInv
<1>1. CASE Binding!Apply
  <2>1. /\ source' = source /\ analysis' = analysis /\ artifact' = artifact /\ session' = session
        /\ images' = images /\ refused' = refused
    BY <1>1 DEF Binding!Apply
  <2>2. CASE session.on
    <3>1. Binding!applyPreloads(session.rom, artifact, held)
      BY <1>1, <2>2 DEF Binding!Apply
    <3>2. session.rom \in 0..2 /\ session = [on |-> TRUE, rom |-> session.rom]
      <4>1. session \in [on : BOOLEAN, rom : 0..2]
        BY <1>0 DEF Binding!TypeOK
      <4>2. session = [on |-> session.on, rom |-> session.rom] /\ session.on = TRUE
        BY <4>1, <2>2
      <4> QED
        BY <4>1, <4>2
    <3> QED
      BY <2>1, <3>1, <3>2, ApplyKeeps, HeldRightly
  <2>3. CASE ~session.on
    <3>1. held' = held /\ errors' = errors
      BY <1>1, <2>3 DEF Binding!Apply
    <3> QED
      BY <2>1, <2>3, <3>1 DEF Binding!BindingInv, Binding!TypeOK, Binding!NeverTheWrongMemory,
         Binding!InstancesAlike, Binding!NothingUnsaid, Binding!AppliedIsHeld
  <2> QED
    BY <2>2, <2>3
<1>2. ASSUME NEW src \in Binding!Sources, bind # "image", Binding!Edit(src) \/ Binding!Analyse
      PROVE  Binding!BindingInv'
  <2>1. /\ source' \in Binding!Sources /\ analysis' \in Binding!Sources /\ bind' \in {"edit", "analysed"}
        /\ artifact' = artifact /\ session' = session /\ images' = images /\ held' = held
        /\ refused' = refused /\ errors' = errors
    BY <1>0, <1>2 DEF Binding!Edit, Binding!Analyse, Binding!Counted, Binding!TypeOK
  <2>2. Binding!TypeOK'
    BY <1>0, <2>1 DEF Binding!TypeOK
  <2>3. Binding!AppliedIsHeld'
    BY <1>2, <2>1 DEF Binding!BindingInv, Binding!AppliedIsHeld
  <2>4. Binding!NeverTheWrongMemory' /\ Binding!InstancesAlike' /\ Binding!NothingUnsaid'
    BY <2>1 DEF Binding!BindingInv, Binding!NeverTheWrongMemory, Binding!InstancesAlike, Binding!NothingUnsaid,
       Binding!Exists, Binding!Shape
  <2> QED
    BY <2>2, <2>3, <2>4 DEF Binding!BindingInv
<1>3. CASE Binding!Build
  <2>1. /\ source' = source /\ analysis' = analysis /\ artifact' = source /\ session' = Binding!Absent
        /\ images' = images /\ held' = Binding!Unwritten /\ refused' = refused /\ errors' = {}
    BY <1>3 DEF Binding!Build
  <2>2. session' \in [on : BOOLEAN, rom : 0..2] /\ ~session'.on
    BY <2>1 DEF Binding!Absent
  <2>3. Binding!TypeOK'
    BY <1>0, <2>1, <2>2, UnwrittenHolds DEF Binding!TypeOK, Holding
  <2>4. Binding!NeverTheWrongMemory' /\ Binding!InstancesAlike'
    BY <2>1, UnwrittenHolds DEF Binding!NeverTheWrongMemory, Binding!InstancesAlike
  <2>5. Binding!NothingUnsaid' /\ Binding!AppliedIsHeld'
    BY <2>2 DEF Binding!NothingUnsaid, Binding!AppliedIsHeld
  <2> QED
    BY <2>3, <2>4, <2>5 DEF Binding!BindingInv
<1>4. CASE Binding!buildSession
  <2>1. analysis.m \in 0..2
    BY <1>0, BindingTypes
  <2>2. /\ session' = [on |-> TRUE, rom |-> analysis.m]
        /\ Binding!applyPreloads(analysis.m, artifact, Binding!Unwritten)
        /\ source' = source /\ analysis' = analysis /\ artifact' = artifact /\ images' = images /\ refused' = refused
    BY <1>4 DEF Binding!buildSession, Binding!romSymbols
  <2> QED
    BY <2>1, <2>2, ApplyKeeps, UnwrittenHolds
<1>5. CASE Binding!Reset
  <2>1. /\ session.on /\ session' = session /\ Binding!applyPreloads(session.rom, artifact, Binding!Unwritten)
        /\ source' = source /\ analysis' = analysis /\ artifact' = artifact /\ images' = images /\ refused' = refused
    BY <1>5 DEF Binding!Reset
  <2>2. session.rom \in 0..2 /\ session' = [on |-> TRUE, rom |-> session.rom]
    <3>1. session \in [on : BOOLEAN, rom : 0..2]
      BY <1>0 DEF Binding!TypeOK
    <3>2. session = [on |-> session.on, rom |-> session.rom] /\ session.on = TRUE
      BY <3>1, <2>1
    <3> QED
      BY <2>1, <3>1, <3>2
  <2> QED
    BY <2>1, <2>2, ApplyKeeps, UnwrittenHolds
<1>6. ASSUME NEW f \in {"m", "l"}, NEW t \in Binding!Texts \ {"none"}, Binding!SetImage(f, t)
      PROVE  Binding!BindingInv'
  <2>1. /\ source' = source /\ analysis' = analysis /\ artifact' = artifact /\ session' = session /\ held' = held
        /\ refused' = refused /\ errors' = errors /\ bind' = "image" /\ images' = [images EXCEPT ![f] = t]
    BY <1>6 DEF Binding!SetImage, Binding!Counted
  <2>2. images' \in [{"m", "l"} -> Binding!Texts]
    BY <1>0, <2>1 DEF Binding!TypeOK
  <2>3. Binding!TypeOK'
    BY <1>0, <2>1, <2>2 DEF Binding!TypeOK
  <2>4. Binding!NeverTheWrongMemory' /\ Binding!InstancesAlike'
    BY <2>1 DEF Binding!BindingInv, Binding!NeverTheWrongMemory, Binding!InstancesAlike, Binding!Exists, Binding!Shape
  <2>5. Binding!NothingUnsaid' /\ Binding!AppliedIsHeld'
    BY <2>1 DEF Binding!NothingUnsaid, Binding!AppliedIsHeld
  <2> QED
    BY <2>3, <2>4, <2>5 DEF Binding!BindingInv
<1>7. \/ Binding!Apply \/ Binding!Build \/ Binding!buildSession \/ Binding!Reset
      \/ bind # "image" /\ Binding!Analyse
      \/ bind # "image" /\ \E src \in Binding!Sources : Binding!Edit(src)
      \/ \E f \in {"m", "l"}, t \in Binding!Texts \ {"none"} : Binding!SetImage(f, t)
  BY DEF Binding!Next
<1>8. source \in Binding!Sources
  BY <1>0 DEF Binding!TypeOK
<1> QED
  BY <1>1, <1>2, <1>3, <1>4, <1>5, <1>6, <1>7, <1>8

\* A page begins with no session and no images.
LEMMA BindingStarts == Binding!Init => Binding!BindingInv
<1> SUFFICES ASSUME Binding!Init PROVE Binding!BindingInv
  OBVIOUS
<1>1. /\ source \in Binding!Sources /\ analysis = source /\ artifact = source /\ session = Binding!Absent
      /\ images = [f \in {"m", "l"} |-> "none"] /\ held = Binding!Unwritten /\ errors = {}
      /\ refused \in {{}, {"m"}, {"b"}}
  BY DEF Binding!Init
<1>2. session \in [on : BOOLEAN, rom : 0..2] /\ ~session.on
  BY <1>1 DEF Binding!Absent
<1>3. Binding!TypeOK
  <2>1. images \in [{"m", "l"} -> Binding!Texts]
    BY <1>1 DEF Binding!Texts
  <2>2. refused \subseteq Binding!Comp
    BY <1>1 DEF Binding!Comp
  <2> QED
    BY <1>1, <1>2, <2>1, <2>2, UnwrittenHolds DEF Binding!TypeOK, Holding
<1>4. Binding!NeverTheWrongMemory /\ Binding!InstancesAlike
  BY <1>1, UnwrittenHolds DEF Binding!NeverTheWrongMemory, Binding!InstancesAlike
<1> QED
  BY <1>2, <1>3, <1>4 DEF Binding!BindingInv, Binding!NothingUnsaid, Binding!AppliedIsHeld

\* A step of another component leaves the memories alone.
LEMMA BindingRests == Binding!BindingInv /\ UNCHANGED bindingVars => Binding!BindingInv'
<1> SUFFICES ASSUME Binding!BindingInv, UNCHANGED bindingVars PROVE Binding!BindingInv'
  OBVIOUS
<1>1. /\ source' = source /\ analysis' = analysis /\ artifact' = artifact /\ session' = session /\ images' = images
      /\ held' = held /\ refused' = refused /\ errors' = errors /\ bind' = bind
  BY DEF bindingVars
<1> QED
  BY <1>1 DEF Binding!BindingInv, Binding!TypeOK, Binding!NeverTheWrongMemory, Binding!InstancesAlike,
     Binding!NothingUnsaid, Binding!AppliedIsHeld, Binding!Exists, Binding!Shape

\* In a page whose run is about images, their invariant holds.
BindingHolds == component = "binding" => Binding!BindingInv

\* However rom-image.ts and source-images.ts apply the texts a reader gives while the
\* source, its analysis, the artifact and the session are each of another moment: no
\* memory holds a text of another file or of another shape, instances of a file hold the
\* same, what was not written has an error, and at rest the rom holds its text.
THEOREM MemoriesHold == SuiteSpec => []MemoriesHoldTheirImage
<1>1. SuiteInit => BindingHolds
  BY BindingStarts DEF SuiteInit, BindingHolds
<1>2. BindingHolds /\ [SuiteNext]_Vars => BindingHolds'
  BY BindingKeeps, BindingRests DEF BindingHolds, SuiteNext, Vars
<1>3. BindingHolds => MemoriesHoldTheirImage
  <2> SUFFICES ASSUME Binding!BindingInv PROVE Binding!MemoriesHoldTheirImage
    BY DEF BindingHolds, MemoriesHoldTheirImage
  <2>1. ASSUME session.rom = source.m PROVE Binding!Rederived
    <3> SUFFICES ASSUME Binding!AtRest, refused = {}, source.m # 0, images.m \in {"one", "two"},
                        Binding!Valid(images.m, source.m)
                 PROVE  held["m"] = <<"m", images.m>>
      BY DEF Binding!Rederived
    <3> QED
      BY <2>1 DEF Binding!BindingInv, Binding!AppliedIsHeld, Binding!AtRest
  <2> QED
    BY <2>1 DEF Binding!BindingInv, Binding!MemoriesHoldTheirImage, Binding!RestHoldsTheImage
<1> QED
  BY <1>1, <1>2, <1>3, PTL DEF SuiteSpec
=============================================================================
