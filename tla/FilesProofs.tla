---------------------------- MODULE FilesProofs ----------------------------
(***************************************************************************)
(* Proofs about the files of a project, for any number of files, names,    *)
(* edits and batches: their text, their counts and their images stay with  *)
(* them.  What is written in steps (a text read line by line, a batch      *)
(* planned operation by operation, images moved rename by rename) is a     *)
(* fold, and each fold is proved to exist before it is reasoned about.     *)
(***************************************************************************)
EXTENDS MCProjectData, SequenceTheorems, FiniteSetTheorems, WellFoundedInduction, TLAPS

\* A set of natural numbers that is not empty has a least one.
LEMMA LeastOne ==
  ASSUME NEW T \in SUBSET Nat, T # {}
  PROVE  \E m \in T : \A n \in T : m <= n
<1> DEFINE R == OpToRel(<, Nat)
<1>1. IsWellFoundedOn(R, Nat)
  BY NatLessThanWellFounded, Zenon
<1> HIDE DEF R
<1>2. PICK m \in T : \A n \in T : <<n, m>> \notin R
  BY <1>1, WFMin
<1>3. \A n \in T : n < m => <<n, m>> \in R
  BY Zenon DEF R, OpToRel
<1>4. \A n \in T : ~(n < m)
  BY <1>2, <1>3
<1>5. m \in Nat /\ \A n \in T : n \in Nat
  OBVIOUS
<1> QED
  BY <1>4, <1>5

-----------------------------------------------------------------------------
(* Folds: one line of a text, one operation of a batch, one rename, one     *)
(* block after the other.                                                   *)

FirstFold(kind, b, xs) == IF kind = "joined" THEN xs[1] ELSE b
NextFold(kind, s, x) ==
  IF kind = "read" THEN Files!Taken(s, x)
  ELSE IF kind = "planned" THEN Files!Planned(s, x)
  ELSE IF kind = "renamed" THEN Files!Moved(s, x[1], x[2])
  ELSE s \o x
Folded(f, kind, a, n, b, xs) ==
  f = [i \in a..n |-> IF i = a THEN FirstFold(kind, b, xs) ELSE NextFold(kind, f[i - 1], xs[i])]

\* Every fold, however long, exists as a function: there is no least length without one.
LEMMA FoldExists ==
  ASSUME NEW kind, NEW a \in Nat, NEW b, NEW xs, NEW n \in Nat, a <= n
  PROVE  \E f : Folded(f, kind, a, n, b, xs)
<1> DEFINE T == {k \in Nat : a <= k /\ ~\E f : Folded(f, kind, a, k, b, xs)}
           base == FirstFold(kind, b, xs)
           step(s, i) == NextFold(kind, s, xs[i])
<1>1. SUFFICES ASSUME T # {} PROVE FALSE
  OBVIOUS
<1>2. PICK m \in T : \A k \in T : m <= k
  BY <1>1, LeastOne
<1>3. m \in Nat /\ a <= m /\ ~\E f : Folded(f, kind, a, m, b, xs)
  BY <1>2
<1>4. \A f, k : Folded(f, kind, a, k, b, xs) <=>
           f = [i \in a..k |-> IF i = a THEN base ELSE step(f[i - 1], i)]
  BY DEF Folded
<1> HIDE DEF base, step
<1>5. CASE m = a
  <2> DEFINE f == [i \in a..a |-> base]
             h == [i \in a..a |-> IF i = a THEN base ELSE step(f[i - 1], i)]
  <2>1. \A i \in a..a : i = a
    OBVIOUS
  <2>2. \A i \in a..a : f[i] = h[i]
    BY <2>1
  <2>3. f = h
    <3> HIDE DEF h
    <3>1. f = [i \in a..a |-> f[i]] /\ h = [i \in a..a |-> h[i]]
      BY DEF h
    <3> HIDE DEF f
    <3> QED
      BY <2>2, <3>1
  <2> HIDE DEF f
  <2> QED
    BY <1>3, <1>4, <1>5, <2>3
<1>6. CASE m # a
  <2>1. m - 1 \in Nat /\ ~(m <= m - 1) /\ a <= m - 1
    BY <1>3, <1>6
  <2>2. m - 1 \notin T
    BY <1>2, <2>1
  <2> DEFINE k == m - 1
  <2>3. PICK g : g = [i \in a..k |-> IF i = a THEN base ELSE step(g[i - 1], i)]
    BY <1>4, <2>1, <2>2
  <2> DEFINE f == [i \in a..m |-> IF i <= k THEN g[i] ELSE step(g[k], i)]
             h == [i \in a..m |-> IF i = a THEN base ELSE step(f[i - 1], i)]
  <2>4. ASSUME NEW i \in a..m PROVE f[i] = h[i]
    <3>1. CASE i = a
      <4>1. i <= k /\ i \in a..k
        BY <1>3, <2>1, <3>1
      <4>2. f[i] = g[i] /\ g[i] = base /\ h[i] = base
        BY <2>3, <3>1, <4>1
      <4> QED
        BY <4>2
    <3>2. CASE i # a /\ i <= k
      <4>1. i \in a..k /\ i - 1 \in a..m /\ i - 1 <= k
        BY <1>3, <2>1, <3>2
      <4>2. f[i] = g[i] /\ f[i - 1] = g[i - 1]
            /\ g[i] = step(g[i - 1], i) /\ h[i] = step(f[i - 1], i)
        BY <2>3, <3>2, <4>1
      <4> QED
        BY <4>2
    <3>3. CASE ~(i <= k)
      <4>1. i # a /\ i - 1 = k /\ k \in a..m /\ k <= k
        BY <1>3, <2>1, <3>3
      <4>2. f[i] = step(g[k], i) /\ f[k] = g[k] /\ h[i] = step(f[i - 1], i)
        BY <3>3, <4>1
      <4> QED
        BY <4>1, <4>2
    <3> QED
      BY <3>1, <3>2, <3>3
  <2>5. f = h
    <3> HIDE DEF h
    <3>1. f = [i \in a..m |-> f[i]] /\ h = [i \in a..m |-> h[i]]
      BY DEF h
    <3> HIDE DEF f
    <3> QED
      BY <2>4, <3>1
  <2> HIDE DEF f
  <2> QED
    BY <1>3, <1>4, <2>5
<1> QED
  BY <1>5, <1>6

\* The files after each line of a text.
ReadFold(f, text) ==
  f = [k \in 0..Len(text) |-> IF k = 0 THEN <<>> ELSE Files!Taken(f[k - 1], text[k])]
ReadSteps(text) == CHOOSE f : ReadFold(f, text)

\* Reading a text is taking its lines one after the other.
LEMMA ReadIs ==
  ASSUME NEW text, Len(text) \in Nat
  PROVE  /\ Files!Read(text) = ReadSteps(text)[Len(text)] /\ ReadSteps(text)[0] = <<>>
         /\ \A k \in 1..Len(text) : ReadSteps(text)[k] = Files!Taken(ReadSteps(text)[k - 1], text[k])
<1>1. \E f : Folded(f, "read", 0, Len(text), <<>>, text)
  <2>1. 0 \in Nat /\ Len(text) \in Nat /\ 0 <= Len(text)
    OBVIOUS
  <2> QED
    BY <2>1, FoldExists
<1>2. \A f : Folded(f, "read", 0, Len(text), <<>>, text) <=> ReadFold(f, text)
  BY DEF Folded, FirstFold, NextFold, ReadFold
<1> DEFINE g == CHOOSE f : ReadFold(f, text)
<1>3. ReadFold(g, text)
  BY <1>1, <1>2
<1>4. Files!Read(text) = g[Len(text)]
  BY DEF Files!Read, ReadFold
<1> HIDE DEF g
<1>5. 0 \in 0..Len(text) /\ \A k \in 1..Len(text) : k \in 0..Len(text) /\ k # 0
  OBVIOUS
<1>6. g[0] = <<>> /\ \A k \in 1..Len(text) : g[k] = Files!Taken(g[k - 1], text[k])
  BY <1>3, <1>5 DEF ReadFold
<1>7. ReadSteps(text) = g
  BY DEF ReadSteps, g
<1> QED
  BY <1>4, <1>6, <1>7

\* A plan after each operation of a batch.
Start(fs, n) ==
  [ok |-> TRUE, files |-> fs, active |-> Files!IndexOf(fs, n), renamed |-> <<>>,
   deleted |-> {}, destructive |-> FALSE, ids |-> ids, reused |-> FALSE]
PlanFold(f, fs, n, ops) ==
  f = [k \in 0..Len(ops) |-> IF k = 0 THEN Start(fs, n) ELSE Files!Planned(f[k - 1], ops[k])]
PlanSteps(fs, n, ops) == CHOOSE f : PlanFold(f, fs, n, ops)

\* Planning a batch is planning its operations one after the other.
LEMMA PlanIs ==
  ASSUME NEW fs, NEW n, NEW ops, Len(ops) \in Nat
  PROVE  /\ Files!planMutations(fs, n, ops) = PlanSteps(fs, n, ops)[Len(ops)] /\ PlanSteps(fs, n, ops)[0] = Start(fs, n)
         /\ \A k \in 1..Len(ops) : PlanSteps(fs, n, ops)[k] = Files!Planned(PlanSteps(fs, n, ops)[k - 1], ops[k])
<1>1. \E f : Folded(f, "planned", 0, Len(ops), Start(fs, n), ops)
  <2>1. 0 \in Nat /\ Len(ops) \in Nat /\ 0 <= Len(ops)
    OBVIOUS
  <2> QED
    BY <2>1, FoldExists
<1>2. \A f : Folded(f, "planned", 0, Len(ops), Start(fs, n), ops) <=> PlanFold(f, fs, n, ops)
  BY DEF Folded, FirstFold, NextFold, PlanFold
<1> DEFINE g == CHOOSE f : PlanFold(f, fs, n, ops)
<1>3. PlanFold(g, fs, n, ops)
  BY <1>1, <1>2
<1>4. Files!planMutations(fs, n, ops) = g[Len(ops)]
  BY DEF Files!planMutations, PlanFold, Start
<1> HIDE DEF g
<1>5. 0 \in 0..Len(ops) /\ \A k \in 1..Len(ops) : k \in 0..Len(ops) /\ k # 0
  OBVIOUS
<1>6. g[0] = Start(fs, n) /\ \A k \in 1..Len(ops) : g[k] = Files!Planned(g[k - 1], ops[k])
  BY <1>3, <1>5 DEF PlanFold
<1>7. PlanSteps(fs, n, ops) = g
  BY DEF PlanSteps, g
<1> QED
  BY <1>4, <1>6, <1>7

\* The images after each rename.
RenamedFold(f, im, rs) ==
  f = [k \in 0..Len(rs) |-> IF k = 0 THEN im ELSE Files!Moved(f[k - 1], rs[k][1], rs[k][2])]
RenamedSteps(im, rs) == CHOOSE f : RenamedFold(f, im, rs)

\* The renames of a batch move the images one after the other.
LEMMA RenamedIs ==
  ASSUME NEW im, NEW rs, Len(rs) \in Nat
  PROVE  /\ Files!RenamedAll(im, rs) = RenamedSteps(im, rs)[Len(rs)] /\ RenamedSteps(im, rs)[0] = im
         /\ \A k \in 1..Len(rs) : RenamedSteps(im, rs)[k] = Files!Moved(RenamedSteps(im, rs)[k - 1], rs[k][1], rs[k][2])
<1>1. \E f : Folded(f, "renamed", 0, Len(rs), im, rs)
  <2>1. 0 \in Nat /\ Len(rs) \in Nat /\ 0 <= Len(rs)
    OBVIOUS
  <2> QED
    BY <2>1, FoldExists
<1>2. \A f : Folded(f, "renamed", 0, Len(rs), im, rs) <=> RenamedFold(f, im, rs)
  BY DEF Folded, FirstFold, NextFold, RenamedFold
<1> DEFINE g == CHOOSE f : RenamedFold(f, im, rs)
<1>3. RenamedFold(g, im, rs)
  BY <1>1, <1>2
<1>4. Files!RenamedAll(im, rs) = g[Len(rs)]
  BY DEF Files!RenamedAll, RenamedFold
<1> HIDE DEF g
<1>5. 0 \in 0..Len(rs) /\ \A k \in 1..Len(rs) : k \in 0..Len(rs) /\ k # 0
  OBVIOUS
<1>6. g[0] = im /\ \A k \in 1..Len(rs) : g[k] = Files!Moved(g[k - 1], rs[k][1], rs[k][2])
  BY <1>3, <1>5 DEF RenamedFold
<1>7. RenamedSteps(im, rs) = g
  BY DEF RenamedSteps, g
<1> QED
  BY <1>4, <1>6, <1>7

\* The text after each block.
JoinedFold(f, blocks) ==
  f = [k \in 1..Len(blocks) |-> IF k = 1 THEN blocks[1] ELSE f[k - 1] \o blocks[k]]
JoinedSteps(blocks) == CHOOSE f : JoinedFold(f, blocks)

\* Blocks are joined one after the other.
LEMMA JoinedIs ==
  ASSUME NEW blocks, Len(blocks) \in Nat \ {0}
  PROVE  /\ Files!FlattenSeq(blocks) = JoinedSteps(blocks)[Len(blocks)] /\ JoinedSteps(blocks)[1] = blocks[1]
         /\ \A k \in 2..Len(blocks) : JoinedSteps(blocks)[k] = JoinedSteps(blocks)[k - 1] \o blocks[k]
<1>1. \E f : Folded(f, "joined", 1, Len(blocks), <<>>, blocks)
  <2>1. 1 \in Nat /\ Len(blocks) \in Nat /\ 1 <= Len(blocks)
    OBVIOUS
  <2> QED
    BY <2>1, FoldExists
<1>2. \A f : Folded(f, "joined", 1, Len(blocks), <<>>, blocks) <=> JoinedFold(f, blocks)
  BY DEF Folded, FirstFold, NextFold, JoinedFold
<1> DEFINE g == CHOOSE f : JoinedFold(f, blocks)
<1>3. JoinedFold(g, blocks)
  BY <1>1, <1>2
<1>4. Files!FlattenSeq(blocks) = g[Len(blocks)]
  BY DEF Files!FlattenSeq, JoinedFold
<1> HIDE DEF g
<1>5. 1 \in 1..Len(blocks) /\ \A k \in 2..Len(blocks) : k \in 1..Len(blocks) /\ k # 1
  OBVIOUS
<1>6. g[1] = blocks[1] /\ \A k \in 2..Len(blocks) : g[k] = g[k - 1] \o blocks[k]
  BY <1>3, <1>5 DEF JoinedFold
<1>7. JoinedSteps(blocks) = g
  BY DEF JoinedSteps, g
<1> QED
  BY <1>4, <1>6, <1>7

\* Two folds of the same things from the same base are the same.
FoldsOf(kind, f, xs, n) == \A k \in 1..n : f[k] = NextFold(kind, f[k - 1], xs[k])
SameThings(xs, ys, n) == \A k \in 1..n : xs[k] = ys[k]

\* Folds of the same things have the same result, however much follows.
LEMMA FoldSame ==
  ASSUME NEW kind, NEW f, NEW g, NEW xs, NEW ys, NEW n \in Nat, f[0] = g[0],
         SameThings(xs, ys, n), FoldsOf(kind, f, xs, n), FoldsOf(kind, g, ys, n)
  PROVE  f[n] = g[n]
<1> DEFINE T == {k \in 0..n : f[k] # g[k]}
<1>1. SUFFICES ASSUME T # {} PROVE FALSE
  BY n \in 0..n
<1>2. T \in SUBSET Nat
  OBVIOUS
<1>3. PICK m \in T : \A k \in T : m <= k
  BY <1>1, <1>2, LeastOne
<1>4. m \in 0..n /\ f[m] # g[m] /\ m # 0
  BY <1>3
<1>5. m \in 1..n /\ m - 1 \in 0..n /\ ~(m <= m - 1)
  BY <1>4
<1>6. f[m - 1] = g[m - 1]
  BY <1>3, <1>5
<1>7. f[m] = NextFold(kind, f[m - 1], xs[m]) /\ g[m] = NextFold(kind, g[m - 1], xs[m])
  BY <1>5 DEF FoldsOf, SameThings
<1> QED
  BY <1>4, <1>6, <1>7

\* A list with one more at its end.
LEMMA OneMore ==
  ASSUME NEW S, NEW s \in Seq(S), NEW x \in S
  PROVE  /\ Append(s, x) \in Seq(S) /\ Len(s) \in Nat /\ Len(Append(s, x)) = Len(s) + 1
         /\ Append(s, x)[Len(s) + 1] = x /\ \A k \in 1..Len(s) : Append(s, x)[k] = s[k]
  OBVIOUS

\* A line more is read behind what there was.
LEMMA ReadAppend ==
  ASSUME NEW S, NEW s \in Seq(S), NEW x \in S
  PROVE  Files!Read(Append(s, x)) = Files!Taken(Files!Read(s), x)
<1> DEFINE t == Append(s, x)
           n == Len(s)
           f == ReadSteps(s)
           g == ReadSteps(t)
<1>1. t \in Seq(S) /\ n \in Nat /\ Len(t) = n + 1 /\ t[n + 1] = x /\ \A k \in 1..n : t[k] = s[k]
  BY OneMore
<1> HIDE DEF t
<1>2. Files!Read(s) = f[n] /\ f[0] = <<>> /\ \A k \in 1..n : f[k] = Files!Taken(f[k - 1], s[k])
  BY <1>1, ReadIs DEF n
<1>3. /\ Files!Read(t) = g[n + 1] /\ g[0] = <<>>
      /\ \A k \in 1..(n + 1) : g[k] = Files!Taken(g[k - 1], t[k])
  <2>1. Len(t) \in Nat
    BY <1>1
  <2> QED
    BY <1>1, <2>1, ReadIs
<1> HIDE DEF f, g, n
<1>4. f[n] = g[n]
  <2>1. \A k \in 1..n : k \in 1..(n + 1)
    BY <1>1
  <2>0. n \in Nat
    BY <1>1
  <2>3. f[0] = g[0]
    BY <1>2, <1>3
  <2>2. SameThings(s, t, n)
    BY <1>1 DEF SameThings
  <2>4. FoldsOf("read", f, s, n)
    BY <1>2 DEF FoldsOf, NextFold
  <2>5. FoldsOf("read", g, t, n)
    BY <1>3, <2>1 DEF FoldsOf, NextFold
  <2> QED
    BY <2>0, <2>2, <2>3, <2>4, <2>5, FoldSame
<1>5. n + 1 \in 1..(n + 1) /\ (n + 1) - 1 = n
  BY <1>1
<1>6. g[n + 1] = Files!Taken(g[(n + 1) - 1], t[n + 1])
  BY <1>3, <1>5
<1> QED
  BY <1>1, <1>2, <1>3, <1>4, <1>5, <1>6 DEF t

\* A text of no line has no file.
LEMMA ReadNone == Files!Read(<<>>) = <<>>
<1>1. Len(<<>>) = 0 /\ Len(<<>>) \in Nat
  OBVIOUS
<1>2. Files!Read(<<>>) = ReadSteps(<<>>)[Len(<<>>)] /\ ReadSteps(<<>>)[0] = <<>>
  BY <1>1, ReadIs
<1> QED
  BY <1>1, <1>2

\* And a rename more moves what was moved.
LEMMA RenamedAppend ==
  ASSUME NEW S, NEW im, NEW rs \in Seq(S), NEW r \in S
  PROVE  Files!RenamedAll(im, Append(rs, r)) = Files!Moved(Files!RenamedAll(im, rs), r[1], r[2])
<1> DEFINE t == Append(rs, r)
           n == Len(rs)
           f == RenamedSteps(im, rs)
           g == RenamedSteps(im, t)
<1>1. t \in Seq(S) /\ n \in Nat /\ Len(t) = n + 1 /\ t[n + 1] = r /\ \A k \in 1..n : t[k] = rs[k]
  BY OneMore
<1> HIDE DEF t
<1>2. Files!RenamedAll(im, rs) = f[n] /\ f[0] = im
      /\ \A k \in 1..n : f[k] = Files!Moved(f[k - 1], rs[k][1], rs[k][2])
  BY <1>1, RenamedIs DEF n
<1>3. /\ Files!RenamedAll(im, t) = g[n + 1] /\ g[0] = im
      /\ \A k \in 1..(n + 1) : g[k] = Files!Moved(g[k - 1], t[k][1], t[k][2])
  <2>1. Len(t) \in Nat
    BY <1>1
  <2> QED
    BY <1>1, <2>1, RenamedIs
<1> HIDE DEF f, g, n
<1>4. f[n] = g[n]
  <2>1. \A k \in 1..n : k \in 1..(n + 1)
    BY <1>1
  <2>0. n \in Nat
    BY <1>1
  <2>3. f[0] = g[0]
    BY <1>2, <1>3
  <2>2. SameThings(rs, t, n)
    BY <1>1 DEF SameThings
  <2>4. FoldsOf("renamed", f, rs, n)
    BY <1>2 DEF FoldsOf, NextFold
  <2>5. FoldsOf("renamed", g, t, n)
    BY <1>3, <2>1 DEF FoldsOf, NextFold
  <2> QED
    BY <2>0, <2>2, <2>3, <2>4, <2>5, FoldSame
<1>5. n + 1 \in 1..(n + 1) /\ (n + 1) - 1 = n
  BY <1>1
<1>6. g[n + 1] = Files!Moved(g[(n + 1) - 1], t[n + 1][1], t[n + 1][2])
  BY <1>3, <1>5
<1> QED
  BY <1>1, <1>2, <1>3, <1>4, <1>5, <1>6 DEF t

\* No rename moves no image.
LEMMA RenamedNone == \A im : Files!RenamedAll(im, <<>>) = im
<1> TAKE im
<1>1. Len(<<>>) = 0 /\ Len(<<>>) \in Nat
  OBVIOUS
<1>2. Files!RenamedAll(im, <<>>) = RenamedSteps(im, <<>>)[Len(<<>>)] /\ RenamedSteps(im, <<>>)[0] = im
  BY <1>1, RenamedIs
<1> QED
  BY <1>1, <1>2

-----------------------------------------------------------------------------
(* The text of a project and its files.                                     *)

\* The kinds of lines are told apart.
LEMMA LineKinds ==
  /\ \A n \in Names : /\ Files!Marker(n) \in Files!Lines /\ Files!IsMarker(Files!Marker(n))
                      /\ Files!Marker(n)[2] = n /\ Files!Marker(n) # Files!Blank
  /\ \A x \in Files!Lines : Files!IsMarker(x) => x[2] \in Names /\ x = Files!Marker(x[2]) /\ x # Files!Blank
  /\ Files!Blank \in Files!Lines /\ ~Files!IsMarker(Files!Blank)
BY DEF Files!Lines, Files!Marker, Files!IsMarker, Files!Blank, Files!Code

Plain == [name : Names, body : Seq(Files!Lines)]

\* A marker with only blank lines before it is a line of the body.
NoLateMarker(b) == \A k \in 1..Len(b) : Files!IsMarker(b[k]) => \A j \in 1..(k - 1) : b[j] = Files!Blank

\* The files so far: all but the last one have content.
RawFiles(fs) ==
  /\ fs \in Seq(Plain) /\ \A i \in 1..Len(fs) : NoLateMarker(fs[i].body)
  /\ \A i \in 1..Len(fs) : i < Len(fs) => Files!HasContent(fs[i].body)

\* A body has content when one of its lines is not blank.
LEMMA ContentIs ==
  ASSUME NEW S, NEW b \in Seq(S)
  PROVE  Files!HasContent(b) <=> \E k \in 1..Len(b) : b[k] # Files!Blank
<1>1. DOMAIN b = 1..Len(b)
  OBVIOUS
<1> QED
  BY <1>1 DEF Files!HasContent

\* So has the part of a body before a line.
LEMMA FrontContent ==
  ASSUME NEW S, NEW b \in Seq(S), NEW k \in 1..Len(b)
  PROVE  Files!HasContent(SubSeq(b, 1, k - 1)) <=> \E j \in 1..(k - 1) : b[j] # Files!Blank
<1> DEFINE u == SubSeq(b, 1, k - 1)
<1>1. u \in Seq(S) /\ Len(u) = k - 1 /\ \A j \in 1..(k - 1) : u[j] = b[j]
  OBVIOUS
<1> HIDE DEF u
<1>2. Files!HasContent(u) <=> \E j \in 1..Len(u) : u[j] # Files!Blank
  BY <1>1, ContentIs
<1> QED
  BY <1>1, <1>2 DEF u

\* A line more in a body.
LEMMA BodyMore ==
  ASSUME NEW b \in Seq(Files!Lines), NEW x \in Files!Lines, NoLateMarker(b),
         Files!IsMarker(x) => ~Files!HasContent(b)
  PROVE  Append(b, x) \in Seq(Files!Lines) /\ NoLateMarker(Append(b, x))
<1> DEFINE c == Append(b, x)
<1>1. c \in Seq(Files!Lines) /\ Len(b) \in Nat /\ Len(c) = Len(b) + 1 /\ c[Len(b) + 1] = x
      /\ \A k \in 1..Len(b) : c[k] = b[k]
  BY OneMore
<1> HIDE DEF c
<1>2. Files!IsMarker(x) => \A k \in 1..Len(b) : b[k] = Files!Blank
  BY ContentIs
<1>3. ASSUME NEW k \in 1..Len(c), Files!IsMarker(c[k]), NEW j \in 1..(k - 1) PROVE c[j] = Files!Blank
  <2>1. j \in 1..Len(b) /\ c[j] = b[j]
    BY <1>1, <1>3
  <2>2. CASE k = Len(b) + 1
    BY <1>1, <1>2, <1>3, <2>1, <2>2
  <2>3. CASE k # Len(b) + 1
    <3>1. k \in 1..Len(b) /\ c[k] = b[k]
      BY <1>1, <2>3
    <3> QED
      BY <1>3, <2>1, <3>1 DEF NoLateMarker
  <2> QED
    BY <2>2, <2>3
<1> QED
  BY <1>1, <1>3 DEF NoLateMarker, c

\* A body of no line, which a marker leaves behind.
LEMMA EmptyBody == <<>> \in Seq(Files!Lines) /\ NoLateMarker(<<>>) /\ ~Files!HasContent(<<>>)
<1>1. <<>> \in Seq(Files!Lines) /\ Len(<<>>) = 0
  OBVIOUS
<1>2. 1..Len(<<>>) = {}
  BY <1>1
<1>3. NoLateMarker(<<>>)
  BY <1>2 DEF NoLateMarker
<1> QED
  BY <1>1, <1>2, <1>3, ContentIs

\* A line more of a text, read.
LEMMA TakenIs ==
  ASSUME NEW fs, RawFiles(fs), NEW x \in Files!Lines
  PROVE  RawFiles(Files!Taken(fs, x)) /\ Files!Taken(fs, x) # <<>>
<1> DEFINE n == Len(fs)
           t == Files!Taken(fs, x)
<1>1. fs \in Seq(Plain) /\ n \in Nat /\ \A i \in 1..n : /\ fs[i] \in Plain /\ fs[i].body \in Seq(Files!Lines)
                                                        /\ NoLateMarker(fs[i].body)
                                                        /\ i < n => Files!HasContent(fs[i].body)
  <2>1. fs \in Seq(Plain) /\ n \in Nat
    BY DEF RawFiles
  <2>2. \A i \in 1..n : fs[i] \in Plain
    BY <2>1
  <2>3. \A i \in 1..n : fs[i].body \in Seq(Files!Lines)
    BY <2>2 DEF Plain
  <2> QED
    BY <2>1, <2>2, <2>3 DEF RawFiles
<1>2. fs = <<>> <=> n = 0
  BY <1>1
<1>3. Files!Last(fs) = fs[n]
  BY DEF Files!Last
<1>4. CASE Files!IsMarker(x) /\ (fs = <<>> \/ Files!HasContent(fs[n].body))
  <2> DEFINE f == [name |-> x[2], body |-> <<>>]
  <2>1. t = Append(fs, f)
    BY <1>3, <1>4 DEF Files!Taken
  <2>2. f \in Plain /\ f.body = <<>>
    BY <1>4, LineKinds, EmptyBody DEF Plain
  <2> HIDE DEF f
  <2>3. t \in Seq(Plain) /\ Len(t) = n + 1 /\ t[n + 1] = f /\ \A i \in 1..n : t[i] = fs[i]
    BY <1>1, <2>1, <2>2, OneMore DEF n
  <2> HIDE DEF t, n
  <2>4. ASSUME NEW i \in 1..Len(t)
        PROVE  NoLateMarker(t[i].body) /\ (i < Len(t) => Files!HasContent(t[i].body))
    <3>1. CASE i = n + 1
      BY <1>1, <2>2, <2>3, <3>1, EmptyBody
    <3>2. CASE i # n + 1
      <4>1. i \in 1..n /\ n # 0
        BY <1>1, <2>3, <3>2
      <4>2. t[i] = fs[i] /\ NoLateMarker(fs[i].body)
        BY <1>1, <2>3, <4>1
      <4>3. Files!HasContent(fs[i].body)
        BY <1>1, <1>2, <1>4, <4>1
      <4> QED
        BY <4>2, <4>3
    <3> QED
      BY <3>1, <3>2
  <2>5. t # <<>>
    BY <1>1, <2>3
  <2> QED
    BY <2>3, <2>4, <2>5 DEF RawFiles, t
<1>5. CASE ~(Files!IsMarker(x) /\ (fs = <<>> \/ Files!HasContent(fs[n].body))) /\ fs = <<>>
  <2> DEFINE f == [name |-> "main", body |-> <<x>>]
  <2>1. t = <<f>>
    BY <1>3, <1>5 DEF Files!Taken
  <2>2. <<x>> = Append(<<>>, x)
    OBVIOUS
  <2>3. ~Files!IsMarker(x)
    BY <1>5
  <2>4. <<x>> \in Seq(Files!Lines) /\ NoLateMarker(<<x>>)
    BY <2>2, <2>3, BodyMore, EmptyBody
  <2>5. f \in Plain /\ f.body = <<x>>
    BY <2>4, FilesAssumption DEF Plain, FilesAssumption
  <2> HIDE DEF f, t
  <2>6. t \in Seq(Plain) /\ Len(t) = 1 /\ t[1] = f /\ t # <<>>
    BY <2>1, <2>5
  <2>7. \A i \in 1..Len(t) : i = 1 /\ ~(i < Len(t))
    BY <2>6
  <2> QED
    BY <2>4, <2>5, <2>6, <2>7 DEF RawFiles, t
<1>6. CASE ~(Files!IsMarker(x) /\ (fs = <<>> \/ Files!HasContent(fs[n].body))) /\ fs # <<>>
  <2> DEFINE c == Append(fs[n].body, x)
  <2>1. t = [fs EXCEPT ![n].body = c]
    BY <1>3, <1>6 DEF Files!Taken
  <2>2. n \in 1..n
    BY <1>1, <1>2, <1>6
  <2>3. c \in Seq(Files!Lines) /\ NoLateMarker(c)
    BY <1>1, <1>6, <2>2, BodyMore
  <2> HIDE DEF c
  <2>4. [fs[n] EXCEPT !.body = c] \in Plain /\ [fs[n] EXCEPT !.body = c].body = c
    BY <1>1, <2>2, <2>3 DEF Plain
  <2>5. t \in Seq(Plain) /\ Len(t) = n /\ t[n].body = c /\ \A i \in 1..n : i # n => t[i] = fs[i]
    BY <1>1, <2>1, <2>2, <2>4
  <2> HIDE DEF t, n
  <2>6. t # <<>>
    BY <1>1, <1>2, <1>6, <2>5
  <2>7. ASSUME NEW i \in 1..Len(t)
        PROVE  NoLateMarker(t[i].body) /\ (i < Len(t) => Files!HasContent(t[i].body))
    BY <1>1, <2>3, <2>5
  <2> QED
    BY <2>5, <2>6, <2>7 DEF RawFiles, t
<1> QED
  BY <1>4, <1>5, <1>6

\* Whatever the text, what is read of it is files so far.
LEMMA ReadIsRaw ==
  ASSUME NEW s \in Seq(Files!Lines)
  PROVE  RawFiles(Files!Read(s)) /\ (s # <<>> => Files!Read(s) # <<>>)
<1> DEFINE n == Len(s)
           f == ReadSteps(s)
           T == {k \in 0..n : ~(RawFiles(f[k]) /\ (k # 0 => f[k] # <<>>))}
<1>1. n \in Nat /\ \A k \in 1..n : s[k] \in Files!Lines
  OBVIOUS
<1>2. Files!Read(s) = f[n] /\ f[0] = <<>> /\ \A k \in 1..n : f[k] = Files!Taken(f[k - 1], s[k])
  BY <1>1, ReadIs DEF n
<1>3. RawFiles(<<>>)
  <2>1. <<>> \in Seq(Plain) /\ 1..Len(<<>>) = {}
    OBVIOUS
  <2> QED
    BY <2>1 DEF RawFiles
<1>4. s # <<>> => n # 0
  OBVIOUS
<1> HIDE DEF n, f
<1>5. T = {}
  <2>1. SUFFICES ASSUME T # {} PROVE FALSE
    OBVIOUS
  <2>2. T \in SUBSET Nat
    OBVIOUS
  <2>3. PICK m \in T : \A k \in T : m <= k
    BY <2>1, <2>2, LeastOne
  <2>4. m \in 0..n /\ ~(RawFiles(f[m]) /\ (m # 0 => f[m] # <<>>))
    BY <2>3
  <2>5. m # 0
    BY <1>2, <1>3, <2>4
  <2>6. m \in 1..n /\ m - 1 \in 0..n /\ ~(m <= m - 1)
    BY <1>1, <2>4, <2>5
  <2>7. RawFiles(f[m - 1])
    BY <2>3, <2>6
  <2> HIDE DEF T
  <2> QED
    BY <1>1, <1>2, <2>4, <2>6, <2>7, TakenIs
<1>6. n \in 0..n
  BY <1>1
<1> QED
  BY <1>2, <1>4, <1>5, <1>6

\* Files that are clean: as they are read from a text, and as a text can hold them.
Clean(fs) ==
  /\ RawFiles(fs) /\ fs # <<>> /\ \A i \in 1..Len(fs) : fs[i].body # <<>>

\* What reading makes, part by part.
LEMMA CleanParts ==
  ASSUME NEW fs, RawFiles(fs)
  PROVE  /\ fs \in Seq(Plain) /\ Len(fs) \in Nat /\ DOMAIN fs = 1..Len(fs) /\ (fs # <<>> => Len(fs) # 0)
         /\ \A i \in 1..Len(fs) : /\ fs[i] \in Plain /\ fs[i].body \in Seq(Files!Lines) /\ fs[i].name \in Names
                                  /\ NoLateMarker(fs[i].body)
                                  /\ i < Len(fs) => Files!HasContent(fs[i].body)
<1>1. fs \in Seq(Plain) /\ Len(fs) \in Nat /\ DOMAIN fs = 1..Len(fs) /\ (fs # <<>> => Len(fs) # 0)
  BY DEF RawFiles
<1>2. \A i \in 1..Len(fs) : fs[i] \in Plain
  BY <1>1
<1>3. \A i \in 1..Len(fs) : fs[i].body \in Seq(Files!Lines) /\ fs[i].name \in Names
  BY <1>2 DEF Plain
<1> QED
  BY <1>1, <1>2, <1>3 DEF RawFiles

\* splitFiles() gives clean files, and what was read when that is clean already.
LEMMA SplitIs ==
  ASSUME NEW s \in Seq(Files!Lines), s # <<>>
  PROVE  Clean(Files!splitFiles(s)) /\ (Clean(Files!Read(s)) => Files!splitFiles(s) = Files!Read(s))
<1> DEFINE r == Files!Read(s)
           n == Len(r)
           padded == <<Files!Blank>>
           t == Files!splitFiles(s)
<1>1. RawFiles(r) /\ r # <<>>
  BY ReadIsRaw
<1>2. /\ r \in Seq(Plain) /\ n \in Nat /\ DOMAIN r = 1..n /\ n # 0
      /\ \A i \in 1..n : /\ r[i] \in Plain /\ r[i].body \in Seq(Files!Lines) /\ r[i].name \in Names
                         /\ NoLateMarker(r[i].body)
                         /\ i < n => Files!HasContent(r[i].body)
  BY <1>1, CleanParts
<1>3. t = [i \in DOMAIN r |-> IF r[i].body = <<>> THEN [r[i] EXCEPT !.body = padded] ELSE r[i]]
  BY DEF Files!splitFiles
<1>4. padded \in Seq(Files!Lines) /\ NoLateMarker(padded) /\ padded # <<>>
  <2>1. padded = Append(<<>>, Files!Blank)
    OBVIOUS
  <2>2. padded # <<>>
    OBVIOUS
  <2> QED
    BY <2>1, <2>2, BodyMore, EmptyBody, LineKinds
<1> HIDE DEF r, n, t, padded
<1>5. ASSUME NEW i \in 1..n
      PROVE  /\ t[i] \in Plain /\ NoLateMarker(t[i].body) /\ t[i].body # <<>>
             /\ i < n => Files!HasContent(t[i].body)
  <2>1. CASE r[i].body = <<>>
    <3>1. t[i] = [r[i] EXCEPT !.body = padded]
      BY <1>2, <1>3, <2>1
    <3>2. t[i] \in Plain /\ t[i].body = padded
      BY <1>2, <1>4, <3>1 DEF Plain
    <3>3. ~(i < n)
      BY <1>2, <2>1, EmptyBody
    <3> QED
      BY <1>4, <3>2, <3>3
  <2>2. CASE r[i].body # <<>>
    <3>1. t[i] = r[i]
      BY <1>2, <1>3, <2>2
    <3> QED
      BY <1>2, <2>2, <3>1
  <2> QED
    BY <2>1, <2>2
<1>6. t \in Seq(Plain) /\ Len(t) = n /\ t # <<>>
  <2>1. t = [i \in 1..n |-> t[i]]
    BY <1>2, <1>3
  <2>2. t \in [1..n -> Plain]
    BY <1>5, <2>1
  <2>3. t \in Seq(Plain) /\ Len(t) = n
    BY <1>2, <2>2
  <2> QED
    BY <1>2, <2>3
<1>7. Clean(t)
  BY <1>5, <1>6 DEF Clean, RawFiles
<1>8. ASSUME Clean(r) PROVE t = r
  <2>1. \A i \in 1..n : t[i] = r[i]
    BY <1>2, <1>3, <1>8 DEF Clean, n
  <2>2. r = [i \in 1..n |-> r[i]] /\ t = [i \in 1..n |-> t[i]]
    BY <1>2, <1>6
  <2> QED
    BY <2>1, <2>2
<1> QED
  BY <1>7, <1>8 DEF r, t

\* The body of a file as read is put in place.
LEMMA RecordBody ==
  ASSUME NEW a, NEW u, NEW v
  PROVE  [[name |-> a, body |-> u] EXCEPT !.body = v] = [name |-> a, body |-> v]
  OBVIOUS

\* A line that opens no file goes to the body of the last one.
LEMMA TakenInto ==
  ASSUME NEW before \in Seq(Plain), NEW n \in Names, NEW u \in Seq(Files!Lines), NEW x \in Files!Lines,
         Files!IsMarker(x) => ~Files!HasContent(u)
  PROVE  Files!Taken(Append(before, [name |-> n, body |-> u]), x)
           = Append(before, [name |-> n, body |-> Append(u, x)])
<1> DEFINE f == [name |-> n, body |-> u]
           h == [name |-> n, body |-> Append(u, x)]
           s == Append(before, f)
           t == Append(before, h)
           k == Len(before)
<1>1. f \in Plain /\ h \in Plain /\ f.body = u /\ h = [f EXCEPT !.body = Append(@, x)]
  <2>1. Append(u, x) \in Seq(Files!Lines)
    BY OneMore
  <2>2. f \in Plain /\ h \in Plain
    BY <2>1 DEF Plain
  <2>3. f.body = u
    OBVIOUS
  <2>4. h = [f EXCEPT !.body = Append(u, x)]
    BY RecordBody DEF f, h
  <2> QED
    BY <2>2, <2>3, <2>4
<1> HIDE DEF f, h
<1>2. s \in Seq(Plain) /\ k \in Nat /\ Len(s) = k + 1 /\ s[k + 1] = f /\ \A i \in 1..k : s[i] = before[i]
  BY <1>1, OneMore
<1>3. t \in Seq(Plain) /\ Len(t) = k + 1 /\ t[k + 1] = h /\ \A i \in 1..k : t[i] = before[i]
  BY <1>1, OneMore
<1> HIDE DEF s, t, k
<1>4. s # <<>> /\ Files!Last(s) = f
  BY <1>2 DEF Files!Last
<1>5. Files!Taken(s, x) = [s EXCEPT ![Len(s)].body = Append(@, x)]
  BY <1>1, <1>4 DEF Files!Taken
<1>6. Files!Taken(s, x) = [s EXCEPT ![k + 1] = h]
  BY <1>1, <1>2, <1>5
<1>7. [s EXCEPT ![k + 1] = h] \in Seq(Plain) /\ Len([s EXCEPT ![k + 1] = h]) = k + 1
      /\ \A i \in 1..(k + 1) : [s EXCEPT ![k + 1] = h][i] = t[i]
  <2> DEFINE w == [s EXCEPT ![k + 1] = h]
  <2>1. k + 1 \in 1..Len(s)
    BY <1>2
  <2>2. w \in Seq(Plain) /\ Len(w) = Len(s) /\ \A i \in 1..Len(s) : w[i] = IF i = k + 1 THEN h ELSE s[i]
    BY <1>1, <1>2, <2>1, ExceptSeq
  <2> HIDE DEF w
  <2>3. ASSUME NEW i \in 1..(k + 1) PROVE w[i] = t[i]
    <3>1. CASE i = k + 1
      BY <1>2, <1>3, <2>1, <2>2, <3>1
    <3>2. CASE i # k + 1
      <4>1. i \in 1..k /\ i \in 1..Len(s)
        BY <1>2, <3>2
      <4> QED
        BY <1>2, <1>3, <2>2, <3>2, <4>1
    <3> QED
      BY <3>1, <3>2
  <2> QED
    BY <1>2, <2>2, <2>3 DEF w
<1>8. [s EXCEPT ![k + 1] = h] = t
  BY <1>3, <1>7, SeqEqual
<1> QED
  BY <1>6, <1>8 DEF s, t, f, h

\* A line more at the end of the second text is one at the end of both.
LEMMA ConcatMore ==
  ASSUME NEW S, NEW s \in Seq(S), NEW u \in Seq(S), NEW x \in S
  PROVE  s \o u \in Seq(S) /\ s \o Append(u, x) = Append(s \o u, x)
<1>1. Append(u, x) = u \o <<x>> /\ <<x>> \in Seq(S)
  BY AppendIsConcat
<1>2. s \o u \in Seq(S)
  BY ConcatProperties
<1>3. Append(s \o u, x) = (s \o u) \o <<x>>
  BY <1>2, AppendIsConcat
<1>4. (s \o u) \o <<x>> = s \o (u \o <<x>>)
  BY <1>1, ConcatAssociative
<1> QED
  BY <1>1, <1>2, <1>3, <1>4

\* The body of a file, read line by line behind its beginning.
ReadUpTo(k, s, before, n, b) ==
  Files!Read(s \o SubSeq(b, 1, k)) = Append(before, [name |-> n, body |-> SubSeq(b, 1, k)])

\* The lines of a body that has no marker after content are all read into it.
LEMMA BodyRead ==
  ASSUME NEW s \in Seq(Files!Lines), NEW before \in Seq(Plain), NEW n \in Names,
         NEW b \in Seq(Files!Lines), NoLateMarker(b), NEW k0 \in 0..Len(b),
         ReadUpTo(k0, s, before, n, b)
  PROVE  s \o b \in Seq(Files!Lines) /\ Files!Read(s \o b) = Append(before, [name |-> n, body |-> b])
<1> DEFINE u(k) == SubSeq(b, 1, k)
           T == {k \in k0..Len(b) : Files!Read(s \o u(k)) # Append(before, [name |-> n, body |-> u(k)])}
<1>1. Len(b) \in Nat /\ k0 \in Nat /\ k0 <= Len(b)
  OBVIOUS
<1>2. T = {}
  <2>1. SUFFICES ASSUME T # {} PROVE FALSE
    OBVIOUS
  <2>2. T \in SUBSET Nat
    BY <1>1
  <2>3. PICK m \in T : \A k \in T : m <= k
    BY <2>1, <2>2, LeastOne
  <2>4. m \in k0..Len(b) /\ Files!Read(s \o u(m)) # Append(before, [name |-> n, body |-> u(m)])
    BY <2>3
  <2>5. m # k0
    BY <2>4 DEF ReadUpTo
  <2>6. m \in 1..Len(b) /\ m - 1 \in k0..Len(b) /\ ~(m <= m - 1)
    BY <1>1, <2>4, <2>5
  <2>7. Files!Read(s \o u(m - 1)) = Append(before, [name |-> n, body |-> u(m - 1)])
    BY <2>3, <2>6
  <2>8. u(m - 1) \in Seq(Files!Lines) /\ b[m] \in Files!Lines /\ u(m) = Append(u(m - 1), b[m])
    BY <1>1, <2>6
  <2>9. s \o u(m) = Append(s \o u(m - 1), b[m]) /\ s \o u(m - 1) \in Seq(Files!Lines)
    <3> DEFINE w == u(m - 1)
               x == b[m]
    <3>1. w \in Seq(Files!Lines) /\ x \in Files!Lines /\ u(m) = Append(w, x)
      BY <2>8
    <3> HIDE DEF u, w, x
    <3>2. s \o w \in Seq(Files!Lines) /\ s \o Append(w, x) = Append(s \o w, x)
      BY <3>1, ConcatMore
    <3> QED
      BY <3>1, <3>2 DEF w, x
  <2>10. Files!IsMarker(b[m]) => ~Files!HasContent(u(m - 1))
    BY <2>6, FrontContent DEF NoLateMarker
  <2> HIDE DEF u, T
  <2>11. Files!Read(s \o u(m)) = Files!Taken(Files!Read(s \o u(m - 1)), b[m])
    BY <2>8, <2>9, ReadAppend
  <2>13. Files!Taken(Append(before, [name |-> n, body |-> u(m - 1)]), b[m])
           = Append(before, [name |-> n, body |-> Append(u(m - 1), b[m])])
    BY <2>8, <2>10, TakenInto
  <2>12. Files!Read(s \o u(m)) = Append(before, [name |-> n, body |-> Append(u(m - 1), b[m])])
    BY <2>7, <2>11, <2>13
  <2> QED
    BY <2>4, <2>8, <2>12
<1>3. Len(b) \in k0..Len(b) /\ u(Len(b)) = b
  BY <1>1
<1>5. s \o b \in Seq(Files!Lines)
  BY ConcatProperties
<1>4. Files!Read(s \o u(Len(b))) = Append(before, [name |-> n, body |-> u(Len(b))])
  BY <1>2, <1>3
<1> QED
  BY <1>3, <1>4, <1>5

\* The block of a file, read behind the files before it.
Behind(s, before, i) ==
  /\ Files!Read(s) = before /\ i = Len(before) + 1
  /\ before # <<>> => Files!HasContent(before[Len(before)].body)
Readable(f) == f \in Plain /\ f.body # <<>> /\ NoLateMarker(f.body)

\* The block of a file is read as that file, behind those that were read before.
LEMMA BlockRead ==
  ASSUME NEW s \in Seq(Files!Lines), NEW before \in Seq(Plain), NEW f, NEW i \in Nat,
         Readable(f), Behind(s, before, i)
  PROVE  /\ Files!Block(f, i) \in Seq(Files!Lines) /\ s \o Files!Block(f, i) \in Seq(Files!Lines)
         /\ Files!Read(s \o Files!Block(f, i)) = Append(before, f)
<1> DEFINE b == f.body
           n == f.name
<1>0. /\ f \in Plain /\ f.body # <<>> /\ NoLateMarker(f.body) /\ Files!Read(s) = before
      /\ i = Len(before) + 1 /\ (before # <<>> => Files!HasContent(before[Len(before)].body))
  BY DEF Readable, Behind
<1>1. b \in Seq(Files!Lines) /\ n \in Names /\ f = [name |-> n, body |-> b]
  BY <1>0 DEF Plain
<1>2. Len(b) \in Nat /\ 0 \in 0..Len(b) /\ 1 \in 0..Len(b) /\ b[1] \in Files!Lines
  BY <1>0, <1>1
<1>3. before = <<>> <=> i = 1
  BY <1>0, EmptySeq
<1>4. CASE Files!omitsMarker(f, i)
  <2>1. Files!Block(f, i) = b /\ before = <<>> /\ n = "main" /\ ~Files!IsMarker(b[1])
    BY <1>3, <1>4 DEF Files!Block, Files!omitsMarker
  <2> HIDE DEF b, n
  <2>2. SubSeq(b, 1, 1) = <<b[1]>>
    <3>1. 1 \in 1..Len(b)
      BY <1>2
    <3> DEFINE u == SubSeq(b, 1, 1)
               v == <<b[1]>>
    <3>2. u \in Seq(Files!Lines) /\ Len(u) = 1 /\ u[1] = b[1]
      BY <1>1, <3>1
    <3>3. v \in Seq(Files!Lines) /\ Len(v) = 1 /\ v[1] = b[1]
      BY <1>2
    <3> HIDE DEF u, v
    <3>4. \A k \in 1..Len(u) : u[k] = v[k]
      BY <3>2, <3>3
    <3>5. u = v
      BY <3>2, <3>3, <3>4, SeqEqual
    <3> QED
      BY <3>5 DEF u, v
  <2>3. s \o <<b[1]>> = Append(s, b[1])
    BY <1>2, AppendIsConcat
  <2>4. Files!Read(s \o SubSeq(b, 1, 1)) = Files!Taken(<<>>, b[1])
    BY <1>0, <1>2, <2>1, <2>2, <2>3, ReadAppend
  <2>5. Files!Taken(<<>>, b[1]) = <<[name |-> "main", body |-> <<b[1]>>]>>
    BY <2>1 DEF Files!Taken
  <2>6. <<[name |-> n, body |-> SubSeq(b, 1, 1)]>> = Append(<<>>, [name |-> n, body |-> SubSeq(b, 1, 1)])
    OBVIOUS
  <2>7. ReadUpTo(1, s, before, n, b)
    BY <2>1, <2>2, <2>4, <2>5, <2>6 DEF ReadUpTo
  <2>8. NoLateMarker(b)
    BY <1>0 DEF b
  <2>9. s \o b \in Seq(Files!Lines) /\ Files!Read(s \o b) = Append(before, [name |-> n, body |-> b])
    BY <1>1, <1>2, <2>7, <2>8, BodyRead
  <2> QED
    BY <1>1, <2>1, <2>9
<1>5. CASE ~Files!omitsMarker(f, i)
  <2> DEFINE x == Files!Marker(n)
             t == Append(s, x)
  <2>1. Files!Block(f, i) = <<x>> \o b
    BY <1>5 DEF Files!Block
  <2>2. x \in Files!Lines /\ Files!IsMarker(x) /\ x[2] = n
    BY <1>1, LineKinds
  <2>8. NoLateMarker(b)
    BY <1>0
  <2> HIDE DEF x, b, n
  <2>3. t \in Seq(Files!Lines) /\ t = s \o <<x>> /\ <<x>> \in Seq(Files!Lines)
    BY <2>2, OneMore, AppendIsConcat
  <2>4. (s \o <<x>>) \o b = s \o (<<x>> \o b) /\ <<x>> \o b \in Seq(Files!Lines)
    BY <1>1, <2>3, ConcatAssociative, ConcatProperties
  <2>5. Files!Read(t) = Files!Taken(before, x)
    BY <1>0, <2>2, ReadAppend
  <2>6. Files!Taken(before, x) = Append(before, [name |-> n, body |-> <<>>])
    BY <1>0, <2>2 DEF Files!Taken, Files!Last
  <2> HIDE DEF t
  <2>7. SubSeq(b, 1, 0) = <<>> /\ t \o <<>> = t
    BY <1>1, <2>3, SubSeqEmpty, ConcatEmptySeq
  <2>9. ReadUpTo(0, t, before, n, b)
    BY <2>5, <2>6, <2>7 DEF ReadUpTo
  <2>10. t \o b \in Seq(Files!Lines) /\ Files!Read(t \o b) = Append(before, [name |-> n, body |-> b])
    <3>1. t \in Seq(Files!Lines) /\ before \in Seq(Plain) /\ n \in Names /\ b \in Seq(Files!Lines) /\ 0 \in 0..Len(b)
      BY <1>1, <1>2, <2>3
    <3> QED
      BY <2>8, <2>9, <3>1, BodyRead
  <2> QED
    BY <1>1, <2>1, <2>3, <2>4, <2>10
<1> QED
  BY <1>4, <1>5

\* The text of files that are clean reads as the files.
LEMMA JoinReads ==
  ASSUME NEW fs, Clean(fs)
  PROVE  /\ Files!joinFiles(fs) \in Seq(Files!Lines) /\ Files!joinFiles(fs) # <<>>
         /\ Files!Read(Files!joinFiles(fs)) = fs
<1> DEFINE n == Len(fs)
           blocks == [i \in DOMAIN fs |-> Files!Block(fs[i], i)]
           g == JoinedSteps(blocks)
           upTo(i) == SubSeq(fs, 1, i)
           T == {i \in 1..n : ~(g[i] \in Seq(Files!Lines) /\ Files!Read(g[i]) = upTo(i))}
<1>1. /\ fs \in Seq(Plain) /\ n \in Nat /\ DOMAIN fs = 1..n /\ n # 0
      /\ \A i \in 1..n : /\ fs[i] \in Plain /\ fs[i].body # <<>> /\ NoLateMarker(fs[i].body)
                         /\ i < n => Files!HasContent(fs[i].body)
  BY CleanParts DEF Clean
<1>2. DOMAIN blocks = 1..n /\ \A i \in 1..n : blocks[i] = Files!Block(fs[i], i)
  BY <1>1
<1>3. Len(blocks) = n
  BY <1>1, <1>2
<1>4. Files!joinFiles(fs) = Files!FlattenSeq(blocks)
  BY DEF Files!joinFiles
<1> HIDE DEF blocks, n
<1>5. Files!FlattenSeq(blocks) = g[n] /\ g[1] = blocks[1] /\ \A i \in 2..n : g[i] = g[i - 1] \o blocks[i]
  BY <1>1, <1>3, JoinedIs
<1> HIDE DEF g
<1>6. \A i \in 1..n : /\ upTo(i) \in Seq(Plain) /\ Len(upTo(i)) = i /\ upTo(i)[i] = fs[i]
                      /\ i > 1 => upTo(i) = Append(upTo(i - 1), fs[i])
  BY <1>1
<1> HIDE DEF upTo
<1>7. T = {}
  <2>1. SUFFICES ASSUME T # {} PROVE FALSE
    OBVIOUS
  <2>2. T \in SUBSET Nat
    BY <1>1
  <2>3. PICK m \in T : \A i \in T : m <= i
    BY <2>1, <2>2, LeastOne
  <2>4. m \in 1..n /\ ~(g[m] \in Seq(Files!Lines) /\ Files!Read(g[m]) = upTo(m))
    BY <2>3
  <2>5. CASE m = 1
    <3>1. g[1] = Files!Block(fs[1], 1) /\ Readable(fs[1])
      BY <1>1, <1>2, <1>5, <2>4, <2>5 DEF Readable
    <3> DEFINE e == <<>>
    <3>2. e \in Seq(Files!Lines) /\ e \in Seq(Plain) /\ 1 = Len(e) + 1 /\ 1 \in Nat /\ e = <<>>
      OBVIOUS
    <3>3. Behind(e, e, 1)
      BY <3>2, ReadNone DEF Behind
    <3>4. Append(e, fs[1]) = upTo(1)
      BY <1>1 DEF upTo
    <3> HIDE DEF e
    <3>5. /\ g[1] \in Seq(Files!Lines) /\ e \o g[1] \in Seq(Files!Lines)
          /\ Files!Read(e \o g[1]) = Append(e, fs[1])
      <4>1. e \in Seq(Files!Lines) /\ e \in Seq(Plain) /\ 1 \in Nat /\ Readable(fs[1])
        BY <3>1, <3>2
      <4>2. /\ Files!Block(fs[1], 1) \in Seq(Files!Lines) /\ e \o Files!Block(fs[1], 1) \in Seq(Files!Lines)
            /\ Files!Read(e \o Files!Block(fs[1], 1)) = Append(e, fs[1])
        BY <3>3, <4>1, BlockRead
      <4> QED
        BY <3>1, <4>2
    <3>6. e \o g[1] = g[1]
      BY <3>2, <3>5, ConcatEmptySeq
    <3> QED
      BY <2>4, <2>5, <3>4, <3>5, <3>6
  <2>6. CASE m # 1
    <3>1. m \in 2..n /\ m - 1 \in 1..n /\ ~(m <= m - 1) /\ m > 1 /\ m - 1 < n /\ m \in Nat
      BY <1>1, <2>4, <2>6
    <3>2. g[m - 1] \in Seq(Files!Lines) /\ Files!Read(g[m - 1]) = upTo(m - 1)
      BY <2>3, <3>1
    <3> DEFINE before == upTo(m - 1)
    <3>3. before \in Seq(Plain) /\ Len(before) = m - 1 /\ before[m - 1] = fs[m - 1]
      BY <1>6, <3>1
    <3>4. Files!HasContent(before[Len(before)].body) /\ m = Len(before) + 1
      BY <1>1, <3>1, <3>3
    <3>5. Readable(fs[m])
      BY <1>1, <2>4 DEF Readable
    <3>6. g[m] = g[m - 1] \o Files!Block(fs[m], m) /\ upTo(m) = Append(before, fs[m])
      BY <1>2, <1>5, <1>6, <2>4, <3>1
    <3> HIDE DEF before
    <3>7. Behind(g[m - 1], before, m)
      BY <3>2, <3>4 DEF before, Behind
    <3>8. /\ g[m - 1] \o Files!Block(fs[m], m) \in Seq(Files!Lines)
          /\ Files!Read(g[m - 1] \o Files!Block(fs[m], m)) = Append(before, fs[m])
      BY <3>1, <3>2, <3>3, <3>5, <3>7, BlockRead
    <3> QED
      BY <2>4, <3>6, <3>8
  <2> QED
    BY <2>5, <2>6
<1>8. n \in 1..n /\ upTo(n) = fs
  BY <1>1 DEF upTo, n
<1>9. g[n] \in Seq(Files!Lines) /\ Files!Read(g[n]) = fs
  BY <1>7, <1>8
<1>10. g[n] # <<>>
  BY <1>9, ReadNone DEF Clean
<1> QED
  BY <1>4, <1>5, <1>9, <1>10

\* The text of files that have bodies is a text, clean or not.
LEMMA JoinIsText ==
  ASSUME NEW fs \in Seq(Plain), fs # <<>>, \A i \in 1..Len(fs) : fs[i].body # <<>>
  PROVE  Files!joinFiles(fs) \in Seq(Files!Lines) /\ Files!joinFiles(fs) # <<>>
<1> DEFINE n == Len(fs)
           blocks == [i \in DOMAIN fs |-> Files!Block(fs[i], i)]
           g == JoinedSteps(blocks)
           T == {i \in 1..n : ~(g[i] \in Seq(Files!Lines) /\ g[i] # <<>>)}
<1>1. n \in Nat /\ DOMAIN fs = 1..n /\ n # 0
  OBVIOUS
<1>2. DOMAIN blocks = 1..n /\ \A i \in 1..n : blocks[i] = Files!Block(fs[i], i)
  BY <1>1
<1>3. Len(blocks) = n
  BY <1>1, <1>2
<1>4. Files!joinFiles(fs) = Files!FlattenSeq(blocks)
  BY DEF Files!joinFiles
<1>5. ASSUME NEW i \in 1..n PROVE blocks[i] \in Seq(Files!Lines) /\ blocks[i] # <<>>
  <2> DEFINE b == fs[i].body
             x == Files!Marker(fs[i].name)
  <2>1. fs[i] \in Plain
    OBVIOUS
  <2>2. b \in Seq(Files!Lines) /\ b # <<>> /\ x \in Files!Lines
    BY <2>1, LineKinds DEF Plain
  <2> HIDE DEF b, x
  <2>3. <<x>> \in Seq(Files!Lines) /\ <<x>> # <<>>
    BY <2>2
  <2>4. <<x>> \o b \in Seq(Files!Lines) /\ <<x>> \o b # <<>>
    BY <2>2, <2>3, ConcatProperties, ConcatEqualIffEmpty
  <2>5. blocks[i] = b \/ blocks[i] = <<x>> \o b
    BY <1>2 DEF Files!Block, b, x
  <2> QED
    BY <2>2, <2>4, <2>5
<1> HIDE DEF blocks, n
<1>6. Files!FlattenSeq(blocks) = g[n] /\ g[1] = blocks[1] /\ \A i \in 2..n : g[i] = g[i - 1] \o blocks[i]
  BY <1>1, <1>3, JoinedIs
<1> HIDE DEF g
<1>7. T = {}
  <2>1. SUFFICES ASSUME T # {} PROVE FALSE
    OBVIOUS
  <2>2. T \in SUBSET Nat
    BY <1>1
  <2>3. PICK m \in T : \A i \in T : m <= i
    BY <2>1, <2>2, LeastOne
  <2>4. m \in 1..n /\ ~(g[m] \in Seq(Files!Lines) /\ g[m] # <<>>)
    BY <2>3
  <2>5. m # 1
    BY <1>5, <1>6, <2>4
  <2>6. m \in 2..n /\ m - 1 \in 1..n /\ ~(m <= m - 1)
    BY <1>1, <2>4, <2>5
  <2>7. g[m - 1] \in Seq(Files!Lines) /\ g[m - 1] # <<>> /\ g[m] = g[m - 1] \o blocks[m]
    BY <1>6, <2>3, <2>6
  <2>8. blocks[m] \in Seq(Files!Lines)
    BY <1>5, <2>4
  <2> QED
    BY <2>4, <2>7, <2>8, ConcatProperties, ConcatEqualIffEmpty
<1>8. n \in 1..n
  BY <1>1
<1> QED
  BY <1>4, <1>6, <1>7, <1>8

\* The files without their identities.
LEMMA HeldIs ==
  ASSUME NEW fs, Files!Held(fs), ids \in Nat
  PROVE  /\ fs \in Seq(Files!File) /\ Len(fs) \in Nat /\ Len(fs) # 0 /\ DOMAIN fs = 1..Len(fs)
         /\ \A i \in 1..Len(fs) : /\ fs[i] \in Files!File /\ fs[i].name \in Names /\ fs[i].body \in Seq(Files!Lines)
                                  /\ fs[i].body # <<>> /\ fs[i].id \in Nat /\ fs[i].id \in 1..ids
<1>1. fs \in Seq(Files!File) /\ fs # <<>> /\ \A i \in DOMAIN fs : fs[i].body # <<>> /\ fs[i].id \in 1..ids
  BY DEF Files!Held
<1>2. Len(fs) \in Nat /\ Len(fs) # 0 /\ DOMAIN fs = 1..Len(fs)
  BY <1>1
<1>3. \A i \in 1..Len(fs) : fs[i] \in Files!File
  BY <1>1
<1>4. \A i \in 1..Len(fs) : fs[i].name \in Names /\ fs[i].body \in Seq(Files!Lines) /\ fs[i].id \in Nat
  BY <1>3 DEF Files!File
<1> QED
  BY <1>1, <1>2, <1>3, <1>4

\* Without their identities files have the same names, bodies and text.
LEMMA NamedIsPlain ==
  ASSUME NEW fs, Files!Held(fs), ids \in Nat
  PROVE  /\ Files!Named(fs) \in Seq(Plain) /\ Len(Files!Named(fs)) = Len(fs) /\ Files!Named(fs) # <<>>
         /\ \A i \in 1..Len(fs) : /\ Files!Named(fs)[i].name = fs[i].name /\ Files!Named(fs)[i].body = fs[i].body
         /\ Files!joinFiles(Files!Named(fs)) = Files!joinFiles(fs)
<1> DEFINE n == Len(fs)
           t == Files!Named(fs)
<1>1. /\ n \in Nat /\ n # 0 /\ DOMAIN fs = 1..n
      /\ \A i \in 1..n : fs[i].name \in Names /\ fs[i].body \in Seq(Files!Lines)
  BY HeldIs
<1>2. t = [i \in 1..n |-> [name |-> fs[i].name, body |-> fs[i].body]]
  BY <1>1 DEF Files!Named
<1> HIDE DEF t, n
<1>3. \A i \in 1..n : t[i] \in Plain /\ t[i].name = fs[i].name /\ t[i].body = fs[i].body
  BY <1>1, <1>2 DEF Plain
<1>4. t \in Seq(Plain) /\ Len(t) = n /\ t # <<>> /\ DOMAIN t = 1..n
  <2>1. t \in [1..n -> Plain]
    BY <1>2, <1>3
  <2>2. t \in Seq(Plain) /\ Len(t) = n /\ DOMAIN t = 1..n
    BY <1>1, <2>1
  <2> QED
    BY <1>1, <2>2
<1>5. \A i \in 1..n : Files!Block(t[i], i) = Files!Block(fs[i], i)
  BY <1>3 DEF Files!Block, Files!omitsMarker
<1>6. [i \in DOMAIN t |-> Files!Block(t[i], i)] = [i \in DOMAIN fs |-> Files!Block(fs[i], i)]
  BY <1>1, <1>4, <1>5
<1>7. Files!joinFiles(t) = Files!joinFiles(fs)
  BY <1>6 DEF Files!joinFiles
<1> QED
  BY <1>3, <1>4, <1>7 DEF t, n

\* joinConflicts() finds no fault with the bodies when the files are clean.
LEMMA ConflictsTell ==
  ASSUME NEW fs, Files!Held(fs), ids \in Nat
  PROVE  Files!BlankBody(fs) \cup Files!MarkerInBody(fs) = {} <=> Clean(Files!Named(fs))
<1> DEFINE n == Len(fs)
           t == Files!Named(fs)
<1>1. /\ n \in Nat /\ n # 0 /\ DOMAIN fs = 1..n
      /\ \A i \in 1..n : fs[i].body \in Seq(Files!Lines) /\ fs[i].body # <<>>
  BY HeldIs
<1>2. t \in Seq(Plain) /\ Len(t) = n /\ t # <<>> /\ \A i \in 1..n : t[i].body = fs[i].body
  BY NamedIsPlain
<1> HIDE DEF n, t
<1>3. Files!BlankBody(fs) = {} <=> \A i \in 1..n : i < n => Files!HasContent(fs[i].body)
  BY <1>1 DEF Files!BlankBody, n
<1>4. ASSUME NEW b \in Seq(Files!Lines)
      PROVE  NoLateMarker(b) <=> ~\E k \in DOMAIN b : Files!IsMarker(b[k]) /\ Files!HasContent(SubSeq(b, 1, k - 1))
  <2>1. DOMAIN b = 1..Len(b)
    OBVIOUS
  <2>2. \A k \in 1..Len(b) : Files!HasContent(SubSeq(b, 1, k - 1)) <=> \E j \in 1..(k - 1) : b[j] # Files!Blank
    BY FrontContent
  <2> QED
    BY <2>1, <2>2 DEF NoLateMarker
<1>5. Files!MarkerInBody(fs) = {} <=> \A i \in 1..n : NoLateMarker(fs[i].body)
  BY <1>1, <1>4 DEF Files!MarkerInBody
<1>6. Clean(t) <=> /\ \A i \in 1..n : NoLateMarker(fs[i].body)
                   /\ \A i \in 1..n : i < n => Files!HasContent(fs[i].body)
  BY <1>1, <1>2 DEF Clean, RawFiles
<1> QED
  BY <1>3, <1>5, <1>6 DEF t

\* What the marker format promises, of the files of the project.
LEMMA TextsKeep ==
  ASSUME ids \in Nat, Files!Held(tabs)
  PROVE  Files!ConflictsAreExact /\ Files!ReadingSettles
<1> DEFINE t == Files!Named(tabs)
           s == Files!joinFiles(tabs)
           r == Files!splitFiles(s)
<1>1. /\ t \in Seq(Plain) /\ t # <<>> /\ Files!joinFiles(t) = s
      /\ Len(t) = Len(tabs) /\ \A i \in 1..Len(tabs) : t[i].body = tabs[i].body
  BY NamedIsPlain
<1>2. \A i \in 1..Len(tabs) : tabs[i].body # <<>>
  BY HeldIs
<1> HIDE DEF t, s
<1>3. s \in Seq(Files!Lines) /\ s # <<>>
  BY <1>1, <1>2, JoinIsText
<1>4. Clean(r)
  BY <1>3, SplitIs
<1>5. ASSUME NEW fs, Clean(fs) PROVE Files!splitFiles(Files!joinFiles(fs)) = fs
  BY <1>5, JoinReads, SplitIs
<1>6. Clean(t) <=> r = t
  BY <1>1, <1>4, <1>5
<1>7. Files!ConflictsAreExact
  BY <1>6, ConflictsTell DEF Files!ConflictsAreExact, r, s, t
<1>8. Files!ReadingSettles
  BY <1>4, <1>5 DEF Files!ReadingSettles, r, s
<1> QED
  BY <1>7, <1>8

-----------------------------------------------------------------------------
(* Lists of files, and which identity has which name in them.               *)

Has(fs, d, n) == \E i \in 1..Len(fs) : fs[i].id = d /\ fs[i].name = n

HeldBy(fs, top) ==
  /\ fs \in Seq(Files!File) /\ fs # <<>> /\ top \in Nat
  /\ \A i \in 1..Len(fs) : fs[i].body # <<>> /\ fs[i].id \in 1..top
  /\ \A i, j \in 1..Len(fs) : fs[i].id = fs[j].id => i = j

\* A list of files, each another one, part by part.
LEMMA HeldByParts ==
  ASSUME NEW fs, NEW top, HeldBy(fs, top)
  PROVE  /\ fs \in Seq(Files!File) /\ Len(fs) \in Nat /\ Len(fs) # 0 /\ DOMAIN fs = 1..Len(fs) /\ top \in Nat
         /\ \A i \in 1..Len(fs) : /\ fs[i] \in Files!File /\ fs[i].name \in Names /\ fs[i].body \in Seq(Files!Lines)
                                  /\ fs[i].body # <<>> /\ fs[i].id \in Nat /\ fs[i].id \in 1..top
         /\ \A i, j \in 1..Len(fs) : fs[i].id = fs[j].id => i = j
<1>1. /\ fs \in Seq(Files!File) /\ fs # <<>> /\ top \in Nat
      /\ \A i \in 1..Len(fs) : fs[i].body # <<>> /\ fs[i].id \in 1..top
      /\ \A i, j \in 1..Len(fs) : fs[i].id = fs[j].id => i = j
  BY DEF HeldBy
<1>2. Len(fs) \in Nat /\ Len(fs) # 0 /\ DOMAIN fs = 1..Len(fs)
  BY <1>1
<1>3. \A i \in 1..Len(fs) : fs[i] \in Files!File
  BY <1>1
<1>4. \A i \in 1..Len(fs) : fs[i].name \in Names /\ fs[i].body \in Seq(Files!Lines) /\ fs[i].id \in Nat
  BY <1>3 DEF Files!File
<1> QED
  BY <1>1, <1>2, <1>3, <1>4

\* More identities may be given; these files stay held.
LEMMA HeldByMore ==
  ASSUME NEW fs, NEW top, HeldBy(fs, top), NEW more \in Nat, top <= more
  PROVE  HeldBy(fs, more)
<1>1. top \in Nat /\ \A i \in 1..Len(fs) : fs[i].id \in 1..top
  BY DEF HeldBy
<1>2. \A i \in 1..Len(fs) : fs[i].id \in 1..more
  BY <1>1
<1> QED
  BY <1>2 DEF HeldBy

\* A file is inserted: the ones behind move up.
LEMMA InsertIs ==
  ASSUME NEW S, NEW fs \in Seq(S), NEW i \in 1..(Len(fs) + 1), NEW f \in S
  PROVE  /\ Files!InsertAt(fs, i, f) \in Seq(S) /\ Len(Files!InsertAt(fs, i, f)) = Len(fs) + 1
         /\ \A j \in 1..(Len(fs) + 1) : Files!InsertAt(fs, i, f)[j] =
              IF j < i THEN fs[j] ELSE IF j = i THEN f ELSE fs[j - 1]
<1> DEFINE n == Len(fs)
           u == SubSeq(fs, 1, i - 1)
           v == <<f>>
           w == SubSeq(fs, i, n)
<1>1. n \in Nat /\ i \in Nat /\ i >= 1 /\ i <= n + 1 /\ \A j \in 1..n : fs[j] \in S
  OBVIOUS
<1>2. u \in Seq(S) /\ Len(u) = i - 1 /\ \A j \in 1..(i - 1) : u[j] = fs[j]
  BY <1>1
<1>3. v \in Seq(S) /\ Len(v) = 1 /\ v[1] = f
  OBVIOUS
<1>4. w \in Seq(S) /\ Len(w) = n - i + 1 /\ \A j \in 1..(n - i + 1) : w[j] = fs[i + j - 1]
  <2>1. i \in Int /\ n \in Int /\ \A j \in i..n : fs[j] \in S
    BY <1>1
  <2>2. w \in Seq(S) /\ Len(w) = (IF i <= n THEN n - i + 1 ELSE 0) /\ \A j \in 1..(n - i + 1) : w[j] = fs[i + j - 1]
    BY <2>1, SubSeqProperties
  <2>3. Len(w) = n - i + 1
    <3> HIDE DEF w, n
    <3> QED
      BY <1>1, <2>2
  <2> QED
    BY <2>2, <2>3
<1>5. Files!InsertAt(fs, i, f) = (u \o v) \o w
  BY DEF Files!InsertAt
<1> HIDE DEF n, u, v, w
<1>6. u \o v \in Seq(S) /\ Len(u \o v) = i
      /\ \A j \in 1..i : (u \o v)[j] = IF j <= i - 1 THEN u[j] ELSE v[j - (i - 1)]
  <2>0. u \in Seq(S) /\ v \in Seq(S)
    BY <1>2, <1>3
  <2>1. /\ u \o v \in Seq(S) /\ Len(u \o v) = Len(u) + Len(v)
        /\ \A j \in 1..(Len(u) + Len(v)) : (u \o v)[j] = IF j <= Len(u) THEN u[j] ELSE v[j - Len(u)]
    BY <2>0, ConcatProperties
  <2>2. Len(u) + Len(v) = i /\ Len(u) = i - 1
    BY <1>1, <1>2, <1>3
  <2> QED
    BY <2>1, <2>2
<1> DEFINE t == (u \o v) \o w
<1>7. t \in Seq(S) /\ Len(t) = n + 1
      /\ \A j \in 1..(n + 1) : t[j] = IF j <= i THEN (u \o v)[j] ELSE w[j - i]
  <2>0. u \o v \in Seq(S) /\ w \in Seq(S)
    BY <1>4, <1>6
  <2>1. /\ t \in Seq(S) /\ Len(t) = Len(u \o v) + Len(w)
        /\ \A j \in 1..(Len(u \o v) + Len(w)) : t[j] = IF j <= Len(u \o v) THEN (u \o v)[j] ELSE w[j - Len(u \o v)]
    BY <2>0, ConcatProperties
  <2>2. Len(u \o v) + Len(w) = n + 1 /\ Len(u \o v) = i
    BY <1>1, <1>4, <1>6
  <2> QED
    BY <2>1, <2>2
<1> HIDE DEF t
<1>8. ASSUME NEW j \in 1..(n + 1)
      PROVE  t[j] = IF j < i THEN fs[j] ELSE IF j = i THEN f ELSE fs[j - 1]
  <2>1. CASE j < i
    <3>1. j \in 1..i /\ j <= i - 1 /\ j \in 1..(i - 1) /\ j <= i
      BY <1>1, <2>1
    <3>2. t[j] = (u \o v)[j] /\ (u \o v)[j] = u[j] /\ u[j] = fs[j]
      BY <1>2, <1>6, <1>7, <3>1
    <3> QED
      BY <2>1, <3>2
  <2>2. CASE j = i
    <3>1. j \in 1..i /\ ~(j <= i - 1) /\ j - (i - 1) = 1 /\ j <= i
      BY <1>1, <2>2
    <3>2. t[j] = (u \o v)[j] /\ (u \o v)[j] = v[j - (i - 1)] /\ v[j - (i - 1)] = f
      BY <1>1, <1>3, <1>6, <1>7, <3>1
    <3>3. ~(j < i)
      BY <1>1, <2>2
    <3> QED
      BY <2>2, <3>2, <3>3
  <2>3. CASE j > i
    <3>1. ~(j <= i) /\ j - i \in 1..(n - i + 1) /\ i + (j - i) - 1 = j - 1 /\ ~(j < i) /\ j # i
      BY <1>1, <2>3
    <3>2. t[j] = w[j - i] /\ w[j - i] = fs[i + (j - i) - 1]
      BY <1>4, <1>7, <3>1
    <3> QED
      BY <3>1, <3>2
  <2> QED
    BY <1>1, <2>1, <2>2, <2>3
<1> QED
  BY <1>5, <1>7, <1>8 DEF t, n

\* A file is removed: the ones behind move down.
LEMMA RemoveIs ==
  ASSUME NEW S, NEW fs \in Seq(S), NEW i \in 1..Len(fs)
  PROVE  /\ Files!RemoveAt(fs, i) \in Seq(S) /\ Len(Files!RemoveAt(fs, i)) = Len(fs) - 1
         /\ \A j \in 1..(Len(fs) - 1) : Files!RemoveAt(fs, i)[j] = IF j < i THEN fs[j] ELSE fs[j + 1]
<1> DEFINE n == Len(fs)
           u == SubSeq(fs, 1, i - 1)
           w == SubSeq(fs, i + 1, n)
           t == u \o w
<1>1. n \in Nat /\ i \in Nat /\ i >= 1 /\ i <= n /\ \A j \in 1..n : fs[j] \in S
  OBVIOUS
<1>2. u \in Seq(S) /\ Len(u) = i - 1 /\ \A j \in 1..(i - 1) : u[j] = fs[j]
  BY <1>1
<1>4. w \in Seq(S) /\ Len(w) = n - i /\ \A j \in 1..(n - i) : w[j] = fs[i + j]
  <2>1. i + 1 \in Int /\ n \in Int /\ \A j \in (i + 1)..n : fs[j] \in S
    BY <1>1
  <2>2. w \in Seq(S) /\ Len(w) = (IF i + 1 <= n THEN n - (i + 1) + 1 ELSE 0)
        /\ \A j \in 1..(n - (i + 1) + 1) : w[j] = fs[(i + 1) + j - 1]
    BY <2>1, SubSeqProperties
  <2> HIDE DEF w, n
  <2>3. Len(w) = n - i
    BY <1>1, <2>2
  <2>4. \A j \in 1..(n - i) : j \in 1..(n - (i + 1) + 1) /\ (i + 1) + j - 1 = i + j
    BY <1>1
  <2> QED
    BY <2>2, <2>3, <2>4
<1>5. Files!RemoveAt(fs, i) = t
  BY DEF Files!RemoveAt
<1> HIDE DEF n, u, w
<1>7. t \in Seq(S) /\ Len(t) = n - 1
      /\ \A j \in 1..(n - 1) : t[j] = IF j <= i - 1 THEN u[j] ELSE w[j - (i - 1)]
  <2>0. u \in Seq(S) /\ w \in Seq(S)
    BY <1>2, <1>4
  <2>1. /\ t \in Seq(S) /\ Len(t) = Len(u) + Len(w)
        /\ \A j \in 1..(Len(u) + Len(w)) : t[j] = IF j <= Len(u) THEN u[j] ELSE w[j - Len(u)]
    BY <2>0, ConcatProperties
  <2>2. Len(u) + Len(w) = n - 1 /\ Len(u) = i - 1
    BY <1>1, <1>2, <1>4
  <2> QED
    BY <2>1, <2>2
<1> HIDE DEF t
<1>8. ASSUME NEW j \in 1..(n - 1)
      PROVE  t[j] = IF j < i THEN fs[j] ELSE fs[j + 1]
  <2>1. CASE j < i
    <3>1. j <= i - 1 /\ j \in 1..(i - 1)
      BY <1>1, <2>1
    <3> QED
      BY <1>2, <1>7, <2>1, <3>1
  <2>2. CASE ~(j < i)
    <3>1. ~(j <= i - 1) /\ j - (i - 1) \in 1..(n - i) /\ i + (j - (i - 1)) = j + 1
      BY <1>1, <2>2
    <3> QED
      BY <1>4, <1>7, <2>2, <3>1
  <2> QED
    BY <2>1, <2>2
<1> QED
  BY <1>5, <1>7, <1>8 DEF n

BodyPut(fs, i, b) == [fs EXCEPT ![i].body = b]
NamePut(fs, i, m) == [fs EXCEPT ![i].name = m]

\* A file of another body.
LEMMA BodySet ==
  ASSUME NEW fs, NEW top, HeldBy(fs, top), NEW i \in 1..Len(fs), NEW b \in Seq(Files!Lines), b # <<>>
  PROVE  LET t == BodyPut(fs, i, b)
         IN /\ HeldBy(t, top) /\ Len(t) = Len(fs)
            /\ \A j \in 1..Len(fs) : t[j].id = fs[j].id /\ t[j].name = fs[j].name
<1> DEFINE f == [fs[i] EXCEPT !.body = b]
           t == BodyPut(fs, i, b)
<1>1. /\ fs \in Seq(Files!File) /\ Len(fs) \in Nat /\ Len(fs) # 0 /\ top \in Nat /\ fs[i] \in Files!File
      /\ \A j \in 1..Len(fs) : fs[j].body # <<>> /\ fs[j].id \in 1..top
      /\ \A j, k \in 1..Len(fs) : fs[j].id = fs[k].id => j = k
  BY HeldByParts
<1>2. f \in Files!File /\ f.id = fs[i].id /\ f.name = fs[i].name /\ f.body = b
  BY <1>1 DEF Files!File
<1>3. t = [fs EXCEPT ![i] = f]
  BY <1>1 DEF BodyPut
<1> HIDE DEF f
<1> DEFINE w == [fs EXCEPT ![i] = f]
<1>4. t \in Seq(Files!File) /\ Len(t) = Len(fs) /\ \A j \in 1..Len(fs) : t[j] = IF j = i THEN f ELSE fs[j]
  <2>1. fs \in Seq(Files!File) /\ i \in 1..Len(fs) /\ f \in Files!File
    BY <1>1, <1>2
  <2>2. w \in Seq(Files!File) /\ Len(w) = Len(fs) /\ \A j \in 1..Len(fs) : w[j] = IF j = i THEN f ELSE fs[j]
    BY <2>1, ExceptSeq
  <2>3. t = w
    BY <1>3
  <2> HIDE DEF t, w
  <2> QED
    BY <2>2, <2>3
<1> HIDE DEF t
<1>5. \A j \in 1..Len(fs) : t[j].id = fs[j].id /\ t[j].name = fs[j].name /\ t[j].body # <<>>
  BY <1>1, <1>2, <1>4
<1>6. t # <<>>
  BY <1>1, <1>4
<1>7. HeldBy(t, top)
  BY <1>1, <1>4, <1>5, <1>6 DEF HeldBy
<1> QED
  BY <1>4, <1>5, <1>7 DEF t

\* A file of another name.
LEMMA NameSet ==
  ASSUME NEW fs, NEW top, HeldBy(fs, top), NEW i \in 1..Len(fs), NEW m \in Names
  PROVE  LET t == NamePut(fs, i, m)
         IN /\ HeldBy(t, top) /\ Len(t) = Len(fs)
            /\ \A j \in 1..Len(fs) : t[j].id = fs[j].id /\ t[j].name = IF j = i THEN m ELSE fs[j].name
<1> DEFINE f == [fs[i] EXCEPT !.name = m]
           t == NamePut(fs, i, m)
<1>1. /\ fs \in Seq(Files!File) /\ Len(fs) \in Nat /\ Len(fs) # 0 /\ top \in Nat /\ fs[i] \in Files!File
      /\ \A j \in 1..Len(fs) : fs[j].body # <<>> /\ fs[j].id \in 1..top
      /\ \A j, k \in 1..Len(fs) : fs[j].id = fs[k].id => j = k
  BY HeldByParts
<1>2. f \in Files!File /\ f.id = fs[i].id /\ f.name = m /\ f.body = fs[i].body
  BY <1>1 DEF Files!File
<1>3. t = [fs EXCEPT ![i] = f]
  BY <1>1 DEF NamePut
<1> HIDE DEF f
<1> DEFINE w == [fs EXCEPT ![i] = f]
<1>4. t \in Seq(Files!File) /\ Len(t) = Len(fs) /\ \A j \in 1..Len(fs) : t[j] = IF j = i THEN f ELSE fs[j]
  <2>1. fs \in Seq(Files!File) /\ i \in 1..Len(fs) /\ f \in Files!File
    BY <1>1, <1>2
  <2>2. w \in Seq(Files!File) /\ Len(w) = Len(fs) /\ \A j \in 1..Len(fs) : w[j] = IF j = i THEN f ELSE fs[j]
    BY <2>1, ExceptSeq
  <2>3. t = w
    BY <1>3
  <2> HIDE DEF t, w
  <2> QED
    BY <2>2, <2>3
<1> HIDE DEF t
<1>5. \A j \in 1..Len(fs) : /\ t[j].id = fs[j].id /\ t[j].body # <<>>
                            /\ t[j].name = IF j = i THEN m ELSE fs[j].name
  BY <1>1, <1>2, <1>4
<1>6. t # <<>>
  BY <1>1, <1>4
<1>7. HeldBy(t, top)
  BY <1>1, <1>4, <1>5, <1>6 DEF HeldBy
<1> QED
  BY <1>4, <1>5, <1>7 DEF t

\* A file more.
LEMMA FileInserted ==
  ASSUME NEW fs, NEW top, HeldBy(fs, top), NEW i \in 1..(Len(fs) + 1), NEW f \in Files!File, NEW more \in Nat,
         top <= more, f.body # <<>>, f.id \in 1..more, \A j \in 1..Len(fs) : fs[j].id # f.id
  PROVE  LET t == Files!InsertAt(fs, i, f)
         IN /\ HeldBy(t, more) /\ Len(t) = Len(fs) + 1 /\ t[i] = f
            /\ \A d, n : Has(t, d, n) <=> Has(fs, d, n) \/ (d = f.id /\ n = f.name)
<1> DEFINE t == Files!InsertAt(fs, i, f)
<1>1. /\ fs \in Seq(Files!File) /\ Len(fs) \in Nat /\ Len(fs) # 0 /\ top \in Nat
      /\ \A j \in 1..Len(fs) : fs[j].body # <<>> /\ fs[j].id \in 1..top
      /\ \A j, k \in 1..Len(fs) : fs[j].id = fs[k].id => j = k
  BY HeldByParts
<1>2. /\ t \in Seq(Files!File) /\ Len(t) = Len(fs) + 1
      /\ \A j \in 1..(Len(fs) + 1) : t[j] = IF j < i THEN fs[j] ELSE IF j = i THEN f ELSE fs[j - 1]
  BY <1>1, InsertIs
<1> HIDE DEF t
<1>3. \A j \in 1..Len(t) : IF j = i THEN t[j] = f ELSE \E k \in 1..Len(fs) : t[j] = fs[k] /\ k = IF j < i THEN j ELSE j - 1
  BY <1>1, <1>2
<1>4. t[i] = f
  BY <1>1, <1>2
<1>5. \A k \in 1..Len(fs) : \E j \in 1..Len(t) : t[j] = fs[k]
  <2> TAKE k \in 1..Len(fs)
  <2>1. CASE k < i
    BY <1>1, <1>2, <2>1
  <2>2. CASE ~(k < i)
    <3>1. k + 1 \in 1..(Len(fs) + 1) /\ ~(k + 1 < i) /\ k + 1 # i /\ (k + 1) - 1 = k
      BY <1>1, <2>2
    <3>2. t[k + 1] = fs[k]
      BY <1>2, <3>1
    <3> QED
      BY <1>2, <3>1, <3>2
  <2> QED
    BY <2>1, <2>2
<1>6. \A j \in 1..Len(t) : t[j].body # <<>> /\ t[j].id \in 1..more
  <2> TAKE j \in 1..Len(t)
  <2>1. CASE j = i
    BY <1>4, <2>1
  <2>2. CASE j # i
    <3>1. PICK k \in 1..Len(fs) : t[j] = fs[k]
      BY <1>3, <2>2
    <3>2. fs[k].body # <<>> /\ fs[k].id \in 1..top /\ top <= more
      BY <1>1
    <3>3. fs[k].id \in 1..more
      BY <1>1, <3>2
    <3> QED
      BY <3>1, <3>2, <3>3
  <2> QED
    BY <2>1, <2>2
<1>7. ASSUME NEW j \in 1..Len(t), NEW k \in 1..Len(t), t[j].id = t[k].id PROVE j = k
  <2>1. CASE j = i \/ k = i
    BY <1>3, <1>7, <2>1
  <2>2. CASE j # i /\ k # i
    <3>1. PICK a \in 1..Len(fs) : t[j] = fs[a] /\ a = IF j < i THEN j ELSE j - 1
      BY <1>3, <2>2
    <3>2. PICK b \in 1..Len(fs) : t[k] = fs[b] /\ b = IF k < i THEN k ELSE k - 1
      BY <1>3, <2>2
    <3>3. a = b
      BY <1>1, <1>7, <3>1, <3>2
    <3> QED
      BY <1>1, <1>2, <2>2, <3>1, <3>2, <3>3
  <2> QED
    BY <2>1, <2>2
<1>8. t # <<>>
  BY <1>1, <1>2
<1>9. HeldBy(t, more)
  BY <1>2, <1>6, <1>7, <1>8 DEF HeldBy
<1>10. ASSUME NEW d, NEW n PROVE Has(t, d, n) <=> Has(fs, d, n) \/ (d = f.id /\ n = f.name)
  <2>1. i \in 1..Len(t)
    BY <1>2
  <2>2. ASSUME Has(t, d, n) PROVE Has(fs, d, n) \/ (d = f.id /\ n = f.name)
    <3>1. PICK j \in 1..Len(t) : t[j].id = d /\ t[j].name = n
      BY <2>2 DEF Has
    <3>2. CASE j = i
      BY <1>4, <3>1, <3>2
    <3>3. CASE j # i
      <4>1. PICK k \in 1..Len(fs) : t[j] = fs[k]
        BY <1>3, <3>3
      <4> QED
        BY <3>1, <4>1 DEF Has
    <3> QED
      BY <3>2, <3>3
  <2>3. ASSUME Has(fs, d, n) PROVE Has(t, d, n)
    <3>1. PICK k \in 1..Len(fs) : fs[k].id = d /\ fs[k].name = n
      BY <2>3 DEF Has
    <3>2. PICK j \in 1..Len(t) : t[j] = fs[k]
      BY <1>5
    <3> QED
      BY <3>1, <3>2 DEF Has
  <2>4. ASSUME d = f.id, n = f.name PROVE Has(t, d, n)
    BY <1>4, <2>1, <2>4 DEF Has
  <2> QED
    BY <2>2, <2>3, <2>4
<1> QED
  BY <1>2, <1>4, <1>9, <1>10 DEF t

\* A file less.
LEMMA FileRemoved ==
  ASSUME NEW fs, NEW top, HeldBy(fs, top), NEW i \in 1..Len(fs), Len(fs) > 1
  PROVE  LET t == Files!RemoveAt(fs, i)
         IN /\ HeldBy(t, top) /\ Len(t) = Len(fs) - 1
            /\ \A d, n : Has(t, d, n) <=> Has(fs, d, n) /\ d # fs[i].id
<1> DEFINE t == Files!RemoveAt(fs, i)
<1>1. /\ fs \in Seq(Files!File) /\ Len(fs) \in Nat /\ Len(fs) # 0 /\ top \in Nat
      /\ \A j \in 1..Len(fs) : fs[j].body # <<>> /\ fs[j].id \in 1..top
      /\ \A j, k \in 1..Len(fs) : fs[j].id = fs[k].id => j = k
  BY HeldByParts
<1>2. /\ t \in Seq(Files!File) /\ Len(t) = Len(fs) - 1
      /\ \A j \in 1..(Len(fs) - 1) : t[j] = IF j < i THEN fs[j] ELSE fs[j + 1]
  BY <1>1, RemoveIs
<1> HIDE DEF t
<1>3. \A j \in 1..Len(t) : \E k \in 1..Len(fs) : t[j] = fs[k] /\ k # i /\ k = IF j < i THEN j ELSE j + 1
  <2> TAKE j \in 1..Len(t)
  <2>1. j \in 1..(Len(fs) - 1)
    BY <1>2
  <2>2. CASE j < i
    <3>1. j \in 1..Len(fs) /\ j # i /\ t[j] = fs[j]
      BY <1>1, <1>2, <2>1, <2>2
    <3> QED
      BY <2>2, <3>1
  <2>3. CASE ~(j < i)
    <3>1. j + 1 \in 1..Len(fs) /\ j + 1 # i /\ t[j] = fs[j + 1]
      BY <1>1, <1>2, <2>1, <2>3
    <3> QED
      BY <2>3, <3>1
  <2> QED
    BY <2>2, <2>3
<1>5. \A k \in 1..Len(fs) : k # i => \E j \in 1..Len(t) : t[j] = fs[k]
  <2> TAKE k \in 1..Len(fs)
  <2>1. CASE k < i
    BY <1>1, <1>2, <2>1
  <2>2. CASE k > i
    <3>1. k - 1 \in 1..(Len(fs) - 1) /\ ~(k - 1 < i) /\ (k - 1) + 1 = k
      BY <1>1, <2>2
    <3>2. t[k - 1] = fs[k]
      BY <1>2, <3>1
    <3> QED
      BY <1>2, <3>1, <3>2
  <2> QED
    BY <1>1, <2>1, <2>2
<1>6. \A j \in 1..Len(t) : t[j].body # <<>> /\ t[j].id \in 1..top
  BY <1>1, <1>3
<1>7. ASSUME NEW j \in 1..Len(t), NEW k \in 1..Len(t), t[j].id = t[k].id PROVE j = k
  <2>1. PICK a \in 1..Len(fs) : t[j] = fs[a] /\ a = IF j < i THEN j ELSE j + 1
    BY <1>3
  <2>2. PICK b \in 1..Len(fs) : t[k] = fs[b] /\ b = IF k < i THEN k ELSE k + 1
    BY <1>3
  <2>3. a = b
    BY <1>1, <1>7, <2>1, <2>2
  <2> QED
    BY <1>1, <1>2, <2>1, <2>2, <2>3
<1>8. t # <<>>
  BY <1>1, <1>2
<1>9. HeldBy(t, top)
  BY <1>1, <1>2, <1>6, <1>7, <1>8 DEF HeldBy
<1>10. ASSUME NEW d, NEW n PROVE Has(t, d, n) <=> Has(fs, d, n) /\ d # fs[i].id
  <2>1. ASSUME Has(t, d, n) PROVE Has(fs, d, n) /\ d # fs[i].id
    <3>1. PICK j \in 1..Len(t) : t[j].id = d /\ t[j].name = n
      BY <2>1 DEF Has
    <3>2. PICK k \in 1..Len(fs) : t[j] = fs[k] /\ k # i
      BY <1>3
    <3>3. fs[k].id # fs[i].id
      BY <1>1, <3>2
    <3> QED
      BY <3>1, <3>2, <3>3 DEF Has
  <2>2. ASSUME Has(fs, d, n), d # fs[i].id PROVE Has(t, d, n)
    <3>1. PICK k \in 1..Len(fs) : fs[k].id = d /\ fs[k].name = n
      BY <2>2 DEF Has
    <3>2. PICK j \in 1..Len(t) : t[j] = fs[k]
      BY <1>5, <2>2, <3>1
    <3> QED
      BY <3>1, <3>2 DEF Has
  <2> QED
    BY <2>1, <2>2
<1> QED
  BY <1>2, <1>9, <1>10 DEF t

\* A file elsewhere.
LEMMA FileMoved ==
  ASSUME NEW fs, NEW top, HeldBy(fs, top), NEW i \in 1..Len(fs), NEW j \in 1..Len(fs), i # j
  PROVE  LET t == Files!moveFile(fs, i, j)
         IN /\ HeldBy(t, top) /\ Len(t) = Len(fs) /\ t[j] = fs[i]
            /\ \A d, n : Has(t, d, n) <=> Has(fs, d, n)
<1> DEFINE r == Files!RemoveAt(fs, i)
           t == Files!InsertAt(r, j, fs[i])
<1>1. /\ Len(fs) \in Nat /\ top \in Nat /\ fs[i] \in Files!File /\ fs[i].body # <<>> /\ fs[i].id \in 1..top
      /\ \A k, l \in 1..Len(fs) : fs[k].id = fs[l].id => k = l
  BY HeldByParts
<1>2. Len(fs) > 1
  BY <1>1
<1>3. HeldBy(r, top) /\ Len(r) = Len(fs) - 1 /\ \A d, n : Has(r, d, n) <=> Has(fs, d, n) /\ d # fs[i].id
  BY <1>2, FileRemoved
<1> HIDE DEF r
<1>4. \A k \in 1..Len(r) : r[k].id # fs[i].id
  BY <1>3 DEF Has
<1>5. j \in 1..(Len(r) + 1) /\ top <= top
  BY <1>1, <1>3
<1>6. /\ HeldBy(t, top) /\ Len(t) = Len(r) + 1 /\ t[j] = fs[i]
      /\ \A d, n : Has(t, d, n) <=> Has(r, d, n) \/ (d = fs[i].id /\ n = fs[i].name)
  BY <1>1, <1>3, <1>4, <1>5, FileInserted
<1> HIDE DEF t
<1>7. ASSUME NEW d, NEW n PROVE Has(t, d, n) <=> Has(fs, d, n)
  <2>1. Has(t, d, n) <=> (Has(fs, d, n) /\ d # fs[i].id) \/ (d = fs[i].id /\ n = fs[i].name)
    BY <1>3, <1>6
  <2>2. d = fs[i].id => (Has(fs, d, n) <=> n = fs[i].name)
    BY <1>1 DEF Has
  <2> QED
    BY <2>1, <2>2
<1>8. Files!moveFile(fs, i, j) = t
  BY DEF Files!moveFile, t, r
<1>9. Len(t) = Len(fs)
  BY <1>1, <1>3, <1>6
<1> QED
  BY <1>6, <1>7, <1>8, <1>9

\* IndexOf() finds a file of the name, the first one.
LEMMA IndexIs ==
  ASSUME NEW fs, NEW top, HeldBy(fs, top), NEW n
  PROVE  /\ Files!IndexOf(fs, n) \in 0..Len(fs)
         /\ Files!IndexOf(fs, n) = 0 <=> \A i \in 1..Len(fs) : fs[i].name # n
         /\ Files!IndexOf(fs, n) # 0 => Files!IndexOf(fs, n) \in 1..Len(fs) /\ fs[Files!IndexOf(fs, n)].name = n
<1> DEFINE T == {i \in DOMAIN fs : fs[i].name = n}
           P(i) == i \in DOMAIN fs /\ fs[i].name = n /\ \A j \in 1..(i - 1) : fs[j].name # n
<1>1. DOMAIN fs = 1..Len(fs) /\ Len(fs) \in Nat
  BY HeldByParts
<1>2. CASE T = {}
  BY <1>1, <1>2 DEF Files!IndexOf
<1>3. CASE T # {}
  <2>1. T \in SUBSET Nat
    BY <1>1
  <2>2. PICK m \in T : \A i \in T : m <= i
    BY <1>3, <2>1, LeastOne
  <2>3. \A j \in 1..(m - 1) : fs[j].name # n
    BY <1>1, <2>2
  <2>4. P(m)
    BY <2>2, <2>3
  <2>5. Files!IndexOf(fs, n) = CHOOSE i \in DOMAIN fs : fs[i].name = n /\ \A j \in 1..(i - 1) : fs[j].name # n
    BY <1>3 DEF Files!IndexOf
  <2>6. P(Files!IndexOf(fs, n))
    BY <2>4, <2>5
  <2>7. Files!IndexOf(fs, n) \in 1..Len(fs) /\ fs[Files!IndexOf(fs, n)].name = n
    BY <1>1, <2>6
  <2> QED
    BY <1>1, <2>7
<1> QED
  BY <1>2, <1>3

\* Names are told apart: by place, and by identity.
OneEach(fs) == \A d, e, n : Has(fs, d, n) /\ Has(fs, e, n) => d = e

\* No two names are alike: of places, and of identities.
LEMMA UniqueIs ==
  ASSUME NEW fs, NEW top, HeldBy(fs, top)
  PROVE  /\ Files!Unique(fs) <=> \A i, j \in 1..Len(fs) : fs[i].name = fs[j].name => i = j
         /\ Files!Unique(fs) <=> OneEach(fs)
<1>1. /\ DOMAIN fs = 1..Len(fs) /\ Len(fs) \in Nat
      /\ \A i, j \in 1..Len(fs) : fs[i].id = fs[j].id => i = j
  BY HeldByParts
<1>2. Files!Unique(fs) <=> \A i \in 1..Len(fs) : \A j \in 1..(i - 1) : fs[j].name # fs[i].name
  BY <1>1 DEF Files!Unique, Files!DuplicateName
<1>3. Files!Unique(fs) <=> \A i, j \in 1..Len(fs) : fs[i].name = fs[j].name => i = j
  <2>1. ASSUME Files!Unique(fs), NEW i \in 1..Len(fs), NEW j \in 1..Len(fs), fs[i].name = fs[j].name PROVE i = j
    <3>1. CASE i < j
      <4>1. i \in 1..(j - 1)
        BY <1>1, <3>1
      <4> QED
        BY <1>2, <2>1, <4>1
    <3>2. CASE j < i
      <4>1. j \in 1..(i - 1)
        BY <1>1, <3>2
      <4> QED
        BY <1>2, <2>1, <4>1
    <3> QED
      BY <1>1, <3>1, <3>2
  <2>2. ASSUME \A i, j \in 1..Len(fs) : fs[i].name = fs[j].name => i = j PROVE Files!Unique(fs)
    <3>1. ASSUME NEW i \in 1..Len(fs), NEW j \in 1..(i - 1) PROVE fs[j].name # fs[i].name
      <4>1. j \in 1..Len(fs) /\ j # i
        BY <1>1
      <4> QED
        BY <2>2, <4>1
    <3> QED
      BY <1>2, <3>1
  <2> QED
    BY <2>1, <2>2
<1>4. (\A i, j \in 1..Len(fs) : fs[i].name = fs[j].name => i = j) <=> OneEach(fs)
  <2>1. ASSUME \A i, j \in 1..Len(fs) : fs[i].name = fs[j].name => i = j,
               NEW d, NEW e, NEW n, Has(fs, d, n), Has(fs, e, n)
        PROVE  d = e
    <3>1. PICK i \in 1..Len(fs) : fs[i].id = d /\ fs[i].name = n
      BY <2>1 DEF Has
    <3>2. PICK j \in 1..Len(fs) : fs[j].id = e /\ fs[j].name = n
      BY <2>1 DEF Has
    <3> QED
      BY <2>1, <3>1, <3>2
  <2>2. ASSUME OneEach(fs), NEW i \in 1..Len(fs), NEW j \in 1..Len(fs), fs[i].name = fs[j].name PROVE i = j
    <3>1. Has(fs, fs[i].id, fs[i].name) /\ Has(fs, fs[j].id, fs[i].name)
      BY <2>2 DEF Has
    <3>2. fs[i].id = fs[j].id
      BY <2>2, <3>1 DEF OneEach
    <3> QED
      BY <1>1, <3>2
  <2> QED
    BY <2>1, <2>2 DEF OneEach
<1> QED
  BY <1>3, <1>4

-----------------------------------------------------------------------------
(* Images under the names of their files, while a batch is planned: `M` are *)
(* the images renamed so far, `gv` the identities that were given some, and *)
(* `del` the names of the files deleted so far, whose images go at the end. *)

Placed(fs, M, gv, del) ==
  /\ gv # {} => OneEach(fs)
  /\ \A d, n : Has(fs, d, n) => IF n \in del THEN d \notin gv ELSE M[n] = IF d \in gv THEN d ELSE 0
  /\ \A n \in Names : n \notin del /\ M[n] # 0 => \E d : Has(fs, d, n)

\* The same names, whatever the bodies and the order.
LEMMA PlacedSame ==
  ASSUME NEW fs, NEW t, NEW M, NEW gv, NEW del, Placed(fs, M, gv, del), \A d, n : Has(t, d, n) <=> Has(fs, d, n)
  PROVE  Placed(t, M, gv, del)
<1>1. gv # {} => OneEach(t)
  BY DEF Placed, OneEach
<1> QED
  BY <1>1 DEF Placed

\* A file more, of a name no file has.
LEMMA PlacedInsert ==
  ASSUME NEW fs, NEW t, NEW M, NEW gv, NEW del, NEW d, NEW n \in Names, Placed(fs, M, gv, del),
         d \notin gv, \A e : ~Has(fs, e, n), \A e, k : Has(t, e, k) <=> Has(fs, e, k) \/ (e = d /\ k = n)
  PROVE  Placed(t, M, gv, del)
<1>1. gv # {} => OneEach(t)
  BY DEF Placed, OneEach
<1>2. ASSUME NEW e, NEW k, Has(t, e, k)
      PROVE  IF k \in del THEN e \notin gv ELSE M[k] = IF e \in gv THEN e ELSE 0
  BY <1>2 DEF Placed
<1>3. \A k \in Names : k \notin del /\ M[k] # 0 => \E e : Has(t, e, k)
  BY DEF Placed
<1> QED
  BY <1>1, <1>2, <1>3 DEF Placed

\* A file less.
LEMMA PlacedRemove ==
  ASSUME NEW fs, NEW t, NEW M, NEW gv, NEW del, NEW d, NEW n \in Names, Placed(fs, M, gv, del),
         Has(fs, d, n), \A k : Has(fs, d, k) => k = n, \A e, k : Has(t, e, k) <=> Has(fs, e, k) /\ e # d
  PROVE  Placed(t, M, gv, del \cup {n})
<1>1. gv # {} => OneEach(t)
  BY DEF Placed, OneEach
<1>2. ASSUME NEW e, NEW k, Has(t, e, k)
      PROVE  IF k \in del \cup {n} THEN e \notin gv ELSE M[k] = IF e \in gv THEN e ELSE 0
  <2>1. Has(fs, e, k) /\ e # d
    BY <1>2
  <2>2. k = n => e \notin gv
    BY <2>1 DEF Placed, OneEach
  <2>3. IF k \in del THEN e \notin gv ELSE M[k] = IF e \in gv THEN e ELSE 0
    BY <2>1 DEF Placed
  <2> QED
    BY <2>2, <2>3
<1>3. ASSUME NEW k \in Names, k \notin del \cup {n}, M[k] # 0 PROVE \E e : Has(t, e, k)
  <2>1. PICK e : Has(fs, e, k)
    BY <1>3 DEF Placed
  <2>2. e # d
    BY <1>3, <2>1
  <2> QED
    BY <2>1, <2>2
<1> QED
  BY <1>1, <1>2, <1>3 DEF Placed

\* What moving an image leaves under each name.
LEMMA MovedIs ==
  ASSUME NEW M \in [Names -> Nat], NEW n \in Names, NEW m \in Names, n # m
  PROVE  /\ Files!Moved(M, n, m) \in [Names -> Nat]
         /\ \A k \in Names : Files!Moved(M, n, m)[k] =
              IF k = n THEN 0 ELSE IF k = m /\ M[n] # 0 THEN M[n] ELSE M[k]
BY DEF Files!Moved, Files!None

\* A file of another name, no other's.
LEMMA PlacedRename ==
  ASSUME NEW fs, NEW t, NEW M \in [Names -> Nat], NEW gv, NEW del, NEW d, NEW n \in Names, NEW m \in Names, n # m,
         Placed(fs, M, gv, del), n \notin del, m \notin del, 0 \notin gv,
         \A e, k : Has(fs, e, k) => k \in Names,
         Has(fs, d, n), \A k : Has(fs, d, k) => k = n, \A e : e # d => ~Has(fs, e, m),
         \A e, k : Has(t, e, k) <=> (Has(fs, e, k) /\ e # d) \/ (e = d /\ k = m)
  PROVE  Placed(t, Files!Moved(M, n, m), gv, del)
<1> DEFINE W == Files!Moved(M, n, m)
<1>1. \A k \in Names : W[k] = IF k = n THEN 0 ELSE IF k = m /\ M[n] # 0 THEN M[n] ELSE M[k]
  BY MovedIs
<1> HIDE DEF W
<1>2. gv # {} => OneEach(t)
  BY DEF Placed, OneEach
<1>3. M[n] = IF d \in gv THEN d ELSE 0
  BY DEF Placed
<1>4. \A e : ~Has(fs, e, m)
  OBVIOUS
<1>5. M[m] = 0
  BY <1>4 DEF Placed
<1>6. ASSUME NEW e, NEW k, Has(t, e, k)
      PROVE  IF k \in del THEN e \notin gv ELSE W[k] = IF e \in gv THEN e ELSE 0
  <2>1. CASE e = d
    <3>1. k = m
      BY <1>6, <2>1
    <3>2. W[m] = IF M[n] # 0 THEN M[n] ELSE M[m]
      BY <1>1
    <3> QED
      BY <1>3, <1>5, <2>1, <3>1, <3>2
  <2>2. CASE e # d
    <3>1. Has(fs, e, k) /\ k # m /\ k \in Names
      BY <1>4, <1>6, <2>2
    <3>2. CASE k = n
      <4>1. gv = {}
        BY <2>2, <3>1, <3>2 DEF Placed, OneEach
      <4>2. W[k] = 0
        BY <1>1, <3>2
      <4> QED
        BY <4>1, <4>2
    <3>3. CASE k # n
      <4>1. W[k] = M[k]
        BY <1>1, <3>1, <3>3
      <4> QED
        BY <3>1, <4>1 DEF Placed
    <3> QED
      BY <3>2, <3>3
  <2> QED
    BY <2>1, <2>2
<1>7. ASSUME NEW k \in Names, k \notin del, W[k] # 0 PROVE \E e : Has(t, e, k)
  <2>1. CASE k = m
    BY <2>1
  <2>2. CASE k # m
    <3>1. k # n /\ M[k] # 0
      BY <1>1, <1>7, <2>2
    <3>2. PICK e : Has(fs, e, k)
      BY <1>7, <3>1 DEF Placed
    <3>3. e # d
      BY <3>1, <3>2
    <3> QED
      BY <3>2, <3>3
  <2> QED
    BY <2>1, <2>2
<1> QED
  BY <1>2, <1>6, <1>7 DEF Placed, W

\* The images of the deleted names go.
LEMMA PlacedEnd ==
  ASSUME NEW fs, NEW M, NEW gv, NEW del, Placed(fs, M, gv, del), NEW live, NEW L,
         \A d, n : Has(fs, d, n) => n \in Names /\ d \in live, L = [n \in Names |-> IF n \in del THEN 0 ELSE M[n]]
  PROVE  Placed(fs, L, gv \cap live, {})
<1>1. gv \cap live # {} => OneEach(fs)
  BY DEF Placed
<1>2. ASSUME NEW d, NEW n, Has(fs, d, n) PROVE L[n] = IF d \in gv \cap live THEN d ELSE 0
  BY <1>2 DEF Placed
<1>3. \A n \in Names : L[n] # 0 => \E d : Has(fs, d, n)
  BY DEF Placed
<1> QED
  BY <1>1, <1>2, <1>3 DEF Placed

\* A file is given its images.
LEMMA PlacedGiven ==
  ASSUME NEW fs, NEW M \in [Names -> Nat], NEW gv, NEW d, NEW n \in Names, Placed(fs, M, gv, {}), Has(fs, d, n), OneEach(fs),
         \A k : Has(fs, d, k) => k = n, \A e, k : Has(fs, e, k) => k \in Names
  PROVE  Placed(fs, [M EXCEPT ![n] = d], gv \cup {d}, {})
<1> DEFINE W == [M EXCEPT ![n] = d]
<1>1. W[n] = d /\ \A k \in Names : k # n => W[k] = M[k]
  OBVIOUS
<1> HIDE DEF W
<1>2. ASSUME NEW e, NEW k, Has(fs, e, k) PROVE W[k] = IF e \in gv \cup {d} THEN e ELSE 0
  <2>1. CASE k = n
    <3>1. e = d
      BY <1>2, <2>1 DEF OneEach
    <3> QED
      BY <1>1, <2>1, <3>1
  <2>2. CASE k # n
    <3>1. e # d /\ k \in Names
      BY <1>2, <2>2
    <3>2. M[k] = IF e \in gv THEN e ELSE 0
      BY <1>2 DEF Placed
    <3> QED
      BY <1>1, <2>2, <3>1, <3>2
  <2> QED
    BY <2>1, <2>2
<1>3. \A k \in Names : W[k] # 0 => \E e : Has(fs, e, k)
  BY <1>1 DEF Placed
<1> QED
  BY <1>2, <1>3 DEF Placed, W

\* A tab is what its identity and its name say.
LEMMA HasIs ==
  ASSUME NEW fs, NEW top, HeldBy(fs, top)
  PROVE  /\ \A i \in 1..Len(fs) : Has(fs, fs[i].id, fs[i].name)
         /\ \A d, n : Has(fs, d, n) => n \in Names /\ d \in Files!IdsOf(fs) /\ d \in 1..top /\ d \in Nat /\ d # 0
         /\ \A d, n, m : Has(fs, d, n) /\ Has(fs, d, m) => n = m
         /\ \A d : d \in Files!IdsOf(fs) <=> \E n : Has(fs, d, n)
<1>1. /\ DOMAIN fs = 1..Len(fs) /\ top \in Nat
      /\ \A i \in 1..Len(fs) : fs[i].name \in Names /\ fs[i].id \in 1..top
      /\ \A i, j \in 1..Len(fs) : fs[i].id = fs[j].id => i = j
  BY HeldByParts
<1>2. \A i \in 1..Len(fs) : Has(fs, fs[i].id, fs[i].name)
  BY DEF Has
<1>3. \A d : d \in Files!IdsOf(fs) <=> \E i \in 1..Len(fs) : fs[i].id = d
  BY <1>1 DEF Files!IdsOf
<1>4. \A d, n : Has(fs, d, n) => n \in Names /\ d \in Files!IdsOf(fs) /\ d \in 1..top
  BY <1>1, <1>3 DEF Has
<1>5. \A d \in 1..top : d \in Nat /\ d # 0
  BY <1>1
<1>6. ASSUME NEW d, NEW n, NEW m, Has(fs, d, n), Has(fs, d, m) PROVE n = m
  BY <1>1, <1>6 DEF Has
<1>7. \A d : d \in Files!IdsOf(fs) => \E n : Has(fs, d, n)
  BY <1>2, <1>3
<1> QED
  BY <1>2, <1>4, <1>5, <1>6, <1>7

-----------------------------------------------------------------------------
(* A batch that is planned.                                                 *)

\* A plan, field by field.
Plan(a1, a2, a3, a4, a5, a6, a7, a8) ==
  [ok |-> a1, files |-> a2, active |-> a3, renamed |-> a4, deleted |-> a5, destructive |-> a6, ids |-> a7, reused |-> a8]

Shaped(p) == \E a1, a2, a3, a4, a5, a6, a7, a8 : p = Plan(a1, a2, a3, a4, a5, a6, a7, a8)

\* The fields of a plan.
LEMMA PlanFields ==
  ASSUME NEW a1, NEW a2, NEW a3, NEW a4, NEW a5, NEW a6, NEW a7, NEW a8
  PROVE  LET p == Plan(a1, a2, a3, a4, a5, a6, a7, a8)
         IN /\ p.ok = a1 /\ p.files = a2 /\ p.active = a3 /\ p.renamed = a4 /\ p.deleted = a5 /\ p.destructive = a6
            /\ p.ids = a7 /\ p.reused = a8 /\ Shaped(p)
<1> DEFINE p == Plan(a1, a2, a3, a4, a5, a6, a7, a8)
<1>1. /\ p.ok = a1 /\ p.files = a2 /\ p.active = a3 /\ p.renamed = a4 /\ p.deleted = a5 /\ p.destructive = a6
      /\ p.ids = a7 /\ p.reused = a8
  BY DEF Plan
<1>2. Shaped(p)
  BY DEF Shaped
<1> QED
  BY <1>1, <1>2

\* Refusing changes nothing but the verdict.
LEMMA RefusedIs ==
  ASSUME NEW p, Shaped(p)
  PROVE  LET q == Files!Refused(p)
         IN /\ Shaped(q) /\ q.files = p.files /\ q.active = p.active /\ q.renamed = p.renamed
            /\ q.deleted = p.deleted /\ q.ids = p.ids /\ q.reused = p.reused
<1>0. PICK a1, a2, a3, a4, a5, a6, a7, a8 : p = Plan(a1, a2, a3, a4, a5, a6, a7, a8)
  BY DEF Shaped
<1> DEFINE q == Files!Refused(p)
           no == FALSE
<1>1. q = [p EXCEPT !.ok = no]
  BY DEF Files!Refused
<1> HIDE DEF q, no
<1>2. q = Plan(no, a2, a3, a4, a5, a6, a7, a8)
  BY <1>0, <1>1 DEF Plan
<1>3. /\ Shaped(q) /\ q.files = p.files /\ q.active = p.active /\ q.renamed = p.renamed
      /\ q.deleted = p.deleted /\ q.ids = p.ids /\ q.reused = p.reused
  BY <1>0, <1>2, PlanFields
<1> QED
  BY <1>3 DEF q

\* What the operations of a batch do to a plan.
EditOf(p, i, b) ==
  [p EXCEPT !.files[i].body = b]

CreateOf(p, at, n, b) ==
  [p EXCEPT !.files = Files!InsertAt(@, at, [id |-> p.ids + 1, name |-> n, body |-> b]),
     !.active = Files!ActiveAfterCreate(@, at), !.ids = @ + 1, !.destructive = TRUE]

RenameOf(p, i, n, m) ==
  [p EXCEPT !.files[i].name = m, !.renamed = Append(@, <<n, m>>),
     !.reused = @ \/ {n, m} \cap p.deleted # {}]

DeleteOf(p, i, n) ==
  [p EXCEPT !.files = Files!RemoveAt(@, i), !.active = Files!ActiveAfterDelete(@, i, Len(p.files) - 1),
     !.deleted = @ \cup {n}, !.destructive = TRUE]

\* What an edit does to a plan.
LEMMA EditedIs ==
  ASSUME NEW p, Shaped(p), NEW i, NEW b
  PROVE  LET q == EditOf(p, i, b)
         IN /\ Shaped(q) /\ q.files = BodyPut(p.files, i, b)
            /\ q.active = p.active /\ q.renamed = p.renamed
            /\ q.deleted = p.deleted /\ q.ids = p.ids /\ q.reused = p.reused
<1> DEFINE q == EditOf(p, i, b)
           v == BodyPut(p.files, i, b)
<1>1. q = [p EXCEPT !.files = v]
  BY DEF EditOf, BodyPut
<1> HIDE DEF q, v
<1>0. PICK a1, a2, a3, a4, a5, a6, a7, a8 : p = Plan(a1, a2, a3, a4, a5, a6, a7, a8)
  BY DEF Shaped
<1> DEFINE s1 == [p EXCEPT !.files = v]
<1>2. q = s1
  BY <1>1, Zenon
<1> HIDE DEF s1
<1>3. s1 = Plan(a1, v, a3, a4, a5, a6, a7, a8)
  <2>1. s1 = [p EXCEPT !.files = v]
    BY DEF s1
  <2> QED
    BY <1>0, <2>1 DEF Plan
<1>4. /\ Shaped(q) /\ q.files = v
      /\ q.active = p.active /\ q.renamed = p.renamed
      /\ q.deleted = p.deleted /\ q.ids = p.ids /\ q.reused = p.reused
  BY <1>0, <1>2, <1>3, PlanFields
<1> QED
  BY <1>4 DEF q, v

\* What a creation does to a plan.
LEMMA CreatedIs ==
  ASSUME NEW p, Shaped(p), NEW at, NEW n, NEW b
  PROVE  LET q == CreateOf(p, at, n, b)
         IN /\ Shaped(q) /\ q.files = Files!InsertAt(p.files, at, [id |-> p.ids + 1, name |-> n, body |-> b])
            /\ q.active = Files!ActiveAfterCreate(p.active, at) /\ q.renamed = p.renamed
            /\ q.deleted = p.deleted /\ q.ids = p.ids + 1 /\ q.reused = p.reused
<1> DEFINE q == CreateOf(p, at, n, b)
           v == Files!InsertAt(p.files, at, [id |-> p.ids + 1, name |-> n, body |-> b])
           a == Files!ActiveAfterCreate(p.active, at)
           k == p.ids + 1
           yes == TRUE
<1>1. q = [p EXCEPT !.files = v, !.active = a, !.ids = k, !.destructive = yes]
  BY DEF CreateOf
<1> HIDE DEF yes, q, v, a, k
<1>0. PICK a1, a2, a3, a4, a5, a6, a7, a8 : p = Plan(a1, a2, a3, a4, a5, a6, a7, a8)
  BY DEF Shaped
<1> DEFINE s1 == [p EXCEPT !.files = v]
           s2 == [s1 EXCEPT !.active = a]
           s3 == [s2 EXCEPT !.ids = k]
           s4 == [s3 EXCEPT !.destructive = yes]
<1>2. q = s4
  BY <1>1, Zenon
<1> HIDE DEF s1, s2, s3, s4
<1>3. s1 = Plan(a1, v, a3, a4, a5, a6, a7, a8)
  <2>1. s1 = [p EXCEPT !.files = v]
    BY DEF s1
  <2> QED
    BY <1>0, <2>1 DEF Plan
<1>4. s2 = Plan(a1, v, a, a4, a5, a6, a7, a8)
  <2>1. s2 = [s1 EXCEPT !.active = a]
    BY DEF s2
  <2> QED
    BY <1>3, <2>1 DEF Plan
<1>5. s3 = Plan(a1, v, a, a4, a5, a6, k, a8)
  <2>1. s3 = [s2 EXCEPT !.ids = k]
    BY DEF s3
  <2> QED
    BY <1>4, <2>1 DEF Plan
<1>6. s4 = Plan(a1, v, a, a4, a5, yes, k, a8)
  <2>1. s4 = [s3 EXCEPT !.destructive = yes]
    BY DEF s4
  <2> QED
    BY <1>5, <2>1 DEF Plan
<1>7. /\ Shaped(q) /\ q.files = v
      /\ q.active = a /\ q.renamed = p.renamed
      /\ q.deleted = p.deleted /\ q.ids = k /\ q.reused = p.reused
  BY <1>0, <1>2, <1>6, PlanFields
<1> QED
  BY <1>7 DEF q, v, a, k

\* What a rename does to a plan.
LEMMA NamedAnew ==
  ASSUME NEW p, Shaped(p), NEW i, NEW n, NEW m
  PROVE  LET q == RenameOf(p, i, n, m)
         IN /\ Shaped(q) /\ q.files = NamePut(p.files, i, m)
            /\ q.active = p.active /\ q.renamed = Append(p.renamed, <<n, m>>)
            /\ q.deleted = p.deleted /\ q.ids = p.ids /\ q.reused = (p.reused \/ {n, m} \cap p.deleted # {})
<1> DEFINE q == RenameOf(p, i, n, m)
           v == NamePut(p.files, i, m)
           r == Append(p.renamed, <<n, m>>)
           u == p.reused \/ {n, m} \cap p.deleted # {}
<1>1. q = [p EXCEPT !.files = v, !.renamed = r, !.reused = u]
  BY Zenon DEF RenameOf, NamePut
<1> HIDE DEF q, v, r, u
<1>0. PICK a1, a2, a3, a4, a5, a6, a7, a8 : p = Plan(a1, a2, a3, a4, a5, a6, a7, a8)
  BY DEF Shaped
<1> DEFINE s1 == [p EXCEPT !.files = v]
           s2 == [s1 EXCEPT !.renamed = r]
           s3 == [s2 EXCEPT !.reused = u]
<1>2. q = s3
  BY <1>1, Zenon
<1> HIDE DEF s1, s2, s3
<1>3. s1 = Plan(a1, v, a3, a4, a5, a6, a7, a8)
  <2>1. s1 = [p EXCEPT !.files = v]
    BY DEF s1
  <2> QED
    BY <1>0, <2>1 DEF Plan
<1>4. s2 = Plan(a1, v, a3, r, a5, a6, a7, a8)
  <2>1. s2 = [s1 EXCEPT !.renamed = r]
    BY DEF s2
  <2> QED
    BY <1>3, <2>1 DEF Plan
<1>5. s3 = Plan(a1, v, a3, r, a5, a6, a7, u)
  <2>1. s3 = [s2 EXCEPT !.reused = u]
    BY DEF s3
  <2> QED
    BY <1>4, <2>1 DEF Plan
<1>6. /\ Shaped(q) /\ q.files = v
      /\ q.active = p.active /\ q.renamed = r
      /\ q.deleted = p.deleted /\ q.ids = p.ids /\ q.reused = u
  BY <1>0, <1>2, <1>5, PlanFields
<1> QED
  BY <1>6, Zenon DEF q, v, r, u

\* What a deletion does to a plan.
LEMMA DeletedIs ==
  ASSUME NEW p, Shaped(p), NEW i, NEW n
  PROVE  LET q == DeleteOf(p, i, n)
         IN /\ Shaped(q) /\ q.files = Files!RemoveAt(p.files, i)
            /\ q.active = Files!ActiveAfterDelete(p.active, i, Len(p.files) - 1) /\ q.renamed = p.renamed
            /\ q.deleted = p.deleted \cup {n} /\ q.ids = p.ids /\ q.reused = p.reused
<1> DEFINE q == DeleteOf(p, i, n)
           v == Files!RemoveAt(p.files, i)
           a == Files!ActiveAfterDelete(p.active, i, Len(p.files) - 1)
           c == p.deleted \cup {n}
           yes == TRUE
<1>1. q = [p EXCEPT !.files = v, !.active = a, !.deleted = c, !.destructive = yes]
  BY DEF DeleteOf
<1> HIDE DEF yes, q, v, a, c
<1>0. PICK a1, a2, a3, a4, a5, a6, a7, a8 : p = Plan(a1, a2, a3, a4, a5, a6, a7, a8)
  BY DEF Shaped
<1> DEFINE s1 == [p EXCEPT !.files = v]
           s2 == [s1 EXCEPT !.active = a]
           s3 == [s2 EXCEPT !.deleted = c]
           s4 == [s3 EXCEPT !.destructive = yes]
<1>2. q = s4
  BY <1>1, Zenon
<1> HIDE DEF s1, s2, s3, s4
<1>3. s1 = Plan(a1, v, a3, a4, a5, a6, a7, a8)
  <2>1. s1 = [p EXCEPT !.files = v]
    BY DEF s1
  <2> QED
    BY <1>0, <2>1 DEF Plan
<1>4. s2 = Plan(a1, v, a, a4, a5, a6, a7, a8)
  <2>1. s2 = [s1 EXCEPT !.active = a]
    BY DEF s2
  <2> QED
    BY <1>3, <2>1 DEF Plan
<1>5. s3 = Plan(a1, v, a, a4, c, a6, a7, a8)
  <2>1. s3 = [s2 EXCEPT !.deleted = c]
    BY DEF s3
  <2> QED
    BY <1>4, <2>1 DEF Plan
<1>6. s4 = Plan(a1, v, a, a4, c, yes, a7, a8)
  <2>1. s4 = [s3 EXCEPT !.destructive = yes]
    BY DEF s4
  <2> QED
    BY <1>5, <2>1 DEF Plan
<1>7. /\ Shaped(q) /\ q.files = v
      /\ q.active = a /\ q.renamed = p.renamed
      /\ q.deleted = c /\ q.ids = p.ids /\ q.reused = p.reused
  BY <1>0, <1>2, <1>6, PlanFields
<1> QED
  BY <1>7 DEF q, v, a, c

\* The operations an agent may send.
LEMMA OpIs ==
  ASSUME NEW op \in Files!Operations
  PROVE  /\ op.name \in Names /\ op.body \in Seq(Files!Lines) /\ op.body # <<>>
         /\ op.kind \in {"edit", "create", "rename", "delete"}
         /\ op.kind = "rename" => op.to \in Names
<1>1. Files!Blank \in Files!Lines /\ Files!Code \in Files!Lines
  BY DEF Files!Lines
<1>2. /\ <<Files!Blank>> \in Seq(Files!Lines) /\ <<Files!Blank>> # <<>>
      /\ <<Files!Code>> \in Seq(Files!Lines) /\ <<Files!Code>> # <<>>
      /\ <<Files!Code, Files!Blank>> \in Seq(Files!Lines) /\ <<Files!Code, Files!Blank>> # <<>>
  BY <1>1
<1> DEFINE blank == <<Files!Blank>>
           code == <<Files!Code>>
           seed == <<Files!Code, Files!Blank>>
<1>3. \A n : Files!seedBody(n) = seed
  BY DEF Files!seedBody
<1>4. \/ \E n \in Names, b \in {code, blank} : op = Files!Edit(n, b)
      \/ \E n \in Names, w \in {"default", "null"} \cup Names : op = Files!Create(n, w)
      \/ \E n, m \in Names : op = Files!Rename(n, m)
      \/ \E n \in Names : op = Files!Delete(n)
  <2> DEFINE two == {code, blank}
           A == {Files!Edit(n, b) : n \in Names, b \in two}
           B == {Files!Create(n, w) : n \in Names, w \in {"default", "null"} \cup Names}
           C == {Files!Rename(n, m) : n, m \in Names}
           D == {Files!Delete(n) : n \in Names}
  <2>1. op \in A \/ op \in B \/ op \in C \/ op \in D
    <3>1. Files!Operations = A \cup B \cup C \cup D
      BY SMT DEF Files!Operations, code, blank
    <3> HIDE DEF A, B, C, D
    <3> QED
      BY <3>1
  <2> HIDE DEF two
  <2>2. op \in A
          => \E n \in Names, b \in two : op = Files!Edit(n, b)
    OBVIOUS
  <2>3. op \in B
          => \E n \in Names, w \in {"default", "null"} \cup Names : op = Files!Create(n, w)
    OBVIOUS
  <2>4. op \in C => \E n, m \in Names : op = Files!Rename(n, m)
    OBVIOUS
  <2>5. op \in D => \E n \in Names : op = Files!Delete(n)
    OBVIOUS
  <2> QED
    BY <2>1, <2>2, <2>3, <2>4, <2>5 DEF two
<1> HIDE DEF blank, code, seed
<1>5. ASSUME NEW n \in Names, NEW b \in {code, blank}, op = Files!Edit(n, b)
      PROVE  op.name \in Names /\ op.body \in {code, blank} /\ op.kind = "edit"
  BY <1>5 DEF Files!Edit
<1>6. ASSUME NEW n \in Names, NEW w, op = Files!Create(n, w)
      PROVE  op.name \in Names /\ op.body = seed /\ op.kind = "create"
  BY <1>3, <1>6 DEF Files!Create
<1>7. ASSUME NEW n \in Names, NEW m \in Names, op = Files!Rename(n, m)
      PROVE  op.name \in Names /\ op.body = blank /\ op.kind = "rename" /\ op.to \in Names
  BY <1>7 DEF Files!Rename, blank
<1>8. ASSUME NEW n \in Names, op = Files!Delete(n)
      PROVE  op.name \in Names /\ op.body = blank /\ op.kind = "delete"
  BY <1>8 DEF Files!Delete, blank
<1> QED
  BY <1>2, <1>4, <1>5, <1>6, <1>7, <1>8 DEF blank, code, seed

\* The operations of a batch.
LEMMA BatchIs ==
  ASSUME NEW ops \in Files!Batches
  PROVE  Len(ops) \in Nat /\ \A k \in 1..Len(ops) : ops[k] \in Files!Operations
<1>1. Files!Handovers \subseteq Files!Operations
  BY FilesAssumption DEF FilesAssumption, Files!Handovers, Files!Operations
<1>2. \E k \in Nat : ops \in [1..k -> Files!Operations]
  <2>1. CASE ops \in [1..3 -> Files!Handovers]
    BY <1>1, <2>1
  <2>2. CASE ops \notin [1..3 -> Files!Handovers]
    <3> DEFINE A == UNION {[1..k -> Files!Operations] : k \in 1..MaxBatch}
               B == [1..3 -> Files!Handovers]
    <3>2. Files!Batches = A \cup B
      BY DEF Files!Batches
    <3>3. ops \in A
      <4> HIDE DEF A
      <4>1. ops \notin B
        BY <2>2
      <4> HIDE DEF B
      <4> QED
        BY <3>2, <4>1
    <3>1. PICK k \in 1..MaxBatch : ops \in [1..k -> Files!Operations]
      BY <3>3
    <3>4. k \in Nat
      BY FilesAssumption DEF FilesAssumption
    <3> QED
      BY <3>1, <3>4
  <2> QED
    BY <2>1, <2>2
<1>3. PICK k \in Nat : ops \in [1..k -> Files!Operations]
  BY <1>2
<1>4. Len(ops) = k
  BY <1>3
<1> QED
  BY <1>3, <1>4

\* Who has which name, when a file has another body or name.
LEMMA BodyHas ==
  ASSUME NEW fs, NEW top, HeldBy(fs, top), NEW i \in 1..Len(fs), NEW b \in Seq(Files!Lines), b # <<>>
  PROVE  \A d, n : Has(BodyPut(fs, i, b), d, n) <=> Has(fs, d, n)
<1> DEFINE t == BodyPut(fs, i, b)
<1>1. Len(t) = Len(fs) /\ \A j \in 1..Len(fs) : t[j].id = fs[j].id /\ t[j].name = fs[j].name
  BY BodySet
<1> HIDE DEF t
<1>2. \A d, n : Has(t, d, n) <=> Has(fs, d, n)
  BY <1>1 DEF Has
<1> QED
  BY <1>2 DEF t

\* Which identities have which names when one file is renamed.
LEMMA NameHas ==
  ASSUME NEW fs, NEW top, HeldBy(fs, top), NEW i \in 1..Len(fs), NEW m \in Names
  PROVE  \A d, n : Has(NamePut(fs, i, m), d, n) <=>
                     (Has(fs, d, n) /\ d # fs[i].id) \/ (d = fs[i].id /\ n = m)
<1> DEFINE t == NamePut(fs, i, m)
<1>1. Len(t) = Len(fs) /\ \A j \in 1..Len(fs) : t[j].id = fs[j].id /\ t[j].name = IF j = i THEN m ELSE fs[j].name
  BY NameSet
<1>2. \A j \in 1..Len(fs) : fs[j].id = fs[i].id => j = i
  BY HeldByParts
<1> HIDE DEF t
<1>3. ASSUME NEW d, NEW n PROVE Has(t, d, n) <=> (Has(fs, d, n) /\ d # fs[i].id) \/ (d = fs[i].id /\ n = m)
  <2>1. ASSUME Has(t, d, n) PROVE (Has(fs, d, n) /\ d # fs[i].id) \/ (d = fs[i].id /\ n = m)
    <3>1. PICK j \in 1..Len(fs) : t[j].id = d /\ t[j].name = n
      BY <1>1, <2>1 DEF Has
    <3>2. CASE j = i
      BY <1>1, <3>1, <3>2
    <3>3. CASE j # i
      <4>1. fs[j].id = d /\ fs[j].name = n /\ fs[j].id # fs[i].id
        BY <1>1, <1>2, <3>1, <3>3
      <4> QED
        BY <4>1 DEF Has
    <3> QED
      BY <3>2, <3>3
  <2>2. ASSUME Has(fs, d, n), d # fs[i].id PROVE Has(t, d, n)
    <3>1. PICK j \in 1..Len(fs) : fs[j].id = d /\ fs[j].name = n
      BY <2>2 DEF Has
    <3>2. j # i
      BY <2>2, <3>1
    <3>3. t[j].id = d /\ t[j].name = n
      BY <1>1, <3>1, <3>2
    <3> QED
      BY <1>1, <3>3 DEF Has
  <2>3. ASSUME d = fs[i].id, n = m PROVE Has(t, d, n)
    BY <1>1, <2>3 DEF Has
  <2> QED
    BY <2>1, <2>2, <2>3
<1> QED
  BY <1>3 DEF t

\* Which file is open after a file is put in, deleted or moved.
LEMMA ActiveIs ==
  ASSUME NEW a \in Nat, NEW n \in Nat, a \in 1..n
  PROVE  /\ \A k \in 1..(n + 1) : Files!ActiveAfterCreate(a, k) \in 1..(n + 1)
         /\ n > 1 => \A k \in 1..n : Files!ActiveAfterDelete(a, k, n - 1) \in 1..(n - 1)
         /\ \A j, k \in 1..n : Files!ActiveAfterMove(a, j, k) \in 1..n
<1>1. \A k \in 1..(n + 1) : Files!ActiveAfterCreate(a, k) \in 1..(n + 1)
  BY DEF Files!ActiveAfterCreate
<1>2. n > 1 => \A k \in 1..n : Files!ActiveAfterDelete(a, k, n - 1) \in 1..(n - 1)
  BY DEF Files!ActiveAfterDelete, Files!Least
<1>3. \A j, k \in 1..n : Files!ActiveAfterMove(a, j, k) \in 1..n
  BY DEF Files!ActiveAfterMove
<1> QED
  BY <1>1, <1>2, <1>3

\* The files of a plan, which of them the project had before, and their images.
PlanFits(p) ==
  /\ Shaped(p) /\ HeldBy(p.files, p.ids) /\ ids \in Nat /\ ids <= p.ids /\ p.active \in 1..Len(p.files)
  /\ p.renamed \in Seq(Names \X Names) /\ Files!RenamedAll(images, p.renamed) \in [Names -> Nat]

PlanOld(p) ==
  \A d, n : Has(p.files, d, n) /\ d <= ids => (\E m : Has(tabs, d, m)) /\ (p.renamed = <<>> => Has(tabs, d, n))

PlanPlaced(p) ==
  mishap = "none" /\ ~p.reused => Placed(p.files, Files!RenamedAll(images, p.renamed), given, p.deleted)

PlanInv(p) == PlanFits(p) /\ PlanOld(p) /\ PlanPlaced(p)

\* The invariant of a plan, part by part.
LEMMA PlanParts ==
  ASSUME NEW p, PlanInv(p)
  PROVE  /\ Shaped(p) /\ HeldBy(p.files, p.ids) /\ ids \in Nat /\ p.ids \in Nat /\ ids <= p.ids
         /\ Len(p.files) \in Nat /\ p.active \in 1..Len(p.files) /\ p.active \in Nat
         /\ p.renamed \in Seq(Names \X Names) /\ Files!RenamedAll(images, p.renamed) \in [Names -> Nat]
         /\ PlanOld(p) /\ PlanPlaced(p)
<1>1. PlanFits(p) /\ PlanOld(p) /\ PlanPlaced(p)
  BY DEF PlanInv
<1>2. HeldBy(p.files, p.ids)
  BY <1>1 DEF PlanFits
<1>3. p.ids \in Nat /\ Len(p.files) \in Nat
  BY <1>2, HeldByParts
<1> QED
  BY <1>1, <1>3 DEF PlanFits

\* A plan of the same files, but for their bodies.
LEMMA PlanSame ==
  ASSUME NEW p, PlanInv(p), NEW q, Shaped(q), HeldBy(q.files, p.ids), Len(q.files) = Len(p.files),
         \A d, n : Has(q.files, d, n) <=> Has(p.files, d, n),
         q.active = p.active, q.renamed = p.renamed, q.deleted = p.deleted, q.ids = p.ids, q.reused = p.reused
  PROVE  PlanInv(q)
<1>1. /\ ids \in Nat /\ ids <= p.ids /\ p.active \in 1..Len(p.files) /\ p.renamed \in Seq(Names \X Names)
      /\ Files!RenamedAll(images, p.renamed) \in [Names -> Nat] /\ PlanOld(p) /\ PlanPlaced(p)
  BY PlanParts
<1>2. PlanFits(q)
  BY <1>1 DEF PlanFits
<1>3. PlanOld(q)
  BY <1>1 DEF PlanOld
<1>4. ASSUME mishap = "none", ~q.reused PROVE Placed(q.files, Files!RenamedAll(images, q.renamed), given, q.deleted)
  <2>1. Placed(p.files, Files!RenamedAll(images, p.renamed), given, p.deleted)
    BY <1>1, <1>4 DEF PlanPlaced
  <2> QED
    BY <2>1, PlacedSame
<1>5. PlanPlaced(q)
  BY <1>4 DEF PlanPlaced
<1> QED
  BY <1>2, <1>3, <1>5 DEF PlanInv

\* A plan that is refused keeps it.
LEMMA PlanRefused ==
  ASSUME NEW p, PlanInv(p)
  PROVE  PlanInv(Files!Refused(p))
<1> DEFINE q == Files!Refused(p)
<1>1. Shaped(p) /\ HeldBy(p.files, p.ids)
  BY PlanParts
<1>2. /\ Shaped(q) /\ q.files = p.files /\ q.active = p.active /\ q.renamed = p.renamed
      /\ q.deleted = p.deleted /\ q.ids = p.ids /\ q.reused = p.reused
  BY <1>1, RefusedIs
<1> HIDE DEF q
<1>3. PlanInv(q)
  BY <1>1, <1>2, PlanSame
<1> QED
  BY <1>3 DEF q

\* So does an edit,
LEMMA PlanEdited ==
  ASSUME NEW p, PlanInv(p), NEW op, op.name \in Names, op.body \in Seq(Files!Lines), op.body # <<>>
  PROVE  PlanInv(Files!PlannedEdit(p, op))
<1> DEFINE i == Files!IndexOf(p.files, op.name)
           q == EditOf(p, i, op.body)
<1>1. Shaped(p) /\ HeldBy(p.files, p.ids)
  BY PlanParts
<1>2. i # 0 => i \in 1..Len(p.files)
  BY <1>1, IndexIs
<1>3. Files!PlannedEdit(p, op) = IF i = 0 THEN Files!Refused(p) ELSE q
  BY Zenon DEF Files!PlannedEdit, EditOf
<1>4. /\ Shaped(q) /\ q.files = BodyPut(p.files, i, op.body) /\ q.active = p.active /\ q.renamed = p.renamed
      /\ q.deleted = p.deleted /\ q.ids = p.ids /\ q.reused = p.reused
  BY <1>1, EditedIs
<1> HIDE DEF i, q
<1>5. ASSUME i # 0 PROVE PlanInv(q)
  <2>1. i \in 1..Len(p.files)
    BY <1>2, <1>5
  <2>2. HeldBy(q.files, p.ids) /\ Len(q.files) = Len(p.files)
    BY <1>1, <1>4, <2>1, BodySet
  <2>3. \A d, n : Has(q.files, d, n) <=> Has(p.files, d, n)
    BY <1>1, <1>4, <2>1, BodyHas
  <2> QED
    BY <1>4, <2>2, <2>3, PlanSame
<1> QED
  BY <1>3, <1>5, PlanRefused

\* a creation,
LEMMA PlanCreated ==
  ASSUME NEW p, PlanInv(p), given \subseteq 1..ids,
         NEW op, op.name \in Names, op.body \in Seq(Files!Lines), op.body # <<>>
  PROVE  PlanInv(Files!PlannedCreate(p, op))
<1> DEFINE before == IF op.to = "default" THEN Len(p.files)
                     ELSE IF op.to = "null" THEN Len(p.files) + 1 ELSE Files!IndexOf(p.files, op.to)
           f == [id |-> p.ids + 1, name |-> op.name, body |-> op.body]
           q == CreateOf(p, before, op.name, op.body)
<1>1. /\ Shaped(p) /\ HeldBy(p.files, p.ids) /\ ids \in Nat /\ p.ids \in Nat /\ ids <= p.ids
      /\ Len(p.files) \in Nat /\ p.active \in 1..Len(p.files) /\ p.active \in Nat
      /\ p.renamed \in Seq(Names \X Names) /\ Files!RenamedAll(images, p.renamed) \in [Names -> Nat]
      /\ PlanOld(p) /\ PlanPlaced(p)
  BY PlanParts
<1>2. /\ Files!IndexOf(p.files, op.to) \in 0..Len(p.files)
      /\ Files!IndexOf(p.files, op.name) = 0 => \A i \in 1..Len(p.files) : p.files[i].name # op.name
  BY <1>1, IndexIs
<1>3. before # 0 => before \in 1..(Len(p.files) + 1)
  <2> DEFINE k == Files!IndexOf(p.files, op.to)
  <2> HIDE DEF k
  <2>1. k \in 0..Len(p.files) /\ Len(p.files) # 0
    BY <1>1, <1>2, HeldByParts DEF k
  <2>2. before = IF op.to = "default" THEN Len(p.files) ELSE IF op.to = "null" THEN Len(p.files) + 1 ELSE k
    BY DEF k
  <2> HIDE DEF before
  <2> QED
    BY <1>1, <2>1, <2>2
<1>4. Files!PlannedCreate(p, op) = IF Files!IndexOf(p.files, op.name) # 0 \/ before = 0 THEN Files!Refused(p) ELSE q
  BY Zenon DEF Files!PlannedCreate, CreateOf
<1>5. /\ Shaped(q) /\ q.files = Files!InsertAt(p.files, before, f)
      /\ q.active = Files!ActiveAfterCreate(p.active, before) /\ q.renamed = p.renamed
      /\ q.deleted = p.deleted /\ q.ids = p.ids + 1 /\ q.reused = p.reused
  BY <1>1, CreatedIs
<1>6. f \in Files!File /\ f.id = p.ids + 1 /\ f.name = op.name /\ f.body = op.body
  BY <1>1 DEF Files!File
<1> HIDE DEF before, f, q
<1>7. ASSUME Files!IndexOf(p.files, op.name) = 0, before # 0 PROVE PlanInv(q)
  <2> DEFINE more == p.ids + 1
  <2>0. /\ before \in 1..(Len(p.files) + 1) /\ more \in Nat /\ p.ids <= more /\ f.body # <<>> /\ f.id \in 1..more
        /\ \A j \in 1..Len(p.files) : p.files[j].id # f.id
    <3>1. \A j \in 1..Len(p.files) : p.files[j].id \in 1..p.ids
      BY <1>1, HeldByParts
    <3> QED
      BY <1>1, <1>3, <1>6, <1>7, <3>1
  <2> HIDE DEF more
  <2>1. /\ HeldBy(q.files, more) /\ Len(q.files) = Len(p.files) + 1
        /\ \A d, n : Has(q.files, d, n) <=> Has(p.files, d, n) \/ (d = f.id /\ n = f.name)
    <3> DEFINE fs == p.files
               top == p.ids
               t == Files!InsertAt(fs, before, f)
    <3>1. /\ HeldBy(fs, top) /\ before \in 1..(Len(fs) + 1) /\ f \in Files!File /\ more \in Nat /\ top <= more
          /\ f.body # <<>> /\ f.id \in 1..more /\ \A j \in 1..Len(fs) : fs[j].id # f.id
      BY <1>1, <1>6, <2>0
    <3>2. q.files = t
      BY <1>5
    <3> HIDE DEF fs, top
    <3>3. /\ HeldBy(t, more) /\ Len(t) = Len(fs) + 1
          /\ \A d, n : Has(t, d, n) <=> Has(fs, d, n) \/ (d = f.id /\ n = f.name)
      BY <3>1, FileInserted
    <3> HIDE DEF t
    <3> QED
      BY <3>2, <3>3 DEF fs
  <2>2. q.active \in 1..Len(q.files)
    BY <1>1, <1>5, <2>0, <2>1, ActiveIs
  <2>3. PlanFits(q)
    <3>1. q.ids = more /\ ids <= q.ids
      BY <1>1, <1>5 DEF more
    <3> QED
      BY <1>1, <1>5, <2>1, <2>2, <3>1 DEF PlanFits
  <2>4. f.id \notin 1..ids /\ \A d \in Nat : d <= ids => d # f.id
    BY <1>1, <1>6
  <2>5. ASSUME NEW d, NEW n, Has(q.files, d, n), d <= ids
        PROVE  (\E m : Has(tabs, d, m)) /\ (q.renamed = <<>> => Has(tabs, d, n))
    <3>1. d \in Nat
      BY <2>1, <2>5, HasIs
    <3>2. Has(p.files, d, n)
      BY <2>1, <2>4, <2>5, <3>1
    <3> QED
      BY <1>1, <1>5, <2>5, <3>2 DEF PlanOld
  <2>6. ASSUME mishap = "none", ~q.reused
        PROVE  Placed(q.files, Files!RenamedAll(images, q.renamed), given, q.deleted)
    <3>1. Placed(p.files, Files!RenamedAll(images, p.renamed), given, p.deleted)
      BY <1>1, <1>5, <2>6 DEF PlanPlaced
    <3>2. f.id \notin given
      BY <2>4
    <3>3. \A e : ~Has(p.files, e, op.name)
      BY <1>2, <1>7 DEF Has
    <3> DEFINE M == Files!RenamedAll(images, p.renamed)
    <3> HIDE DEF M
    <3>4. Placed(q.files, M, given, p.deleted)
      BY <1>6, <2>1, <3>1, <3>2, <3>3, PlacedInsert DEF M
    <3> QED
      BY <1>5, <3>4 DEF M
  <2>7. PlanOld(q)
    BY <2>5 DEF PlanOld
  <2>8. PlanPlaced(q)
    BY <2>6 DEF PlanPlaced
  <2> QED
    BY <2>3, <2>7, <2>8 DEF PlanInv
<1> QED
  BY <1>4, <1>7, PlanRefused

\* a deletion,
LEMMA PlanDeleted ==
  ASSUME NEW p, PlanInv(p), NEW op, op.name \in Names
  PROVE  PlanInv(Files!PlannedDelete(p, op))
<1> DEFINE i == Files!IndexOf(p.files, op.name)
           q == DeleteOf(p, i, op.name)
<1>1. /\ Shaped(p) /\ HeldBy(p.files, p.ids) /\ ids \in Nat /\ p.ids \in Nat /\ ids <= p.ids
      /\ Len(p.files) \in Nat /\ p.active \in 1..Len(p.files) /\ p.active \in Nat
      /\ p.renamed \in Seq(Names \X Names) /\ Files!RenamedAll(images, p.renamed) \in [Names -> Nat]
      /\ PlanOld(p) /\ PlanPlaced(p)
  BY PlanParts
<1>2. i # 0 => i \in 1..Len(p.files) /\ p.files[i].name = op.name
  BY <1>1, IndexIs
<1>3. Files!PlannedDelete(p, op) = IF i = 0 \/ ~Files!canDelete(p.files) THEN Files!Refused(p) ELSE q
  BY Zenon DEF Files!PlannedDelete, DeleteOf
<1>4. /\ Shaped(q) /\ q.files = Files!RemoveAt(p.files, i)
      /\ q.active = Files!ActiveAfterDelete(p.active, i, Len(p.files) - 1) /\ q.renamed = p.renamed
      /\ q.deleted = p.deleted \cup {op.name} /\ q.ids = p.ids /\ q.reused = p.reused
  BY <1>1, DeletedIs
<1> HIDE DEF i, q
<1>5. ASSUME i # 0, Files!canDelete(p.files) PROVE PlanInv(q)
  <2> DEFINE d0 == p.files[i].id
  <2>0. i \in 1..Len(p.files) /\ p.files[i].name = op.name /\ Len(p.files) > 1
    BY <1>2, <1>5 DEF Files!canDelete
  <2>1. /\ HeldBy(q.files, p.ids) /\ Len(q.files) = Len(p.files) - 1
        /\ \A d, n : Has(q.files, d, n) <=> Has(p.files, d, n) /\ d # d0
    BY <1>1, <1>4, <2>0, FileRemoved
  <2>2. Has(p.files, d0, op.name) /\ \A k : Has(p.files, d0, k) => k = op.name
    BY <1>1, <2>0, HasIs
  <2> HIDE DEF d0
  <2>3. q.active \in 1..Len(q.files)
    BY <1>1, <1>4, <2>0, <2>1, ActiveIs
  <2>4. PlanFits(q)
    BY <1>1, <1>4, <2>1, <2>3 DEF PlanFits
  <2>5. PlanOld(q)
    BY <1>1, <1>4, <2>1 DEF PlanOld
  <2>6. ASSUME mishap = "none", ~q.reused
        PROVE  Placed(q.files, Files!RenamedAll(images, q.renamed), given, q.deleted)
    <3> DEFINE M == Files!RenamedAll(images, p.renamed)
    <3>1. Placed(p.files, M, given, p.deleted)
      BY <1>1, <1>4, <2>6 DEF PlanPlaced
    <3> HIDE DEF M
    <3>2. Placed(q.files, M, given, p.deleted \cup {op.name})
      BY <2>1, <2>2, <3>1, PlacedRemove
    <3> QED
      BY <1>4, <3>2 DEF M
  <2>7. PlanPlaced(q)
    BY <2>6 DEF PlanPlaced
  <2> QED
    BY <2>4, <2>5, <2>7 DEF PlanInv
<1> QED
  BY <1>3, <1>5, PlanRefused

\* and a rename, which is the one that moves images.
LEMMA PlanNamed ==
  ASSUME NEW p, PlanInv(p), given \subseteq 1..ids, NEW op, op.name \in Names, op.to \in Names
  PROVE  PlanInv(Files!PlannedRename(p, op))
<1> DEFINE i == Files!IndexOf(p.files, op.name)
           q == RenameOf(p, i, op.name, op.to)
<1>1. /\ Shaped(p) /\ HeldBy(p.files, p.ids) /\ ids \in Nat /\ p.ids \in Nat /\ ids <= p.ids
      /\ Len(p.files) \in Nat /\ p.active \in 1..Len(p.files) /\ p.active \in Nat
      /\ p.renamed \in Seq(Names \X Names) /\ Files!RenamedAll(images, p.renamed) \in [Names -> Nat]
      /\ PlanOld(p) /\ PlanPlaced(p)
  BY PlanParts
<1>2. i # 0 => i \in 1..Len(p.files) /\ p.files[i].name = op.name
  BY <1>1, IndexIs
<1>3. Files!PlannedRename(p, op) =
        IF i = 0 \/ Files!nameError(p.files, i, op.to) THEN Files!Refused(p) ELSE IF op.name = op.to THEN p ELSE q
  BY Zenon DEF Files!PlannedRename, RenameOf
<1>4. /\ Shaped(q) /\ q.files = NamePut(p.files, i, op.to) /\ q.active = p.active
      /\ q.renamed = Append(p.renamed, <<op.name, op.to>>)
      /\ q.deleted = p.deleted /\ q.ids = p.ids /\ q.reused = (p.reused \/ {op.name, op.to} \cap p.deleted # {})
  BY <1>1, NamedAnew
<1> HIDE DEF i, q
<1>5. ASSUME i # 0, ~Files!nameError(p.files, i, op.to), op.name # op.to PROVE PlanInv(q)
  <2> DEFINE d0 == p.files[i].id
             M == Files!RenamedAll(images, p.renamed)
             r == <<op.name, op.to>>
  <2>0. i \in 1..Len(p.files) /\ p.files[i].name = op.name
    BY <1>2, <1>5
  <2>1. HeldBy(q.files, p.ids) /\ Len(q.files) = Len(p.files)
    BY <1>1, <1>4, <2>0, NameSet
  <2>2. \A d, n : Has(q.files, d, n) <=> (Has(p.files, d, n) /\ d # d0) \/ (d = d0 /\ n = op.to)
    BY <1>1, <1>4, <2>0, NameHas
  <2>3. Has(p.files, d0, op.name) /\ \A k : Has(p.files, d0, k) => k = op.name
    BY <1>1, <2>0, HasIs
  <2>4. \A e : e # d0 => ~Has(p.files, e, op.to)
    <3>1. \A j \in 1..Len(p.files) : j # i => p.files[j].name # op.to
      <4>1. DOMAIN p.files = 1..Len(p.files)
        BY <1>1, HeldByParts
      <4> QED
        BY <1>5, <4>1 DEF Files!nameError
    <3> QED
      BY <3>1 DEF Has
  <2>5. r \in Names \X Names /\ r[1] = op.name /\ r[2] = op.to
    OBVIOUS
  <2> HIDE DEF d0, r
  <2>6. q.renamed \in Seq(Names \X Names) /\ q.renamed # <<>>
    BY <1>1, <1>4, <2>5 DEF r
  <2>7. Files!RenamedAll(images, q.renamed) = Files!Moved(M, op.name, op.to)
    <3>1. Files!RenamedAll(images, Append(p.renamed, r)) = Files!Moved(M, r[1], r[2])
      <4> DEFINE S == Names \X Names
      <4>1. p.renamed \in Seq(S) /\ r \in S
        BY <1>1, <2>5
      <4> HIDE DEF S
      <4> QED
        BY <4>1, RenamedAppend
    <3> QED
      BY <1>4, <2>5, <3>1 DEF r
  <2>8. M \in [Names -> Nat]
    BY <1>1
  <2> HIDE DEF M
  <2>9. Files!Moved(M, op.name, op.to) \in [Names -> Nat]
    BY <1>5, <2>8, MovedIs
  <2>10. PlanFits(q)
    BY <1>1, <1>4, <2>1, <2>6, <2>7, <2>9 DEF PlanFits
  <2>11. ASSUME NEW d, NEW n, Has(q.files, d, n), d <= ids PROVE \E m : Has(tabs, d, m)
    <3>1. \E k : Has(p.files, d, k)
      BY <2>2, <2>3, <2>11
    <3> QED
      BY <1>1, <2>11, <3>1 DEF PlanOld
  <2>12. PlanOld(q)
    BY <2>6, <2>11 DEF PlanOld
  <2>13. ASSUME mishap = "none", ~q.reused
        PROVE  Placed(q.files, Files!RenamedAll(images, q.renamed), given, q.deleted)
    <3>1. ~p.reused /\ op.name \notin p.deleted /\ op.to \notin p.deleted
      BY <1>4, <2>13
    <3>2. Placed(p.files, M, given, p.deleted)
      BY <1>1, <2>13, <3>1 DEF PlanPlaced, M
    <3>3. 0 \notin given
      BY <1>1
    <3>4. \A e, k : Has(p.files, e, k) => k \in Names
      BY <1>1, HasIs
    <3>5. Placed(q.files, Files!Moved(M, op.name, op.to), given, p.deleted)
      BY <1>5, <2>2, <2>3, <2>4, <2>8, <3>1, <3>2, <3>3, <3>4, PlacedRename
    <3> QED
      BY <1>4, <2>7, <3>5
  <2>14. PlanPlaced(q)
    BY <2>13 DEF PlanPlaced
  <2> QED
    BY <2>10, <2>12, <2>14 DEF PlanInv
<1> QED
  BY <1>3, <1>5, PlanRefused

\* Every operation of a batch leaves a plan of files that are held.
LEMMA PlannedKeeps ==
  ASSUME NEW p, PlanInv(p), given \subseteq 1..ids, NEW op \in Files!Operations
  PROVE  PlanInv(Files!Planned(p, op))
<1>1. /\ op.name \in Names /\ op.body \in Seq(Files!Lines) /\ op.body # <<>>
      /\ op.kind \in {"edit", "create", "rename", "delete"}
      /\ op.kind = "rename" => op.to \in Names
  BY OpIs
<1>2. CASE ~p.ok
  BY <1>2 DEF Files!Planned
<1>3. CASE p.ok /\ op.kind = "edit"
  BY <1>1, <1>3, PlanEdited DEF Files!Planned
<1>4. CASE p.ok /\ op.kind = "create"
  BY <1>1, <1>4, PlanCreated DEF Files!Planned
<1>5. CASE p.ok /\ op.kind = "rename"
  BY <1>1, <1>5, PlanNamed DEF Files!Planned
<1>6. CASE p.ok /\ op.kind = "delete"
  BY <1>1, <1>6, PlanDeleted DEF Files!Planned
<1> QED
  BY <1>1, <1>2, <1>3, <1>4, <1>5, <1>6

\* It holds of the plan of no operation.
LEMMA PlanStart ==
  ASSUME HeldBy(tabs, ids), active \in 1..Len(tabs), images \in [Names -> Nat],
         mishap = "none" => Placed(tabs, images, given, {})
  PROVE  PlanInv(Start(tabs, tabs[active].name))
<1> DEFINE n == tabs[active].name
           a == Files!IndexOf(tabs, n)
           p == Start(tabs, n)
<1>1. /\ p.files = tabs /\ p.active = a /\ p.renamed = <<>> /\ p.deleted = {} /\ p.ids = ids /\ p.reused = FALSE
  BY DEF Start
<1>2. Shaped(p)
  BY DEF Shaped, Plan, Start
<1>3. ids \in Nat
  BY HeldByParts
<1>4. a \in 1..Len(tabs)
  BY IndexIs
<1>5. Files!RenamedAll(images, p.renamed) = images
  BY <1>1, RenamedNone
<1>6. <<>> \in Seq(Names \X Names) /\ ids <= ids
  BY <1>3
<1> HIDE DEF p, a
<1>7. PlanFits(p)
  BY <1>1, <1>2, <1>3, <1>4, <1>5, <1>6 DEF PlanFits
<1>8. PlanOld(p)
  BY <1>1 DEF PlanOld
<1>9. PlanPlaced(p)
  BY <1>1, <1>5 DEF PlanPlaced
<1> QED
  BY <1>7, <1>8, <1>9 DEF PlanInv, p

\* It holds of the plan of every batch.
LEMMA PlanHolds ==
  ASSUME HeldBy(tabs, ids), active \in 1..Len(tabs), images \in [Names -> Nat], given \subseteq 1..ids,
         mishap = "none" => Placed(tabs, images, given, {}), NEW ops \in Files!Batches
  PROVE  PlanInv(Files!planMutations(tabs, tabs[active].name, ops))
<1> DEFINE n == tabs[active].name
           m == Len(ops)
           f == PlanSteps(tabs, n, ops)
           T == {k \in 0..m : ~PlanInv(f[k])}
<1>1. m \in Nat /\ \A k \in 1..m : ops[k] \in Files!Operations
  BY BatchIs
<1>2. /\ Files!planMutations(tabs, n, ops) = f[m] /\ f[0] = Start(tabs, n)
      /\ \A k \in 1..m : f[k] = Files!Planned(f[k - 1], ops[k])
  BY <1>1, PlanIs
<1>3. PlanInv(f[0])
  BY <1>2, PlanStart
<1> HIDE DEF f, m, n
<1>4. T = {}
  <2>1. SUFFICES ASSUME T # {} PROVE FALSE
    OBVIOUS
  <2>2. T \in SUBSET Nat
    BY <1>1
  <2>3. PICK j \in T : \A k \in T : j <= k
    BY <2>1, <2>2, LeastOne
  <2>4. j \in 1..m /\ j - 1 \in 0..m /\ ~(j <= j - 1)
    BY <1>1, <1>3, <2>3
  <2> DEFINE i == j - 1
  <2>5. PlanInv(f[i])
    BY <2>3, <2>4
  <2>6. f[j] = Files!Planned(f[i], ops[j]) /\ ops[j] \in Files!Operations
    BY <1>1, <1>2, <2>4
  <2> HIDE DEF i
  <2>7. PlanInv(f[j])
    BY <2>5, <2>6, PlannedKeeps
  <2> QED
    BY <2>3, <2>7
<1>5. m \in 0..m
  BY <1>1
<1> QED
  BY <1>2, <1>4, <1>5 DEF n

-----------------------------------------------------------------------------
(* What the invariant says, of any files, images and counts.                *)

\* Held of the model, with the identities given so far named.
LEMMA HeldIsBy ==
  ASSUME NEW fs, NEW top \in Nat
  PROVE  HeldBy(fs, top) <=>
           /\ fs \in Seq(Files!File) /\ fs # <<>>
           /\ \A i \in DOMAIN fs : fs[i].body # <<>> /\ fs[i].id \in 1..top
           /\ \A i, j \in DOMAIN fs : fs[i].id = fs[j].id => i = j
<1>1. fs \in Seq(Files!File) => DOMAIN fs = 1..Len(fs)
  OBVIOUS
<1> QED
  BY <1>1 DEF HeldBy

\* ImagesInv of the model, of identities instead of places.
LEMMA PlacedIs ==
  ASSUME NEW fs, NEW M, NEW gv, NEW top, HeldBy(fs, top)
  PROVE  Placed(fs, M, gv, {}) <=>
           /\ gv # {} => Files!Unique(fs)
           /\ \A i \in DOMAIN fs : M[fs[i].name] = IF fs[i].id \in gv THEN fs[i].id ELSE Files!None
           /\ \A n \in Names : M[n] # Files!None => \E i \in DOMAIN fs : fs[i].name = n
<1>1. DOMAIN fs = 1..Len(fs)
  BY HeldByParts
<1>2. Files!Unique(fs) <=> OneEach(fs)
  BY UniqueIs
<1>3. (\A i \in 1..Len(fs) : M[fs[i].name] = IF fs[i].id \in gv THEN fs[i].id ELSE 0)
        <=> \A d, n : Has(fs, d, n) => M[n] = IF d \in gv THEN d ELSE 0
  <2>1. ASSUME \A i \in 1..Len(fs) : M[fs[i].name] = IF fs[i].id \in gv THEN fs[i].id ELSE 0,
               NEW d, NEW n, Has(fs, d, n)
        PROVE  M[n] = IF d \in gv THEN d ELSE 0
    <3>1. PICK i \in 1..Len(fs) : fs[i].id = d /\ fs[i].name = n
      BY <2>1 DEF Has
    <3> QED
      BY <2>1, <3>1
  <2>2. ASSUME \A d, n : Has(fs, d, n) => M[n] = IF d \in gv THEN d ELSE 0, NEW i \in 1..Len(fs)
        PROVE  M[fs[i].name] = IF fs[i].id \in gv THEN fs[i].id ELSE 0
    <3>1. Has(fs, fs[i].id, fs[i].name)
      BY DEF Has
    <3> QED
      BY <2>2, <3>1
  <2> QED
    BY <2>1, <2>2
<1>4. \A n : (\E i \in 1..Len(fs) : fs[i].name = n) <=> \E d : Has(fs, d, n)
  BY DEF Has
<1>5. Placed(fs, M, gv, {}) <=>
        /\ gv # {} => OneEach(fs)
        /\ \A d, n : Has(fs, d, n) => M[n] = IF d \in gv THEN d ELSE 0
        /\ \A n \in Names : M[n] # 0 => \E d : Has(fs, d, n)
  BY DEF Placed
<1> QED
  BY <1>1, <1>2, <1>3, <1>4, <1>5 DEF Files!None

\* Counts and what they are about.
Counts(fs, rf, fl, an, sw, top) ==
  /\ rf = Files!NamesOf(fs) /\ (fl # <<>> => fl = fs)
  /\ an # <<>> =>
       /\ an \in Seq(Files!File) /\ Files!NamesOf(an) = Files!NamesOf(fs) /\ \A i \in 1..Len(an) : an[i].id \in 1..top
       /\ Files!Unique(fs) /\ ~sw => \A i \in 1..Len(fs) : an[i].id = fs[i].id \/ \A j \in 1..Len(fs) : an[i].id # fs[j].id

Fit(fs, a, st, M, gv, rf, fl, an, sw, top, ms) ==
  /\ HeldBy(fs, top) /\ HeldBy(st, top) /\ a \in 1..Len(fs) /\ M \in [Names -> Nat] /\ gv \subseteq 1..top
  /\ Counts(fs, rf, fl, an, sw, top)
  /\ ms = "none" => gv \subseteq Files!IdsOf(fs) /\ Placed(fs, M, gv, {})

FitNow == Fit(tabs, active, stored, images, given, renderedFiles, inflight, analysis, swapped, ids, mishap)

\* CountsInv of the model, of any files.
LEMMA CountsIs ==
  ASSUME NEW fs, NEW rf, NEW fl, NEW an, NEW sw, NEW top, HeldBy(fs, top)
  PROVE  Counts(fs, rf, fl, an, sw, top) <=>
           /\ rf = Files!NamesOf(fs)
           /\ fl # <<>> => fl = fs
           /\ an # <<>> =>
                /\ an \in Seq(Files!File) /\ Files!NamesOf(an) = Files!NamesOf(fs)
                /\ \A i \in DOMAIN an : an[i].id \in 1..top
                /\ Files!Unique(fs) /\ ~sw =>
                     \A i \in DOMAIN fs : an[i].id = fs[i].id \/ an[i].id \notin Files!IdsOf(fs)
<1>1. DOMAIN fs = 1..Len(fs)
  BY HeldByParts
<1>2. \A d : d \notin Files!IdsOf(fs) <=> \A j \in 1..Len(fs) : d # fs[j].id
  BY <1>1 DEF Files!IdsOf
<1>3. an \in Seq(Files!File) => DOMAIN an = 1..Len(an)
  OBVIOUS
<1> QED
  BY <1>1, <1>2, <1>3 DEF Counts

\* The invariant is Fit of the files there are,
LEMMA FitIs == Files!FilesInv <=> FitNow
<1>1. ASSUME ids \in Nat, HeldBy(tabs, ids) PROVE Files!CountsInv <=> Counts(tabs, renderedFiles, inflight, analysis, swapped, ids)
  BY <1>1, CountsIs DEF Files!CountsInv
<1>2. ASSUME ids \in Nat, HeldBy(tabs, ids)
      PROVE  Files!ImagesInv <=> (mishap = "none" => given \subseteq Files!IdsOf(tabs) /\ Placed(tabs, images, given, {}))
  BY <1>2, PlacedIs DEF Files!ImagesInv, Files!ImagesInPlace
<1>3. ids \in Nat => (Files!Held(tabs) <=> HeldBy(tabs, ids)) /\ (Files!Held(stored) <=> HeldBy(stored, ids))
  BY HeldIsBy DEF Files!Held
<1>4. HeldBy(tabs, ids) => ids \in Nat /\ DOMAIN tabs = 1..Len(tabs)
  BY HeldByParts
<1> QED
  BY <1>1, <1>2, <1>3, <1>4 DEF Files!FilesInv, FitNow, Fit

\* and of those there will be.
LEMMA FitNextIs == FitNow' => Files!FilesInv'
<1>1. ASSUME ids' \in Nat, HeldBy(tabs', ids')
      PROVE  Files!CountsInv' <=> Counts(tabs', renderedFiles', inflight', analysis', swapped', ids')
  BY <1>1, CountsIs DEF Files!CountsInv
<1>2. ASSUME ids' \in Nat, HeldBy(tabs', ids')
      PROVE  Files!ImagesInv' <=> (mishap' = "none" => given' \subseteq Files!IdsOf(tabs') /\ Placed(tabs', images', given', {}))
  BY <1>2, PlacedIs DEF Files!ImagesInv, Files!ImagesInPlace
<1>3. ids' \in Nat => (Files!Held(tabs)' <=> HeldBy(tabs', ids')) /\ (Files!Held(stored)' <=> HeldBy(stored', ids'))
  BY HeldIsBy DEF Files!Held
<1>4. HeldBy(tabs', ids') => ids' \in Nat /\ DOMAIN tabs' = 1..Len(tabs')
  BY HeldByParts
<1> QED
  BY <1>1, <1>2, <1>3, <1>4 DEF Files!FilesInv, FitNow, Fit

\* Two lists of files have the same names.
LEMMA NamesSame ==
  ASSUME NEW fs \in Seq(Files!File), NEW gs \in Seq(Files!File)
  PROVE  Files!NamesOf(fs) = Files!NamesOf(gs) <=> Len(fs) = Len(gs) /\ \A i \in 1..Len(fs) : fs[i].name = gs[i].name
<1>1. DOMAIN fs = 1..Len(fs) /\ DOMAIN gs = 1..Len(gs) /\ Len(fs) \in Nat /\ Len(gs) \in Nat
  OBVIOUS
<1> DEFINE u == Files!NamesOf(fs)
           v == Files!NamesOf(gs)
<1>2. DOMAIN u = 1..Len(fs) /\ \A i \in 1..Len(fs) : u[i] = fs[i].name
  BY <1>1 DEF Files!NamesOf
<1>3. DOMAIN v = 1..Len(gs) /\ \A i \in 1..Len(gs) : v[i] = gs[i].name
  BY <1>1 DEF Files!NamesOf
<1>4. ASSUME u = v PROVE Len(fs) = Len(gs) /\ \A i \in 1..Len(fs) : fs[i].name = gs[i].name
  <2>1. 1..Len(fs) = 1..Len(gs)
    BY <1>2, <1>3, <1>4
  <2>2. Len(fs) = Len(gs)
    <3> DEFINE m == Len(fs)
               k == Len(gs)
    <3>1. m \in Nat /\ k \in Nat /\ 1..m = 1..k
      BY <1>1, <2>1
    <3> HIDE DEF m, k
    <3>2. m # 0 => m \in 1..k
      BY <3>1
    <3>3. k # 0 => k \in 1..m
      BY <3>1
    <3>4. m = k
      BY <3>1, <3>2, <3>3
    <3> QED
      BY <3>4 DEF m, k
  <2> QED
    BY <1>2, <1>3, <1>4, <2>2
<1>5. ASSUME Len(fs) = Len(gs), \A i \in 1..Len(fs) : fs[i].name = gs[i].name PROVE u = v
  BY <1>1, <1>5 DEF Files!NamesOf
<1> QED
  BY <1>4, <1>5

\* What every change of the files ends in.
LEMMA ScheduleIs ==
  ASSUME Files!schedule, renderedFiles = Files!NamesOf(tabs)
  PROVE  /\ inflight' = tabs' /\ renderedFiles' = Files!NamesOf(tabs')
         /\ analysis' = <<>> \/ (analysis' = analysis /\ Files!NamesOf(tabs') = Files!NamesOf(tabs))
BY DEF Files!schedule, Files!outputsShouldClear

\* Counts stay on a tab when they are of its file still, or of none that is there.
LEMMA CountsKept ==
  ASSUME NEW fs, NEW top, HeldBy(fs, top), NEW gs, NEW more, HeldBy(gs, more), top <= more,
         NEW rf, NEW fl, NEW an, NEW sw, Counts(fs, rf, fl, an, sw, top),
         NEW now1, now1 = <<>> \/ (now1 = an /\ Files!NamesOf(gs) = Files!NamesOf(fs)), NEW sn,
         now1 # <<>> /\ ~sn => ~sw /\ \A d, n : Has(gs, d, n) /\ d <= top => Has(fs, d, n)
  PROVE  Counts(gs, Files!NamesOf(gs), gs, now1, sn, more)
<1>1. SUFFICES ASSUME now1 # <<>>
      PROVE  /\ now1 \in Seq(Files!File) /\ Files!NamesOf(now1) = Files!NamesOf(gs)
             /\ \A i \in 1..Len(now1) : now1[i].id \in 1..more
             /\ Files!Unique(gs) /\ ~sn =>
                  \A i \in 1..Len(gs) : now1[i].id = gs[i].id \/ \A j \in 1..Len(gs) : now1[i].id # gs[j].id
  BY DEF Counts
<1>2. now1 = an /\ Files!NamesOf(gs) = Files!NamesOf(fs)
  BY <1>1
<1>3. /\ an \in Seq(Files!File) /\ Files!NamesOf(an) = Files!NamesOf(fs) /\ \A i \in 1..Len(an) : an[i].id \in 1..top
      /\ Files!Unique(fs) /\ ~sw => \A i \in 1..Len(fs) : an[i].id = fs[i].id \/ \A j \in 1..Len(fs) : an[i].id # fs[j].id
  BY <1>1, <1>2 DEF Counts
<1>4. /\ fs \in Seq(Files!File) /\ gs \in Seq(Files!File) /\ top \in Nat /\ more \in Nat
      /\ Len(fs) \in Nat /\ Len(gs) \in Nat
      /\ \A i, j \in 1..Len(fs) : fs[i].id = fs[j].id => i = j
      /\ \A i, j \in 1..Len(gs) : gs[i].id = gs[j].id => i = j
      /\ \A i \in 1..Len(gs) : gs[i].id \in Nat
  BY HeldByParts
<1>5. Len(gs) = Len(fs) /\ Len(an) = Len(fs) /\ \A i \in 1..Len(fs) : gs[i].name = fs[i].name
  BY <1>2, <1>3, <1>4, NamesSame
<1>6. \A i \in 1..Len(an) : an[i].id \in 1..more
  BY <1>3, <1>4
<1>7. ASSUME Files!Unique(gs), ~sn, NEW i \in 1..Len(gs), NEW j \in 1..Len(gs), an[i].id # gs[i].id
      PROVE  an[i].id # gs[j].id
  <2>1. \A k, l \in 1..Len(gs) : gs[k].name = gs[l].name => k = l
    BY <1>7, UniqueIs
  <2>2. \A k, l \in 1..Len(fs) : fs[k].name = fs[l].name => k = l
    BY <1>5, <2>1
  <2>3. Files!Unique(fs)
    BY <2>2, UniqueIs
  <2>4. ASSUME NEW k \in 1..Len(fs), gs[k].id <= top PROVE gs[k].id = fs[k].id
    <3>1. Has(gs, gs[k].id, gs[k].name)
      BY <1>5 DEF Has
    <3>2. Has(fs, gs[k].id, gs[k].name)
      BY <1>1, <1>7, <2>4, <3>1
    <3>3. PICK l \in 1..Len(fs) : fs[l].id = gs[k].id /\ fs[l].name = gs[k].name
      BY <3>2 DEF Has
    <3>4. l = k
      BY <1>5, <2>2, <3>3
    <3> QED
      BY <3>3, <3>4
  <2>5. an[i].id \in 1..top
    BY <1>3, <1>5
  <2>6. an[i].id = fs[i].id \/ an[i].id # fs[j].id
    BY <1>1, <1>3, <1>5, <1>7, <2>3
  <2>7. SUFFICES ASSUME an[i].id = gs[j].id PROVE FALSE
    OBVIOUS
  <2>8. gs[j].id <= top
    BY <1>4, <2>5, <2>7
  <2>9. gs[j].id = fs[j].id
    BY <1>5, <2>4, <2>8
  <2>10. an[i].id = fs[i].id
    BY <2>6, <2>7, <2>9
  <2>11. i = j
    BY <1>4, <1>5, <2>7, <2>9, <2>10
  <2> QED
    BY <1>7, <2>7, <2>11
<1> QED
  BY <1>2, <1>3, <1>6, <1>7

\* A step that changes the files, asks for an analysis, and gives no name to another file
\* unless it says so.
LEMMA FitStep ==
  ASSUME FitNow, ids <= ids', HeldBy(tabs', ids'), HeldBy(stored', ids'), active' \in 1..Len(tabs'),
         images' \in [Names -> Nat], given' \subseteq 1..ids',
         Files!schedule, NEW renamed, Files!Passed(renamed),
         ~renamed /\ Files!NamesOf(tabs') = Files!NamesOf(tabs)
           => \A d, n : Has(tabs', d, n) /\ d <= ids => Has(tabs, d, n),
         mishap' = "none" => given' \subseteq Files!IdsOf(tabs') /\ Placed(tabs', images', given', {})
  PROVE  FitNow'
<1>1. HeldBy(tabs, ids) /\ Counts(tabs, renderedFiles, inflight, analysis, swapped, ids)
  BY DEF FitNow, Fit
<1>2. renderedFiles = Files!NamesOf(tabs)
  BY <1>1 DEF Counts
<1>3. /\ inflight' = tabs' /\ renderedFiles' = Files!NamesOf(tabs')
      /\ analysis' = <<>> \/ (analysis' = analysis /\ Files!NamesOf(tabs') = Files!NamesOf(tabs))
  BY <1>2, ScheduleIs
<1>4. swapped' <=> (analysis' # <<>> /\ (swapped \/ renamed))
  BY DEF Files!Passed
<1>5. analysis' # <<>> /\ ~swapped' => ~swapped /\ \A d, n : Has(tabs', d, n) /\ d <= ids => Has(tabs, d, n)
  BY <1>3, <1>4
<1>6. Counts(tabs', Files!NamesOf(tabs'), tabs', analysis', swapped', ids')
  BY <1>1, <1>3, <1>5, CountsKept
<1>7. Counts(tabs', renderedFiles', inflight', analysis', swapped', ids')
  BY <1>3, <1>6
<1> QED
  BY <1>7 DEF FitNow, Fit

-----------------------------------------------------------------------------
(* The steps of the page.                                                   *)

\* The invariant, part by part.
LEMMA FitParts ==
  ASSUME FitNow
  PROVE  /\ HeldBy(tabs, ids) /\ HeldBy(stored, ids) /\ active \in 1..Len(tabs) /\ images \in [Names -> Nat]
         /\ given \subseteq 1..ids /\ Counts(tabs, renderedFiles, inflight, analysis, swapped, ids)
         /\ mishap = "none" => given \subseteq Files!IdsOf(tabs) /\ Placed(tabs, images, given, {})
         /\ ids \in Nat /\ ids <= ids /\ Len(tabs) \in Nat /\ active \in Nat /\ DOMAIN tabs = 1..Len(tabs)
<1>1. HeldBy(tabs, ids)
  BY DEF FitNow, Fit
<1>2. ids \in Nat /\ Len(tabs) \in Nat /\ DOMAIN tabs = 1..Len(tabs)
  BY <1>1, HeldByParts
<1>3. active \in 1..Len(tabs)
  BY DEF FitNow, Fit
<1>4. active \in Nat /\ ids <= ids
  BY <1>2, <1>3
<1> QED
  BY <1>2, <1>4 DEF FitNow, Fit

\* Files that have the names they had keep their images.
LEMMA SameImages ==
  ASSUME NEW fs, NEW gs, NEW top, HeldBy(fs, top), NEW more, HeldBy(gs, more), NEW M, NEW gv,
         gv \subseteq Files!IdsOf(fs), Placed(fs, M, gv, {}), \A d, n : Has(gs, d, n) <=> Has(fs, d, n)
  PROVE  gv \subseteq Files!IdsOf(gs) /\ Placed(gs, M, gv, {})
<1>1. Placed(gs, M, gv, {})
  BY PlacedSame
<1>2. \A d : d \in Files!IdsOf(fs) <=> \E n : Has(fs, d, n)
  BY HasIs
<1>3. \A d : d \in Files!IdsOf(gs) <=> \E n : Has(gs, d, n)
  BY HasIs
<1>4. gv \subseteq Files!IdsOf(gs)
  BY <1>2, <1>3
<1> QED
  BY <1>1, <1>4

\* Selecting a tab keeps it: the files stay.
LEMMA SelectFits ==
  ASSUME FitNow, NEW i \in DOMAIN tabs, Files!Select(i)
  PROVE  FitNow'
<1>1. /\ tabs' = tabs /\ active' = i /\ Files!schedule /\ Files!Passed(FALSE)
      /\ stored' = stored /\ images' = images /\ given' = given /\ ids' = ids /\ mishap' = mishap
  BY DEF Files!Select
<1> QED
  BY <1>1, FitParts, FitStep

\* So does a keystroke, which stores the files.
LEMMA TypeFits ==
  ASSUME FitNow, NEW b \in Files!Bodies, Files!Type(b)
  PROVE  FitNow'
<1>1. /\ tabs' = BodyPut(tabs, active, b) /\ active' = active /\ stored' = tabs' /\ Files!schedule /\ Files!Passed(FALSE)
      /\ images' = images /\ given' = given /\ ids' = ids /\ mishap' = mishap
  BY DEF Files!Type, BodyPut
<1>2. b \in Seq(Files!Lines) /\ b # <<>>
  <2>1. /\ Files!Code \in Files!Lines /\ Files!Blank \in Files!Lines
        /\ Files!Marker("a") \in Files!Lines /\ Files!Marker("b") \in Files!Lines
    BY FilesAssumption DEF Files!Lines, FilesAssumption
  <2> DEFINE b1 == <<Files!Code>>
             b2 == <<Files!Blank>>
             b3 == <<Files!Blank, Files!Marker("b")>>
             b4 == <<Files!Code, Files!Marker("a")>>
  <2>2. b = b1 \/ b = b2 \/ b = b3 \/ b = b4
    BY DEF Files!Bodies
  <2>3. b1 \in Seq(Files!Lines) /\ b2 \in Seq(Files!Lines) /\ b3 \in Seq(Files!Lines) /\ b4 \in Seq(Files!Lines)
    BY <2>1
  <2>4. b1 # <<>> /\ b2 # <<>> /\ b3 # <<>> /\ b4 # <<>>
    OBVIOUS
  <2> HIDE DEF b1, b2, b3, b4
  <2> QED
    BY <2>2, <2>3, <2>4
<1>3. HeldBy(tabs, ids) /\ active \in 1..Len(tabs)
  BY FitParts
<1>4. HeldBy(tabs', ids) /\ Len(tabs') = Len(tabs)
  BY <1>1, <1>2, <1>3, BodySet
<1>5. \A d, n : Has(tabs', d, n) <=> Has(tabs, d, n)
  BY <1>1, <1>2, <1>3, BodyHas
<1>6. mishap = "none" => given \subseteq Files!IdsOf(tabs') /\ Placed(tabs', images, given, {})
  BY <1>3, <1>4, <1>5, FitParts, SameImages
<1> QED
  BY <1>1, <1>4, <1>5, <1>6, FitParts, FitStep

\* A file that is moved clears the counts unless its neighbour has the same name.
LEMMA MoveFits ==
  ASSUME FitNow, NEW i \in DOMAIN tabs, NEW j \in DOMAIN tabs, Files!reorder(i, j)
  PROVE  FitNow'
<1>1. /\ i # j /\ tabs' = Files!moveFile(tabs, i, j) /\ active' = Files!ActiveAfterMove(active, i, j)
      /\ Files!schedule /\ Files!Passed(FALSE)
      /\ stored' = stored /\ images' = images /\ given' = given /\ ids' = ids /\ mishap' = mishap
  BY DEF Files!reorder
<1>2. /\ HeldBy(tabs, ids) /\ active \in 1..Len(tabs) /\ active \in Nat /\ Len(tabs) \in Nat
      /\ i \in 1..Len(tabs) /\ j \in 1..Len(tabs)
  BY FitParts
<1>3. HeldBy(tabs', ids) /\ Len(tabs') = Len(tabs) /\ \A d, n : Has(tabs', d, n) <=> Has(tabs, d, n)
  BY <1>1, <1>2, FileMoved
<1>4. active' \in 1..Len(tabs')
  BY <1>1, <1>2, <1>3, ActiveIs
<1>5. mishap = "none" => given \subseteq Files!IdsOf(tabs') /\ Placed(tabs', images, given, {})
  BY <1>2, <1>3, FitParts, SameImages
<1> QED
  BY <1>1, <1>3, <1>4, <1>5, FitParts, FitStep

\* A rename takes the images of the file along.
LEMMA RenameFits ==
  ASSUME FitNow, NEW i \in DOMAIN tabs, NEW m \in Names, Files!RenameTab(i, m)
  PROVE  FitNow'
<1> DEFINE n0 == tabs[i].name
           d0 == tabs[i].id
<1>1. /\ ~Files!nameError(tabs, i, m) /\ n0 # m /\ tabs' = NamePut(tabs, i, m) /\ active' = active
      /\ images' = Files!Moved(images, n0, m) /\ Files!schedule /\ Files!Passed(FALSE)
      /\ stored' = stored /\ given' = given /\ ids' = ids /\ mishap' = mishap
  BY DEF Files!RenameTab, NamePut, Files!RenamedImages
<1>2. /\ HeldBy(tabs, ids) /\ i \in 1..Len(tabs) /\ images \in [Names -> Nat] /\ ids \in Nat
      /\ DOMAIN tabs = 1..Len(tabs) /\ given \subseteq 1..ids
  BY FitParts
<1>3. n0 \in Names /\ Has(tabs, d0, n0) /\ (\A k : Has(tabs, d0, k) => k = n0) /\ \A e, k : Has(tabs, e, k) => k \in Names
  BY <1>2, HasIs
<1>4. HeldBy(tabs', ids) /\ Len(tabs') = Len(tabs)
  BY <1>1, <1>2, NameSet
<1>5. \A d, n : Has(tabs', d, n) <=> (Has(tabs, d, n) /\ d # d0) \/ (d = d0 /\ n = m)
  BY <1>1, <1>2, NameHas
<1>6. \A e : e # d0 => ~Has(tabs, e, m)
  <2>1. \A j \in 1..Len(tabs) : j # i => tabs[j].name # m
    BY <1>1, <1>2 DEF Files!nameError
  <2> QED
    BY <2>1 DEF Has
<1>7. images' \in [Names -> Nat]
  BY <1>1, <1>2, <1>3, MovedIs
<1>8. Files!NamesOf(tabs') # Files!NamesOf(tabs)
  <2>1. tabs'[i].name = m /\ n0 # m
    BY <1>1, <1>2, NameSet
  <2>2. tabs \in Seq(Files!File) /\ tabs' \in Seq(Files!File)
    BY <1>2, <1>4 DEF HeldBy
  <2>3. Files!NamesOf(tabs') = Files!NamesOf(tabs) => \A j \in 1..Len(tabs') : tabs'[j].name = tabs[j].name
    BY <2>2, NamesSame
  <2> QED
    BY <1>2, <1>4, <2>1, <2>3
<1> HIDE DEF n0, d0
<1>9. ASSUME mishap = "none" PROVE given \subseteq Files!IdsOf(tabs') /\ Placed(tabs', images', given, {})
  <2>1. given \subseteq Files!IdsOf(tabs) /\ Placed(tabs, images, given, {})
    BY <1>9, FitParts
  <2>2. 0 \notin given
    BY <1>2
  <2>3. Placed(tabs', Files!Moved(images, n0, m), given, {})
    BY <1>1, <1>2, <1>3, <1>5, <1>6, <2>1, <2>2, PlacedRename
  <2>4. \A d : d \in Files!IdsOf(tabs) <=> \E n : Has(tabs, d, n)
    BY <1>2, HasIs
  <2>5. \A d : d \in Files!IdsOf(tabs') <=> \E n : Has(tabs', d, n)
    BY <1>4, HasIs
  <2>6. given \subseteq Files!IdsOf(tabs')
    BY <1>5, <2>1, <2>4, <2>5
  <2> QED
    BY <1>1, <2>3, <2>6
<1> QED
  BY <1>1, <1>4, <1>7, <1>8, <1>9, FitParts, FitStep

\* A new file has a new name, and no images are under it.
LEMMA AddFits ==
  ASSUME FitNow, Files!addNewFile
  PROVE  FitNow'
<1> DEFINE n0 == Files!nextFileName(tabs)
           f == [id |-> ids + 1, name |-> n0, body |-> Files!seedBody(n0)]
           more == ids + 1
           fs == tabs
           at == Len(fs)
<1>1. /\ Files!FreeNames(tabs) # {} /\ tabs' = Files!InsertAt(fs, at, f) /\ active' = at /\ ids' = more
      /\ Files!schedule /\ Files!Passed(FALSE)
      /\ stored' = stored /\ images' = images /\ given' = given /\ mishap' = mishap
  BY DEF Files!addNewFile, Files!InsertBeforeRoot
<1>2. /\ HeldBy(fs, ids) /\ HeldBy(stored, ids) /\ images \in [Names -> Nat] /\ ids \in Nat
      /\ at \in Nat /\ given \subseteq 1..ids
  BY FitParts
<1>3. at # 0 /\ at \in 1..(at + 1) /\ \A j \in 1..at : fs[j].id \in 1..ids
  BY <1>2, HeldByParts
<1>4. n0 \in Names /\ \A j \in 1..at : fs[j].name # n0
  <2> DEFINE F == Files!FreeNames(tabs)
  <2>1. \A k \in F : k \in 1..4 /\ Files!Order[k] \in Names /\ Files!IndexOf(tabs, Files!Order[k]) = 0
    BY FilesAssumption DEF Files!FreeNames, Files!Order, FilesAssumption
  <2>2. F \in SUBSET Nat /\ F # {}
    BY <1>1, <2>1
  <2> HIDE DEF F
  <2>3. \E k \in F : \A l \in F : k <= l
    BY <2>2, LeastOne
  <2>4. Files!Smallest(F) \in F
    BY <2>3 DEF Files!Smallest
  <2>5. n0 = Files!Order[Files!Smallest(F)]
    BY DEF Files!nextFileName, F
  <2> DEFINE k == Files!Smallest(F)
  <2>6. k \in F
    BY <2>4
  <2> HIDE DEF k
  <2>7. n0 \in Names /\ Files!IndexOf(tabs, n0) = 0
    BY <2>1, <2>5, <2>6 DEF k
  <2> HIDE DEF n0
  <2> QED
    BY <1>2, <2>7, IndexIs
<1>5. f \in Files!File /\ f.id = more /\ f.name = n0 /\ f.body # <<>>
  <2> DEFINE seed == <<Files!Code, Files!Blank>>
  <2>1. Files!Code \in Files!Lines /\ Files!Blank \in Files!Lines
    BY DEF Files!Lines
  <2>2. seed \in Seq(Files!Lines) /\ seed # <<>>
    BY <2>1
  <2>3. f = [id |-> more, name |-> n0, body |-> seed]
    BY DEF Files!seedBody
  <2> HIDE DEF seed, n0, f
  <2> QED
    BY <1>2, <1>4, <2>2, <2>3 DEF Files!File
<1>6. more \in Nat /\ ids <= more /\ f.id \in 1..more /\ (\A j \in 1..at : fs[j].id # f.id)
      /\ f.id \notin 1..ids /\ \A d \in Nat : d <= ids => d # f.id
  <2> HIDE DEF f
  <2> QED
    BY <1>2, <1>3, <1>5
<1> HIDE DEF n0, f, more, fs
<1> DEFINE t == Files!InsertAt(fs, at, f)
<1>7. HeldBy(t, more) /\ Len(t) = at + 1 /\ \A d, n : Has(t, d, n) <=> Has(fs, d, n) \/ (d = f.id /\ n = f.name)
  BY <1>2, <1>3, <1>5, <1>6, FileInserted
<1>8. tabs' = t /\ fs = tabs
  BY <1>1 DEF fs
<1> HIDE DEF t
<1>9. active' \in 1..Len(tabs') /\ given \subseteq 1..more
  <2>1. at \in 1..(at + 1)
    BY <1>3
  <2> QED
    BY <1>1, <1>2, <1>6, <1>7, <1>8, <2>1
<1>10. HeldBy(stored', ids')
  BY <1>1, <1>2, <1>6, HeldByMore
<1>11. ASSUME NEW d, NEW n, Has(tabs', d, n), d <= ids PROVE Has(tabs, d, n)
  <2>1. d \in Nat
    BY <1>7, <1>8, <1>11, HasIs
  <2> QED
    BY <1>6, <1>7, <1>8, <1>11, <2>1
<1>12. ASSUME mishap = "none" PROVE given \subseteq Files!IdsOf(tabs') /\ Placed(tabs', images, given, {})
  <2>1. given \subseteq Files!IdsOf(fs) /\ Placed(fs, images, given, {})
    BY <1>8, <1>12, FitParts
  <2>2. f.id \notin given
    BY <1>2, <1>6
  <2>3. \A e : ~Has(fs, e, n0)
    BY <1>4 DEF Has
  <2>4. Placed(t, images, given, {})
    BY <1>4, <1>5, <1>7, <2>1, <2>2, <2>3, PlacedInsert
  <2>5. \A d : d \in Files!IdsOf(fs) <=> \E n : Has(fs, d, n)
    BY <1>2, HasIs
  <2>6. \A d : d \in Files!IdsOf(t) <=> \E n : Has(t, d, n)
    BY <1>7, HasIs
  <2>7. given \subseteq Files!IdsOf(t)
    BY <1>7, <2>1, <2>5, <2>6
  <2> QED
    BY <1>8, <2>4, <2>7
<1>13. HeldBy(tabs', ids') /\ ids <= ids'
  BY <1>1, <1>6, <1>7, <1>8
<1> QED
  BY <1>1, <1>2, <1>9, <1>10, <1>11, <1>12, <1>13, FitStep

\* The images of a file that is deleted go with it.
LEMMA DeleteFits ==
  ASSUME FitNow, NEW i \in DOMAIN tabs, Files!DeleteTab(i)
  PROVE  FitNow'
<1> DEFINE n0 == tabs[i].name
           d0 == tabs[i].id
           L == [n \in Names |-> IF n \in {n0} THEN 0 ELSE images[n]]
<1>1. /\ Files!canDelete(tabs) /\ tabs' = Files!RemoveAt(tabs, i)
      /\ active' = Files!ActiveAfterDelete(active, i, Len(tabs) - 1)
      /\ images' = Files!Dropped(images, n0) /\ given' = given \ {d0}
      /\ Files!schedule /\ Files!Passed(FALSE) /\ stored' = stored /\ ids' = ids /\ mishap' = mishap
  BY DEF Files!DeleteTab
<1>2. /\ HeldBy(tabs, ids) /\ i \in 1..Len(tabs) /\ images \in [Names -> Nat] /\ ids \in Nat
      /\ active \in 1..Len(tabs) /\ active \in Nat /\ Len(tabs) \in Nat /\ given \subseteq 1..ids
  BY FitParts
<1>3. Len(tabs) > 1
  BY <1>1 DEF Files!canDelete
<1>4. n0 \in Names /\ Has(tabs, d0, n0) /\ (\A k : Has(tabs, d0, k) => k = n0)
  BY <1>2, HasIs
<1>5. HeldBy(tabs', ids) /\ Len(tabs') = Len(tabs) - 1 /\ \A d, n : Has(tabs', d, n) <=> Has(tabs, d, n) /\ d # d0
  BY <1>1, <1>2, <1>3, FileRemoved
<1>6. images' = L /\ L \in [Names -> Nat]
  BY <1>1, <1>2, <1>4 DEF Files!Dropped, Files!None
<1>7. active' \in 1..Len(tabs')
  BY <1>1, <1>2, <1>3, <1>5, ActiveIs
<1> HIDE DEF n0, d0, L
<1>8. ASSUME mishap = "none" PROVE given' \subseteq Files!IdsOf(tabs') /\ Placed(tabs', images', given', {})
  <2> DEFINE live == Files!IdsOf(tabs')
  <2>1. given \subseteq Files!IdsOf(tabs) /\ Placed(tabs, images, given, {})
    BY <1>8, FitParts
  <2>2. Placed(tabs', images, given, {} \cup {n0})
    BY <1>4, <1>5, <2>1, PlacedRemove
  <2>3. \A d : d \in Files!IdsOf(tabs) <=> \E n : Has(tabs, d, n)
    BY <1>2, HasIs
  <2>4. (\A d : d \in live <=> \E n : Has(tabs', d, n)) /\ \A d, n : Has(tabs', d, n) => n \in Names /\ d \in live
    BY <1>5, HasIs
  <2> HIDE DEF live
  <2>5. given \cap live = given'
    BY <1>1, <1>5, <2>1, <2>3, <2>4
  <2>6. Placed(tabs', images, given, {n0})
    BY <2>2
  <2>7. Placed(tabs', L, given \cap live, {})
    BY <2>4, <2>6, PlacedEnd DEF L
  <2> QED
    BY <1>6, <2>5, <2>7 DEF live
<1> QED
  BY <1>1, <1>2, <1>5, <1>6, <1>7, <1>8, FitParts, FitStep

\* Images are given to the open file.
LEMMA ImagesFits ==
  ASSUME FitNow, Files!SetImages
  PROVE  FitNow'
<1> DEFINE n0 == tabs[active].name
           d0 == tabs[active].id
<1>1. /\ Files!Unique(tabs) /\ given' = given \cup {d0} /\ images' = [images EXCEPT ![n0] = d0]
      /\ tabs' = tabs /\ active' = active /\ stored' = stored /\ renderedFiles' = renderedFiles
      /\ inflight' = inflight /\ analysis' = analysis /\ swapped' = swapped /\ ids' = ids /\ mishap' = mishap
  BY DEF Files!SetImages
<1>2. /\ HeldBy(tabs, ids) /\ active \in 1..Len(tabs) /\ images \in [Names -> Nat] /\ given \subseteq 1..ids
  BY FitParts
<1>3. /\ n0 \in Names /\ Has(tabs, d0, n0) /\ (\A k : Has(tabs, d0, k) => k = n0) /\ \A e, k : Has(tabs, e, k) => k \in Names
      /\ d0 \in Files!IdsOf(tabs) /\ d0 \in 1..ids /\ d0 \in Nat
  BY <1>2, HasIs
<1> HIDE DEF n0, d0
<1>4. images' \in [Names -> Nat] /\ given' \subseteq 1..ids
  BY <1>1, <1>2, <1>3
<1>5. OneEach(tabs)
  BY <1>1, <1>2, UniqueIs
<1>6. ASSUME mishap = "none" PROVE given' \subseteq Files!IdsOf(tabs) /\ Placed(tabs, [images EXCEPT ![n0] = d0], given', {})
  <2>1. given \subseteq Files!IdsOf(tabs) /\ Placed(tabs, images, given, {})
    BY <1>6, FitParts
  <2>2. Placed(tabs, [images EXCEPT ![n0] = d0], given \cup {d0}, {})
    BY <1>2, <1>3, <1>5, <2>1, PlacedGiven
  <2> QED
    BY <1>1, <1>3, <2>1, <2>2
<1> QED
  BY <1>1, <1>4, <1>6, FitParts DEF FitNow, Fit

\* The counts that land are of the files there are.
LEMMA AnalysedFits ==
  ASSUME FitNow, Files!Analysed
  PROVE  FitNow'
<1>1. /\ inflight # <<>> /\ analysis' = inflight /\ inflight' = <<>> /\ swapped' = FALSE
      /\ tabs' = tabs /\ active' = active /\ stored' = stored /\ images' = images /\ given' = given
      /\ renderedFiles' = renderedFiles /\ ids' = ids /\ mishap' = mishap
  BY DEF Files!Analysed
<1>2. HeldBy(tabs, ids) /\ Counts(tabs, renderedFiles, inflight, analysis, swapped, ids)
  BY FitParts
<1>3. inflight = tabs /\ renderedFiles = Files!NamesOf(tabs)
  BY <1>1, <1>2 DEF Counts
<1>4. tabs \in Seq(Files!File) /\ \A i \in 1..Len(tabs) : tabs[i].id \in 1..ids
  BY <1>2, HeldByParts
<1>5. Counts(tabs, renderedFiles, <<>>, tabs, FALSE, ids)
  BY <1>3, <1>4 DEF Counts
<1> QED
  BY <1>1, <1>3, <1>5 DEF FitNow, Fit

\* A batch: its plan keeps images in place unless it names a deleted file again.
LEMMA BatchFits ==
  ASSUME FitNow, NEW ops \in Files!Batches, Files!updateAgentProject(ops)
  PROVE  FitNow'
<1> DEFINE p == Files!planMutations(tabs, tabs[active].name, ops)
           live == Files!IdsOf(p.files)
           M == Files!RenamedAll(images, p.renamed)
           L == [n \in Names |-> IF n \in p.deleted THEN 0 ELSE M[n]]
<1>1. \/ /\ tabs' = tabs /\ active' = active /\ stored' = stored /\ images' = images /\ given' = given
         /\ renderedFiles' = renderedFiles /\ inflight' = inflight /\ analysis' = analysis
         /\ swapped' = swapped /\ ids' = ids /\ mishap' = mishap
      \/ /\ tabs' = p.files /\ active' = p.active /\ stored' = p.files /\ images' = Files!BatchImages(images, p)
         /\ given' = given \cap live /\ ids' = p.ids
         /\ mishap' = IF mishap = "none" /\ p.reused THEN "batch" ELSE mishap
         /\ Files!schedule /\ Files!Passed(p.renamed # <<>>)
  <2>1. PICK q \in {p} : Files!updateAgentProject(ops)!(q)
    BY DEF Files!updateAgentProject
  <2> QED
    BY <2>1
<1>2. /\ HeldBy(tabs, ids) /\ active \in 1..Len(tabs) /\ images \in [Names -> Nat] /\ given \subseteq 1..ids
      /\ mishap = "none" => Placed(tabs, images, given, {})
  BY FitParts
<1>3. PlanInv(p)
  BY <1>2, PlanHolds
<1> HIDE DEF p
<1>4. /\ HeldBy(p.files, p.ids) /\ ids \in Nat /\ p.ids \in Nat /\ ids <= p.ids /\ p.active \in 1..Len(p.files)
      /\ M \in [Names -> Nat] /\ PlanOld(p) /\ PlanPlaced(p)
  BY <1>3, PlanParts
<1> HIDE DEF M
<1>5. Files!BatchImages(images, p) = L /\ L \in [Names -> Nat]
  BY <1>4 DEF Files!BatchImages, Files!None, M
<1> HIDE DEF L
<1>6. CASE tabs' = tabs /\ active' = active /\ stored' = stored /\ images' = images /\ given' = given
           /\ renderedFiles' = renderedFiles /\ inflight' = inflight /\ analysis' = analysis
           /\ swapped' = swapped /\ ids' = ids /\ mishap' = mishap
  BY <1>6 DEF FitNow, Fit
<1>7. ASSUME tabs' = p.files, active' = p.active, stored' = p.files, images' = L, given' = given \cap live, ids' = p.ids,
             mishap' = IF mishap = "none" /\ p.reused THEN "batch" ELSE mishap,
             Files!schedule, Files!Passed(p.renamed # <<>>)
      PROVE  FitNow'
  <2>1. ~(p.renamed # <<>>) => \A d, n : Has(tabs', d, n) /\ d <= ids => Has(tabs, d, n)
    BY <1>4, <1>7 DEF PlanOld
  <2>2. given' \subseteq 1..ids'
    BY <1>2, <1>4, <1>7
  <2>3. ASSUME mishap' = "none" PROVE given' \subseteq Files!IdsOf(tabs') /\ Placed(tabs', images', given', {})
    <3>1. mishap = "none" /\ ~p.reused
      BY <1>7, <2>3
    <3>2. Placed(p.files, M, given, p.deleted)
      BY <1>4, <3>1 DEF PlanPlaced, M
    <3>3. \A d, n : Has(p.files, d, n) => n \in Names /\ d \in live
      BY <1>4, HasIs
    <3> HIDE DEF live
    <3>4. Placed(p.files, L, given \cap live, {})
      BY <3>2, <3>3, PlacedEnd DEF L
    <3> QED
      BY <1>7, <3>4 DEF live
  <2> HIDE DEF live
  <2> DEFINE renamed == p.renamed # <<>>
  <2>4. Files!Passed(renamed) /\ (~renamed => \A d, n : Has(tabs', d, n) /\ d <= ids => Has(tabs, d, n))
    BY <1>7, <2>1
  <2> HIDE DEF renamed
  <2>5. /\ ids <= ids' /\ HeldBy(tabs', ids') /\ HeldBy(stored', ids') /\ active' \in 1..Len(tabs')
        /\ images' \in [Names -> Nat]
    BY <1>4, <1>5, <1>7
  <2> QED
    BY <1>7, <2>2, <2>3, <2>4, <2>5, FitStep
<1> QED
  BY <1>1, <1>5, <1>6, <1>7

\* The files a text splits into.
LEMMA CleanIs ==
  ASSUME NEW fs, Clean(fs)
  PROVE  /\ fs \in Seq(Plain) /\ Len(fs) \in Nat /\ Len(fs) # 0 /\ DOMAIN fs = 1..Len(fs)
         /\ \A i \in 1..Len(fs) : fs[i].name \in Names /\ fs[i].body \in Seq(Files!Lines) /\ fs[i].body # <<>>
<1>1. RawFiles(fs) /\ fs # <<>> /\ \A i \in 1..Len(fs) : fs[i].body # <<>>
  BY DEF Clean
<1> QED
  BY <1>1, CleanParts

\* Files that are given an identity each.
WithIds(fs, g) == [i \in DOMAIN fs |-> [id |-> g[i], name |-> fs[i].name, body |-> fs[i].body]]

\* Files that are read get identities, each another one.
LEMMA FilesGiven ==
  ASSUME NEW fs, Clean(fs), NEW g, NEW top \in Nat, \A i \in 1..Len(fs) : g[i] \in 1..top,
         \A i, j \in 1..Len(fs) : g[i] = g[j] => i = j
  PROVE  HeldBy(WithIds(fs, g), top) /\ Len(WithIds(fs, g)) = Len(fs)
<1> DEFINE n == Len(fs)
           t == WithIds(fs, g)
<1>1. /\ n \in Nat /\ n # 0 /\ DOMAIN fs = 1..n
      /\ \A i \in 1..n : fs[i].name \in Names /\ fs[i].body \in Seq(Files!Lines) /\ fs[i].body # <<>>
  BY CleanIs
<1>2. \A i \in 1..n : g[i] \in Nat /\ g[i] \in 1..top
  OBVIOUS
<1>3. t = [i \in 1..n |-> [id |-> g[i], name |-> fs[i].name, body |-> fs[i].body]]
  BY <1>1 DEF WithIds
<1> HIDE DEF n, t
<1>4. \A i \in 1..n : t[i] \in Files!File /\ t[i].id = g[i] /\ t[i].name = fs[i].name /\ t[i].body = fs[i].body
  BY <1>1, <1>2, <1>3 DEF Files!File
<1>5. t \in Seq(Files!File) /\ Len(t) = n /\ t # <<>>
  <2>1. t \in [1..n -> Files!File]
    BY <1>3, <1>4
  <2>2. t \in Seq(Files!File) /\ Len(t) = n
    BY <1>1, <2>1
  <2> QED
    BY <1>1, <2>2
<1>6. \A i \in 1..n : t[i].body # <<>> /\ t[i].id \in 1..top
  BY <1>1, <1>2, <1>4
<1>7. \A i, j \in 1..n : t[i].id = t[j].id => i = j
  BY <1>4 DEF n
<1>8. HeldBy(t, top)
  BY <1>5, <1>6, <1>7 DEF HeldBy
<1> QED
  BY <1>5, <1>8 DEF n, t

\* What is stored splits into files.
LEMMA StoredSplits ==
  ASSUME NEW fs, HeldBy(fs, ids)
  PROVE  Clean(Files!splitFiles(Files!joinFiles(fs)))
<1> DEFINE t == Files!Named(fs)
           s == Files!joinFiles(fs)
<1>1. ids \in Nat /\ \A i \in 1..Len(fs) : fs[i].body # <<>>
  BY HeldByParts
<1>2. Files!Held(fs)
  BY <1>1, HeldIsBy DEF Files!Held
<1>3. /\ t \in Seq(Plain) /\ t # <<>> /\ Files!joinFiles(t) = s
      /\ Len(t) = Len(fs) /\ \A i \in 1..Len(fs) : t[i].body = fs[i].body
  BY <1>1, <1>2, NamedIsPlain
<1> HIDE DEF t, s
<1>4. s \in Seq(Files!Lines) /\ s # <<>>
  BY <1>1, <1>3, JoinIsText
<1> QED
  BY <1>4, SplitIs DEF s

\* A load: identities are kept where the text splits as it was joined.
LEMMA LoadFits ==
  ASSUME FitNow, Files!loadProject
  PROVE  FitNow'
<1> DEFINE files == Files!splitFiles(Files!joinFiles(stored))
           n == Len(files)
           kept == files = Files!Named(stored)
           g == [i \in 1..n |-> IF kept THEN stored[i].id ELSE ids + i]
           new == [i \in DOMAIN files |-> [id |-> IF kept THEN stored[i].id ELSE ids + i, name |-> files[i].name, body |-> files[i].body]]
           top == IF kept THEN ids ELSE ids + n
           at == Files!IndexOf(new, activeFile)
           were == {<<tabs[i].id, tabs[i].name>> : i \in DOMAIN tabs}
           are == {<<new[i].id, new[i].name>> : i \in DOMAIN new}
<1>1. /\ tabs' = new /\ active' = (IF at # 0 THEN at ELSE Len(new)) /\ ids' = top /\ stored' = new
      /\ mishap' = IF ~kept THEN "resplit" ELSE IF mishap = "none" /\ were # are THEN "load" ELSE mishap
      /\ inflight' = tabs' /\ analysis' = <<>> /\ swapped' = FALSE /\ renderedFiles' = Files!NamesOf(tabs')
      /\ images' = images /\ given' = given
  BY DEF Files!loadProject
<1>2. /\ HeldBy(tabs, ids) /\ HeldBy(stored, ids) /\ ids \in Nat /\ DOMAIN tabs = 1..Len(tabs)
      /\ images \in [Names -> Nat] /\ given \subseteq 1..ids
  BY FitParts
<1>3. Clean(files)
  BY <1>2, StoredSplits
<1>4. n \in Nat /\ n # 0 /\ DOMAIN files = 1..n
  BY <1>3, CleanIs
<1>5. kept => Len(stored) = n
  <2>1. Files!Held(stored)
    BY <1>2, HeldIsBy DEF Files!Held
  <2>2. Len(Files!Named(stored)) = Len(stored)
    BY <1>2, <2>1, NamedIsPlain
  <2> QED
    BY <2>2
<1>6. /\ \A i \in 1..Len(stored) : stored[i].id \in 1..ids
      /\ \A i, j \in 1..Len(stored) : stored[i].id = stored[j].id => i = j
  BY <1>2, HeldByParts
<1>7. new = WithIds(files, g)
  BY <1>4 DEF WithIds
<1> HIDE DEF n, files, kept, new
<1>8. top \in Nat /\ ids <= top
  BY <1>2, <1>4
<1>9. (\A i \in 1..n : g[i] \in 1..top) /\ \A i, j \in 1..n : g[i] = g[j] => i = j
  <2>1. CASE kept
    BY <1>5, <1>6, <2>1
  <2>2. CASE ~kept
    <3>1. \A i \in 1..n : g[i] = ids + i
      BY <2>2
    <3>2. top = ids + n
      BY <2>2
    <3> HIDE DEF g, top
    <3> QED
      BY <1>2, <1>4, <3>1, <3>2
  <2> QED
    BY <2>1, <2>2
<1> HIDE DEF g, top
<1>10. HeldBy(new, top)
  BY <1>3, <1>7, <1>8, <1>9, FilesGiven DEF n
<1>11. Len(new) \in 1..Len(new) /\ (at # 0 => at \in 1..Len(new)) /\ DOMAIN new = 1..Len(new)
  <2>1. Len(new) \in Nat /\ Len(new) # 0 /\ DOMAIN new = 1..Len(new)
    BY <1>10, HeldByParts
  <2>2. at # 0 => at \in 1..Len(new)
    BY <1>10, IndexIs
  <2> QED
    BY <2>1, <2>2
<1>12. active' \in 1..Len(tabs') /\ given' \subseteq 1..ids'
  BY <1>1, <1>2, <1>8, <1>11
<1>13. Counts(new, Files!NamesOf(new), new, <<>>, FALSE, top)
  BY DEF Counts
<1>14. ASSUME mishap' = "none" PROVE given \subseteq Files!IdsOf(new) /\ Placed(new, images, given, {})
  <2>1. mishap = "none" /\ were = are
    BY <1>1, <1>14
  <2>2. \A d, k : Has(tabs, d, k) <=> <<d, k>> \in were
    BY <1>2 DEF Has
  <2>3. \A d, k : Has(new, d, k) <=> <<d, k>> \in are
    BY <1>11 DEF Has
  <2> HIDE DEF were, are
  <2>4. \A d, k : Has(new, d, k) <=> Has(tabs, d, k)
    BY <2>1, <2>2, <2>3
  <2>5. given \subseteq Files!IdsOf(tabs) /\ Placed(tabs, images, given, {})
    BY <2>1, FitParts
  <2> QED
    BY <1>2, <1>10, <2>4, <2>5, SameImages
<1> QED
  BY <1>1, <1>2, <1>10, <1>12, <1>13, <1>14 DEF FitNow, Fit

\* The invariant holds at first,
LEMMA FilesStart ==
  ASSUME Files!Init
  PROVE  Files!FilesInv
<1>1. PICK text \in Files!Texts : \E files \in {Files!splitFiles(text)} : Files!Init!(text)!(files)
  BY DEF Files!Init
<1> DEFINE files == Files!splitFiles(text)
           n == Len(files)
           g == [i \in 1..n |-> i]
<1>2. /\ tabs = [i \in DOMAIN files |-> [id |-> i, name |-> files[i].name, body |-> files[i].body]]
      /\ active = n /\ stored = tabs /\ images = [k \in Names |-> 0] /\ given = {}
      /\ renderedFiles = Files!NamesOf(tabs) /\ inflight = tabs /\ analysis = <<>> /\ ids = n
  BY <1>1 DEF Files!None
<1>3. text \in Seq(Files!Lines) /\ text # <<>>
  <2>1. /\ Files!Code \in Files!Lines /\ Files!Blank \in Files!Lines /\ Files!Marker("a") \in Files!Lines
        /\ Files!Marker("b") \in Files!Lines /\ Files!Marker("main") \in Files!Lines
    BY FilesAssumption DEF Files!Lines, FilesAssumption
  <2> DEFINE t1 == <<Files!Code>>
             t2 == <<Files!Marker("a"), Files!Code, Files!Marker("main"), Files!Code, Files!Blank>>
             t3 == <<Files!Marker("main"), Files!Marker("b"), Files!Code, Files!Blank>>
             t4 == <<Files!Marker("a"), Files!Code, Files!Marker("a"), Files!Code>>
  <2>2. text = t1 \/ text = t2 \/ text = t3 \/ text = t4
    BY DEF Files!Texts
  <2>3. t1 \in Seq(Files!Lines) /\ t1 # <<>>
    BY <2>1
  <2>4. t2 \in Seq(Files!Lines) /\ t2 # <<>>
    BY <2>1
  <2>5. t3 \in Seq(Files!Lines) /\ t3 # <<>>
    BY <2>1
  <2>6. t4 \in Seq(Files!Lines) /\ t4 # <<>>
    BY <2>1
  <2> HIDE DEF t1, t2, t3, t4
  <2> QED
    BY <2>2, <2>3, <2>4, <2>5, <2>6
<1>4. Clean(files)
  BY <1>3, SplitIs
<1>5. n \in Nat /\ n # 0 /\ DOMAIN files = 1..n
  BY <1>4, CleanIs
<1>6. tabs = WithIds(files, g) /\ (\A i \in 1..n : g[i] \in 1..n) /\ \A i, j \in 1..n : g[i] = g[j] => i = j
  BY <1>2, <1>5 DEF WithIds
<1> HIDE DEF files, g
<1>7. HeldBy(tabs, n) /\ Len(tabs) = n
  BY <1>4, <1>5, <1>6, FilesGiven
<1> HIDE DEF n
<1>8. active \in 1..Len(tabs) /\ images \in [Names -> Nat] /\ given \subseteq 1..ids
  BY <1>2, <1>5, <1>7
<1>9. Counts(tabs, renderedFiles, inflight, analysis, swapped, ids)
  BY <1>2 DEF Counts
<1>10. Placed(tabs, images, given, {})
  <2>1. \A d, k : Has(tabs, d, k) => k \in Names
    BY <1>7, HasIs
  <2> QED
    BY <1>2, <2>1 DEF Placed
<1>11. given \subseteq Files!IdsOf(tabs)
  BY <1>2
<1>12. FitNow
  BY <1>2, <1>7, <1>8, <1>9, <1>10, <1>11 DEF FitNow, Fit
<1> QED
  BY <1>12, FitIs

\* is kept by every step,
LEMMA FilesKeeps ==
  ASSUME Files!FilesInv, Files!Next
  PROVE  Files!FilesInv'
<1>1. FitNow
  BY FitIs
<1>2. ASSUME NEW i \in DOMAIN tabs, Files!Select(i) PROVE FitNow'
  BY <1>1, <1>2, SelectFits
<1>3. ASSUME NEW b \in Files!Bodies, Files!Type(b) PROVE FitNow'
  BY <1>1, <1>3, TypeFits
<1>4. ASSUME Files!addNewFile PROVE FitNow'
  BY <1>1, <1>4, AddFits
<1>5. ASSUME NEW i \in DOMAIN tabs, NEW n \in Names, Files!RenameTab(i, n) PROVE FitNow'
  BY <1>1, <1>5, RenameFits
<1>6. ASSUME NEW i \in DOMAIN tabs, Files!DeleteTab(i) PROVE FitNow'
  BY <1>1, <1>6, DeleteFits
<1>7. ASSUME NEW i \in DOMAIN tabs, NEW j \in DOMAIN tabs, Files!reorder(i, j) PROVE FitNow'
  BY <1>1, <1>7, MoveFits
<1>8. ASSUME Files!SetImages PROVE FitNow'
  BY <1>1, <1>8, ImagesFits
<1>9. ASSUME NEW ops \in Files!Batches, Files!updateAgentProject(ops) PROVE FitNow'
  BY <1>1, <1>9, BatchFits
<1>10. ASSUME Files!Analysed PROVE FitNow'
  BY <1>1, <1>10, AnalysedFits
<1>11. ASSUME Files!loadProject PROVE FitNow'
  BY <1>1, <1>11, LoadFits
<1>12. FitNow'
  BY <1>2, <1>3, <1>4, <1>5, <1>6, <1>7, <1>8, <1>9, <1>10, <1>11, Zenon DEF Files!Next
<1> QED
  BY <1>12, FitNextIs

\* ProjectFiles counts as the library does.
LEMMA FilesCount == \A T : Files!Cardinality(T) = Cardinality(T)
BY DEF Files!Cardinality, Cardinality

\* and says what is claimed.
LEMMA FilesMean ==
  ASSUME Files!FilesInv
  PROVE  Files!FilesKeepTheirOwn
<1>1. /\ ids \in Nat /\ Files!Held(tabs) /\ active \in DOMAIN tabs /\ images \in [Names -> Nat] /\ given \subseteq 1..ids
      /\ Files!CountsInv /\ Files!ImagesInv
  BY DEF Files!FilesInv
<1> DEFINE n == Len(tabs)
<1>2. /\ HeldBy(tabs, ids) /\ tabs \in Seq(Files!File) /\ DOMAIN tabs = 1..n /\ n \in Nat /\ tabs # <<>>
      /\ \A i \in 1..n : tabs[i].name \in Names /\ tabs[i].body # <<>> /\ tabs[i].id \in 1..ids
      /\ \A i, j \in 1..n : tabs[i].id = tabs[j].id => i = j
  <2>1. HeldBy(tabs, ids)
    BY <1>1, HeldIsBy DEF Files!Held
  <2>2. tabs # <<>>
    BY <2>1 DEF HeldBy
  <2> QED
    BY <2>1, <2>2, HeldByParts
<1>3. Cardinality(Files!IdsOf(tabs)) = n
  <2> DEFINE D == Files!IdsOf(tabs)
             f == [i \in 1..n |-> tabs[i].id]
  <2>1. f \in Bijection(1..n, D)
    <3>1. f \in [1..n -> D]
      BY <1>2 DEF Files!IdsOf
    <3>2. \A i, j \in 1..n : f[i] = f[j] => i = j
      BY <1>2
    <3>3. \A d \in D : \E i \in 1..n : f[i] = d
      BY <1>2 DEF Files!IdsOf
    <3> QED
      BY <3>1, <3>2, <3>3, Zenon DEF Bijection, Injection, Surjection, IsInjective
  <2> HIDE DEF D, f
  <2>2. ExistsBijection(1..n, D)
    BY <2>1 DEF ExistsBijection
  <2>3. IsFiniteSet(1..n) /\ Cardinality(1..n) = n
    <3>1. 1 \in Int /\ n \in Int
      BY <1>2
    <3>2. IsFiniteSet(1..n) /\ Cardinality(1..n) = IF 1 > n THEN 0 ELSE n - 1 + 1
      BY <3>1, FS_Interval
    <3> HIDE DEF n
    <3>3. (IF 1 > n THEN 0 ELSE n - 1 + 1) = n
      BY <1>2
    <3> QED
      BY <3>2, <3>3
  <2>4. Cardinality(D) = Cardinality(1..n)
    BY <2>2, <2>3, FS_Bijection
  <2> QED
    BY <2>3, <2>4 DEF D
<1>4. Files!TypeOK
  BY <1>1, <1>2, <1>3, FilesCount DEF Files!TypeOK
<1>5. Files!ConflictsAreExact /\ Files!ReadingSettles
  BY <1>1, TextsKeep
<1>6. Files!ImagesFollow
  BY <1>1 DEF Files!ImagesFollow, Files!ImagesInv
<1>7. Files!CountsAreOwn
  <2>1. SUFFICES ASSUME Files!Unique(tabs), ~swapped, NEW i \in DOMAIN tabs, NEW j \in Files!countsByFile(i)
        PROVE  analysis[j].id \in {tabs[i].id} \cup (1..ids \ Files!IdsOf(tabs))
    BY DEF Files!CountsAreOwn
  <2>2. j \in DOMAIN analysis /\ Files!IndexOf(tabs, analysis[j].name) = i
    BY DEF Files!countsByFile
  <2>3. analysis # <<>>
    BY <2>2
  <2>4. /\ analysis \in Seq(Files!File) /\ Files!NamesOf(analysis) = Files!NamesOf(tabs)
        /\ \A k \in DOMAIN analysis : analysis[k].id \in 1..ids
        /\ \A k \in DOMAIN tabs : analysis[k].id = tabs[k].id \/ analysis[k].id \notin Files!IdsOf(tabs)
    BY <1>1, <2>1, <2>3 DEF Files!CountsInv
  <2>5. Len(analysis) = n /\ \A k \in 1..n : analysis[k].name = tabs[k].name
    BY <1>2, <2>4, NamesSame
  <2>6. j \in 1..n /\ i \in 1..n
    BY <1>2, <2>2, <2>4, <2>5
  <2>7. i # 0
    BY <1>2, <2>6
  <2>8. tabs[i].name = analysis[j].name
    BY <1>2, <2>2, <2>7, IndexIs
  <2>9. i = j
    BY <1>2, <2>1, <2>5, <2>6, <2>8, UniqueIs
  <2> QED
    BY <1>2, <2>2, <2>4, <2>6, <2>9
<1> QED
  BY <1>4, <1>5, <1>6, <1>7 DEF Files!FilesKeepTheirOwn

\* In a page whose run is about the files of a project, their invariant holds.
FilesHold == component = "files" => Files!FilesInv

\* However often the files of a project are typed in, added, renamed, deleted, moved,
\* changed in batches, analysed and loaded again: the text they are kept as gives them
\* back unless joinConflicts() finds fault, and reading it once settles it; the counts on
\* a tab are of its file or of one that is gone, unless a batch passed the names on; and a
\* file's images are under its name, and no other's, until a load or a batch costs them.
THEOREM FilesKeep == Spec => []FilesKeepTheirOwn
<1>1. Init => FilesHold
  BY FilesStart DEF Init, FilesHold
<1>2. FilesHold /\ [Next]_vars => FilesHold'
  <2> SUFFICES ASSUME FilesHold, [Next]_vars, component' = "files" PROVE Files!FilesInv'
    BY DEF FilesHold
  <2>1. CASE UNCHANGED vars
    <3>1. /\ tabs' = tabs /\ active' = active /\ stored' = stored /\ images' = images /\ given' = given
          /\ renderedFiles' = renderedFiles /\ inflight' = inflight /\ analysis' = analysis
          /\ swapped' = swapped /\ ids' = ids /\ mishap' = mishap /\ Files!FilesInv
      BY <2>1 DEF FilesHold, vars, filesVars
    <3>2. FitNow
      BY <3>1, FitIs
    <3>3. FitNow'
      BY <3>1, <3>2 DEF FitNow
    <3> QED
      BY <3>3, FitNextIs
  <2>2. CASE Next
    <3>1. component = "files" /\ Files!Next /\ Files!FilesInv
      BY <2>2 DEF Next, FilesHold
    <3> QED
      BY <3>1, FilesKeeps
  <2> QED
    BY <2>1, <2>2
<1>3. FilesHold => FilesKeepTheirOwn
  BY FilesMean DEF FilesHold, FilesKeepTheirOwn
<1> QED
  BY <1>1, <1>2, <1>3, PTL DEF Spec
=============================================================================
