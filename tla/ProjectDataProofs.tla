-------------------------- MODULE ProjectDataProofs --------------------------
(***************************************************************************)
(* Proofs about what the page keeps of a reader's work, for any number of  *)
(* changes: what an agent reads in pieces was there at one moment, the     *)
(* storage loses no more than it must, and a link opens what was sent.     *)
(***************************************************************************)
EXTENDS MCProjectData, SequenceTheorems, FiniteSetTheorems, WellFoundedInduction, TLAPS

-----------------------------------------------------------------------------
(* Revisions and reads *)

Inputs == [name : {0, 1}, body : FileTexts, image : {0, 1}]

\* The texts of a file are whole: a high surrogate has its low one, and none is alone.
LEMMA BodiesAreTexts ==
  \A b \in FileTexts :
    /\ b \in Seq(Agent!Units) /\ Len(b) \in Nat
    /\ \A i \in 1..Len(b) : /\ b[i] = "H" => i < Len(b) /\ b[i + 1] = "L"
                            /\ b[i] = "L" => i > 1 /\ b[i - 1] = "H"
<1> SUFFICES ASSUME NEW b \in FileTexts
             PROVE  /\ b \in Seq(Agent!Units) /\ Len(b) \in Nat
                    /\ \A i \in 1..Len(b) : /\ b[i] = "H" => i < Len(b) /\ b[i + 1] = "L"
                                            /\ b[i] = "L" => i > 1 /\ b[i - 1] = "H"
  OBVIOUS
<1>1. b \in Seq(Agent!Units) /\ Units!isWellFormed(b)
  BY ReadsAssumption DEF ReadsAssumption
<1>2. DOMAIN b = 1..Len(b) /\ Len(b) \in Nat
  BY <1>1
<1> QED
  BY <1>1, <1>2 DEF Units!isWellFormed

\* A piece ends behind its beginning, and not inside a character.
LEMMA ChunkStops ==
  ASSUME NEW b \in FileTexts, NEW at \in 0..Len(b), NEW size \in PieceSizes,
         at < Len(b) => b[at + 1] # "L"
  PROVE  /\ Agent!ChunkEnd(b, at, size) \in at..Len(b)
         /\ Agent!ChunkEnd(b, at, size) < Len(b) => b[Agent!ChunkEnd(b, at, size) + 1] # "L"
<1> DEFINE end == IF Len(b) < at + size THEN Len(b) ELSE at + size
<1>1. Len(b) \in Nat /\ at \in Nat /\ size \in Nat /\ size >= 2
  BY BodiesAreTexts, ReadsAssumption DEF ReadsAssumption
<1>2. end \in at..Len(b) /\ (end < Len(b) => end = at + size)
  BY <1>1
<1>3. CASE end < Len(b) /\ b[end + 1] = "L"
  <2>1. Agent!ChunkEnd(b, at, size) = end - 1
    BY <1>3 DEF Agent!ChunkEnd
  <2>2. end + 1 \in 1..Len(b) /\ end \in 1..Len(b)
    BY <1>1, <1>2, <1>3
  <2>3. b[end] = "H"
    BY <1>3, <2>2, BodiesAreTexts
  <2>4. end - 1 \in at..Len(b)
    BY <1>1, <1>2, <1>3
  <2>5. b[(end - 1) + 1] # "L"
    <3>1. (end - 1) + 1 = end
      BY <2>2
    <3> QED
      BY <2>3, <3>1
  <2> HIDE DEF end
  <2> QED
    BY <2>1, <2>4, <2>5
<1>4. CASE ~(end < Len(b) /\ b[end + 1] = "L")
  <2>1. Agent!ChunkEnd(b, at, size) = end
    BY <1>4 DEF Agent!ChunkEnd
  <2> HIDE DEF end
  <2> QED
    BY <1>2, <1>4, <2>1
<1> QED
  BY <1>3, <1>4

\* A text up to a place between two characters has whole ones.
LEMMA PrefixIsText ==
  ASSUME NEW b \in FileTexts, NEW at \in 0..Len(b), at < Len(b) => b[at + 1] # "L"
  PROVE  /\ SubSeq(b, 1, at) \in Seq(Agent!Units) /\ Len(SubSeq(b, 1, at)) = at
         /\ \A i \in DOMAIN SubSeq(b, 1, at) : SubSeq(b, 1, at)[i] = "H" => i < Len(SubSeq(b, 1, at))
<1>1. b \in Seq(Agent!Units) /\ Len(b) \in Nat /\ at \in Nat
  BY BodiesAreTexts
<1>2. /\ SubSeq(b, 1, at) \in Seq(Agent!Units) /\ Len(SubSeq(b, 1, at)) = at
      /\ \A i \in 1..at : SubSeq(b, 1, at)[i] = b[i]
  BY <1>1, SubSeqProperties
<1>3. DOMAIN SubSeq(b, 1, at) = 1..at
  BY <1>2
<1>4. ASSUME NEW i \in 1..at, b[i] = "H" PROVE i < at
  <2>1. i \in 1..Len(b) /\ i < Len(b) /\ b[i + 1] = "L"
    BY <1>1, <1>4, BodiesAreTexts
  <2> QED
    BY <1>1, <2>1
<1> QED
  BY <1>2, <1>3, <1>4

\* A piece more of a text.
LEMMA PrefixGrows ==
  ASSUME NEW b \in FileTexts, NEW at \in 0..Len(b), NEW end \in at..Len(b)
  PROVE  SubSeq(b, 1, at) \o SubSeq(b, at + 1, end) = SubSeq(b, 1, end)
<1>1. b \in Seq(Agent!Units) /\ Len(b) \in Nat /\ at \in Nat /\ end \in Nat /\ at <= end /\ end <= Len(b)
  BY BodiesAreTexts
<1> DEFINE front == SubSeq(b, 1, at)
           piece == SubSeq(b, at + 1, end)
           all == SubSeq(b, 1, end)
<1>2. front \in Seq(Agent!Units) /\ Len(front) = at /\ \A i \in 1..at : front[i] = b[i]
  BY <1>1, SubSeqProperties
<1>3. all \in Seq(Agent!Units) /\ Len(all) = end /\ \A i \in 1..end : all[i] = b[i]
  BY <1>1, SubSeqProperties
<1>4. piece \in Seq(Agent!Units) /\ Len(piece) = end - at /\ \A i \in 1..(end - at) : piece[i] = b[at + i]
  BY <1>1, SubSeqProperties
<1> HIDE DEF front, piece, all
<1>5. front \o piece \in Seq(Agent!Units) /\ Len(front \o piece) = end
  BY <1>1, <1>2, <1>4, ConcatProperties
<1>6. ASSUME NEW i \in 1..end PROVE (front \o piece)[i] = all[i]
  <2>1. (front \o piece)[i] = IF i <= Len(front) THEN front[i] ELSE piece[i - Len(front)]
    BY <1>1, <1>2, <1>4, <1>6, ConcatProperties
  <2>2. CASE i <= at
    BY <1>1, <1>2, <1>3, <1>6, <2>1, <2>2
  <2>3. CASE i > at
    <3>1. i - at \in 1..(end - at) /\ at + (i - at) = i
      BY <1>1, <1>6, <2>3
    <3>2. piece[i - at] = b[i]
      BY <1>4, <3>1
    <3> QED
      BY <1>1, <1>2, <1>3, <1>6, <2>1, <2>3, <3>2
  <2>4. i <= at \/ i > at
    BY <1>1, <1>6
  <2> QED
    BY <2>2, <2>3, <2>4, Zenon
<1> QED
  BY <1>3, <1>5, <1>6, SeqEqual DEF front, piece, all

\* What the tracker gives a project it looks at again.
LEMMA ObservedIsFresh ==
  ASSUME Agent!TypeOK, NEW p \in Agent!Projects, NEW inputs \in Inputs
  PROVE  LET seen == Agent!Observed(p, inputs, sequence)
             v == seen.version IN
         /\ seen.seq \in Nat /\ sequence <= seen.seq
         /\ v \in [revision : 1..seen.seq, sourceRevision : 1..seen.seq, imageRevision : 1..seen.seq]
         /\ IF seen.src THEN v.sourceRevision > sequence ELSE v.sourceRevision = version[p].sourceRevision
         /\ seen.src <=> inputs.body # tracked[p].body
         /\ IF inputs.image # tracked[p].image THEN v.imageRevision > sequence
                                               ELSE v.imageRevision = version[p].imageRevision
         /\ seen.src /\ inputs.image # tracked[p].image => v.sourceRevision # v.imageRevision
<1> DEFINE seen == Agent!Observed(p, inputs, sequence)
           old == version[p]
           rev1 == sequence + 1
           rev2 == IF inputs.body # tracked[p].body THEN rev1 + 1 ELSE rev1
           rev3 == IF inputs.image # tracked[p].image THEN rev2 + 1 ELSE rev2
           v == [revision |-> rev1,
                 sourceRevision |-> IF inputs.body # tracked[p].body THEN rev2 ELSE old.sourceRevision,
                 imageRevision |-> IF inputs.image # tracked[p].image THEN rev3 ELSE old.imageRevision]
<1>1. /\ sequence \in Nat /\ tracked = now
      /\ old \in [revision : 1..sequence, sourceRevision : 1..sequence, imageRevision : 1..sequence]
  BY DEF Agent!TypeOK
<1>2. CASE inputs.body = tracked[p].body /\ inputs.image = tracked[p].image /\ tracked[p].name = inputs.name
  <2>1. seen = [version |-> old, seq |-> sequence, src |-> FALSE]
    BY <1>2 DEF Agent!Observed, Agent!sameSource, Agent!sameImages
  <2>2. seen.version = old /\ seen.seq = sequence /\ seen.src = FALSE
    BY <2>1
  <2> HIDE DEF seen, old
  <2>3. old.sourceRevision \in 1..sequence
    BY <1>1
  <2> QED
    BY <1>1, <1>2, <2>2 DEF seen, old
<1>3. CASE ~(inputs.body = tracked[p].body /\ inputs.image = tracked[p].image /\ tracked[p].name = inputs.name)
  <2>1. seen = [version |-> v, seq |-> IF rev3 > sequence THEN rev3 ELSE sequence,
                src |-> inputs.body # tracked[p].body]
    BY <1>3 DEF Agent!Observed, Agent!sameSource, Agent!sameImages
  <2>2. /\ seen.version = v /\ seen.seq = IF rev3 > sequence THEN rev3 ELSE sequence
        /\ seen.src <=> inputs.body # tracked[p].body
    <3> DEFINE differs == inputs.body # tracked[p].body
    <3>1. differs \in BOOLEAN
      OBVIOUS
    <3> HIDE DEF seen, v, rev3
    <3>2. seen = [version |-> v, seq |-> IF rev3 > sequence THEN rev3 ELSE sequence, src |-> differs]
      BY <2>1
    <3> HIDE DEF differs
    <3>3. /\ seen.version = v /\ seen.seq = (IF rev3 > sequence THEN rev3 ELSE sequence)
          /\ seen.src = differs
      BY <3>2
    <3> QED
      BY <3>1, <3>3 DEF differs
  <2>3. /\ v.revision = rev1 /\ v.sourceRevision = IF inputs.body # tracked[p].body THEN rev2 ELSE old.sourceRevision
        /\ v.imageRevision = IF inputs.image # tracked[p].image THEN rev3 ELSE old.imageRevision
    OBVIOUS
  <2>4. /\ rev1 \in Nat /\ rev2 \in Nat /\ rev3 \in Nat /\ rev1 > sequence /\ rev2 >= rev1 /\ rev3 >= rev2
        /\ inputs.image # tracked[p].image => rev3 > rev2
    BY <1>1
  <2>5. old.revision \in 1..sequence /\ old.sourceRevision \in 1..sequence /\ old.imageRevision \in 1..sequence
    BY <1>1
  <2>6. seen.seq = rev3
    BY <1>1, <2>2, <2>4
  <2>7. v \in [revision : 1..rev3, sourceRevision : 1..rev3, imageRevision : 1..rev3]
    <3>1. v.revision \in 1..rev3 /\ v.sourceRevision \in 1..rev3 /\ v.imageRevision \in 1..rev3
      <4> HIDE DEF v, rev1, rev2, rev3, old
      <4> QED
        BY <1>1, <2>3, <2>4, <2>5
    <3>2. v = [revision |-> v.revision, sourceRevision |-> v.sourceRevision, imageRevision |-> v.imageRevision]
      OBVIOUS
    <3> HIDE DEF v, rev3
    <3> QED
      BY <3>1, <3>2
  <2> HIDE DEF seen, v, rev1, rev2, rev3
  <2> QED
    BY <1>1, <2>2, <2>3, <2>4, <2>6, <2>7 DEF seen, old
<1> QED
  BY <1>2, <1>3

\* The revisions of a project that was looked at again are on record, and none of them
\* was given to anything else.
LEMMA RefreshTells ==
  ASSUME Agent!TypeOK, Agent!RevisionsTell, Agent!StampsAreCurrent,
         NEW p \in Agent!Projects, NEW inputs \in Inputs
  PROVE  LET seen == Agent!Observed(p, inputs, sequence)
             source == [rev |-> seen.version.sourceRevision, of |-> <<"source", p, inputs.body>>]
             image == [rev |-> seen.version.imageRevision, of |-> <<"image", p, <<inputs.image>>>>]
             known == history \cup {source, image} IN
         /\ \A g, h \in known : g.rev = h.rev => g.of = h.of
         /\ \A h \in known : h.rev \in 1..seen.seq
<1> DEFINE seen == Agent!Observed(p, inputs, sequence)
           source == [rev |-> seen.version.sourceRevision, of |-> <<"source", p, inputs.body>>]
           image == [rev |-> seen.version.imageRevision, of |-> <<"image", p, <<inputs.image>>>>]
<1>1. /\ sequence \in Nat /\ seen.seq \in Nat /\ sequence <= seen.seq
      /\ source.rev \in 1..seen.seq /\ image.rev \in 1..seen.seq
      /\ source.rev > sequence \/ (source.rev = version[p].sourceRevision /\ inputs.body = tracked[p].body)
      /\ image.rev > sequence \/ (image.rev = version[p].imageRevision /\ inputs.image = tracked[p].image)
      /\ source.rev > sequence /\ image.rev > sequence => source.rev # image.rev
  <2>1. sequence \in Nat
    BY DEF Agent!TypeOK
  <2>2. source.rev = seen.version.sourceRevision /\ image.rev = seen.version.imageRevision
    BY Zenon
  <2>3. version[p].sourceRevision \in 1..sequence /\ version[p].imageRevision \in 1..sequence
    BY DEF Agent!TypeOK
  <2>4. /\ seen.seq \in Nat /\ sequence <= seen.seq
        /\ seen.version \in [revision : 1..seen.seq, sourceRevision : 1..seen.seq, imageRevision : 1..seen.seq]
        /\ IF seen.src THEN seen.version.sourceRevision > sequence
                       ELSE seen.version.sourceRevision = version[p].sourceRevision
        /\ seen.src <=> inputs.body # tracked[p].body
        /\ IF inputs.image # tracked[p].image THEN seen.version.imageRevision > sequence
                                              ELSE seen.version.imageRevision = version[p].imageRevision
        /\ seen.src /\ inputs.image # tracked[p].image => seen.version.sourceRevision # seen.version.imageRevision
    BY ObservedIsFresh
  <2> HIDE DEF seen, source, image
  <2> QED
    BY <2>1, <2>2, <2>3, <2>4
<1>2. /\ \A h \in history : h.rev \in 1..sequence
      /\ \A g, h \in history : g.rev = h.rev => g.of = h.of
  BY DEF Agent!StampsAreCurrent, Agent!RevisionsTell
<1>3. inputs.body = tracked[p].body /\ source.rev = version[p].sourceRevision => source \in history
  <2>1. tracked[p].body = now[p].body
    BY DEF Agent!TypeOK
  <2> QED
    BY <2>1 DEF Agent!StampsAreCurrent
<1>4. inputs.image = tracked[p].image /\ image.rev = version[p].imageRevision => image \in history
  <2>1. tracked[p].image = now[p].image
    BY DEF Agent!TypeOK
  <2> QED
    BY <2>1 DEF Agent!StampsAreCurrent
<1> HIDE DEF seen, source, image
<1>5. \A h \in history \cup {source, image} : h.rev \in 1..seen.seq
  BY <1>1, <1>2
<1>6. ASSUME NEW g \in history \cup {source, image}, NEW h \in history \cup {source, image}, g.rev = h.rev
      PROVE  g.of = h.of
  <2>1. source \in history \/ source.rev > sequence
    BY <1>1, <1>3
  <2>2. image \in history \/ image.rev > sequence
    BY <1>1, <1>4
  <2>3. ASSUME NEW k \in history, NEW j \in {source, image}, k.rev = j.rev PROVE k.of = j.of
    <3>1. k.rev \in 1..sequence
      BY <1>2
    <3>2. j \in history
      BY <1>1, <2>1, <2>2, <2>3, <3>1
    <3> QED
      BY <1>2, <2>3, <3>2
  <2>4. source.rev = image.rev => source.of = image.of
    <3> SUFFICES ASSUME source.rev = image.rev PROVE source.of = image.of
      OBVIOUS
    <3>1. CASE source \in history
      BY <2>3, <3>1
    <3>2. CASE image \in history
      BY <2>3, <3>2
    <3> QED
      BY <1>1, <2>1, <2>2, <3>1, <3>2
  <2> QED
    BY <1>2, <1>6, <2>3, <2>4
<1> QED
  BY <1>5, <1>6 DEF seen, source, image

\* The steps of a refresh, for a project that may have changed.
LEMMA RefreshKeeps ==
  ASSUME Agent!ReadsInv, NEW p \in Agent!Projects, NEW state \in [Agent!Projects -> Inputs],
         \A x \in Agent!Projects \ {p} : state[x] = now[x],
         NEW ord \in {<<"p", "q">>, <<"q", "p">>}, NEW open \in Agent!Projects,
         Agent!refresh(p, state, ord, open), reading' = reading, listing' = listing
  PROVE  Agent!ReadsInv'
<1> DEFINE seen == Agent!Observed(p, state[p], sequence)
           vs == [version EXCEPT ![p] = seen.version]
           sig == Agent!Signature(ord, open, [x \in Agent!Projects |-> state[x].name], vs)
           source == [rev |-> seen.version.sourceRevision, of |-> <<"source", p, state[p].body>>]
           image == [rev |-> seen.version.imageRevision, of |-> <<"image", p, <<state[p].image>>>>]
<1>1. /\ now' = state /\ order' = ord /\ opens' = open
      /\ tracked' = [tracked EXCEPT ![p] = state[p]] /\ version' = vs
      /\ target' = (IF seen.src THEN Agent!Followed(p, seen.version) ELSE target)
      /\ workspace' = (IF sig = workspace.of THEN workspace ELSE [rev |-> seen.seq + 1, of |-> sig])
      /\ sequence' = (IF sig = workspace.of THEN seen.seq ELSE seen.seq + 1)
      /\ history' = history \cup {source, image}
  BY DEF Agent!refresh
<1>2. /\ Agent!TypeOK /\ Agent!RevisionsTell /\ Agent!StampsAreCurrent /\ Agent!TargetFollows
      /\ Agent!ReadIsAPrefix /\ Agent!ListIsAPrefix
  BY DEF Agent!ReadsInv
<1>3. state[p] \in Inputs
  OBVIOUS
<1>4. /\ seen.seq \in Nat /\ sequence <= seen.seq
      /\ seen.version \in [revision : 1..seen.seq, sourceRevision : 1..seen.seq, imageRevision : 1..seen.seq]
      /\ IF seen.src THEN seen.version.sourceRevision > sequence
                     ELSE seen.version.sourceRevision = version[p].sourceRevision
  BY <1>2, <1>3, ObservedIsFresh
<1>5. /\ \A g, h \in history \cup {source, image} : g.rev = h.rev => g.of = h.of
      /\ \A h \in history \cup {source, image} : h.rev \in 1..seen.seq
  BY <1>2, <1>3, RefreshTells
<1>6. /\ source.rev = seen.version.sourceRevision /\ source.of = <<"source", p, state[p].body>>
      /\ image.rev = seen.version.imageRevision /\ image.of = <<"image", p, <<state[p].image>>>>
  BY Zenon
<1> HIDE DEF seen
<1>7. /\ sequence \in Nat /\ sequence' \in Nat /\ seen.seq <= sequence' /\ sequence <= sequence'
      /\ version \in [Agent!Projects ->
                     [revision : 1..sequence, sourceRevision : 1..sequence, imageRevision : 1..sequence]]
      /\ now \in [Agent!Projects -> Inputs] /\ tracked = now
  <2>1. sequence \in Nat /\ tracked = now /\ now \in [Agent!Projects -> Inputs]
    BY <1>2 DEF Agent!TypeOK, Inputs
  <2>2. version \in [Agent!Projects ->
                    [revision : 1..sequence, sourceRevision : 1..sequence, imageRevision : 1..sequence]]
    BY <1>2 DEF Agent!TypeOK
  <2>3. sequence' = seen.seq \/ sequence' = seen.seq + 1
    BY <1>1
  <2> HIDE DEF sig, vs, source, image
  <2>4. sequence' \in Nat /\ seen.seq <= sequence' /\ sequence <= sequence'
    BY <1>4, <2>1, <2>3
  <2> QED
    BY <2>1, <2>2, <2>4
<1>8. vs \in [Agent!Projects -> [revision : 1..sequence', sourceRevision : 1..sequence', imageRevision : 1..sequence']]
      /\ vs[p] = seen.version /\ \A x \in Agent!Projects \ {p} : vs[x] = version[x]
  <2>1. seen.version \in [revision : 1..sequence', sourceRevision : 1..sequence', imageRevision : 1..sequence']
    BY <1>4, <1>7
  <2>2. \A x \in Agent!Projects :
          version[x] \in [revision : 1..sequence', sourceRevision : 1..sequence', imageRevision : 1..sequence']
    BY <1>7
  <2> QED
    BY <1>7, <2>1, <2>2
<1>9. now' \in [Agent!Projects -> Inputs] /\ tracked' = now'
  BY <1>1, <1>7
<1>10. /\ workspace'.rev \in 1..sequence' /\ workspace.rev <= workspace'.rev
       /\ workspace'.of = sig
       /\ workspace'.rev = workspace.rev => sig = workspace.of
  <2>1. workspace.rev \in 1..sequence /\ workspace.rev \in Nat
    <3>1. workspace.rev \in 1..sequence
      BY <1>2 DEF Agent!TypeOK
    <3> QED
      BY <1>7, <3>1
  <2> HIDE DEF sig
  <2>2. CASE sig = workspace.of
    <3>1. workspace' = workspace /\ sequence' = seen.seq
      BY <1>1, <2>2
    <3> QED
      BY <1>4, <1>7, <2>1, <2>2, <3>1
  <2>3. CASE sig # workspace.of
    <3>1. workspace' = [rev |-> seen.seq + 1, of |-> sig] /\ sequence' = seen.seq + 1
      BY <1>1, <2>3
    <3>2. workspace'.rev = seen.seq + 1 /\ workspace'.of = sig
      BY <3>1
    <3> QED
      BY <1>4, <1>7, <2>1, <3>1, <3>2
  <2> QED
    BY <2>2, <2>3
<1>11. /\ target' \in [project : Agent!Projects, rev : Nat]
       /\ target'.rev = version'[target'.project].sourceRevision
  <2>1. target \in [project : Agent!Projects, rev : Nat] /\ target.rev = version[target.project].sourceRevision
    BY <1>2 DEF Agent!TypeOK, Agent!TargetFollows
  <2>2. seen.version.sourceRevision \in Nat
    BY <1>4
  <2>3. CASE target.project = p /\ seen.src
    <3>1. target' = [target EXCEPT !.rev = seen.version.sourceRevision]
      BY <1>1, <2>3 DEF Agent!Followed
    <3>2. /\ target' \in [project : Agent!Projects, rev : Nat] /\ target'.project = p
          /\ target'.rev = seen.version.sourceRevision
      BY <2>1, <2>2, <2>3, <3>1
    <3> QED
      BY <1>1, <1>8, <3>2
  <2>4. CASE target.project # p
    <3>1. target' = target
      BY <1>1, <2>4 DEF Agent!Followed
    <3> QED
      BY <1>1, <1>8, <2>1, <2>4, <3>1
  <2>5. CASE target.project = p /\ ~seen.src
    <3>1. target' = target
      BY <1>1, <2>5
    <3> QED
      BY <1>1, <1>4, <1>8, <2>1, <2>5, <3>1
  <2> QED
    BY <2>3, <2>4, <2>5
<1>12. Agent!TypeOK'
  <2>1. /\ reading \in [on : BOOLEAN, project : Agent!Projects, rev : Nat, text : Seq(Agent!Units),
                        at : Nat, done : BOOLEAN]
        /\ listing \in [on : BOOLEAN, rev : Nat, items : Seq(Agent!Projects \X Agent!Stamps), done : BOOLEAN]
    BY <1>2 DEF Agent!TypeOK
  <2>2. order' \in {<<"p", "q">>, <<"q", "p">>} /\ opens' \in Agent!Projects /\ version' = vs
    BY <1>1
  <2> HIDE DEF vs
  <2> QED
    BY <1>7, <1>8, <1>9, <1>10, <1>11, <2>1, <2>2 DEF Agent!TypeOK, Inputs
<1>13. Agent!RevisionsTell'
  <2> HIDE DEF source, image
  <2> QED
    BY <1>1, <1>5 DEF Agent!RevisionsTell
<1>14. Agent!StampsAreCurrent'
  <2>1. ASSUME NEW x \in Agent!Projects
        PROVE  /\ [rev |-> vs[x].sourceRevision, of |-> <<"source", x, state[x].body>>] \in history'
               /\ [rev |-> vs[x].imageRevision, of |-> <<"image", x, <<state[x].image>>>>] \in history'
    <3>1. CASE x = p
      BY <1>1, <1>8, <3>1
    <3>2. CASE x # p
      <4>1. vs[x] = version[x] /\ state[x] = now[x]
        BY <1>8, <3>2
      <4>2. /\ [rev |-> version[x].sourceRevision, of |-> <<"source", x, now[x].body>>] \in history
            /\ [rev |-> version[x].imageRevision, of |-> <<"image", x, <<now[x].image>>>>] \in history
        BY <1>2 DEF Agent!StampsAreCurrent
      <4> HIDE DEF vs, source, image
      <4> QED
        BY <1>1, <4>1, <4>2
    <3> QED
      BY <3>1, <3>2
  <2>2. \A h \in history' : h.rev \in 1..sequence'
    <3> HIDE DEF source, image
    <3> QED
      BY <1>1, <1>4, <1>5, <1>7
  <2>3. workspace'.of = Agent!Signature(order', opens', [x \in Agent!Projects |-> now'[x].name], version')
    BY <1>1, <1>10
  <2>4. now' = state /\ version' = vs
    BY <1>1
  <2> HIDE DEF vs, source, image, sig
  <2> QED
    BY <2>1, <2>2, <2>3, <2>4 DEF Agent!StampsAreCurrent
<1>15. Agent!TargetFollows'
  BY <1>11 DEF Agent!TargetFollows
<1>16. Agent!ReadIsAPrefix'
  <2> HIDE DEF source, image
  <2> QED
    BY <1>1, <1>2 DEF Agent!ReadIsAPrefix
<1>17. Agent!ListIsAPrefix'
  <2>1. listing.on \/ listing.done => listing.rev \in Nat /\ listing.rev <= workspace.rev
    BY <1>2 DEF Agent!ListIsAPrefix, Agent!TypeOK
  <2>2. workspace.rev \in Nat /\ workspace'.rev \in Nat
    <3>1. workspace.rev \in 1..sequence
      BY <1>2 DEF Agent!TypeOK
    <3> HIDE DEF sig
    <3> QED
      BY <1>7, <1>10, <3>1
  <2>3. workspace'.rev = workspace.rev => order' = order /\ version' = version
    <3> SUFFICES ASSUME workspace'.rev = workspace.rev PROVE order' = order /\ version' = version
      OBVIOUS
    <3>1. sig = Agent!Signature(order, opens, [x \in Agent!Projects |-> now[x].name], version)
      BY <1>2, <1>10 DEF Agent!StampsAreCurrent
    <3> HIDE DEF vs
    <3>2. ord = order /\ vs = version
      BY <3>1 DEF Agent!Signature
    <3> QED
      BY <1>1, <3>2
  <2>4. (listing.on \/ listing.done) /\ listing.rev = workspace'.rev => workspace'.rev = workspace.rev
    BY <1>10, <2>1, <2>2
  <2> HIDE DEF vs, sig, source, image
  <2>5. (listing.on \/ listing.done) => listing.rev <= workspace'.rev
    BY <1>10, <2>1, <2>2
  <2> QED
    BY <1>2, <2>3, <2>4, <2>5 DEF Agent!ListIsAPrefix
<1> QED
  BY <1>12, <1>13, <1>14, <1>15, <1>16, <1>17 DEF Agent!ReadsInv

\* A change of one project, of the order or of the project that is open.
LEMMA ChangeKeeps ==
  ASSUME Agent!ReadsInv, NEW p \in Agent!Projects, NEW b \in FileTexts,
         \/ Agent!Edit(p, b) \/ Agent!SetImage(p) \/ Agent!Rename(p) \/ Agent!Open(p) \/ Agent!Reorder
  PROVE  Agent!ReadsInv'
<1>1. /\ now \in [Agent!Projects -> Inputs] /\ order \in {<<"p", "q">>, <<"q", "p">>} /\ opens \in Agent!Projects
      /\ "p" \in Agent!Projects
  BY DEF Agent!ReadsInv, Agent!TypeOK, Inputs, Agent!Projects
<1>2. CASE Agent!Edit(p, b)
  <2>1. Agent!refresh(p, [now EXCEPT ![p].body = b], order, opens) /\ reading' = reading /\ listing' = listing
    BY <1>2 DEF Agent!Edit, Agent!Change
  <2>2. /\ [now EXCEPT ![p].body = b] \in [Agent!Projects -> Inputs]
        /\ \A x \in Agent!Projects \ {p} : [now EXCEPT ![p].body = b][x] = now[x]
    BY <1>1 DEF Inputs
  <2> QED
    BY <1>1, <2>1, <2>2, RefreshKeeps
<1>3. CASE Agent!SetImage(p)
  <2>1. Agent!refresh(p, [now EXCEPT ![p].image = 1 - @], order, opens) /\ reading' = reading /\ listing' = listing
    BY <1>3 DEF Agent!SetImage, Agent!Change
  <2>2. /\ [now EXCEPT ![p].image = 1 - @] \in [Agent!Projects -> Inputs]
        /\ \A x \in Agent!Projects \ {p} : [now EXCEPT ![p].image = 1 - @][x] = now[x]
    <3>1. 1 - now[p].image \in {0, 1}
      BY <1>1 DEF Inputs
    <3> QED
      BY <1>1, <3>1 DEF Inputs
  <2> QED
    BY <1>1, <2>1, <2>2, RefreshKeeps
<1>4. CASE Agent!Rename(p)
  <2>1. Agent!refresh(p, [now EXCEPT ![p].name = 1 - @], order, opens) /\ reading' = reading /\ listing' = listing
    BY <1>4 DEF Agent!Rename, Agent!Change
  <2>2. /\ [now EXCEPT ![p].name = 1 - @] \in [Agent!Projects -> Inputs]
        /\ \A x \in Agent!Projects \ {p} : [now EXCEPT ![p].name = 1 - @][x] = now[x]
    <3>1. 1 - now[p].name \in {0, 1}
      BY <1>1 DEF Inputs
    <3> QED
      BY <1>1, <3>1 DEF Inputs
  <2> QED
    BY <1>1, <2>1, <2>2, RefreshKeeps
<1>5. CASE Agent!Open(p)
  <2>1. Agent!refresh(p, now, order, p) /\ reading' = reading /\ listing' = listing
    BY <1>5 DEF Agent!Open, Agent!Change
  <2> QED
    BY <1>1, <2>1, RefreshKeeps
<1>6. CASE Agent!Reorder
  <2>1. Agent!refresh("p", now, Agent!Reverse(order), opens) /\ reading' = reading /\ listing' = listing
    BY <1>6 DEF Agent!Reorder, Agent!Change
  <2>2. Agent!Reverse(order) \in {<<"p", "q">>, <<"q", "p">>}
    <3>1. CASE order = <<"p", "q">>
      <4>1. Agent!Reverse(order) = <<"q", "p">>
        BY <3>1 DEF Agent!Reverse
      <4> QED
        BY <4>1
    <3>2. CASE order = <<"q", "p">>
      <4>1. Agent!Reverse(order) = <<"p", "q">>
        BY <3>2 DEF Agent!Reverse
      <4> QED
        BY <4>1
    <3> QED
      BY <1>1, <3>1, <3>2
  <2> QED
    BY <1>1, <2>1, <2>2, RefreshKeeps
<1> QED
  BY <1>2, <1>3, <1>4, <1>5, <1>6

\* What an agent does without changing a project.
LEMMA OtherwiseKeeps ==
  ASSUME Agent!ReadsInv,
         \/ Agent!Select \/ Agent!ListFirst \/ Agent!ListNext \/ Agent!Forget
         \/ \E size \in PieceSizes : Agent!ReadNext(size)
         \/ \E size \in PieceSizes, p \in Agent!Projects : Agent!ReadFirst(p, size)
  PROVE  Agent!ReadsInv'
<1> DEFINE Readings == [on : BOOLEAN, project : Agent!Projects, rev : Nat, text : Seq(Agent!Units),
                        at : Nat, done : BOOLEAN]
           Listings == [on : BOOLEAN, rev : Nat, items : Seq(Agent!Projects \X Agent!Stamps), done : BOOLEAN]
<1>1. /\ Agent!TypeOK /\ Agent!RevisionsTell /\ Agent!StampsAreCurrent /\ Agent!TargetFollows
      /\ Agent!ReadIsAPrefix /\ Agent!ListIsAPrefix /\ reading \in Readings /\ listing \in Listings
  BY DEF Agent!ReadsInv, Agent!TypeOK
<1>2. /\ now \in [Agent!Projects -> Inputs] /\ order \in {<<"p", "q">>, <<"q", "p">>} /\ opens \in Agent!Projects
      /\ sequence \in Nat /\ workspace.rev \in Nat
      /\ \A x \in Agent!Projects : version[x] \in Agent!Stamps
  <2>1. /\ workspace.rev \in 1..sequence /\ sequence \in Nat
        /\ version \in [Agent!Projects ->
                       [revision : 1..sequence, sourceRevision : 1..sequence, imageRevision : 1..sequence]]
    BY <1>1 DEF Agent!TypeOK
  <2>2. now \in [Agent!Projects -> Inputs] /\ order \in {<<"p", "q">>, <<"q", "p">>} /\ opens \in Agent!Projects
    BY <1>1 DEF Agent!TypeOK, Inputs
  <2>3. \A x \in Agent!Projects : version[x] \in Agent!Stamps
    BY <2>1 DEF Agent!Stamps
  <2> QED
    BY <2>1, <2>2, <2>3
<1> DEFINE Stays == /\ now' = now /\ order' = order /\ opens' = opens /\ tracked' = tracked /\ version' = version
                    /\ workspace' = workspace /\ sequence' = sequence /\ history' = history
<1>3. ASSUME Stays, target' = target, reading' \in Readings, listing' \in Listings,
             Agent!ReadIsAPrefix', Agent!ListIsAPrefix'
      PROVE  Agent!ReadsInv'
  <2>1. Agent!TypeOK'
    BY <1>1, <1>3 DEF Agent!TypeOK
  <2>2. Agent!RevisionsTell' /\ Agent!TargetFollows'
    BY <1>1, <1>3 DEF Agent!RevisionsTell, Agent!TargetFollows
  <2>3. Agent!StampsAreCurrent'
    BY <1>1, <1>3 DEF Agent!StampsAreCurrent
  <2> QED
    BY <1>3, <2>1, <2>2, <2>3 DEF Agent!ReadsInv
<1>4. reading' = reading /\ history' = history => Agent!ReadIsAPrefix'
  BY <1>1 DEF Agent!ReadIsAPrefix
<1>5. listing' = listing /\ workspace' = workspace /\ order' = order /\ version' = version => Agent!ListIsAPrefix'
  BY <1>1 DEF Agent!ListIsAPrefix
<1>6. CASE Agent!Select
  <2>1. /\ Stays /\ reading' = reading /\ listing' = listing
        /\ target' = [project |-> opens, rev |-> version[opens].sourceRevision]
    BY <1>6 DEF Agent!Select
  <2>2. target' \in [project : Agent!Projects, rev : Nat] /\ Agent!TargetFollows'
    BY <1>2, <2>1 DEF Agent!TargetFollows, Agent!Stamps
  <2>3. Agent!TypeOK'
    BY <1>1, <2>1, <2>2 DEF Agent!TypeOK
  <2>4. Agent!RevisionsTell'
    BY <1>1, <2>1 DEF Agent!RevisionsTell
  <2>5. Agent!StampsAreCurrent'
    BY <1>1, <2>1 DEF Agent!StampsAreCurrent
  <2> QED
    BY <1>4, <1>5, <2>1, <2>2, <2>3, <2>4, <2>5 DEF Agent!ReadsInv
<1>7. Agent!NoRead \in Readings /\ ~Agent!NoRead.on /\ ~Agent!NoRead.done /\ Agent!NoRead.text = <<>>
  BY DEF Agent!NoRead, Agent!Projects
<1>8. Agent!NoList \in Listings /\ ~Agent!NoList.on /\ ~Agent!NoList.done
  BY DEF Agent!NoList
<1>9. CASE Agent!Forget
  <2>1. /\ Stays /\ target' = target
        /\ reading' = reading \/ reading' = Agent!NoRead
        /\ listing' = listing \/ listing' = Agent!NoList
    BY <1>9 DEF Agent!Forget, Agent!State
  <2>2. Agent!ReadIsAPrefix'
    BY <1>4, <1>7, <2>1 DEF Agent!ReadIsAPrefix
  <2>3. Agent!ListIsAPrefix'
    BY <1>5, <1>8, <2>1 DEF Agent!ListIsAPrefix
  <2> QED
    BY <1>1, <1>3, <1>7, <1>8, <2>1, <2>2, <2>3
<1>10. ASSUME NEW size \in PieceSizes, NEW p \in Agent!Projects, Agent!ReadFirst(p, size) PROVE Agent!ReadsInv'
  <2> DEFINE b == now[p].body
             end == Agent!ChunkEnd(b, 0, size)
             rev == version[p].sourceRevision
             done == end = Len(b)
  <2>1. /\ Stays /\ target' = target /\ listing' = listing
        /\ reading' = [on |-> TRUE, project |-> p, rev |-> rev, text |-> SubSeq(b, 1, end), at |-> end, done |-> done]
    BY <1>10 DEF Agent!ReadFirst, Agent!State
  <2>2. b \in FileTexts /\ rev \in Nat /\ Len(b) \in Nat
    BY <1>2, BodiesAreTexts DEF Inputs, Agent!Stamps
  <2>3. [rev |-> rev, of |-> <<"source", p, b>>] \in history
    BY <1>1 DEF Agent!StampsAreCurrent
  <2>4. 0 < Len(b) => b[0 + 1] # "L"
    BY <2>2, BodiesAreTexts
  <2> HIDE DEF b, rev
  <2>5. end \in 0..Len(b) /\ (end < Len(b) => b[end + 1] # "L")
    BY <2>2, <2>4, ChunkStops
  <2> HIDE DEF end
  <2>6. SubSeq(b, 1, end) \in Seq(Agent!Units)
    BY <2>2, <2>5, PrefixIsText
  <2>7. done \in BOOLEAN
    OBVIOUS
  <2>8. done => end = Len(b)
    OBVIOUS
  <2> HIDE DEF done
  <2>9. /\ reading' \in Readings /\ reading'.on /\ reading'.project = p /\ reading'.rev = rev
        /\ reading'.text = SubSeq(b, 1, end) /\ reading'.at = end /\ (reading'.done <=> done)
    BY <2>1, <2>2, <2>5, <2>6, <2>7
  <2>10. Agent!ReadIsAPrefix'
    BY <2>1, <2>2, <2>3, <2>5, <2>8, <2>9 DEF Agent!ReadIsAPrefix
  <2> QED
    BY <1>1, <1>3, <1>5, <2>1, <2>9, <2>10
<1>11. ASSUME NEW size \in PieceSizes, Agent!ReadNext(size) PROVE Agent!ReadsInv'
  <2> DEFINE b == now[reading.project].body
             end == Agent!ChunkEnd(b, reading.at, size)
             done == end = Len(b)
  <2>1. Stays /\ target' = target /\ listing' = listing /\ reading.on
    BY <1>11 DEF Agent!ReadNext, Agent!State
  <2>2. CASE reading' = Agent!NoRead
    <3>1. Agent!ReadIsAPrefix'
      BY <1>7, <2>2 DEF Agent!ReadIsAPrefix
    <3> QED
      BY <1>1, <1>3, <1>5, <1>7, <2>1, <2>2, <3>1
  <2>3. CASE reading' # Agent!NoRead
    <3>1. /\ reading.rev = version[reading.project].sourceRevision
          /\ reading' = [reading EXCEPT !.text = @ \o SubSeq(b, reading.at + 1, end), !.at = end, !.done = done]
      BY <1>11, <2>3 DEF Agent!ReadNext, Agent!ReadOk
    <3>2. reading.project \in Agent!Projects /\ b \in FileTexts /\ Len(b) \in Nat
      BY <1>1, <1>2, BodiesAreTexts DEF Inputs
    <3>3. [rev |-> reading.rev, of |-> <<"source", reading.project, b>>] \in history
      BY <1>1, <3>1, <3>2 DEF Agent!StampsAreCurrent
    <3>4. PICK c \in FileTexts :
            /\ [rev |-> reading.rev, of |-> <<"source", reading.project, c>>] \in history
            /\ reading.at \in 0..Len(c) /\ reading.text = SubSeq(c, 1, reading.at)
            /\ reading.at < Len(c) => c[reading.at + 1] # "L"
      BY <1>1, <2>1 DEF Agent!ReadIsAPrefix
    <3> HIDE DEF b
    <3>5. c = b
      <4>1. \A g, h \in history : g.rev = h.rev => g.of = h.of
        BY <1>1 DEF Agent!RevisionsTell
      <4>2. <<"source", reading.project, b>> = <<"source", reading.project, c>>
        BY <3>3, <3>4, <4>1
      <4> QED
        BY <4>2
    <3>6. end \in reading.at..Len(b) /\ (end < Len(b) => b[end + 1] # "L")
      BY <3>2, <3>4, <3>5, ChunkStops
    <3> HIDE DEF end
    <3>7. end \in 0..Len(b) /\ reading.text \o SubSeq(b, reading.at + 1, end) = SubSeq(b, 1, end)
      <4>1. reading.at \in 0..Len(b) /\ reading.text = SubSeq(b, 1, reading.at)
        BY <3>4, <3>5
      <4>2. end \in 0..Len(b) /\ end \in Nat
        BY <3>2, <3>6, <4>1
      <4>3. SubSeq(b, 1, reading.at) \o SubSeq(b, reading.at + 1, end) = SubSeq(b, 1, end)
        BY <3>2, <3>6, <4>1, PrefixGrows
      <4> QED
        BY <4>1, <4>2, <4>3
    <3>8. SubSeq(b, 1, end) \in Seq(Agent!Units)
      BY <3>2, <3>6, <3>7, PrefixIsText
    <3>9. done \in BOOLEAN /\ (done => end = Len(b))
      OBVIOUS
    <3> HIDE DEF done
    <3>10. reading' = [reading EXCEPT !.text = SubSeq(b, 1, end), !.at = end, !.done = done]
      BY <3>1, <3>7
    <3>11. /\ reading' \in Readings /\ reading'.project = reading.project /\ reading'.rev = reading.rev
           /\ reading'.text = SubSeq(b, 1, end) /\ reading'.at = end /\ (reading'.done <=> done)
           /\ reading'.on <=> reading.on
      <4> DEFINE text == SubSeq(b, 1, end)
      <4>1. reading \in Readings /\ text \in Seq(Agent!Units) /\ end \in Nat
        BY <1>1, <3>2, <3>7, <3>8
      <4>2. reading' = [reading EXCEPT !.text = text, !.at = end, !.done = done]
        BY <3>10
      <4> HIDE DEF text
      <4>3. /\ reading' \in Readings /\ reading'.project = reading.project /\ reading'.rev = reading.rev
            /\ reading'.text = text /\ reading'.at = end /\ (reading'.done <=> done) /\ (reading'.on <=> reading.on)
        BY <3>9, <4>1, <4>2
      <4> QED
        BY <4>3 DEF text
    <3>12. Agent!ReadIsAPrefix'
      BY <2>1, <3>2, <3>3, <3>6, <3>7, <3>9, <3>11 DEF Agent!ReadIsAPrefix
    <3> QED
      BY <1>1, <1>3, <1>5, <2>1, <3>11, <3>12
  <2> QED
    BY <2>2, <2>3
<1>12. CASE Agent!ListFirst
  <2> DEFINE item == <<order[1], version[order[1]]>>
  <2>1. /\ Stays /\ target' = target /\ reading' = reading
        /\ listing' = [on |-> TRUE, rev |-> workspace.rev, items |-> <<item>>, done |-> FALSE]
    BY <1>12 DEF Agent!ListFirst, Agent!State
  <2>2. item \in Agent!Projects \X Agent!Stamps
    BY <1>2 DEF Agent!Projects
  <2> HIDE DEF item
  <2>3. <<item>> \in Seq(Agent!Projects \X Agent!Stamps) /\ Len(<<item>>) = 1 /\ <<item>>[1] = item
    BY <2>2
  <2>4. /\ listing' \in Listings /\ listing'.rev = workspace.rev /\ listing'.items = <<item>> /\ ~listing'.done
    BY <1>2, <2>1, <2>3
  <2>5. Agent!ListIsAPrefix'
    BY <1>2, <2>1, <2>3, <2>4 DEF Agent!ListIsAPrefix, item
  <2> QED
    BY <1>1, <1>3, <1>4, <2>1, <2>4, <2>5
<1>13. CASE Agent!ListNext
  <2> DEFINE next == order[Len(listing.items) + 1]
             done == Len(listing.items) + 1 = Len(order)
  <2>1. Stays /\ target' = target /\ reading' = reading /\ listing.on /\ ~listing.done
    BY <1>13 DEF Agent!ListNext, Agent!State
  <2>2. CASE listing' = Agent!NoList
    <3>1. Agent!ListIsAPrefix'
      BY <1>8, <2>2 DEF Agent!ListIsAPrefix
    <3> QED
      BY <1>1, <1>3, <1>4, <1>8, <2>1, <2>2, <3>1
  <2>3. CASE listing' # Agent!NoList
    <3>1. /\ listing.rev = workspace.rev
          /\ listing' = [listing EXCEPT !.items = Append(@, <<next, version[next]>>), !.done = done]
      BY <1>13, <2>3 DEF Agent!ListNext, Agent!ListOk
    <3>2. /\ listing.items \in Seq(Agent!Projects \X Agent!Stamps) /\ Len(listing.items) = 1
          /\ listing.items[1] = <<order[1], version[order[1]]>>
      BY <1>1, <2>1, <3>1 DEF Agent!ListIsAPrefix
    <3>3. done /\ next = order[2]
      BY <1>2, <3>2
    <3> HIDE DEF done, next
    <3>4. <<next, version[next]>> \in Agent!Projects \X Agent!Stamps /\ order[1] # order[2]
      BY <1>2, <3>3 DEF Agent!Projects
    <3> DEFINE items == Append(listing.items, <<next, version[next]>>)
    <3>5. /\ items \in Seq(Agent!Projects \X Agent!Stamps) /\ Len(items) = 2
          /\ items[1] = listing.items[1] /\ items[2] = <<next, version[next]>>
      BY <3>2, <3>4
    <3> HIDE DEF items
    <3>6. listing' = [listing EXCEPT !.items = items, !.done = TRUE]
      BY <3>1, <3>3 DEF items
    <3>7. listing' \in Listings /\ listing'.items = items /\ listing'.done /\ listing'.rev = workspace.rev
      BY <1>1, <3>1, <3>5, <3>6
    <3>8. items[1][1] = order[1] /\ items[2][1] = order[2]
      BY <3>2, <3>3, <3>5
    <3>9. \A i \in 1..2 : items[i] = <<order[i], version[order[i]]>>
      BY <3>2, <3>3, <3>5
    <3>10. Agent!ListIsAPrefix'
      BY <1>2, <2>1, <3>4, <3>5, <3>7, <3>8, <3>9 DEF Agent!ListIsAPrefix
    <3> QED
      BY <1>1, <1>3, <1>4, <2>1, <3>7, <3>10
  <2> QED
    BY <2>2, <2>3
<1> QED
  BY <1>6, <1>9, <1>10, <1>11, <1>12, <1>13

\* Every step of the page and of an agent keeps the invariant.
LEMMA AgentKeeps == Agent!ReadsInv /\ Agent!Next => Agent!ReadsInv'
<1> SUFFICES ASSUME Agent!ReadsInv, Agent!Next PROVE Agent!ReadsInv'
  OBVIOUS
<1>1. Agent!Projects # {} /\ FileTexts # {}
  BY ReadsAssumption DEF ReadsAssumption, Agent!Projects
<1>2. \/ \E p \in Agent!Projects : \E b \in FileTexts :
           Agent!Edit(p, b) \/ Agent!SetImage(p) \/ Agent!Rename(p) \/ Agent!Open(p) \/ Agent!Reorder
      \/ Agent!Select \/ Agent!ListFirst \/ Agent!ListNext \/ Agent!Forget
      \/ \E size \in PieceSizes : Agent!ReadNext(size)
      \/ \E size \in PieceSizes, p \in Agent!Projects : Agent!ReadFirst(p, size)
  BY <1>1 DEF Agent!Next
<1> QED
  BY <1>2, ChangeKeeps, OtherwiseKeeps

\* The page begins with both projects stamped.
LEMMA ReadsStart == Agent!Init => Agent!ReadsInv
<1> SUFFICES ASSUME Agent!Init PROVE Agent!ReadsInv
  OBVIOUS
<1> DEFINE of == Agent!Signature(order, opens, [p \in Agent!Projects |-> 0], version)
<1>1. /\ now = [p \in Agent!Projects |-> [name |-> 0, body |-> Agent!First, image |-> 0]]
      /\ order = <<"p", "q">> /\ opens = "p" /\ tracked = now
      /\ version = [p \in Agent!Projects |->
                      IF p = "p" THEN [revision |-> 1, sourceRevision |-> 2, imageRevision |-> 3]
                                 ELSE [revision |-> 4, sourceRevision |-> 5, imageRevision |-> 6]]
      /\ target = [project |-> "p", rev |-> 2] /\ workspace = [rev |-> 7, of |-> of] /\ sequence = 7
      /\ history = {[rev |-> version[p].sourceRevision, of |-> <<"source", p, Agent!First>>] : p \in Agent!Projects}
                   \cup {[rev |-> version[p].imageRevision, of |-> <<"image", p, <<0>>>>] : p \in Agent!Projects}
      /\ reading = Agent!NoRead /\ listing = Agent!NoList
  BY DEF Agent!Init
<1>2. Agent!First \in FileTexts
  BY ReadsAssumption DEF ReadsAssumption, Agent!First
<1>3. Agent!Projects = {"p", "q"}
  BY DEF Agent!Projects
<1>4. /\ version["p"] = [revision |-> 1, sourceRevision |-> 2, imageRevision |-> 3]
      /\ version["q"] = [revision |-> 4, sourceRevision |-> 5, imageRevision |-> 6]
  BY <1>1, <1>3
<1>5. \A p \in Agent!Projects : now[p].name = 0 /\ now[p].body = Agent!First /\ now[p].image = 0
  BY <1>1
<1>6. workspace.rev = 7 /\ workspace.of = of
  <2> HIDE DEF of
  <2> QED
    BY <1>1
<1>7. Agent!TypeOK
  <2>1. version \in [Agent!Projects -> [revision : 1..7, sourceRevision : 1..7, imageRevision : 1..7]]
    BY <1>1
  <2>2. now \in [Agent!Projects -> [name : {0, 1}, body : FileTexts, image : {0, 1}]]
    BY <1>1, <1>2
  <2>3. target \in [project : Agent!Projects, rev : Nat]
    BY <1>1, <1>3
  <2>4. /\ reading \in [on : BOOLEAN, project : Agent!Projects, rev : Nat, text : Seq(Agent!Units),
                        at : Nat, done : BOOLEAN]
        /\ listing \in [on : BOOLEAN, rev : Nat, items : Seq(Agent!Projects \X Agent!Stamps), done : BOOLEAN]
    BY <1>1, <1>3 DEF Agent!NoRead, Agent!NoList
  <2> QED
    BY <1>1, <1>3, <1>6, <2>1, <2>2, <2>3, <2>4 DEF Agent!TypeOK
<1>8. history = {[rev |-> 2, of |-> <<"source", "p", Agent!First>>], [rev |-> 5, of |-> <<"source", "q", Agent!First>>],
                 [rev |-> 3, of |-> <<"image", "p", <<0>>>>], [rev |-> 6, of |-> <<"image", "q", <<0>>>>]}
  BY <1>1, <1>3, <1>4
<1>9. Agent!RevisionsTell
  BY <1>8 DEF Agent!RevisionsTell
<1>10. Agent!StampsAreCurrent
  <2>1. ASSUME NEW p \in Agent!Projects
        PROVE  /\ [rev |-> version[p].sourceRevision, of |-> <<"source", p, now[p].body>>] \in history
               /\ [rev |-> version[p].imageRevision, of |-> <<"image", p, <<now[p].image>>>>] \in history
    BY <1>1, <1>5
  <2>2. \A h \in history : h.rev \in 1..sequence
    BY <1>1, <1>8
  <2>3. [p \in Agent!Projects |-> now[p].name] = [p \in Agent!Projects |-> 0]
    BY <1>5
  <2> QED
    BY <1>6, <2>1, <2>2, <2>3 DEF Agent!StampsAreCurrent
<1>11. Agent!TargetFollows
  BY <1>1, <1>4 DEF Agent!TargetFollows
<1>12. Agent!ReadIsAPrefix /\ Agent!ListIsAPrefix
  BY <1>1 DEF Agent!ReadIsAPrefix, Agent!ListIsAPrefix, Agent!NoRead, Agent!NoList
<1> QED
  BY <1>7, <1>9, <1>10, <1>11, <1>12 DEF Agent!ReadsInv

\* A step of another component leaves revisions and reads alone.
LEMMA ReadsRest == Agent!ReadsInv /\ UNCHANGED agentVars => Agent!ReadsInv'
<1> SUFFICES ASSUME Agent!ReadsInv, UNCHANGED agentVars PROVE Agent!ReadsInv'
  OBVIOUS
<1>1. /\ now' = now /\ order' = order /\ opens' = opens /\ tracked' = tracked /\ version' = version
      /\ target' = target /\ workspace' = workspace /\ sequence' = sequence /\ history' = history
      /\ reading' = reading /\ listing' = listing
  BY DEF agentVars
<1>2. Agent!TypeOK' /\ Agent!RevisionsTell' /\ Agent!TargetFollows'
  BY <1>1 DEF Agent!ReadsInv, Agent!TypeOK, Agent!RevisionsTell, Agent!TargetFollows
<1>3. Agent!StampsAreCurrent'
  BY <1>1 DEF Agent!ReadsInv, Agent!StampsAreCurrent
<1>4. Agent!ReadIsAPrefix' /\ Agent!ListIsAPrefix'
  BY <1>1 DEF Agent!ReadsInv, Agent!ReadIsAPrefix, Agent!ListIsAPrefix
<1> QED
  BY <1>2, <1>3, <1>4 DEF Agent!ReadsInv

\* In a page whose run is about reads, their invariant holds.
ReadsHold == component = "reads" => Agent!ReadsInv

\* Reads that other steps cut are of one moment, and revisions of one text.
LEMMA ReadsHeld == Spec => [](component = "reads" => Agent!ReadsAreOfOneMoment)
<1>1. Init => ReadsHold
  BY ReadsStart DEF Init, ReadsHold
<1>2. ReadsHold /\ [Next]_vars => ReadsHold'
  <2> SUFFICES ASSUME ReadsHold, [Next]_vars, component' = "reads" PROVE Agent!ReadsInv'
    BY DEF ReadsHold
  <2>1. CASE UNCHANGED vars
    BY <2>1, ReadsRest DEF ReadsHold, vars
  <2>2. CASE Next
    <3>1. component = "reads" /\ Agent!Next /\ Agent!ReadsInv
      BY <2>2 DEF Next, ReadsHold
    <3> QED
      BY <3>1, AgentKeeps
  <2> QED
    BY <2>1, <2>2
<1>3. ReadsHold => (component = "reads" => Agent!ReadsAreOfOneMoment)
  <2> SUFFICES ASSUME Agent!ReadsInv PROVE Agent!ReadsAreOfOneMoment
    BY DEF ReadsHold
  <2>1. /\ Agent!TypeOK /\ Agent!RevisionsTell /\ Agent!TargetFollows /\ Agent!ReadIsAPrefix /\ Agent!ListIsAPrefix
    BY DEF Agent!ReadsInv
  <2>2. Agent!ReadOfOneMoment /\ Agent!PiecesAreText
    <3>1. CASE reading.on \/ reading.done
      <4>1. PICK b \in FileTexts :
              /\ [rev |-> reading.rev, of |-> <<"source", reading.project, b>>] \in history
              /\ reading.at \in 0..Len(b) /\ reading.text = SubSeq(b, 1, reading.at)
              /\ reading.at < Len(b) => b[reading.at + 1] # "L"
              /\ reading.done => reading.at = Len(b)
        BY <2>1, <3>1 DEF Agent!ReadIsAPrefix
      <4>2. Agent!PiecesAreText
        BY <4>1, PrefixIsText DEF Agent!PiecesAreText
      <4>3. reading.done => reading.text = b
        <5>1. b \in Seq(Agent!Units) /\ Len(b) \in Nat
          BY BodiesAreTexts
        <5>2. SubSeq(b, 1, Len(b)) = b
          BY <5>1, SubSeqFull
        <5> QED
          BY <4>1, <5>2
      <4> QED
        BY <4>1, <4>2, <4>3 DEF Agent!ReadOfOneMoment
    <3>2. CASE ~(reading.on \/ reading.done)
      <4>1. reading.text = <<>>
        BY <2>1, <3>2 DEF Agent!ReadIsAPrefix
      <4>2. DOMAIN reading.text = {}
        BY <4>1
      <4> QED
        BY <3>2, <4>2 DEF Agent!ReadOfOneMoment, Agent!PiecesAreText
    <3> QED
      BY <3>1, <3>2
  <2>3. Agent!ListOfOneMoment
    <3> SUFFICES ASSUME listing.done
                 PROVE  /\ {listing.items[i][1] : i \in DOMAIN listing.items} = Agent!Projects
                        /\ listing.rev = workspace.rev =>
                             \A i \in DOMAIN listing.items : listing.items[i][2] = version[listing.items[i][1]]
      BY DEF Agent!ListOfOneMoment
    <3> DEFINE items == listing.items
    <3>1. /\ Len(items) = 2 /\ items[1][1] # items[2][1]
          /\ listing.rev = workspace.rev => \A i \in 1..Len(items) : items[i] = <<order[i], version[order[i]]>>
      BY <2>1 DEF Agent!ListIsAPrefix
    <3>2. items \in Seq(Agent!Projects \X Agent!Stamps)
      BY <2>1 DEF Agent!TypeOK
    <3> HIDE DEF items
    <3>3. /\ DOMAIN items = 1..2 /\ items[1] \in Agent!Projects \X Agent!Stamps
          /\ items[2] \in Agent!Projects \X Agent!Stamps
      <4>1. ASSUME NEW T, items \in Seq(T) PROVE DOMAIN items = 1..2 /\ items[1] \in T /\ items[2] \in T
        <5>1. DOMAIN items = 1..Len(items) /\ items \in [1..Len(items) -> T]
          BY <4>1
        <5> QED
          BY <3>1, <5>1
      <4> QED
        BY <3>2, <4>1
    <3>4. \A i \in 1..2 : i = 1 \/ i = 2
      OBVIOUS
    <3>5. {items[1][1], items[2][1]} = Agent!Projects
      BY <3>1, <3>3 DEF Agent!Projects
    <3>6. {items[i][1] : i \in DOMAIN items} = {items[1][1], items[2][1]}
      BY <3>3, <3>4
    <3>7. listing.rev = workspace.rev => \A i \in 1..2 : items[i][2] = version[items[i][1]]
      BY <3>1
    <3> QED
      BY <3>3, <3>5, <3>6, <3>7 DEF items
  <2> QED
    BY <2>1, <2>2, <2>3 DEF Agent!ReadsAreOfOneMoment
<1> QED
  BY <1>1, <1>2, <1>3, PTL DEF Spec

-----------------------------------------------------------------------------
(* The projects in the browser's storage *)

\* A set of natural numbers that is not empty has a least one.
LEMMA LeastOne ==
  ASSUME NEW T \in SUBSET Nat, T # {}
  PROVE  \E m \in T : \A n \in T : m <= n
<1> DEFINE R == OpToRel(<, Nat)
<1>1. IsWellFoundedOn(R, Nat)
  BY NatLessThanWellFounded, Zenon
<1> HIDE DEF R
<1>2. PICK m \in T : \A n \in T : <<n, m>> \notin R
  BY <1>1, WFMin
<1>3. \A n \in T : n < m => <<n, m>> \in R
  BY Zenon DEF R, OpToRel
<1>4. \A n \in T : ~(n < m)
  BY <1>2, <1>3
<1>5. m \in Nat /\ \A n \in T : n \in Nat
  OBVIOUS
<1> QED
  BY <1>4, <1>5

\* PlaygroundStore counts as the library does.
LEMMA SameCount == \A T : Store!Cardinality(T) = Cardinality(T)
BY DEF Store!Cardinality, Cardinality

LEMMA UpToFinite ==
  ASSUME NEW n \in Nat
  PROVE  IsFiniteSet(1..n) /\ Cardinality(1..n) = n
<1>1. 1 \in Int /\ n \in Int
  OBVIOUS
<1>2. IsFiniteSet(1..n) /\ Cardinality(1..n) = IF 1 > n THEN 0 ELSE n - 1 + 1
  BY <1>1, FS_Interval
<1>3. (IF 1 > n THEN 0 ELSE n - 1 + 1) = n
  OBVIOUS
<1> QED
  BY <1>2, <1>3

\* A set of places in a list has a number.
LEMMA PlacesFinite ==
  ASSUME NEW n \in Nat, NEW I \in SUBSET (1..n)
  PROVE  IsFiniteSet(I) /\ Cardinality(I) \in Nat /\ Cardinality(I) <= n
<1>1. IsFiniteSet(1..n) /\ Cardinality(1..n) = n
  BY UpToFinite
<1> QED
  BY <1>1, FS_Subset, FS_CardinalityType

\* The list new has what list has at the places of I, each once.
Part(S, list, I, new, at) ==
  /\ new \in Seq(S) /\ Len(new) = Cardinality(I) /\ at \in [1..Len(new) -> I]
  /\ \A k \in 1..Len(new) : new[k] = list[at[k]]
  /\ \A k, l \in 1..Len(new) : at[k] = at[l] => k = l
  /\ \A i \in I : \E k \in 1..Len(new) : at[k] = i

\* R puts the places of I in a line.
Orders(R, I) ==
  /\ \A i \in I : <<i, i>> \notin R
  /\ \A i, j, k \in I : <<i, j>> \in R /\ <<j, k>> \in R => <<i, k>> \in R
  /\ \A i, j \in I : i = j \/ <<i, j>> \in R \/ <<j, i>> \in R

\* How many places of I come before i.
RankIn(I, R, i) == Cardinality({j \in I : <<j, i>> \in R})

\* The places of I counted in an order: every place has a number of its own, and every
\* number a place.
LEMMA RanksAreNumbers ==
  ASSUME NEW n \in Nat, NEW I \in SUBSET (1..n), NEW R,
         Orders(R, I)
  PROVE  /\ \A i, j \in I : RankIn(I, R, i) = RankIn(I, R, j) => i = j
         /\ \A k \in 1..Cardinality(I) : \E i \in I : RankIn(I, R, i) = k - 1
         /\ \A i \in I : RankIn(I, R, i) \in Nat /\ RankIn(I, R, i) + 1 \in 1..Cardinality(I)
         /\ \A i, j \in I : <<i, j>> \in R => RankIn(I, R, i) < RankIn(I, R, j)
<1> DEFINE Below(i) == {j \in I : <<j, i>> \in R}
           rank == [i \in I |-> Cardinality(Below(i))]
           m == Cardinality(I)
<1>1. IsFiniteSet(I) /\ m \in Nat
  BY PlacesFinite
<1>2. ASSUME NEW i \in I PROVE IsFiniteSet(Below(i)) /\ Cardinality(Below(i)) \in Nat
  <2>1. Below(i) \in SUBSET I
    OBVIOUS
  <2> QED
    BY <1>1, <2>1, FS_Subset, FS_CardinalityType
<1>3. ASSUME NEW i \in I PROVE rank[i] \in 0..(m - 1)
  <2>1. Below(i) \in SUBSET (I \ {i})
    BY DEF Orders
  <2>2. IsFiniteSet(I \ {i}) /\ Cardinality(I \ {i}) = m - 1
    BY <1>1, FS_RemoveElement
  <2> HIDE DEF m, Below
  <2>3. Cardinality(Below(i)) <= Cardinality(I \ {i})
    BY <2>1, <2>2, FS_Subset
  <2> QED
    BY <1>1, <1>2, <2>2, <2>3
<1>4. ASSUME NEW i \in I, NEW j \in I, <<i, j>> \in R PROVE rank[i] < rank[j]
  <2>1. Below(i) \in SUBSET (Below(j) \ {i}) /\ i \in Below(j)
    BY <1>4 DEF Orders
  <2>2. IsFiniteSet(Below(j) \ {i}) /\ Cardinality(Below(j) \ {i}) = Cardinality(Below(j)) - 1
    BY <1>2, <2>1, FS_RemoveElement
  <2> HIDE DEF Below
  <2>3. Cardinality(Below(i)) <= Cardinality(Below(j) \ {i})
    BY <2>1, <2>2, FS_Subset
  <2> QED
    BY <1>2, <2>2, <2>3
<1>5. ASSUME NEW i \in I, NEW j \in I, rank[i] = rank[j] PROVE i = j
  <2>1. rank[i] \in Int /\ ~(rank[i] < rank[j]) /\ ~(rank[j] < rank[i])
    BY <1>3, <1>5
  <2> QED
    <3>1. <<i, j>> \in R \/ <<j, i>> \in R \/ i = j
      BY DEF Orders
    <3> QED
      BY <1>4, <2>1, <3>1
<1> HIDE DEF rank
<1>6. rank \in Injection(I, 0..(m - 1))
  <2>1. rank \in [I -> 0..(m - 1)]
    BY <1>3 DEF rank
  <2> HIDE DEF m
  <2> QED
    BY <1>5, <2>1 DEF Injection, IsInjective
<1>7. IsFiniteSet(0..(m - 1)) /\ Cardinality(0..(m - 1)) = m
  <2> HIDE DEF m
  <2>1. 0 \in Int /\ m - 1 \in Int /\ (0 > m - 1 <=> m = 0) /\ (m - 1) - 0 + 1 = m
    BY <1>1
  <2> QED
    BY <2>1, FS_Interval
<1>8. rank \in Surjection(I, 0..(m - 1))
  BY <1>6, <1>7, FS_Injection
<1>9. ASSUME NEW k \in 1..m PROVE \E i \in I : rank[i] = k - 1
  <2>1. k - 1 \in 0..(m - 1)
    BY <1>1
  <2> QED
    BY <1>8, <2>1 DEF Surjection
<1>10. ASSUME NEW i \in I PROVE rank[i] + 1 \in 1..m
  <2> HIDE DEF m
  <2> QED
    BY <1>1, <1>3
<1>11. \A i \in I : rank[i] = RankIn(I, R, i)
  BY DEF rank, RankIn
<1> HIDE DEF m, Below
<1>12. \A i \in I : rank[i] \in Nat
  BY <1>3
<1> QED
  BY <1>4, <1>5, <1>9, <1>10, <1>11, <1>12 DEF m

\* What Arranged makes of the places of I.
LEMMA ArrangedIs ==
  ASSUME NEW S, NEW list \in Seq(S), NEW I \in SUBSET (1..Len(list)), NEW R,
         Orders(R, I)
  PROVE  \E at : Part(S, list, I, Store!Arranged(list, I, R), at)
<1> DEFINE Rank(i) == RankIn(I, R, i)
           m == Cardinality(I)
           Place(k) == CHOOSE i \in I : Rank(i) = k - 1
           at == [k \in 1..m |-> Place(k)]
           new == Store!Arranged(list, I, R)
<1>0. Len(list) \in Nat
  OBVIOUS
<1>1. /\ \A i, j \in I : Rank(i) = Rank(j) => i = j
      /\ \A k \in 1..m : \E i \in I : Rank(i) = k - 1
      /\ \A i \in I : Rank(i) \in Nat /\ Rank(i) + 1 \in 1..m
      /\ \A i, j \in I : <<i, j>> \in R => Rank(i) < Rank(j)
  BY <1>0, RanksAreNumbers, Zenon
<1>2. m \in Nat /\ \A i \in I : i \in 1..Len(list) /\ list[i] \in S
  BY PlacesFinite
<1>3. \A i \in I : Rank(i) \in Nat
  BY <1>0, RanksAreNumbers, Zenon
<1>4. new = [k \in 1..m |-> list[at[k]]]
  <2>1. new = [k \in 1..m |-> list[Place(k)]]
    BY DEF Store!Arranged, Store!Cardinality, Cardinality, RankIn
  <2>2. \A k \in 1..m : at[k] = Place(k)
    OBVIOUS
  <2> HIDE DEF new, m, at, Place
  <2> QED
    BY <2>1, <2>2
<1> HIDE DEF new, m, Rank
<1>5. \A k \in 1..m : at[k] \in I /\ Rank(at[k]) = k - 1
  BY <1>1
<1> HIDE DEF at
<1>6. new \in Seq(S) /\ Len(new) = m /\ \A k \in 1..m : new[k] = list[at[k]]
  <2>1. \A k \in 1..m : list[at[k]] \in S
    BY <1>2, <1>5
  <2>2. new \in [1..m -> S]
    BY <1>4, <2>1
  <2> QED
    BY <1>2, <1>4, <2>2
<1>7. ASSUME NEW k \in 1..m, NEW l \in 1..m, at[k] = at[l] PROVE k = l
  <2>1. k - 1 = l - 1
    BY <1>5, <1>7
  <2> QED
    BY <1>2, <2>1
<1>8. ASSUME NEW i \in I PROVE \E k \in 1..m : at[k] = i
  <2>1. Rank(i) + 1 \in 1..m /\ (Rank(i) + 1) - 1 = Rank(i)
    BY <1>1, <1>3
  <2>2. at[Rank(i) + 1] \in I /\ Rank(at[Rank(i) + 1]) = Rank(i)
    BY <1>5, <2>1
  <2>3. at[Rank(i) + 1] = i
    BY <1>1, <2>2
  <2> QED
    BY <2>1, <2>3
<1>9. at \in [1..m -> I]
  <2>1. at = [k \in 1..m |-> at[k]]
    BY DEF at
  <2> QED
    BY <1>5, <2>1
<1>10. Part(S, list, I, new, at)
  BY <1>6, <1>7, <1>8, <1>9 DEF Part, m
<1> QED
  BY <1>10 DEF new

LEMMA PickedIs ==
  ASSUME NEW S, NEW list \in Seq(S), NEW I \in SUBSET (1..Len(list))
  PROVE  \E at : Part(S, list, I, Store!Picked(list, I), at)
<1> DEFINE R == {p \in I \X I : p[1] < p[2]}
<1>1. \A i, j \in I : i \in Int /\ (<<i, j>> \in R <=> i < j)
  OBVIOUS
<1>2. Store!Picked(list, I) = Store!Arranged(list, I, R)
  BY DEF Store!Picked
<1> HIDE DEF R
<1>3. Orders(R, I)
  BY <1>1 DEF Orders
<1> QED
  BY <1>2, <1>3, ArrangedIs

\* The bytes of the sources of a list.
Size(list) == Cardinality(Store!Places(list))

LEMMA ListTypes ==
  ASSUME NEW t, NEW m, NEW list, Store!Listed(list, t, m)
  PROVE  /\ Len(list) \in Nat /\ DOMAIN list = 1..Len(list)
         /\ Store!ToSet(list) = {list[i] : i \in 1..Len(list)}
         /\ Store!Ids(list) = {list[i].id : i \in 1..Len(list)}
         /\ \A i \in 1..Len(list) :
              /\ list[i] \in Store!Projects /\ list[i].id \in Nat /\ list[i].id # 0
              /\ list[i].size \in 1..MaxSource /\ list[i].size \in Nat /\ list[i].updatedAt \in Nat
         /\ \A p \in Store!ToSet(list) : p \in Store!Projects /\ p.id \in Store!Ids(list)
<1>1. /\ Len(list) \in Nat /\ DOMAIN list = 1..Len(list)
      /\ \A i \in 1..Len(list) : list[i] \in Store!Projects
  BY DEF Store!Listed
<1>2. \A p \in Store!Projects : /\ p.id \in Nat /\ p.id # 0 /\ p.size \in 1..MaxSource /\ p.updatedAt \in Nat
                                /\ p.size \in Nat
  BY StoreAssumption DEF StoreAssumption, Store!Projects, Store!Example
<1>3. /\ Store!ToSet(list) = {list[i] : i \in 1..Len(list)}
      /\ Store!Ids(list) = {list[i].id : i \in 1..Len(list)}
  BY <1>1 DEF Store!ToSet, Store!Ids
<1> QED
  BY <1>1, <1>2, <1>3

LEMMA PlacesIs ==
  ASSUME NEW t, NEW m, NEW list, Store!Listed(list, t, m)
  PROVE  /\ \A i, b : <<i, b>> \in Store!Places(list) <=> i \in 1..Len(list) /\ b \in 1..list[i].size
         /\ \A p \in Store!Places(list) : p = <<p[1], p[2]>>
         /\ IsFiniteSet(Store!Places(list)) /\ Size(list) \in Nat
<1>1. DOMAIN list = 1..Len(list) /\ Len(list) \in Nat
  BY ListTypes
<1>2. \A i \in 1..Len(list) : list[i].size \in 1..MaxSource
  BY ListTypes
<1>3. Store!Places(list) = UNION {{i} \X (1..list[i].size) : i \in 1..Len(list)}
  BY <1>1 DEF Store!Places
<1>4. \A i, b : <<i, b>> \in Store!Places(list) <=> i \in 1..Len(list) /\ b \in 1..list[i].size
  BY <1>3
<1>5. \A p \in Store!Places(list) : p = <<p[1], p[2]>>
  BY <1>3
<1>6. Store!Places(list) \in SUBSET ((1..Len(list)) \X (1..MaxSource))
  <2>1. \A i \in 1..Len(list) : \A b : b \in 1..list[i].size => b \in 1..MaxSource
    BY <1>2, StoreAssumption DEF StoreAssumption
  <2> QED
    BY <1>4, <1>5, <2>1
<1>7. IsFiniteSet((1..Len(list)) \X (1..MaxSource))
  <2>1. IsFiniteSet(1..Len(list)) /\ IsFiniteSet(1..MaxSource)
    BY <1>1, FS_Interval, StoreAssumption DEF StoreAssumption
  <2> QED
    BY <2>1, FS_Product
<1>8. IsFiniteSet(Store!Places(list))
  BY <1>6, <1>7, FS_Subset
<1> QED
  BY <1>4, <1>5, <1>8, FS_CardinalityType DEF Size

\* Some of a list's projects, each once, are a list, and not a larger one.
LEMMA PartIsListed ==
  ASSUME NEW t, NEW m, NEW list, Store!Listed(list, t, m), NEW I \in SUBSET (1..Len(list)),
         NEW new, NEW at, Part(Store!Projects, list, I, new, at)
  PROVE  /\ Store!Listed(new, t, m) /\ Len(new) = Cardinality(I) /\ Len(new) <= Len(list)
         /\ Store!ToSet(new) = {list[i] : i \in I} /\ Store!Ids(new) = {list[i].id : i \in I}
         /\ Size(new) <= Size(list)
<1>1. Len(list) \in Nat
  BY ListTypes
<1>2. /\ new \in Seq(Store!Projects) /\ Len(new) = Cardinality(I) /\ at \in [1..Len(new) -> I]
      /\ \A k \in 1..Len(new) : new[k] = list[at[k]] /\ at[k] \in I /\ at[k] \in 1..Len(list)
      /\ \A k, l \in 1..Len(new) : at[k] = at[l] => k = l
      /\ \A i \in I : \E k \in 1..Len(new) : at[k] = i
  BY DEF Part
<1>3. Len(new) <= Len(list)
  BY <1>1, <1>2, PlacesFinite
<1>4. Store!Listed(new, t, m)
  <2>1. \A k \in 1..Len(new) : new[k].id <= m /\ new[k].updatedAt <= t
    BY <1>2 DEF Store!Listed
  <2>2. ASSUME NEW k \in 1..Len(new), NEW l \in 1..Len(new), new[k].id = new[l].id PROVE k = l
    <3>1. at[k] = at[l]
      BY <1>2, <2>2 DEF Store!Listed
    <3> QED
      BY <1>2, <3>1
  <2> QED
    BY <1>2, <2>1, <2>2 DEF Store!Listed
<1>5. {new[k] : k \in 1..Len(new)} = {list[i] : i \in I} /\ {new[k].id : k \in 1..Len(new)} = {list[i].id : i \in I}
  <2>1. \A k \in 1..Len(new) : \E i \in I : new[k] = list[i]
    BY <1>2
  <2>2. \A i \in I : \E k \in 1..Len(new) : new[k] = list[i]
    BY <1>2
  <2>3. {new[k] : k \in 1..Len(new)} = {list[i] : i \in I}
    <3>1. ASSUME NEW x \in {new[k] : k \in 1..Len(new)} PROVE x \in {list[i] : i \in I}
      BY <2>1
    <3>2. ASSUME NEW x \in {list[i] : i \in I} PROVE x \in {new[k] : k \in 1..Len(new)}
      BY <2>2
    <3> QED
      BY <3>1, <3>2
  <2>4. /\ \A k \in 1..Len(new) : \E i \in I : new[k].id = list[i].id
        /\ \A i \in I : \E k \in 1..Len(new) : list[i].id = new[k].id
    BY <2>1, <2>2, Zenon
  <2>5. {new[k].id : k \in 1..Len(new)} = {list[i].id : i \in I}
    <3>1. ASSUME NEW x \in {new[k].id : k \in 1..Len(new)} PROVE x \in {list[i].id : i \in I}
      BY <2>4
    <3>2. ASSUME NEW x \in {list[i].id : i \in I} PROVE x \in {new[k].id : k \in 1..Len(new)}
      <4>1. PICK i \in I : x = list[i].id
        OBVIOUS
      <4>2. PICK k \in 1..Len(new) : list[i].id = new[k].id
        BY <2>4
      <4> QED
        BY <4>1, <4>2
    <3> QED
      BY <3>1, <3>2
  <2> QED
    BY <2>3, <2>5
<1>6. Store!ToSet(new) = {list[i] : i \in I} /\ Store!Ids(new) = {list[i].id : i \in I}
  BY <1>4, <1>5, ListTypes
<1>7. Size(new) <= Size(list)
  <2> DEFINE f == [p \in Store!Places(new) |-> <<at[p[1]], p[2]>>]
  <2>1. ASSUME NEW p \in Store!Places(new)
        PROVE  /\ p = <<p[1], p[2]>> /\ p[1] \in 1..Len(new)
               /\ <<at[p[1]], p[2]>> \in Store!Places(list)
    <3>1. p = <<p[1], p[2]>> /\ p[1] \in 1..Len(new) /\ p[2] \in 1..new[p[1]].size
      <4>1. p = <<p[1], p[2]>>
        BY <1>4, PlacesIs
      <4>2. <<p[1], p[2]>> \in Store!Places(new)
        BY <4>1
      <4> QED
        BY <1>4, <4>1, <4>2, PlacesIs
    <3>2. at[p[1]] \in 1..Len(list) /\ p[2] \in 1..list[at[p[1]]].size
      BY <1>2, <3>1
    <3> QED
      BY <3>1, <3>2, PlacesIs
  <2>2. ASSUME NEW p \in Store!Places(new), NEW q \in Store!Places(new), f[p] = f[q] PROVE p = q
    <3>1. at[p[1]] = at[q[1]] /\ p[2] = q[2]
      BY <2>2
    <3>2. p[1] = q[1]
      BY <1>2, <2>1, <3>1
    <3> QED
      BY <2>1, <3>1, <3>2
  <2>3. f \in Injection(Store!Places(new), Store!Places(list))
    <3>1. f \in [Store!Places(new) -> Store!Places(list)]
      BY <2>1
    <3> HIDE DEF f
    <3> QED
      BY <2>2, <3>1 DEF Injection, IsInjective
  <2>4. IsFiniteSet(Store!Places(list))
    BY PlacesIs
  <2> HIDE DEF f
  <2> QED
    BY <2>3, <2>4, FS_Injection DEF Size
<1> QED
  BY <1>2, <1>3, <1>4, <1>6, <1>7

\* A list of no more than one project takes no more bytes than a project may.
LEMMA OneFits ==
  ASSUME NEW t, NEW m, NEW list, Store!Listed(list, t, m), Len(list) <= 1
  PROVE  Size(list) <= MaxEnvelope
<1>1. Len(list) \in Nat /\ \A i \in 1..Len(list) : list[i].size \in 1..MaxSource /\ list[i].size \in Nat
  BY ListTypes
<1>2. MaxSource \in Nat /\ MaxEnvelope \in Nat /\ MaxSource <= MaxEnvelope
  BY StoreAssumption DEF StoreAssumption
<1>3. DOMAIN list = 1..Len(list)
  BY ListTypes
<1>4. CASE Len(list) = 0
  <2>1. Store!Places(list) = {}
    BY <1>3, <1>4 DEF Store!Places
  <2>2. Size(list) = 0
    BY <2>1, FS_EmptySet DEF Size
  <2> QED
    BY <1>2, <2>2
<1>5. CASE Len(list) = 1
  <2> DEFINE n == list[1].size
  <2>1. n \in 1..MaxSource /\ n \in Nat
    BY <1>1, <1>5
  <2>2. 1..Len(list) = {1}
    BY <1>5
  <2>3. Store!Places(list) = {1} \X (1..n)
    BY <1>3, <2>2 DEF Store!Places
  <2>4. IsFiniteSet({1}) /\ Cardinality({1}) = 1
    BY FS_Singleton
  <2> HIDE DEF n
  <2>5. IsFiniteSet(1..n) /\ Cardinality(1..n) = n
    BY <2>1, FS_Interval
  <2>6. Cardinality({1} \X (1..n)) = Cardinality({1}) * Cardinality(1..n)
    BY <2>4, <2>5, FS_Product
  <2>7. Cardinality({1} \X (1..n)) = 1 * n
    BY <2>4, <2>5, <2>6, Zenon
  <2>8. 1 * n = n /\ n <= MaxEnvelope
    BY <1>2, <2>1
  <2> QED
    BY <2>3, <2>7, <2>8 DEF Size
<1>6. \A n \in Nat : n <= 1 => n = 0 \/ n = 1
  OBVIOUS
<1>7. Len(list) \in Nat
  BY <1>1, Zenon
<1>8. Len(list) = 0 \/ Len(list) = 1
  BY <1>6, <1>7, Zenon
<1> QED
  BY <1>4, <1>5, <1>8, Zenon

\* What is left of a list when projects are taken away: the one to keep is, and none that
\* stays was left alone longer than one that went.
Cut(list, keep, new) ==
  /\ Store!ToSet(new) \subseteq Store!ToSet(list)
  /\ keep \in Store!Ids(list) => keep \in Store!Ids(new)
  /\ \A p \in Store!ToSet(list), q \in Store!ToSet(new) :
       p.id \notin Store!Ids(new) => p.updatedAt <= q.updatedAt \/ q.id = keep

\* How many go before the i-th.
Ahead(list, keep, i) == Cardinality({j \in Store!Others(list, keep) : Store!GoesBefore(list, j, i)})

\* The places of the projects that stay after n evictions.
Staying(list, keep, n) ==
  {i \in DOMAIN list : i \notin Store!Others(list, keep) \/ Ahead(list, keep, i) >= n}

LEMMA WithoutPicks ==
  ASSUME NEW list, NEW keep, NEW n
  PROVE  Store!Without(list, keep, n) = Store!Picked(list, Staying(list, keep, n))
BY DEF Store!Without, Staying, Ahead, Store!Cardinality, Cardinality

\* Ranks among the projects that may go.
LEMMA EvictionRanks ==
  ASSUME NEW t, NEW m, NEW list, Store!Listed(list, t, m), NEW keep
  PROVE  LET O == Store!Others(list, keep) IN
         /\ O = {i \in 1..Len(list) : list[i].id # keep}
         /\ \A k \in 1..Cardinality(O) : \E i \in O : Ahead(list, keep, i) = k - 1
         /\ \A i \in O : Ahead(list, keep, i) \in Nat /\ Ahead(list, keep, i) < Len(list)
         /\ \A i, j \in O : Store!GoesBefore(list, i, j) => Ahead(list, keep, i) < Ahead(list, keep, j)
<1> DEFINE O == Store!Others(list, keep)
           Rank(i) == Ahead(list, keep, i)
           R == {p \in O \X O : Store!GoesBefore(list, p[1], p[2])}
           Ranked(i) == RankIn(O, R, i)
<1>1. O = {i \in 1..Len(list) : list[i].id # keep} /\ Len(list) \in Nat
  BY ListTypes DEF Store!Others
<1>0. Len(list) \in Nat
  BY <1>1
<1>2. O \in SUBSET (1..Len(list))
  BY <1>1
<1>3. \A i, j \in O : <<i, j>> \in R <=> Store!GoesBefore(list, i, j)
  OBVIOUS
<1>4. \A i \in O : i \in Nat /\ list[i].updatedAt \in Nat
  BY <1>2, ListTypes
<1> HIDE DEF R, O
<1>5. \A i \in O : <<i, i>> \notin R
  BY <1>3, <1>4 DEF Store!GoesBefore
<1>6. \A i, j, k \in O : <<i, j>> \in R /\ <<j, k>> \in R => <<i, k>> \in R
  BY <1>3, <1>4 DEF Store!GoesBefore
<1>7. ASSUME NEW i \in O, NEW j \in O PROVE i = j \/ <<i, j>> \in R \/ <<j, i>> \in R
  <2>1. i \in Nat /\ j \in Nat /\ list[i].updatedAt \in Nat /\ list[j].updatedAt \in Nat
    BY <1>4
  <2>2. i = j \/ Store!GoesBefore(list, i, j) \/ Store!GoesBefore(list, j, i)
    BY <2>1 DEF Store!GoesBefore
  <2> QED
    BY <1>3, <2>2
<1>15. Orders(R, O)
  BY <1>5, <1>6, <1>7 DEF Orders
<1>8. /\ \A i, j \in O : Ranked(i) = Ranked(j) => i = j
      /\ \A k \in 1..Cardinality(O) : \E i \in O : Ranked(i) = k - 1
      /\ \A i \in O : Ranked(i) \in Nat /\ Ranked(i) + 1 \in 1..Cardinality(O)
      /\ \A i, j \in O : <<i, j>> \in R => Ranked(i) < Ranked(j)
  BY <1>0, <1>2, <1>15, RanksAreNumbers, Zenon
<1>9. ASSUME NEW i \in O PROVE Ranked(i) = Rank(i)
  <2>1. {j \in O : <<j, i>> \in R} = {j \in O : Store!GoesBefore(list, j, i)}
    BY <1>3
  <2> QED
    BY <2>1 DEF RankIn, Ahead, O
<1>10. Cardinality(O) \in Nat /\ Cardinality(O) <= Len(list)
  BY <1>1, <1>2, PlacesFinite
<1>11. \A i \in O : Ranked(i) \in Nat
  BY <1>1, <1>2, <1>15, RanksAreNumbers
<1> HIDE DEF Rank, Ranked
<1>12. \A i \in O : Rank(i) \in Nat /\ Rank(i) < Len(list)
  BY <1>1, <1>8, <1>9, <1>10, <1>11
<1>13. \A k \in 1..Cardinality(O) : \E i \in O : Rank(i) = k - 1
  BY <1>8, <1>9
<1>14. \A i, j \in O : Store!GoesBefore(list, i, j) => Rank(i) < Rank(j)
  BY <1>3, <1>8, <1>9
<1> QED
  BY <1>1, <1>12, <1>13, <1>14 DEF O, Rank

\* What stays when n projects are evicted.
LEMMA WithoutIs ==
  ASSUME NEW t, NEW m, NEW list, Store!Listed(list, t, m), NEW keep, NEW n \in Nat
  PROVE  LET new == Store!Without(list, keep, n) IN
         /\ Store!Listed(new, t, m) /\ Len(new) <= Len(list) /\ Size(new) <= Size(list)
         /\ Cut(list, keep, new)
         /\ n = 1 /\ (\E i \in 1..Len(list) : list[i].id # keep) => Len(new) < Len(list)
         /\ n = Len(list) => Len(new) <= 1
         /\ \A k \in 1..Len(list) :
              n = 1 /\ (\E i \in 1..Len(list) : i < k /\ list[i].id # keep /\ list[i].updatedAt <= list[k].updatedAt)
              => list[k] \in Store!ToSet(new)
<1> DEFINE O == Store!Others(list, keep)
           Rank(i) == Ahead(list, keep, i)
           I == Staying(list, keep, n)
           new == Store!Without(list, keep, n)
<1>1. /\ O = {i \in 1..Len(list) : list[i].id # keep}
      /\ \A k \in 1..Cardinality(O) : \E i \in O : Rank(i) = k - 1
      /\ \A i \in O : Rank(i) \in Nat /\ Rank(i) < Len(list)
      /\ \A i, j \in O : Store!GoesBefore(list, i, j) => Rank(i) < Rank(j)
  BY EvictionRanks
<1>2. /\ Len(list) \in Nat /\ DOMAIN list = 1..Len(list) /\ list \in Seq(Store!Projects)
      /\ \A i \in 1..Len(list) : list[i].updatedAt \in Nat
  BY ListTypes DEF Store!Listed
<1>3. I = {i \in 1..Len(list) : i \notin O \/ Rank(i) >= n}
  BY <1>2 DEF Staying
<1> HIDE DEF O, Rank, I
<1>4. I \in SUBSET (1..Len(list))
  BY <1>3
<1>5. PICK at : Part(Store!Projects, list, I, new, at)
  BY <1>2, <1>4, PickedIs, WithoutPicks DEF I
<1> HIDE DEF new
<1>6. /\ Store!Listed(new, t, m) /\ Len(new) = Cardinality(I) /\ Len(new) <= Len(list)
      /\ Store!ToSet(new) = {list[i] : i \in I} /\ Store!Ids(new) = {list[i].id : i \in I}
      /\ Size(new) <= Size(list)
  BY <1>4, <1>5, PartIsListed
<1>7. /\ Store!ToSet(list) = {list[i] : i \in 1..Len(list)}
      /\ Store!Ids(list) = {list[i].id : i \in 1..Len(list)}
  BY ListTypes
<1>8. Cut(list, keep, new)
  <2>1. Store!ToSet(new) \subseteq Store!ToSet(list)
    BY <1>4, <1>6, <1>7
  <2>2. ASSUME keep \in Store!Ids(list) PROVE keep \in Store!Ids(new)
    <3>1. PICK i \in 1..Len(list) : keep = list[i].id
      BY <1>7, <2>2
    <3>2. i \in I
      BY <1>1, <1>3, <3>1
    <3> QED
      BY <1>6, <3>1, <3>2
  <2>3. ASSUME NEW p \in Store!ToSet(list), NEW q \in Store!ToSet(new), p.id \notin Store!Ids(new), q.id # keep
        PROVE  p.updatedAt <= q.updatedAt
    <3>1. PICK i \in 1..Len(list) : p = list[i]
      BY <1>7
    <3>2. PICK j \in I : q = list[j]
      BY <1>6
    <3>3. i \notin I
      BY <1>6, <2>3, <3>1
    <3>4. i \in O /\ ~(Rank(i) >= n)
      BY <1>3, <3>3
    <3>5. j \in 1..Len(list) /\ j \in O /\ Rank(j) >= n
      BY <1>1, <1>3, <1>4, <2>3, <3>2
    <3>6. ~(Rank(j) < Rank(i))
      BY <1>1, <3>4, <3>5
    <3>7. ~Store!GoesBefore(list, j, i)
      BY <1>1, <3>4, <3>5, <3>6
    <3>8. list[i].updatedAt \in Nat /\ list[j].updatedAt \in Nat
      BY <1>2, <3>5
    <3> QED
      BY <3>1, <3>2, <3>7, <3>8 DEF Store!GoesBefore
  <2> QED
    BY <2>1, <2>2, <2>3 DEF Cut
<1>9. ASSUME n = 1, NEW i \in 1..Len(list), list[i].id # keep PROVE Len(new) < Len(list)
  <2>1. O \in SUBSET (1..Len(list)) /\ O # {}
    BY <1>1, <1>9
  <2>2. Cardinality(O) \in Nat /\ Cardinality(O) # 0
    BY <1>2, <2>1, PlacesFinite, FS_EmptySet
  <2>3. 1 \in 1..Cardinality(O)
    BY <2>2
  <2>4. PICK j \in O : Rank(j) = 1 - 1
    BY <1>1, <2>3
  <2>5. j \notin I /\ j \in 1..Len(list)
    BY <1>3, <1>9, <2>1, <2>4
  <2>6. I \in SUBSET ((1..Len(list)) \ {j})
    BY <1>4, <2>5
  <2>7. IsFiniteSet(1..Len(list)) /\ Cardinality(1..Len(list)) = Len(list)
    BY <1>2, UpToFinite
  <2>8. IsFiniteSet((1..Len(list)) \ {j}) /\ Cardinality((1..Len(list)) \ {j}) = Len(list) - 1
    BY <2>5, <2>7, FS_RemoveElement
  <2>9. Cardinality(I) <= Cardinality((1..Len(list)) \ {j})
    BY <2>6, <2>8, FS_Subset
  <2>10. Cardinality(I) \in Nat
    BY <1>2, <1>4, PlacesFinite
  <2> QED
    BY <1>2, <1>6, <2>8, <2>9, <2>10
<1>10. ASSUME n = Len(list) PROVE Len(new) <= 1
  <2>1. \A i \in I : i \in 1..Len(list) /\ list[i].id = keep
    BY <1>1, <1>2, <1>3, <1>10
  <2>2. \A i, j \in I : i = j
    BY <2>1 DEF Store!Listed
  <2>3. I = {} \/ \E i : I = {i}
    BY <2>2
  <2>4. Cardinality(I) = 0 \/ Cardinality(I) = 1
    BY <2>3, FS_EmptySet, FS_Singleton
  <2> QED
    BY <1>6, <2>4
<1>11. ASSUME n = 1, NEW k \in 1..Len(list), NEW i \in 1..Len(list), i < k, list[i].id # keep,
              list[i].updatedAt <= list[k].updatedAt
       PROVE  list[k] \in Store!ToSet(new)
  <2>1. CASE list[k].id = keep
    <3>1. k \in I
      BY <1>1, <1>3, <2>1
    <3> QED
      BY <1>6, <3>1
  <2>2. CASE list[k].id # keep
    <3>1. i \in O /\ k \in O
      BY <1>1, <1>11, <2>2
    <3>2. Store!GoesBefore(list, i, k)
      BY <1>2, <1>11 DEF Store!GoesBefore
    <3>3. Rank(k) >= 1
      BY <1>1, <3>1, <3>2
    <3>4. k \in I
      BY <1>3, <1>11, <3>3
    <3> QED
      BY <1>6, <3>4
  <2> QED
    BY <2>1, <2>2
<1> QED
  BY <1>6, <1>8, <1>9, <1>10, <1>11 DEF new

LEMMA BytesIs ==
  ASSUME NEW t, NEW m, NEW e, Store!EnvelopeIs(e, t, m)
  PROVE  /\ Store!Bytes(e) = e.images + Size(e.scratch) /\ Store!Bytes(e) \in Nat
         /\ e.images \in Nat /\ Size(e.scratch) \in Nat
         /\ Store!Sources(e).scratch = e.scratch /\ Store!Sources(e).active = e.active
         /\ Store!Sources(e).images = 0 /\ Store!EnvelopeIs(Store!Sources(e), t, m)
         /\ Store!Bytes(Store!Sources(e)) = Size(e.scratch)
<1>1. /\ e \in [scratch : Seq(Store!Projects), active : Nat, images : Images]
      /\ Store!Listed(e.scratch, t, m)
  BY DEF Store!EnvelopeIs
<1>2. Images \subseteq Nat /\ 0 \in Images
  BY StoreAssumption DEF StoreAssumption
<1>3. \A x : Store!Bytes(x) = x.images + Size(x.scratch)
  BY SameCount DEF Store!Bytes, Size
<1>4. e.images \in Nat /\ Size(e.scratch) \in Nat
  BY <1>1, <1>2, PlacesIs
<1>5. /\ Store!Sources(e).scratch = e.scratch /\ Store!Sources(e).active = e.active
      /\ Store!Sources(e).images = 0
      /\ Store!Sources(e) \in [scratch : Seq(Store!Projects), active : Nat, images : Images]
  BY <1>1, <1>2 DEF Store!Sources
<1>6. Store!EnvelopeIs(Store!Sources(e), t, m)
  BY <1>5 DEF Store!EnvelopeIs
<1> QED
  BY <1>3, <1>4, <1>5, <1>6

\* What is written fits, when the sources do.
LEMMA SerializeIs ==
  ASSUME NEW t, NEW m, NEW e, Store!EnvelopeIs(e, t, m), Size(e.scratch) <= MaxEnvelope
  PROVE  LET s == Store!Serialize(e) IN
         /\ Store!EnvelopeIs(s, t, m) /\ Store!Bytes(s) <= MaxEnvelope
         /\ s.scratch = e.scratch /\ s.active = e.active /\ s.images \in {e.images, 0}
<1>1. MaxEnvelope \in Nat
  BY StoreAssumption DEF StoreAssumption
<1>2. CASE Store!Bytes(e) > MaxEnvelope
  <2>1. Store!Serialize(e) = Store!Sources(e)
    BY <1>2 DEF Store!Serialize
  <2> QED
    BY <2>1, BytesIs
<1>3. CASE ~(Store!Bytes(e) > MaxEnvelope)
  <2>1. Store!Serialize(e) = e
    BY <1>3 DEF Store!Serialize
  <2>2. Store!Bytes(e) \in Nat
    BY BytesIs
  <2> QED
    BY <1>1, <1>3, <2>1, <2>2
<1> QED
  BY <1>2, <1>3

\* An envelope after evictions.
Cutting(e, new) == [e EXCEPT !.scratch = new]

LEMMA CutIsEnvelope ==
  ASSUME NEW t, NEW m, NEW e, Store!EnvelopeIs(e, t, m), NEW new,
         Store!Listed(new, t, m), Len(new) <= Len(e.scratch), Cut(e.scratch, e.active, new)
  PROVE  /\ Store!EnvelopeIs(Cutting(e, new), t, m)
         /\ Cutting(e, new).scratch = new /\ Cutting(e, new).active = e.active /\ Cutting(e, new).images = e.images
<1>1. /\ e \in [scratch : Seq(Store!Projects), active : Nat, images : Images]
      /\ Len(e.scratch) <= MaxScratch /\ e.active \in Store!Ids(e.scratch) \cup {Store!Example}
      /\ Store!Listed(e.scratch, t, m)
  BY DEF Store!EnvelopeIs
<1>2. new \in Seq(Store!Projects)
  BY DEF Store!Listed
<1>3. /\ Cutting(e, new).scratch = new /\ Cutting(e, new).active = e.active /\ Cutting(e, new).images = e.images
      /\ Cutting(e, new) \in [scratch : Seq(Store!Projects), active : Nat, images : Images]
  BY <1>1, <1>2 DEF Cutting
<1>4. Len(new) <= MaxScratch
  <2>1. Len(new) \in Nat /\ Len(e.scratch) \in Nat /\ MaxScratch \in Nat
    BY <1>1, <1>2, StoreAssumption DEF StoreAssumption
  <2> QED
    BY <1>1, <2>1
<1>5. e.active \in Store!Ids(new) \cup {Store!Example}
  BY <1>1 DEF Cut
<1> QED
  BY <1>3, <1>4, <1>5 DEF Store!EnvelopeIs

\* Evicting until the sources fit ends with sources that fit.
LEMMA TrimIs ==
  ASSUME NEW t, NEW m, NEW e, Store!EnvelopeIs(e, t, m)
  PROVE  LET x == Store!TrimToFit(e) IN
         /\ Store!EnvelopeIs(x, t, m) /\ Size(x.scratch) <= MaxEnvelope
         /\ Cut(e.scratch, e.active, x.scratch) /\ x.active = e.active /\ x.images = e.images
<1> DEFINE L == e.scratch
           new(n) == Store!Without(L, e.active, n)
           after(n) == Cutting(e, new(n))
           enough == {n \in 0..Len(L) : Store!Bytes(Store!Sources(after(n))) <= MaxEnvelope}
           x == Store!TrimToFit(e)
<1>1. Store!Listed(L, t, m) /\ Len(L) \in Nat
  BY ListTypes DEF Store!EnvelopeIs
<1>2. e \in [scratch : Seq(Store!Projects), active : Nat, images : Images]
  BY DEF Store!EnvelopeIs
<1>3. x = after(CHOOSE n \in enough : \A k \in enough : n <= k)
  BY DEF Store!TrimToFit, Cutting
<1>4. ASSUME NEW n \in 0..Len(L)
      PROVE  /\ Store!Listed(new(n), t, m) /\ Cut(L, e.active, new(n))
             /\ Store!EnvelopeIs(after(n), t, m)
             /\ after(n).scratch = new(n) /\ after(n).active = e.active /\ after(n).images = e.images
             /\ Store!Bytes(Store!Sources(after(n))) = Size(new(n))
             /\ n = Len(L) => Len(new(n)) <= 1
  <2>1. n \in Nat
    OBVIOUS
  <2>2. /\ Store!Listed(new(n), t, m) /\ Len(new(n)) <= Len(L) /\ Cut(L, e.active, new(n))
        /\ n = Len(L) => Len(new(n)) <= 1
    BY <1>1, <2>1, WithoutIs
  <2> HIDE DEF new
  <2>3. /\ Store!EnvelopeIs(after(n), t, m)
        /\ after(n).scratch = new(n) /\ after(n).active = e.active /\ after(n).images = e.images
    BY <2>2, CutIsEnvelope
  <2> HIDE DEF after
  <2> QED
    BY <2>2, <2>3, BytesIs
<1> HIDE DEF new, after, x
<1>5. enough \in SUBSET Nat /\ enough # {}
  <2>1. Len(L) \in 0..Len(L)
    BY <1>1
  <2>2. Size(new(Len(L))) <= MaxEnvelope
    BY <1>4, <2>1, OneFits
  <2>3. Len(L) \in enough
    BY <1>4, <2>1, <2>2
  <2>4. \A n \in 0..Len(L) : n \in Nat
    OBVIOUS
  <2> QED
    BY <2>3, <2>4
<1>6. PICK n \in enough : x = after(n)
  <2>1. \E n \in enough : \A k \in enough : n <= k
    BY <1>5, LeastOne
  <2>2. (CHOOSE n \in enough : \A k \in enough : n <= k) \in enough
    BY <2>1
  <2> QED
    BY <1>3, <2>2
<1>7. n \in 0..Len(L) /\ Store!Bytes(Store!Sources(after(n))) <= MaxEnvelope
  OBVIOUS
<1> HIDE DEF enough
<1> QED
  BY <1>4, <1>6, <1>7 DEF x

\* One eviction more.
LEMMA EvictIs ==
  ASSUME NEW t, NEW m, NEW e, Store!EnvelopeIs(e, t, m)
  PROVE  LET x == Store!evictOldest(e, e.active) IN
         /\ Store!EnvelopeIs(x, t, m) /\ Size(x.scratch) <= Size(e.scratch)
         /\ Cut(e.scratch, e.active, x.scratch) /\ x.active = e.active /\ x.images = e.images
<1> DEFINE new == Store!Without(e.scratch, e.active, 1)
<1>1. Store!Listed(e.scratch, t, m)
  BY DEF Store!EnvelopeIs
<1>2. /\ Store!Listed(new, t, m) /\ Len(new) <= Len(e.scratch) /\ Size(new) <= Size(e.scratch)
      /\ Cut(e.scratch, e.active, new)
  BY <1>1, WithoutIs
<1>3. Store!evictOldest(e, e.active) = Cutting(e, new)
  BY DEF Store!evictOldest, Cutting
<1> HIDE DEF new
<1>4. /\ Store!EnvelopeIs(Cutting(e, new), t, m)
      /\ Cutting(e, new).scratch = new /\ Cutting(e, new).active = e.active /\ Cutting(e, new).images = e.images
  BY <1>2, CutIsEnvelope
<1> QED
  BY <1>2, <1>3, <1>4

\* Evictions one after the other.
LEMMA CutTwice ==
  ASSUME NEW t, NEW m, NEW keep, NEW a, NEW b, NEW c,
         Store!Listed(a, t, m), Store!Listed(b, t, m), Cut(a, keep, b), Cut(b, keep, c)
  PROVE  Cut(a, keep, c)
<1>1. Store!ToSet(b) \subseteq Store!ToSet(a) /\ Store!ToSet(c) \subseteq Store!ToSet(b)
  BY DEF Cut
<1>2. keep \in Store!Ids(a) => keep \in Store!Ids(c)
  BY DEF Cut
<1>3. ASSUME NEW p \in Store!ToSet(a), NEW q \in Store!ToSet(c), p.id \notin Store!Ids(c)
      PROVE  p.updatedAt <= q.updatedAt \/ q.id = keep
  <2>1. CASE p.id \in Store!Ids(b)
    <3>0. Store!ToSet(b) = {b[i] : i \in 1..Len(b)} /\ Store!Ids(b) = {b[i].id : i \in 1..Len(b)}
      BY ListTypes
    <3>7. Store!ToSet(a) = {a[i] : i \in 1..Len(a)}
      BY ListTypes
    <3>1. PICK i \in 1..Len(b) : p.id = b[i].id
      BY <2>1, <3>0
    <3>2. b[i] \in Store!ToSet(b)
      BY <3>0
    <3>3. PICK j \in 1..Len(a) : b[i] = a[j]
      BY <1>1, <3>2, <3>7
    <3>4. PICK k \in 1..Len(a) : p = a[k]
      BY <3>7
    <3>5. k = j
      BY <3>1, <3>3, <3>4 DEF Store!Listed
    <3>6. p \in Store!ToSet(b)
      BY <3>2, <3>3, <3>4, <3>5
    <3> QED
      BY <1>3, <3>6 DEF Cut
  <2>2. CASE p.id \notin Store!Ids(b)
    BY <1>1, <2>2 DEF Cut
  <2> QED
    BY <2>1, <2>2
<1> QED
  BY <1>1, <1>2, <1>3 DEF Cut

\* What a write leaves in memory and under the key.
LEMMA WriteResult ==
  ASSUME NEW t, NEW m, Store!EnvelopeIs(env, t, m), Store!DiskIs(disk, t, m)
  PROVE  LET r == Store!writeEnvelope IN
         /\ Store!EnvelopeIs(r.env, t, m) /\ Cut(env.scratch, env.active, r.env.scratch)
         /\ Store!DiskIs(r.disk, t, m) /\ r.ok \in BOOLEAN
         /\ r.ok => /\ r.disk.kind = "envelope"
                    /\ r.disk.env.scratch = r.env.scratch /\ r.disk.env.active = r.env.active
                    /\ r.disk.env.images \in {r.env.images, 0}
                    /\ Store!Gone(env, r.env) # {} =>
                         [kind |-> "evicted", names |-> Store!Gone(env, r.env)] \in r.note
         /\ ~r.ok => r.disk = disk
<1> DEFINE trimmed == Store!TrimToFit(env)
           again == Store!evictOldest(trimmed, env.active)
           Left(x) == /\ Store!EnvelopeIs(x, t, m) /\ Size(x.scratch) <= MaxEnvelope
                      /\ Cut(env.scratch, env.active, x.scratch)
           Told(x, n) == Store!Gone(env, x) # {} => [kind |-> "evicted", names |-> Store!Gone(env, x)] \in n
           Good(r) == /\ Store!EnvelopeIs(r.env, t, m) /\ Cut(env.scratch, env.active, r.env.scratch)
                      /\ Store!DiskIs(r.disk, t, m) /\ r.ok \in BOOLEAN
                      /\ r.ok => /\ r.disk.kind = "envelope"
                                 /\ r.disk.env.scratch = r.env.scratch /\ r.disk.env.active = r.env.active
                                 /\ r.disk.env.images \in {r.env.images, 0}
                                 /\ Told(r.env, r.note)
                      /\ ~r.ok => r.disk = disk
<1>1. Left(trimmed) /\ trimmed.active = env.active
  BY TrimIs
<1>2. Left(again)
  <2> HIDE DEF trimmed
  <2>1. /\ Store!EnvelopeIs(again, t, m) /\ Size(again.scratch) <= Size(trimmed.scratch)
        /\ Cut(trimmed.scratch, env.active, again.scratch)
    BY <1>1, EvictIs
  <2>2. Size(again.scratch) \in Nat /\ Size(trimmed.scratch) \in Nat /\ MaxEnvelope \in Nat
    BY <1>1, <2>1, BytesIs, StoreAssumption DEF StoreAssumption
  <2> HIDE DEF again
  <2>3. Size(again.scratch) <= MaxEnvelope
    BY <1>1, <2>1, <2>2
  <2>4. Cut(env.scratch, env.active, again.scratch)
    BY <1>1, <2>1, CutTwice DEF Store!EnvelopeIs
  <2> QED
    BY <2>1, <2>3, <2>4
<1>3. ASSUME NEW x, Left(x), NEW n, Told(x, n)
      PROVE  Good(Store!Result(TRUE, x, Store!OnDisk(Store!Serialize(x)), n))
  <2> DEFINE s == Store!Serialize(x)
             d == Store!OnDisk(s)
             r == Store!Result(TRUE, x, d, n)
  <2>1. /\ Store!EnvelopeIs(s, t, m) /\ Store!Bytes(s) <= MaxEnvelope
        /\ s.scratch = x.scratch /\ s.active = x.active /\ s.images \in {x.images, 0}
    BY <1>3, SerializeIs
  <2> HIDE DEF s
  <2>2. d.kind = "envelope" /\ d.env = s
    BY DEF Store!OnDisk
  <2>3. Store!DiskIs(d, t, m)
    BY <2>1, <2>2 DEF Store!DiskIs
  <2>4. r.ok = TRUE /\ r.env = x /\ r.disk = d /\ r.note = n
    BY DEF Store!Result
  <2> HIDE DEF d, r, Told
  <2> QED
    BY <1>3, <2>1, <2>2, <2>3, <2>4 DEF r, d, s
<1>4. ASSUME NEW x, Left(x), NEW n PROVE Good(Store!Result(FALSE, x, disk, n))
  <2> DEFINE r == Store!Result(FALSE, x, disk, n)
  <2>1. r.ok = FALSE /\ r.env = x /\ r.disk = disk /\ r.note = n
    BY DEF Store!Result
  <2> HIDE DEF r, Told
  <2> QED
    BY <1>4, <2>1 DEF r
<1>5. \A x : Told(x, Store!Evicted(x))
  BY DEF Store!Evicted
<1>6. \A x : Told(x, Store!SavedNote(x))
  BY <1>5 DEF Store!SavedNote, Store!Evicted
<1> HIDE DEF Left, Told
<1>7. Good(Store!writeEnvelope)
  <2>1. CASE broken
    <3>1. Store!writeEnvelope = Store!Result(FALSE, trimmed, disk, Store!Disabled("unavailable"))
      BY <2>1 DEF Store!writeEnvelope
    <3> HIDE DEF trimmed, Good
    <3> QED
      BY <1>1, <1>4, <3>1
  <2>2. CASE ~broken /\ Store!Fits(trimmed)
    <3>1. Store!writeEnvelope
            = Store!Result(TRUE, trimmed, Store!OnDisk(Store!Serialize(trimmed)), Store!SavedNote(trimmed))
      BY <2>2 DEF Store!writeEnvelope
    <3> HIDE DEF trimmed, Good
    <3> QED
      BY <1>1, <1>3, <1>6, <3>1
  <2>3. CASE ~broken /\ ~Store!Fits(trimmed) /\ again = trimmed
    <3>1. Store!writeEnvelope = Store!Result(FALSE, trimmed, disk, Store!Disabled("quota"))
      BY <2>3 DEF Store!writeEnvelope
    <3> HIDE DEF trimmed, again, Good
    <3> QED
      BY <1>1, <1>4, <3>1
  <2>4. CASE ~broken /\ ~Store!Fits(trimmed) /\ again # trimmed /\ Store!Fits(again)
    <3>1. Store!writeEnvelope
            = Store!Result(TRUE, again, Store!OnDisk(Store!Serialize(again)), Store!Evicted(again))
      BY <2>4 DEF Store!writeEnvelope
    <3> HIDE DEF trimmed, again, Good
    <3> QED
      BY <1>2, <1>3, <1>5, <3>1
  <2>5. CASE ~broken /\ ~Store!Fits(trimmed) /\ again # trimmed /\ ~Store!Fits(again)
    <3>1. Store!writeEnvelope = Store!Result(FALSE, again, disk, Store!Disabled("quota"))
      BY <2>5 DEF Store!writeEnvelope
    <3> HIDE DEF trimmed, again, Good
    <3> QED
      BY <1>2, <1>4, <3>1
  <2> QED
    BY <2>1, <2>2, <2>3, <2>4, <2>5
<1> QED
  BY <1>7 DEF Told

\* A write, at a timer or when the page is hidden.
LEMMA WriteKeeps ==
  ASSUME Store!StoreInv, Store!Fire \/ Store!Flush
  PROVE  /\ Store!StoreInv'
         /\ Cut(env.scratch, env.active, env'.scratch)
         /\ Store!Gone(env, env') # {} /\ enabled' =>
              [kind |-> "evicted", names |-> Store!Gone(env, env')] \in notes'
<1> DEFINE r == Store!writeEnvelope
<1>1. /\ Store!EnvelopeIs(env, Store!now, edits) /\ Store!DiskIs(disk, Store!now, edits) /\ Store!CleanIsSaved
      /\ over \in BOOLEAN /\ timer \in BOOLEAN /\ dirty \in BOOLEAN /\ enabled \in BOOLEAN
      /\ broken \in BOOLEAN /\ edits \in 0..MaxEdits
  BY DEF Store!StoreInv
<1>2. /\ Store!EnvelopeIs(r.env, Store!now, edits) /\ Cut(env.scratch, env.active, r.env.scratch)
      /\ Store!DiskIs(r.disk, Store!now, edits) /\ r.ok \in BOOLEAN
      /\ r.ok => /\ r.disk.kind = "envelope"
                 /\ r.disk.env.scratch = r.env.scratch /\ r.disk.env.active = r.env.active
                 /\ r.disk.env.images \in {r.env.images, 0}
                 /\ Store!Gone(env, r.env) # {} =>
                      [kind |-> "evicted", names |-> Store!Gone(env, r.env)] \in r.note
      /\ ~r.ok => r.disk = disk
  BY <1>1, WriteResult
<1>3. /\ timer' = FALSE /\ env' = r.env /\ disk' = r.disk /\ notes' = r.note /\ enabled' = r.ok
      /\ dirty' = (~r.ok /\ (dirty \/ r.env # env))
      /\ over' = over /\ broken' = broken /\ edits' = edits
  BY DEF Store!Fire, Store!Flush, Store!Write, Store!EnabledAfter, Store!DirtyAfter, Store!storage
<1>4. Store!now' = Store!now
  BY <1>3 DEF Store!now
<1> HIDE DEF r
<1>5. Store!CleanIsSaved'
  <2> SUFFICES ASSUME ~dirty', disk'.kind = "envelope"
               PROVE  /\ Store!ToSet(disk'.env.scratch) = Store!ToSet(env'.scratch)
                      /\ disk'.env.active = env'.active /\ disk'.env.images \in {env'.images, 0}
    BY DEF Store!CleanIsSaved
  <2>1. CASE r.ok
    BY <1>2, <1>3, <2>1
  <2>2. CASE ~r.ok
    <3>1. ~dirty /\ env' = env /\ disk' = disk
      BY <1>2, <1>3, <2>2
    <3> QED
      BY <1>1, <3>1 DEF Store!CleanIsSaved
  <2> QED
    BY <2>1, <2>2
<1>6. Store!StoreInv'
  <2>1. Store!EnvelopeIs(env, Store!now, edits)' /\ Store!DiskIs(disk, Store!now, edits)'
    BY <1>2, <1>3, <1>4
  <2>2. (~r.ok /\ (dirty \/ r.env # env)) \in BOOLEAN
    OBVIOUS
  <2> QED
    BY <1>1, <1>2, <1>3, <1>5, <2>1, <2>2 DEF Store!StoreInv
<1> QED
  BY <1>2, <1>3, <1>6

\* What was there is there later.
LEMMA LaterIs ==
  ASSUME NEW t \in Nat, NEW m \in Nat, NEW t2 \in Nat, NEW m2 \in Nat, t <= t2, m <= m2
  PROVE  /\ \A list : Store!Listed(list, t, m) => Store!Listed(list, t2, m2)
         /\ \A e : Store!EnvelopeIs(e, t, m) => Store!EnvelopeIs(e, t2, m2)
         /\ \A d : Store!DiskIs(d, t, m) => Store!DiskIs(d, t2, m2)
<1>1. ASSUME NEW list, Store!Listed(list, t, m) PROVE Store!Listed(list, t2, m2)
  <2>1. ASSUME NEW i \in 1..Len(list) PROVE list[i].id <= m2 /\ list[i].updatedAt <= t2
    <3>1. list[i].id \in Nat /\ list[i].updatedAt \in Nat
      BY <1>1, ListTypes
    <3>2. list[i].id <= m /\ list[i].updatedAt <= t
      BY <1>1 DEF Store!Listed
    <3> QED
      BY <3>1, <3>2
  <2> QED
    BY <1>1, <2>1 DEF Store!Listed
<1>2. \A e : Store!EnvelopeIs(e, t, m) => Store!EnvelopeIs(e, t2, m2)
  BY <1>1 DEF Store!EnvelopeIs
<1>3. \A d : Store!DiskIs(d, t, m) => Store!DiskIs(d, t2, m2)
  BY <1>2 DEF Store!DiskIs
<1> QED
  BY <1>1, <1>2, <1>3

LEMMA ClockIs ==
  ASSUME Store!StoreInv
  PROVE  /\ edits \in Nat /\ Store!now \in Nat /\ Store!NextId = edits + 1 /\ edits + 1 \in Nat
         /\ Store!now <= (edits + 1) \div 2 /\ (edits + 1) \div 2 \in Nat
<1>1. edits \in Nat
  BY StoreAssumption DEF StoreAssumption, Store!StoreInv
<1>2. Store!now = edits \div 2
  BY DEF Store!now
<1>3. edits \div 2 \in Nat /\ (edits + 1) \div 2 \in Nat /\ edits \div 2 <= (edits + 1) \div 2
  BY <1>1
<1> QED
  BY <1>1, <1>2, <1>3 DEF Store!NextId

\* The time and the number of edits after a step of the reader.
Later == \/ edits' = edits
         \/ edits < MaxEdits /\ edits' = edits + 1

LEMMA LaterClock ==
  ASSUME Store!StoreInv, Later
  PROVE  /\ edits' \in 0..MaxEdits /\ edits' \in Nat /\ edits <= edits'
         /\ Store!now' \in Nat /\ Store!now <= Store!now'
<1>1. edits \in 0..MaxEdits /\ MaxEdits \in Nat
  BY StoreAssumption DEF StoreAssumption, Store!StoreInv
<1>2. edits' \in 0..MaxEdits /\ edits' \in Nat /\ edits <= edits'
  BY <1>1 DEF Later
<1>3. Store!now' = edits' \div 2
  BY DEF Store!now
<1>4. CASE edits' = edits
  BY <1>2, <1>3, <1>4, ClockIs DEF Store!now
<1>5. CASE edits' = edits + 1
  BY <1>2, <1>3, <1>5, ClockIs
<1> QED
  BY <1>2, <1>4, <1>5 DEF Later

\* What the reader does takes effect in memory, and the key may not have it.
LEMMA UpdateKeeps ==
  ASSUME Store!StoreInv, Later, NEW e, Store!Update(e), over' \in BOOLEAN,
         Store!EnvelopeIs(e, Store!now', edits')
  PROVE  Store!StoreInv'
<1>1. /\ Store!EnvelopeIs(env, Store!now, edits) /\ Store!DiskIs(disk, Store!now, edits)
      /\ enabled \in BOOLEAN /\ broken \in BOOLEAN
  BY DEF Store!StoreInv
<1>2. env' = e /\ dirty' = TRUE /\ timer' = enabled /\ enabled' = enabled /\ disk' = disk /\ broken' = broken
  BY DEF Store!Update, Store!storage
<1>3. edits' \in 0..MaxEdits
  BY LaterClock
<1>4. Store!DiskIs(disk, Store!now', edits')
  BY <1>1, ClockIs, LaterClock, LaterIs
<1>5. Store!CleanIsSaved'
  BY <1>2 DEF Store!CleanIsSaved
<1>6. Store!EnvelopeIs(env, Store!now, edits)' /\ Store!DiskIs(disk, Store!now, edits)'
  BY <1>2, <1>4
<1> QED
  BY <1>1, <1>2, <1>3, <1>5, <1>6 DEF Store!StoreInv

\* A list with a project more.
LEMMA AppendedIs ==
  ASSUME NEW t \in Nat, NEW m \in Nat, NEW t2 \in Nat, t <= t2, NEW list, Store!Listed(list, t, m),
         NEW p \in Store!Projects, p.id = m + 1, p.updatedAt <= t2
  PROVE  LET big == Append(list, p) IN
         /\ Store!Listed(big, t2, m + 1) /\ Len(big) = Len(list) + 1 /\ big[Len(big)] = p
         /\ \A i \in 1..Len(list) : big[i] = list[i]
         /\ Store!ToSet(list) \subseteq Store!ToSet(big) /\ p \in Store!ToSet(big)
<1> DEFINE big == Append(list, p)
<1>1. Store!Listed(list, t2, m + 1) /\ Len(list) \in Nat /\ list \in Seq(Store!Projects)
  <2>1. m + 1 \in Nat /\ m <= m + 1
    OBVIOUS
  <2>2. Store!Listed(list, t2, m + 1)
    BY <2>1, LaterIs
  <2>3. Len(list) \in Nat
    BY ListTypes
  <2> QED
    BY <2>2, <2>3 DEF Store!Listed
<1>2. /\ big \in Seq(Store!Projects) /\ Len(big) = Len(list) + 1 /\ big[Len(list) + 1] = p
      /\ \A i \in 1..Len(list) : big[i] = list[i]
  BY <1>1, AppendProperties
<1> HIDE DEF big
<1>3. \A i \in 1..Len(big) : i \in 1..Len(list) \/ i = Len(list) + 1
  BY <1>1, <1>2
<1>4. \A i \in 1..Len(list) : list[i].id \in Nat /\ list[i].id <= m
  BY ListTypes DEF Store!Listed
<1>5. \A i \in 1..Len(big) : big[i].id <= m + 1 /\ big[i].updatedAt <= t2
  BY <1>1, <1>2, <1>3 DEF Store!Listed
<1>6. ASSUME NEW i \in 1..Len(big), NEW j \in 1..Len(big), big[i].id = big[j].id PROVE i = j
  <2>1. CASE i \in 1..Len(list) /\ j \in 1..Len(list)
    BY <1>2, <1>6, <2>1 DEF Store!Listed
  <2>2. CASE i = Len(list) + 1 /\ j = Len(list) + 1
    BY <2>2
  <2>3. \A k \in 1..Len(list) : big[k].id # m + 1
    BY <1>2, <1>4
  <2> QED
    BY <1>2, <1>3, <1>6, <2>1, <2>2, <2>3
<1>7. Store!Listed(big, t2, m + 1)
  BY <1>2, <1>5, <1>6 DEF Store!Listed
<1>8. /\ Store!ToSet(list) = {list[i] : i \in 1..Len(list)}
      /\ Store!ToSet(big) = {big[i] : i \in 1..Len(big)}
  BY <1>7, ListTypes
<1>9. \A i \in 1..Len(list) : i \in 1..Len(big)
  BY <1>1, <1>2
<1>10. Len(list) + 1 \in 1..Len(big)
  BY <1>1, <1>2
<1> QED
  BY <1>2, <1>7, <1>8, <1>9, <1>10 DEF big

\* A project added, and one evicted when there are too many: the new one is not, and the
\* one to keep is not.
LEMMA AddedIs ==
  ASSUME Store!StoreInv, Later, edits' = edits + 1, NEW size \in 1..MaxSource, NEW keep
  PROVE  LET new == Store!Added(size, keep) IN
         /\ Store!Listed(new, Store!now', edits') /\ Len(new) <= MaxScratch
         /\ Store!NextId \in Store!Ids(new)
         /\ \A p \in Store!ToSet(env.scratch), q \in Store!ToSet(new) :
              p.id \notin Store!Ids(new) => p.updatedAt <= q.updatedAt \/ q.id = keep
<1> DEFINE list == env.scratch
           p == Store!Project(Store!NextId, size)
           big == Append(list, p)
           new == Store!Added(size, keep)
           t == Store!now'
           m == edits'
<1>1. /\ edits \in Nat /\ Store!now \in Nat /\ Store!NextId = edits + 1 /\ t \in Nat /\ m \in Nat
      /\ Store!now <= t /\ m = edits + 1
  BY ClockIs, LaterClock
<1>2. Store!Listed(list, Store!now, edits) /\ Len(list) <= MaxScratch /\ Len(list) \in Nat
  BY ListTypes DEF Store!StoreInv, Store!EnvelopeIs
<1>3. p \in Store!Projects /\ p.id = edits + 1 /\ p.updatedAt = Store!now
  <2>1. edits + 1 \in Nat \ {0}
    BY <1>1
  <2> QED
    BY <1>1, <2>1 DEF Store!Project, Store!Projects, Store!Example
<1> HIDE DEF p, t, m
<1>4. /\ Store!Listed(big, t, edits + 1) /\ Len(big) = Len(list) + 1 /\ big[Len(big)] = p
      /\ \A i \in 1..Len(list) : big[i] = list[i]
      /\ Store!ToSet(list) \subseteq Store!ToSet(big) /\ p \in Store!ToSet(big)
  <2>1. p.updatedAt <= t
    BY <1>1, <1>3
  <2> HIDE DEF list
  <2> QED
    BY <1>1, <1>2, <1>3, <2>1, AppendedIs
<1>5. MaxScratch \in Nat /\ MaxScratch >= 2
  BY StoreAssumption DEF StoreAssumption
<1>6. new = IF Len(big) > MaxScratch THEN Store!Without(big, keep, 1) ELSE big
  BY DEF Store!Added, Store!trimToMax, p
<1> HIDE DEF big, new, list
<1>7. CASE ~(Len(big) > MaxScratch)
  <2>1. new = big
    BY <1>6, <1>7
  <2>2. Len(big) <= MaxScratch
    BY <1>2, <1>4, <1>5, <1>7
  <2>3. /\ Store!ToSet(big) = {big[i] : i \in 1..Len(big)}
        /\ Store!Ids(big) = {big[i].id : i \in 1..Len(big)}
    BY <1>4, ListTypes
  <2>4. Store!NextId \in Store!Ids(big)
    BY <1>1, <1>3, <1>4, <2>3
  <2>5. \A x \in Store!ToSet(list) : x.id \in Store!Ids(big)
    BY <1>4, <2>3
  <2> QED
    BY <1>1, <1>4, <2>1, <2>2, <2>4, <2>5 DEF list, m, t, new
<1>8. CASE Len(big) > MaxScratch
  <2>1. new = Store!Without(big, keep, 1)
    BY <1>6, <1>8
  <2>2. Len(big) \in Nat /\ Len(big) >= 3 /\ Len(big) <= MaxScratch + 1
    BY <1>2, <1>4, <1>5, <1>8
  <2>3. PICK i \in 1..2 : big[i].id # keep
    <3>1. 1 \in 1..Len(big) /\ 2 \in 1..Len(big) /\ 1 # 2 /\ 1 \in 1..2 /\ 2 \in 1..2
      BY <2>2
    <3>2. big[1].id # big[2].id
      BY <1>4, <3>1 DEF Store!Listed
    <3> QED
      BY <3>1, <3>2
  <2>4. i \in 1..Len(big) /\ i < Len(big) /\ Len(big) \in 1..Len(big) /\ i \in 1..Len(list)
    BY <1>2, <1>4, <2>2
  <2>5. big[i].updatedAt <= big[Len(big)].updatedAt
    <3>1. list[i].updatedAt <= Store!now
      BY <1>2, <2>4 DEF Store!Listed
    <3> QED
      BY <1>3, <1>4, <2>4, <3>1
  <2> DEFINE cut == Store!Without(big, keep, 1)
  <2>6. /\ Store!Listed(cut, t, edits + 1) /\ Cut(big, keep, cut)
        /\ Len(cut) < Len(big) /\ big[Len(big)] \in Store!ToSet(cut)
    <3>1. 1 \in Nat
      OBVIOUS
    <3>2. /\ Store!Listed(cut, t, edits + 1) /\ Cut(big, keep, cut)
          /\ (\E k \in 1..Len(big) : big[k].id # keep) => Len(cut) < Len(big)
          /\ \A k \in 1..Len(big) :
               (\E j \in 1..Len(big) : j < k /\ big[j].id # keep /\ big[j].updatedAt <= big[k].updatedAt)
               => big[k] \in Store!ToSet(cut)
      BY <1>4, <3>1, WithoutIs
    <3> HIDE DEF cut
    <3> QED
      BY <2>3, <2>4, <2>5, <3>2
  <2> HIDE DEF cut
  <2>7. Len(cut) \in Nat /\ Len(cut) <= MaxScratch
    <3>1. Len(cut) \in Nat
      BY <2>6, ListTypes
    <3> QED
      BY <1>5, <2>2, <2>6, <3>1
  <2>8. Store!NextId \in Store!Ids(cut)
    <3>1. p.id \in Store!Ids(cut)
      BY <1>4, <2>6, ListTypes
    <3> QED
      BY <1>1, <1>3, <3>1
  <2>9. \A x \in Store!ToSet(list), q \in Store!ToSet(cut) :
          x.id \notin Store!Ids(cut) => x.updatedAt <= q.updatedAt \/ q.id = keep
    BY <1>4, <2>6 DEF Cut
  <2>10. new = cut
    BY <2>1 DEF cut
  <2> QED
    BY <1>1, <2>6, <2>7, <2>8, <2>9, <2>10 DEF list, m, t, new
<1> QED
  BY <1>7, <1>8

\* Edits of a project change neither its place nor whose it is.
LEMMA TypeKeeps ==
  ASSUME Store!StoreInv, NEW size \in 1..MaxSource, Store!Type(size)
  PROVE  Store!StoreInv'
<1> DEFINE list == env.scratch
           new == Store!Touched(env.active, size)
           e == [env EXCEPT !.scratch = new]
<1>1. Store!EnvelopeIs(env, Store!now, edits)
  BY DEF Store!StoreInv
<1>2. /\ Store!Listed(list, Store!now, edits) /\ Len(list) <= MaxScratch /\ Len(list) \in Nat
      /\ DOMAIN list = 1..Len(list) /\ list \in Seq(Store!Projects)
  BY <1>1, ListTypes DEF Store!EnvelopeIs, Store!Listed
<1>3. Later
  BY DEF Store!Type, Store!Edits, Later
<1>4. Store!now \in Nat /\ Store!now' \in Nat /\ Store!now <= Store!now' /\ edits \in Nat /\ edits' \in Nat
      /\ edits <= edits'
  BY <1>3, ClockIs, LaterClock
<1>5. new = [i \in 1..Len(list) |-> IF list[i].id = env.active
                                    THEN [list[i] EXCEPT !.size = size, !.updatedAt = Store!now] ELSE list[i]]
  BY <1>2 DEF Store!Touched
<1>6. ASSUME NEW i \in 1..Len(list)
      PROVE  new[i] \in Store!Projects /\ new[i].id = list[i].id /\ new[i].updatedAt <= Store!now
  <2>1. list[i] \in Store!Projects /\ list[i].updatedAt <= Store!now
    BY <1>2 DEF Store!Listed
  <2>2. CASE list[i].id = env.active
    <3>1. new[i] = [list[i] EXCEPT !.size = size, !.updatedAt = Store!now]
      BY <1>5, <2>2
    <3> DEFINE q == list[i]
    <3>2. q \in [id : Nat \ {Store!Example}, size : 1..MaxSource, updatedAt : Nat]
      BY <2>1 DEF Store!Projects
    <3>3. ASSUME NEW clock \in Nat
          PROVE  /\ [q EXCEPT !.size = size, !.updatedAt = clock]
                      \in [id : Nat \ {Store!Example}, size : 1..MaxSource, updatedAt : Nat]
                 /\ [q EXCEPT !.size = size, !.updatedAt = clock].id = q.id
                 /\ [q EXCEPT !.size = size, !.updatedAt = clock].updatedAt = clock
      <4> HIDE DEF q
      <4> QED
        BY <3>2
    <3>4. Store!now <= Store!now
      BY <1>4
    <3> QED
      BY <1>4, <3>1, <3>3, <3>4 DEF Store!Projects
  <2>3. CASE list[i].id # env.active
    <3>1. new[i] = list[i]
      BY <1>5, <2>3
    <3> QED
      BY <2>1, <3>1
  <2> QED
    BY <2>2, <2>3
<1>7. new \in Seq(Store!Projects) /\ Len(new) = Len(list)
  <2> HIDE DEF new, list
  <2>1. new \in [1..Len(list) -> Store!Projects]
    BY <1>5, <1>6
  <2>2. DOMAIN new = 1..Len(list)
    BY <1>5
  <2> QED
    BY <1>2, <2>1, <2>2
<1> HIDE DEF new
<1>8. Store!Listed(new, Store!now, edits)
  BY <1>2, <1>6, <1>7 DEF Store!Listed
<1>9. Store!Ids(new) = Store!Ids(list)
  <2>3. Store!Ids(new) = {new[i].id : i \in 1..Len(new)}
    BY <1>8, ListTypes
  <2>4. Store!Ids(list) = {list[i].id : i \in 1..Len(list)}
    BY <1>2, ListTypes
  <2>1. Store!Ids(new) = {new[i].id : i \in 1..Len(list)} /\ Store!Ids(list) = {list[i].id : i \in 1..Len(list)}
    BY <1>7, <2>3, <2>4
  <2> HIDE DEF list
  <2> QED
    BY <1>6, <2>1
<1>10. Store!EnvelopeIs(e, Store!now, edits)
  <2>1. /\ env \in [scratch : Seq(Store!Projects), active : Nat, images : Images]
        /\ env.active \in Store!Ids(list) \cup {Store!Example}
    BY <1>1 DEF Store!EnvelopeIs
  <2>2. /\ e \in [scratch : Seq(Store!Projects), active : Nat, images : Images]
        /\ e.scratch = new /\ e.active = env.active
    BY <1>7, <2>1
  <2> HIDE DEF e
  <2> QED
    BY <1>2, <1>7, <1>8, <1>9, <2>1, <2>2 DEF Store!EnvelopeIs
<1>11. Store!EnvelopeIs(e, Store!now', edits')
  BY <1>4, <1>10, LaterIs
<1>12. Store!Update(e) /\ over' = FALSE
  BY DEF Store!Type, new
<1> HIDE DEF e
<1> QED
  BY <1>3, <1>11, <1>12, UpdateKeeps

\* An edit over the cap is not in the envelope.
LEMMA TypeOverKeeps ==
  ASSUME Store!StoreInv, Store!TypeOver
  PROVE  Store!StoreInv'
<1>1. Later /\ Store!Update(env) /\ over' \in BOOLEAN
  BY DEF Store!TypeOver, Store!Edits, Later
<1>2. Store!EnvelopeIs(env, Store!now, edits)
  BY DEF Store!StoreInv
<1>3. Store!EnvelopeIs(env, Store!now', edits')
  BY <1>1, <1>2, ClockIs, LaterClock, LaterIs
<1> QED
  BY <1>1, <1>3, UpdateKeeps

\* A project more, in which the reader then is.
LEMMA AddKeeps ==
  ASSUME Store!StoreInv, Store!Edits, NEW size \in 1..MaxSource, NEW keep, NEW pictures \in Images,
         Store!Update([scratch |-> Store!Added(size, keep), active |-> Store!NextId, images |-> pictures]),
         over' \in BOOLEAN
  PROVE  /\ Store!StoreInv'
         /\ \A p \in Store!ToSet(env.scratch), q \in Store!ToSet(env'.scratch) :
              p.id \notin Store!Ids(env'.scratch) => p.updatedAt <= q.updatedAt \/ q.id = keep
<1> DEFINE new == Store!Added(size, keep)
           e == [scratch |-> new, active |-> Store!NextId, images |-> pictures]
<1>1. Later /\ edits' = edits + 1
  BY DEF Store!Edits, Later
<1>2. /\ Store!Listed(new, Store!now', edits') /\ Len(new) <= MaxScratch
      /\ Store!NextId \in Store!Ids(new)
      /\ \A p \in Store!ToSet(env.scratch), q \in Store!ToSet(new) :
           p.id \notin Store!Ids(new) => p.updatedAt <= q.updatedAt \/ q.id = keep
  BY <1>1, AddedIs
<1>3. Store!NextId \in Nat /\ Store!Update(e)
  BY ClockIs
<1> HIDE DEF new
<1>4. e.scratch = new /\ e.active = Store!NextId /\ env' = e
  BY <1>3 DEF Store!Update
<1>5. e \in [scratch : Seq(Store!Projects), active : Nat, images : Images]
  BY <1>2, <1>3 DEF Store!Listed
<1> HIDE DEF e
<1>6. Store!EnvelopeIs(e, Store!now', edits')
  BY <1>2, <1>4, <1>5 DEF Store!EnvelopeIs
<1>7. Store!StoreInv'
  BY <1>1, <1>3, <1>6, UpdateKeeps
<1> QED
  BY <1>2, <1>4, <1>7

LEMMA ForkKeeps ==
  ASSUME Store!StoreInv, NEW size \in 1..MaxSource, Store!Fork(size)
  PROVE  Store!StoreInv'
<1>1. PICK pictures \in Store!Grown :
        Store!Update([scratch |-> Store!Added(size, Store!Example), active |-> Store!NextId, images |-> pictures])
  BY DEF Store!Fork
<1>2. pictures \in Images
  BY DEF Store!Grown
<1>3. Store!Edits /\ over' \in BOOLEAN
  BY DEF Store!Fork
<1> QED
  BY <1>1, <1>2, <1>3, AddKeeps

LEMMA NewProjectKeeps ==
  ASSUME Store!StoreInv, Store!NewProject
  PROVE  /\ Store!StoreInv'
         /\ \A p \in Store!ToSet(env.scratch), q \in Store!ToSet(env'.scratch) :
              p.id \notin Store!Ids(env'.scratch) => p.updatedAt <= q.updatedAt \/ q.id = env.active
<1> DEFINE new == Store!Added(1, env.active)
           e == [scratch |-> new, active |-> Store!NextId, images |-> env.images]
<1>1. env \in [scratch : Seq(Store!Projects), active : Nat, images : Images]
  BY DEF Store!StoreInv, Store!EnvelopeIs
<1>2. 1 \in 1..MaxSource /\ env.images \in Images
  BY <1>1, StoreAssumption DEF StoreAssumption
<1>3. [env EXCEPT !.scratch = new, !.active = Store!NextId] = e
  <2>1. ASSUME NEW a, NEW b, NEW S, NEW T, NEW r \in [scratch : S, active : T, images : Images]
        PROVE  [r EXCEPT !.scratch = a, !.active = b] = [scratch |-> a, active |-> b, images |-> r.images]
    <3> DEFINE x == [r EXCEPT !.scratch = a, !.active = b]
               y == [scratch |-> a, active |-> b, images |-> r.images]
    <3>1. x = [f \in DOMAIN r |-> IF f = "active" THEN b ELSE IF f = "scratch" THEN a ELSE r[f]]
      OBVIOUS
    <3>2. DOMAIN r = {"scratch", "active", "images"}
      OBVIOUS
    <3>3. y = [f \in {"scratch", "active", "images"} |-> IF f = "active" THEN b ELSE IF f = "scratch" THEN a ELSE r[f]]
      OBVIOUS
    <3> QED
      BY <3>1, <3>2, <3>3
  <2> QED
    BY <1>1, <2>1
<1>4. Store!Edits /\ Store!Update(e) /\ over' \in BOOLEAN
  BY <1>3 DEF Store!NewProject
<1> QED
  BY <1>2, <1>4, AddKeeps

LEMMA DuplicateKeeps ==
  ASSUME Store!StoreInv, NEW i \in DOMAIN env.scratch, Store!duplicateScratch(i)
  PROVE  Store!StoreInv'
<1> DEFINE size == env.scratch[i].size
<1>1. PICK pictures \in Store!Grown :
        Store!Update([scratch |-> Store!Added(size, Store!NextId), active |-> Store!NextId, images |-> pictures])
  BY DEF Store!duplicateScratch
<1>2. pictures \in Images
  BY DEF Store!Grown
<1>3. Store!Edits /\ over' \in BOOLEAN
  BY DEF Store!duplicateScratch
<1>4. size \in 1..MaxSource
  BY ListTypes DEF Store!StoreInv, Store!EnvelopeIs
<1> HIDE DEF size
<1> QED
  BY <1>1, <1>2, <1>3, <1>4, AddKeeps

\* Another project is opened, or a shipped circuit.
LEMMA OpenKeeps ==
  ASSUME Store!StoreInv, NEW id \in Store!Ids(env.scratch) \cup {Store!Example}, Store!Open(id)
  PROVE  Store!StoreInv'
<1> DEFINE e == [env EXCEPT !.active = id]
<1>1. Store!EnvelopeIs(env, Store!now, edits)
  BY DEF Store!StoreInv
<1>2. /\ env \in [scratch : Seq(Store!Projects), active : Nat, images : Images]
      /\ Store!Listed(env.scratch, Store!now, edits) /\ Len(env.scratch) <= MaxScratch
  BY <1>1 DEF Store!EnvelopeIs
<1>3. id \in Nat
  <2>1. ASSUME id \in Store!Ids(env.scratch) PROVE id \in Nat
    BY <1>2, <2>1, ListTypes
  <2> QED
    BY <2>1 DEF Store!Example
<1>4. /\ e \in [scratch : Seq(Store!Projects), active : Nat, images : Images]
      /\ e.scratch = env.scratch /\ e.active = id
  BY <1>2, <1>3
<1>5. Store!Update(e) /\ over' = FALSE /\ Later
  BY DEF Store!Open, Later
<1> HIDE DEF e
<1>6. Store!EnvelopeIs(e, Store!now, edits)
  BY <1>2, <1>4 DEF Store!EnvelopeIs
<1>7. Store!EnvelopeIs(e, Store!now', edits')
  BY <1>5, <1>6, ClockIs, LaterClock, LaterIs
<1> QED
  BY <1>5, <1>7, UpdateKeeps

\* A project is removed; the others stay.
LEMMA DeleteKeeps ==
  ASSUME Store!StoreInv, NEW i \in DOMAIN env.scratch, Store!deleteScratch(i)
  PROVE  Store!StoreInv'
<1> DEFINE list == env.scratch
           id == list[i].id
           I == DOMAIN list \ {i}
           new == Store!Picked(list, I)
           act2 == IF env.active = id THEN Store!Example ELSE env.active
<1>1. /\ env \in [scratch : Seq(Store!Projects), active : Nat, images : Images]
      /\ Store!Listed(list, Store!now, edits) /\ Len(list) <= MaxScratch
      /\ env.active \in Store!Ids(list) \cup {Store!Example}
  BY DEF Store!StoreInv, Store!EnvelopeIs
<1>2. Len(list) \in Nat /\ DOMAIN list = 1..Len(list) /\ list \in Seq(Store!Projects)
      /\ Store!Ids(list) = {list[k].id : k \in 1..Len(list)}
  BY <1>1, ListTypes
<1>3. I \in SUBSET (1..Len(list))
  BY <1>2
<1> HIDE DEF I
<1>4. PICK at : Part(Store!Projects, list, I, new, at)
  BY <1>2, <1>3, PickedIs
<1> HIDE DEF new
<1>5. /\ Store!Listed(new, Store!now, edits) /\ Len(new) <= Len(list)
      /\ Store!Ids(new) = {list[k].id : k \in I}
  BY <1>1, <1>3, <1>4, PartIsListed
<1>6. Len(new) <= MaxScratch
  <2>1. Len(new) \in Nat /\ MaxScratch \in Nat
    BY <1>5, ListTypes, StoreAssumption DEF StoreAssumption
  <2> QED
    BY <1>1, <1>2, <1>5, <2>1
<1>7. act2 \in Store!Ids(new) \cup {Store!Example} /\ act2 \in Nat
  <2>1. CASE env.active = id \/ env.active = Store!Example
    BY <2>1 DEF Store!Example
  <2>2. CASE env.active # id /\ env.active \in Store!Ids(list)
    <3>1. PICK k \in 1..Len(list) : env.active = list[k].id
      BY <1>2, <2>2
    <3>2. k # i
      BY <2>2, <3>1
    <3>3. k \in I
      BY <1>2, <3>2 DEF I
    <3> QED
      BY <1>1, <1>5, <2>2, <3>1, <3>3
  <2> QED
    BY <1>1, <2>1, <2>2
<1> HIDE DEF act2
<1>8. PICK pictures \in {n \in Images : n <= env.images} :
        Store!Update([scratch |-> new, images |-> pictures, active |-> act2])
  BY DEF Store!deleteScratch, new, I, act2
<1>9. over' \in BOOLEAN /\ Later
  <2>1. over' = (over /\ env.active # env.scratch[i].id) /\ edits' = edits
    BY DEF Store!deleteScratch
  <2> QED
    BY <2>1 DEF Later
<1> DEFINE e == [scratch |-> new, images |-> pictures, active |-> act2]
<1>10. /\ e \in [scratch : Seq(Store!Projects), active : Nat, images : Images]
       /\ e.scratch = new /\ e.active = act2
  BY <1>5, <1>7 DEF Store!Listed
<1>11. Store!Update(e)
  BY <1>8
<1> HIDE DEF e
<1>12. Store!EnvelopeIs(e, Store!now, edits)
  BY <1>5, <1>6, <1>7, <1>10 DEF Store!EnvelopeIs
<1>13. Store!EnvelopeIs(e, Store!now', edits')
  BY <1>9, <1>12, ClockIs, LaterClock, LaterIs
<1> QED
  BY <1>9, <1>11, <1>13, UpdateKeeps

LEMMA SetImagesKeeps ==
  ASSUME Store!StoreInv, NEW n \in Images, Store!SetImages(n)
  PROVE  Store!StoreInv'
<1> DEFINE e == [env EXCEPT !.images = n]
<1>1. /\ env \in [scratch : Seq(Store!Projects), active : Nat, images : Images]
      /\ Store!Listed(env.scratch, Store!now, edits) /\ Len(env.scratch) <= MaxScratch
      /\ env.active \in Store!Ids(env.scratch) \cup {Store!Example}
  BY DEF Store!StoreInv, Store!EnvelopeIs
<1>2. /\ e \in [scratch : Seq(Store!Projects), active : Nat, images : Images]
      /\ e.scratch = env.scratch /\ e.active = env.active
  BY <1>1
<1>3. Store!Update(e) /\ over' = over /\ Later
  BY DEF Store!SetImages, Later
<1> HIDE DEF e
<1>4. Store!EnvelopeIs(e, Store!now, edits)
  BY <1>1, <1>2 DEF Store!EnvelopeIs
<1>5. Store!EnvelopeIs(e, Store!now', edits')
  BY <1>3, <1>4, ClockIs, LaterClock, LaterIs
<1>6. over' \in BOOLEAN
  BY <1>3 DEF Store!StoreInv
<1> QED
  BY <1>3, <1>5, <1>6, UpdateKeeps

\* What a load makes of an envelope that a write left: its projects in another order.
LEMMA NormalizeIs ==
  ASSUME NEW t, NEW m, NEW e, Store!EnvelopeIs(e, t, m)
  PROVE  LET x == Store!normalize(e) IN
         /\ Store!EnvelopeIs(x, t, m) /\ Store!ToSet(x.scratch) = Store!ToSet(e.scratch)
         /\ x.active = e.active /\ x.images = e.images
<1> DEFINE list == e.scratch
           I == {i \in DOMAIN list : list[i].size <= MaxSource}
           R == {p \in I \X I : \/ Store!Newer(list[p[1]], list[p[2]])
                                \/ list[p[1]].updatedAt = list[p[2]].updatedAt /\ p[1] < p[2]}
           new == Store!Arranged(list, I, R)
           kept == SubSeq(new, 1, IF Len(new) < MaxScratch THEN Len(new) ELSE MaxScratch)
           act2 == IF e.active \in Store!Ids(kept) THEN e.active ELSE Store!Example
           x == Store!normalize(e)
<1>1. /\ e \in [scratch : Seq(Store!Projects), active : Nat, images : Images]
      /\ Store!Listed(list, t, m) /\ Len(list) <= MaxScratch
      /\ e.active \in Store!Ids(list) \cup {Store!Example}
  BY DEF Store!EnvelopeIs
<1>2. /\ Len(list) \in Nat /\ DOMAIN list = 1..Len(list) /\ list \in Seq(Store!Projects)
      /\ \A i \in 1..Len(list) : list[i].size \in 1..MaxSource /\ list[i].size \in Nat /\ list[i].updatedAt \in Nat
      /\ Store!ToSet(list) = {list[i] : i \in 1..Len(list)}
      /\ Store!Ids(list) = {list[i].id : i \in 1..Len(list)}
  BY <1>1, ListTypes DEF Store!Listed
<1>3. MaxSource \in Nat /\ MaxScratch \in Nat
  BY StoreAssumption DEF StoreAssumption
<1>4. I = 1..Len(list)
  BY <1>2, <1>3
<1>5. \A i, j \in I : /\ i \in Nat /\ j \in Nat /\ list[i].updatedAt \in Nat /\ list[j].updatedAt \in Nat
                      /\ <<i, j>> \in R <=> \/ list[i].updatedAt > list[j].updatedAt
                                            \/ list[i].updatedAt = list[j].updatedAt /\ i < j
  BY <1>2, <1>4 DEF Store!Newer
<1>6. x = [e EXCEPT !.scratch = kept, !.active = act2]
  BY DEF Store!normalize, Store!Sorted
<1> HIDE DEF I, R, x
<1>7. Orders(R, I)
  <2>1. \A i \in I : <<i, i>> \notin R
    BY <1>5
  <2>2. ASSUME NEW i \in I, NEW j \in I, NEW k \in I, <<i, j>> \in R, <<j, k>> \in R PROVE <<i, k>> \in R
    BY <1>5, <2>2
  <2>3. ASSUME NEW i \in I, NEW j \in I PROVE i = j \/ <<i, j>> \in R \/ <<j, i>> \in R
    <3>0. i \in Nat /\ j \in Nat /\ list[i].updatedAt \in Nat /\ list[j].updatedAt \in Nat
      BY <1>5
    <3>1. \/ list[i].updatedAt > list[j].updatedAt \/ list[j].updatedAt > list[i].updatedAt
          \/ list[i].updatedAt = list[j].updatedAt
      BY <3>0
    <3>2. i < j \/ j < i \/ i = j
      BY <3>0
    <3> QED
      BY <1>5, <3>1, <3>2
  <2> QED
    BY <2>1, <2>2, <2>3 DEF Orders
<1>8. I \in SUBSET (1..Len(list))
  BY <1>4
<1>9. PICK at : Part(Store!Projects, list, I, new, at)
  BY <1>2, <1>7, <1>8, ArrangedIs
<1> HIDE DEF new
<1>10. /\ Store!Listed(new, t, m) /\ Len(new) = Cardinality(I)
       /\ Store!ToSet(new) = {list[i] : i \in I} /\ Store!Ids(new) = {list[i].id : i \in I}
  BY <1>1, <1>8, <1>9, PartIsListed
<1>11. Len(new) = Len(list) /\ new \in Seq(Store!Projects)
       /\ Store!ToSet(new) = Store!ToSet(list) /\ Store!Ids(new) = Store!Ids(list)
  <2>1. Cardinality(1..Len(list)) = Len(list)
    BY <1>2, UpToFinite
  <2> QED
    BY <1>2, <1>4, <1>10, <2>1 DEF Store!Listed
<1>12. kept = new
  <2>1. (IF Len(new) < MaxScratch THEN Len(new) ELSE MaxScratch) = Len(new)
    BY <1>1, <1>2, <1>3, <1>11
  <2>2. SubSeq(new, 1, Len(new)) = new
    BY <1>11, SubSeqFull
  <2> QED
    BY <2>1, <2>2
<1> HIDE DEF kept
<1>13. act2 = e.active
  BY <1>1, <1>11, <1>12
<1> HIDE DEF act2
<1>14. /\ x \in [scratch : Seq(Store!Projects), active : Nat, images : Images]
       /\ x.scratch = new /\ x.active = e.active /\ x.images = e.images
  BY <1>1, <1>6, <1>11, <1>12, <1>13
<1>15. Store!EnvelopeIs(x, t, m)
  BY <1>1, <1>10, <1>11, <1>14 DEF Store!EnvelopeIs
<1> QED
  BY <1>11, <1>14, <1>15 DEF x

LEMMA FirstEnvelope ==
  ASSUME NEW t, NEW m
  PROVE  Store!EnvelopeIs(Store!defaultEnvelope, t, m)
<1> DEFINE none == <<>>
<1>1. none \in Seq(Store!Projects) /\ Len(none) = 0 /\ 1..Len(none) = {}
  OBVIOUS
<1>2. MaxScratch \in Nat /\ 0 \in Images
  BY StoreAssumption DEF StoreAssumption
<1>3. /\ Store!defaultEnvelope.scratch = none /\ Store!defaultEnvelope.active = 0
      /\ Store!defaultEnvelope.images = 0
      /\ Store!defaultEnvelope = [scratch |-> none, active |-> 0, images |-> 0]
  BY DEF Store!defaultEnvelope, Store!Example
<1> HIDE DEF none
<1>4. Store!defaultEnvelope \in [scratch : Seq(Store!Projects), active : Nat, images : Images]
  BY <1>1, <1>2, <1>3
<1>5. Store!Listed(none, t, m)
  BY <1>1 DEF Store!Listed
<1>6. Len(none) <= MaxScratch
  BY <1>1, <1>2
<1> QED
  BY <1>3, <1>4, <1>5, <1>6 DEF Store!EnvelopeIs, Store!Example

LEMMA DiskKinds ==
  ASSUME NEW t, NEW m, NEW d, Store!DiskIs(d, t, m)
  PROVE  /\ d.kind = "envelope" => Store!EnvelopeIs(d.env, t, m) /\ Store!Bytes(d.env) <= MaxEnvelope
         /\ d.kind \in {"none", "garbled", "envelope"}
<1>1. Store!NoDisk.kind = "none" /\ Store!Garbled.kind = "garbled"
  BY DEF Store!NoDisk, Store!Garbled
<1>2. \A e : Store!OnDisk(e).kind = "envelope"
  BY DEF Store!OnDisk
<1> QED
  BY <1>1, <1>2 DEF Store!DiskIs

\* A load.
LEMMA ReloadKeeps ==
  ASSUME Store!StoreInv, Store!Reload
  PROVE  /\ Store!StoreInv'
         /\ ~dirty /\ ~broken /\ disk.kind = "envelope" =>
              /\ Store!ToSet(env'.scratch) = Store!ToSet(env.scratch) /\ env'.active = env.active
              /\ env'.images \in {env.images, 0}
<1>1. /\ Store!EnvelopeIs(env, Store!now, edits) /\ Store!DiskIs(disk, Store!now, edits) /\ Store!CleanIsSaved
      /\ broken \in BOOLEAN /\ edits \in 0..MaxEdits
  BY DEF Store!StoreInv
<1>2. /\ env' = Store!readEnvelope /\ over' = FALSE /\ enabled' = ~broken /\ timer' = ~broken
      /\ dirty' = (broken \/ disk.kind # "envelope")
      /\ disk' = disk /\ broken' = broken /\ edits' = edits
  BY DEF Store!Reload, Store!storage
<1>3. Store!now' = Store!now
  BY <1>2 DEF Store!now
<1>4. ASSUME ~broken, disk.kind = "envelope"
      PROVE  /\ Store!EnvelopeIs(env', Store!now, edits) /\ Store!ToSet(env'.scratch) = Store!ToSet(disk.env.scratch)
             /\ env'.active = disk.env.active /\ env'.images = disk.env.images
  <2>1. Store!EnvelopeIs(disk.env, Store!now, edits)
    BY <1>1, <1>4, DiskKinds
  <2>2. env' = Store!normalize(disk.env)
    BY <1>2, <1>4 DEF Store!readEnvelope
  <2> QED
    BY <2>1, <2>2, NormalizeIs
<1>5. ASSUME broken \/ disk.kind # "envelope" PROVE Store!EnvelopeIs(env', Store!now, edits)
  <2>1. env' = Store!defaultEnvelope
    BY <1>2, <1>5 DEF Store!readEnvelope
  <2> QED
    BY <2>1, FirstEnvelope
<1>6. Store!EnvelopeIs(env, Store!now, edits)' /\ Store!DiskIs(disk, Store!now, edits)'
  BY <1>1, <1>2, <1>3, <1>4, <1>5
<1>7. Store!CleanIsSaved'
  BY <1>2, <1>4 DEF Store!CleanIsSaved
<1>8. Store!StoreInv'
  <2>1. over' \in BOOLEAN /\ timer' \in BOOLEAN /\ dirty' \in BOOLEAN /\ enabled' \in BOOLEAN /\ broken' \in BOOLEAN
        /\ edits' \in 0..MaxEdits
    BY <1>1, <1>2
  <2> QED
    BY <1>6, <1>7, <2>1 DEF Store!StoreInv
<1>9. ASSUME ~dirty, ~broken, disk.kind = "envelope"
      PROVE  /\ Store!ToSet(env'.scratch) = Store!ToSet(env.scratch) /\ env'.active = env.active
             /\ env'.images \in {env.images, 0}
  BY <1>1, <1>4, <1>9 DEF Store!CleanIsSaved
<1> QED
  BY <1>8, <1>9

\* Others fill the origin's storage, break it, and empty or garble the key.
LEMMA StorageKeeps ==
  ASSUME Store!StoreInv, Store!StorageChanges
  PROVE  Store!StoreInv'
<1>1. /\ Store!EnvelopeIs(env, Store!now, edits) /\ Store!DiskIs(disk, Store!now, edits) /\ Store!CleanIsSaved
      /\ over \in BOOLEAN /\ timer \in BOOLEAN /\ dirty \in BOOLEAN /\ enabled \in BOOLEAN
      /\ broken \in BOOLEAN /\ edits \in 0..MaxEdits
  BY DEF Store!StoreInv
<1>2. env' = env /\ over' = over /\ dirty' = dirty /\ timer' = timer /\ enabled' = enabled /\ edits' = edits
  BY DEF Store!StorageChanges
<1>3. Store!now' = Store!now
  BY <1>2 DEF Store!now
<1>4. /\ broken' \in BOOLEAN
      /\ disk' = disk \/ disk' = Store!NoDisk \/ disk' = Store!Garbled
  BY <1>1 DEF Store!StorageChanges, Store!storage
<1>5. Store!DiskIs(disk', Store!now, edits)
  BY <1>1, <1>4 DEF Store!DiskIs
<1>6. Store!CleanIsSaved'
  <2>1. CASE disk' = disk
    BY <1>1, <1>2, <2>1 DEF Store!CleanIsSaved
  <2>2. CASE disk' = Store!NoDisk \/ disk' = Store!Garbled
    <3>1. disk'.kind # "envelope"
      BY <2>2 DEF Store!NoDisk, Store!Garbled
    <3> QED
      BY <3>1 DEF Store!CleanIsSaved
  <2> QED
    BY <1>4, <2>1, <2>2
<1>7. Store!EnvelopeIs(env, Store!now, edits)' /\ Store!DiskIs(disk, Store!now, edits)'
  BY <1>1, <1>2, <1>3, <1>5
<1> QED
  BY <1>1, <1>2, <1>4, <1>6, <1>7 DEF Store!StoreInv

LEMMA StoreStarts ==
  ASSUME Store!Init
  PROVE  Store!StoreInv
<1>1. /\ env = Store!defaultEnvelope /\ over = FALSE /\ dirty = FALSE /\ timer = FALSE /\ enabled = TRUE
      /\ disk = Store!NoDisk /\ broken = FALSE /\ edits = 0
  BY DEF Store!Init
<1>2. edits \in 0..MaxEdits
  BY <1>1, StoreAssumption DEF StoreAssumption
<1>3. Store!EnvelopeIs(env, Store!now, edits)
  BY <1>1, FirstEnvelope
<1>4. Store!DiskIs(disk, Store!now, edits)
  BY <1>1 DEF Store!DiskIs
<1>5. Store!CleanIsSaved
  BY <1>1 DEF Store!CleanIsSaved, Store!NoDisk
<1> QED
  BY <1>1, <1>2, <1>3, <1>4, <1>5 DEF Store!StoreInv

LEMMA StoreKeeps ==
  ASSUME Store!StoreInv, Store!Next
  PROVE  Store!StoreInv'
<1>1. CASE \E size \in 1..MaxSource : Store!Type(size) \/ Store!Fork(size)
  BY <1>1, TypeKeeps, ForkKeeps
<1>2. CASE Store!TypeOver \/ Store!NewProject
  BY <1>2, TypeOverKeeps, NewProjectKeeps
<1>3. CASE \E i \in DOMAIN env.scratch :
             Store!duplicateScratch(i) \/ Store!deleteScratch(i) \/ Store!Open(env.scratch[i].id)
  <2>1. PICK i \in DOMAIN env.scratch :
             Store!duplicateScratch(i) \/ Store!deleteScratch(i) \/ Store!Open(env.scratch[i].id)
    BY <1>3
  <2>2. env.scratch[i].id \in Store!Ids(env.scratch)
    BY DEF Store!Ids
  <2> QED
    BY <2>1, <2>2, DuplicateKeeps, DeleteKeeps, OpenKeeps
<1>4. CASE Store!Open(Store!Example)
  BY <1>4, OpenKeeps
<1>5. CASE \E n \in Images : Store!SetImages(n)
  BY <1>5, SetImagesKeeps
<1>6. CASE Store!Fire \/ Store!Flush \/ Store!Reload
  BY <1>6, WriteKeeps, ReloadKeeps
<1>7. CASE Store!StorageChanges
  BY <1>7, StorageKeeps
<1> QED
  BY <1>1, <1>2, <1>3, <1>4, <1>5, <1>6, <1>7 DEF Store!Next

\* What the invariant says of memory and of the key.
LEMMA StoreGives ==
  Store!StoreInv => Store!TypeOK /\ Store!ActiveIsThere /\ Store!DiskFits
<1> SUFFICES ASSUME Store!StoreInv PROVE Store!TypeOK /\ Store!ActiveIsThere /\ Store!DiskFits
  OBVIOUS
<1>1. /\ Store!EnvelopeIs(env, Store!now, edits) /\ Store!DiskIs(disk, Store!now, edits)
      /\ over \in BOOLEAN /\ timer \in BOOLEAN /\ dirty \in BOOLEAN /\ enabled \in BOOLEAN
      /\ edits \in 0..MaxEdits
  BY DEF Store!StoreInv
<1>2. ASSUME NEW e, Store!EnvelopeIs(e, Store!now, edits)
      PROVE  Store!EnvelopeOK(e) /\ e.active \in Store!Ids(e.scratch) \cup {Store!Example}
  <2>1. /\ e \in [scratch : Seq(Store!Projects), active : Nat, images : Images]
        /\ Store!Listed(e.scratch, Store!now, edits) /\ Len(e.scratch) <= MaxScratch
        /\ e.active \in Store!Ids(e.scratch) \cup {Store!Example}
    BY <1>2 DEF Store!EnvelopeIs
  <2>2. DOMAIN e.scratch = 1..Len(e.scratch) /\ \A i \in 1..Len(e.scratch) : e.scratch[i].size \in 1..MaxSource
    BY <2>1, ListTypes
  <2> QED
    BY <2>1, <2>2 DEF Store!EnvelopeOK, Store!Listed
<1>3. disk.kind = "envelope" => Store!EnvelopeIs(disk.env, Store!now, edits) /\ Store!Bytes(disk.env) <= MaxEnvelope
  BY <1>1, DiskKinds
<1>4. disk.kind \in {"none", "garbled", "envelope"}
  BY <1>1, DiskKinds
<1> QED
  BY <1>1, <1>2, <1>3, <1>4 DEF Store!TypeOK, Store!ActiveIsThere, Store!DiskFits

\* What a step may never do.
LEMMA StepsSave ==
  ASSUME Store!StoreInv
  PROVE  Store!EvictsTheOldest /\ Store!EvictionIsTold /\ Store!SavedIsReloaded
<1>1. Store!EvictsTheOldest
  <2> SUFFICES ASSUME NEW p \in Store!ToSet(env.scratch), NEW q \in Store!ToSet(env'.scratch),
                      Store!Fire \/ Store!Flush \/ Store!NewProject, p.id \notin Store!Ids(env'.scratch)
               PROVE  p.updatedAt <= q.updatedAt \/ q.id = env.active
    BY DEF Store!EvictsTheOldest
  <2>1. CASE Store!Fire \/ Store!Flush
    BY <2>1, WriteKeeps DEF Cut
  <2>2. CASE Store!NewProject
    BY <2>2, NewProjectKeeps
  <2> QED
    BY <2>1, <2>2
<1>2. Store!EvictionIsTold
  BY WriteKeeps DEF Store!EvictionIsTold
<1>3. Store!SavedIsReloaded
  BY ReloadKeeps DEF Store!SavedIsReloaded
<1> QED
  BY <1>1, <1>2, <1>3

\* In a run about the storage, its invariant holds.
StoreHolds == component = "store" => Store!StoreInv
StoreShown == component = "store" => Store!TypeOK /\ Store!ActiveIsThere /\ Store!DiskFits

\* However the reader edits, forks, makes, copies, opens and removes projects, and whatever
\* room the storage of playground-store.ts has, whether it throws, is emptied or garbled: the
\* project the reader is in is never evicted, nor one before another left alone longer; what
\* is written fits, an eviction is told, and a load brings back what was written.
THEOREM SavesWhatItCan == Spec => SavingKeeps
<1>1. Init => StoreHolds
  BY StoreStarts DEF Init, StoreHolds
<1>2. StoreHolds /\ [Next]_vars => StoreHolds'
  <2> SUFFICES ASSUME StoreHolds, [Next]_vars, component' = "store" PROVE Store!StoreInv'
    BY DEF StoreHolds
  <2>1. CASE UNCHANGED vars
    <3>1. component = "store" /\ Store!StoreInv /\ storeVars' = storeVars
      BY <2>1 DEF StoreHolds, vars
    <3> QED
      BY <3>1 DEF Store!StoreInv, storeVars, Store!now, Store!CleanIsSaved
  <2>2. CASE Next
    <3>1. component = "store" /\ Store!Next /\ Store!StoreInv
      BY <2>2 DEF Next, StoreHolds
    <3> QED
      BY <3>1, StoreKeeps
  <2> QED
    BY <2>1, <2>2
<1>3. StoreHolds => StoreShown
  BY StoreGives DEF StoreHolds, StoreShown
<1>4. StoreHolds /\ StoreShown' /\ [Next]_vars => [component = "store" => Store!SavingKeeps]_storeVars
  <2> SUFFICES ASSUME StoreHolds, StoreShown', [Next]_vars, component = "store", storeVars' # storeVars
               PROVE  Store!SavingKeeps
    OBVIOUS
  <2>1. component' = component
    BY DEF Next, vars
  <2>2. Store!TypeOK' /\ Store!ActiveIsThere' /\ Store!DiskFits'
    BY <2>1 DEF StoreShown
  <2>3. Store!StoreInv
    BY DEF StoreHolds
  <2> QED
    BY <2>2, <2>3, StepsSave DEF Store!SavingKeeps
<1> QED
  BY <1>1, <1>2, <1>3, <1>4, PTL DEF Spec, SavingKeeps

-----------------------------------------------------------------------------
(* What a link opens *)

\* What an id stands for: a circuit of the catalogue, or a project of the list.
StandsFor(id, list, text) ==
  \/ \E c \in Page!buildCatalogue : c.id = id /\ c.text = text
  \/ \E i \in 1..Len(list) : list[i].id = id /\ list[i].text = text

LEMMA FirstIs == Page!First \in {1, 2}
<1> DEFINE Before(i, j) == Page!Tier(i) < Page!Tier(j) \/ (Page!Tier(i) = Page!Tier(j) /\ i <= j)
<1>1. DOMAIN Page!Examples = {1, 2} /\ Page!Examples[1].level = "advanced" /\ Page!Examples[2].level = "intro"
  BY DEF Page!Examples
<1>2. /\ DOMAIN Page!GroupOfLevel = {1, 2, 3}
      /\ Page!GroupOfLevel[1] = "intro" /\ Page!GroupOfLevel[2] = "medium" /\ Page!GroupOfLevel[3] = "advanced"
  BY DEF Page!GroupOfLevel
<1>3. Page!Tier(1) = 3
  BY <1>1, <1>2 DEF Page!Tier
<1>4. Page!Tier(2) = 1
  BY <1>1, <1>2 DEF Page!Tier
<1>5. \A j \in {1, 2} : Before(2, j)
  BY <1>3, <1>4
<1>6. \E i \in DOMAIN Page!Examples : \A j \in DOMAIN Page!Examples : Before(i, j)
  BY <1>1, <1>5
<1>7. Page!First \in DOMAIN Page!Examples
  BY <1>6 DEF Page!First
<1> QED
  BY <1>1, <1>7

LEMMA CatalogueIs ==
  /\ \A c \in Page!buildCatalogue : /\ c.id.kind \in {"example", "tour"} /\ c.text \in {"alu", "gate", "first"}
                                    /\ \A d \in Page!buildCatalogue : c.id = d.id => c.text = d.text
  /\ \E c \in Page!buildCatalogue : c.id = Page!DefaultId /\ c.text = Page!Rendered
  /\ Page!Rendered \in {"alu", "gate"}
<1>1. DOMAIN Page!Examples = {1, 2} /\ Page!Examples[1].slug = "alu" /\ Page!Examples[2].slug = "gate"
  BY DEF Page!Examples
<1>2. DOMAIN Page!Tour = {1} /\ Page!Tour[1] = "first"
  BY DEF Page!Tour
<1>3. Page!buildCatalogue = {[id |-> Page!ExampleId("alu"), text |-> "alu"], [id |-> Page!ExampleId("gate"), text |-> "gate"],
                             [id |-> Page!Id("tour", Page!None, 1), text |-> "first"]}
  BY <1>1, <1>2 DEF Page!buildCatalogue
<1>4. \A c \in Page!buildCatalogue :
        \/ c.id = Page!ExampleId("alu") /\ c.text = "alu"
        \/ c.id = Page!ExampleId("gate") /\ c.text = "gate"
        \/ c.id = Page!Id("tour", Page!None, 1) /\ c.text = "first"
  BY <1>3
<1>5. Page!ExampleId("alu").kind = "example" /\ Page!ExampleId("gate").kind = "example"
      /\ Page!Id("tour", Page!None, 1).kind = "tour" /\ Page!ExampleId("alu") # Page!ExampleId("gate")
  BY DEF Page!ExampleId, Page!Id
<1>6. \A c \in Page!buildCatalogue : c.id.kind \in {"example", "tour"} /\ c.text \in {"alu", "gate", "first"}
  BY <1>4, <1>5
<1>7. \A c, d \in Page!buildCatalogue : c.id = d.id => c.text = d.text
  BY <1>4, <1>5
<1>8. Page!Rendered \in {"alu", "gate"} /\ Page!DefaultId = Page!ExampleId(Page!Rendered)
  BY <1>1, FirstIs DEF Page!Rendered, Page!DefaultId
<1>9. \E c \in Page!buildCatalogue : c.id = Page!DefaultId /\ c.text = Page!Rendered
  BY <1>3, <1>8
<1> QED
  BY <1>6, <1>7, <1>8, <1>9

LEMMA ListTypesOf ==
  ASSUME NEW n, NEW list, Page!ListIs(list, n)
  PROVE  /\ Len(list) \in Nat /\ DOMAIN list = 1..Len(list) /\ list \in Seq(Page!Projects)
         /\ \A i \in 1..Len(list) : /\ list[i] \in Page!Projects /\ list[i].id.kind = "scratch" /\ list[i].id.number \in Nat
                                    /\ list[i].text \in Page!AllTexts \ Large
<1>1. list \in Seq(Page!Projects)
  BY DEF Page!ListIs
<1>2. \A p \in Page!Projects : p.id.kind = "scratch" /\ p.id.number \in Nat /\ p.text \in Page!AllTexts \ Large
  BY DEF Page!Projects
<1>3. Len(list) \in Nat /\ DOMAIN list = 1..Len(list) /\ \A i \in 1..Len(list) : list[i] \in Page!Projects
  BY <1>1
<1> QED
  BY <1>1, <1>2, <1>3

\* resolveSource() finds what an id stands for, and an id stands for one text.
LEMMA ResolveIs ==
  ASSUME NEW n, NEW list, Page!ListIs(list, n), NEW id
  PROVE  /\ \A text : text \in Page!resolveSource(id, list) <=> StandsFor(id, list, text)
         /\ \A text, other : StandsFor(id, list, text) /\ StandsFor(id, list, other) => text = other
         /\ \A text : StandsFor(id, list, text) => text \in Page!AllTexts
<1>1. /\ Len(list) \in Nat /\ DOMAIN list = 1..Len(list)
      /\ \A i \in 1..Len(list) : list[i].id.kind = "scratch" /\ list[i].text \in Page!AllTexts \ Large
  BY ListTypesOf
<1>2. \A i, j \in 1..Len(list) : list[i].id = list[j].id => i = j
  BY DEF Page!ListIs
<1>3. \A c \in Page!buildCatalogue : \A i \in 1..Len(list) : c.id # list[i].id
  BY <1>1, CatalogueIs
<1>4. \A text, other : StandsFor(id, list, text) /\ StandsFor(id, list, other) => text = other
  BY <1>2, <1>3, CatalogueIs DEF StandsFor
<1>5. \A text : StandsFor(id, list, text) => text \in Page!AllTexts
  BY <1>1, CatalogueIs DEF StandsFor, Page!AllTexts
<1> DEFINE item == {c.text : c \in {x \in Page!buildCatalogue : x.id = id}}
           own == {i \in DOMAIN list : list[i].id = id}
           mine == {list[i].text : i \in {k \in own : \A m \in own : k <= m}}
<1>6. Page!resolveSource(id, list) = IF item # {} THEN item ELSE mine
  BY DEF Page!resolveSource
<1>7. \A text : text \in item <=> \E c \in Page!buildCatalogue : c.id = id /\ c.text = text
  OBVIOUS
<1>8. \A text : text \in mine <=> \E i \in 1..Len(list) : list[i].id = id /\ list[i].text = text
  <2>1. \A k \in own : k \in 1..Len(list) /\ list[k].id = id
    BY <1>1
  <2>2. \A k \in 1..Len(list) : list[k].id = id => k \in own
    BY <1>1
  <2>3. \A k, m \in own : k <= m
    BY <1>1, <1>2, <2>1
  <2>4. {k \in own : \A m \in own : k <= m} = own
    BY <2>3
  <2>5. mine = {list[k].text : k \in own}
    BY <2>4
  <2> HIDE DEF own, mine
  <2> QED
    BY <2>1, <2>2, <2>5
<1>9. item # {} => ~\E i \in 1..Len(list) : list[i].id = id
  BY <1>3
<1> HIDE DEF item, mine, own
<1>10. \A text : text \in Page!resolveSource(id, list) <=> StandsFor(id, list, text)
  <2>1. CASE item # {}
    BY <1>6, <1>7, <1>9, <2>1 DEF StandsFor
  <2>2. CASE item = {}
    <3>1. \A text : text \notin item
      BY <2>2
    <3>2. Page!resolveSource(id, list) = mine
      BY <1>6, <2>2
    <3> QED
      BY <1>7, <1>8, <3>1, <3>2 DEF StandsFor
  <2> QED
    BY <2>1, <2>2
<1> QED
  BY <1>4, <1>5, <1>10

NameIs == [base : {"silly", "copy", "Untitled"}, numbers : Seq(Nat)]

\* A new project's name is free, for no more names are taken than there are projects.
LEMMA UniqueNameIs ==
  ASSUME NEW n \in Nat, n < MaxVisits, NEW list, Page!ListIs(list, n), NEW name \in NameIs
  PROVE  /\ Page!uniqueName(name, Page!NamesOf(list)) \in NameIs
         /\ Page!uniqueName(name, Page!NamesOf(list)) \notin Page!NamesOf(list)
<1> DEFINE candidate(k) == [base |-> name.base, numbers |-> Append(name.numbers, k)]
           taken == Page!NamesOf(list)
           free == {k \in 2..(MaxVisits + 2) : candidate(k) \notin taken}
           S == 2..(MaxVisits + 2)
           T == 1..Len(list)
<1>1. Len(list) \in Nat /\ DOMAIN list = T /\ Len(list) <= n /\ MaxVisits \in Nat
  BY ListTypesOf, OpeningAssumption DEF OpeningAssumption, Page!ListIs
<1>2. \A k \in Nat : candidate(k) \in NameIs /\ candidate(k).numbers = Append(name.numbers, k)
  <2> SUFFICES ASSUME NEW k \in Nat PROVE candidate(k) \in NameIs /\ candidate(k).numbers = Append(name.numbers, k)
    OBVIOUS
  <2>1. Append(name.numbers, k) \in Seq(Nat) /\ name.base \in {"silly", "copy", "Untitled"}
    BY DEF NameIs
  <2> QED
    BY <2>1 DEF NameIs
<1>3. \A k, m \in Nat : candidate(k) = candidate(m) => k = m
  <2> SUFFICES ASSUME NEW k \in Nat, NEW m \in Nat, candidate(k) = candidate(m) PROVE k = m
    OBVIOUS
  <2>1. name.numbers \in Seq(Nat)
    BY DEF NameIs
  <2>2. Append(name.numbers, k) = Append(name.numbers, m)
    BY <1>2
  <2>3. Append(name.numbers, k)[Len(name.numbers) + 1] = k /\ Append(name.numbers, m)[Len(name.numbers) + 1] = m
    BY <2>1
  <2> QED
    BY <2>2, <2>3
<1>4. free # {}
  <2> SUFFICES ASSUME free = {} PROVE FALSE
    OBVIOUS
  <2>1. \A k \in S : \E i \in T : list[i].name = candidate(k)
    <3>1. \A k \in S : candidate(k) \in taken
      OBVIOUS
    <3>2. taken = {list[i].name : i \in T}
      BY <1>1 DEF Page!NamesOf
    <3> HIDE DEF taken, candidate, T
    <3> QED
      BY <3>1, <3>2
  <2> DEFINE f == [k \in S |-> CHOOSE i \in T : list[i].name = candidate(k)]
  <2> HIDE DEF candidate, taken, free
  <2>2. \A k \in S : f[k] \in T /\ list[f[k]].name = candidate(k)
    BY <2>1
  <2>3. f \in [S -> T]
    BY <2>2
  <2>4. IsFiniteSet(S) /\ Cardinality(S) = MaxVisits + 1
    <3>1. 2 \in Int /\ MaxVisits + 2 \in Int /\ ~(2 > MaxVisits + 2) /\ (MaxVisits + 2) - 2 + 1 = MaxVisits + 1
      BY <1>1
    <3> QED
      BY <3>1, FS_Interval
  <2>5. IsFiniteSet(T) /\ Cardinality(T) = Len(list)
    <3>1. 1 \in Int /\ Len(list) \in Int /\ (1 > Len(list) <=> Len(list) = 0) /\ Len(list) - 1 + 1 = Len(list)
      BY <1>1
    <3> QED
      BY <3>1, FS_Interval
  <2>6. Cardinality(T) < Cardinality(S)
    BY <1>1, <2>4, <2>5
  <2> HIDE DEF f
  <2>7. \E k, m \in S : k # m /\ f[k] = f[m]
    <3> HIDE DEF S, T
    <3> QED
      BY <2>3, <2>4, <2>5, <2>6, FS_PigeonHole
  <2>8. \A k \in S : k \in Nat
    BY <1>1
  <2> QED
    BY <1>3, <2>2, <2>7, <2>8
<1>5. \E k \in free : \A m \in free : k <= m
  <2>1. free \in SUBSET Nat
    BY <1>1
  <2> HIDE DEF free
  <2> QED
    BY <1>4, <2>1, LeastOne
<1>6. (CHOOSE k \in free : \A m \in free : k <= m) \in free
  BY <1>5
<1>7. \A k \in free : k \in Nat /\ candidate(k) \notin taken
  BY <1>1
<1>8. Page!uniqueName(name, taken)
        = IF name \notin taken THEN name ELSE candidate(CHOOSE k \in free : \A m \in free : k <= m)
  BY DEF Page!uniqueName
<1> HIDE DEF candidate, free, taken
<1> QED
  BY <1>2, <1>6, <1>7, <1>8 DEF taken

\* What createScratch() makes, and the list with it.
LEMMA CreateIs ==
  ASSUME visits \in Nat, visits < MaxVisits, Page!ListIs(scratch, visits),
         NEW name \in NameIs, NEW text \in Page!AllTexts, NEW p \in Page!createScratch(scratch, name, text)
  PROVE  /\ p.text = text /\ p.name \notin Page!NamesOf(scratch)
         /\ \A i \in 1..Len(scratch) : scratch[i].id # p.id
         /\ Page!ListIs(Append(scratch, p), visits + 1)
         /\ \A id, other : StandsFor(id, scratch, other) => StandsFor(id, Append(scratch, p), other)
         /\ StandsFor(p.id, Append(scratch, p), text)
<1> DEFINE unique == Page!uniqueName(name, Page!NamesOf(scratch))
<1>1. unique \in NameIs /\ unique \notin Page!NamesOf(scratch)
  BY UniqueNameIs
<1> HIDE DEF unique
<1>2. text \notin Large /\ p = [id |-> Page!Id("scratch", Page!None, visits), name |-> unique, text |-> text]
  BY DEF Page!createScratch, Page!newScratchId, unique
<1>3. p.id = Page!Id("scratch", Page!None, visits) /\ p.id.number = visits
  BY <1>2 DEF Page!Id
<1>4. p \in Page!Projects
  BY <1>1, <1>2 DEF Page!Projects, Page!Id, NameIs
<1>5. /\ Len(scratch) \in Nat /\ Len(scratch) <= visits /\ scratch \in Seq(Page!Projects)
      /\ \A i \in 1..Len(scratch) : scratch[i].id.number < visits /\ scratch[i].id.number \in Nat
      /\ \A i, j \in 1..Len(scratch) : scratch[i].id = scratch[j].id => i = j
  BY ListTypesOf DEF Page!ListIs
<1>6. \A i \in 1..Len(scratch) : scratch[i].id # p.id
  BY <1>3, <1>5
<1> DEFINE more == Append(scratch, p)
<1>7. /\ more \in Seq(Page!Projects) /\ Len(more) = Len(scratch) + 1 /\ more[Len(scratch) + 1] = p
      /\ \A i \in 1..Len(scratch) : more[i] = scratch[i] /\ i \in 1..Len(more)
  BY <1>4, <1>5
<1>8. \A i \in 1..Len(more) : i \in 1..Len(scratch) \/ i = Len(scratch) + 1
  BY <1>5, <1>7
<1> HIDE DEF more
<1>9. Page!ListIs(more, visits + 1)
  <2>1. Len(more) <= visits + 1
    BY <1>5, <1>7
  <2>2. \A i \in 1..Len(more) : more[i].id.number < visits + 1
    BY <1>3, <1>5, <1>7, <1>8
  <2>3. \A i, j \in 1..Len(more) : more[i].id = more[j].id => i = j
    BY <1>5, <1>6, <1>7, <1>8
  <2> QED
    BY <1>7, <2>1, <2>2, <2>3 DEF Page!ListIs
<1>10. \A id, other : StandsFor(id, scratch, other) => StandsFor(id, more, other)
  BY <1>7 DEF StandsFor
<1>11. StandsFor(p.id, more, text)
  <2>1. Len(scratch) + 1 \in 1..Len(more) /\ p.text = text
    BY <1>2, <1>5, <1>7
  <2> QED
    BY <1>7, <2>1 DEF StandsFor
<1> QED
  BY <1>1, <1>2, <1>6, <1>9, <1>10, <1>11 DEF more

\* loadProject() shows what the id stands for.
LEMMA LoadIs ==
  ASSUME NEW n, NEW list, Page!ListIs(list, n), NEW id, Page!Load(id, list)
  PROVE  current' = {id} /\ StandsFor(id, list, shown') /\ shown' \in Page!AllTexts
BY ResolveIs DEF Page!Load

\* What must hold of the projects, the one that is active and the text that is shown.
ShownIs(n, list, open, text) ==
  /\ Page!ListIs(list, n) /\ \A id, other \in open : id = other
  /\ \A id \in open : /\ \E other : StandsFor(id, list, other)
                      /\ text \in Large \/ StandsFor(id, list, text)
  /\ text \in Page!AllTexts

\* The page as the invariant has it, when the reader is on it.
LEMMA HereIs ==
  ASSUME Page!PageInv, ready
  PROVE  ShownIs(visits, scratch, current, shown)
<1>1. /\ Page!ListIs(scratch, visits) /\ \A id, other \in current : id = other
      /\ \A id \in current : shown \in Large \/ shown \in Page!resolveSource(id, scratch)
      /\ shown \in Page!AllTexts
  BY DEF Page!PageInv, Page!ActiveIs, Page!EditorShowsTheProject
<1>2. \A id \in current : \E other : StandsFor(id, scratch, other)
  BY <1>1, ResolveIs DEF Page!PageInv, Page!ActiveIs
<1> QED
  BY <1>1, <1>2, ResolveIs DEF ShownIs

LEMMA ShownGives ==
  ASSUME NEW n, NEW list, NEW open, NEW text, ShownIs(n, list, open, text)
  PROVE  /\ Page!ListIs(list, n) /\ Page!ActiveIs(open, list) /\ text \in Page!AllTexts
         /\ \A id \in open : text \in Large \/ text \in Page!resolveSource(id, list)
BY ResolveIs DEF ShownIs, Page!ActiveIs

LEMMA LaterList ==
  ASSUME NEW n \in Nat, NEW list, Page!ListIs(list, n)
  PROVE  Page!ListIs(list, n + 1)
<1>1. /\ list \in Seq(Page!Projects) /\ Len(list) <= n /\ Len(list) \in Nat
      /\ \A i \in 1..Len(list) : list[i].id.number < n /\ list[i].id.number \in Nat
      /\ \A i, j \in 1..Len(list) : list[i].id = list[j].id => i = j
  BY ListTypesOf DEF Page!ListIs
<1>2. Len(list) <= n + 1 /\ \A i \in 1..Len(list) : list[i].id.number < n + 1
  BY <1>1
<1> QED
  BY <1>1, <1>2 DEF Page!ListIs

\* A list whose projects keep their ids in their places.
LEMMA ChangedIs ==
  ASSUME NEW n \in Nat, NEW list, Page!ListIs(list, n), NEW new, DOMAIN new = DOMAIN list,
         \A i \in DOMAIN list : new[i] \in Page!Projects /\ new[i].id = list[i].id,
         new = [i \in DOMAIN list |-> new[i]]
  PROVE  Page!ListIs(new, n) /\ Len(new) = Len(list)
<1>1. /\ list \in Seq(Page!Projects) /\ Len(list) <= n /\ Len(list) \in Nat /\ DOMAIN list = 1..Len(list)
      /\ \A i \in 1..Len(list) : list[i].id.number < n
      /\ \A i, j \in 1..Len(list) : list[i].id = list[j].id => i = j
  BY ListTypesOf DEF Page!ListIs
<1>2. new \in Seq(Page!Projects) /\ Len(new) = Len(list)
  BY <1>1
<1> QED
  BY <1>1, <1>2 DEF Page!ListIs

LEMMA ProjectIs ==
  ASSUME NEW p \in Page!Projects
  PROVE  /\ \A text \in Page!AllTexts \ Large :
               /\ [p EXCEPT !.text = text] \in Page!Projects
               /\ [p EXCEPT !.text = text].id = p.id /\ [p EXCEPT !.text = text].text = text
         /\ \A name \in NameIs :
               /\ [p EXCEPT !.name = name] \in Page!Projects
               /\ [p EXCEPT !.name = name].id = p.id /\ [p EXCEPT !.name = name].text = p.text
         /\ p.name \in NameIs /\ p.text \in Page!AllTexts
BY DEF Page!Projects, NameIs

LEMMA SameNames ==
  ASSUME \A i \in DOMAIN scratch' : \E k \in DOMAIN scratch : scratch[k].id = scratch'[i].id
  PROVE  Page!NewNamesAreFree
BY DEF Page!NewNamesAreFree

\* A project is made beside the others, and is the one that is active.
LEMMA MadeIs ==
  ASSUME visits \in Nat, visits < MaxVisits, Page!ListIs(scratch, visits), visits' = visits + 1,
         NEW name \in NameIs, NEW text \in Page!AllTexts, NEW p \in Page!createScratch(scratch, name, text),
         scratch' = Append(scratch, p), current' = {p.id}, shown' = text
  PROVE  ShownIs(visits', scratch', current', shown') /\ Page!NewNamesAreFree
<1>1. /\ p.name \notin Page!NamesOf(scratch) /\ Page!ListIs(scratch', visits') /\ StandsFor(p.id, scratch', text)
  BY CreateIs
<1>2. /\ DOMAIN scratch = 1..Len(scratch) /\ Len(scratch) \in Nat /\ scratch \in Seq(Page!Projects)
      /\ DOMAIN scratch' = 1..Len(scratch')
  BY <1>1, ListTypesOf
<1>3. p \in Page!Projects
  <2>1. scratch' \in Seq(Page!Projects) /\ scratch' = scratch \o <<p>>
    BY <1>1, <1>2, ListTypesOf DEF Page!ListIs
  <2>2. Len(scratch') = Len(scratch) + 1
    BY <1>2
  <2>3. scratch'[Len(scratch) + 1] = p /\ Len(scratch) + 1 \in 1..Len(scratch')
    BY <1>2, <2>2
  <2> QED
    BY <2>1, <2>3
<1>4. Page!NewNamesAreFree
  <2> SUFFICES ASSUME NEW i \in DOMAIN scratch', \A k \in DOMAIN scratch : scratch[k].id # scratch'[i].id
               PROVE  scratch'[i].name \notin Page!NamesOf(scratch)
    BY DEF Page!NewNamesAreFree
  <2>1. CASE i \in 1..Len(scratch)
    BY <1>2, <2>1
  <2>2. CASE i = Len(scratch) + 1
    <3>1. scratch'[i] = p
      BY <1>2, <1>3, <2>2
    <3> QED
      BY <1>1, <3>1
  <2>3. i \in 1..Len(scratch) \/ i = Len(scratch) + 1
    BY <1>2, <1>3
  <2> QED
    BY <2>1, <2>2, <2>3
<1> QED
  BY <1>1, <1>4 DEF ShownIs

LEMMA StepIs ==
  ASSUME Page!PageInv, Page!Step
  PROVE  visits \in Nat /\ visits < MaxVisits /\ visits' = visits + 1 /\ visits' \in 0..MaxVisits
<1>1. visits \in 0..MaxVisits /\ MaxVisits \in Nat
  BY OpeningAssumption DEF OpeningAssumption, Page!PageInv
<1> QED
  BY <1>1 DEF Page!Step

LEMMA BaseNames ==
  \A base \in {"silly", "copy", "Untitled"} : Page!Name(base) \in NameIs
<1>1. <<>> \in Seq(Nat)
  OBVIOUS
<1>2. \A base \in {"silly", "copy", "Untitled"} : [base |-> base, numbers |-> <<>>] \in NameIs
  BY <1>1 DEF NameIs
<1> QED
  BY <1>2 DEF Page!Name

\* An edit is kept by the project it is of, or by a copy of the circuit.
LEMMA TypeIs ==
  ASSUME Page!PageInv, Page!Type
  PROVE  ShownIs(visits', scratch', current', shown') /\ Page!NewNamesAreFree
<1>1. PICK text \in Typeable : shown' = text /\ Page!Persist(text)
  BY DEF Page!Type
<1>2. Page!Step /\ ready
  BY DEF Page!Type, Page!Here
<1>3. visits \in Nat /\ visits < MaxVisits /\ visits' = visits + 1
  BY <1>2, StepIs
<1>4. ShownIs(visits, scratch, current, shown) /\ Page!ListIs(scratch, visits)
  BY <1>2, HereIs DEF ShownIs
<1>5. text \in Page!AllTexts
  BY DEF Page!AllTexts
<1>6. CASE text \in Large
  <2>1. scratch' = scratch /\ current' = current
    BY <1>1, <1>6 DEF Page!Persist, Page!touchScratch, Page!createScratch
  <2>2. Page!ListIs(scratch', visits')
    BY <1>3, <1>4, <2>1, LaterList
  <2>3. Page!NewNamesAreFree
    BY <2>1, SameNames
  <2> QED
    BY <1>1, <1>4, <1>5, <1>6, <2>1, <2>2, <2>3 DEF ShownIs
<1>7. CASE text \notin Large /\ \E id \in {i \in current : Page!idKind(i) = "scratch"} :
             scratch' = Page!touchScratch(scratch, id, text) /\ UNCHANGED current
  <2>1. PICK id \in current : /\ Page!idKind(id) = "scratch" /\ current' = current
                              /\ scratch' = Page!touchScratch(scratch, id, text)
    BY <1>7
  <2>2. scratch' = [i \in DOMAIN scratch |-> IF scratch[i].id = id THEN [scratch[i] EXCEPT !.text = text] ELSE scratch[i]]
    BY <1>7, <2>1 DEF Page!touchScratch
  <2>3. /\ DOMAIN scratch = 1..Len(scratch) /\ \A i \in DOMAIN scratch : scratch[i] \in Page!Projects
    BY <1>4, ListTypesOf
  <2>4. \A i \in DOMAIN scratch : /\ scratch'[i] \in Page!Projects /\ scratch'[i].id = scratch[i].id
                                  /\ scratch[i].id = id => scratch'[i].text = text
    <3> SUFFICES ASSUME NEW i \in DOMAIN scratch
                 PROVE  /\ scratch'[i] \in Page!Projects /\ scratch'[i].id = scratch[i].id
                        /\ scratch[i].id = id => scratch'[i].text = text
      OBVIOUS
    <3>1. scratch'[i] = IF scratch[i].id = id THEN [scratch[i] EXCEPT !.text = text] ELSE scratch[i]
      BY <2>2
    <3> QED
      BY <1>5, <1>7, <2>3, <3>1, ProjectIs
  <2>5. DOMAIN scratch' = DOMAIN scratch /\ scratch' = [i \in DOMAIN scratch |-> scratch'[i]]
    BY <2>2
  <2>6. Page!ListIs(scratch', visits) /\ Len(scratch') = Len(scratch)
    BY <1>3, <1>4, <2>4, <2>5, ChangedIs
  <2>7. Page!ListIs(scratch', visits')
    BY <1>3, <2>6, LaterList
  <2>8. StandsFor(id, scratch', text)
    <3>1. PICK other : StandsFor(id, scratch, other)
      BY <1>4, <2>1, ResolveIs DEF Page!PageInv, Page!ActiveIs
    <3>2. \A c \in Page!buildCatalogue : c.id # id
      <4>1. id.kind = "scratch"
        BY <2>1 DEF Page!idKind, Page!None
      <4> QED
        BY <4>1, CatalogueIs
    <3>3. PICK i \in 1..Len(scratch) : scratch[i].id = id
      BY <3>1, <3>2 DEF StandsFor
    <3> QED
      BY <2>3, <2>4, <2>6, <3>3 DEF StandsFor
  <2>9. \A other \in current' : other = id
    BY <1>4, <2>1 DEF ShownIs
  <2>10. Page!NewNamesAreFree
    BY <2>4, <2>5, SameNames
  <2> QED
    BY <1>1, <1>5, <2>7, <2>8, <2>9, <2>10 DEF ShownIs
<1>8. CASE text \notin Large /\ \E p \in Page!createScratch(scratch, Page!Name("copy"), text) :
             scratch' = Append(scratch, p) /\ current' = {p.id}
  BY <1>1, <1>3, <1>4, <1>5, <1>8, MadeIs, BaseNames
<1>9. text \notin Large => Page!createScratch(scratch, Page!Name("copy"), text) # {}
  BY DEF Page!createScratch
<1> QED
  BY <1>1, <1>6, <1>7, <1>8, <1>9 DEF Page!Persist

\* A project is made and loaded.
LEMMA MadeAndLoaded ==
  ASSUME Page!PageInv, Page!Step, NEW name \in NameIs, NEW text \in Page!AllTexts,
         NEW p \in Page!createScratch(scratch, name, text),
         scratch' = Append(scratch, p), Page!Load(p.id, scratch')
  PROVE  /\ ShownIs(visits', scratch', current', shown') /\ Page!NewNamesAreFree
         /\ shown' = text /\ current' # current /\ Len(scratch') = Len(scratch) + 1
<1>1. visits \in Nat /\ visits < MaxVisits /\ visits' = visits + 1
  BY StepIs
<1>2. Page!ListIs(scratch, visits)
  BY DEF Page!PageInv
<1>3. Page!ListIs(scratch', visits + 1) /\ StandsFor(p.id, scratch', text)
  BY <1>1, <1>2, CreateIs
<1>4. current' = {p.id} /\ shown' = text
  BY <1>3, LoadIs, ResolveIs
<1>5. current' # current
  <2> SUFFICES ASSUME p.id \in current PROVE FALSE
    BY <1>4
  <2>1. PICK other : StandsFor(p.id, scratch, other)
    BY <1>2, ResolveIs DEF Page!PageInv, Page!ActiveIs
  <2>2. \A i \in 1..Len(scratch) : scratch[i].id # p.id
    BY <1>1, <1>2, CreateIs
  <2>3. p.id.kind = "scratch"
    BY DEF Page!createScratch, Page!newScratchId, Page!Id
  <2> QED
    BY <2>1, <2>2, <2>3, CatalogueIs DEF StandsFor
<1>6. Len(scratch') = Len(scratch) + 1
  BY <1>2, ListTypesOf
<1> QED
  BY <1>1, <1>2, <1>4, <1>5, <1>6, MadeIs

LEMMA NewProjectIs ==
  ASSUME Page!PageInv, Page!newProject
  PROVE  ShownIs(visits', scratch', current', shown') /\ Page!NewNamesAreFree
<1> DEFINE name == Page!uniqueName(Page!Name("Untitled"), Page!NamesOf(scratch))
<1>1. Page!Step /\ ready
  BY DEF Page!newProject, Page!Here
<1>2. name \in NameIs
  BY <1>1, StepIs, BaseNames, UniqueNameIs DEF Page!PageInv
<1>3. PICK p \in Page!createScratch(scratch, name, Page!NewText) : scratch' = Append(scratch, p) /\ Page!Load(p.id, scratch')
  BY DEF Page!newProject
<1>4. Page!NewText \in Page!AllTexts
  BY DEF Page!AllTexts
<1> HIDE DEF name
<1> QED
  BY <1>1, <1>2, <1>3, <1>4, MadeAndLoaded

LEMMA DuplicateIs ==
  ASSUME Page!PageInv, Page!duplicateScratch
  PROVE  ShownIs(visits', scratch', current', shown') /\ Page!NewNamesAreFree
<1>1. Page!Step /\ ready
  BY DEF Page!duplicateScratch, Page!Here
<1>2. PICK i \in DOMAIN scratch : \E p \in Page!createScratch(scratch, scratch[i].name, scratch[i].text) :
          scratch' = Append(scratch, p) /\ Page!Load(p.id, scratch')
  BY DEF Page!duplicateScratch
<1>3. scratch[i] \in Page!Projects
  BY <1>2, ListTypesOf DEF Page!PageInv
<1>4. scratch[i].name \in NameIs /\ scratch[i].text \in Page!AllTexts
  BY <1>3, ProjectIs
<1> QED
  BY <1>1, <1>2, <1>4, MadeAndLoaded

\* A name is changed, and nothing else.
LEMMA RenameIs ==
  ASSUME Page!PageInv, Page!Rename
  PROVE  ShownIs(visits', scratch', current', shown') /\ Page!NewNamesAreFree
<1>1. Page!Step /\ ready /\ current' = current /\ shown' = shown
  BY DEF Page!Rename, Page!Here
<1>2. visits \in Nat /\ visits < MaxVisits /\ visits' = visits + 1
  BY <1>1, StepIs
<1>3. ShownIs(visits, scratch, current, shown) /\ Page!ListIs(scratch, visits)
  BY <1>1, HereIs DEF ShownIs
<1>4. /\ DOMAIN scratch = 1..Len(scratch) /\ \A i \in DOMAIN scratch : scratch[i] \in Page!Projects
  BY <1>3, ListTypesOf
<1>5. PICK k \in DOMAIN scratch, name \in Page!NamesOf(scratch) \cup {Page!Name("Untitled")} :
          scratch' = Page!renameScratch(scratch, scratch[k].id, name)
  BY DEF Page!Rename
<1>6. name \in NameIs
  BY <1>4, ProjectIs, BaseNames DEF Page!NamesOf
<1> DEFINE id == scratch[k].id
<1>7. scratch' = [i \in DOMAIN scratch |-> IF scratch[i].id = id THEN [scratch[i] EXCEPT !.name = name] ELSE scratch[i]]
  BY <1>5 DEF Page!renameScratch
<1> HIDE DEF id
<1>8. \A i \in DOMAIN scratch :
        scratch'[i] \in Page!Projects /\ scratch'[i].id = scratch[i].id /\ scratch'[i].text = scratch[i].text
  <2> SUFFICES ASSUME NEW i \in DOMAIN scratch
               PROVE  scratch'[i] \in Page!Projects /\ scratch'[i].id = scratch[i].id /\ scratch'[i].text = scratch[i].text
    OBVIOUS
  <2>1. scratch'[i] = IF scratch[i].id = id THEN [scratch[i] EXCEPT !.name = name] ELSE scratch[i]
    BY <1>7
  <2> QED
    BY <1>4, <1>6, <2>1, ProjectIs
<1>9. DOMAIN scratch' = DOMAIN scratch /\ scratch' = [i \in DOMAIN scratch |-> scratch'[i]]
  BY <1>7
<1>10. Page!ListIs(scratch', visits) /\ Len(scratch') = Len(scratch)
  BY <1>2, <1>3, <1>8, <1>9, ChangedIs
<1>11. Page!ListIs(scratch', visits')
  BY <1>2, <1>10, LaterList
<1>12. \A one, text : StandsFor(one, scratch, text) => StandsFor(one, scratch', text)
  BY <1>4, <1>8, <1>10 DEF StandsFor
<1>13. Page!NewNamesAreFree
  BY <1>8, <1>9, SameNames
<1> QED
  BY <1>1, <1>3, <1>11, <1>12, <1>13 DEF ShownIs

\* A list without one of its projects: the others are found as before.
LEMMA RemovedIs ==
  ASSUME NEW n \in Nat, NEW list, Page!ListIs(list, n), NEW i \in DOMAIN list
  PROVE  /\ Page!ListIs(Page!RemoveAt(list, i), n)
         /\ \A k \in DOMAIN Page!RemoveAt(list, i) : \E m \in DOMAIN list : list[m] = Page!RemoveAt(list, i)[k]
         /\ \A id, text : id # list[i].id /\ StandsFor(id, list, text) => StandsFor(id, Page!RemoveAt(list, i), text)
<1> DEFINE rest == Page!RemoveAt(list, i)
<1>1. /\ list \in Seq(Page!Projects) /\ Len(list) <= n /\ Len(list) \in Nat /\ DOMAIN list = 1..Len(list)
      /\ \A k \in 1..Len(list) : list[k].id.number < n
      /\ \A k, m \in 1..Len(list) : list[k].id = list[m].id => k = m
  BY ListTypesOf DEF Page!ListIs
<1> DEFINE front == SubSeq(list, 1, i - 1)
           back == SubSeq(list, i + 1, Len(list))
<1>2. rest = front \o back
  BY DEF Page!RemoveAt
<1>3. i \in 1..Len(list) /\ i \in Nat
  BY <1>1
<1>4. /\ front \in Seq(Page!Projects) /\ Len(front) = i - 1 /\ \A k \in 1..(i - 1) : front[k] = list[k]
      /\ back \in Seq(Page!Projects) /\ Len(back) = Len(list) - i
      /\ \A k \in 1..(Len(list) - i) : back[k] = list[i + k]
  <2>1. \A k \in 1..(i - 1) : k \in 1..Len(list) /\ 1 + k - 1 = k
    BY <1>1, <1>3
  <2>2. \A k \in 1..(Len(list) - i) : i + k \in 1..Len(list) /\ (i + 1) + k - 1 = i + k
    BY <1>1, <1>3
  <2>3. front \in Seq(Page!Projects) /\ Len(front) = i - 1 /\ \A k \in 1..(i - 1) : front[k] = list[k]
    BY <1>1, <1>3, <2>1
  <2>4. /\ back \in Seq(Page!Projects) /\ Len(back) = Len(list) - i
        /\ \A k \in 1..(Len(list) - i) : back[k] = list[i + k]
    BY <1>1, <1>3, <2>2
  <2> QED
    BY <2>3, <2>4
<1> HIDE DEF rest, front, back
<1>5. /\ rest \in Seq(Page!Projects) /\ Len(rest) = Len(list) - 1 /\ Len(rest) \in Nat /\ DOMAIN rest = 1..Len(rest)
      /\ \A k \in 1..Len(rest) : rest[k] = IF k <= i - 1 THEN front[k] ELSE back[k - (i - 1)]
  <2>1. /\ front \o back \in Seq(Page!Projects) /\ Len(front \o back) = Len(front) + Len(back)
        /\ \A k \in 1..(Len(front) + Len(back)) :
              (front \o back)[k] = IF k <= Len(front) THEN front[k] ELSE back[k - Len(front)]
    BY <1>4, ConcatProperties
  <2>2. Len(front) + Len(back) = Len(list) - 1 /\ Len(list) - 1 \in Nat /\ Len(front) = i - 1
    BY <1>1, <1>3, <1>4
  <2>3. rest \in Seq(Page!Projects) /\ Len(rest) = Len(list) - 1 /\ Len(rest) \in Nat
    BY <1>2, <2>1, <2>2
  <2>4. \A k \in 1..Len(rest) : rest[k] = IF k <= i - 1 THEN front[k] ELSE back[k - (i - 1)]
    BY <1>2, <2>1, <2>2, <2>3
  <2>5. DOMAIN rest = 1..Len(rest)
    BY <2>3
  <2> QED
    BY <2>3, <2>4, <2>5
<1>6. \A k \in 1..Len(rest) : rest[k] = IF k < i THEN list[k] ELSE list[k + 1]
  <2> SUFFICES ASSUME NEW k \in 1..Len(rest) PROVE rest[k] = IF k < i THEN list[k] ELSE list[k + 1]
    OBVIOUS
  <2>1. k \in Nat /\ k >= 1 /\ k <= Len(list) - 1
    BY <1>1, <1>5
  <2>2. CASE k < i
    <3>1. k <= i - 1 /\ k \in 1..(i - 1)
      BY <1>3, <2>1, <2>2
    <3> QED
      BY <1>4, <1>5, <2>2, <3>1
  <2>3. CASE ~(k < i)
    <3>1. ~(k <= i - 1) /\ k - (i - 1) \in 1..(Len(list) - i) /\ i + (k - (i - 1)) = k + 1
      BY <1>1, <1>3, <2>1, <2>3
    <3>2. back[k - (i - 1)] = list[i + (k - (i - 1))]
      BY <1>4, <3>1
    <3> QED
      BY <1>5, <2>3, <3>1, <3>2
  <2> QED
    BY <2>2, <2>3
<1>7. \A k \in 1..Len(rest) : k \in 1..Len(list) /\ k + 1 \in 1..Len(list)
  BY <1>1, <1>5
<1>8. Page!ListIs(rest, n)
  <2>1. Len(rest) <= n
    BY <1>1, <1>5
  <2>2. \A k \in 1..Len(rest) : rest[k].id.number < n
    BY <1>1, <1>6, <1>7
  <2>3. \A k, m \in 1..Len(rest) : rest[k].id = rest[m].id => k = m
    <3> SUFFICES ASSUME NEW k \in 1..Len(rest), NEW m \in 1..Len(rest), rest[k].id = rest[m].id PROVE k = m
      OBVIOUS
    <3> DEFINE at(x) == IF x < i THEN x ELSE x + 1
    <3>1. rest[k] = list[at(k)] /\ rest[m] = list[at(m)] /\ at(k) \in 1..Len(list) /\ at(m) \in 1..Len(list)
      BY <1>6, <1>7
    <3>2. at(k) = at(m)
      BY <1>1, <3>1
    <3>3. k \in Nat /\ m \in Nat /\ i \in Nat
      BY <1>1, <1>5
    <3> QED
      BY <3>2, <3>3
  <2> QED
    BY <1>5, <2>1, <2>2, <2>3 DEF Page!ListIs
<1>9. \A k \in DOMAIN rest : \E m \in DOMAIN list : list[m] = rest[k]
  BY <1>1, <1>5, <1>6, <1>7
<1>10. ASSUME NEW id, NEW text, id # list[i].id, StandsFor(id, list, text) PROVE StandsFor(id, rest, text)
  <2>1. CASE \E c \in Page!buildCatalogue : c.id = id /\ c.text = text
    BY <2>1 DEF StandsFor
  <2>2. CASE \E k \in 1..Len(list) : list[k].id = id /\ list[k].text = text
    <3>1. PICK k \in 1..Len(list) : list[k].id = id /\ list[k].text = text
      BY <2>2
    <3>2. k # i /\ k \in Nat /\ i \in Nat /\ i \in 1..Len(list)
      BY <1>1, <1>10, <3>1
    <3>3. CASE k < i
      <4>1. k \in 1..Len(rest) /\ rest[k] = list[k]
        BY <1>1, <1>5, <1>6, <3>2, <3>3
      <4> QED
        BY <3>1, <4>1 DEF StandsFor
    <3>4. CASE i < k
      <4>1. k - 1 \in 1..Len(rest) /\ ~(k - 1 < i) /\ (k - 1) + 1 = k
        BY <1>1, <1>5, <3>2, <3>4
      <4>2. rest[k - 1] = list[k]
        BY <1>6, <4>1
      <4> QED
        BY <3>1, <4>1, <4>2 DEF StandsFor
    <3> QED
      BY <3>2, <3>3, <3>4
  <2> QED
    BY <1>10, <2>1, <2>2 DEF StandsFor
<1> QED
  BY <1>8, <1>9, <1>10 DEF rest

LEMMA DeleteIs ==
  ASSUME Page!PageInv, Page!deleteProject
  PROVE  ShownIs(visits', scratch', current', shown') /\ Page!NewNamesAreFree
<1>1. Page!Step /\ ready
  BY DEF Page!deleteProject, Page!Here
<1>2. visits \in Nat /\ visits' = visits + 1
  BY <1>1, StepIs
<1>3. ShownIs(visits, scratch, current, shown) /\ Page!ListIs(scratch, visits)
  BY <1>1, HereIs DEF ShownIs
<1>4. PICK i \in DOMAIN scratch :
        /\ scratch' = Page!RemoveAt(scratch, i)
        /\ IF scratch[i].id \in current THEN Page!Load(Page!DefaultId, scratch') ELSE UNCHANGED <<current, shown>>
  BY DEF Page!deleteProject
<1>5. Page!ListIs(scratch', visits)
  BY <1>2, <1>3, <1>4, RemovedIs
<1>6. Page!ListIs(scratch', visits')
  BY <1>2, <1>5, LaterList
<1>7. Page!NewNamesAreFree
  <2>1. \A k \in DOMAIN scratch' : \E m \in DOMAIN scratch : scratch[m] = scratch'[k]
    BY <1>2, <1>3, <1>4, RemovedIs
  <2> QED
    BY <2>1, SameNames
<1>8. CASE scratch[i].id \in current
  <2>1. current' = {Page!DefaultId} /\ StandsFor(Page!DefaultId, scratch', shown') /\ shown' \in Page!AllTexts
    BY <1>4, <1>5, <1>8, LoadIs
  <2> QED
    BY <1>6, <1>7, <2>1 DEF ShownIs
<1>9. CASE scratch[i].id \notin current
  <2>1. current' = current /\ shown' = shown /\ \A id \in current : id # scratch[i].id
    BY <1>4, <1>9
  <2>2. \A id \in current : /\ \E other : StandsFor(id, scratch', other)
                            /\ shown \in Large \/ StandsFor(id, scratch', shown)
    BY <1>2, <1>3, <1>4, <2>1, RemovedIs DEF ShownIs
  <2> QED
    BY <1>3, <1>6, <1>7, <2>1, <2>2 DEF ShownIs
<1> QED
  BY <1>8, <1>9

\* A project the id stands for is loaded, and the list is as it was.
LEMMA LoadedIs ==
  ASSUME Page!PageInv, Page!Step, NEW id, Page!Load(id, scratch), scratch' = scratch
  PROVE  ShownIs(visits', scratch', current', shown') /\ Page!NewNamesAreFree
<1>1. visits \in Nat /\ visits' = visits + 1 /\ Page!ListIs(scratch, visits)
  BY StepIs DEF Page!PageInv
<1>2. current' = {id} /\ StandsFor(id, scratch, shown') /\ shown' \in Page!AllTexts
  BY <1>1, LoadIs
<1>3. Page!ListIs(scratch, visits')
  BY <1>1, LaterList
<1>4. Page!NewNamesAreFree
  BY SameNames
<1> QED
  BY <1>2, <1>3, <1>4 DEF ShownIs

LEMMA SwitchIs ==
  ASSUME Page!PageInv, Page!Switch
  PROVE  ShownIs(visits', scratch', current', shown') /\ Page!NewNamesAreFree
BY LoadedIs DEF Page!Switch, Page!Here

\* A part of a link: the text that was sent, by its key, or what was asked for.
PartOf(part, texts) ==
  /\ part \in Page!Parts
  /\ part.name \in {"src", "src0"} =>
       /\ part.value \in Page!Payloads
       /\ \E s \in texts : /\ part.name = s.key /\ part.value.text = s.text
                           /\ part.value.deflated = (s.key = "src")

LEMMA LinkGives ==
  ASSUME Page!LinkIs
  PROVE  /\ link \in Seq(Page!Parts) /\ Len(link) \in Nat /\ Len(link) <= 3 /\ DOMAIN link = 1..Len(link)
         /\ \A i \in 1..Len(link) : PartOf(link[i], sent)
BY DEF Page!LinkIs, PartOf

LEMMA LinkFrom ==
  ASSUME NEW parts, parts \in Seq(Page!Parts), Len(parts) <= 3,
         \A i \in 1..Len(parts) : PartOf(parts[i], sent'), link' = parts,
         sent' \subseteq [key : {"src", "src0"}, text : Page!AllTexts \ Large], \A s, t \in sent' : s = t,
         whole' => \A s \in sent' : link' = <<Page!Part(s.key, Page!Payload(s.text, s.key = "src"))>>
  PROVE  Page!LinkIs'
BY DEF Page!LinkIs, PartOf

LEMMA AskedParts ==
  ASSUME NEW texts
  PROVE  /\ \A id \in Page!Linked \cup {Page!Malformed} : PartOf(Page!Part("pick", id), texts)
         /\ PartOf(Page!Part("other", Page!Id(Page!None, Page!None, 0)), texts)
BY DEF PartOf, Page!Part, Page!Parts

\* A link with its last part replaced, and one with a part behind it.
LEMMA LastReplaced ==
  ASSUME Page!LinkIs, link # <<>>, NEW part, PartOf(part, sent), sent' = sent, whole' = FALSE,
         link' = Page!Front(link) \o <<part>>
  PROVE  Page!LinkIs'
<1> DEFINE n == Len(link)
           front == SubSeq(link, 1, n - 1)
           parts == front \o <<part>>
<1>1. link \in Seq(Page!Parts) /\ n \in Nat /\ n <= 3 /\ n # 0 /\ \A i \in 1..n : PartOf(link[i], sent)
  BY LinkGives
<1>2. part \in Page!Parts
  BY DEF PartOf
<1>3. front \in Seq(Page!Parts) /\ Len(front) = n - 1 /\ \A i \in 1..(n - 1) : front[i] = link[i]
  <2>1. \A i \in 1..(n - 1) : i \in 1..n /\ 1 + i - 1 = i
    BY <1>1
  <2> QED
    BY <1>1, <2>1
<1> HIDE DEF front
<1>4. parts \in Seq(Page!Parts) /\ Len(parts) = n /\ \A i \in 1..n : parts[i] = IF i <= n - 1 THEN front[i] ELSE part
  <2>1. <<part>> \in Seq(Page!Parts) /\ Len(<<part>>) = 1 /\ <<part>>[1] = part
    BY <1>2
  <2>2. /\ parts \in Seq(Page!Parts) /\ Len(parts) = Len(front) + Len(<<part>>)
        /\ \A i \in 1..(Len(front) + Len(<<part>>)) : parts[i] = IF i <= Len(front) THEN front[i] ELSE <<part>>[i - Len(front)]
    BY <1>3, <2>1, ConcatProperties
  <2>3. Len(front) + Len(<<part>>) = n /\ Len(front) = n - 1
    BY <1>1, <1>3, <2>1
  <2>4. \A i \in 1..n : ~(i <= n - 1) => i - (n - 1) = 1
    BY <1>1
  <2> HIDE DEF parts, n
  <2> QED
    BY <2>1, <2>2, <2>3, <2>4
<1>5. link' = parts
  BY DEF Page!Front, front
<1> HIDE DEF parts
<1>6. \A i \in 1..n : PartOf(parts[i], sent)
  <2>1. \A i \in 1..n : i <= n - 1 => i \in 1..(n - 1)
    BY <1>1
  <2> QED
    BY <1>1, <1>3, <1>4, <2>1
<1> QED
  BY <1>1, <1>4, <1>5, <1>6, LinkFrom DEF Page!LinkIs

LEMMA PartAdded ==
  ASSUME Page!LinkIs, Len(link) < 3, NEW part, PartOf(part, sent), sent' = sent, whole' = FALSE,
         link' = Append(link, part)
  PROVE  Page!LinkIs'
<1> DEFINE n == Len(link)
           parts == Append(link, part)
<1>1. link \in Seq(Page!Parts) /\ n \in Nat /\ n < 3 /\ \A i \in 1..n : PartOf(link[i], sent)
  BY LinkGives
<1>2. part \in Page!Parts
  BY DEF PartOf
<1>3. parts \in Seq(Page!Parts) /\ Len(parts) = n + 1 /\ parts[n + 1] = part /\ \A i \in 1..n : parts[i] = link[i]
  BY <1>1, <1>2
<1>4. \A i \in 1..(n + 1) : i \in 1..n \/ i = n + 1
  BY <1>1
<1> HIDE DEF parts
<1>5. \A i \in 1..(n + 1) : PartOf(parts[i], sent)
  BY <1>1, <1>3, <1>4
<1>6. n + 1 <= 3
  BY <1>1
<1> QED
  BY <1>3, <1>5, <1>6, LinkFrom DEF Page!LinkIs, parts

LEMMA MeddleKeepsLink ==
  ASSUME Page!LinkIs, Page!Meddle
  PROVE  Page!LinkIs'
<1>1. link # <<>> /\ Len(link) < 3 /\ sent' = sent /\ whole' = FALSE
  BY DEF Page!Meddle
<1>2. CASE \E chars \in {"cut", "mid", "odd", "stray"} :
             /\ Page!Last(link).name \in {"src", "src0"} /\ Page!Last(link).value.chars = "all"
             /\ link' = Page!Front(link) \o <<Page!Part(Page!Last(link).name, [Page!Last(link).value EXCEPT !.chars = chars])>>
  <2>1. PICK chars \in {"cut", "mid", "odd", "stray"} :
          /\ Page!Last(link).name \in {"src", "src0"}
          /\ link' = Page!Front(link) \o <<Page!Part(Page!Last(link).name, [Page!Last(link).value EXCEPT !.chars = chars])>>
    BY <1>2
  <2> DEFINE old == Page!Last(link)
             value == [old.value EXCEPT !.chars = chars]
  <2>2. PartOf(old, sent)
    <3>1. Len(link) \in 1..Len(link)
      BY <1>1, LinkGives
    <3> QED
      BY <3>1, LinkGives DEF Page!Last
  <2> HIDE DEF old
  <2>3. old.name \in {"src", "src0"} /\ old.value \in Page!Payloads
    BY <2>1, <2>2 DEF PartOf, old
  <2>4. value \in Page!Payloads /\ value.text = old.value.text /\ value.deflated = old.value.deflated
    BY <2>3 DEF Page!Payloads
  <2> HIDE DEF value
  <2>5. PartOf(Page!Part(old.name, value), sent)
    <3>1. PICK s \in sent : old.name = s.key /\ old.value.text = s.text /\ old.value.deflated = (s.key = "src")
      BY <2>2, <2>3 DEF PartOf
    <3>2. Page!Part(old.name, value).name = old.name /\ Page!Part(old.name, value).value = value
      BY DEF Page!Part
    <3>3. Page!Part(old.name, value) \in Page!Parts
      BY <2>3, <2>4 DEF Page!Part, Page!Parts
    <3>4. value.deflated = (s.key = "src") /\ value.text = s.text
      BY <2>4, <3>1
    <3> QED
      BY <2>4, <3>1, <3>2, <3>3, <3>4 DEF PartOf
  <2>6. link' = Page!Front(link) \o <<Page!Part(old.name, value)>>
    BY <2>1 DEF old, value
  <2> QED
    BY <1>1, <2>5, <2>6, LastReplaced
<1>3. CASE \E id \in Page!Linked : link' = Append(link, Page!Part("pick", id))
  BY <1>1, <1>3, AskedParts, PartAdded
<1>4. CASE link' = Append(link, Page!Part("other", Page!Id(Page!None, Page!None, 0)))
  BY <1>1, <1>4, AskedParts, PartAdded
<1>5. CASE link' = Page!Front(link) \o <<Page!Part("pick", Page!Malformed)>>
  BY <1>1, <1>5, AskedParts, LastReplaced
<1> QED
  BY <1>2, <1>3, <1>4, <1>5 DEF Page!Meddle

LEMMA OnePart ==
  ASSUME NEW part, PartOf(part, sent'), link' = <<part>>,
         sent' \subseteq [key : {"src", "src0"}, text : Page!AllTexts \ Large], \A s, t \in sent' : s = t,
         \A s \in sent' : part = Page!Part(s.key, Page!Payload(s.text, s.key = "src"))
  PROVE  Page!LinkIs'
<1> DEFINE parts == <<part>>
<1>1. parts \in Seq(Page!Parts) /\ Len(parts) = 1 /\ parts[1] = part /\ link' = parts
  BY DEF PartOf
<1> HIDE DEF parts
<1>2. Len(parts) <= 3 /\ \A i \in 1..Len(parts) : i = 1
  BY <1>1
<1>3. \A i \in 1..Len(parts) : PartOf(parts[i], sent')
  BY <1>1, <1>2
<1>4. \A s \in sent' : link' = <<Page!Part(s.key, Page!Payload(s.text, s.key = "src"))>>
  OBVIOUS
<1> QED
  BY <1>1, <1>2, <1>3, <1>4, LinkFrom

LEMMA ShareKeepsLink ==
  ASSUME Page!LinksFit, shown \in Page!AllTexts, Page!Share
  PROVE  Page!LinkIs'
<1>1. PICK codec \in Page!Codecs :
        /\ link' = <<Page!Part(Page!encodeShare(shown, codec).key, Page!encodeShare(shown, codec).payload)>>
        /\ sent' = {[key |-> Page!encodeShare(shown, codec).key, text |-> shown]}
        /\ shown \notin Large
  BY DEF Page!Share, Page!encodeShare, Page!LinksFit
<1> DEFINE key == Page!Keyed(codec)
           payload == Page!Payload(shown, codec = "works")
           part == Page!Part(key, payload)
           s == [key |-> key, text |-> shown]
<1>2. link' = <<part>> /\ sent' = {s}
  BY <1>1 DEF Page!encodeShare
<1>3. key \in {"src", "src0"} /\ (key = "src" <=> codec = "works")
  BY DEF Page!Keyed
<1>4. payload \in Page!Payloads /\ payload.text = shown /\ payload.deflated = (codec = "works")
  BY DEF Page!Payload, Page!Payloads
<1>5. (codec = "works") = (key = "src")
  BY <1>3
<1> HIDE DEF key
<1>6. part = Page!Part(s.key, Page!Payload(s.text, s.key = "src"))
  BY <1>5
<1>7. PartOf(part, {s})
  <2> HIDE DEF payload
  <2>1. part.name = key /\ part.value = payload /\ part \in Page!Parts
    BY <1>3, <1>4 DEF Page!Part, Page!Parts
  <2>2. payload.deflated = (key = "src")
    BY <1>4, <1>5
  <2> HIDE DEF part
  <2> QED
    BY <1>4, <2>1, <2>2 DEF PartOf
<1>8. s \in [key : {"src", "src0"}, text : Page!AllTexts \ Large]
  BY <1>1, <1>3
<1> HIDE DEF part, s
<1>9. /\ PartOf(part, sent') /\ sent' \subseteq [key : {"src", "src0"}, text : Page!AllTexts \ Large]
      /\ \A x, y \in sent' : x = y
      /\ \A x \in sent' : part = Page!Part(x.key, Page!Payload(x.text, x.key = "src"))
  BY <1>2, <1>6, <1>7, <1>8
<1> QED
  BY <1>2, <1>9, OnePart

LEMMA PickKeepsLink ==
  ASSUME Page!Pick
  PROVE  Page!LinkIs'
<1>1. sent' = {}
  BY DEF Page!Pick
<1>2. PICK part : link' = <<part>> /\ PartOf(part, {})
  BY AskedParts DEF Page!Pick
<1> QED
  BY <1>1, <1>2, OnePart

LEMMA ForgetKeepsLink ==
  ASSUME Page!Forget
  PROVE  Page!LinkIs'
<1>1. link' = <<>> /\ sent' = {}
  BY DEF Page!Forget
<1>2. /\ link' \in Seq(Page!Parts) /\ Len(link') = 0 /\ Len(link') <= 3 /\ \A i \in 1..Len(link') : FALSE
  BY <1>1
<1> QED
  BY <1>1, <1>2 DEF Page!LinkIs

\* Of the parts of one name the last counts.
LEMMA NamedIs ==
  ASSUME Page!LinkIs, NEW name
  PROVE  /\ \A v \in Page!Named(link, name) : \E i \in 1..Len(link) : link[i].name = name /\ link[i].value = v
         /\ \A v, w \in Page!Named(link, name) : v = w
         /\ (\E i \in 1..Len(link) : link[i].name = name) => Page!Named(link, name) # {}
<1> DEFINE at == {i \in DOMAIN link : link[i].name = name}
           ends == {k \in at : \A m \in at : m <= k}
<1>1. DOMAIN link = 1..Len(link) /\ Len(link) \in Nat /\ Len(link) <= 3
  BY LinkGives
<1>2. at \in SUBSET {1, 2, 3} /\ at \in SUBSET (1..Len(link)) /\ \A i \in at : link[i].name = name
  BY <1>1
<1>3. Page!Named(link, name) = {link[i].value : i \in ends}
  BY DEF Page!Named
<1>4. \A k, m \in ends : k = m
  BY <1>2
<1>5. (\E i \in 1..Len(link) : link[i].name = name) => at # {}
  BY <1>1
<1> HIDE DEF at
<1>6. at # {} => \E k \in at : \A m \in at : m <= k
  <2>1. CASE 3 \in at
    BY <1>2, <2>1
  <2>2. CASE 3 \notin at /\ 2 \in at
    BY <1>2, <2>2
  <2>3. CASE 3 \notin at /\ 2 \notin at
    <3>1. \A i \in at : i = 1
      BY <1>2, <2>3
    <3> QED
      BY <3>1
  <2> QED
    BY <2>1, <2>2, <2>3
<1>7. at # {} => ends # {}
  BY <1>6
<1>8. \A k \in ends : k \in 1..Len(link) /\ link[k].name = name
  BY <1>2
<1> HIDE DEF ends
<1> QED
  BY <1>3, <1>4, <1>5, <1>7, <1>8

\* A text that is decoded is the one that was sent, or its beginning if it was not deflated.
LEMMA DecodedIs ==
  ASSUME Page!LinkIs, Page!LinksFit, NEW codec, NEW d \in Page!decodeShare(Page!readHash(link), codec)
  PROVE  /\ \E s \in sent : d.text = s.text \/ (s.key = "src0" /\ d.text = "part")
         /\ d.text \in Page!AllTexts \ Large /\ Page!readHash(link).src # {}
<1> DEFINE intent == Page!readHash(link)
<1>1. intent.src = {[key |-> "src", payload |-> p] : p \in Page!Named(link, "src")}
                     \cup {[key |-> "src0", payload |-> p] : p \in {q \in Page!Named(link, "src0") : Page!Named(link, "src") = {}}}
  BY DEF Page!readHash
<1> HIDE DEF intent
<1>2. PICK x \in intent.src : /\ d = [key |-> x.key, text |-> Page!Decoded(x.payload)]
                              /\ x.key = "src" => Page!inflateRaw(x.payload)
  BY DEF Page!decodeShare, intent
<1>3. x.key \in {"src", "src0"} /\ x.payload \in Page!Named(link, x.key)
  BY <1>1, <1>2
<1>4. PICK i \in 1..Len(link) : link[i].name = x.key /\ link[i].value = x.payload
  BY <1>3, NamedIs
<1>5. PICK s \in sent : x.key = s.key /\ x.payload.text = s.text
  BY <1>3, <1>4, LinkGives DEF PartOf
<1>6. d.text = s.text \/ (s.key = "src0" /\ d.text = "part")
  <2>1. d.text = Page!Decoded(x.payload)
    BY <1>2
  <2>2. CASE x.key = "src"
    BY <1>2, <1>5, <2>1, <2>2 DEF Page!inflateRaw, Page!Decoded
  <2>3. CASE x.key = "src0"
    BY <1>5, <2>1, <2>3 DEF Page!Decoded
  <2> QED
    BY <1>3, <2>2, <2>3
<1>7. s.text \in Page!AllTexts \ Large /\ "part" \in Page!AllTexts \ Large
  BY DEF Page!LinkIs, Page!AllTexts, Page!LinksFit
<1> QED
  BY <1>2, <1>6, <1>7 DEF intent

\* What a fragment asks for is told by one of its three.
LEMMA IntentIs ==
  ASSUME Page!LinkIs, link # <<>>
  PROVE  Page!readHash(link).src # {} \/ Page!readHash(link).pick # {} \/ Page!readHash(link).unknown # {}
<1> DEFINE intent == Page!readHash(link)
<1>1. 1 \in 1..Len(link) /\ 1 \in DOMAIN link
  BY LinkGives
<1>2. link[1].name \in {"src", "src0", "pick", "other"}
  BY <1>1, LinkGives DEF PartOf, Page!Parts
<1>3. CASE link[1].name = "src"
  <2>1. PICK p \in Page!Named(link, "src") : TRUE
    BY <1>1, <1>3, NamedIs
  <2>2. [key |-> "src", payload |-> p] \in intent.src
    BY DEF Page!readHash
  <2> QED
    BY <2>2
<1>4. CASE link[1].name = "src0"
  <2>1. PICK p \in Page!Named(link, "src0") : TRUE
    BY <1>1, <1>4, NamedIs
  <2>2. CASE Page!Named(link, "src") = {}
    <3>1. [key |-> "src0", payload |-> p] \in intent.src
      BY <2>2 DEF Page!readHash
    <3> QED
      BY <3>1
  <2>3. CASE Page!Named(link, "src") # {}
    <3>1. PICK q \in Page!Named(link, "src") : TRUE
      BY <2>3
    <3>2. [key |-> "src", payload |-> q] \in intent.src
      BY DEF Page!readHash
    <3> QED
      BY <3>2
  <2> QED
    BY <2>2, <2>3
<1>5. CASE link[1].name = "pick"
  BY <1>1, <1>5, NamedIs DEF Page!readHash
<1>6. CASE link[1].name = "other"
  <2>1. "other" \in {link[i].name : i \in DOMAIN link} \ {"src", "src0", "pick"}
    BY <1>1, <1>6
  <2> QED
    BY <2>1 DEF Page!readHash
<1> QED
  BY <1>2, <1>3, <1>4, <1>5, <1>6

\* What is asked for and cannot be opened is told.
LEMMA ToldIs ==
  ASSUME NEW intent, NEW failed \in BOOLEAN
  PROVE  /\ Page!ToldOf(intent, failed) \in {Page!None, "share", "id"}
         /\ intent.src # {} => Page!ToldOf(intent, failed) = "share"
         /\ intent.src # {} \/ failed \/ intent.unknown # {} => Page!ToldOf(intent, failed) # Page!None
BY DEF Page!ToldOf, Page!None

\* What resolveInitial() finds: a shared text, or the circuit picked, or the active
\* project, or the first of the catalogue.
ShareFound(outcome, decoded) ==
  decoded # {} /\ outcome.kind = "share" /\ \E d \in decoded : outcome.text = d.text
OtherFound(outcome, intent, decoded) ==
  /\ decoded = {} /\ outcome.kind \in {"pick", "active", "default"}
  /\ outcome.told \in {Page!None, "share", "id"}
  /\ intent.src # {} => outcome.told = "share"
  /\ outcome.kind \in {"active", "default"} =>
       /\ \A id \in intent.pick : Page!resolveSource(id, scratch) = {}
       /\ intent.src # {} \/ intent.pick # {} \/ intent.unknown # {} => outcome.told # Page!None
  /\ outcome.kind = "pick" => outcome.id \in intent.pick

LEMMA ResolveInitialIs ==
  ASSUME NEW intent, NEW decoded
  PROVE  LET outcome == Page!resolveInitial(intent, decoded)
         IN ShareFound(outcome, decoded) \/ OtherFound(outcome, intent, decoded)
<1> DEFINE picked == UNION {Page!resolveSource(id, scratch) : id \in intent.pick}
           running == UNION {Page!resolveSource(id, scratch) : id \in current}
           failed == intent.src # {}
           failedPick == failed \/ intent.pick # {}
           outcome == Page!resolveInitial(intent, decoded)
           share == Page!Outcome("share", Page!DefaultId, Page!The(decoded).text, Page!None)
           pick == Page!Outcome("pick", Page!The(intent.pick), Page!The(picked), IF failed THEN "share" ELSE Page!None)
           kept == Page!Outcome("active", Page!The(current), Page!The(running), Page!ToldOf(intent, failedPick))
           default == Page!Outcome("default", Page!DefaultId, Page!The(Page!resolveSource(Page!DefaultId, scratch)),
                        IF intent.src = {} /\ intent.pick = {} /\ intent.unknown = {} THEN Page!None
                        ELSE Page!ToldOf(intent, TRUE))
<1>1. outcome = IF decoded # {} THEN share
                ELSE IF picked # {} THEN pick ELSE IF running # {} THEN kept ELSE default
  BY DEF Page!resolveInitial
<1>2. /\ share.kind = "share" /\ share.text = Page!The(decoded).text
      /\ pick.kind = "pick" /\ pick.id = Page!The(intent.pick) /\ pick.told = IF failed THEN "share" ELSE Page!None
      /\ kept.kind = "active" /\ kept.told = Page!ToldOf(intent, failedPick)
      /\ default.kind = "default"
      /\ default.told = IF intent.src = {} /\ intent.pick = {} /\ intent.unknown = {} THEN Page!None
                        ELSE Page!ToldOf(intent, TRUE)
  BY DEF Page!Outcome
<1>3. failedPick \in BOOLEAN
  OBVIOUS
<1>4. picked = {} => \A id \in intent.pick : Page!resolveSource(id, scratch) = {}
  OBVIOUS
<1>5. picked # {} => intent.pick # {}
  OBVIOUS
<1> HIDE DEF share, pick, kept, default, picked, running
<1>6. CASE decoded # {}
  BY <1>1, <1>2, <1>6 DEF ShareFound, Page!The
<1>7. CASE decoded = {} /\ picked # {}
  <2>1. outcome = pick
    BY <1>1, <1>7
  <2>2. pick.id \in intent.pick
    BY <1>2, <1>5, <1>7 DEF Page!The
  <2> QED
    BY <1>2, <1>7, <2>1, <2>2 DEF OtherFound
<1>8. CASE decoded = {} /\ picked = {} /\ running # {}
  <2>1. outcome = kept
    BY <1>1, <1>8
  <2>2. kept.told \in {Page!None, "share", "id"} /\ (intent.src # {} => kept.told = "share")
    BY <1>2, <1>3, ToldIs
  <2>3. intent.src # {} \/ intent.pick # {} \/ intent.unknown # {} => kept.told # Page!None
    BY <1>2, <1>3, ToldIs
  <2> QED
    BY <1>2, <1>4, <1>8, <2>1, <2>2, <2>3 DEF OtherFound
<1>9. CASE decoded = {} /\ picked = {} /\ running = {}
  <2>1. outcome = default
    BY <1>1, <1>9
  <2>2. default.told \in {Page!None, "share", "id"} /\ (intent.src # {} => default.told = "share")
    BY <1>2, ToldIs
  <2>3. intent.src # {} \/ intent.pick # {} \/ intent.unknown # {} => default.told # Page!None
    BY <1>2, ToldIs
  <2> QED
    BY <1>2, <1>4, <1>9, <2>1, <2>2, <2>3 DEF OtherFound
<1> QED
  BY <1>6, <1>7, <1>8, <1>9

\* A link nobody changed is decoded, but where it was deflated and the browser does not inflate.
LEMMA WholeIs ==
  ASSUME Page!LinkIs, whole, NEW s \in sent, NEW codec
  PROVE  /\ Page!readHash(link).src # {} /\ Page!readHash(link).pick = {}
         /\ Page!decodeShare(Page!readHash(link), codec) = {} => s.key = "src"
<1> DEFINE payload == Page!Payload(s.text, s.key = "src")
           part == Page!Part(s.key, payload)
           intent == Page!readHash(link)
<1>1. link = <<part>> /\ s.key \in {"src", "src0"}
  BY DEF Page!LinkIs
<1>2. DOMAIN link = {1} /\ link[1].name = s.key /\ link[1].value = payload
  BY <1>1 DEF Page!Part
<1>3. payload.chars = "all"
  BY DEF Page!Payload
<1> HIDE DEF part, payload
<1>4. \A name : Page!Named(link, name) = IF name = s.key THEN {payload} ELSE {}
  <2> SUFFICES ASSUME NEW name PROVE Page!Named(link, name) = IF name = s.key THEN {payload} ELSE {}
    OBVIOUS
  <2> DEFINE at == {i \in DOMAIN link : link[i].name = name}
  <2>1. at = IF name = s.key THEN {1} ELSE {}
    BY <1>2
  <2>2. {k \in at : \A m \in at : m <= k} = at
    BY <2>1
  <2>3. Page!Named(link, name) = {link[i].value : i \in at}
    BY <2>2 DEF Page!Named
  <2> HIDE DEF at
  <2> QED
    BY <1>2, <2>1, <2>3
<1>5. intent.pick = {}
  BY <1>1, <1>4 DEF Page!readHash
<1>6. [key |-> s.key, payload |-> payload] \in intent.src
  <2>1. /\ Page!Named(link, s.key) = {payload}
        /\ s.key = "src0" => Page!Named(link, "src") = {}
    BY <1>4
  <2>2. intent.src = {[key |-> "src", payload |-> p] : p \in Page!Named(link, "src")}
           \cup {[key |-> "src0", payload |-> p] : p \in {q \in Page!Named(link, "src0") : Page!Named(link, "src") = {}}}
    BY DEF Page!readHash
  <2> HIDE DEF intent
  <2> QED
    BY <1>1, <2>1, <2>2
<1>7. s.key = "src0" => Page!decodeShare(intent, codec) # {}
  <2> SUFFICES ASSUME s.key = "src0" PROVE Page!decodeShare(intent, codec) # {}
    OBVIOUS
  <2> DEFINE x == [key |-> s.key, payload |-> payload]
  <2>1. x.key = "src0" /\ x.payload.chars = "all"
    BY <1>3
  <2>2. Page!fromBase64Url(x.payload)
    BY <2>1 DEF Page!fromBase64Url
  <2> HIDE DEF x
  <2>3. x \in {y \in intent.src : /\ Page!fromBase64Url(y.payload)
                                  /\ y.key = "src" => codec = "works" /\ Page!inflateRaw(y.payload)
                                  /\ y.payload.chars # "mid"}
    BY <1>6, <2>1, <2>2 DEF x
  <2>4. [key |-> x.key, text |-> Page!Decoded(x.payload)] \in Page!decodeShare(intent, codec)
    BY <2>3 DEF Page!decodeShare
  <2> QED
    BY <2>4
<1> QED
  BY <1>1, <1>5, <1>6, <1>7

OpensRight == Page!SharedComesBack /\ Page!DamageIsNoticed /\ Page!SaysWhatItDidNotOpen /\ Page!PickIsKept

\* A load of the page that opens a shared text.
LEMMA ShareOpens ==
  ASSUME Page!PageInv, Page!Step, Page!LinksFit, NEW codec, NEW text,
         \E d \in Page!decodeShare(Page!readHash(link), codec) : text = d.text,
         \/ Page!Adopt(text) /\ opened' = [kind |-> "share", told |-> "opened"]
         \/ Page!AdoptNothing(text) /\ opened' = [kind |-> "share", told |-> "large"]
  PROVE  /\ ShownIs(visits', scratch', current', shown') /\ Page!NewNamesAreFree /\ OpensRight
         /\ opened'.told = "opened"
<1>1. Page!LinkIs /\ \A s, t \in sent : s = t
  BY DEF Page!PageInv, Page!LinkIs
<1>2. /\ \E s \in sent : text = s.text \/ (s.key = "src0" /\ text = "part")
      /\ text \in Page!AllTexts \ Large
  BY <1>1, DecodedIs
<1>3. Page!createScratch(scratch, Page!Name("silly"), text) # {}
  BY <1>2 DEF Page!createScratch
<1>4. Page!Adopt(text) /\ opened' = [kind |-> "share", told |-> "opened"]
  BY <1>3 DEF Page!AdoptNothing
<1>5. PICK p \in Page!createScratch(scratch, Page!Name("silly"), text) :
        scratch' = Append(scratch, p) /\ Page!Load(p.id, scratch')
  BY <1>4 DEF Page!Adopt
<1>6. Page!Name("silly") \in NameIs
  BY BaseNames
<1>7. /\ ShownIs(visits', scratch', current', shown') /\ Page!NewNamesAreFree
      /\ shown' = text /\ current' # current /\ Len(scratch') = Len(scratch) + 1
  BY <1>2, <1>5, <1>6, MadeAndLoaded
<1>8. opened'.kind = "share" /\ opened'.told = "opened"
  BY <1>4
<1>9. whole => \A s \in sent : text = s.text
  <2> SUFFICES ASSUME whole, NEW s \in sent PROVE text = s.text
    OBVIOUS
  <2>1. PICK d \in Page!decodeShare(Page!readHash(link), codec) : text = d.text
    OBVIOUS
  <2>2. PICK x \in Page!readHash(link).src : d = [key |-> x.key, text |-> Page!Decoded(x.payload)]
    BY DEF Page!decodeShare
  <2>3. x.payload \in Page!Named(link, x.key) /\ x.key \in {"src", "src0"}
    BY DEF Page!readHash
  <2>4. PICK i \in 1..Len(link) : link[i].value = x.payload
    BY <1>1, <2>3, NamedIs
  <2>5. link = <<Page!Part(s.key, Page!Payload(s.text, s.key = "src"))>>
    BY <1>1 DEF Page!LinkIs
  <2>6. x.payload = Page!Payload(s.text, s.key = "src")
    BY <2>4, <2>5 DEF Page!Part
  <2>7. x.payload.chars = "all" /\ x.payload.text = s.text
    BY <2>6 DEF Page!Payload
  <2> QED
    BY <2>1, <2>2, <2>7 DEF Page!Decoded
<1>10. Page!SharedComesBack
  BY <1>7, <1>8, <1>9 DEF Page!SharedComesBack
<1>11. Page!DamageIsNoticed
  BY <1>1, <1>2, <1>7 DEF Page!DamageIsNoticed
<1>12. Page!SaysWhatItDidNotOpen /\ Page!PickIsKept
  BY <1>8 DEF Page!SaysWhatItDidNotOpen, Page!PickIsKept
<1> QED
  BY <1>7, <1>8, <1>10, <1>11, <1>12 DEF OpensRight

\* A load of the page that opens something else.
LEMMA OtherOpens ==
  ASSUME Page!PageInv, Page!Step, NEW codec, NEW outcome,
         OtherFound(outcome, Page!readHash(link), Page!decodeShare(Page!readHash(link), codec)),
         Page!Load(outcome.id, scratch), scratch' = scratch,
         opened' = [kind |-> outcome.kind, told |-> outcome.told]
  PROVE  /\ ShownIs(visits', scratch', current', shown') /\ Page!NewNamesAreFree /\ OpensRight
         /\ opened'.told \in {Page!None, "share", "id"}
<1> DEFINE intent == Page!readHash(link)
<1>1. ShownIs(visits', scratch', current', shown') /\ Page!NewNamesAreFree
  BY LoadedIs
<1>2. opened'.kind = outcome.kind /\ opened'.told = outcome.told
  OBVIOUS
<1>3. /\ Page!decodeShare(intent, codec) = {} /\ outcome.kind \in {"pick", "active", "default"}
      /\ outcome.told \in {Page!None, "share", "id"}
      /\ intent.src # {} => outcome.told = "share"
      /\ outcome.kind \in {"active", "default"} =>
           /\ \A id \in intent.pick : Page!resolveSource(id, scratch) = {}
           /\ intent.src # {} \/ intent.pick # {} \/ intent.unknown # {} => outcome.told # Page!None
      /\ outcome.kind = "pick" => outcome.id \in intent.pick
  BY DEF OtherFound
<1>4. Page!LinkIs
  BY DEF Page!PageInv
<1> HIDE DEF intent
<1>5. Page!SharedComesBack
  <2> SUFFICES ASSUME whole, NEW s \in sent
               PROVE  s.key = "src" /\ opened'.kind # "share" /\ opened'.told = "share"
    BY DEF Page!SharedComesBack
  <2>1. intent.src # {} /\ s.key = "src"
    BY <1>3, <1>4, WholeIs DEF intent
  <2> QED
    BY <1>2, <1>3, <2>1
<1>6. Page!DamageIsNoticed
  BY <1>2, <1>3 DEF Page!DamageIsNoticed
<1>7. Page!SaysWhatItDidNotOpen
  BY <1>2, <1>3, <1>4, IntentIs DEF Page!SaysWhatItDidNotOpen, intent
<1>8. Page!PickIsKept
  <2> SUFFICES ASSUME NEW id \in Page!Named(link, "pick"), Page!resolveSource(id, scratch) # {}
               PROVE  current' = {id} /\ shown' \in Page!resolveSource(id, scratch)
    BY DEF Page!PickIsKept
  <2>1. intent.pick = Page!Named(link, "pick")
    BY DEF intent, Page!readHash
  <2>2. outcome.kind = "pick" /\ outcome.id \in intent.pick
    BY <1>3, <2>1
  <2>3. outcome.id = id
    BY <1>4, <2>1, <2>2, NamedIs
  <2> QED
    BY <2>3 DEF Page!Load
<1> QED
  BY <1>1, <1>2, <1>3, <1>5, <1>6, <1>7, <1>8 DEF OpensRight

\* The invariant again, of the projects, the link and what the opening told.
LEMMA PageFrom ==
  ASSUME Page!PageInv, Page!Step, ShownIs(visits', scratch', current', shown'), Page!LinkIs',
         ready' \in BOOLEAN, whole' \in BOOLEAN,
         opened'.told \in {Page!None, "share", "id", "opened", "large"}
  PROVE  Page!PageInv'
<1>1. /\ Page!ListIs(scratch', visits') /\ Page!ActiveIs(current', scratch') /\ shown' \in Page!AllTexts
      /\ \A id \in current' : shown' \in Large \/ shown' \in Page!resolveSource(id, scratch')
  BY ShownGives
<1>2. visits' \in 0..MaxVisits
  BY StepIs
<1> QED
  BY <1>1, <1>2 DEF Page!PageInv, Page!EditorShowsTheProject

LEMMA OpenIs ==
  ASSUME Page!PageInv, Page!LinksFit, Page!Open
  PROVE  Page!PageInv' /\ Page!NewNamesAreFree /\ OpensRight
<1>1. Page!Step /\ ~ready /\ link' = link /\ sent' = sent /\ whole' = whole
  BY DEF Page!Open
<1>2. Page!LinkIs' /\ whole' \in BOOLEAN
  BY <1>1 DEF Page!PageInv, Page!LinkIs
<1>3. CASE Page!BootstrapThrows
  <2>1. ready' = FALSE /\ opened'.told = Page!None /\ scratch' = scratch /\ current' = current /\ shown' = shown
    BY <1>3 DEF Page!BootstrapThrows
  <2>2. visits \in Nat /\ visits' = visits + 1 /\ visits' \in 0..MaxVisits /\ Page!ListIs(scratch, visits)
    BY <1>1, StepIs DEF Page!PageInv
  <2>3. Page!ListIs(scratch', visits')
    BY <2>1, <2>2, LaterList
  <2>4. Page!ActiveIs(current', scratch') /\ shown' \in Page!AllTexts
    BY <2>1 DEF Page!PageInv
  <2>5. Page!PageInv'
    BY <1>2, <2>1, <2>2, <2>3, <2>4 DEF Page!PageInv, Page!EditorShowsTheProject
  <2>6. Page!NewNamesAreFree
    BY <2>1, SameNames
  <2>7. OpensRight
    BY <2>1 DEF OpensRight, Page!SharedComesBack, Page!DamageIsNoticed, Page!SaysWhatItDidNotOpen,
                Page!PickIsKept, Page!Opens
  <2> QED
    BY <2>5, <2>6, <2>7
<1>4. CASE \E codec \in Page!Codecs : Page!Bootstrap(Page!readHash(link), codec)
  <2>1. PICK codec \in Page!Codecs : Page!Bootstrap(Page!readHash(link), codec)
    BY <1>4
  <2> DEFINE decoded == Page!decodeShare(Page!readHash(link), codec)
             outcome == Page!resolveInitial(Page!readHash(link), decoded)
  <2>2. ShareFound(outcome, decoded) \/ OtherFound(outcome, Page!readHash(link), decoded)
    BY ResolveInitialIs
  <2>3. /\ ready' = TRUE
        /\ outcome.kind = "share" =>
             \/ Page!Adopt(outcome.text) /\ opened' = [kind |-> "share", told |-> "opened"]
             \/ Page!AdoptNothing(outcome.text) /\ opened' = [kind |-> "share", told |-> "large"]
        /\ outcome.kind # "share" =>
             /\ Page!Load(outcome.id, scratch) /\ scratch' = scratch
             /\ opened' = [kind |-> outcome.kind, told |-> outcome.told]
    BY <2>1 DEF Page!Bootstrap
  <2> HIDE DEF outcome
  <2>4. /\ ShownIs(visits', scratch', current', shown') /\ Page!NewNamesAreFree /\ OpensRight
        /\ opened'.told \in {Page!None, "share", "id", "opened", "large"}
    <3>1. CASE ShareFound(outcome, decoded)
      <4>1. outcome.kind = "share" /\ \E d \in decoded : outcome.text = d.text
        BY <3>1 DEF ShareFound
      <4> QED
        BY <1>1, <2>3, <4>1, ShareOpens
    <3>2. CASE OtherFound(outcome, Page!readHash(link), decoded)
      <4>1. outcome.kind # "share"
        BY <3>2 DEF OtherFound
      <4> QED
        BY <1>1, <2>3, <3>2, <4>1, OtherOpens
    <3> QED
      BY <2>2, <3>1, <3>2
  <2> QED
    BY <1>1, <1>2, <2>3, <2>4, PageFrom
<1> QED
  BY <1>3, <1>4 DEF Page!Open

\* A step that is no load of the page.
LEMMA NoOpening ==
  ASSUME ready \/ ~ready'
  PROVE  OpensRight
BY DEF OpensRight, Page!SharedComesBack, Page!DamageIsNoticed, Page!SaysWhatItDidNotOpen, Page!PickIsKept, Page!Opens

\* A step of the reader's on the page.
LEMMA HereKeeps ==
  ASSUME Page!PageInv, Page!Here, ShownIs(visits', scratch', current', shown')
  PROVE  Page!PageInv' /\ OpensRight
<1>1. /\ Page!Step /\ ready /\ ready' = ready /\ link' = link /\ sent' = sent /\ whole' = whole /\ opened' = opened
  BY DEF Page!Here
<1>2. /\ Page!LinkIs /\ ready \in BOOLEAN /\ whole \in BOOLEAN
      /\ opened.told \in {Page!None, "share", "id", "opened", "large"}
  BY DEF Page!PageInv
<1>3. Page!LinkIs'
  BY <1>1, <1>2 DEF Page!LinkIs
<1> QED
  BY <1>1, <1>2, <1>3, PageFrom, NoOpening

\* A step that leaves the projects alone.
LEMMA AwayKeeps ==
  ASSUME Page!PageInv, Page!Step, scratch' = scratch, current' = current, opened' = opened,
         shown' \in Page!AllTexts, (shown' = shown /\ ready' = ready) \/ ready' = FALSE,
         whole' \in BOOLEAN, Page!LinkIs'
  PROVE  Page!PageInv' /\ Page!NewNamesAreFree /\ OpensRight
<1>1. visits \in Nat /\ visits' = visits + 1 /\ visits' \in 0..MaxVisits
  BY StepIs
<1>2. /\ Page!ListIs(scratch, visits) /\ Page!ActiveIs(current, scratch) /\ Page!EditorShowsTheProject
      /\ ready \in BOOLEAN /\ opened.told \in {Page!None, "share", "id", "opened", "large"}
  BY DEF Page!PageInv
<1>3. Page!ListIs(scratch', visits')
  BY <1>1, <1>2, LaterList
<1>4. Page!ActiveIs(current', scratch')
  BY <1>2
<1>5. Page!EditorShowsTheProject'
  BY <1>2 DEF Page!EditorShowsTheProject
<1>6. Page!NewNamesAreFree
  BY SameNames
<1>7. Page!PageInv'
  BY <1>1, <1>2, <1>3, <1>4, <1>5 DEF Page!PageInv
<1> QED
  BY <1>2, <1>6, <1>7, NoOpening

LEMMA PageStarts ==
  ASSUME Page!Init
  PROVE  Page!PageInv
<1>1. /\ scratch = <<>> /\ current = {} /\ shown = Page!Rendered /\ ready = FALSE
      /\ link = <<>> /\ sent = {} /\ whole = TRUE /\ opened.told = Page!None /\ visits = 0
  BY DEF Page!Init
<1>2. Page!Rendered \in Page!AllTexts
  BY CatalogueIs DEF Page!AllTexts
<1>3. Page!ListIs(scratch, visits)
  <2>1. <<>> \in Seq(Page!Projects) /\ Len(<<>>) = 0
    OBVIOUS
  <2> QED
    BY <1>1, <2>1 DEF Page!ListIs
<1>4. Page!ActiveIs(current, scratch) /\ Page!EditorShowsTheProject
  BY <1>1 DEF Page!ActiveIs, Page!EditorShowsTheProject
<1>5. Page!LinkIs
  <2>1. <<>> \in Seq(Page!Parts) /\ Len(<<>>) = 0
    OBVIOUS
  <2> QED
    BY <1>1, <2>1 DEF Page!LinkIs
<1>6. visits \in 0..MaxVisits
  BY <1>1, OpeningAssumption DEF OpeningAssumption
<1> QED
  BY <1>1, <1>2, <1>3, <1>4, <1>5, <1>6 DEF Page!PageInv

LEMMA PageKeeps ==
  ASSUME Page!PageInv, Page!LinksFit, Page!Next
  PROVE  Page!PageInv' /\ Page!NewNamesAreFree /\ OpensRight
<1>0. Page!LinkIs /\ shown \in Page!AllTexts /\ whole \in BOOLEAN
  BY DEF Page!PageInv
<1>1. CASE Page!Open
  BY <1>1, OpenIs
<1>2. CASE Page!Leave
  <2>1. /\ Page!Step /\ ready' = FALSE /\ shown' = Page!Rendered
        /\ UNCHANGED <<scratch, current, link, sent, whole, opened>>
    BY <1>2 DEF Page!Leave
  <2>2. Page!LinkIs' /\ whole' \in BOOLEAN
    BY <1>0, <2>1 DEF Page!LinkIs
  <2>3. shown' \in Page!AllTexts
    BY <2>1, CatalogueIs DEF Page!AllTexts
  <2> QED
    BY <2>1, <2>2, <2>3, AwayKeeps
<1>3. CASE Page!Type
  BY <1>3, TypeIs, HereKeeps DEF Page!Type
<1>4. CASE Page!newProject
  BY <1>4, NewProjectIs, HereKeeps DEF Page!newProject
<1>5. CASE Page!duplicateScratch
  BY <1>5, DuplicateIs, HereKeeps DEF Page!duplicateScratch
<1>6. CASE Page!deleteProject
  BY <1>6, DeleteIs, HereKeeps DEF Page!deleteProject
<1>7. CASE Page!Rename
  BY <1>7, RenameIs, HereKeeps DEF Page!Rename
<1>8. CASE Page!Switch
  BY <1>8, SwitchIs, HereKeeps DEF Page!Switch
<1>9. CASE Page!Share
  <2>1. Page!LinkIs'
    BY <1>0, <1>9, ShareKeepsLink
  <2> QED
    BY <1>0, <1>9, <2>1, AwayKeeps DEF Page!Share, Page!Away
<1>10. CASE Page!Pick
  <2>1. Page!LinkIs'
    BY <1>10, PickKeepsLink
  <2> QED
    BY <1>0, <1>10, <2>1, AwayKeeps DEF Page!Pick, Page!Away
<1>11. CASE Page!Meddle
  <2>1. Page!LinkIs'
    BY <1>0, <1>11, MeddleKeepsLink
  <2> QED
    BY <1>0, <1>11, <2>1, AwayKeeps DEF Page!Meddle, Page!Away
<1>12. CASE Page!Forget
  <2>1. Page!LinkIs'
    BY <1>12, ForgetKeepsLink
  <2> QED
    BY <1>0, <1>12, <2>1, AwayKeeps DEF Page!Forget, Page!Away
<1>13. CASE Page!Stop
  <2>1. UNCHANGED Page!vars
    BY <1>13 DEF Page!Stop
  <2>2. Page!PageInv'
    BY <2>1 DEF Page!vars, Page!PageInv, Page!LinkIs, Page!EditorShowsTheProject
  <2>3. Page!NewNamesAreFree
    BY <2>1, SameNames DEF Page!vars
  <2>4. OpensRight
    BY <1>0, <2>1, NoOpening DEF Page!vars
  <2> QED
    BY <2>2, <2>3, <2>4
<1> QED
  BY <1>1, <1>2, <1>3, <1>4, <1>5, <1>6, <1>7, <1>8, <1>9, <1>10, <1>11, <1>12, <1>13 DEF Page!Next

LEMMA PageGives ==
  ASSUME Page!PageInv
  PROVE  Page!TypeOK /\ Page!EditorShowsTheProject
<1>1. Page!ListIs(scratch, visits)
  BY DEF Page!PageInv
<1>2. /\ \A i \in DOMAIN scratch : scratch[i].text \in Page!AllTexts /\ scratch[i].text \notin Large
      /\ \A i, j \in DOMAIN scratch : scratch[i].id = scratch[j].id => i = j
  BY <1>1, ListTypesOf DEF Page!ListIs
<1>3. \A i \in DOMAIN link : link[i].name \in {"src", "src0", "pick", "other"}
  BY LinkGives DEF Page!PageInv, PartOf, Page!Parts
<1> QED
  BY <1>2, <1>3 DEF Page!TypeOK, Page!PageInv, Page!ActiveIs

\* In a run about the opening of the page, its invariant holds.
PageHolds == component = "opening" => Page!PageInv
PageShown == component = "opening" => Page!TypeOK /\ Page!EditorShowsTheProject

\* Where what fits a link fits a project: however links are made, passed on, cut, written over and
\* added to, and whatever the reader's browser can inflate, resolveInitial() and the page's
\* bootstrap open the text a link was made of, in a project of its own, or tell that they did
\* not; and no new project takes a name or a text from one the reader has.
THEOREM LinksOpen == Page!LinksFit => (Spec => LinkOpensWhatWasSent)
<1> SUFFICES ASSUME Page!LinksFit PROVE Spec => LinkOpensWhatWasSent
  OBVIOUS
<1>1. Init => PageHolds
  BY PageStarts DEF Init, PageHolds
<1>2. PageHolds /\ [Next]_vars => PageHolds'
  <2> SUFFICES ASSUME PageHolds, [Next]_vars, component' = "opening" PROVE Page!PageInv'
    BY DEF PageHolds
  <2>1. CASE UNCHANGED vars
    <3>1. component = "opening" /\ Page!PageInv /\ pageVars' = pageVars
      BY <2>1 DEF PageHolds, vars
    <3> QED
      BY <3>1 DEF Page!PageInv, pageVars, Page!LinkIs, Page!EditorShowsTheProject
  <2>2. CASE Next
    <3>1. component = "opening" /\ Page!Next /\ Page!PageInv
      BY <2>2 DEF Next, PageHolds
    <3> QED
      BY <3>1, PageKeeps
  <2> QED
    BY <2>1, <2>2
<1>3. PageHolds => PageShown
  BY PageGives DEF PageHolds, PageShown
<1>4. PageHolds /\ PageShown' /\ [Next]_vars => [component = "opening" => Page!LinkOpensWhatWasSent]_pageVars
  <2> SUFFICES ASSUME PageHolds, PageShown', [Next]_vars, component = "opening", pageVars' # pageVars
               PROVE  Page!LinkOpensWhatWasSent
    OBVIOUS
  <2>1. component' = component /\ Next
    BY DEF Next, vars
  <2>2. Page!TypeOK' /\ Page!EditorShowsTheProject'
    BY <2>1 DEF PageShown
  <2>3. Page!PageInv /\ Page!Next
    BY <2>1 DEF PageHolds, Next
  <2> QED
    BY <2>2, <2>3, PageKeeps DEF Page!LinkOpensWhatWasSent, OpensRight
<1> QED
  BY <1>1, <1>2, <1>3, <1>4, PTL DEF Spec, LinkOpensWhatWasSent

-----------------------------------------------------------------------------
(* Texts in code units *)

Chars == Units!Units \cup {"b"}

LEMMA WholeParts ==
  ASSUME NEW text \in Seq(Chars), NEW k \in 0..Len(text)
  PROVE  /\ SubSeq(text, 1, k) \in Seq(Chars) /\ Len(SubSeq(text, 1, k)) = k /\ DOMAIN SubSeq(text, 1, k) = 1..k
         /\ \A i \in 1..k : SubSeq(text, 1, k)[i] = text[i]
         /\ SubSeq(text, k + 1, Len(text)) \in Seq(Chars) /\ Len(SubSeq(text, k + 1, Len(text))) = Len(text) - k
         /\ DOMAIN SubSeq(text, k + 1, Len(text)) = 1..(Len(text) - k)
         /\ \A i \in 1..(Len(text) - k) : SubSeq(text, k + 1, Len(text))[i] = text[k + i]
<1>1. Len(text) \in Nat /\ k \in Nat /\ k <= Len(text) /\ \A i \in 1..Len(text) : text[i] \in Chars
  OBVIOUS
<1>2. /\ 1 \in Int /\ k \in Int /\ k + 1 \in Int /\ Len(text) \in Int
      /\ \A i \in 1..k : text[i] \in Chars
      /\ \A i \in (k + 1)..Len(text) : text[i] \in Chars
  BY <1>1
<1> DEFINE front == SubSeq(text, 1, k)
           back == SubSeq(text, k + 1, Len(text))
<1>3. /\ front \in Seq(Chars) /\ Len(front) = (IF 1 <= k THEN k - 1 + 1 ELSE 0)
      /\ \A i \in 1..(k - 1 + 1) : front[i] = text[1 + i - 1]
  BY <1>2, SubSeqProperties
<1>4. /\ back \in Seq(Chars) /\ Len(back) = (IF k + 1 <= Len(text) THEN Len(text) - (k + 1) + 1 ELSE 0)
      /\ \A i \in 1..(Len(text) - (k + 1) + 1) : back[i] = text[(k + 1) + i - 1]
  BY <1>2, SubSeqProperties
<1> HIDE DEF front, back
<1>5. Len(front) = k /\ Len(back) = Len(text) - k /\ DOMAIN front = 1..k /\ DOMAIN back = 1..(Len(text) - k)
  BY <1>1, <1>3, <1>4
<1>6. \A i \in 1..k : i \in 1..(k - 1 + 1) /\ 1 + i - 1 = i
  BY <1>1
<1>7. \A i \in 1..(Len(text) - k) : i \in 1..(Len(text) - (k + 1) + 1) /\ (k + 1) + i - 1 = k + i
  BY <1>1
<1>8. \A i \in 1..k : front[i] = text[i]
  BY <1>3, <1>6
<1>9. \A i \in 1..(Len(text) - k) : back[i] = text[k + i]
  BY <1>4, <1>7
<1> QED
  BY <1>3, <1>4, <1>5, <1>8, <1>9 DEF front, back

LEMMA WellFormedIs ==
  ASSUME NEW text \in Seq(Chars)
  PROVE  Units!isWellFormed(text) <=>
           \A i \in 1..Len(text) : /\ text[i] = "H" => i < Len(text) /\ text[i + 1] = "L"
                                   /\ text[i] = "L" => i > 1 /\ text[i - 1] = "H"
BY DEF Units!isWellFormed

\* A text cut where a character ends leaves texts, and only there.
LEMMA PrefixWhole ==
  ASSUME NEW text \in Seq(Chars), Units!isWellFormed(text), NEW k \in 0..Len(text)
  PROVE  Units!isWellFormed(SubSeq(text, 1, k)) <=> Units!scalarBoundary(text, k)
<1> DEFINE front == SubSeq(text, 1, k)
<1>1. /\ front \in Seq(Chars) /\ Len(front) = k /\ \A i \in 1..k : front[i] = text[i]
      /\ Len(text) \in Nat /\ k \in Nat /\ k <= Len(text)
  BY WholeParts
<1>2. \A i \in 1..Len(text) : /\ text[i] = "H" => i < Len(text) /\ text[i + 1] = "L"
                              /\ text[i] = "L" => i > 1 /\ text[i - 1] = "H"
  BY WellFormedIs
<1> HIDE DEF front
<1>3. Units!isWellFormed(front) <=>
        \A i \in 1..k : /\ front[i] = "H" => i < k /\ front[i + 1] = "L"
                        /\ front[i] = "L" => i > 1 /\ front[i - 1] = "H"
  BY <1>1, WellFormedIs
<1>4. ASSUME Units!scalarBoundary(text, k), NEW i \in 1..k
      PROVE  /\ front[i] = "H" => i < k /\ front[i + 1] = "L"
             /\ front[i] = "L" => i > 1 /\ front[i - 1] = "H"
  <2>1. i \in 1..Len(text) /\ front[i] = text[i]
    BY <1>1
  <2>2. CASE i < k
    <3>1. i + 1 \in 1..k /\ (i > 1 => i - 1 \in 1..k)
      BY <1>1, <2>2
    <3> QED
      BY <1>1, <1>2, <2>1, <2>2, <3>1
  <2>3. CASE i = k
    <3>1. i > 1 => i - 1 \in 1..k
      BY <1>1, <2>3
    <3>2. text[k] # "H"
      BY <1>1, <1>2, <1>4, <2>1, <2>3 DEF Units!scalarBoundary
    <3> QED
      BY <1>1, <1>2, <2>1, <2>3, <3>1, <3>2
  <2> QED
    BY <1>1, <2>2, <2>3
<1>5. ASSUME Units!isWellFormed(front) PROVE Units!scalarBoundary(text, k)
  <2>1. k > 0 => k \in 1..k /\ front[k] # "H"
    BY <1>1, <1>3, <1>5
  <2> QED
    BY <1>1, <2>1 DEF Units!scalarBoundary
<1> QED
  BY <1>3, <1>4, <1>5 DEF front

LEMMA SuffixWhole ==
  ASSUME NEW text \in Seq(Chars), Units!isWellFormed(text), NEW k \in 0..Len(text),
         Units!isWellFormed(SubSeq(text, 1, k))
  PROVE  Units!isWellFormed(SubSeq(text, k + 1, Len(text)))
<1> DEFINE front == SubSeq(text, 1, k)
           back == SubSeq(text, k + 1, Len(text))
<1>1. /\ front \in Seq(Chars) /\ Len(front) = k /\ \A i \in 1..k : front[i] = text[i]
      /\ back \in Seq(Chars) /\ Len(back) = Len(text) - k /\ \A i \in 1..(Len(text) - k) : back[i] = text[k + i]
      /\ Len(text) \in Nat /\ k \in Nat /\ k <= Len(text)
  BY WholeParts
<1>2. \A i \in 1..Len(text) : /\ text[i] = "H" => i < Len(text) /\ text[i + 1] = "L"
                              /\ text[i] = "L" => i > 1 /\ text[i - 1] = "H"
  BY WellFormedIs
<1>3. k > 0 => front[k] # "H"
  <2>1. \A i \in 1..k : front[i] = "H" => i < k
    BY <1>1, WellFormedIs
  <2>2. k > 0 => k \in 1..k /\ ~(k < k)
    BY <1>1
  <2> QED
    BY <2>1, <2>2
<1> HIDE DEF front, back
<1>4. ASSUME NEW i \in 1..Len(back)
      PROVE  /\ back[i] = "H" => i < Len(back) /\ back[i + 1] = "L"
             /\ back[i] = "L" => i > 1 /\ back[i - 1] = "H"
  <2>1. k + i \in 1..Len(text) /\ back[i] = text[k + i]
    BY <1>1
  <2>2. back[i] = "H" => i < Len(back) /\ back[i + 1] = "L"
    <3>1. k + i < Len(text) => i + 1 \in 1..(Len(text) - k) /\ i < Len(back) /\ k + (i + 1) = (k + i) + 1
      BY <1>1
    <3> QED
      BY <1>1, <1>2, <2>1, <3>1
  <2>3. back[i] = "L" => text[(k + i) - 1] = "H" /\ k + i > 1
    BY <1>2, <2>1
  <2>4. i > 1 => i - 1 \in 1..(Len(text) - k) /\ k + (i - 1) = (k + i) - 1
    BY <1>1
  <2>5. i = 1 => (k + i) - 1 = k /\ (k + i > 1 => k \in 1..k /\ k > 0)
    BY <1>1
  <2>6. i > 1 \/ i = 1
    BY <1>1
  <2> QED
    BY <1>1, <1>3, <2>2, <2>3, <2>4, <2>5, <2>6
<1> QED
  BY <1>1, <1>4, WellFormedIs DEF back

LEMMA JoinWhole ==
  ASSUME NEW a \in Seq(Chars), NEW b \in Seq(Chars), Units!isWellFormed(a), Units!isWellFormed(b)
  PROVE  Units!isWellFormed(a \o b)
<1> DEFINE ab == a \o b
<1>1. /\ Len(a) \in Nat /\ Len(b) \in Nat /\ ab \in Seq(Chars) /\ Len(ab) = Len(a) + Len(b)
      /\ \A i \in 1..(Len(a) + Len(b)) : ab[i] = IF i <= Len(a) THEN a[i] ELSE b[i - Len(a)]
  BY ConcatProperties
<1>2. \A i \in 1..Len(a) : /\ a[i] = "H" => i < Len(a) /\ a[i + 1] = "L"
                           /\ a[i] = "L" => i > 1 /\ a[i - 1] = "H"
  BY WellFormedIs
<1>3. \A i \in 1..Len(b) : /\ b[i] = "H" => i < Len(b) /\ b[i + 1] = "L"
                           /\ b[i] = "L" => i > 1 /\ b[i - 1] = "H"
  BY WellFormedIs
<1> HIDE DEF ab
<1>4. ASSUME NEW i \in 1..Len(ab)
      PROVE  /\ ab[i] = "H" => i < Len(ab) /\ ab[i + 1] = "L"
             /\ ab[i] = "L" => i > 1 /\ ab[i - 1] = "H"
  <2>1. CASE i <= Len(a)
    <3>1. i \in 1..Len(a) /\ ab[i] = a[i] /\ (i < Len(a) => i < Len(ab) /\ i + 1 \in 1..Len(ab) /\ i + 1 <= Len(a))
          /\ (i > 1 => i - 1 \in 1..Len(ab) /\ i - 1 <= Len(a))
      BY <1>1, <2>1
    <3> QED
      BY <1>1, <1>2, <3>1
  <2>2. CASE ~(i <= Len(a))
    <3> DEFINE j == i - Len(a)
    <3>1. j \in 1..Len(b) /\ ab[i] = b[j]
      BY <1>1, <2>2
    <3>2. j < Len(b) => /\ i < Len(ab) /\ i + 1 \in 1..Len(ab) /\ ~(i + 1 <= Len(a)) /\ (i + 1) - Len(a) = j + 1
      BY <1>1, <2>2
    <3>3. j > 1 => /\ i > 1 /\ i - 1 \in 1..Len(ab) /\ ~(i - 1 <= Len(a)) /\ (i - 1) - Len(a) = j - 1
      BY <1>1, <2>2
    <3> HIDE DEF j
    <3> QED
      BY <1>1, <1>3, <3>1, <3>2, <3>3
  <2> QED
    BY <2>1, <2>2
<1> QED
  BY <1>1, <1>4, WellFormedIs DEF ab

\* What is behind a place in the first of two texts put together.
LEMMA TailOfJoin ==
  ASSUME NEW a \in Seq(Chars), NEW b \in Seq(Chars), NEW k \in 0..Len(a)
  PROVE  SubSeq(a \o b, k + 1, Len(a \o b)) = SubSeq(a, k + 1, Len(a)) \o b
<1> DEFINE ab == a \o b
           u == SubSeq(a, 1, k)  v == SubSeq(a, k + 1, Len(a))
           p == SubSeq(ab, 1, k)  q == SubSeq(ab, k + 1, Len(ab))
<1>1. /\ Len(a) \in Nat /\ Len(b) \in Nat /\ k \in Nat /\ k <= Len(a) /\ ab \in Seq(Chars) /\ Len(ab) = Len(a) + Len(b)
      /\ \A i \in 1..(Len(a) + Len(b)) : ab[i] = IF i <= Len(a) THEN a[i] ELSE b[i - Len(a)]
  BY ConcatProperties
<1>2. /\ u \in Seq(Chars) /\ Len(u) = k /\ v \in Seq(Chars) /\ \A i \in 1..k : u[i] = a[i]
  BY WholeParts
<1>3. k \in 0..Len(ab)
  BY <1>1
<1> HIDE DEF ab
<1>4. /\ p \in Seq(Chars) /\ Len(p) = k /\ q \in Seq(Chars) /\ \A i \in 1..k : p[i] = ab[i]
  BY <1>1, <1>3, WholeParts
<1>5. \A i \in 1..k : p[i] = u[i]
  <2>1. \A i \in 1..k : i \in 1..(Len(a) + Len(b)) /\ i <= Len(a)
    BY <1>1
  <2> QED
    BY <1>1, <1>2, <1>4, <2>1
<1>6. u \o v = a
  <2>1. 1 \in 1..(Len(a) + 1) /\ k \in (1 - 1)..Len(a) /\ Len(a) \in k..Len(a)
    BY <1>1
  <2> QED
    BY <2>1, ConcatAdjacentSubSeq, SubSeqFull
<1>7. p \o q = ab
  <2>1. 1 \in 1..(Len(ab) + 1) /\ k \in (1 - 1)..Len(ab) /\ Len(ab) \in k..Len(ab)
    BY <1>1
  <2> QED
    BY <1>1, <2>1, ConcatAdjacentSubSeq, SubSeqFull
<1> HIDE DEF u, v, p, q
<1>8. p = u
  BY <1>2, <1>4, <1>5, SeqEqual
<1>9. u \o q = u \o (v \o b)
  <2>1. (u \o v) \o b = u \o (v \o b)
    <3>1. u \in Seq(Chars) /\ v \in Seq(Chars) /\ b \in Seq(Chars)
      BY <1>2
    <3> QED
      BY <3>1, ConcatAssociative
  <2> QED
    BY <1>6, <1>7, <1>8, <2>1 DEF ab
<1>10. v \o b \in Seq(Chars) /\ u \in Seq(Chars) /\ q \in Seq(Chars)
  BY <1>2, <1>4, ConcatProperties
<1>11. q = v \o b
  BY <1>9, <1>10, ConcatSimplifications, Zenon
<1> QED
  BY <1>11 DEF q, v, ab

\* The tables by which edits are made, meant and pages put together, line by line.
EndIn(es, k) == IF k = 0 THEN 0 ELSE es[k].to
FirstLine(kind, i, es, b) == IF kind = "after" THEN b ELSE IF kind = "meant" THEN <<>> ELSE es[i]
NextLine(kind, s, i, es, b) ==
  IF kind = "after" THEN Units!Replace(s, es[Len(es) + 1 - i])
  ELSE IF kind = "meant" THEN s \o SubSeq(b, EndIn(es, i - 1) + 1, es[i].from) \o es[i].text
  ELSE s \o es[i]
Lines(f, kind, a, n, es, b) ==
  f = [i \in a..n |-> IF i = a THEN FirstLine(kind, i, es, b) ELSE NextLine(kind, f[i - 1], i, es, b)]

LEMMA LinesExist ==
  ASSUME NEW kind, NEW a \in Nat, NEW es, NEW b, NEW n \in Nat, a <= n
  PROVE  \E f : Lines(f, kind, a, n, es, b)
<1> DEFINE T == {k \in Nat : a <= k /\ ~\E f : Lines(f, kind, a, k, es, b)}
           first(i) == FirstLine(kind, i, es, b)
           step(s, i) == NextLine(kind, s, i, es, b)
<1>1. SUFFICES ASSUME T # {} PROVE FALSE
  OBVIOUS
<1>2. PICK m \in T : \A k \in T : m <= k
  BY <1>1, LeastOne
<1>3. m \in Nat /\ a <= m /\ ~\E f : Lines(f, kind, a, m, es, b)
  BY <1>2
<1>4. \A f, k : Lines(f, kind, a, k, es, b) <=>
           f = [i \in a..k |-> IF i = a THEN first(i) ELSE step(f[i - 1], i)]
  BY DEF Lines
<1> HIDE DEF first, step
<1>5. CASE m = a
  <2> DEFINE f == [i \in a..a |-> first(i)]
             h == [i \in a..a |-> IF i = a THEN first(i) ELSE step(f[i - 1], i)]
  <2>1. \A i \in a..a : i = a
    OBVIOUS
  <2>2. \A i \in a..a : f[i] = h[i]
    BY <2>1
  <2>3. f = h
    <3> HIDE DEF h
    <3>1. f = [i \in a..a |-> f[i]] /\ h = [i \in a..a |-> h[i]]
      BY DEF h
    <3> HIDE DEF f
    <3> QED
      BY <2>2, <3>1
  <2> HIDE DEF f
  <2> QED
    BY <1>3, <1>4, <1>5, <2>3
<1>6. CASE m # a
  <2>1. m - 1 \in Nat /\ ~(m <= m - 1) /\ a <= m - 1
    BY <1>3, <1>6
  <2>2. m - 1 \notin T
    BY <1>2, <2>1
  <2> DEFINE k == m - 1
  <2>3. PICK g : g = [i \in a..k |-> IF i = a THEN first(i) ELSE step(g[i - 1], i)]
    BY <1>4, <2>1, <2>2
  <2> DEFINE f == [i \in a..m |-> IF i <= k THEN g[i] ELSE step(g[k], i)]
             h == [i \in a..m |-> IF i = a THEN first(i) ELSE step(f[i - 1], i)]
  <2>4. ASSUME NEW i \in a..m PROVE f[i] = h[i]
    <3>1. CASE i = a
      <4>1. i <= k /\ i \in a..k
        BY <1>3, <2>1, <3>1
      <4>2. f[i] = g[i] /\ g[i] = first(i) /\ h[i] = first(i)
        BY <2>3, <3>1, <4>1
      <4> QED
        BY <4>2
    <3>2. CASE i # a /\ i <= k
      <4>1. i \in a..k /\ i - 1 \in a..m /\ i - 1 <= k
        BY <1>3, <2>1, <3>2
      <4>2. f[i] = g[i] /\ f[i - 1] = g[i - 1]
            /\ g[i] = step(g[i - 1], i) /\ h[i] = step(f[i - 1], i)
        BY <2>3, <3>2, <4>1
      <4> QED
        BY <4>2
    <3>3. CASE ~(i <= k)
      <4>1. i # a /\ i - 1 = k /\ k \in a..m /\ k <= k
        BY <1>3, <2>1, <3>3
      <4>2. f[i] = step(g[k], i) /\ f[k] = g[k] /\ h[i] = step(f[i - 1], i)
        BY <3>3, <4>1
      <4> QED
        BY <4>1, <4>2
    <3> QED
      BY <3>1, <3>2, <3>3
  <2>5. f = h
    <3> HIDE DEF h
    <3>1. f = [i \in a..m |-> f[i]] /\ h = [i \in a..m |-> h[i]]
      BY DEF h
    <3> HIDE DEF f
    <3> QED
      BY <2>4, <3>1
  <2> HIDE DEF f
  <2> QED
    BY <1>3, <1>4, <2>5
<1> QED
  BY <1>5, <1>6

\* The text after each number of edits, from the last one on.
AfterLines(f, b, es) ==
  f = [k \in 0..Len(es) |-> IF k = 0 THEN b ELSE Units!Replace(f[k - 1], es[Len(es) + 1 - k])]

LEMMA ReplacedIs ==
  ASSUME NEW b, NEW es, Len(es) \in Nat
  PROVE  \E f : /\ Units!Replaced(b, es) = f[Len(es)] /\ f[0] = b
                /\ \A k \in 1..Len(es) : f[k] = Units!Replace(f[k - 1], es[Len(es) + 1 - k])
<1>1. \E f : Lines(f, "after", 0, Len(es), es, b)
  <2>1. 0 \in Nat /\ Len(es) \in Nat /\ 0 <= Len(es)
    OBVIOUS
  <2> QED
    BY <2>1, LinesExist
<1>2. \A f : Lines(f, "after", 0, Len(es), es, b) <=> AfterLines(f, b, es)
  BY DEF Lines, FirstLine, NextLine, AfterLines
<1> DEFINE g == CHOOSE f : AfterLines(f, b, es)
<1>3. AfterLines(g, b, es)
  BY <1>1, <1>2
<1>4. Units!Replaced(b, es) = g[Len(es)]
  BY DEF Units!Replaced, AfterLines
<1> HIDE DEF g
<1>5. 0 \in 0..Len(es) /\ \A k \in 1..Len(es) : k \in 0..Len(es) /\ k # 0
  OBVIOUS
<1>6. g[0] = b /\ \A k \in 1..Len(es) : g[k] = Units!Replace(g[k - 1], es[Len(es) + 1 - k])
  BY <1>3, <1>5 DEF AfterLines
<1> QED
  BY <1>4, <1>6

\* What edits mean, up to each of them.
MeantLines(f, b, es) ==
  f = [k \in 0..Len(es) |->
         IF k = 0 THEN <<>> ELSE f[k - 1] \o SubSeq(b, EndIn(es, k - 1) + 1, es[k].from) \o es[k].text]

LEMMA MeantIs ==
  ASSUME Len(ranges) \in Nat
  PROVE  \E f : /\ Units!Meant(Len(ranges)) = f[Len(ranges)] /\ f[0] = <<>>
                /\ \A k \in 1..Len(ranges) :
                     f[k] = f[k - 1] \o SubSeq(body, EndIn(ranges, k - 1) + 1, ranges[k].from) \o ranges[k].text
<1>1. \E f : Lines(f, "meant", 0, Len(ranges), ranges, body)
  <2>1. 0 \in Nat /\ Len(ranges) \in Nat /\ 0 <= Len(ranges)
    OBVIOUS
  <2> QED
    BY <2>1, LinesExist
<1>2. \A f : Lines(f, "meant", 0, Len(ranges), ranges, body) <=> MeantLines(f, body, ranges)
  BY DEF Lines, FirstLine, NextLine, MeantLines
<1> DEFINE g == CHOOSE f : MeantLines(f, body, ranges)
<1>3. MeantLines(g, body, ranges)
  BY <1>1, <1>2
<1>4. Units!Meant(Len(ranges)) = g[Len(ranges)]
  BY DEF Units!Meant, MeantLines, Units!EndOf, EndIn
<1> HIDE DEF g
<1>5. 0 \in 0..Len(ranges) /\ \A k \in 1..Len(ranges) : k \in 0..Len(ranges) /\ k # 0
  OBVIOUS
<1>6. g[0] = <<>> /\ \A k \in 1..Len(ranges) :
        g[k] = g[k - 1] \o SubSeq(body, EndIn(ranges, k - 1) + 1, ranges[k].from) \o ranges[k].text
  BY <1>3, <1>5 DEF MeantLines
<1> QED
  BY <1>4, <1>6

\* Pages put together, page by page.
JoinedLines(f, ps) == f = [i \in 1..Len(ps) |-> IF i = 1 THEN ps[i] ELSE f[i - 1] \o ps[i]]
Joined(ps) == CHOOSE f : JoinedLines(f, ps)

LEMMA JoinedIs ==
  ASSUME NEW ps, Len(ps) \in Nat \ {0}
  PROVE  /\ Units!FlattenSeq(ps) = Joined(ps)[Len(ps)] /\ Joined(ps)[1] = ps[1]
         /\ \A i \in 2..Len(ps) : Joined(ps)[i] = Joined(ps)[i - 1] \o ps[i]
<1>1. \E f : Lines(f, "joined", 1, Len(ps), ps, <<>>)
  <2>1. 1 \in Nat /\ Len(ps) \in Nat /\ 1 <= Len(ps)
    OBVIOUS
  <2> QED
    BY <2>1, LinesExist
<1>2. \A f : Lines(f, "joined", 1, Len(ps), ps, <<>>) <=> JoinedLines(f, ps)
  BY DEF Lines, FirstLine, NextLine, JoinedLines
<1> DEFINE g == CHOOSE f : JoinedLines(f, ps)
<1>3. JoinedLines(g, ps)
  BY <1>1, <1>2
<1>4. Units!FlattenSeq(ps) = g[Len(ps)]
  BY DEF Units!FlattenSeq, JoinedLines
<1>0. Joined(ps) = g
  BY DEF Joined
<1> HIDE DEF g
<1>5. 1 \in 1..Len(ps) /\ \A i \in 2..Len(ps) : i \in 1..Len(ps) /\ i # 1
  OBVIOUS
<1>6. g[1] = ps[1] /\ \A i \in 2..Len(ps) : g[i] = g[i - 1] \o ps[i]
  BY <1>3, <1>5 DEF JoinedLines
<1> QED
  BY <1>0, <1>4, <1>6

LEMMA JoinedNone == Units!FlattenSeq(<<>>) = <<>>
<1>1. Len(<<>>) = 0
  OBVIOUS
<1> QED
  BY <1>1 DEF Units!FlattenSeq

\* A page more is put behind what there was.
LEMMA JoinedOneMore ==
  ASSUME NEW S, NEW ps \in Seq(Seq(S)), NEW p \in Seq(S)
  PROVE  Units!FlattenSeq(Append(ps, p)) = Units!FlattenSeq(ps) \o p
<1> DEFINE n == Len(ps)
           qs == Append(ps, p)
           f == Joined(ps)
           g == Joined(qs)
           T == {i \in 1..n : f[i] # g[i]}
<1>1. n \in Nat /\ Len(qs) = n + 1 /\ qs[n + 1] = p /\ \A i \in 1..n : qs[i] = ps[i]
  OBVIOUS
<1> HIDE DEF qs, n
<1>2. /\ Units!FlattenSeq(qs) = g[n + 1] /\ g[1] = qs[1]
      /\ \A i \in 2..(n + 1) : g[i] = g[i - 1] \o qs[i]
  <2>1. Len(qs) \in Nat \ {0}
    BY <1>1
  <2>2. Units!FlattenSeq(qs) = Joined(qs)[Len(qs)] /\ Joined(qs)[1] = qs[1]
        /\ \A i \in 2..Len(qs) : Joined(qs)[i] = Joined(qs)[i - 1] \o qs[i]
    BY <2>1, JoinedIs
  <2> QED
    BY <1>1, <2>2
<1>3. CASE n = 0
  <2>1. ps = <<>>
    BY <1>3 DEF n
  <2>2. Units!FlattenSeq(ps) = <<>> /\ Units!FlattenSeq(qs) = p
    BY <1>1, <1>2, <1>3, <2>1, JoinedNone
  <2>3. <<>> \o p = p
    OBVIOUS
  <2> QED
    BY <2>2, <2>3 DEF qs
<1>4. CASE n # 0
  <2>1. /\ Units!FlattenSeq(ps) = f[n] /\ f[1] = ps[1]
        /\ \A i \in 2..n : f[i] = f[i - 1] \o ps[i]
    BY <1>1, <1>4, JoinedIs DEF n
  <2> HIDE DEF f, g
  <2>2. T = {}
    <3>1. SUFFICES ASSUME T # {} PROVE FALSE
      OBVIOUS
    <3>2. T \in SUBSET Nat
      OBVIOUS
    <3>3. PICK i \in T : \A k \in T : i <= k
      BY <3>1, <3>2, LeastOne
    <3>4. i \in 1..n /\ f[i] # g[i]
      BY <3>3
    <3>5. i # 1
      BY <1>1, <1>2, <2>1, <3>4
    <3>6. i \in 2..n /\ i \in 2..(n + 1) /\ i - 1 \in 1..n /\ ~(i <= i - 1)
      BY <1>1, <3>4, <3>5
    <3>7. f[i - 1] = g[i - 1]
      BY <3>3, <3>6
    <3> QED
      BY <1>1, <1>2, <2>1, <3>4, <3>6, <3>7
  <2>3. n \in 1..n /\ n + 1 \in 2..(n + 1) /\ (n + 1) - 1 = n
    BY <1>1, <1>4
  <2>4. f[n] = g[n]
    BY <2>2, <2>3
  <2> QED
    BY <1>1, <1>2, <2>1, <2>3, <2>4 DEF qs
<1> QED
  BY <1>3, <1>4

LEMMA ChainTexts ==
  ASSUME NEW s \in Seq(Chars), NEW t \in Seq(Chars), NEW u \in Seq(Chars)
  PROVE  (s \o t) \o u = s \o (t \o u)
BY ConcatAssociative

LEMMA MidPart ==
  ASSUME NEW text \in Seq(Chars), NEW k \in 0..Len(text), NEW x \in 0..k
  PROVE  /\ SubSeq(text, x + 1, k) \in Seq(Chars) /\ Len(SubSeq(text, x + 1, k)) = k - x
         /\ \A i \in 1..(k - x) : SubSeq(text, x + 1, k)[i] = text[x + i]
<1>1. Len(text) \in Nat /\ k \in Nat /\ k <= Len(text) /\ x \in Nat /\ x <= k /\ \A i \in 1..Len(text) : text[i] \in Chars
  OBVIOUS
<1>2. x + 1 \in Int /\ k \in Int /\ \A i \in (x + 1)..k : text[i] \in Chars
  BY <1>1
<1> DEFINE mid == SubSeq(text, x + 1, k)
<1>3. /\ mid \in Seq(Chars) /\ Len(mid) = (IF x + 1 <= k THEN k - (x + 1) + 1 ELSE 0)
      /\ \A i \in 1..(k - (x + 1) + 1) : mid[i] = text[(x + 1) + i - 1]
  BY <1>2, SubSeqProperties
<1> HIDE DEF mid
<1>4. Len(mid) = k - x
  BY <1>1, <1>3
<1>5. \A i \in 1..(k - x) : i \in 1..(k - (x + 1) + 1) /\ (x + 1) + i - 1 = x + i
  BY <1>1
<1> QED
  BY <1>3, <1>4, <1>5 DEF mid

\* Two texts alike up to a place begin with the same text.
LEMMA SameFront ==
  ASSUME NEW s \in Seq(Chars), NEW t \in Seq(Chars), NEW k \in Nat, k <= Len(s), k <= Len(t),
         \A i \in 1..k : s[i] = t[i]
  PROVE  SubSeq(s, 1, k) = SubSeq(t, 1, k)
<1> DEFINE u == SubSeq(s, 1, k)  v == SubSeq(t, 1, k)
<1>1. k \in 0..Len(s) /\ k \in 0..Len(t)
  OBVIOUS
<1>2. u \in Seq(Chars) /\ Len(u) = k /\ \A i \in 1..k : u[i] = s[i]
  BY <1>1, WholeParts
<1>3. v \in Seq(Chars) /\ Len(v) = k /\ \A i \in 1..k : v[i] = t[i]
  BY <1>1, WholeParts
<1> HIDE DEF u, v
<1>4. u = v
  BY <1>2, <1>3, SeqEqual
<1> QED
  BY <1>4 DEF u, v

LEMMA PieceOfFront ==
  ASSUME NEW text \in Seq(Chars), NEW k \in 0..Len(text), NEW x \in 0..k
  PROVE  SubSeq(SubSeq(text, 1, k), x + 1, k) = SubSeq(text, x + 1, k)
<1> DEFINE front == SubSeq(text, 1, k)
           u == SubSeq(front, x + 1, k)
           v == SubSeq(text, x + 1, k)
<1>1. front \in Seq(Chars) /\ Len(front) = k /\ \A i \in 1..k : front[i] = text[i]
  BY WholeParts
<1>2. v \in Seq(Chars) /\ Len(v) = k - x /\ \A i \in 1..(k - x) : v[i] = text[x + i]
  BY MidPart
<1> HIDE DEF front
<1>3. u \in Seq(Chars) /\ Len(u) = k - x /\ \A i \in 1..(k - x) : u[i] = front[x + i]
  <2>1. k \in 0..Len(front)
    BY <1>1
  <2> QED
    BY <1>1, <2>1, MidPart
<1>4. \A i \in 1..(k - x) : x + i \in 1..k
  OBVIOUS
<1> HIDE DEF u, v
<1>5. \A i \in 1..(k - x) : u[i] = v[i]
  BY <1>1, <1>2, <1>3, <1>4
<1>6. u = v
  BY <1>2, <1>3, <1>5, SeqEqual
<1> QED
  BY <1>6 DEF u, v, front

\* What edits that are accepted are: ranges of whole characters, one behind the other.
Orderly(b, es) ==
  \A i \in 1..Len(es) :
    /\ es[i].text \in Seq(Chars) /\ Units!isWellFormed(es[i].text)
    /\ es[i].from \in Nat /\ es[i].to \in Nat /\ EndIn(es, i - 1) \in Nat
    /\ EndIn(es, i - 1) <= es[i].from /\ es[i].from <= es[i].to /\ es[i].to <= Len(b)
    /\ Units!isWellFormed(SubSeq(b, 1, es[i].from)) /\ Units!isWellFormed(SubSeq(b, 1, es[i].to))

\* The text when the edits behind the m-th one are made, and g what edits mean: it is as
\* it was up to there, and the rest is as it shall be.
EditedTo(R, m, g, b, es) ==
  /\ R \in Seq(Chars) /\ Units!isWellFormed(R) /\ EndIn(es, m) <= Len(R)
  /\ \A i \in 1..EndIn(es, m) : R[i] = b[i]
  /\ g[m] \o SubSeq(R, EndIn(es, m) + 1, Len(R)) = g[Len(es)] \o SubSeq(b, EndIn(es, Len(es)) + 1, Len(b))

LEMMA EditOneMore ==
  ASSUME NEW b \in Seq(Chars), NEW es, Orderly(b, es), NEW g, NEW R,
         Len(es) \in Nat, NEW m \in 1..Len(es), g[m - 1] \in Seq(Chars),
         g[m] = g[m - 1] \o SubSeq(b, EndIn(es, m - 1) + 1, es[m].from) \o es[m].text,
         EditedTo(R, m, g, b, es)
  PROVE  EditedTo(Units!Replace(R, es[m]), m - 1, g, b, es)
<1> DEFINE from == es[m].from  to == es[m].to  text == es[m].text  x == EndIn(es, m - 1)
           front == SubSeq(R, 1, from)
           back == SubSeq(R, to + 1, Len(R))
           mid == SubSeq(b, x + 1, from)
           all == Units!Replace(R, es[m])
           end == g[Len(es)] \o SubSeq(b, EndIn(es, Len(es)) + 1, Len(b))
<1>1. /\ text \in Seq(Chars) /\ Units!isWellFormed(text) /\ from \in Nat /\ to \in Nat /\ x \in Nat
      /\ x <= from /\ from <= to /\ to <= Len(b)
      /\ Units!isWellFormed(SubSeq(b, 1, from)) /\ Units!isWellFormed(SubSeq(b, 1, to))
  BY DEF Orderly
<1>2. EndIn(es, m) = to
  BY DEF EndIn
<1>3. /\ R \in Seq(Chars) /\ Units!isWellFormed(R) /\ to <= Len(R) /\ \A i \in 1..to : R[i] = b[i]
      /\ g[m] \o back = end
  BY <1>2 DEF EditedTo
<1>4. all = front \o text \o back
  BY DEF Units!Replace
<1>5. g[m] = g[m - 1] \o mid \o text
  OBVIOUS
<1>6. EditedTo(all, m - 1, g, b, es) <=>
        /\ all \in Seq(Chars) /\ Units!isWellFormed(all) /\ x <= Len(all)
        /\ \A i \in 1..x : all[i] = b[i]
        /\ g[m - 1] \o SubSeq(all, x + 1, Len(all)) = end
  BY DEF EditedTo
<1> HIDE DEF from, to, text, x, mid, end
<1>7. Len(R) \in Nat /\ Len(b) \in Nat /\ from \in 0..Len(R) /\ to \in 0..Len(R) /\ from <= Len(b) /\ x \in 0..from
  BY <1>1, <1>3
<1>8. front \in Seq(Chars) /\ Len(front) = from /\ \A i \in 1..from : front[i] = R[i]
  BY <1>3, <1>7, WholeParts
<1>9. back \in Seq(Chars)
  BY <1>3, <1>7, WholeParts
<1>10. front = SubSeq(b, 1, from)
  <2>1. \A i \in 1..from : R[i] = b[i]
    BY <1>1, <1>3
  <2> QED
    BY <1>1, <1>3, <1>7, <2>1, SameFront
<1>11. Units!isWellFormed(back)
  <2>1. SubSeq(R, 1, to) = SubSeq(b, 1, to)
    BY <1>1, <1>3, SameFront
  <2> QED
    BY <1>1, <1>3, <1>7, <2>1, SuffixWhole
<1>12. Units!isWellFormed(front)
  BY <1>1, <1>10
<1>13. mid \in Seq(Chars) /\ SubSeq(front, x + 1, from) = mid
  <2>1. from \in 0..Len(b)
    BY <1>7
  <2> QED
    BY <1>7, <1>10, <2>1, MidPart, PieceOfFront DEF mid
<1> HIDE DEF front, back, all
<1> DEFINE rest == text \o back
<1>14. rest \in Seq(Chars) /\ Units!isWellFormed(rest) /\ Len(rest) \in Nat
  BY <1>1, <1>9, <1>11, JoinWhole, ConcatProperties
<1>15. all = front \o rest
  <2>1. front \in Seq(Chars) /\ text \in Seq(Chars) /\ back \in Seq(Chars)
    BY <1>1, <1>8, <1>9
  <2>2. (front \o text) \o back = front \o (text \o back)
    BY <2>1, ChainTexts, Zenon
  <2> QED
    BY <1>4, <2>2
<1> HIDE DEF rest
<1>16. /\ all \in Seq(Chars) /\ Len(all) = from + Len(rest)
       /\ \A i \in 1..(from + Len(rest)) : all[i] = IF i <= from THEN front[i] ELSE rest[i - from]
  BY <1>8, <1>14, <1>15, ConcatProperties
<1>17. Units!isWellFormed(all)
  BY <1>8, <1>12, <1>14, <1>15, JoinWhole
<1>18. x <= Len(all) /\ \A i \in 1..x : all[i] = b[i]
  <2>1. \A i \in 1..x : i \in 1..(from + Len(rest)) /\ i <= from /\ i \in 1..from /\ i \in 1..to
    BY <1>1, <1>14
  <2>2. \A i \in 1..x : all[i] = front[i]
    BY <1>16, <2>1
  <2>3. \A i \in 1..x : front[i] = R[i]
    BY <1>8, <2>1
  <2>4. \A i \in 1..x : R[i] = b[i]
    BY <1>3, <2>1
  <2>5. x <= Len(all)
    BY <1>1, <1>14, <1>16
  <2> QED
    BY <2>2, <2>3, <2>4, <2>5
<1>19. SubSeq(all, x + 1, Len(all)) = mid \o rest
  <2>1. x \in 0..Len(front)
    BY <1>7, <1>8
  <2> QED
    BY <1>8, <1>13, <1>14, <1>15, <2>1, TailOfJoin
<1>20. g[m - 1] \o (mid \o rest) = end
  <2> DEFINE a == g[m - 1]
  <2>0. a \in Seq(Chars) /\ mid \in Seq(Chars) /\ text \in Seq(Chars) /\ back \in Seq(Chars) /\ a \o mid \in Seq(Chars)
    BY <1>1, <1>9, <1>13, ConcatProperties
  <2>1. end = a \o mid \o text \o back
    BY <1>3, <1>5
  <2> HIDE DEF a
  <2>2. (a \o mid) \o text \o back = (a \o mid) \o (text \o back)
    <3>1. a \o mid \in Seq(Chars) /\ text \in Seq(Chars) /\ back \in Seq(Chars)
      BY <2>0
    <3> QED
      BY <3>1, ChainTexts, Zenon
  <2>3. (a \o mid) \o rest = a \o (mid \o rest)
    <3>1. a \in Seq(Chars) /\ mid \in Seq(Chars) /\ rest \in Seq(Chars)
      BY <1>14, <2>0
    <3> QED
      BY <3>1, ChainTexts, Zenon
  <2> QED
    BY <2>1, <2>2, <2>3 DEF rest, a
<1> QED
  BY <1>6, <1>16, <1>17, <1>18, <1>19, <1>20 DEF all

\* What edits mean is made of texts.
LEMMA MeantTexts ==
  ASSUME NEW b \in Seq(Chars), NEW es, Orderly(b, es), NEW g, Len(es) \in Nat, g[0] = <<>>,
         \A k \in 1..Len(es) : g[k] = g[k - 1] \o SubSeq(b, EndIn(es, k - 1) + 1, es[k].from) \o es[k].text
  PROVE  \A k \in 0..Len(es) : g[k] \in Seq(Chars)
<1> DEFINE T == {k \in 0..Len(es) : g[k] \notin Seq(Chars)}
<1>1. SUFFICES ASSUME T # {} PROVE FALSE
  OBVIOUS
<1>2. T \in SUBSET Nat
  OBVIOUS
<1>3. PICK m \in T : \A k \in T : m <= k
  BY <1>1, <1>2, LeastOne
<1>4. m \in 0..Len(es) /\ g[m] \notin Seq(Chars)
  BY <1>3
<1>5. m # 0
  <2>1. <<>> \in Seq(Chars)
    OBVIOUS
  <2> QED
    BY <1>4, <2>1
<1>6. m \in 1..Len(es) /\ m - 1 \in 0..Len(es) /\ ~(m <= m - 1)
  BY <1>4, <1>5
<1>7. g[m - 1] \in Seq(Chars)
  BY <1>3, <1>6
<1>8. /\ es[m].text \in Seq(Chars) /\ es[m].from \in 0..Len(b) /\ EndIn(es, m - 1) \in 0..es[m].from
  <2>1. /\ es[m].text \in Seq(Chars) /\ es[m].from \in Nat /\ es[m].to \in Nat /\ EndIn(es, m - 1) \in Nat
        /\ EndIn(es, m - 1) <= es[m].from /\ es[m].from <= es[m].to /\ es[m].to <= Len(b)
    BY <1>6 DEF Orderly
  <2>2. Len(b) \in Nat
    OBVIOUS
  <2> QED
    BY <2>1, <2>2
<1>9. SubSeq(b, EndIn(es, m - 1) + 1, es[m].from) \in Seq(Chars)
  BY <1>8, MidPart
<1>10. g[m - 1] \o SubSeq(b, EndIn(es, m - 1) + 1, es[m].from) \in Seq(Chars)
  BY <1>7, <1>9, ConcatProperties
<1>11. g[m - 1] \o SubSeq(b, EndIn(es, m - 1) + 1, es[m].from) \o es[m].text \in Seq(Chars)
  BY <1>8, <1>10, ConcatProperties
<1> QED
  BY <1>4, <1>6, <1>11

\* Edits made from the last to the first are what they mean from the first to the last.
LEMMA ReplacedMeans ==
  ASSUME NEW b \in Seq(Chars), Units!isWellFormed(b), NEW es, Orderly(b, es), Len(es) \in Nat \ {0}, NEW g, NEW f,
         g[0] = <<>>, f[0] = b,
         \A k \in 1..Len(es) : g[k] = g[k - 1] \o SubSeq(b, EndIn(es, k - 1) + 1, es[k].from) \o es[k].text,
         \A k \in 1..Len(es) : f[k] = Units!Replace(f[k - 1], es[Len(es) + 1 - k])
  PROVE  /\ f[Len(es)] \in Seq(Chars) /\ Units!isWellFormed(f[Len(es)])
         /\ f[Len(es)] = g[Len(es)] \o SubSeq(b, EndIn(es, Len(es)) + 1, Len(b))
<1> DEFINE n == Len(es)
           T == {j \in 0..n : ~EditedTo(f[j], n - j, g, b, es)}
<1>1. \A k \in 0..n : g[k] \in Seq(Chars)
  BY MeantTexts
<1>2. EndIn(es, n) <= Len(b) /\ EndIn(es, n) \in Nat /\ Len(b) \in Nat
  BY DEF Orderly, EndIn
<1>3. EditedTo(f[0], n, g, b, es)
  BY <1>2 DEF EditedTo
<1>4. T = {}
  <2>1. SUFFICES ASSUME T # {} PROVE FALSE
    OBVIOUS
  <2>2. T \in SUBSET Nat
    OBVIOUS
  <2>3. PICK j \in T : \A k \in T : j <= k
    BY <2>1, <2>2, LeastOne
  <2>4. j \in 0..n /\ ~EditedTo(f[j], n - j, g, b, es)
    BY <2>3
  <2>5. j # 0
    <3>1. n - 0 = n
      OBVIOUS
    <3> QED
      BY <1>3, <2>4, <3>1
  <2> DEFINE m == n - (j - 1)
  <2>6. j \in 1..n /\ j - 1 \in 0..n /\ ~(j <= j - 1) /\ m \in 1..n /\ m - 1 = n - j /\ n + 1 - j = m /\ m - 1 \in 0..n
    BY <2>4, <2>5
  <2>7. EditedTo(f[j - 1], m, g, b, es)
    BY <2>3, <2>6
  <2>8. f[j] = Units!Replace(f[j - 1], es[m])
    BY <2>6
  <2>9. g[m] = g[m - 1] \o SubSeq(b, EndIn(es, m - 1) + 1, es[m].from) \o es[m].text /\ g[m - 1] \in Seq(Chars)
    BY <1>1, <2>6
  <2> HIDE DEF m
  <2>10. EditedTo(Units!Replace(f[j - 1], es[m]), m - 1, g, b, es)
    BY <2>6, <2>7, <2>9, EditOneMore
  <2> QED
    BY <2>4, <2>6, <2>8, <2>10
<1>5. EditedTo(f[n], 0, g, b, es)
  <2>1. n \in 0..n /\ n - n = 0
    OBVIOUS
  <2>2. EditedTo(f[n], n - n, g, b, es)
    BY <1>4, <2>1
  <2> QED
    BY <2>1, <2>2
<1> DEFINE R == f[n]
<1>6. /\ R \in Seq(Chars) /\ Units!isWellFormed(R)
      /\ <<>> \o SubSeq(R, 1, Len(R)) = g[n] \o SubSeq(b, EndIn(es, n) + 1, Len(b))
  <2>1. EndIn(es, 0) = 0 /\ 0 + 1 = 1
    BY DEF EndIn
  <2> QED
    BY <1>5, <2>1 DEF EditedTo
<1> HIDE DEF R
<1>7. <<>> \o SubSeq(R, 1, Len(R)) = R
  <2>1. SubSeq(R, 1, Len(R)) = R
    BY <1>6, SubSeqFull
  <2>2. <<>> \o R = R
    BY <1>6
  <2> QED
    BY <2>1, <2>2
<1> QED
  BY <1>6, <1>7 DEF R

LEMMA ReplacementsAre ==
  ASSUME NEW t \in Units!Replacements
  PROVE  t \in Seq(Chars) /\ (Units!isWellFormed(t) \/ t = <<"H">>)
<1>1. \A u : u = <<>> => u \in Seq(Chars) /\ Units!isWellFormed(u)
  BY DEF Units!isWellFormed
<1>2. \A u : u = <<"b">> => u \in Seq(Chars) /\ Units!isWellFormed(u)
  <2>1. SUFFICES ASSUME NEW u, u = <<"b">> PROVE u \in Seq(Chars) /\ Units!isWellFormed(u)
    OBVIOUS
  <2>2. DOMAIN u = 1..1 /\ Len(u) = 1 /\ u[1] = "b" /\ u \in Seq(Chars) /\ \A i \in 1..1 : i = 1
    BY <2>1 DEF Chars
  <2> QED
    BY <2>2 DEF Units!isWellFormed
<1>3. \A u : u = <<"H">> => u \in Seq(Chars)
  BY DEF Chars, Units!Units
<1>4. \A u : u = <<"H", "L">> => u \in Seq(Chars) /\ Units!isWellFormed(u)
  <2>1. SUFFICES ASSUME NEW u, u = <<"H", "L">> PROVE u \in Seq(Chars) /\ Units!isWellFormed(u)
    OBVIOUS
  <2>2. DOMAIN u = 1..2 /\ Len(u) = 2 /\ u[1] = "H" /\ u[2] = "L" /\ u \in Seq(Chars) /\ \A i \in 1..2 : i = 1 \/ i = 2
    BY <2>1 DEF Chars, Units!Units
  <2> QED
    BY <2>2 DEF Units!isWellFormed
<1> QED
  BY <1>1, <1>2, <1>3, <1>4 DEF Units!Replacements

\* Edits that are accepted are ranges of whole characters, one behind the other.
LEMMA AllowedOrderly ==
  ASSUME NEW b \in Seq(Chars), Units!isWellFormed(b), NEW es \in Seq(Units!EditRanges), Units!Allowed(b, es)
  PROVE  Orderly(b, es) /\ Len(es) \in Nat \ {0}
<1>1. Len(es) \in Nat /\ DOMAIN es = 1..Len(es) /\ es # <<>> /\ Len(b) \in Nat
  BY DEF Units!Allowed
<1>2. \A i \in 1..Len(es) : es[i].from \in Nat /\ es[i].to \in Nat /\ es[i].text \in Units!Replacements
  <2>1. \A i \in 1..Len(es) : es[i] \in Units!EditRanges
    OBVIOUS
  <2> QED
    BY <2>1 DEF Units!EditRanges
<1>3. \A i \in 1..Len(es) :
        /\ Units!isWellFormed(es[i].text) /\ es[i].from <= es[i].to
        /\ Units!scalarBoundary(b, es[i].from) /\ Units!scalarBoundary(b, es[i].to)
        /\ i > 1 => Units!Follows(es[i], es[i - 1].to)
  BY <1>1 DEF Units!Allowed
<1>4. ASSUME NEW i \in 1..Len(es)
      PROVE  EndIn(es, i - 1) \in Nat /\ EndIn(es, i - 1) <= es[i].from
  <2>1. CASE i = 1
    BY <1>2, <2>1 DEF EndIn
  <2>2. CASE i # 1
    <3>1. i > 1 /\ i - 1 \in 1..Len(es) /\ i - 1 # 0
      BY <1>1, <2>2
    <3>2. EndIn(es, i - 1) = es[i - 1].to /\ es[i - 1].to \in Nat /\ es[i].from \in Nat
      BY <1>2, <3>1 DEF EndIn
    <3>3. es[i].from > es[i - 1].to \/ es[i].from = es[i - 1].to
      BY <1>3, <3>1 DEF Units!Follows
    <3> QED
      BY <3>2, <3>3
  <2> QED
    BY <2>1, <2>2
<1>5. ASSUME NEW i \in 1..Len(es)
      PROVE  /\ es[i].to <= Len(b)
             /\ Units!isWellFormed(SubSeq(b, 1, es[i].from)) /\ Units!isWellFormed(SubSeq(b, 1, es[i].to))
  <2>1. es[i].from \in 0..Len(b) /\ es[i].to \in 0..Len(b)
    BY <1>3 DEF Units!scalarBoundary
  <2> QED
    BY <1>3, <2>1, PrefixWhole
<1>6. \A i \in 1..Len(es) : es[i].text \in Seq(Chars)
  BY <1>2, ReplacementsAre
<1>7. Len(es) # 0
  BY <1>1
<1> QED
  BY <1>1, <1>2, <1>3, <1>4, <1>5, <1>6, <1>7 DEF Orderly

\* Where a page ends a character does, and it is behind the page's offset.
LEMMA EndsOfPages ==
  ASSUME NEW text \in Seq(Chars), Units!isWellFormed(text), NEW at \in 0..Len(text), at < Len(text)
  PROVE  /\ \A size \in Nat \ {0} :
              /\ Units!PageEnd(text, at, size) \in (at + 1)..Len(text)
              /\ Units!scalarBoundary(text, Units!PageEnd(text, at, size))
         /\ \A size \in Nat \ {0, 1} :
              /\ Units!ChunkEnd(text, at, size) \in (at + 1)..Len(text)
              /\ Units!scalarBoundary(text, Units!ChunkEnd(text, at, size))
<1>1. Len(text) \in Nat /\ at \in Nat /\ at < Len(text)
  OBVIOUS
<1>2. \A i \in 1..Len(text) : /\ text[i] = "H" => i < Len(text) /\ text[i + 1] = "L"
                              /\ text[i] = "L" => i > 1 /\ text[i - 1] = "H"
  BY WellFormedIs
<1>3. \A k \in 1..Len(text) : Units!scalarBoundary(text, k) <=> ~(k < Len(text) /\ text[k] = "H" /\ text[k + 1] = "L")
  BY <1>1 DEF Units!scalarBoundary
<1>4. ASSUME NEW size \in Nat \ {0}
      PROVE  /\ Units!PageEnd(text, at, size) \in (at + 1)..Len(text)
             /\ Units!scalarBoundary(text, Units!PageEnd(text, at, size))
  <2> DEFINE end == IF Len(text) < at + size THEN Len(text) ELSE at + size
             fin == IF end < Len(text) /\ end > at /\ text[end] = "H" THEN end - 1 ELSE end
             stop == IF fin = at /\ fin < Len(text) THEN fin + 2 ELSE fin
  <2>1. Units!PageEnd(text, at, size) = stop
    BY DEF Units!PageEnd
  <2>2. end \in (at + 1)..Len(text) /\ end \in 1..Len(text) /\ end > at
    BY <1>1
  <2> HIDE DEF end
  <2>3. CASE ~(end < Len(text) /\ text[end] = "H")
    <3>1. fin = end
      BY <2>3
    <3>2. stop = end
      BY <1>1, <2>2, <3>1
    <3> HIDE DEF stop
    <3> QED
      BY <1>3, <2>1, <2>2, <2>3, <3>2
  <2>4. CASE end < Len(text) /\ text[end] = "H" /\ end = at + 1
    <3>1. fin = at
      BY <1>1, <2>2, <2>4
    <3>2. stop = at + 2 /\ at + 2 = end + 1
      BY <1>1, <2>4, <3>1
    <3> HIDE DEF stop
    <3>3. end + 1 \in 1..Len(text) /\ end + 1 \in (at + 1)..Len(text)
      BY <1>1, <2>2, <2>4
    <3>4. text[end + 1] = "L"
      BY <1>2, <2>2, <2>4
    <3> QED
      BY <1>3, <2>1, <3>2, <3>3, <3>4
  <2>5. CASE end < Len(text) /\ text[end] = "H" /\ end # at + 1
    <3>1. fin = end - 1
      BY <2>2, <2>5
    <3>2. end - 1 \in 1..Len(text) /\ end - 1 \in (at + 1)..Len(text) /\ end - 1 # at /\ (end - 1) + 1 = end
      BY <1>1, <2>2, <2>5
    <3>3. stop = end - 1
      BY <3>1, <3>2
    <3> HIDE DEF stop
    <3> QED
      BY <1>3, <2>1, <2>5, <3>2, <3>3
  <2> QED
    BY <2>3, <2>4, <2>5
<1>5. ASSUME NEW size \in Nat \ {0, 1}
      PROVE  /\ Units!ChunkEnd(text, at, size) \in (at + 1)..Len(text)
             /\ Units!scalarBoundary(text, Units!ChunkEnd(text, at, size))
  <2> DEFINE end == IF Len(text) < at + size THEN Len(text) ELSE at + size
             stop == IF end < Len(text) /\ text[end + 1] = "L" THEN end - 1 ELSE end
  <2>1. Units!ChunkEnd(text, at, size) = stop
    BY DEF Units!ChunkEnd
  <2>2. end \in (at + 1)..Len(text) /\ end \in 1..Len(text) /\ (end < Len(text) => end >= at + 2)
    BY <1>1
  <2> HIDE DEF end
  <2>3. CASE ~(end < Len(text) /\ text[end + 1] = "L")
    <3>1. stop = end
      BY <2>3
    <3> HIDE DEF stop
    <3> QED
      BY <1>3, <2>1, <2>2, <2>3, <3>1
  <2>4. CASE end < Len(text) /\ text[end + 1] = "L"
    <3>1. stop = end - 1
      BY <2>4
    <3> HIDE DEF stop
    <3>2. /\ end + 1 \in 1..Len(text) /\ (end + 1) - 1 = end
          /\ end - 1 \in 1..Len(text) /\ end - 1 \in (at + 1)..Len(text) /\ (end - 1) + 1 = end
      BY <1>1, <2>2, <2>4
    <3>3. text[end] = "H"
      BY <1>2, <2>4, <3>2
    <3> QED
      BY <1>3, <2>1, <3>1, <3>2, <3>3
  <2> QED
    BY <2>3, <2>4
<1> QED
  BY <1>4, <1>5

\* A page is a text that is not empty, and with it the pages are the text so far.
LEMMA PageMore ==
  ASSUME NEW text \in Seq(Units!Units), Units!isWellFormed(text), NEW at \in 0..Len(text),
         Units!isWellFormed(SubSeq(text, 1, at)), NEW end \in (at + 1)..Len(text), Units!scalarBoundary(text, end)
  PROVE  LET page == SubSeq(text, at + 1, end)
         IN  /\ page \in Seq(Units!Units) /\ page # <<>> /\ Units!isWellFormed(page)
             /\ Units!isWellFormed(SubSeq(text, 1, end))
             /\ SubSeq(text, 1, at) \o page = SubSeq(text, 1, end)
<1> DEFINE page == SubSeq(text, at + 1, end)
           front == SubSeq(text, 1, end)
<1>1. /\ Len(text) \in Nat /\ at \in Nat /\ end \in Nat /\ at < end /\ end <= Len(text) /\ end \in 0..Len(text)
      /\ at \in 0..end /\ text \in Seq(Chars) /\ \A i \in 1..Len(text) : text[i] \in Units!Units
  BY DEF Chars
<1>2. page \in Seq(Units!Units)
  <2>1. at + 1 \in Int /\ end \in Int /\ \A i \in (at + 1)..end : text[i] \in Units!Units
    BY <1>1
  <2> QED
    BY <2>1, SubSeqProperties
<1>3. Len(page) = end - at
  BY <1>1, MidPart
<1>4. page # <<>>
  BY <1>1, <1>3
<1>5. Units!isWellFormed(front)
  BY <1>1, PrefixWhole
<1>6. front \in Seq(Chars) /\ Len(front) = end /\ \A i \in 1..end : front[i] = text[i]
  BY <1>1, WholeParts
<1>7. SubSeq(front, at + 1, end) = page
  BY <1>1, PieceOfFront
<1> HIDE DEF page, front
<1>8. SubSeq(front, 1, at) = SubSeq(text, 1, at)
  <2>1. at <= Len(front) /\ at <= Len(text) /\ \A i \in 1..at : front[i] = text[i]
    BY <1>1, <1>6
  <2> QED
    BY <1>1, <1>6, <2>1, SameFront
<1>9. Units!isWellFormed(page)
  <2>1. at \in 0..Len(front)
    BY <1>1, <1>6
  <2> QED
    BY <1>5, <1>6, <1>7, <1>8, <2>1, SuffixWhole
<1>10. SubSeq(text, 1, at) \o page = front
  <2>1. 1 \in 1..(Len(text) + 1) /\ at \in (1 - 1)..Len(text) /\ end \in at..Len(text)
    BY <1>1
  <2> QED
    BY <2>1, ConcatAdjacentSubSeq DEF page, front
<1> QED
  BY <1>2, <1>4, <1>5, <1>9, <1>10 DEF page, front

LEMMA UnitTexts ==
  ASSUME NEW b \in Seq(Units!Units)
  PROVE  b \in Seq(Chars) /\ Len(b) \in Nat
BY DEF Chars

LEMMA UnitsStarts ==
  ASSUME Units!Init
  PROVE  Units!UnitsInv
<1>1. body \in Units!BoundedTexts(MaxLen) /\ Units!isWellFormed(body)
  BY DEF Units!Init
<1>2. body \in Seq(Units!Units)
  <2>1. PICK k \in 0..MaxLen : body \in [1..k -> Units!Units]
    BY <1>1 DEF Units!BoundedTexts
  <2> QED
    BY <2>1
<1>3. /\ ranges = <<>> /\ ranges \in Seq(Units!EditRanges) /\ pieces = <<>> /\ pieces \in Seq(Seq(Units!Units))
      /\ DOMAIN pieces = {} /\ cursor = 0 /\ phase = "edits" /\ result = [ok |-> FALSE, body |-> body]
  BY DEF Units!Init
<1>4. SubSeq(body, 1, cursor) = <<>> /\ cursor \in 0..Len(body)
  BY <1>2, <1>3
<1>5. Units!isWellFormed(<<>>)
  BY DEF Units!isWellFormed
<1>6. Units!PagesAreTheText
  BY <1>3, <1>4, JoinedNone DEF Units!PagesAreTheText
<1> QED
  BY <1>1, <1>2, <1>3, <1>4, <1>5, <1>6 DEF Units!UnitsInv, Units!PagesInv

LEMMA UnitsAsk ==
  ASSUME Units!UnitsInv, NEW from \in 0..(Len(body) + 1), NEW to \in 0..(Len(body) + 1), NEW text \in Units!Replacements,
         Units!Ask([from |-> from, to |-> to, text |-> text])
  PROVE  Units!UnitsInv'
<1> DEFINE e == [from |-> from, to |-> to, text |-> text]
<1>1. e \in Units!EditRanges
  BY DEF Units!EditRanges
<1>2. /\ phase = "edits" /\ ranges' = Append(ranges, e) /\ body' = body /\ result' = result
      /\ pieces' = pieces /\ cursor' = cursor /\ phase' = phase
  BY DEF Units!Ask
<1> HIDE DEF e
<1>3. ranges' \in Seq(Units!EditRanges)
  BY <1>1, <1>2 DEF Units!UnitsInv
<1> QED
  BY <1>2, <1>3 DEF Units!UnitsInv, Units!PagesInv, Units!PagesAreTheText

LEMMA UnitsApply ==
  ASSUME Units!UnitsInv, Units!Apply
  PROVE  Units!UnitsInv'
BY DEF Units!Apply, Units!UnitsInv, Units!PagesInv, Units!PagesAreTheText

LEMMA UnitsPaged ==
  ASSUME Units!UnitsInv, NEW size, NEW end, Units!NextPage(size, end),
         end \in (cursor + 1)..Len(body), Units!scalarBoundary(body, end)
  PROVE  Units!UnitsInv'
<1> DEFINE page == SubSeq(body, cursor + 1, end)
<1>1. /\ phase \in {"edits", "pages"} /\ phase' = "pages" /\ pieces' = Append(pieces, page) /\ cursor' = end
      /\ body' = body /\ ranges' = ranges /\ result' = result
  BY DEF Units!NextPage
<1>2. /\ body \in Seq(Units!Units) /\ Units!isWellFormed(body) /\ ranges \in Seq(Units!EditRanges)
      /\ result = [ok |-> FALSE, body |-> body]
      /\ cursor \in 0..Len(body) /\ Units!isWellFormed(SubSeq(body, 1, cursor))
      /\ pieces \in Seq(Seq(Units!Units)) /\ Units!FlattenSeq(pieces) = SubSeq(body, 1, cursor)
      /\ \A i \in DOMAIN pieces : pieces[i] # <<>> /\ Units!isWellFormed(pieces[i])
  BY <1>1 DEF Units!UnitsInv, Units!PagesInv, Units!PagesAreTheText
<1>3. /\ page \in Seq(Units!Units) /\ page # <<>> /\ Units!isWellFormed(page)
      /\ Units!isWellFormed(SubSeq(body, 1, end)) /\ SubSeq(body, 1, cursor) \o page = SubSeq(body, 1, end)
  BY <1>2, PageMore
<1>4. end \in 0..Len(body)
  BY <1>2
<1> HIDE DEF page
<1>5. pieces' \in Seq(Seq(Units!Units)) /\ Units!FlattenSeq(pieces') = SubSeq(body, 1, end)
  <2>1. Units!FlattenSeq(Append(pieces, page)) = Units!FlattenSeq(pieces) \o page
    BY <1>2, <1>3, JoinedOneMore
  <2> QED
    BY <1>1, <1>2, <1>3, <2>1
<1>6. \A i \in DOMAIN pieces' : pieces'[i] # <<>> /\ Units!isWellFormed(pieces'[i])
  <2>1. /\ DOMAIN Append(pieces, page) = 1..(Len(pieces) + 1) /\ DOMAIN pieces = 1..Len(pieces)
        /\ Append(pieces, page)[Len(pieces) + 1] = page /\ Len(pieces) \in Nat
        /\ \A i \in 1..Len(pieces) : Append(pieces, page)[i] = pieces[i]
    BY <1>2, <1>3
  <2>2. \A i \in 1..(Len(pieces) + 1) : i \in 1..Len(pieces) \/ i = Len(pieces) + 1
    BY <2>1
  <2> QED
    BY <1>1, <1>2, <1>3, <2>1, <2>2
<1>7. Units!PagesAreTheText'
  BY <1>1, <1>5, <1>6 DEF Units!PagesAreTheText
<1>8. Units!PagesInv'
  BY <1>1, <1>3, <1>4, <1>5, <1>7 DEF Units!PagesInv
<1> QED
  BY <1>1, <1>2, <1>8 DEF Units!UnitsInv

LEMMA UnitsKeeps ==
  ASSUME Units!UnitsInv, Units!Next
  PROVE  Units!UnitsInv'
<1>1. CASE \E from \in 0..(Len(body) + 1), to \in 0..(Len(body) + 1), text \in Units!Replacements :
             Units!Ask([from |-> from, to |-> to, text |-> text])
  BY <1>1, UnitsAsk
<1>2. CASE Units!Apply
  BY <1>2, UnitsApply
<1>3. CASE \E size \in 1..(MaxLen + 1) : Units!Page(size) \/ Units!Chunk(size)
  <2>1. PICK size \in 1..(MaxLen + 1) : Units!Page(size) \/ Units!Chunk(size)
    BY <1>3
  <2>2. size \in Nat \ {0} /\ body \in Seq(Chars) /\ Units!isWellFormed(body) /\ cursor \in 0..Len(body)
    BY UnitTexts DEF Units!UnitsInv, Units!PagesInv
  <2>3. CASE Units!Page(size)
    <3>1. Units!NextPage(size, Units!PageEnd(body, cursor, size)) /\ cursor < Len(body)
      BY <2>3 DEF Units!Page, Units!NextPage
    <3>2. /\ Units!PageEnd(body, cursor, size) \in (cursor + 1)..Len(body)
          /\ Units!scalarBoundary(body, Units!PageEnd(body, cursor, size))
      BY <2>2, <3>1, EndsOfPages
    <3> QED
      BY <3>1, <3>2, UnitsPaged
  <2>4. CASE Units!Chunk(size)
    <3>1. Units!NextPage(size, Units!ChunkEnd(body, cursor, size)) /\ cursor < Len(body) /\ size \in Nat \ {0, 1}
      BY <2>2, <2>4 DEF Units!Chunk, Units!NextPage
    <3>2. /\ Units!ChunkEnd(body, cursor, size) \in (cursor + 1)..Len(body)
          /\ Units!scalarBoundary(body, Units!ChunkEnd(body, cursor, size))
      BY <2>2, <3>1, EndsOfPages
    <3> QED
      BY <3>1, <3>2, UnitsPaged
  <2> QED
    BY <2>1, <2>3, <2>4
<1> QED
  BY <1>1, <1>2, <1>3 DEF Units!Next

\* A refused edit splits a character, overlaps the one before or is out of the text.
LEMMA RefusedCause ==
  ASSUME NEW b \in Seq(Chars), Units!isWellFormed(b), NEW es \in Seq(Units!EditRanges), ~Units!Allowed(b, es)
  PROVE  \/ es = <<>>
         \/ \E i \in DOMAIN es : es[i].text = <<"H">> \/ es[i].from > es[i].to \/ es[i].to > Len(b)
         \/ \E i \in DOMAIN es : ~Units!isWellFormed(SubSeq(b, 1, es[i].from)) \/ ~Units!isWellFormed(SubSeq(b, 1, es[i].to))
         \/ \E i, j \in DOMAIN es :
              /\ i < j
              /\ \/ Units!Overlap(es[i], es[j]) \/ es[j].from < es[i].to
                 \/ (es[j].from = es[i].to /\ es[j].from = es[j].to)
<1>1. Len(es) \in Nat /\ DOMAIN es = 1..Len(es) /\ Len(b) \in Nat
  OBVIOUS
<1>2. \A i \in 1..Len(es) : es[i].from \in Nat /\ es[i].to \in Nat /\ es[i].text \in Units!Replacements
  <2>1. \A i \in 1..Len(es) : es[i] \in Units!EditRanges
    OBVIOUS
  <2> QED
    BY <2>1 DEF Units!EditRanges
<1>3. SUFFICES ASSUME es # <<>>,
                      \A i \in 1..Len(es) : es[i].text # <<"H">> /\ ~(es[i].from > es[i].to) /\ ~(es[i].to > Len(b)),
                      \A i \in 1..Len(es) : Units!isWellFormed(SubSeq(b, 1, es[i].from)) /\ Units!isWellFormed(SubSeq(b, 1, es[i].to)),
                      \A i, j \in 1..Len(es) : i < j => /\ ~(es[j].from < es[i].to)
                                                        /\ ~(es[j].from = es[i].to /\ es[j].from = es[j].to)
               PROVE  Units!Allowed(b, es)
  BY <1>1
<1>4. ASSUME NEW i \in 1..Len(es)
      PROVE  /\ Units!isWellFormed(es[i].text) /\ es[i].from <= es[i].to
             /\ Units!scalarBoundary(b, es[i].from) /\ Units!scalarBoundary(b, es[i].to)
  <2>1. es[i].from \in 0..Len(b) /\ es[i].to \in 0..Len(b) /\ es[i].from <= es[i].to
    BY <1>1, <1>2, <1>3
  <2>2. Units!isWellFormed(es[i].text)
    BY <1>2, <1>3, ReplacementsAre
  <2> QED
    BY <1>3, <2>1, <2>2, PrefixWhole
<1>5. ASSUME NEW i \in 1..Len(es), i > 1 PROVE Units!Follows(es[i], es[i - 1].to)
  <2>1. i - 1 \in 1..Len(es) /\ i - 1 < i
    BY <1>1, <1>5
  <2>2. es[i].from \in Nat /\ es[i].to \in Nat /\ es[i - 1].to \in Nat
    BY <1>2, <2>1
  <2>3. ~(es[i].from < es[i - 1].to) /\ ~(es[i].from = es[i - 1].to /\ es[i].from = es[i].to)
    BY <1>3, <2>1
  <2> QED
    BY <2>2, <2>3 DEF Units!Follows
<1> QED
  BY <1>1, <1>3, <1>4, <1>5 DEF Units!Allowed

LEMMA UnitsMean ==
  ASSUME Units!UnitsInv
  PROVE  Units!UnitsMeanOneText
<1>1. /\ body \in Seq(Chars) /\ Units!isWellFormed(body) /\ ranges \in Seq(Units!EditRanges)
      /\ phase \in {"edits", "applied", "pages"} /\ cursor \in 0..Len(body) /\ Units!PagesAreTheText
      /\ phase = "applied" => result = Units!applyEdits(body, ranges)
      /\ phase # "applied" => result = [ok |-> FALSE, body |-> body]
  BY UnitTexts DEF Units!UnitsInv, Units!PagesInv
<1>2. CASE phase = "applied" /\ Units!Allowed(body, ranges)
  <2>1. result = [ok |-> TRUE, body |-> Units!Replaced(body, ranges)]
    BY <1>1, <1>2 DEF Units!applyEdits
  <2>2. Orderly(body, ranges) /\ Len(ranges) \in Nat \ {0}
    BY <1>1, <1>2, AllowedOrderly
  <2>3. PICK f : /\ Units!Replaced(body, ranges) = f[Len(ranges)] /\ f[0] = body
                 /\ \A k \in 1..Len(ranges) : f[k] = Units!Replace(f[k - 1], ranges[Len(ranges) + 1 - k])
    BY <2>2, ReplacedIs
  <2>4. PICK g : /\ Units!Meant(Len(ranges)) = g[Len(ranges)] /\ g[0] = <<>>
                 /\ \A k \in 1..Len(ranges) :
                      g[k] = g[k - 1] \o SubSeq(body, EndIn(ranges, k - 1) + 1, ranges[k].from) \o ranges[k].text
    BY <2>2, MeantIs
  <2>5. /\ Units!isWellFormed(f[Len(ranges)])
        /\ f[Len(ranges)] = g[Len(ranges)] \o SubSeq(body, EndIn(ranges, Len(ranges)) + 1, Len(body))
    BY <1>1, <2>2, <2>3, <2>4, ReplacedMeans
  <2>6. Units!EndOf(Len(ranges)) = EndIn(ranges, Len(ranges))
    BY DEF Units!EndOf, EndIn
  <2>7. result.ok = TRUE /\ result.body = Units!Replaced(body, ranges)
    BY <2>1
  <2>8. Units!EditsAreOfOneText
    BY <2>3, <2>4, <2>5, <2>6, <2>7 DEF Units!EditsAreOfOneText
  <2>9. Units!TypeOK
    BY <1>1, <2>3, <2>5, <2>7 DEF Units!TypeOK
  <2> QED
    BY <1>1, <2>7, <2>8, <2>9 DEF Units!UnitsMeanOneText, Units!RefusedForCause
<1>3. CASE ~(phase = "applied" /\ Units!Allowed(body, ranges))
  <2>1. result = [ok |-> FALSE, body |-> body]
    BY <1>1, <1>3 DEF Units!applyEdits
  <2>2. ~result.ok /\ result.body = body
    BY <2>1
  <2>3. Units!RefusedForCause
    <3>1. SUFFICES ASSUME phase = "applied" PROVE Units!RefusedForCause
      BY DEF Units!RefusedForCause
    <3>2. ~Units!Allowed(body, ranges)
      BY <1>3, <3>1
    <3> QED
      BY <1>1, <2>2, <3>2, RefusedCause DEF Units!RefusedForCause
  <2> QED
    BY <1>1, <2>2, <2>3 DEF Units!UnitsMeanOneText, Units!TypeOK, Units!EditsAreOfOneText
<1> QED
  BY <1>2, <1>3

\* In a page whose run is about texts in units, their invariant holds.
UnitsHold == component = "units" => Units!UnitsInv

LEMMA UnitsHeld == Spec => [](component = "units" => Units!UnitsMeanOneText)
<1>1. Init => UnitsHold
  BY UnitsStarts DEF Init, UnitsHold
<1>2. UnitsHold /\ [Next]_vars => UnitsHold'
  <2> SUFFICES ASSUME UnitsHold, [Next]_vars, component' = "units" PROVE Units!UnitsInv'
    BY DEF UnitsHold
  <2>1. CASE UNCHANGED vars
    <3>1. /\ body' = body /\ ranges' = ranges /\ result' = result /\ pieces' = pieces
          /\ cursor' = cursor /\ phase' = phase /\ Units!UnitsInv
      BY <2>1 DEF UnitsHold, vars, unitsVars
    <3> QED
      BY <3>1 DEF Units!UnitsInv, Units!PagesInv, Units!PagesAreTheText
  <2>2. CASE Next
    <3>1. component = "units" /\ Units!Next /\ Units!UnitsInv
      BY <2>2 DEF Next, UnitsHold
    <3> QED
      BY <3>1, UnitsKeeps
  <2> QED
    BY <2>1, <2>2
<1>3. UnitsHold => (component = "units" => Units!UnitsMeanOneText)
  BY UnitsMean DEF UnitsHold
<1> QED
  BY <1>1, <1>2, <1>3, PTL DEF Spec

\* However often an agent's reads of a file and of the list of projects are cut by edits,
\* images, renames and openings: a revision stands for one text for ever, the target's is
\* its source's, a file that was read to its end was that text at one moment, without half
\* a character at its end, and a list that was read to its end has every project, all as
\* they were at one moment. And counted in UTF-16 units, edits that are accepted all mean
\* the one text there was, refused ones have a cause and change nothing, and the pages of
\* a text, of whatever sizes, are the text and split no character.
THEOREM ReadsOfOneMoment == Spec => []ReadsAreOfOneMoment
BY ReadsHeld, UnitsHeld, PTL DEF ReadsAreOfOneMoment

=============================================================================
