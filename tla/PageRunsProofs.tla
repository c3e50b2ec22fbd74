---------------------------- MODULE PageRunsProofs ----------------------------
(***************************************************************************)
(* What the page's asynchronous runs promise, for any number of edits,     *)
(* operations and runtimes: invariants of MCPageRuns.                      *)
(***************************************************************************)
EXTENDS MCPageRuns, SequenceTheorems, FiniteSetTheorems, WellFoundedInduction, TLAPS

-----------------------------------------------------------------------------
(* The compile pipeline *)

PipeRun(n, d) ==
  [kind : Pipe!Kinds, op : 1..n, doc : 1..d, seq : Nat, at : {"handshake", "reply"}]

\* What the type invariant says of the parts of the state.
LEMMA PipeTypes ==
  ASSUME Pipe!TypeOK
  PROVE  /\ since \in Nat /\ doc \in Nat /\ 1 <= since /\ since <= doc /\ doc <= MaxDoc
         /\ opCount \in Nat /\ opCount <= MaxPipelineOps /\ slot \in [Pipe!Kinds -> 0..opCount]
         /\ counter \in [Pipe!Stages -> Nat] /\ counter["analyze"] \in Nat /\ counter["build"] \in Nat
         /\ runs \subseteq PipeRun(opCount, doc)
         /\ \A r \in runs : /\ r \in PipeRun(opCount, doc) /\ r.kind \in Pipe!Kinds
                            /\ r.op \in 1..opCount /\ r.op \in Nat /\ r.op <= opCount
                            /\ r.doc \in 1..doc /\ r.doc \in Nat /\ r.seq \in Nat
                            /\ r.at \in {"handshake", "reply"}
         /\ \A k \in Pipe!Kinds : slot[k] \in Nat /\ slot[k] <= opCount
         /\ shown.artifact \in 0..doc /\ shown.preview \in 0..doc /\ analysis.doc \in 0..doc
         /\ failedOn.preview \in 0..doc /\ failedOn.build \in 0..doc
<1>1. runs \subseteq PipeRun(opCount, doc)
  BY DEF Pipe!TypeOK, PipeRun
<1>2. since \in Nat /\ doc \in Nat /\ 1 <= since /\ since <= doc /\ doc <= MaxDoc
  BY PipelineAssumption DEF Pipe!TypeOK, Pipe!Docs
<1>3. opCount \in Nat /\ opCount <= MaxPipelineOps /\ slot \in [Pipe!Kinds -> 0..opCount]
  BY PipelineAssumption DEF Pipe!TypeOK
<1>4. \A r \in PipeRun(opCount, doc) :
        /\ r.kind \in Pipe!Kinds /\ r.op \in 1..opCount /\ r.op \in Nat /\ r.op <= opCount
        /\ r.doc \in 1..doc /\ r.doc \in Nat /\ r.seq \in Nat /\ r.at \in {"handshake", "reply"}
  BY <1>2, <1>3 DEF PipeRun
<1>5. counter \in [Pipe!Stages -> Nat] /\ counter["analyze"] \in Nat /\ counter["build"] \in Nat
  BY DEF Pipe!TypeOK, Pipe!Stages
<1>6. /\ shown.artifact \in 0..doc /\ shown.preview \in 0..doc /\ analysis.doc \in 0..doc
      /\ failedOn.preview \in 0..doc /\ failedOn.build \in 0..doc
  BY DEF Pipe!TypeOK, Pipe!Kinds, Pipe!Stages
<1>7. \A k \in Pipe!Kinds : slot[k] \in Nat /\ slot[k] <= opCount
  BY <1>3
<1> QED
  BY <1>1, <1>2, <1>3, <1>4, <1>5, <1>6, <1>7

\* More operations and documents leave the runs well typed.
LEMMA RunsGrow ==
  ASSUME NEW n \in Nat, NEW m \in Nat, n <= m, NEW d \in Nat, NEW e \in Nat, d <= e
  PROVE  PipeRun(n, d) \subseteq PipeRun(m, e)
<1>1. 1..n \subseteq 1..m /\ 1..d \subseteq 1..e
  OBVIOUS
<1> QED
  BY <1>1 DEF PipeRun

\* While a run owns the operation of its stage, the stage has no timer.
LEMMA OwnerHasNoTimer ==
  ASSUME Pipe!PipeInv, NEW r \in runs, r.kind \in Pipe!Stages, Pipe!ownsOperation(r)
  PROVE  timer[r.kind] = None /\ r.doc = doc /\ Pipe!isCurrent(r)
BY DEF Pipe!PipeInv, Pipe!TimersAreCurrent, Pipe!RunsAreCurrent, Pipe!ownsOperation

\* The order of what is under way, when runs end, go on from the handshake to their
\* call, or a preview begins, while the source and the stages stay.
LEMMA RunsGoOn ==
  ASSUME Pipe!PipeInv, doc' = doc, since' = since, timer' = timer, counter' = counter,
         slot' \in [Pipe!Kinds -> Nat], \A t \in Pipe!Stages : slot'[t] = slot[t],
         slot'["preview"] = slot["preview"] \/ slot'["preview"] > opCount,
         \A q \in runs' :
           \/ \E p \in runs : /\ p.kind = q.kind /\ p.op = q.op /\ p.doc = q.doc /\ p.seq = q.seq
                              /\ q.at = p.at \/ q.at = "reply"
           \/ /\ q.kind = "preview" /\ q.op = slot'["preview"] /\ q.doc = doc
              /\ q.seq = counter["build"] /\ q.at = "reply" /\ slot'["preview"] > opCount,
         \/ shown'.artifact = shown.artifact
         \/ shown'.artifact = doc /\ timer["build"] = None,
         \/ shown'.preview = shown.preview
         \/ /\ slot'["preview"] = slot["preview"]
            /\ \E p \in runs : p.kind = "preview" /\ Pipe!ownsOperation(p) /\ shown'.preview = p.doc
            /\ \A q \in runs' : \E p \in runs : p.kind = q.kind /\ p.op = q.op /\ p.doc = q.doc
  PROVE  Pipe!TimersAreCurrent' /\ Pipe!RunsAreCurrent' /\ Pipe!PreviewsInOrder'
<1>1. Pipe!TypeOK
  BY DEF Pipe!PipeInv
<1>2. Pipe!TimersAreCurrent'
  <2> SUFFICES ASSUME NEW t \in Pipe!Stages, timer[t] # None
               PROVE  /\ timer[t] = [op |-> slot[t], doc |-> doc]
                      /\ \A q \in runs' : q.kind = t => q.op # slot[t]
    BY DEF Pipe!TimersAreCurrent
  <2>1. timer[t] = [op |-> slot[t], doc |-> doc] /\ \A p \in runs : p.kind = t => p.op # slot[t]
    BY DEF Pipe!PipeInv, Pipe!TimersAreCurrent
  <2> QED
    BY <2>1 DEF Pipe!Stages
<1>3. ASSUME NEW q \in runs'
      PROVE  /\ q.seq <= counter[Pipe!StageOf(q.kind)]
             /\ q.kind \in Pipe!Stages /\ slot'[q.kind] = q.op =>
                  q.doc = doc /\ q.seq = counter[Pipe!StageOf(q.kind)]
  <2>1. CASE q.kind = "preview" /\ q.seq = counter["build"]
    BY <1>1, <2>1, PipeTypes DEF Pipe!StageOf, Pipe!Stages
  <2>2. ASSUME NEW p \in runs, p.kind = q.kind, p.op = q.op, p.doc = q.doc, p.seq = q.seq
        PROVE  /\ q.seq <= counter[Pipe!StageOf(q.kind)]
               /\ q.kind \in Pipe!Stages /\ slot'[q.kind] = q.op =>
                    q.doc = doc /\ q.seq = counter[Pipe!StageOf(q.kind)]
    BY <2>2 DEF Pipe!PipeInv, Pipe!RunsAreCurrent, Pipe!ownsOperation, Pipe!isCurrent
  <2> QED
    BY <2>1, <2>2
<1>4. Pipe!RunsAreCurrent'
  BY <1>3 DEF Pipe!RunsAreCurrent, Pipe!ownsOperation, Pipe!isCurrent
<1>5. ASSUME NEW q \in runs', q.kind = "preview"
      PROVE  \/ q.doc = doc /\ q.at = "reply" /\ q.op = slot'["preview"] /\ q.op > opCount
             \/ \E p \in runs : /\ p.kind = "preview" /\ p.op = q.op /\ p.doc = q.doc /\ p.seq = q.seq
                                /\ p.at = "reply" /\ q.at = "reply"
  BY <1>5 DEF Pipe!PipeInv, Pipe!PreviewsInOrder
<1>6. /\ since \in Nat /\ doc \in Nat /\ since <= doc /\ opCount \in Nat
      /\ shown.artifact \in Nat /\ shown.artifact <= doc
      /\ shown.preview \in Nat /\ shown.preview <= doc
      /\ \A r \in runs : r.op <= opCount /\ r.op \in Nat
      /\ slot["preview"] \in Nat /\ slot["preview"] <= opCount
  BY <1>1, PipeTypes DEF Pipe!Kinds
<1>7. ASSUME NEW q \in runs', q.kind = "preview"
      PROVE  /\ q.at = "reply"
             /\ q.seq = counter["build"] => /\ q.doc >= since /\ q.doc >= shown'.artifact
                                            /\ timer["build"] = None => q.doc = doc
  <2>1. CASE q.doc = doc /\ q.at = "reply"
    BY <1>6, <2>1
  <2>2. ASSUME NEW p \in runs, p.kind = "preview", p.doc = q.doc, p.seq = q.seq, q.at = "reply"
        PROVE  q.seq = counter["build"] => /\ q.doc >= since /\ q.doc >= shown'.artifact
                                           /\ timer["build"] = None => q.doc = doc
    <3>1. p.seq = counter["build"] => /\ p.doc >= since /\ p.doc >= shown.artifact
                                      /\ timer["build"] = None => p.doc = doc
      BY <2>2 DEF Pipe!PipeInv, Pipe!PreviewsInOrder, Pipe!isCurrent, Pipe!StageOf
    <3> QED
      BY <1>6, <2>2, <3>1
  <2> QED
    BY <1>5, <1>7, <2>1, <2>2
<1>8. ASSUME NEW q \in runs', q.kind = "preview", slot'["preview"] = q.op
      PROVE  q.doc >= shown'.preview
  <2>1. CASE q.doc = doc /\ q.op > opCount
    BY <1>6, <1>8, <2>1
  <2>2. ASSUME NEW p \in runs, p.kind = "preview", p.op = q.op, p.doc = q.doc
        PROVE  q.doc >= shown'.preview
    <3>1. slot["preview"] = p.op
      BY <1>6, <1>8, <2>2
    <3>2. p.doc >= shown.preview
      BY <2>2, <3>1 DEF Pipe!PipeInv, Pipe!PreviewsInOrder, Pipe!ownsOperation
    <3>3. ASSUME NEW o \in runs, o.kind = "preview", Pipe!ownsOperation(o), shown'.preview = o.doc
          PROVE  q.doc >= shown'.preview
      <4>1. o.op = p.op
        BY <3>1, <3>3 DEF Pipe!ownsOperation
      <4>2. o.doc = p.doc /\ o.doc \in Nat
        BY <1>1, <2>2, <3>3, <4>1, PipeTypes DEF Pipe!PipeInv, Pipe!PreviewsInOrder
      <4> QED
        BY <2>2, <3>3, <4>2
    <3> QED
      BY <2>2, <3>2, <3>3
  <2> QED
    BY <1>5, <1>8, <2>1, <2>2
<1>9. ASSUME NEW q \in runs', q.kind = "preview", NEW r \in runs', r.kind = "preview", r.op = q.op
      PROVE  r.doc = q.doc
  <2>1. \/ q.doc = doc /\ q.op > opCount
        \/ \E p \in runs : p.kind = "preview" /\ p.op = q.op /\ p.doc = q.doc
    BY <1>5, <1>9
  <2>2. \/ r.doc = doc /\ r.op > opCount
        \/ \E p \in runs : p.kind = "preview" /\ p.op = r.op /\ p.doc = r.doc
    BY <1>5, <1>9
  <2>3. \A p, o \in runs : p.kind = "preview" /\ o.kind = "preview" /\ p.op = o.op => p.doc = o.doc
    BY DEF Pipe!PipeInv, Pipe!PreviewsInOrder
  <2> QED
    BY <1>6, <1>9, <2>1, <2>2, <2>3
<1>10. Pipe!PreviewsInOrder'
  BY <1>7, <1>8, <1>9 DEF Pipe!PreviewsInOrder, Pipe!isCurrent, Pipe!ownsOperation, Pipe!StageOf
<1> QED
  BY <1>2, <1>4, <1>10

\* The slots after both stages have queued.
LEMMA SlotsQueue ==
  ASSUME Pipe!TypeOK, Pipe!QueueBoth
  PROVE  /\ slot' \in [Pipe!Kinds -> 0..opCount'] /\ slot'["preview"] = slot["preview"]
         /\ \A t \in Pipe!Stages : /\ slot'[t] = Pipe!Op(t) /\ slot'[t] > opCount
                                   /\ slot'[t] \in Nat /\ slot'[t] \in 1..opCount'
<1>1. slot' = [slot EXCEPT !["analyze"] = opCount + 1, !["build"] = opCount + 2] /\ opCount' = opCount + 2
  BY DEF Pipe!QueueBoth
<1>2. slot \in [Pipe!Kinds -> 0..opCount] /\ opCount \in Nat
  BY PipeTypes
<1>3. slot \in [Pipe!Kinds -> 0..opCount']
  BY <1>1, <1>2
<1>4. opCount + 1 \in 0..opCount' /\ opCount + 2 \in 0..opCount'
  BY <1>1, <1>2
<1>5. slot' \in [Pipe!Kinds -> 0..opCount']
  BY <1>1, <1>3, <1>4
<1>6. ASSUME NEW t \in Pipe!Stages
      PROVE  slot'[t] = Pipe!Op(t) /\ Pipe!Op(t) \in {opCount + 1, opCount + 2}
  BY <1>1, <1>2, <1>6 DEF Pipe!Kinds, Pipe!Stages, Pipe!Op
<1>7. \A n \in {opCount + 1, opCount + 2} : n > opCount /\ n \in Nat /\ n \in 1..opCount'
  BY <1>1, <1>2
<1>8. slot'["preview"] = slot["preview"]
  BY <1>1, <1>2 DEF Pipe!Kinds, Pipe!Stages
<1> QED
  BY <1>5, <1>6, <1>7, <1>8

\* An edit: both stages wait for their delay, and own the new operations.
LEMMA EditKeeps == Pipe!PipeInv /\ Pipe!Edit => Pipe!PipeInv'
<1> SUFFICES ASSUME Pipe!PipeInv, Pipe!Edit PROVE Pipe!PipeInv'
  OBVIOUS
<1>0. Pipe!TypeOK
  BY DEF Pipe!PipeInv
<1>1. /\ doc < MaxDoc /\ doc' = doc + 1 /\ opCount + 2 <= MaxPipelineOps /\ opCount' = opCount + 2
      /\ slot' = [slot EXCEPT !["analyze"] = opCount + 1, !["build"] = opCount + 2]
      /\ timer' = [t \in Pipe!Stages |-> [op |-> Pipe!Op(t), doc |-> doc + 1]]
      /\ stale' = TRUE /\ since' = since /\ view' = view /\ counter' = counter /\ runs' = runs
      /\ handshake' = handshake /\ loading' = loading /\ analysis' = analysis /\ shown' = shown
      /\ busy' = busy /\ failure' = failure /\ failedOn' = failedOn
      /\ quality' \in [1..(doc + 1) -> Qualities] /\ \A d \in 1..doc : quality'[d] = quality[d]
  <2>1. \E q \in Qualities : quality' = [d \in 1..(doc + 1) |-> IF d > doc THEN q ELSE quality[d]]
    BY DEF Pipe!Edit, Pipe!Write
  <2>2. quality \in [1..doc -> Qualities] /\ doc \in Nat
    BY <1>0, PipeTypes DEF Pipe!TypeOK
  <2>3. quality' \in [1..(doc + 1) -> Qualities] /\ \A d \in 1..doc : quality'[d] = quality[d]
    BY <2>1, <2>2
  <2> QED
    BY <2>3 DEF Pipe!Edit, Pipe!Write, Pipe!QueueBoth
<1>2. /\ slot' \in [Pipe!Kinds -> 0..opCount'] /\ slot'["preview"] = slot["preview"]
      /\ \A t \in Pipe!Stages : /\ slot'[t] = Pipe!Op(t) /\ slot'[t] > opCount
                                /\ timer'[t] = [op |-> slot'[t], doc |-> doc'] /\ slot'[t] \in 1..opCount'
                                /\ slot'[t] \in Nat
  <2>1. /\ slot' \in [Pipe!Kinds -> 0..opCount'] /\ slot'["preview"] = slot["preview"]
        /\ \A t \in Pipe!Stages : /\ slot'[t] = Pipe!Op(t) /\ slot'[t] > opCount
                                  /\ slot'[t] \in Nat /\ slot'[t] \in 1..opCount'
    BY <1>0, <1>1, SlotsQueue DEF Pipe!QueueBoth
  <2>2. \A t \in Pipe!Stages : timer'[t] = [op |-> Pipe!Op(t), doc |-> doc']
    BY <1>1
  <2> QED
    BY <2>1, <2>2
<1>3. /\ doc \in Nat /\ since \in Nat /\ opCount \in Nat /\ doc' \in 1..doc' /\ since <= doc
      /\ 0..doc \subseteq 0..doc' /\ \A r \in runs : r.op <= opCount /\ r.op \in Nat /\ r.kind \in Pipe!Kinds
  BY <1>0, <1>1, PipeTypes
<1>4. \A t \in Pipe!Stages : timer'[t] # None
  <2> SUFFICES ASSUME NEW t \in Pipe!Stages PROVE timer'[t] # None
    OBVIOUS
  <2> DEFINE n == slot'[t]
             d == doc'
  <2>1. timer'[t] = [op |-> n, doc |-> d] /\ n \in Nat
    BY <1>2
  <2>2. d \in Nat
    BY <1>1, <1>3
  <2> HIDE DEF n, d
  <2>3. [op |-> n, doc |-> d] \in [op : Nat, doc : Nat]
    BY <2>1, <2>2
  <2> QED
    BY <2>1, <2>3, PipelineAssumption
<1>5. Pipe!TypeOK'
  <2>1. runs' \subseteq PipeRun(opCount', doc')
    <3>1. PipeRun(opCount, doc) \subseteq PipeRun(opCount', doc')
      BY <1>1, <1>3, RunsGrow
    <3> QED
      BY <1>0, <1>1, <3>1, PipeTypes
  <2>2. timer' \in [Pipe!Stages -> {None} \cup [op : 1..opCount', doc : 1..doc']]
    BY <1>1, <1>2, <1>3
  <2>3. /\ since' \in Pipe!Docs /\ doc' \in since'..MaxDoc /\ opCount' \in 0..MaxPipelineOps
        /\ quality' \in [1..doc' -> Qualities]
    BY <1>0, <1>1, <1>3, PipelineAssumption DEF Pipe!TypeOK
  <2>4. /\ analysis' \in [doc : 0..doc', errors : BOOLEAN, warnings : BOOLEAN]
        /\ shown' \in [artifact : 0..doc', preview : 0..doc'] /\ failedOn' \in [Pipe!Kinds -> 0..doc']
    BY <1>0, <1>1, <1>3 DEF Pipe!TypeOK
  <2> QED
    BY <1>0, <1>1, <1>2, <2>1, <2>2, <2>3, <2>4 DEF Pipe!TypeOK, PipeRun
<1>6. Pipe!TimersAreCurrent' /\ Pipe!RunsAreCurrent'
  <2>1. ASSUME NEW t \in Pipe!Stages, NEW r \in runs PROVE r.op # slot'[t]
    <3>1. slot'[t] > opCount /\ slot'[t] \in Nat
      BY <1>2
    <3> QED
      BY <1>3, <3>1
  <2>2. Pipe!TimersAreCurrent'
    BY <1>1, <1>2, <2>1 DEF Pipe!TimersAreCurrent
  <2> QED
    BY <1>1, <2>1, <2>2 DEF Pipe!PipeInv, Pipe!RunsAreCurrent, Pipe!ownsOperation, Pipe!isCurrent
<1>7. Pipe!PreviewsInOrder'
  BY <1>1, <1>2, <1>4 DEF Pipe!PipeInv, Pipe!PreviewsInOrder, Pipe!ownsOperation, Pipe!isCurrent,
     Pipe!StageOf, Pipe!Stages
<1>8. \A t \in Pipe!Stages : Pipe!Out(t)'
  BY <1>4 DEF Pipe!Out
<1>9. Pipe!BusyIsUnderWay' /\ Pipe!BuildIsSettled'
  BY <1>1, <1>8 DEF Pipe!PipeInv, Pipe!BusyIsUnderWay, Pipe!BuildIsSettled, Pipe!Stages
<1>10. /\ Pipe!AnalysisIsOfItsDoc' /\ Pipe!DimmedWhenOld'
       /\ Pipe!NothingOfTheOldCircuit' /\ Pipe!ArtifactWasBuilt'
  <2>1. analysis.doc # doc' /\ shown.artifact \in 0..doc
    BY <1>0, <1>1, <1>3, PipeTypes
  <2> QED
    BY <1>1, <2>1 DEF Pipe!PipeInv, Pipe!AnalysisIsOfItsDoc, Pipe!DimmedWhenOld, Pipe!NothingOfTheOldCircuit,
       Pipe!ArtifactWasBuilt
<1> QED
  BY <1>5, <1>6, <1>7, <1>9, <1>10 DEF Pipe!PipeInv

\* A flush: both stages are claimed and begin their runs at once.
LEMMA FlushKeeps ==
  ASSUME Pipe!PipeInv, Pipe!QueueBoth, Pipe!Flush(doc'), doc' \in {doc, doc + 1}, doc' <= MaxDoc,
         since' \in {since, doc'}, handshake' = handshake, view' = view, busy' = busy, failedOn' = failedOn,
         quality' \in [1..doc' -> Qualities],
         \/ /\ doc' = doc /\ since' = since /\ quality' = quality
            /\ UNCHANGED <<analysis, shown, stale, failure>>
         \/ Pipe!Cleared
  PROVE  Pipe!PipeInv'
<1>0. Pipe!TypeOK
  BY DEF Pipe!PipeInv
<1> DEFINE new(t) == Pipe!Run(t, Pipe!Op(t), doc', counter[t] + 1)
<1>1. /\ opCount + 2 <= MaxPipelineOps /\ opCount' = opCount + 2
      /\ slot' = [slot EXCEPT !["analyze"] = opCount + 1, !["build"] = opCount + 2]
      /\ timer' = [t \in Pipe!Stages |-> None]
      /\ counter' = [t \in Pipe!Stages |-> counter[t] + 1]
      /\ runs' = runs \cup {new(t) : t \in Pipe!Stages}
      /\ loading' = (loading \/ handshake # "ok")
  BY DEF Pipe!QueueBoth, Pipe!Flush, Pipe!BeginRuns
<1>2. /\ slot' \in [Pipe!Kinds -> 0..opCount'] /\ slot'["preview"] = slot["preview"]
      /\ \A t \in Pipe!Stages : /\ slot'[t] = Pipe!Op(t) /\ slot'[t] > opCount
                                /\ timer'[t] = None /\ slot'[t] \in 1..opCount'
                                /\ counter'[t] = counter[t] + 1 /\ counter[t] \in Nat
  <2>1. /\ slot' \in [Pipe!Kinds -> 0..opCount'] /\ slot'["preview"] = slot["preview"]
        /\ \A t \in Pipe!Stages : /\ slot'[t] = Pipe!Op(t) /\ slot'[t] > opCount
                                  /\ slot'[t] \in Nat /\ slot'[t] \in 1..opCount'
    BY <1>0, SlotsQueue
  <2>2. counter \in [Pipe!Stages -> Nat]
    BY <1>0, PipeTypes
  <2>3. \A t \in Pipe!Stages : timer'[t] = None /\ counter'[t] = counter[t] + 1 /\ counter[t] \in Nat
    BY <1>1, <2>2
  <2> QED
    BY <2>1, <2>3
<1>3. /\ doc \in Nat /\ since \in Nat /\ opCount \in Nat /\ doc' \in 1..doc' /\ since <= doc /\ doc' >= doc
      /\ doc' \in Nat /\ since' \in Nat /\ since' <= doc' /\ 1 <= since' /\ doc' <= MaxDoc
      /\ 0..doc \subseteq 0..doc' /\ \A r \in runs : r.op <= opCount /\ r.op \in Nat /\ r.kind \in Pipe!Kinds
  <2>1. doc \in Nat /\ since \in Nat /\ opCount \in Nat /\ 1 <= since /\ since <= doc
    BY <1>0, PipeTypes
  <2>2. \A r \in runs : r.op <= opCount /\ r.op \in Nat /\ r.kind \in Pipe!Kinds
    BY <1>0, PipeTypes
  <2> QED
    BY <2>1, <2>2
<1>4. /\ \A t \in Pipe!Stages :
           /\ new(t).kind = t /\ new(t).op = slot'[t] /\ new(t).doc = doc' /\ new(t).seq = counter'[t]
           /\ new(t).at = "handshake" /\ new(t) \in runs' /\ new(t) \in PipeRun(opCount', doc')
           /\ Pipe!StageOf(t) = t /\ t # "preview"
      /\ \A r \in runs' : r \in runs \/ \E t \in Pipe!Stages : r = new(t)
  <2>1. \A t \in Pipe!Stages : Pipe!StageOf(t) = t /\ t # "preview"
    BY DEF Pipe!Stages, Pipe!StageOf
  <2>2. ASSUME NEW t \in Pipe!Stages
        PROVE  /\ new(t) = [kind |-> t, op |-> slot'[t], doc |-> doc', seq |-> counter'[t], at |-> "handshake"]
               /\ t \in Pipe!Kinds /\ slot'[t] \in 1..opCount' /\ counter'[t] \in Nat /\ new(t) \in runs'
    <3>1. /\ slot'[t] = Pipe!Op(t) /\ counter'[t] = counter[t] + 1 /\ counter[t] \in Nat
          /\ slot'[t] \in 1..opCount' /\ t \in Pipe!Kinds
      BY <1>2 DEF Pipe!Kinds
    <3>2. new(t) \in runs'
      BY <1>1
    <3> QED
      BY <3>1, <3>2 DEF Pipe!Run
  <2>3. \A r \in runs' : r \in runs \/ \E t \in Pipe!Stages : r = new(t)
    BY <1>1
  <2> HIDE DEF new
  <2>4. doc' \in 1..doc'
    BY <1>3
  <2> QED
    BY <2>1, <2>2, <2>3, <2>4 DEF PipeRun
<1> HIDE DEF new
<1>5. Pipe!TypeOK'
  <2>1. runs' \subseteq PipeRun(opCount', doc')
    <3>1. PipeRun(opCount, doc) \subseteq PipeRun(opCount', doc')
      BY <1>1, <1>3, RunsGrow
    <3> QED
      BY <1>0, <1>4, <3>1, PipeTypes
  <2>2. timer' \in [Pipe!Stages -> {None} \cup [op : 1..opCount', doc : 1..doc']]
    BY <1>1
  <2>3. /\ since' \in Pipe!Docs /\ doc' \in since'..MaxDoc /\ opCount' \in 0..MaxPipelineOps
    BY <1>0, <1>1, <1>3, PipelineAssumption DEF Pipe!TypeOK, Pipe!Docs
  <2>4. failedOn' \in [Pipe!Kinds -> 0..doc'] /\ counter' \in [Pipe!Stages -> Nat] /\ loading' \in BOOLEAN
    BY <1>0, <1>1, <1>2, <1>3 DEF Pipe!TypeOK
  <2>5. /\ analysis' \in [doc : 0..doc', errors : BOOLEAN, warnings : BOOLEAN]
        /\ shown' \in [artifact : 0..doc', preview : 0..doc'] /\ stale' \in BOOLEAN /\ failure' \in BOOLEAN
    <3>1. CASE Pipe!Cleared
      <4>1. 0 \in 0..doc'
        BY <1>3
      <4> QED
        BY <3>1, <4>1 DEF Pipe!Cleared, Pipe!NoAnalysis
    <3>2. CASE UNCHANGED <<analysis, shown, stale, failure>>
      BY <1>0, <1>3, <3>2 DEF Pipe!TypeOK
    <3> QED
      BY <3>1, <3>2
  <2> QED
    BY <1>0, <1>2, <2>1, <2>2, <2>3, <2>4, <2>5 DEF Pipe!TypeOK, PipeRun
<1>6. \A r \in runs : \A t \in Pipe!Stages : r.op # slot'[t]
  BY <1>2, <1>3
<1>7. /\ \A r \in runs : r.seq < counter'[Pipe!StageOf(r.kind)]
  <2>1. ASSUME NEW r \in runs PROVE r.seq < counter'[Pipe!StageOf(r.kind)]
    <3>1. Pipe!StageOf(r.kind) \in Pipe!Stages /\ r.seq \in Nat
      BY <1>0, PipeTypes DEF Pipe!StageOf, Pipe!Stages
    <3>2. r.seq <= counter[Pipe!StageOf(r.kind)]
      BY DEF Pipe!PipeInv, Pipe!RunsAreCurrent
    <3> QED
      BY <1>2, <3>1, <3>2
  <2> QED
    BY <2>1
<1>8. Pipe!TimersAreCurrent' /\ Pipe!RunsAreCurrent'
  <2>1. ASSUME NEW r \in runs'
        PROVE  /\ r.seq <= counter'[Pipe!StageOf(r.kind)]
               /\ r.kind \in Pipe!Stages /\ slot'[r.kind] = r.op =>
                    r.doc = doc' /\ r.seq = counter'[Pipe!StageOf(r.kind)]
    <3>1. CASE r \in runs
      <4>1. Pipe!StageOf(r.kind) \in Pipe!Stages /\ r.seq \in Nat
        BY <1>0, <3>1, PipeTypes DEF Pipe!StageOf, Pipe!Stages
      <4> QED
        BY <1>2, <1>6, <1>7, <3>1, <4>1
    <3>2. ASSUME NEW t \in Pipe!Stages, r = new(t) PROVE <2>1!2
      BY <1>2, <1>4, <3>2
    <3> QED
      BY <1>4, <3>1, <3>2
  <2> QED
    BY <1>2, <2>1 DEF Pipe!TimersAreCurrent, Pipe!RunsAreCurrent, Pipe!ownsOperation, Pipe!isCurrent
<1>9. Pipe!PreviewsInOrder'
  <2>1. \A r \in runs' : r.kind = "preview" => r \in runs
    BY <1>4
  <2>2. \A r \in runs : r.kind = "preview" => r.seq # counter'["build"]
    <3>1. "build" \in Pipe!Stages /\ Pipe!StageOf("preview") = "build"
      BY DEF Pipe!StageOf, Pipe!Stages
    <3>2. \A r \in runs : r.kind = "preview" => r.seq < counter'["build"] /\ r.seq \in Nat
      BY <1>0, <1>7, <3>1, PipeTypes
    <3> QED
      BY <1>2, <3>1, <3>2
  <2>3. shown'.preview = shown.preview \/ shown'.preview = 0
    BY DEF Pipe!Cleared
  <2>4. \A r \in runs : r.doc \in Nat
    BY <1>0, PipeTypes
  <2>5. \A r \in runs : r.kind = "preview" /\ slot["preview"] = r.op => r.doc >= shown'.preview
    BY <2>3, <2>4 DEF Pipe!PipeInv, Pipe!PreviewsInOrder, Pipe!ownsOperation
  <2> QED
    BY <1>2, <2>1, <2>2, <2>5
       DEF Pipe!PipeInv, Pipe!PreviewsInOrder, Pipe!ownsOperation, Pipe!isCurrent, Pipe!StageOf
<1>10. \A t \in Pipe!Stages : Pipe!Out(t)'
  BY <1>4 DEF Pipe!Out, Pipe!Accepts, Pipe!ownsOperation, Pipe!isCurrent
<1>11. Pipe!BusyIsUnderWay' /\ Pipe!BuildIsSettled'
  <2>1. \E r \in runs' : r.at = "handshake"
    BY <1>4 DEF Pipe!Stages
  <2>2. loading' => handshake # "ok"
    BY <1>1 DEF Pipe!PipeInv, Pipe!BusyIsUnderWay
  <2>3. \A r \in runs' : r.at = "reply" => r \in runs
    BY <1>4
  <2> QED
    BY <1>10, <2>1, <2>2, <2>3 DEF Pipe!PipeInv, Pipe!BusyIsUnderWay, Pipe!BuildIsSettled, Pipe!Stages
<1>12. /\ Pipe!AnalysisIsOfItsDoc' /\ Pipe!DimmedWhenOld'
       /\ Pipe!NothingOfTheOldCircuit' /\ Pipe!ArtifactWasBuilt'
  <2>1. CASE Pipe!Cleared
    BY <1>3, <2>1 DEF Pipe!Cleared, Pipe!NoAnalysis, Pipe!AnalysisIsOfItsDoc, Pipe!DimmedWhenOld,
       Pipe!NothingOfTheOldCircuit, Pipe!ArtifactWasBuilt
  <2>2. CASE /\ doc' = doc /\ since' = since /\ quality' = quality
             /\ UNCHANGED <<analysis, shown, stale, failure>>
    BY <2>2 DEF Pipe!PipeInv, Pipe!AnalysisIsOfItsDoc, Pipe!DimmedWhenOld, Pipe!NothingOfTheOldCircuit,
       Pipe!ArtifactWasBuilt, Pipe!Refuses
  <2> QED
    BY <2>1, <2>2
<1> QED
  BY <1>5, <1>8, <1>9, <1>11, <1>12 DEF Pipe!PipeInv

\* A timer fires: its stage is claimed and the run it holds begins.
LEMMA FireKeeps == ASSUME Pipe!PipeInv, NEW t \in Pipe!Stages, Pipe!Fire(t) PROVE Pipe!PipeInv'
<1>0. Pipe!TypeOK
  BY DEF Pipe!PipeInv
<1> DEFINE new == Pipe!Run(t, timer[t].op, timer[t].doc, counter[t] + 1)
<1>1. /\ timer[t] # None /\ timer' = [timer EXCEPT ![t] = None]
      /\ counter' = [counter EXCEPT ![t] = counter[t] + 1]
      /\ runs' = runs \cup {new} /\ loading' = (loading \/ handshake # "ok")
      /\ doc' = doc /\ since' = since /\ quality' = quality /\ view' = view
      /\ opCount' = opCount /\ slot' = slot /\ handshake' = handshake
      /\ analysis' = analysis /\ shown' = shown /\ stale' = stale /\ busy' = busy
      /\ failure' = failure /\ failedOn' = failedOn
  BY DEF Pipe!Fire, Pipe!BeginRuns, Pipe!source, Pipe!panes
<1>2. timer[t] = [op |-> slot[t], doc |-> doc] /\ \A r \in runs : r.kind = t => r.op # slot[t]
  BY <1>1 DEF Pipe!PipeInv, Pipe!TimersAreCurrent
<1>3. /\ timer[t] \in [op : 1..opCount, doc : 1..doc]
      /\ timer \in [Pipe!Stages -> {None} \cup [op : 1..opCount, doc : 1..doc]]
      /\ counter \in [Pipe!Stages -> Nat] /\ counter[t] \in Nat
  BY <1>0, <1>1 DEF Pipe!TypeOK
<1>4. /\ new.kind = t /\ new.op = slot[t] /\ new.doc = doc /\ new.seq = counter'[t] /\ new.at = "handshake"
      /\ new \in PipeRun(opCount, doc) /\ new \in runs' /\ \A r \in runs' : r \in runs \/ r = new
      /\ Pipe!StageOf(t) = t /\ t # "preview"
  <2>1. Pipe!StageOf(t) = t /\ t # "preview" /\ t \in Pipe!Kinds
    BY DEF Pipe!StageOf, Pipe!Stages, Pipe!Kinds
  <2>2. slot[t] \in 1..opCount /\ doc \in 1..doc /\ timer[t].op = slot[t] /\ timer[t].doc = doc
    BY <1>2, <1>3
  <2> QED
    BY <1>1, <1>3, <2>1, <2>2 DEF Pipe!Run, PipeRun
<1> HIDE DEF new
<1>5. /\ counter' \in [Pipe!Stages -> Nat] /\ counter'[t] = counter[t] + 1
      /\ timer' \in [Pipe!Stages -> {None} \cup [op : 1..opCount, doc : 1..doc]] /\ timer'[t] = None
      /\ \A u \in Pipe!Stages \ {t} : counter'[u] = counter[u] /\ timer'[u] = timer[u]
  BY <1>1, <1>3
<1>6. Pipe!TypeOK'
  <2>1. runs' \subseteq PipeRun(opCount, doc)
    BY <1>0, <1>4, PipeTypes
  <2>2. loading' \in BOOLEAN
    BY <1>0, <1>1 DEF Pipe!TypeOK
  <2> QED
    BY <1>0, <1>1, <1>5, <2>1, <2>2 DEF Pipe!TypeOK, PipeRun
<1>7. ASSUME NEW r \in runs
      PROVE  /\ r.seq \in Nat /\ r.seq <= counter[Pipe!StageOf(r.kind)]
             /\ Pipe!StageOf(r.kind) \in Pipe!Stages
             /\ Pipe!StageOf(r.kind) = t => r.seq < counter'[t]
             /\ Pipe!StageOf(r.kind) # t => counter'[Pipe!StageOf(r.kind)] = counter[Pipe!StageOf(r.kind)]
  <2>1. Pipe!StageOf(r.kind) \in Pipe!Stages /\ r.seq \in Nat /\ r.seq <= counter[Pipe!StageOf(r.kind)]
    BY <1>0, PipeTypes DEF Pipe!StageOf, Pipe!Stages, Pipe!PipeInv, Pipe!RunsAreCurrent
  <2> QED
    BY <1>3, <1>5, <2>1
<1>8. Pipe!TimersAreCurrent'
  <2> SUFFICES ASSUME NEW u \in Pipe!Stages, timer'[u] # None
               PROVE  /\ timer'[u] = [op |-> slot[u], doc |-> doc]
                      /\ \A r \in runs' : r.kind = u => r.op # slot[u]
    BY <1>1 DEF Pipe!TimersAreCurrent
  <2>1. u # t /\ timer[u] # None
    BY <1>5
  <2> QED
    BY <1>4, <1>5, <2>1 DEF Pipe!PipeInv, Pipe!TimersAreCurrent
<1>9. Pipe!RunsAreCurrent'
  <2>1. ASSUME NEW r \in runs'
        PROVE  /\ r.seq <= counter'[Pipe!StageOf(r.kind)]
               /\ r.kind \in Pipe!Stages /\ slot[r.kind] = r.op =>
                    r.doc = doc /\ r.seq = counter'[Pipe!StageOf(r.kind)]
    <3>1. CASE r = new
      BY <1>4, <1>5, <3>1
    <3>2. CASE r \in runs
      <4>1. r.seq <= counter'[Pipe!StageOf(r.kind)]
        BY <1>5, <1>7, <3>2
      <4>2. ASSUME r.kind \in Pipe!Stages, slot[r.kind] = r.op
            PROVE  r.doc = doc /\ r.seq = counter'[Pipe!StageOf(r.kind)]
        <5>1. r.kind # t /\ Pipe!StageOf(r.kind) = r.kind
          BY <1>2, <3>2, <4>2 DEF Pipe!StageOf, Pipe!Stages
        <5>2. r.doc = doc /\ r.seq = counter[Pipe!StageOf(r.kind)]
          BY <3>2, <4>2 DEF Pipe!PipeInv, Pipe!RunsAreCurrent, Pipe!ownsOperation, Pipe!isCurrent
        <5> QED
          BY <1>7, <3>2, <5>1, <5>2
      <4> QED
        BY <4>1, <4>2
    <3> QED
      BY <1>4, <3>1, <3>2
  <2> QED
    BY <1>1, <2>1 DEF Pipe!RunsAreCurrent, Pipe!ownsOperation, Pipe!isCurrent
<1>10. Pipe!PreviewsInOrder'
  <2>1. \A r \in runs' : r.kind = "preview" => r \in runs
    BY <1>4
  <2>2. Pipe!StageOf("preview") = "build"
    BY DEF Pipe!StageOf
  <2>3. ASSUME NEW r \in runs, r.kind = "preview", r.seq = counter'["build"]
        PROVE  t # "build" /\ r.seq = counter["build"] /\ timer'["build"] = timer["build"]
    <3>1. t # "build"
      BY <1>5, <1>7, <2>2, <2>3
    <3> QED
      BY <1>5, <2>3, <3>1 DEF Pipe!Stages
  <2> QED
    BY <1>1, <2>1, <2>2, <2>3 DEF Pipe!PipeInv, Pipe!PreviewsInOrder, Pipe!isCurrent, Pipe!ownsOperation
<1>11. \A u \in Pipe!Stages : Pipe!Out(u) => Pipe!Out(u)'
  <2>1. Pipe!Out(t)'
    BY <1>1, <1>4 DEF Pipe!Out, Pipe!Accepts, Pipe!isCurrent, Pipe!ownsOperation
  <2>2. ASSUME NEW u \in Pipe!Stages, u # t, Pipe!Out(u) PROVE Pipe!Out(u)'
    <3>1. Pipe!StageOf(u) = u
      BY DEF Pipe!StageOf, Pipe!Stages
    <3> QED
      BY <1>1, <1>5, <2>2, <3>1 DEF Pipe!Out, Pipe!Accepts, Pipe!isCurrent, Pipe!ownsOperation
  <2> QED
    BY <2>1, <2>2
<1>12. Pipe!BusyIsUnderWay'
  <2>1. (\E r \in runs' : r.at = "handshake") /\ \A r \in runs' : r.at = "reply" => r \in runs
    BY <1>4
  <2> QED
    BY <1>1, <1>11, <2>1 DEF Pipe!PipeInv, Pipe!BusyIsUnderWay
<1>13. Pipe!BuildIsSettled'
  <2> SUFFICES ASSUME ~Pipe!Out("build")'
               PROVE  /\ handshake = "ok" => Pipe!IsRefused' \/ failedOn.build = doc \/ shown.artifact = doc
                      /\ handshake = "none" => runs' = {} /\ timer'["analyze"] = None
    BY <1>1 DEF Pipe!BuildIsSettled
  <2>1. ~Pipe!Out("build")
    BY <1>11 DEF Pipe!Stages
  <2>2. handshake = "none" => timer[t] = None
    BY <2>1 DEF Pipe!PipeInv, Pipe!BuildIsSettled, Pipe!Out, Pipe!Stages
  <2>3. Pipe!IsRefused => Pipe!IsRefused'
    BY <1>1 DEF Pipe!IsRefused, Pipe!Refuses
  <2> QED
    BY <1>1, <2>1, <2>2, <2>3 DEF Pipe!PipeInv, Pipe!BuildIsSettled
<1>14. /\ Pipe!AnalysisIsOfItsDoc' /\ Pipe!DimmedWhenOld'
       /\ Pipe!NothingOfTheOldCircuit' /\ Pipe!ArtifactWasBuilt'
  BY <1>1 DEF Pipe!PipeInv, Pipe!AnalysisIsOfItsDoc, Pipe!DimmedWhenOld, Pipe!NothingOfTheOldCircuit,
     Pipe!ArtifactWasBuilt, Pipe!Refuses
<1> QED
  BY <1>6, <1>8, <1>9, <1>10, <1>12, <1>13, <1>14 DEF Pipe!PipeInv

\* A preview that is begun takes a slot of its own; or none is, before the handshake.
LEMMA PreviewBegins ==
  ASSUME Pipe!TypeOK, NEW sequence \in Nat, Pipe!BeginPreview(sequence)
  PROVE  /\ opCount' \in Nat /\ opCount <= opCount' /\ opCount' <= MaxPipelineOps
         /\ slot' \in [Pipe!Kinds -> 0..opCount'] /\ slot' \in [Pipe!Kinds -> Nat]
         /\ \A t \in Pipe!Stages : slot'[t] = slot[t]
         /\ slot'["preview"] = slot["preview"] \/ slot'["preview"] > opCount
         /\ \A q \in Pipe!PreviewRun(sequence) :
              /\ q.kind = "preview" /\ q.op = slot'["preview"] /\ q.doc = doc /\ q.seq = sequence
              /\ q.at = "reply" /\ slot'["preview"] > opCount /\ q \in PipeRun(opCount', doc)
<1>1. opCount \in Nat /\ opCount <= MaxPipelineOps /\ MaxPipelineOps \in Nat
      /\ slot \in [Pipe!Kinds -> 0..opCount] /\ doc \in 1..doc
  BY PipeTypes, PipelineAssumption
<1>2. CASE handshake = "ok" /\ opCount < MaxPipelineOps
  <2>1. opCount' = opCount + 1 /\ slot' = [slot EXCEPT !["preview"] = opCount + 1]
    BY <1>2 DEF Pipe!BeginPreview
  <2>2. slot \in [Pipe!Kinds -> 0..opCount'] /\ opCount + 1 \in 0..opCount' /\ 0..opCount' \subseteq Nat
    BY <1>1, <2>1
  <2>3. slot' \in [Pipe!Kinds -> 0..opCount'] /\ slot'["preview"] = opCount + 1
    BY <2>1, <2>2 DEF Pipe!Kinds
  <2>4. \A t \in Pipe!Stages : slot'[t] = slot[t]
    BY <1>1, <2>1 DEF Pipe!Kinds, Pipe!Stages
  <2>5. \A q \in Pipe!PreviewRun(sequence) :
          q = [kind |-> "preview", op |-> opCount + 1, doc |-> doc, seq |-> sequence, at |-> "reply"]
    BY <1>2 DEF Pipe!PreviewRun, Pipe!Run
  <2>6. opCount + 1 \in 1..opCount' /\ "preview" \in Pipe!Kinds
    BY <1>1, <2>1 DEF Pipe!Kinds
  <2> QED
    BY <1>1, <1>2, <2>1, <2>2, <2>3, <2>4, <2>5, <2>6 DEF PipeRun
<1>3. CASE ~(handshake = "ok" /\ opCount < MaxPipelineOps)
  <2>1. 0..opCount \subseteq Nat
    BY <1>1
  <2> QED
    BY <1>1, <1>3, <2>1 DEF Pipe!BeginPreview, Pipe!PreviewRun
<1> QED
  BY <1>2, <1>3

\* Another view: its preview is of the source, under the sequence of the stage.
LEMMA ViewKeeps == Pipe!PipeInv /\ Pipe!SelectView => Pipe!PipeInv'
<1> SUFFICES ASSUME Pipe!PipeInv, Pipe!SelectView PROVE Pipe!PipeInv'
  OBVIOUS
<1>0. Pipe!TypeOK
  BY DEF Pipe!PipeInv
<1>1. /\ doc' = doc /\ since' = since /\ quality' = quality /\ timer' = timer /\ counter' = counter
      /\ handshake' = handshake /\ loading' = loading /\ analysis' = analysis /\ shown' = shown
      /\ stale' = stale /\ busy' = busy /\ failure' = failure /\ failedOn' = failedOn
      /\ view' \in {"simulate", "schematic"}
      /\ \/ Pipe!BeginPreview(counter["build"]) /\ runs' = runs \cup Pipe!PreviewRun(counter["build"])
         \/ UNCHANGED <<opCount, slot, runs>>
  BY DEF Pipe!SelectView, Pipe!stages, Pipe!panes
<1>2. /\ opCount' \in Nat /\ opCount <= opCount' /\ opCount' <= MaxPipelineOps
      /\ slot' \in [Pipe!Kinds -> 0..opCount'] /\ slot' \in [Pipe!Kinds -> Nat]
      /\ \A t \in Pipe!Stages : slot'[t] = slot[t]
      /\ slot'["preview"] = slot["preview"] \/ slot'["preview"] > opCount
      /\ runs \subseteq runs'
      /\ \A q \in runs' : \/ q \in runs
                          \/ /\ q.kind = "preview" /\ q.op = slot'["preview"] /\ q.doc = doc
                             /\ q.seq = counter["build"] /\ q.at = "reply" /\ slot'["preview"] > opCount
                             /\ q \in PipeRun(opCount', doc)
  <2>1. counter["build"] \in Nat
    BY <1>0, PipeTypes
  <2>2. CASE Pipe!BeginPreview(counter["build"]) /\ runs' = runs \cup Pipe!PreviewRun(counter["build"])
    BY <1>0, <2>1, <2>2, PreviewBegins
  <2>3. CASE UNCHANGED <<opCount, slot, runs>>
    BY <1>0, <2>3, PipeTypes
  <2> QED
    BY <1>1, <2>2, <2>3
<1>3. Pipe!TypeOK'
  <2>1. PipeRun(opCount, doc) \subseteq PipeRun(opCount', doc)
    BY <1>0, <1>2, PipeTypes, RunsGrow
  <2>2. runs' \subseteq PipeRun(opCount', doc)
    BY <1>0, <1>2, <2>1, PipeTypes
  <2>3. timer' \in [Pipe!Stages -> {None} \cup [op : 1..opCount', doc : 1..doc']]
    <3>1. 1..opCount \subseteq 1..opCount'
      BY <1>0, <1>2, PipeTypes
    <3> QED
      BY <1>0, <1>1, <3>1 DEF Pipe!TypeOK
  <2>4. opCount' \in 0..MaxPipelineOps
    BY <1>2, PipelineAssumption
  <2> QED
    BY <1>0, <1>1, <1>2, <2>2, <2>3, <2>4 DEF Pipe!TypeOK, PipeRun
<1>4. Pipe!TimersAreCurrent' /\ Pipe!RunsAreCurrent' /\ Pipe!PreviewsInOrder'
  BY <1>1, <1>2, RunsGoOn
<1>5. \A t \in Pipe!Stages : Pipe!Out(t) <=> Pipe!Out(t)'
  <2>1. ASSUME NEW t \in Pipe!Stages, NEW q \in runs' \ runs PROVE q.kind # t
    BY <1>2, <2>1 DEF Pipe!Stages
  <2>2. \A t \in Pipe!Stages : Pipe!StageOf(t) = t
    BY DEF Pipe!Stages, Pipe!StageOf
  <2> QED
    BY <1>1, <1>2, <2>1, <2>2 DEF Pipe!Out, Pipe!Accepts, Pipe!isCurrent, Pipe!ownsOperation
<1>6. Pipe!BusyIsUnderWay'
  <2>1. handshake # "ok" => runs' = runs
    BY <1>1 DEF Pipe!PreviewRun
  <2> QED
    BY <1>1, <1>2, <1>5, <2>1 DEF Pipe!PipeInv, Pipe!BusyIsUnderWay
<1>7. Pipe!BuildIsSettled'
  <2>1. Pipe!IsRefused => Pipe!IsRefused'
    BY <1>1 DEF Pipe!IsRefused, Pipe!Refuses
  <2>2. handshake # "ok" => runs' = runs
    BY <1>1 DEF Pipe!PreviewRun
  <2> QED
    BY <1>1, <1>5, <2>1, <2>2 DEF Pipe!PipeInv, Pipe!BuildIsSettled, Pipe!Stages
<1>8. /\ Pipe!AnalysisIsOfItsDoc' /\ Pipe!DimmedWhenOld'
      /\ Pipe!NothingOfTheOldCircuit' /\ Pipe!ArtifactWasBuilt'
  BY <1>1 DEF Pipe!PipeInv, Pipe!AnalysisIsOfItsDoc, Pipe!DimmedWhenOld, Pipe!NothingOfTheOldCircuit,
     Pipe!ArtifactWasBuilt, Pipe!Refuses
<1> QED
  BY <1>3, <1>4, <1>6, <1>7, <1>8 DEF Pipe!PipeInv

\* What is still out when a run ends, or goes on.
LEMMA OutStays ==
  ASSUME timer' = timer, counter' = counter, \A t \in Pipe!Stages : slot'[t] = slot[t],
         NEW r \in runs, runs \ {r} \subseteq runs'
  PROVE  /\ \A t \in Pipe!Stages : Pipe!Out(t) /\ ~(r.kind = t /\ Pipe!Accepts(r)) => Pipe!Out(t)'
         /\ r.at # "handshake" /\ (\E q \in runs : q.at = "handshake") => \E q \in runs' : q.at = "handshake"
<1>1. \A t \in Pipe!Stages : Pipe!StageOf(t) = t
  BY DEF Pipe!StageOf, Pipe!Stages
<1> QED
  BY <1>1 DEF Pipe!Out, Pipe!Accepts, Pipe!isCurrent, Pipe!ownsOperation

\* A run that ends leaves the others in order.
LEMMA EndsInOrder ==
  ASSUME Pipe!PipeInv, NEW r \in runs, runs' = runs \ {r}, doc' = doc, since' = since,
         timer' = timer, counter' = counter, opCount' = opCount, slot' = slot,
         shown' = shown \/ (r.kind = "preview" /\ Pipe!ownsOperation(r) /\
                            shown'.artifact = shown.artifact /\ shown'.preview = r.doc)
  PROVE  /\ Pipe!TimersAreCurrent' /\ Pipe!RunsAreCurrent' /\ Pipe!PreviewsInOrder'
         /\ runs' \subseteq [kind : Pipe!Kinds, op : 1..opCount', doc : 1..doc', seq : Nat,
                             at : {"handshake", "reply"}]
         /\ \A t \in Pipe!Stages : Pipe!Out(t) /\ ~(r.kind = t /\ Pipe!Accepts(r)) => Pipe!Out(t)'
         /\ r.at # "handshake" /\ (\E q \in runs : q.at = "handshake") => \E q \in runs' : q.at = "handshake"
<1>0. Pipe!TypeOK
  BY DEF Pipe!PipeInv
<1>1. slot \in [Pipe!Kinds -> Nat]
  BY <1>0, PipeTypes
<1>2. Pipe!TimersAreCurrent' /\ Pipe!RunsAreCurrent' /\ Pipe!PreviewsInOrder'
  BY <1>1, RunsGoOn
<1>3. runs' \subseteq PipeRun(opCount', doc')
  BY <1>0, PipeTypes
<1> QED
  BY <1>2, <1>3, OutStays DEF PipeRun

\* The handshake failed: the run is over.
LEMMA NotReadyKeeps == ASSUME Pipe!PipeInv, NEW r \in runs, Pipe!NotReady(r) PROVE Pipe!PipeInv'
<1>1. /\ runs' = runs \ {r} /\ handshake # "ok" /\ handshake' = "failed"
      /\ loading' = FALSE /\ failure' = TRUE
      /\ doc' = doc /\ since' = since /\ quality' = quality /\ view' = view /\ opCount' = opCount
      /\ slot' = slot /\ timer' = timer /\ counter' = counter /\ analysis' = analysis /\ shown' = shown
      /\ stale' = stale /\ busy' = busy /\ failedOn' = failedOn
  BY DEF Pipe!NotReady, Pipe!source, Pipe!stages
<1>2. /\ Pipe!TimersAreCurrent' /\ Pipe!RunsAreCurrent' /\ Pipe!PreviewsInOrder'
      /\ runs' \subseteq [kind : Pipe!Kinds, op : 1..opCount', doc : 1..doc', seq : Nat,
                          at : {"handshake", "reply"}]
  BY <1>1, EndsInOrder
<1>3. Pipe!TypeOK'
  BY <1>1, <1>2 DEF Pipe!PipeInv, Pipe!TypeOK
<1>4. Pipe!BusyIsUnderWay' /\ Pipe!BuildIsSettled'
  BY <1>1 DEF Pipe!PipeInv, Pipe!BusyIsUnderWay, Pipe!BuildIsSettled
<1>5. /\ Pipe!AnalysisIsOfItsDoc' /\ Pipe!DimmedWhenOld'
      /\ Pipe!NothingOfTheOldCircuit' /\ Pipe!ArtifactWasBuilt'
  BY <1>1 DEF Pipe!PipeInv, Pipe!AnalysisIsOfItsDoc, Pipe!DimmedWhenOld, Pipe!NothingOfTheOldCircuit,
     Pipe!ArtifactWasBuilt, Pipe!Refuses
<1> QED
  BY <1>2, <1>3, <1>4, <1>5 DEF Pipe!PipeInv

\* What is said of the build stands while a run goes on or ends that is not the
\* one that is awaited, and what is said does not change.
LEMMA SettledStays ==
  ASSUME Pipe!PipeInv, NEW r \in runs, doc' = doc, quality' = quality, handshake' # "none",
         handshake' = handshake \/ handshake = "none",
         failedOn'["build"] = failedOn["build"], shown'.artifact = shown.artifact,
         Pipe!IsRefused => Pipe!IsRefused',
         Pipe!Out("build") => Pipe!Out("build")'
  PROVE  Pipe!BuildIsSettled'
<1>1. handshake = "none" => Pipe!Out("build")
  BY DEF Pipe!PipeInv, Pipe!BuildIsSettled
<1> QED
  BY <1>1 DEF Pipe!PipeInv, Pipe!BuildIsSettled

\* A run goes on after the handshake: to its call, or no further.
LEMMA ReadyKeeps == ASSUME Pipe!PipeInv, NEW r \in runs, Pipe!Ready(r) PROVE Pipe!PipeInv'
<1>0. Pipe!TypeOK
  BY DEF Pipe!PipeInv
<1>1. /\ r.at = "handshake" /\ handshake' = "ok" /\ handshake \in {"ok", "none"} /\ loading' = FALSE
      /\ failure' \in BOOLEAN
      /\ doc' = doc /\ since' = since /\ quality' = quality /\ view' = view /\ opCount' = opCount
      /\ slot' = slot /\ timer' = timer /\ counter' = counter /\ analysis' = analysis /\ shown' = shown
      /\ failedOn' = failedOn
  BY <1>0 DEF Pipe!Ready, Pipe!source, Pipe!stages, Pipe!PipeInv, Pipe!BusyIsUnderWay, Pipe!TypeOK
<1>2. r.kind \in Pipe!Stages
  BY <1>0, <1>1, PipeTypes DEF Pipe!PipeInv, Pipe!PreviewsInOrder, Pipe!Kinds
<1>3. Pipe!AnalysisIsOfItsDoc' /\ Pipe!NothingOfTheOldCircuit' /\ Pipe!ArtifactWasBuilt'
  BY <1>1 DEF Pipe!PipeInv, Pipe!AnalysisIsOfItsDoc, Pipe!NothingOfTheOldCircuit,
     Pipe!ArtifactWasBuilt, Pipe!Refuses
<1>4. CASE ~Pipe!Accepts(r) /\ runs' = runs \ {r} /\ UNCHANGED <<busy, stale>>
  <2>1. /\ Pipe!TimersAreCurrent' /\ Pipe!RunsAreCurrent' /\ Pipe!PreviewsInOrder'
        /\ runs' \subseteq [kind : Pipe!Kinds, op : 1..opCount', doc : 1..doc', seq : Nat,
                            at : {"handshake", "reply"}]
        /\ \A t \in Pipe!Stages : Pipe!Out(t) => Pipe!Out(t)'
    BY <1>1, <1>4, EndsInOrder
  <2>2. Pipe!TypeOK'
    BY <1>0, <1>1, <1>4, <2>1 DEF Pipe!TypeOK
  <2>3. Pipe!BusyIsUnderWay'
    BY <1>1, <1>4, <2>1 DEF Pipe!PipeInv, Pipe!BusyIsUnderWay
  <2>4. Pipe!BuildIsSettled'
    <3>1. Pipe!IsRefused => Pipe!IsRefused'
      BY <1>1, <1>4 DEF Pipe!IsRefused, Pipe!Refuses
    <3> QED
      BY <1>1, <2>1, <3>1, SettledStays DEF Pipe!Stages
  <2>5. Pipe!DimmedWhenOld'
    BY <1>1, <1>4 DEF Pipe!PipeInv, Pipe!DimmedWhenOld
  <2> QED
    BY <1>3, <2>1, <2>2, <2>3, <2>4, <2>5 DEF Pipe!PipeInv
<1>5. CASE /\ Pipe!Accepts(r) /\ r.kind = "build" /\ Pipe!Skips(r) /\ runs' = runs \ {r}
           /\ Pipe!DimIfShown /\ busy' = [busy EXCEPT !["build"] = FALSE]
  <2>1. /\ Pipe!TimersAreCurrent' /\ Pipe!RunsAreCurrent' /\ Pipe!PreviewsInOrder'
        /\ runs' \subseteq [kind : Pipe!Kinds, op : 1..opCount', doc : 1..doc', seq : Nat,
                            at : {"handshake", "reply"}]
        /\ \A t \in Pipe!Stages : Pipe!Out(t) /\ t # "build" => Pipe!Out(t)'
    BY <1>1, <1>5, EndsInOrder
  <2>2. /\ stale' = (shown.artifact # 0) /\ stale' \in BOOLEAN /\ busy' \in [Pipe!Stages -> BOOLEAN]
        /\ ~busy'["build"] /\ \A t \in Pipe!Stages : t # "build" => busy'[t] = busy[t]
    BY <1>0, <1>5 DEF Pipe!DimIfShown, Pipe!TypeOK, Pipe!Stages
  <2>3. Pipe!TypeOK'
    BY <1>0, <1>1, <2>1, <2>2 DEF Pipe!TypeOK
  <2>4. Pipe!BusyIsUnderWay'
    BY <1>1, <2>1, <2>2 DEF Pipe!PipeInv, Pipe!BusyIsUnderWay
  <2>5. Pipe!BuildIsSettled'
    <3>1. analysis.doc = doc /\ (analysis.errors \/ (WarningsAsErrors /\ analysis.warnings))
      BY <1>2, <1>5, OwnerHasNoTimer DEF Pipe!Skips, Pipe!Accepts
    <3>2. /\ analysis.errors => Pipe!Refuses(doc)
          /\ analysis.warnings => quality[doc] = "warns"
      BY <3>1 DEF Pipe!PipeInv, Pipe!AnalysisIsOfItsDoc
    <3>3. Pipe!IsRefused'
      BY <1>1, <2>2, <3>1, <3>2 DEF Pipe!IsRefused, Pipe!Refuses
    <3> QED
      BY <1>1, <3>3 DEF Pipe!BuildIsSettled
  <2>6. Pipe!DimmedWhenOld'
    BY <1>1, <2>2 DEF Pipe!DimmedWhenOld
  <2> QED
    BY <1>3, <2>1, <2>3, <2>4, <2>5, <2>6 DEF Pipe!PipeInv
<1>6. CASE /\ Pipe!Accepts(r) /\ runs' = (runs \ {r}) \cup {[r EXCEPT !.at = "reply"]}
           /\ busy' = [busy EXCEPT ![r.kind] = TRUE] /\ stale' = stale
  <2> DEFINE going == [r EXCEPT !.at = "reply"]
  <2>1. /\ going.kind = r.kind /\ going.op = r.op /\ going.doc = r.doc /\ going.seq = r.seq
        /\ going.at = "reply" /\ going \in PipeRun(opCount, doc) /\ going \in runs'
        /\ runs \ {r} \subseteq runs' /\ \A q \in runs' : q \in runs \/ q = going
    <3>1. r \in PipeRun(opCount, doc)
      BY <1>0, PipeTypes
    <3> QED
      BY <1>6, <3>1 DEF PipeRun
  <2> HIDE DEF going
  <2>2. Pipe!TimersAreCurrent' /\ Pipe!RunsAreCurrent' /\ Pipe!PreviewsInOrder'
    <3>1. slot \in [Pipe!Kinds -> Nat]
      BY <1>0, PipeTypes
    <3> QED
      BY <1>1, <2>1, <3>1, RunsGoOn
  <2>3. Pipe!TypeOK'
    <3>1. runs' \subseteq PipeRun(opCount, doc) /\ busy' \in [Pipe!Stages -> BOOLEAN]
      BY <1>0, <1>6, <2>1, PipeTypes DEF Pipe!TypeOK
    <3> QED
      BY <1>0, <1>1, <1>6, <3>1 DEF Pipe!TypeOK, PipeRun
  <2>4. \A t \in Pipe!Stages : /\ Pipe!Out(t) \/ t = r.kind => Pipe!Out(t)'
                               /\ t # r.kind => busy'[t] = busy[t]
    <3>1. Pipe!Out(r.kind)'
      BY <1>1, <1>6, <2>1 DEF Pipe!Out, Pipe!Accepts, Pipe!isCurrent, Pipe!ownsOperation
    <3>2. \A t \in Pipe!Stages : t # r.kind /\ Pipe!Out(t) => Pipe!Out(t)'
      BY <1>1, <2>1, OutStays
    <3> QED
      BY <1>0, <1>6, <3>1, <3>2 DEF Pipe!TypeOK
  <2>5. Pipe!BusyIsUnderWay'
    BY <1>1, <2>4 DEF Pipe!PipeInv, Pipe!BusyIsUnderWay
  <2>6. Pipe!BuildIsSettled'
    <3>1. Pipe!IsRefused => Pipe!IsRefused'
      BY <1>1, <1>6 DEF Pipe!IsRefused, Pipe!Refuses
    <3> QED
      BY <1>1, <2>4, <3>1, SettledStays DEF Pipe!Stages
  <2>7. Pipe!DimmedWhenOld'
    BY <1>1, <1>6 DEF Pipe!PipeInv, Pipe!DimmedWhenOld
  <2> QED
    BY <1>3, <2>2, <2>3, <2>5, <2>6, <2>7 DEF Pipe!PipeInv
<1> QED
  BY <1>4, <1>5, <1>6 DEF Pipe!Ready

\* A reply that came too late, and a preview that is never answered: the run is over.
LEMMA DroppedKeeps ==
  ASSUME Pipe!PipeInv, NEW r \in runs, Pipe!Dropped(r) \/ Pipe!PreviewThrows(r) PROVE Pipe!PipeInv'
<1>1. /\ runs' = runs \ {r} /\ r.at = "reply" /\ (~Pipe!Accepts(r) \/ r.kind = "preview")
      /\ doc' = doc /\ since' = since /\ quality' = quality /\ view' = view /\ opCount' = opCount
      /\ slot' = slot /\ timer' = timer /\ counter' = counter /\ handshake' = handshake
      /\ loading' = loading /\ analysis' = analysis /\ shown' = shown
      /\ stale' = stale /\ busy' = busy /\ failure' = failure /\ failedOn' = failedOn
  BY DEF Pipe!Dropped, Pipe!PreviewThrows, Pipe!Waits, Pipe!source, Pipe!stages, Pipe!panes
<1>2. /\ Pipe!TimersAreCurrent' /\ Pipe!RunsAreCurrent' /\ Pipe!PreviewsInOrder'
      /\ runs' \subseteq [kind : Pipe!Kinds, op : 1..opCount', doc : 1..doc', seq : Nat,
                          at : {"handshake", "reply"}]
      /\ \A t \in Pipe!Stages : Pipe!Out(t) => Pipe!Out(t)'
      /\ (\E q \in runs : q.at = "handshake") => \E q \in runs' : q.at = "handshake"
  BY <1>1, EndsInOrder DEF Pipe!Stages
<1>3. Pipe!TypeOK'
  BY <1>1, <1>2 DEF Pipe!PipeInv, Pipe!TypeOK
<1>4. Pipe!BusyIsUnderWay'
  BY <1>1, <1>2 DEF Pipe!PipeInv, Pipe!BusyIsUnderWay
<1>5. Pipe!BuildIsSettled'
  <2>1. Pipe!IsRefused => Pipe!IsRefused'
    BY <1>1 DEF Pipe!IsRefused, Pipe!Refuses
  <2> QED
    BY <1>1, <1>2, <2>1 DEF Pipe!PipeInv, Pipe!BuildIsSettled, Pipe!Stages
<1>6. /\ Pipe!AnalysisIsOfItsDoc' /\ Pipe!DimmedWhenOld'
      /\ Pipe!NothingOfTheOldCircuit' /\ Pipe!ArtifactWasBuilt'
  BY <1>1 DEF Pipe!PipeInv, Pipe!AnalysisIsOfItsDoc, Pipe!DimmedWhenOld, Pipe!NothingOfTheOldCircuit,
     Pipe!ArtifactWasBuilt, Pipe!Refuses
<1> QED
  BY <1>2, <1>3, <1>4, <1>5, <1>6 DEF Pipe!PipeInv

\* The analysis arrives, or its call fails.
LEMMA AnalyzeKeeps ==
  ASSUME Pipe!PipeInv, NEW r \in runs, Pipe!AnalyzeReply(r) \/ Pipe!AnalyzeFails(r) PROVE Pipe!PipeInv'
<1>0. Pipe!TypeOK
  BY DEF Pipe!PipeInv
<1>1. /\ runs' = runs \ {r} /\ r.at = "reply" /\ r.kind = "analyze" /\ Pipe!Accepts(r)
      /\ doc' = doc /\ since' = since /\ quality' = quality /\ view' = view /\ opCount' = opCount
      /\ slot' = slot /\ timer' = timer /\ counter' = counter /\ handshake' = handshake
      /\ loading' = loading /\ shown' = shown /\ stale' = stale
      /\ busy' = [busy EXCEPT !["analyze"] = FALSE] /\ failure' \in BOOLEAN
      /\ failedOn' = failedOn \/ failedOn' = [failedOn EXCEPT !["analyze"] = r.doc]
      /\ \/ analysis' = analysis
         \/ analysis' = [doc |-> r.doc, errors |-> quality[r.doc] = "errs", warnings |-> quality[r.doc] = "warns"]
  BY DEF Pipe!AnalyzeReply, Pipe!AnalyzeFails, Pipe!Waits, Pipe!source, Pipe!stages
<1>2. r.doc = doc /\ doc \in 0..doc /\ doc \in Nat /\ since <= doc
  BY <1>0, <1>1, PipeTypes, OwnerHasNoTimer DEF Pipe!Stages, Pipe!Accepts
<1>3. /\ Pipe!TimersAreCurrent' /\ Pipe!RunsAreCurrent' /\ Pipe!PreviewsInOrder'
      /\ runs' \subseteq [kind : Pipe!Kinds, op : 1..opCount', doc : 1..doc', seq : Nat,
                          at : {"handshake", "reply"}]
      /\ \A t \in Pipe!Stages : Pipe!Out(t) /\ t # "analyze" => Pipe!Out(t)'
      /\ (\E q \in runs : q.at = "handshake") => \E q \in runs' : q.at = "handshake"
  BY <1>1, EndsInOrder
<1>4. /\ busy' \in [Pipe!Stages -> BOOLEAN] /\ ~busy'["analyze"]
      /\ \A t \in Pipe!Stages : t # "analyze" => busy'[t] = busy[t]
      /\ failedOn' \in [Pipe!Kinds -> 0..doc] /\ failedOn'["build"] = failedOn["build"]
      /\ failedOn'["preview"] = failedOn["preview"]
  BY <1>0, <1>1, <1>2 DEF Pipe!TypeOK, Pipe!Stages, Pipe!Kinds
<1>5. \/ analysis' = analysis
       \/ /\ analysis' \in [doc : 0..doc, errors : BOOLEAN, warnings : BOOLEAN] /\ analysis'.doc = doc
          /\ analysis'.errors <=> quality[doc] = "errs"
          /\ analysis'.warnings <=> quality[doc] = "warns"
  <2> DEFINE e == quality[doc] = "errs"
             w == quality[doc] = "warns"
  <2>1. e \in BOOLEAN /\ w \in BOOLEAN
    OBVIOUS
  <2>2. analysis' = analysis \/ analysis' = [doc |-> doc, errors |-> e, warnings |-> w]
    BY <1>1, <1>2
  <2> HIDE DEF e, w
  <2>3. ASSUME analysis' = [doc |-> doc, errors |-> e, warnings |-> w]
        PROVE  /\ analysis' \in [doc : 0..doc, errors : BOOLEAN, warnings : BOOLEAN]
               /\ analysis'.doc = doc /\ (analysis'.errors <=> e) /\ (analysis'.warnings <=> w)
    BY <1>2, <2>1, <2>3
  <2> QED
    BY <2>2, <2>3 DEF e, w
<1>10. Pipe!TypeOK'
  <2>1. analysis' \in [doc : 0..doc', errors : BOOLEAN, warnings : BOOLEAN]
    BY <1>0, <1>1, <1>5 DEF Pipe!TypeOK
  <2> QED
    BY <1>0, <1>1, <1>3, <1>4, <2>1 DEF Pipe!TypeOK
<1>6. Pipe!BusyIsUnderWay'
  BY <1>1, <1>3, <1>4 DEF Pipe!PipeInv, Pipe!BusyIsUnderWay
<1>7. Pipe!BuildIsSettled'
  <2>1. Pipe!IsRefused => Pipe!IsRefused'
    BY <1>1, <1>2, <1>5 DEF Pipe!IsRefused, Pipe!Refuses
  <2> QED
    BY <1>1, <1>3, <1>4, <2>1 DEF Pipe!PipeInv, Pipe!BuildIsSettled, Pipe!Stages
<1>8. Pipe!AnalysisIsOfItsDoc' /\ Pipe!NothingOfTheOldCircuit' /\ Pipe!ArtifactWasBuilt'
  BY <1>1, <1>2, <1>5 DEF Pipe!PipeInv, Pipe!AnalysisIsOfItsDoc, Pipe!NothingOfTheOldCircuit,
     Pipe!ArtifactWasBuilt, Pipe!Refuses
<1>9. Pipe!DimmedWhenOld'
  BY <1>1, <1>4 DEF Pipe!PipeInv, Pipe!DimmedWhenOld
<1> QED
  BY <1>3, <1>6, <1>7, <1>8, <1>9, <1>10 DEF Pipe!PipeInv

\* A schematic arrives, or a refusal of it.
LEMMA PreviewKeeps == ASSUME Pipe!PipeInv, NEW r \in runs, Pipe!PreviewReply(r) PROVE Pipe!PipeInv'
<1>0. Pipe!TypeOK
  BY DEF Pipe!PipeInv
<1>1. /\ runs' = runs \ {r} /\ r.at = "reply" /\ r.kind = "preview" /\ Pipe!Accepts(r)
      /\ doc' = doc /\ since' = since /\ quality' = quality /\ view' = view /\ opCount' = opCount
      /\ slot' = slot /\ timer' = timer /\ counter' = counter /\ handshake' = handshake
      /\ loading' = loading /\ analysis' = analysis /\ busy' = busy
  BY DEF Pipe!PreviewReply, Pipe!Waits, Pipe!source, Pipe!stages
<1>2. /\ r.doc \in 0..doc /\ r.doc \in Nat /\ r.doc >= since /\ r.doc >= shown.artifact
      /\ timer["build"] = None => r.doc = doc
  BY <1>0, <1>1, PipeTypes
     DEF Pipe!PipeInv, Pipe!PreviewsInOrder, Pipe!Accepts, Pipe!isCurrent, Pipe!StageOf
<1>3. \/ /\ quality[r.doc] = "errs" /\ failure' = TRUE /\ stale' = (shown.preview # 0) /\ shown' = shown
         /\ failedOn' = [failedOn EXCEPT !["preview"] = r.doc]
      \/ /\ quality[r.doc] # "errs" /\ shown' = [shown EXCEPT !.preview = r.doc]
         /\ failure' = failure /\ stale' = stale /\ failedOn' = failedOn
  BY DEF Pipe!PreviewReply
<1>4. /\ shown'.artifact = shown.artifact /\ (shown' = shown \/ shown'.preview = r.doc)
      /\ shown' \in [artifact : 0..doc, preview : 0..doc] /\ failedOn' \in [Pipe!Kinds -> 0..doc]
      /\ failedOn'["build"] = failedOn["build"] /\ stale' \in BOOLEAN /\ failure' \in BOOLEAN
      /\ \/ stale' = stale /\ failedOn'["preview"] = failedOn["preview"]
         \/ quality[r.doc] = "errs" /\ failedOn'["preview"] = r.doc
  <2>1. /\ shown \in [artifact : 0..doc, preview : 0..doc] /\ failedOn \in [Pipe!Kinds -> 0..doc]
        /\ stale \in BOOLEAN /\ failure \in BOOLEAN
        /\ (shown.preview # 0) \in BOOLEAN
    BY <1>0 DEF Pipe!TypeOK
  <2>2. [failedOn EXCEPT !["preview"] = r.doc] \in [Pipe!Kinds -> 0..doc]
    BY <1>2, <2>1
  <2>3. [shown EXCEPT !.preview = r.doc] \in [artifact : 0..doc, preview : 0..doc]
    BY <1>2, <2>1
  <2>4. "preview" \in Pipe!Kinds /\ "build" \in Pipe!Kinds
    BY DEF Pipe!Kinds, Pipe!Stages
  <2> QED
    BY <1>3, <2>1, <2>2, <2>3, <2>4
<1>5. /\ Pipe!TimersAreCurrent' /\ Pipe!RunsAreCurrent' /\ Pipe!PreviewsInOrder'
      /\ runs' \subseteq [kind : Pipe!Kinds, op : 1..opCount', doc : 1..doc', seq : Nat,
                          at : {"handshake", "reply"}]
      /\ \A t \in Pipe!Stages : Pipe!Out(t) => Pipe!Out(t)'
      /\ (\E q \in runs : q.at = "handshake") => \E q \in runs' : q.at = "handshake"
  BY <1>1, <1>4, EndsInOrder DEF Pipe!Accepts, Pipe!Stages
<1>6. Pipe!TypeOK'
  BY <1>0, <1>1, <1>4, <1>5 DEF Pipe!TypeOK
<1>7. Pipe!BusyIsUnderWay'
  BY <1>1, <1>5 DEF Pipe!PipeInv, Pipe!BusyIsUnderWay
<1>8. Pipe!BuildIsSettled'
  <2> SUFFICES ASSUME ~Pipe!Out("build")'
               PROVE  /\ handshake = "ok" => failedOn'.build = doc \/ shown'.artifact = doc \/ Pipe!IsRefused'
                      /\ handshake = "none" => runs' = {} /\ timer["analyze"] = None
    BY <1>1 DEF Pipe!BuildIsSettled
  <2>1. ~Pipe!Out("build") /\ timer["build"] = None
    BY <1>1, <1>5 DEF Pipe!Out, Pipe!Stages
  <2>2. stale' = stale \/ quality[doc] = "errs"
    BY <1>2, <1>4, <2>1
  <2>3. Pipe!IsRefused => Pipe!IsRefused'
    BY <1>1, <1>4, <2>2 DEF Pipe!IsRefused, Pipe!Refuses
  <2> QED
    BY <1>1, <1>4, <2>1, <2>3 DEF Pipe!PipeInv, Pipe!BuildIsSettled
<1>9. Pipe!AnalysisIsOfItsDoc'
  BY <1>1 DEF Pipe!PipeInv, Pipe!AnalysisIsOfItsDoc, Pipe!Refuses
<1>10. Pipe!NothingOfTheOldCircuit' /\ Pipe!ArtifactWasBuilt'
  BY <1>1, <1>2, <1>4 DEF Pipe!PipeInv, Pipe!NothingOfTheOldCircuit, Pipe!ArtifactWasBuilt
<1>11. Pipe!DimmedWhenOld'
  <2> SUFFICES ASSUME shown.artifact # 0, shown.artifact # doc
               PROVE  stale' \/ failedOn'["preview"] > shown.artifact
    BY <1>1, <1>4 DEF Pipe!DimmedWhenOld
  <2>1. CASE stale' = stale /\ failedOn'["preview"] = failedOn["preview"]
    BY <2>1 DEF Pipe!PipeInv, Pipe!DimmedWhenOld
  <2>2. CASE quality[r.doc] = "errs" /\ failedOn'["preview"] = r.doc
    <3>1. r.doc # shown.artifact /\ shown.artifact \in Nat
      BY <1>0, <2>2, PipeTypes DEF Pipe!PipeInv, Pipe!ArtifactWasBuilt
    <3> QED
      BY <1>2, <2>2, <3>1
  <2> QED
    BY <1>4, <2>1, <2>2
<1> QED
  BY <1>5, <1>6, <1>7, <1>8, <1>9, <1>10, <1>11 DEF Pipe!PipeInv

\* A build that is answered or fails: its run ends, and a preview may follow it.
LEMMA BuildEnds ==
  ASSUME Pipe!PipeInv, NEW r \in runs, r.kind = "build", r.at = "reply", Pipe!Accepts(r),
         Pipe!ThenPreview(r) \/ (runs' = runs \ {r} /\ UNCHANGED <<opCount, slot>>),
         doc' = doc, since' = since, timer' = timer, counter' = counter, handshake' = handshake,
         loading' = loading, busy' = [busy EXCEPT !["build"] = FALSE],
         shown'.artifact = shown.artifact \/ shown'.artifact = doc, shown'.preview = shown.preview
  PROVE  /\ Pipe!TimersAreCurrent' /\ Pipe!RunsAreCurrent' /\ Pipe!PreviewsInOrder' /\ Pipe!BusyIsUnderWay'
         /\ opCount' \in 0..MaxPipelineOps /\ slot' \in [Pipe!Kinds -> 0..opCount']
         /\ timer' \in [Pipe!Stages -> {None} \cup [op : 1..opCount', doc : 1..doc']]
         /\ runs' \subseteq [kind : Pipe!Kinds, op : 1..opCount', doc : 1..doc', seq : Nat,
                             at : {"handshake", "reply"}]
         /\ busy' \in [Pipe!Stages -> BOOLEAN] /\ handshake = "ok" /\ r.doc = doc /\ doc \in Nat
<1>0. Pipe!TypeOK
  BY DEF Pipe!PipeInv
<1>1. timer["build"] = None /\ r.doc = doc /\ r.seq = counter["build"] /\ doc \in Nat /\ r.seq \in Nat
  BY <1>0, PipeTypes, OwnerHasNoTimer DEF Pipe!Accepts, Pipe!isCurrent, Pipe!StageOf, Pipe!Stages
<1>2. /\ opCount' \in Nat /\ opCount <= opCount' /\ opCount' <= MaxPipelineOps
      /\ slot' \in [Pipe!Kinds -> 0..opCount'] /\ slot' \in [Pipe!Kinds -> Nat]
      /\ \A t \in Pipe!Stages : slot'[t] = slot[t]
      /\ slot'["preview"] = slot["preview"] \/ slot'["preview"] > opCount
      /\ runs \ {r} \subseteq runs'
      /\ \A q \in runs' : \/ q \in runs
                          \/ /\ q.kind = "preview" /\ q.op = slot'["preview"] /\ q.doc = doc
                             /\ q.seq = counter["build"] /\ q.at = "reply" /\ slot'["preview"] > opCount
                             /\ q \in PipeRun(opCount', doc)
  <2>1. CASE Pipe!BeginPreview(r.seq) /\ runs' = (runs \ {r}) \cup Pipe!PreviewRun(r.seq)
    BY <1>0, <1>1, <2>1, PreviewBegins
  <2>2. CASE runs' = runs \ {r} /\ UNCHANGED <<opCount, slot>>
    BY <1>0, <2>2, PipeTypes
  <2> QED
    BY <2>1, <2>2 DEF Pipe!ThenPreview
<1>3. Pipe!TimersAreCurrent' /\ Pipe!RunsAreCurrent' /\ Pipe!PreviewsInOrder'
  BY <1>1, <1>2, RunsGoOn
<1>4. runs' \subseteq PipeRun(opCount', doc')
  <2>1. PipeRun(opCount, doc) \subseteq PipeRun(opCount', doc)
    BY <1>0, <1>2, PipeTypes, RunsGrow
  <2> QED
    BY <1>0, <1>2, <2>1, PipeTypes
<1>5. timer' \in [Pipe!Stages -> {None} \cup [op : 1..opCount', doc : 1..doc']]
  <2>1. 1..opCount \subseteq 1..opCount'
    BY <1>0, <1>2, PipeTypes
  <2> QED
    BY <1>0, <2>1 DEF Pipe!TypeOK
<1>6. /\ busy' \in [Pipe!Stages -> BOOLEAN] /\ ~busy'["build"]
      /\ \A t \in Pipe!Stages : t # "build" => busy'[t] = busy[t]
  BY <1>0 DEF Pipe!TypeOK, Pipe!Stages
<1>7. handshake = "ok"
  BY DEF Pipe!PipeInv, Pipe!BusyIsUnderWay
<1>8. Pipe!BusyIsUnderWay'
  <2>1. \A t \in Pipe!Stages : t # "build" /\ Pipe!Out(t) => Pipe!Out(t)'
    BY <1>2, OutStays
  <2> QED
    BY <1>6, <1>7, <2>1 DEF Pipe!PipeInv, Pipe!BusyIsUnderWay
<1>9. opCount' \in 0..MaxPipelineOps
  BY <1>2, PipelineAssumption
<1> QED
  BY <1>1, <1>2, <1>3, <1>4, <1>5, <1>6, <1>7, <1>8, <1>9 DEF PipeRun

\* A build arrives, is refused, or its call fails.
LEMMA BuildReplyKeeps ==
  ASSUME Pipe!PipeInv, NEW r \in runs, Pipe!BuildReply(r) \/ Pipe!BuildFails(r) PROVE Pipe!PipeInv'
<1>0. Pipe!TypeOK
  BY DEF Pipe!PipeInv
<1>1. /\ r.kind = "build" /\ r.at = "reply" /\ Pipe!Accepts(r)
      /\ Pipe!ThenPreview(r) \/ (runs' = runs \ {r} /\ UNCHANGED <<opCount, slot>>)
      /\ doc' = doc /\ since' = since /\ quality' = quality /\ view' = view /\ timer' = timer
      /\ counter' = counter /\ handshake' = handshake /\ loading' = loading
      /\ busy' = [busy EXCEPT !["build"] = FALSE]
  BY DEF Pipe!BuildReply, Pipe!BuildFails, Pipe!Waits, Pipe!source, Pipe!stages
<1>2. /\ shown \in [artifact : 0..doc, preview : 0..doc] /\ failedOn \in [Pipe!Kinds -> 0..doc]
      /\ analysis \in [doc : 0..doc, errors : BOOLEAN, warnings : BOOLEAN]
      /\ failure \in BOOLEAN /\ (shown.artifact # 0) \in BOOLEAN
  BY <1>0 DEF Pipe!TypeOK
<1>3. r.doc = doc /\ doc \in Nat /\ since <= doc /\ doc \in 0..doc
  BY <1>0, <1>1, PipeTypes, OwnerHasNoTimer DEF Pipe!Stages, Pipe!Accepts
<1> DEFINE Refused == /\ Pipe!Refuses(doc) /\ analysis' = [analysis EXCEPT !.errors = TRUE]
                      /\ stale' = (shown.artifact # 0) /\ shown' = shown /\ failure' = failure
                      /\ failedOn' = failedOn
           Built == /\ ~Pipe!Refuses(doc) /\ shown' = [shown EXCEPT !.artifact = doc]
                    /\ failure' = FALSE /\ stale' = FALSE /\ analysis' = analysis /\ failedOn' = failedOn
           Failed == /\ failure' = TRUE /\ stale' = (shown.artifact # 0)
                     /\ failedOn' = [failedOn EXCEPT !["build"] = doc]
                     /\ analysis' = analysis /\ shown' = shown
<1>4. Refused \/ Built \/ Failed
  BY <1>3 DEF Pipe!BuildReply, Pipe!BuildFails, Pipe!DimIfShown
<1>5. /\ shown' \in [artifact : 0..doc, preview : 0..doc] /\ shown'.preview = shown.preview
      /\ shown'.artifact = shown.artifact \/ shown'.artifact = doc
      /\ failedOn' \in [Pipe!Kinds -> 0..doc] /\ failedOn'["preview"] = failedOn["preview"]
      /\ analysis' \in [doc : 0..doc, errors : BOOLEAN, warnings : BOOLEAN]
      /\ analysis'.doc = analysis.doc /\ analysis'.warnings = analysis.warnings
      /\ stale' \in BOOLEAN /\ failure' \in BOOLEAN
  <2>1. CASE Refused
    BY <1>2, <2>1
  <2>2. CASE Built
    BY <1>2, <1>3, <2>2
  <2>3. CASE Failed
    <3>1. failedOn' \in [Pipe!Kinds -> 0..doc] /\ failedOn'["preview"] = failedOn["preview"]
      BY <1>2, <1>3, <2>3 DEF Pipe!Kinds
    <3> QED
      BY <1>2, <2>3, <3>1
  <2> QED
    BY <1>4, <2>1, <2>2, <2>3
<1>6. /\ Pipe!TimersAreCurrent' /\ Pipe!RunsAreCurrent' /\ Pipe!PreviewsInOrder' /\ Pipe!BusyIsUnderWay'
      /\ opCount' \in 0..MaxPipelineOps /\ slot' \in [Pipe!Kinds -> 0..opCount']
      /\ timer' \in [Pipe!Stages -> {None} \cup [op : 1..opCount', doc : 1..doc']]
      /\ runs' \subseteq [kind : Pipe!Kinds, op : 1..opCount', doc : 1..doc', seq : Nat,
                          at : {"handshake", "reply"}]
      /\ busy' \in [Pipe!Stages -> BOOLEAN] /\ handshake = "ok"
  BY <1>1, <1>5, BuildEnds
<1>7. Pipe!TypeOK'
  BY <1>0, <1>1, <1>5, <1>6 DEF Pipe!TypeOK
<1>8. /\ Pipe!BuildIsSettled' /\ Pipe!AnalysisIsOfItsDoc' /\ Pipe!ArtifactWasBuilt'
      /\ Pipe!NothingOfTheOldCircuit' /\ Pipe!DimmedWhenOld'
  <2>1. Pipe!NothingOfTheOldCircuit'
    BY <1>1, <1>3, <1>5 DEF Pipe!PipeInv, Pipe!NothingOfTheOldCircuit
  <2>2. CASE Refused
    <3>1. analysis'.errors
      BY <1>2, <2>2
    <3>2. Pipe!IsRefused'
      BY <1>1, <2>2, <3>1 DEF Pipe!IsRefused, Pipe!Refuses
    <3>3. Pipe!BuildIsSettled'
      BY <1>1, <1>6, <3>2 DEF Pipe!BuildIsSettled
    <3>4. Pipe!AnalysisIsOfItsDoc'
      BY <1>1, <1>5, <2>2 DEF Pipe!PipeInv, Pipe!AnalysisIsOfItsDoc, Pipe!Refuses
    <3> QED
      BY <1>1, <2>1, <2>2, <3>3, <3>4 DEF Pipe!PipeInv, Pipe!ArtifactWasBuilt, Pipe!DimmedWhenOld
  <2>3. CASE Built
    <3>1. shown'.artifact = doc /\ quality[doc] # "errs"
      BY <1>2, <2>3 DEF Pipe!Refuses
    <3>2. Pipe!AnalysisIsOfItsDoc'
      BY <1>1, <2>3 DEF Pipe!PipeInv, Pipe!AnalysisIsOfItsDoc, Pipe!Refuses
    <3> QED
      BY <1>1, <1>6, <2>1, <3>1, <3>2 DEF Pipe!BuildIsSettled, Pipe!ArtifactWasBuilt, Pipe!DimmedWhenOld
  <2>4. CASE Failed
    <3>1. failedOn'["build"] = doc
      BY <1>2, <2>4 DEF Pipe!Kinds, Pipe!Stages
    <3>2. Pipe!AnalysisIsOfItsDoc'
      BY <1>1, <2>4 DEF Pipe!PipeInv, Pipe!AnalysisIsOfItsDoc, Pipe!Refuses
    <3> QED
      BY <1>1, <1>6, <2>1, <2>4, <3>1, <3>2 DEF Pipe!PipeInv, Pipe!BuildIsSettled, Pipe!ArtifactWasBuilt,
         Pipe!DimmedWhenOld
  <2> QED
    BY <1>4, <2>2, <2>3, <2>4
<1> QED
  BY <1>6, <1>7, <1>8 DEF Pipe!PipeInv

\* Another file or project is selected, and a flush on its own.
LEMMA SwitchKeeps == Pipe!PipeInv /\ (Pipe!Switch \/ Pipe!FlushNow) => Pipe!PipeInv'
<1> SUFFICES ASSUME Pipe!PipeInv, Pipe!Switch \/ Pipe!FlushNow PROVE Pipe!PipeInv'
  OBVIOUS
<1>0. Pipe!TypeOK /\ doc \in Nat /\ quality \in [1..doc -> Qualities] /\ doc <= MaxDoc
  <2>1. Pipe!TypeOK
    BY DEF Pipe!PipeInv
  <2> QED
    BY <2>1, PipeTypes DEF Pipe!TypeOK
<1>1. CASE Pipe!Switch
  <2>1. /\ Pipe!QueueBoth /\ Pipe!Cleared /\ doc < MaxDoc /\ doc' = doc + 1 /\ since' = doc + 1
        /\ handshake' = handshake /\ view' = view /\ busy' = busy /\ failedOn' = failedOn
    BY <1>1 DEF Pipe!Switch, Pipe!Write
  <2>2. Pipe!Flush(doc')
    BY <1>1, <2>1 DEF Pipe!Switch, Pipe!Flush, Pipe!BeginRuns, Pipe!Run
  <2>3. quality' \in [1..doc' -> Qualities]
    <3>1. PICK q \in Qualities : quality' = [d \in 1..(doc + 1) |-> IF d > doc THEN q ELSE quality[d]]
      BY <1>1 DEF Pipe!Switch, Pipe!Write
    <3> QED
      BY <1>0, <2>1, <3>1
  <2>4. doc' <= MaxDoc /\ doc' \in {doc, doc + 1} /\ since' \in {since, doc'}
    BY <1>0, <2>1, PipelineAssumption
  <2> QED
    BY <2>1, <2>2, <2>3, <2>4, FlushKeeps
<1>2. CASE Pipe!FlushNow
  <2>1. /\ Pipe!QueueBoth /\ doc' = doc /\ since' = since /\ quality' = quality /\ view' = view
        /\ handshake' = handshake /\ UNCHANGED <<analysis, shown, stale, failure>>
        /\ busy' = busy /\ failedOn' = failedOn
    BY <1>2 DEF Pipe!FlushNow, Pipe!source, Pipe!panes
  <2>2. Pipe!Flush(doc')
    BY <1>2, <2>1 DEF Pipe!FlushNow, Pipe!Flush, Pipe!BeginRuns, Pipe!Run
  <2>3. doc' <= MaxDoc /\ doc' \in {doc, doc + 1} /\ quality' \in [1..doc' -> Qualities]
    BY <1>0, <2>1
  <2> QED
    BY <2>1, <2>2, <2>3, FlushKeeps
<1> QED
  BY <1>1, <1>2

\* A page that was just opened shows nothing and has nothing under way.
LEMMA PipeStarts == Pipe!Init => Pipe!PipeInv
<1> SUFFICES ASSUME Pipe!Init PROVE Pipe!PipeInv
  OBVIOUS
<1>1. /\ doc = 1 /\ since = 1 /\ quality \in [{1} -> Qualities]
      /\ opCount = 0 /\ slot = [k \in Pipe!Kinds |-> 0]
      /\ timer = [t \in Pipe!Stages |-> None] /\ counter = [t \in Pipe!Stages |-> 0]
      /\ runs = {} /\ handshake = "none" /\ loading = FALSE
      /\ analysis = [doc |-> 0, errors |-> FALSE, warnings |-> FALSE]
      /\ shown = [artifact |-> 0, preview |-> 0] /\ stale = FALSE
      /\ busy = [t \in Pipe!Stages |-> FALSE] /\ failure = FALSE
      /\ view = "simulate" /\ failedOn = [k \in Pipe!Kinds |-> 0]
  BY DEF Pipe!Init, Pipe!NoAnalysis
<1>2. Pipe!TypeOK
  <2>1. quality \in [1..doc -> Qualities]
    <3>1. 1..doc = {1}
      BY <1>1
    <3> QED
      BY <1>1, <3>1
  <2>2. since \in Pipe!Docs /\ doc \in since..MaxDoc /\ opCount \in 0..MaxPipelineOps
    BY <1>1, PipelineAssumption DEF Pipe!Docs
  <2>3. slot \in [Pipe!Kinds -> 0..opCount] /\ failedOn \in [Pipe!Kinds -> 0..doc] /\ 0 \in 0..doc
    BY <1>1
  <2>4. counter \in [Pipe!Stages -> Nat] /\ busy \in [Pipe!Stages -> BOOLEAN]
        /\ timer \in [Pipe!Stages -> {None} \cup [op : 1..opCount, doc : 1..doc]]
    BY <1>1
  <2> QED
    BY <1>1, <2>1, <2>2, <2>3, <2>4 DEF Pipe!TypeOK
<1> QED
  BY <1>1, <1>2 DEF Pipe!PipeInv, Pipe!NothingOfTheOldCircuit, Pipe!DimmedWhenOld, Pipe!TimersAreCurrent,
     Pipe!RunsAreCurrent, Pipe!PreviewsInOrder, Pipe!BusyIsUnderWay, Pipe!AnalysisIsOfItsDoc,
     Pipe!ArtifactWasBuilt, Pipe!BuildIsSettled, Pipe!Stages

\* A step of another component leaves the pipeline alone.
LEMMA PipeRests == Pipe!PipeInv /\ UNCHANGED pipeVars => Pipe!PipeInv'
<1> SUFFICES ASSUME Pipe!PipeInv, UNCHANGED pipeVars PROVE Pipe!PipeInv'
  OBVIOUS
<1>1. /\ doc' = doc /\ since' = since /\ quality' = quality /\ view' = view /\ opCount' = opCount
      /\ slot' = slot /\ timer' = timer /\ counter' = counter /\ runs' = runs /\ handshake' = handshake
      /\ loading' = loading /\ analysis' = analysis /\ shown' = shown
      /\ stale' = stale /\ busy' = busy /\ failure' = failure /\ failedOn' = failedOn
  BY DEF pipeVars
<1>2. Pipe!TypeOK' /\ Pipe!NothingOfTheOldCircuit' /\ Pipe!DimmedWhenOld'
  BY <1>1 DEF Pipe!PipeInv, Pipe!TypeOK, Pipe!NothingOfTheOldCircuit, Pipe!DimmedWhenOld
<1>3. Pipe!TimersAreCurrent' /\ Pipe!RunsAreCurrent' /\ Pipe!PreviewsInOrder'
  BY <1>1 DEF Pipe!PipeInv, Pipe!TimersAreCurrent, Pipe!RunsAreCurrent, Pipe!PreviewsInOrder,
     Pipe!isCurrent, Pipe!ownsOperation
<1>4. \A t \in Pipe!Stages : Pipe!Out(t) <=> Pipe!Out(t)'
  BY <1>1 DEF Pipe!Out, Pipe!Accepts, Pipe!isCurrent, Pipe!ownsOperation
<1>5. Pipe!BusyIsUnderWay'
  BY <1>1, <1>4 DEF Pipe!PipeInv, Pipe!BusyIsUnderWay
<1>6. Pipe!AnalysisIsOfItsDoc' /\ Pipe!ArtifactWasBuilt' /\ Pipe!BuildIsSettled'
  BY <1>1, <1>4 DEF Pipe!PipeInv, Pipe!AnalysisIsOfItsDoc, Pipe!ArtifactWasBuilt, Pipe!BuildIsSettled,
     Pipe!IsRefused, Pipe!Refuses, Pipe!Stages
<1> QED
  BY <1>2, <1>3, <1>5, <1>6 DEF Pipe!PipeInv

\* Every step of the pipeline keeps its invariant.
LEMMA PipeKeeps == Pipe!PipeInv /\ Pipe!Next => Pipe!PipeInv'
<1> SUFFICES ASSUME Pipe!PipeInv, Pipe!Next PROVE Pipe!PipeInv'
  OBVIOUS
<1>1. ASSUME NEW r \in runs, Pipe!RunStep(r) PROVE Pipe!PipeInv'
  BY <1>1, NotReadyKeeps, ReadyKeeps, DroppedKeeps, AnalyzeKeeps, BuildReplyKeeps, PreviewKeeps
     DEF Pipe!RunStep
<1> QED
  BY <1>1, EditKeeps, SwitchKeeps, ViewKeeps, FireKeeps DEF Pipe!Next

\* In a page whose run is the pipeline, the pipeline's invariant holds.
PipeHolds == component = "pipeline" => Pipe!PipeInv

\* The pipeline keeps its invariant, and no other component touches its state.
LEMMA PipeHoldsAlways == Spec => []PipeHolds
<1>1. Init => PipeHolds
  BY PipeStarts DEF Init, PipeHolds
<1>2. PipeHolds /\ [Next]_vars => PipeHolds'
  BY PipeRests, PipeKeeps DEF PipeHolds, Next, vars
<1> QED
  BY <1>1, <1>2, PTL DEF Spec

\* At rest nothing is out, so what is said of the build is said of the source.
LEMMA RestTells ==
  Pipe!PipeInv => Pipe!RestIsNotBusy /\ Pipe!RestIsSettled /\ Pipe!LiveIsTheSource
<1> SUFFICES ASSUME Pipe!PipeInv, Pipe!AtRest
             PROVE  /\ busy = [t \in Pipe!Stages |-> FALSE] /\ ~loading
                    /\ Pipe!RestIsSettled /\ Pipe!LiveIsTheSource
  BY DEF Pipe!RestIsNotBusy, Pipe!RestIsSettled, Pipe!LiveIsTheSource
<1>1. \A t \in Pipe!Stages : ~Pipe!Out(t)
  BY DEF Pipe!AtRest, Pipe!Out
<1>2. busy = [t \in Pipe!Stages |-> FALSE]
  <2>1. \A t \in Pipe!Stages : ~busy[t]
    BY <1>1 DEF Pipe!PipeInv, Pipe!BusyIsUnderWay
  <2>2. busy \in [Pipe!Stages -> BOOLEAN]
    BY DEF Pipe!PipeInv, Pipe!TypeOK
  <2> QED
    BY <2>1, <2>2
<1>3. ~loading
  BY DEF Pipe!AtRest, Pipe!PipeInv, Pipe!BusyIsUnderWay
<1>4. handshake = "ok" => failedOn.build = doc \/ shown.artifact = doc \/ Pipe!IsRefused
  BY <1>1 DEF Pipe!PipeInv, Pipe!BuildIsSettled, Pipe!Stages
<1>5. Pipe!RestIsSettled
  BY <1>4 DEF Pipe!RestIsSettled, Pipe!IsRefused
<1>6. Pipe!LiveIsTheSource
  <2> SUFFICES ASSUME Pipe!statusFor = "live", ~stale, shown.artifact # doc, failedOn.build # doc
               PROVE  WarningsAsErrors /\ analysis.warnings /\ shown.artifact = 0
    BY DEF Pipe!LiveIsTheSource
  <2>1. handshake = "ok" /\ ~analysis.errors
    BY DEF Pipe!statusFor
  <2>2. Pipe!IsRefused
    BY <1>4, <2>1
  <2>3. WarningsAsErrors /\ analysis.warnings /\ quality[doc] = "warns"
    BY <2>1, <2>2 DEF Pipe!IsRefused
  <2> QED
    BY <2>2, <2>3 DEF Pipe!IsRefused
<1> QED
  BY <1>2, <1>3, <1>5, <1>6

\* However replies of Playground.astro's pipeline lag behind the edits, for any number of
\* edits and operations: the panes show nothing of a circuit that was left, a build that
\* is not of the source is dimmed, and at rest the page is not busy, tells the outcome of
\* the last source, and is live only for it.
THEOREM PanesAreOfTheSource == Spec => []PanesTellTheSource
<1>1. PipeHolds => PanesTellTheSource
  BY RestTells DEF PipeHolds, PanesTellTheSource, Pipe!PanesTellTheSource, Pipe!PipeInv
<1> QED
  BY <1>1, PipeHoldsAlways, PTL

\* No reply of the pipeline replaces an output by one of an older source: a build that is
\* taken is of the source in the editor, and a preview is at least as new as the last.
THEOREM OutputsOnlyGetNewer == Spec => NeverOlder
<1>1. PipeHolds /\ [Next]_vars => [component = "pipeline" => Pipe!NeverOlder]_pipeVars
  <2> SUFFICES ASSUME Pipe!PipeInv, component = "pipeline", Pipe!Next PROVE Pipe!NeverOlder
    BY DEF PipeHolds, Next, vars
  <2>0. Pipe!TypeOK /\ shown.artifact \in Nat /\ shown.preview \in Nat /\ shown.artifact <= doc
        /\ doc \in Nat /\ since <= doc /\ since \in Nat
    <3>1. Pipe!TypeOK
      BY DEF Pipe!PipeInv
    <3> QED
      BY <3>1, PipeTypes
  <2>1. ASSUME shown' = shown PROVE Pipe!NeverOlder
    <3>1. shown.artifact >= shown.artifact /\ shown.preview >= shown.preview
      BY <2>0
    <3> QED
      BY <2>1, <3>1 DEF Pipe!NeverOlder
  <2>2. CASE Pipe!Switch
    BY <2>0, <2>2 DEF Pipe!Switch, Pipe!Cleared, Pipe!NeverOlder
  <2>3. ASSUME NEW r \in runs, Pipe!BuildReply(r) PROVE Pipe!NeverOlder
    <3>1. shown' = shown \/ shown' = [shown EXCEPT !.artifact = r.doc]
      BY <2>3 DEF Pipe!BuildReply
    <3>2. r.doc = doc
      BY <2>3, OwnerHasNoTimer DEF Pipe!BuildReply, Pipe!Waits, Pipe!Accepts, Pipe!Stages
    <3>3. shown \in [artifact : 0..doc, preview : 0..doc]
      BY <2>0 DEF Pipe!TypeOK
    <3> QED
      BY <2>0, <2>1, <3>1, <3>2, <3>3 DEF Pipe!NeverOlder
  <2>4. ASSUME NEW r \in runs, Pipe!PreviewReply(r) PROVE Pipe!NeverOlder
    <3>1. shown' = shown \/ shown' = [shown EXCEPT !.preview = r.doc]
      BY <2>4 DEF Pipe!PreviewReply
    <3>2. r.doc >= shown.preview
      BY <2>4 DEF Pipe!PreviewReply, Pipe!Waits, Pipe!Accepts, Pipe!PipeInv, Pipe!PreviewsInOrder
    <3>3. shown \in [artifact : 0..doc, preview : 0..doc]
      BY <2>0 DEF Pipe!TypeOK
    <3> QED
      BY <2>0, <2>1, <3>1, <3>2, <3>3 DEF Pipe!NeverOlder
  <2>5. CASE Pipe!Edit \/ Pipe!FlushNow \/ Pipe!SelectView \/ \E t \in Pipe!Stages : Pipe!Fire(t)
    BY <2>1, <2>5 DEF Pipe!Edit, Pipe!FlushNow, Pipe!SelectView, Pipe!Fire, Pipe!panes
  <2>6. ASSUME NEW r \in runs, Pipe!NotReady(r) \/ Pipe!Ready(r) \/ Pipe!Dropped(r) \/ Pipe!AnalyzeReply(r)
                               \/ Pipe!AnalyzeFails(r) \/ Pipe!BuildFails(r) \/ Pipe!PreviewThrows(r)
        PROVE Pipe!NeverOlder
    BY <2>1, <2>6 DEF Pipe!NotReady, Pipe!Ready, Pipe!Dropped, Pipe!AnalyzeReply, Pipe!AnalyzeFails,
       Pipe!BuildFails, Pipe!PreviewThrows, Pipe!panes
  <2> QED
    BY <2>2, <2>3, <2>4, <2>5, <2>6 DEF Pipe!Next, Pipe!RunStep
<1> QED
  BY <1>1, PipeHoldsAlways, PTL DEF Spec, NeverOlder

-----------------------------------------------------------------------------
(* The schematic and the truth table as operations *)

OpRecord == [kind : Insp!Kinds, rev : Nat, seq : Nat, state : Insp!Ended \cup {"running"}]

\* What the invariant says of the operations, with their types.
LEMMA OpsTypes ==
  ASSUME Insp!OpsInv
  PROVE  /\ rev \in Nat \ {0} /\ seq \in Nat \ {0} /\ starting \subseteq 1..seq
         /\ ops \in Seq(OpRecord) /\ Len(ops) \in Nat /\ DOMAIN ops = 1..Len(ops)
         /\ \A i \in DOMAIN ops :
              /\ ops[i] \in OpRecord /\ i \in Nat
              /\ ops[i].kind \in Insp!Kinds /\ ops[i].rev \in 1..rev /\ ops[i].seq \in 1..seq
              /\ i <= newest[ops[i].kind]
              /\ ops[i].state = "running" => newest[ops[i].kind] = i
         /\ newest \in [Insp!Kinds -> Nat] /\ kept \in [Insp!Kinds -> Seq(Nat)]
         /\ \A k \in Insp!Kinds :
              /\ newest[k] \in 0..Len(ops) /\ Len(kept[k]) <= Kept
              /\ newest[k] # 0 => ops[newest[k]].kind = k /\ ops[newest[k]].state # "superseded"
<1>1. ops \in Seq(OpRecord) /\ Insp!TypeOK
  BY DEF Insp!OpsInv, Insp!TypeOK, OpRecord
<1>2. Len(ops) \in Nat /\ DOMAIN ops = 1..Len(ops) /\ \A i \in DOMAIN ops : ops[i] \in OpRecord /\ i \in Nat
  BY <1>1
<1>3. \A r \in OpRecord : r.kind \in Insp!Kinds
  BY DEF OpRecord
<1>4. \A i \in DOMAIN ops :
        /\ ops[i].rev \in 1..rev /\ ops[i].seq \in 1..seq
        /\ i <= newest[ops[i].kind]
        /\ ops[i].state = "running" => newest[ops[i].kind] = i
  BY DEF Insp!OpsInv, Insp!TypeOK, Insp!OnlyNewestRuns, Insp!SlotIsNewest
<1>5. \A k \in Insp!Kinds :
        /\ newest[k] \in 0..Len(ops) /\ Len(kept[k]) <= Kept
        /\ newest[k] # 0 => ops[newest[k]].kind = k /\ ops[newest[k]].state # "superseded"
  BY DEF Insp!OpsInv, Insp!TypeOK, Insp!SlotIsNewest
<1> QED
  BY <1>1, <1>2, <1>3, <1>4, <1>5 DEF Insp!TypeOK

\* An operation that is queued takes the slot, and the one it finds there gives way.
LEMMA QueueKeeps ==
  ASSUME Insp!OpsInv, NEW k \in Insp!Kinds, NEW at \in 1..seq, Insp!Queue(k, at),
         rev' = rev, seq' = seq, kept' = kept, starting' \subseteq starting
  PROVE  /\ Insp!OpsInv' /\ Len(ops') = Len(ops) + 1
         /\ ops'[Len(ops) + 1].kind = k /\ ops'[Len(ops) + 1].rev = rev
<1> DEFINE new == [kind |-> k, rev |-> rev, seq |-> at, state |-> "running"]
           old == [i \in DOMAIN ops |-> IF i = newest[k] /\ ops[i].state \notin Insp!Ended
                                          THEN [ops[i] EXCEPT !.state = "superseded"] ELSE ops[i]]
           n == Len(ops) + 1
<1>1. ops' = Append(old, new) /\ newest' = [newest EXCEPT ![k] = n]
  BY DEF Insp!Queue
<1>2. new \in OpRecord /\ new.kind = k /\ new.rev = rev /\ new.seq = at /\ new.state = "running"
  BY OpsTypes DEF OpRecord
<1>3. /\ old \in Seq(OpRecord) /\ Len(old) = Len(ops)
      /\ \A i \in DOMAIN ops :
           /\ old[i].kind = ops[i].kind /\ old[i].rev = ops[i].rev /\ old[i].seq = ops[i].seq
           /\ old[i].state = IF i = newest[k] /\ ops[i].state \notin Insp!Ended
                               THEN "superseded" ELSE ops[i].state
  <2>1. ASSUME NEW i \in DOMAIN ops PROVE old[i] \in OpRecord
    <3>1. ops[i] \in OpRecord
      BY OpsTypes
    <3>2. [ops[i] EXCEPT !.state = "superseded"] \in OpRecord
      BY <3>1 DEF OpRecord, Insp!Ended
    <3> QED
      BY <3>1, <3>2
  <2>2. old \in [1..Len(ops) -> OpRecord]
    BY <2>1, OpsTypes
  <2>3. old \in Seq(OpRecord) /\ Len(old) = Len(ops)
    BY <2>2, OpsTypes
  <2> QED
    BY <2>3, OpsTypes DEF OpRecord
<1> HIDE DEF new, old
<1>4. /\ ops' \in Seq(OpRecord) /\ Len(ops') = n /\ DOMAIN ops' = 1..n /\ n \in Nat
      /\ ops'[n] = new /\ \A i \in DOMAIN ops : ops'[i] = old[i]
  BY <1>1, <1>2, <1>3, OpsTypes
<1>5. /\ \A i \in DOMAIN ops' : i = n \/ i \in DOMAIN ops
      /\ DOMAIN ops \subseteq DOMAIN ops' /\ n \notin DOMAIN ops
      /\ \A i \in DOMAIN ops :
           /\ ops'[i].kind = ops[i].kind /\ ops'[i].rev = ops[i].rev /\ ops'[i].seq = ops[i].seq
           /\ ops'[i].state = IF i = newest[k] /\ ops[i].state \notin Insp!Ended
                                THEN "superseded" ELSE ops[i].state
  <2>1. DOMAIN ops = 1..Len(ops) /\ Len(ops) \in Nat
    BY OpsTypes
  <2>2. /\ \A i \in DOMAIN ops' : i = n \/ i \in DOMAIN ops
        /\ DOMAIN ops \subseteq DOMAIN ops' /\ n \notin DOMAIN ops
    BY <1>4, <2>1
  <2>3. ASSUME NEW i \in DOMAIN ops
        PROVE  /\ ops'[i].kind = ops[i].kind /\ ops'[i].rev = ops[i].rev /\ ops'[i].seq = ops[i].seq
               /\ ops'[i].state = IF i = newest[k] /\ ops[i].state \notin Insp!Ended
                                    THEN "superseded" ELSE ops[i].state
    <3>1. ops'[i] = old[i]
      BY <1>4
    <3> QED
      BY <1>3, <3>1
  <2> QED
    BY <2>2, <2>3
<1>6. /\ newest' \in [Insp!Kinds -> Nat] /\ newest'[k] = n
      /\ \A j \in Insp!Kinds \ {k} : newest'[j] = newest[j]
  BY <1>1, <1>4, OpsTypes
<1>7. Insp!TypeOK'
  <2>1. ASSUME NEW j \in Insp!Kinds PROVE newest'[j] \in 0..Len(ops') /\ Len(kept'[j]) <= Kept
    <3>1. newest[j] \in 0..Len(ops) /\ Len(kept[j]) <= Kept /\ Len(ops) \in Nat
      BY OpsTypes
    <3>2. newest'[j] = n \/ newest'[j] = newest[j]
      BY <1>6
    <3> QED
      BY <1>4, <3>1, <3>2
  <2>2. ASSUME NEW i \in DOMAIN ops' PROVE ops'[i].rev \in 1..rev /\ ops'[i].seq \in 1..seq
    <3>1. CASE i = n
      BY <1>2, <1>4, <3>1, OpsTypes
    <3>2. CASE i \in DOMAIN ops
      BY <1>5, <3>2, OpsTypes
    <3> QED
      BY <1>5, <3>1, <3>2
  <2>3. starting' \subseteq 1..seq'
    BY OpsTypes
  <2> QED
    BY <1>4, <1>6, <2>1, <2>2, <2>3, OpsTypes DEF Insp!TypeOK, OpRecord
<1>8. Insp!OnlyNewestRuns' /\ Insp!SlotIsNewest'
  <2>1. ASSUME NEW i \in DOMAIN ops'
        PROVE  /\ i <= newest'[ops'[i].kind]
               /\ ops'[i].state = "running" => newest'[ops'[i].kind] = i
    <3>1. CASE i = n
      BY <1>2, <1>4, <1>6, <3>1
    <3>2. CASE i \in DOMAIN ops
      <4>1. /\ ops[i].kind \in Insp!Kinds /\ i \in Nat /\ i <= n /\ i <= newest[ops[i].kind]
            /\ ops[i].state = "running" => newest[ops[i].kind] = i
        BY <3>2, OpsTypes
      <4>2. CASE ops[i].kind = k
        <5>1. i <= newest'[ops'[i].kind]
          BY <1>5, <1>6, <3>2, <4>1, <4>2
        <5>2. ops'[i].state # "running"
          BY <1>5, <3>2, <4>1, <4>2 DEF Insp!Ended
        <5> QED
          BY <5>1, <5>2
      <4>3. CASE ops[i].kind # k
        <5>1. newest'[ops'[i].kind] = newest[ops[i].kind]
          BY <1>5, <1>6, <3>2, <4>1, <4>3
        <5> QED
          BY <1>5, <3>2, <4>1, <5>1
      <4> QED
        BY <4>2, <4>3
    <3> QED
      BY <1>5, <3>1, <3>2
  <2>2. ASSUME NEW j \in Insp!Kinds, newest'[j] # 0
        PROVE  ops'[newest'[j]].kind = j /\ ops'[newest'[j]].state # "superseded"
    <3>1. CASE j = k
      BY <1>2, <1>4, <1>6, <3>1
    <3>2. CASE j # k
      <4>1. newest'[j] = newest[j] /\ newest[j] # 0
        BY <1>6, <2>2, <3>2
      <4>2. /\ newest[j] \in DOMAIN ops /\ ops[newest[j]].kind = j
            /\ ops[newest[j]].state # "superseded"
        BY <4>1, OpsTypes
      <4>3. newest[j] # newest[k]
        BY <3>2, <4>1, <4>2, OpsTypes
      <4> QED
        BY <1>5, <4>1, <4>2, <4>3
    <3> QED
      BY <3>1, <3>2
  <2> QED
    BY <2>1, <2>2 DEF Insp!OnlyNewestRuns, Insp!SlotIsNewest
<1>9. Insp!KeptAreThere' /\ Insp!KeptAreNewest'
  <2>1. ASSUME NEW j \in Insp!Kinds, NEW m \in DOMAIN kept[j]
        PROVE  /\ kept[j][m] \in DOMAIN ops' /\ ops'[kept[j][m]].state = "succeeded"
               /\ ops'[kept[j][m]].kind = j
    <3>1. kept[j][m] \in DOMAIN ops /\ ops[kept[j][m]].state = "succeeded" /\ ops[kept[j][m]].kind = j
      BY DEF Insp!OpsInv, Insp!KeptAreThere, Insp!KeptAreNewest
    <3> QED
      BY <1>5, <3>1 DEF Insp!Ended
  <2> QED
    BY <2>1 DEF Insp!OpsInv, Insp!KeptAreThere, Insp!KeptAreNewest
<1> QED
  BY <1>2, <1>4, <1>7, <1>8, <1>9 DEF Insp!OpsInv

\* When an operation ends, whatever its state becomes, the rest stays as it is.
LEMMA EndKeeps ==
  ASSUME Insp!OpsInv, NEW i \in DOMAIN ops, NEW how \in Insp!Ended \ {"superseded"},
         ops' = [ops EXCEPT ![i].state = how],
         ops[i].state = "running",
         newest' = newest, rev' = rev, seq' = seq, starting' = starting
  PROVE  /\ ops' \in Seq(OpRecord) /\ DOMAIN ops' = DOMAIN ops /\ Len(ops') = Len(ops)
         /\ ops'[i].state = how
         /\ \A j \in DOMAIN ops :
              /\ ops'[j].kind = ops[j].kind /\ ops'[j].rev = ops[j].rev /\ ops'[j].seq = ops[j].seq
              /\ j # i => ops'[j] = ops[j]
         /\ Insp!OnlyNewestRuns' /\ Insp!SlotIsNewest'
         /\ \A j \in DOMAIN ops' : ops'[j].rev \in 1..rev /\ ops'[j].seq \in 1..seq
<1>1. ops[i] \in OpRecord
  BY OpsTypes
<1>2. [ops[i] EXCEPT !.state = how] \in OpRecord
  BY <1>1 DEF OpRecord
<1>3. /\ ops' \in Seq(OpRecord) /\ DOMAIN ops' = DOMAIN ops /\ Len(ops') = Len(ops)
      /\ ops'[i] = [ops[i] EXCEPT !.state = how]
      /\ \A j \in DOMAIN ops : j # i => ops'[j] = ops[j]
  BY <1>2, OpsTypes
<1>4. /\ ops'[i].state = how /\ ops'[i].kind = ops[i].kind
      /\ ops'[i].rev = ops[i].rev /\ ops'[i].seq = ops[i].seq
  BY <1>3, <1>1 DEF OpRecord
<1>5. \A j \in DOMAIN ops :
        ops'[j].kind = ops[j].kind /\ ops'[j].rev = ops[j].rev /\ ops'[j].seq = ops[j].seq
  BY <1>3, <1>4
<1>6. Insp!OnlyNewestRuns'
  BY <1>3, <1>4, <1>5 DEF Insp!OpsInv, Insp!OnlyNewestRuns, Insp!Ended
<1>7. Insp!SlotIsNewest'
  <2>1. \A j \in DOMAIN ops' : j <= newest'[ops'[j].kind]
    BY <1>3, <1>5 DEF Insp!OpsInv, Insp!SlotIsNewest
  <2>2. ASSUME NEW j \in Insp!Kinds, newest[j] # 0
        PROVE  ops'[newest[j]].kind = j /\ ops'[newest[j]].state # "superseded"
    <3>1. newest[j] \in DOMAIN ops /\ ops[newest[j]].kind = j /\ ops[newest[j]].state # "superseded"
      BY <2>2, OpsTypes
    <3> QED
      BY <1>3, <1>4, <1>5, <3>1
  <2> QED
    BY <2>1, <2>2 DEF Insp!SlotIsNewest
<1>8. \A j \in DOMAIN ops' : ops'[j].rev \in 1..rev /\ ops'[j].seq \in 1..seq
  BY <1>3, <1>5, OpsTypes
<1> QED
  BY <1>3, <1>4, <1>5, <1>6, <1>7, <1>8

\* A result that is kept is newer than all that were.
LEMMA AdmitKeeps ==
  ASSUME Insp!OpsInv, NEW i \in DOMAIN ops, NEW k \in Insp!Kinds, k = ops[i].kind,
         newest[k] = i, ops[i].state = "running", Insp!admit(k, i)
  PROVE  /\ kept' \in [Insp!Kinds -> Seq(Nat)]
         /\ \A j \in Insp!Kinds : Len(kept'[j]) <= Kept
         /\ \A j \in Insp!Kinds : \A n \in DOMAIN kept'[j] :
              kept'[j][n] \in DOMAIN ops /\ ops[kept'[j][n]].kind = j
              /\ (kept'[j][n] = i \/ ops[kept'[j][n]].state = "succeeded")
         /\ \A j \in Insp!Kinds : \A m, n \in DOMAIN kept'[j] : m < n => kept'[j][m] < kept'[j][n]
<1> DEFINE old == kept[k]
           all == Append(old, i)
           new == IF Len(all) > Kept THEN Tail(all) ELSE all
<1>1. kept' = [kept EXCEPT ![k] = new]
  BY DEF Insp!admit
<1>2. /\ old \in Seq(Nat) /\ i \in Nat /\ Kept \in Nat /\ Len(old) <= Kept
      /\ \A n \in DOMAIN old : /\ old[n] \in DOMAIN ops /\ ops[old[n]].kind = k
                               /\ ops[old[n]].state = "succeeded"
      /\ \A m, n \in DOMAIN old : m < n => old[m] < old[n]
  BY OpsTypes, InspectionsAssumption DEF Insp!OpsInv, Insp!KeptAreThere, Insp!KeptAreNewest
<1>3. \A n \in DOMAIN old : old[n] < i
  <2> SUFFICES ASSUME NEW n \in DOMAIN old PROVE old[n] < i
    OBVIOUS
  <2>1. old[n] \in Nat /\ old[n] <= newest[ops[old[n]].kind] /\ old[n] # i
    BY <1>2, OpsTypes
  <2> QED
    BY <1>2, <2>1
<1> HIDE DEF old
<1>4. /\ all \in Seq(Nat) /\ Len(all) = Len(old) + 1 /\ all[Len(old) + 1] = i
      /\ DOMAIN old = 1..Len(old) /\ Len(old) \in Nat
      /\ \A n \in DOMAIN old : all[n] = old[n]
  BY <1>2
<1> HIDE DEF all
<1>5. \A n \in DOMAIN all : n \in DOMAIN old \/ n = Len(old) + 1
  BY <1>4
<1>6. /\ \A n \in DOMAIN all : /\ all[n] \in DOMAIN ops /\ ops[all[n]].kind = k
                               /\ all[n] = i \/ ops[all[n]].state = "succeeded"
      /\ \A m, n \in DOMAIN all : m < n => all[m] < all[n]
  <2>1. \A n \in DOMAIN all : \/ n \in DOMAIN old /\ all[n] = old[n]
                              \/ n = Len(old) + 1 /\ all[n] = i
    BY <1>4, <1>5
  <2>2. \A n \in DOMAIN all : /\ all[n] \in DOMAIN ops /\ ops[all[n]].kind = k
                              /\ all[n] = i \/ ops[all[n]].state = "succeeded"
    BY <1>2, <2>1
  <2>3. ASSUME NEW m \in DOMAIN all, NEW n \in DOMAIN all, m < n PROVE all[m] < all[n]
    <3>1. m \in DOMAIN old /\ all[m] = old[m]
      BY <1>4, <1>5, <2>3
    <3> QED
      BY <1>2, <1>3, <2>1, <2>3, <3>1
  <2> QED
    BY <2>2, <2>3
<1>7. /\ new \in Seq(Nat) /\ Len(new) <= Kept
      /\ \A n \in DOMAIN new : \E d \in {0, 1} : \A m \in DOMAIN new : m + d \in DOMAIN all /\ new[m] = all[m + d]
  <2>1. CASE Len(all) > Kept
    <3>1. /\ Tail(all) \in Seq(Nat) /\ Len(Tail(all)) = Len(all) - 1
          /\ \A m \in DOMAIN Tail(all) : m + 1 \in DOMAIN all /\ Tail(all)[m] = all[m + 1]
      BY <1>4
    <3> QED
      BY <1>2, <1>4, <2>1, <3>1
  <2>2. CASE ~(Len(all) > Kept)
    <3>1. \A m \in DOMAIN all : m + 0 = m
      BY <1>4
    <3> QED
      BY <1>2, <1>4, <2>2, <3>1
  <2> QED
    BY <2>1, <2>2
<1> HIDE DEF new
<1>8. /\ \A n \in DOMAIN new : /\ new[n] \in DOMAIN ops /\ ops[new[n]].kind = k
                               /\ new[n] = i \/ ops[new[n]].state = "succeeded"
      /\ \A m, n \in DOMAIN new : m < n => new[m] < new[n]
  <2>1. \A n \in DOMAIN new : n \in Nat
    BY <1>7
  <2> QED
    BY <1>6, <1>7, <2>1
<1>9. /\ kept' \in [Insp!Kinds -> Seq(Nat)] /\ kept'[k] = new
      /\ \A j \in Insp!Kinds \ {k} : kept'[j] = kept[j]
  BY <1>1, <1>7, OpsTypes
<1>10. \A j \in Insp!Kinds \ {k} :
        /\ Len(kept[j]) <= Kept
        /\ \A n \in DOMAIN kept[j] : /\ kept[j][n] \in DOMAIN ops /\ ops[kept[j][n]].kind = j
                                     /\ ops[kept[j][n]].state = "succeeded"
        /\ \A m, n \in DOMAIN kept[j] : m < n => kept[j][m] < kept[j][n]
  BY DEF Insp!OpsInv, Insp!TypeOK, Insp!KeptAreThere, Insp!KeptAreNewest
<1>11. ASSUME NEW j \in Insp!Kinds
       PROVE  /\ Len(kept'[j]) <= Kept
              /\ \A n \in DOMAIN kept'[j] :
                   /\ kept'[j][n] \in DOMAIN ops /\ ops[kept'[j][n]].kind = j
                   /\ kept'[j][n] = i \/ ops[kept'[j][n]].state = "succeeded"
              /\ \A m, n \in DOMAIN kept'[j] : m < n => kept'[j][m] < kept'[j][n]
  <2>1. CASE j = k
    BY <1>7, <1>8, <1>9, <2>1
  <2>2. CASE j # k
    BY <1>9, <1>10, <2>2
  <2> QED
    BY <2>1, <2>2
<1> QED
  BY <1>9, <1>11

\* runPreview() and runTruth(): an operation, or a scratch session that is awaited.
LEMMA RunKeeps ==
  ASSUME Insp!OpsInv, NEW k \in Insp!Kinds, Insp!Run(k, seq),
         rev' = rev, seq' = seq, kept' = kept
  PROVE  /\ Insp!OpsInv'
         /\ k = "preview" => Len(ops) + 1 \in DOMAIN ops' /\ ops'[Len(ops) + 1].rev = rev
<1>1. CASE k = "truth" /\ scratch
  <2>1. starting' = starting \cup {seq} /\ ops' = ops /\ newest' = newest
    BY <1>1 DEF Insp!Run
  <2>2. Insp!TypeOK'
    <3>1. starting' \subseteq 1..seq
      BY <2>1, OpsTypes
    <3> QED
      BY <2>1, <3>1 DEF Insp!OpsInv, Insp!TypeOK
  <2> QED
    BY <1>1, <2>1, <2>2 DEF Insp!OpsInv, Insp!OnlyNewestRuns, Insp!SlotIsNewest, Insp!KeptAreThere,
       Insp!KeptAreNewest
<1>2. CASE ~(k = "truth" /\ scratch)
  <2>1. Insp!Queue(k, seq) /\ starting' = starting /\ seq \in 1..seq
    BY <1>2, OpsTypes DEF Insp!Run
  <2>2. /\ Insp!OpsInv' /\ Len(ops') = Len(ops) + 1 /\ ops'[Len(ops) + 1].rev = rev
    BY <2>1, QueueKeeps
  <2>3. DOMAIN ops' = 1..Len(ops') /\ Len(ops) \in Nat
    BY <2>2, OpsTypes DEF Insp!OpsInv, Insp!TypeOK
  <2> QED
    BY <2>2, <2>3
<1> QED
  BY <1>1, <1>2

\* A reply that is taken.
LEMMA ReplyKeeps ==
  ASSUME Insp!OpsInv, NEW i \in DOMAIN ops, NEW fits, Insp!Reply(i, fits)
  PROVE  Insp!OpsInv'
<1> DEFINE k == ops[i].kind
<1>1. k \in Insp!Kinds /\ newest[k] = i /\ i # 0 /\ ops[i].state = "running"
  <2>1. k \in Insp!Kinds /\ newest[k] = i /\ i # 0 /\ ops[i].state \in {"running", "superseded"}
    BY OpsTypes DEF Insp!Reply, Insp!Takes
  <2> QED
    BY <2>1, OpsTypes
<1>2. ops' = [ops EXCEPT ![i].state = "succeeded"]
  BY <1>1 DEF Insp!Reply
<1>3. newest' = newest /\ rev' = rev /\ seq' = seq /\ starting' = starting
  BY DEF Insp!Reply
<1>4. "succeeded" \in Insp!Ended \ {"superseded"}
  BY DEF Insp!Ended
<1>5. /\ ops' \in Seq(OpRecord) /\ DOMAIN ops' = DOMAIN ops /\ Len(ops') = Len(ops)
      /\ ops'[i].state = "succeeded"
      /\ \A j \in DOMAIN ops :
           /\ ops'[j].kind = ops[j].kind
           /\ j # i => ops'[j] = ops[j]
      /\ Insp!OnlyNewestRuns' /\ Insp!SlotIsNewest'
      /\ \A j \in DOMAIN ops' : ops'[j].rev \in 1..rev /\ ops'[j].seq \in 1..seq
  BY <1>1, <1>2, <1>3, <1>4, EndKeeps
<1>6. /\ kept' \in [Insp!Kinds -> Seq(Nat)]
      /\ \A j \in Insp!Kinds : Len(kept'[j]) <= Kept
      /\ \A j \in Insp!Kinds : \A n \in DOMAIN kept'[j] :
           kept'[j][n] \in DOMAIN ops /\ ops[kept'[j][n]].kind = j
           /\ (kept'[j][n] = i \/ ops[kept'[j][n]].state = "succeeded")
      /\ \A j \in Insp!Kinds : \A m, n \in DOMAIN kept'[j] : m < n => kept'[j][m] < kept'[j][n]
  <2>1. CASE Insp!admit(k, i)
    BY <1>1, <2>1, AdmitKeeps
  <2>2. CASE kept' = kept
    BY <2>2, OpsTypes DEF Insp!OpsInv, Insp!KeptAreThere, Insp!KeptAreNewest
  <2> QED
    BY <2>1, <2>2 DEF Insp!Reply
<1>7. Insp!TypeOK'
  BY <1>3, <1>5, <1>6, OpsTypes DEF Insp!TypeOK, OpRecord
<1>8. ASSUME NEW j \in Insp!Kinds, NEW n \in DOMAIN kept'[j]
      PROVE  /\ kept'[j][n] \in DOMAIN ops' /\ ops'[kept'[j][n]].kind = j
             /\ ops'[kept'[j][n]].state = "succeeded"
  <2> DEFINE e == kept'[j][n]
  <2>1. e \in DOMAIN ops /\ ops[e].kind = j /\ (e = i \/ ops[e].state = "succeeded")
    BY <1>6
  <2> QED
    BY <2>1, <1>5
<1>9. Insp!KeptAreThere' /\ Insp!KeptAreNewest'
  BY <1>6, <1>8 DEF Insp!KeptAreThere, Insp!KeptAreNewest
<1> QED
  BY <1>5, <1>7, <1>9 DEF Insp!OpsInv

\* A failure, or a refusal.
LEMMA FailKeeps ==
  ASSUME Insp!OpsInv, NEW i \in DOMAIN ops, NEW how \in {"failed", "refused"}, NEW lost,
         Insp!Fail(i, how, lost)
  PROVE  Insp!OpsInv'
<1>1. /\ ops' = [ops EXCEPT ![i].state = how] /\ ops[i].state = "running"
      /\ newest' = newest /\ rev' = rev /\ seq' = seq /\ starting' = starting /\ kept' = kept
      /\ how \in Insp!Ended \ {"superseded"}
  BY DEF Insp!Fail, Insp!Ended
<1>2. /\ ops' \in Seq(OpRecord) /\ DOMAIN ops' = DOMAIN ops /\ Len(ops') = Len(ops)
      /\ \A j \in DOMAIN ops : j # i => ops'[j] = ops[j]
      /\ Insp!OnlyNewestRuns' /\ Insp!SlotIsNewest'
      /\ \A j \in DOMAIN ops' : ops'[j].rev \in 1..rev /\ ops'[j].seq \in 1..seq
  BY <1>1, EndKeeps
<1>3. Insp!TypeOK'
  BY <1>1, <1>2, OpsTypes DEF Insp!TypeOK, OpRecord
<1>4. Insp!KeptAreThere' /\ Insp!KeptAreNewest'
  BY <1>1, <1>2 DEF Insp!OpsInv, Insp!KeptAreThere, Insp!KeptAreNewest
<1> QED
  BY <1>2, <1>3, <1>4 DEF Insp!OpsInv

\* A step that leaves the operations alone.
LEMMA OpsRest ==
  ASSUME Insp!OpsInv, ops' = ops, newest' = newest, kept' = kept,
         rev' \in Nat, rev' >= rev, seq' \in Nat, seq' >= seq, starting' \subseteq starting
  PROVE  Insp!OpsInv'
<1>1. Insp!TypeOK'
  <2>1. 1..rev \subseteq 1..rev' /\ 1..seq \subseteq 1..seq' /\ rev' # 0 /\ seq' # 0
    BY OpsTypes
  <2>2. \A i \in DOMAIN ops' : ops'[i].rev \in 1..rev' /\ ops'[i].seq \in 1..seq'
    BY <2>1, OpsTypes
  <2>3. starting' \subseteq 1..seq'
    BY <2>1, OpsTypes
  <2> QED
    BY <2>1, <2>2, <2>3 DEF Insp!OpsInv, Insp!TypeOK
<1> QED
  BY <1>1 DEF Insp!OpsInv, Insp!OnlyNewestRuns, Insp!SlotIsNewest, Insp!KeptAreThere,
     Insp!KeptAreNewest

\* What an agent is told when no ticket is given holds by itself.
LEMMA NoTicketHolds == ticket' = Insp!NoTicket => Insp!SchematicIsCurrent' /\ Insp!TicketIsThere'
BY DEF Insp!NoTicket, Insp!SchematicIsCurrent, Insp!TicketIsThere

\* Every step of the page's operations.
LEMMA InspKeeps == Insp!InspInv /\ Insp!Next => Insp!InspInv'
<1> SUFFICES ASSUME Insp!InspInv, Insp!Next PROVE Insp!InspInv'
  OBVIOUS
<1>0. Insp!OpsInv /\ "truth" \in Insp!Kinds /\ "preview" \in Insp!Kinds
  BY DEF Insp!InspInv, Insp!Kinds
<1>1. CASE Insp!Edit \/ Insp!Option \/ Insp!Claim
  <2>1. /\ ops' = ops /\ newest' = newest /\ kept' = kept /\ starting' = starting
        /\ rev' \in {rev, rev + 1} /\ seq' \in {seq, seq + 1} /\ ticket' = Insp!NoTicket
    BY <1>1 DEF Insp!Edit, Insp!Option, Insp!Claim
  <2>2. rev' \in Nat /\ rev' >= rev /\ seq' \in Nat /\ seq' >= seq
    BY <1>0, <2>1, OpsTypes
  <2> QED
    BY <1>0, <2>1, <2>2, OpsRest, NoTicketHolds DEF Insp!InspInv
<1>2. CASE Insp!Built \/ \E v \in Insp!Views : Insp!Show(v)
  <2>1. /\ \/ starting' = starting /\ ops' = ops /\ newest' = newest
           \/ \E k \in Insp!Kinds : Insp!Run(k, seq)
        /\ rev' = rev /\ seq' = seq /\ kept' = kept /\ ticket' = Insp!NoTicket
    BY <1>2 DEF Insp!Built, Insp!Show, Insp!Kinds
  <2>2. Insp!OpsInv'
    <3>1. CASE starting' = starting /\ ops' = ops /\ newest' = newest
      <4>1. rev \in Nat /\ seq \in Nat /\ rev >= rev /\ seq >= seq
        BY <1>0, OpsTypes
      <4> QED
        BY <1>0, <2>1, <3>1, <4>1, OpsRest
    <3>2. CASE \E k \in Insp!Kinds : Insp!Run(k, seq)
      BY <1>0, <2>1, <3>2, RunKeeps
    <3> QED
      BY <2>1, <3>1, <3>2
  <2> QED
    BY <2>1, <2>2, NoTicketHolds DEF Insp!InspInv
<1>3. CASE Insp!Sessions
  <2>1. PICK at \in starting : Insp!SessionReady(at)
    BY <1>3 DEF Insp!Sessions
  <2>2. /\ rev' = rev /\ seq' = seq /\ kept' = kept /\ starting' \subseteq starting
        /\ ticket' = Insp!NoTicket /\ at \in 1..seq
    BY <1>0, <2>1, OpsTypes DEF Insp!SessionReady
  <2>3. Insp!OpsInv'
    <3>1. CASE Insp!Queue("truth", at)
      BY <1>0, <2>2, <3>1, QueueKeeps
    <3>2. CASE ops' = ops /\ newest' = newest
      <4>1. rev \in Nat /\ seq \in Nat /\ rev >= rev /\ seq >= seq
        BY <1>0, OpsTypes
      <4> QED
        BY <1>0, <2>2, <3>2, <4>1, OpsRest
    <3> QED
      BY <2>1, <3>1, <3>2 DEF Insp!SessionReady
  <2> QED
    BY <2>2, <2>3, NoTicketHolds DEF Insp!InspInv
<1>4. ASSUME NEW i \in DOMAIN ops,
             \/ \E fits \in BOOLEAN : Insp!Reply(i, fits)
             \/ \E how \in {"failed", "refused"} : Insp!Fail(i, how, FALSE)
             \/ Insp!Fail(i, "failed", TRUE)
      PROVE  Insp!InspInv'
  <2>1. Insp!OpsInv'
    BY <1>0, <1>4, ReplyKeeps, FailKeeps
  <2>2. ticket' = Insp!NoTicket
    BY <1>4 DEF Insp!Reply, Insp!Fail
  <2> QED
    BY <2>1, <2>2, NoTicketHolds DEF Insp!InspInv
<1>5. CASE Insp!requestSchematic
  <2>1. rev' = rev /\ seq' = seq /\ kept' = kept
    BY <1>5 DEF Insp!requestSchematic
  <2>2. CASE newest["preview"] # 0 /\ ops[newest["preview"]].rev = rev
    <3>1. /\ ops' = ops /\ newest' = newest /\ starting' = starting
          /\ ticket'.id = newest["preview"] /\ ticket'.rev = rev
      BY <1>5, <2>2 DEF Insp!requestSchematic, Insp!Told
    <3>2. rev \in Nat /\ seq \in Nat /\ rev >= rev /\ seq >= seq /\ newest["preview"] \in DOMAIN ops
      BY <1>0, <2>2, OpsTypes
    <3>3. Insp!OpsInv'
      BY <1>0, <2>1, <3>1, <3>2, OpsRest
    <3> QED
      BY <2>2, <3>1, <3>2, <3>3 DEF Insp!InspInv, Insp!SchematicIsCurrent, Insp!TicketIsThere
  <2>3. CASE ~(newest["preview"] # 0 /\ ops[newest["preview"]].rev = rev)
    <3>1. /\ Insp!Run("preview", seq)
          /\ ticket'.id = Len(ops) + 1 /\ ticket'.rev = rev
      BY <1>5, <2>3 DEF Insp!requestSchematic, Insp!Told
    <3> QED
      BY <1>0, <2>1, <3>1, RunKeeps DEF Insp!InspInv, Insp!SchematicIsCurrent, Insp!TicketIsThere
  <2> QED
    BY <2>2, <2>3
<1>6. CASE Insp!requestTruth
  <2>1. rev' = rev /\ seq' = seq /\ kept' = kept
    BY <1>6 DEF Insp!requestTruth
  <2>2. ticket'.kind # "preview"
    BY <1>6 DEF Insp!requestTruth, Insp!Told, Insp!NoTicket
  <2>3. Insp!OpsInv'
    <3>1. CASE ops' = ops /\ newest' = newest /\ starting' = starting
      <4>1. rev \in Nat /\ seq \in Nat /\ rev >= rev /\ seq >= seq
        BY <1>0, OpsTypes
      <4> QED
        BY <1>0, <2>1, <3>1, <4>1, OpsRest
    <3>2. CASE Insp!Run("truth", seq)
      BY <1>0, <2>1, <3>2, RunKeeps
    <3> QED
      BY <1>6, <3>1, <3>2 DEF Insp!requestTruth
  <2> QED
    BY <2>2, <2>3 DEF Insp!InspInv, Insp!SchematicIsCurrent, Insp!TicketIsThere
<1> QED
  BY <1>1, <1>2, <1>3, <1>4, <1>5, <1>6 DEF Insp!Next

\* A page that was just opened has no operations.
LEMMA InspStarts == Insp!Init => Insp!InspInv
<1> SUFFICES ASSUME Insp!Init PROVE Insp!InspInv
  OBVIOUS
<1>1. /\ ops = <<>> /\ rev = 1 /\ seq = 1 /\ starting = {} /\ newest = [k \in Insp!Kinds |-> 0]
      /\ kept = [k \in Insp!Kinds |-> <<>>] /\ ticket = Insp!NoTicket
  BY DEF Insp!Init
<1>2. DOMAIN ops = {} /\ Len(ops) = 0 /\ \A S : ops \in Seq(S)
  BY <1>1
<1>3. \A k \in Insp!Kinds : kept[k] \in Seq(Nat) /\ DOMAIN kept[k] = {} /\ Len(kept[k]) <= Kept
  BY <1>1, InspectionsAssumption
<1>4. Insp!TypeOK
  BY <1>1, <1>2, <1>3 DEF Insp!TypeOK
<1> QED
  BY <1>1, <1>2, <1>3, <1>4 DEF Insp!InspInv, Insp!OpsInv, Insp!OnlyNewestRuns, Insp!SlotIsNewest,
     Insp!KeptAreThere, Insp!KeptAreNewest, Insp!SchematicIsCurrent, Insp!TicketIsThere, Insp!NoTicket

\* A step of another component leaves the operations alone.
LEMMA InspRests == Insp!InspInv /\ UNCHANGED inspVars => Insp!InspInv'
<1> SUFFICES ASSUME Insp!InspInv, UNCHANGED inspVars PROVE Insp!InspInv'
  OBVIOUS
<1>1. /\ ops' = ops /\ newest' = newest /\ kept' = kept /\ rev' = rev /\ seq' = seq
      /\ starting' = starting /\ ticket' = ticket /\ Insp!OpsInv
  BY DEF inspVars, Insp!InspInv
<1>2. rev \in Nat /\ seq \in Nat /\ rev >= rev /\ seq >= seq
  BY <1>1, OpsTypes
<1> QED
  BY <1>1, <1>2, OpsRest DEF Insp!InspInv, Insp!SchematicIsCurrent, Insp!TicketIsThere

\* In a page whose runs are these operations, their invariant holds.
InspHolds == component = "inspections" => Insp!InspInv

\* The operations keep their invariant, and no other component touches their state.
LEMMA InspHoldsAlways == Spec => []InspHolds
<1>1. Init => InspHolds
  BY InspStarts DEF Init, InspHolds
<1>2. InspHolds /\ [Next]_vars => InspHolds'
  BY InspRests, InspKeeps DEF InspHolds, Next, vars
<1> QED
  BY <1>1, <1>2, PTL DEF Spec

\* However builds, views, scratch sessions and agents' requests of Playground.astro
\* overtake each other: of the schematic and of the truth table only the newest operation
\* runs, what is kept of each are results in the order they came, no more than there is
\* room for, and an agent is referred only to a schematic of the source it asked about.
THEOREM NewestServed == Spec => []NewestIsServed
<1>1. InspHolds => NewestIsServed
  BY DEF InspHolds, NewestIsServed, Insp!NewestIsServed, Insp!InspInv, Insp!OpsInv
<1> QED
  BY <1>1, InspHoldsAlways, PTL

-----------------------------------------------------------------------------
(* The session, its runtimes and its faces *)

Runtime == [alive : BOOLEAN, stuck : BOOLEAN, pins : [Input -> Sim!PinState], mem : Sim!Memory]

Shows == [rt : Nat, pins : [Input -> Sim!PinState], mem : Sim!Memory]

\* One or two assignments of values to inputs.
Assignment == [pin : Input, value : PinValue]

IsDrive(list) == list \in Seq(Assignment) /\ (Len(list) = 1 \/ Len(list) = 2)

\* What the invariant says, with the types.
LEMMA SimTypes ==
  ASSUME Sim!SimInv
  PROVE  /\ rts \in Seq(Runtime) /\ Len(rts) \in Nat /\ Len(rts) <= MaxRuntimes
         /\ DOMAIN rts = 1..Len(rts) /\ Sim!Runtimes = 1..Len(rts)
         /\ rt \in 0..Len(rts) /\ rt \in Nat
         /\ \A r \in 1..Len(rts) : rts[r] \in Runtime
         /\ simPhase = "alive" => rt \in 1..Len(rts)
         /\ listening \subseteq SimFace /\ awaiting \subseteq SimFace
         /\ faceView \in [SimFace -> [rt : 0..Len(rts), pins : [Input -> Sim!PinState], mem : Sim!Memory]]
<1>1. /\ rts \in Seq(Runtime) /\ Len(rts) <= MaxRuntimes /\ rt \in 0..Len(rts)
      /\ listening \subseteq SimFace /\ awaiting \subseteq SimFace
      /\ faceView \in [SimFace -> [rt : 0..Len(rts), pins : [Input -> Sim!PinState], mem : Sim!Memory]]
  BY DEF Sim!SimInv, Sim!TypeOK, Runtime
<1>2. Sim!Runtimes = 1..Len(rts)
  BY DEF Sim!Runtimes
<1>3. simPhase = "alive" => rt \in 1..Len(rts)
  BY <1>2 DEF Sim!SimInv, Sim!BuiltOnce
<1>4. Len(rts) \in Nat /\ DOMAIN rts = 1..Len(rts) /\ \A r \in 1..Len(rts) : rts[r] \in Runtime
  BY <1>1
<1> QED
  BY <1>1, <1>2, <1>3, <1>4

\* Of one or two numbers one is the largest.
LEMMA LargestOfTwo ==
  ASSUME NEW S, S \subseteq 1..2, S # {}
  PROVE  Sim!Max(S) \in S
<1>1. \E x \in S : \A y \in S : x >= y
  <2>1. CASE 2 \in S
    <3>1. \A y \in S : 2 >= y
      OBVIOUS
    <3> QED
      BY <2>1, <3>1
  <2>2. CASE 2 \notin S
    <3>1. PICK x \in S : TRUE
      OBVIOUS
    <3>2. \A y \in S : y = 1
      BY <2>2
    <3>3. \A y \in S : x >= y
      BY <3>2
    <3> QED
      BY <3>3
  <2> QED
    BY <2>1, <2>2
<1> QED
  BY <1>1 DEF Sim!Max

\* Driving inputs gives a runtime whose inputs are driven, and nothing else changed.
LEMMA DriveType ==
  ASSUME NEW x \in Runtime, NEW list, IsDrive(list)
  PROVE  /\ Sim!Drive(x, list) \in Runtime
         /\ Sim!Drive(x, list).alive = x.alive /\ Sim!Drive(x, list).stuck = x.stuck
         /\ Sim!Drive(x, list).mem = x.mem
<1> DEFINE hits(p) == {i \in DOMAIN list : list[i].pin = p}
           driven == [p \in Input |-> IF hits(p) = {} THEN x.pins[p] ELSE list[Sim!Max(hits(p))].value]
<1>1. Sim!Drive(x, list) = [x EXCEPT !.pins = driven]
  BY DEF Sim!Drive
<1>2. driven \in [Input -> Sim!PinState]
  <2> SUFFICES ASSUME NEW p \in Input
               PROVE  (IF hits(p) = {} THEN x.pins[p] ELSE list[Sim!Max(hits(p))].value) \in Sim!PinState
    OBVIOUS
  <2>1. x.pins[p] \in Sim!PinState
    BY DEF Runtime
  <2>2. ASSUME hits(p) # {} PROVE list[Sim!Max(hits(p))].value \in Sim!PinState
    <3>1. DOMAIN list \subseteq 1..2 /\ \A i \in DOMAIN list : list[i] \in Assignment
      BY DEF IsDrive
    <3>2. hits(p) \subseteq 1..2 /\ hits(p) \subseteq DOMAIN list
      BY <3>1
    <3>3. Sim!Max(hits(p)) \in hits(p)
      BY <2>2, <3>2, LargestOfTwo
    <3>4. list[Sim!Max(hits(p))] \in Assignment
      BY <3>1, <3>2, <3>3
    <3> QED
      BY <3>4 DEF Assignment, Sim!PinState
  <2> QED
    BY <2>1, <2>2
<1> HIDE DEF driven
<1> QED
  BY <1>1, <1>2 DEF Runtime

\* The first assignments of a list are a list of assignments.
LEMMA FirstDrives ==
  ASSUME NEW list, IsDrive(list), NEW k \in 1..Len(list)
  PROVE  IsDrive(SubSeq(list, 1, k))
<1>1. list \in Seq(Assignment) /\ Len(list) \in Nat /\ (Len(list) = 1 \/ Len(list) = 2)
  BY DEF IsDrive
<1>2. k \in Int /\ (k = 1 \/ k = 2)
  <2> DEFINE n == Len(list)
  <2>1. k \in 1..n /\ n \in Nat /\ (n = 1 \/ n = 2)
    BY <1>1
  <2> HIDE DEF n
  <2> QED
    BY <2>1
<1>3. \A i \in 1..k : list[i] \in Assignment
  BY <1>1
<1>4. /\ SubSeq(list, 1, k) \in Seq(Assignment)
      /\ Len(SubSeq(list, 1, k)) = k
  BY <1>1, <1>2, <1>3, SubSeqProperties
<1> QED
  BY <1>2, <1>4 DEF IsDrive

\* A face that listens sees what every other does.
LEMMA SeenType ==
  ASSUME Sim!SimInv, NEW x \in Runtime
  PROVE  /\ Sim!Seen(x).rt = rt
         /\ Sim!Seen(x) \in [rt : 0..Len(rts), pins : [Input -> Sim!PinState], mem : Sim!Memory]
BY SimTypes DEF Sim!Seen, Runtime

\* What is not seen is a view as well.
LEMMA UnseenType ==
  ASSUME NEW n \in Nat
  PROVE  Sim!Unseen \in [rt : 0..n, pins : [Input -> Sim!PinState], mem : Sim!Memory]
BY DEF Sim!Unseen, Sim!PinState, Sim!Memory

\* A runtime that was loaded, booted or destroyed is one.
LEMMA FreshTypes ==
  /\ Sim!Loaded \in Runtime /\ Sim!Loaded.alive = TRUE /\ Sim!Loaded.stuck = FALSE
  /\ Sim!Gone \in Runtime /\ Sim!Gone.alive = FALSE
  /\ Sim!Booted \in Runtime /\ Sim!Booted.alive = TRUE /\ Sim!Booted.stuck = FALSE
<1>1. Sim!Loaded \in Runtime /\ Sim!Loaded.alive = TRUE /\ Sim!Loaded.stuck = FALSE
  BY DEF Sim!Loaded, Runtime, Sim!PinState, Sim!Memory
<1>2. Sim!Gone \in Runtime /\ Sim!Gone.alive = FALSE
  BY <1>1 DEF Sim!Gone, Runtime
<1>3. Sim!Low \in Sim!PinState
  BY SessionAssumption DEF Sim!Low, Sim!PinState
<1>4. Sim!Booted \in Runtime /\ Sim!Booted.alive = TRUE /\ Sim!Booted.stuck = FALSE
  BY <1>1, <1>3 DEF Sim!Booted, Runtime, Sim!Memory, Sim!Image
<1> QED
  BY <1>1, <1>2, <1>4

Replies == {None, "ok", "refused", "E_NOSETTLE", "rejected", "listed", "values"}

\* The one runtime of a session that is alive.
LEMMA TheRuntime ==
  ASSUME Sim!SimInv, simPhase = "alive"
  PROVE  /\ rt \in 1..Len(rts) /\ rts[rt] \in Runtime /\ rts[rt].alive = TRUE
         /\ rts[rt].stuck = didNotSettle /\ (~didNotSettle => rts[rt].stuck = FALSE)
         /\ \A r \in 1..Len(rts) : r # rt => rts[r].alive = FALSE
<1>1. rt \in 1..Len(rts) /\ rts[rt] \in Runtime /\ didNotSettle \in BOOLEAN
  BY SimTypes DEF Sim!SimInv, Sim!TypeOK
<1>2. rts[rt].stuck \in BOOLEAN /\ rts[rt].alive \in BOOLEAN
  BY <1>1 DEF Runtime
<1>3. rts[rt].stuck = didNotSettle /\ (~didNotSettle => rts[rt].stuck = FALSE)
  BY <1>1, <1>2 DEF Sim!SimInv, Sim!FailureIsTheRuntimes
<1>4. {r \in 1..Len(rts) : rts[r].alive} = {rt}
  BY SimTypes DEF Sim!SimInv, Sim!OneRuntimeLives
<1>5. rts[rt].alive = TRUE
  BY <1>2, <1>4
<1>6. \A r \in 1..Len(rts) : r # rt => rts[r].alive = FALSE
  <2> SUFFICES ASSUME NEW r \in 1..Len(rts), r # rt PROVE rts[r].alive = FALSE
    OBVIOUS
  <2>1. rts[r] \in Runtime
    BY SimTypes
  <2>2. rts[r].alive \in BOOLEAN
    BY <2>1 DEF Runtime
  <2> QED
    BY <1>4, <2>2
<1> QED
  BY <1>1, <1>3, <1>5, <1>6

\* A change of the runtime of a session that is alive: the other runtimes stay as they are.
LEMMA RuntimeChanges ==
  ASSUME Sim!SimInv, simPhase = "alive", NEW x \in Runtime, x.alive = TRUE,
         rts' = [rts EXCEPT ![rt] = x], rt' = rt, simPhase' = simPhase
  PROVE  /\ rts' \in Seq(Runtime) /\ Len(rts') = Len(rts) /\ rts'[rt] = x
         /\ Sim!OneRuntimeLives' /\ Sim!BuiltOnce'
<1>1. /\ rts' \in Seq(Runtime) /\ Len(rts') = Len(rts) /\ rts'[rt] = x
      /\ \A r \in 1..Len(rts) : r # rt => rts'[r] = rts[r]
  BY SimTypes
<1>2. Sim!Runtimes' = 1..Len(rts) /\ rt \in 1..Len(rts)
  BY <1>1, TheRuntime DEF Sim!Runtimes
<1>3. {r \in 1..Len(rts) : rts'[r].alive} = {rt}
  BY <1>1, <1>2, TheRuntime
<1>4. Sim!OneRuntimeLives' /\ Sim!BuiltOnce'
  BY <1>2, <1>3 DEF Sim!OneRuntimeLives, Sim!BuiltOnce
<1> QED
  BY <1>1, <1>4

\* A change that does not settle: the canvas is let go, and nothing is read any more.
LEMMA StuckKeeps ==
  ASSUME Sim!SimInv, simPhase = "alive", NEW x \in Runtime, x.alive = TRUE,
         Sim!Stuck(rt, x), reply' \in Replies,
         rt' = rt, simPhase' = simPhase, resetting' = resetting, awaiting' = awaiting
  PROVE  Sim!SimInv'
<1> DEFINE y == [x EXCEPT !.stuck = TRUE]
<1>1. y \in Runtime /\ y.alive = TRUE /\ y.stuck = TRUE
  BY DEF Runtime
<1>2. /\ rts' = [rts EXCEPT ![rt] = y] /\ didNotSettle' = TRUE
      /\ listening' = listening \ {Canvas} /\ faceView' = [faceView EXCEPT ![Canvas] = Sim!Unseen]
  BY DEF Sim!Stuck
<1> HIDE DEF y
<1>3. /\ rts' \in Seq(Runtime) /\ Len(rts') = Len(rts) /\ rts'[rt] = y
      /\ Sim!OneRuntimeLives' /\ Sim!BuiltOnce'
  BY <1>1, <1>2, RuntimeChanges
<1>4. faceView' \in [SimFace -> [rt : 0..Len(rts'), pins : [Input -> Sim!PinState], mem : Sim!Memory]]
  BY <1>2, <1>3, SimTypes, UnseenType
<1>5. Sim!TypeOK'
  BY <1>2, <1>3, <1>4 DEF Sim!SimInv, Sim!TypeOK, Runtime, Replies
<1>6. Sim!FailureIsTheRuntimes' /\ Sim!FacesAgree'
  BY <1>1, <1>2, <1>3 DEF Sim!FailureIsTheRuntimes, Sim!FacesAgree
<1>7. Sim!RoomToReset' /\ Sim!ListenersAreOfTheLiving'
  BY <1>2, <1>3 DEF Sim!SimInv, Sim!RoomToReset, Sim!ListenersAreOfTheLiving
<1> QED
  BY <1>3, <1>5, <1>6, <1>7 DEF Sim!SimInv

\* A change that settles and is told: every face that listens shows it.
LEMMA EmitKeeps ==
  ASSUME Sim!SimInv, simPhase = "alive", ~didNotSettle, NEW x \in Runtime, x.alive = TRUE,
         x.stuck = FALSE, rts' = [rts EXCEPT ![rt] = x], Sim!Emit(x), reply' \in Replies,
         didNotSettle' = didNotSettle, listening' = listening,
         rt' = rt, simPhase' = simPhase, resetting' = resetting, awaiting' = awaiting
  PROVE  Sim!SimInv'
<1>1. /\ rts' \in Seq(Runtime) /\ Len(rts') = Len(rts) /\ rts'[rt] = x
      /\ Sim!OneRuntimeLives' /\ Sim!BuiltOnce'
  BY RuntimeChanges
<1>2. faceView' = [f \in SimFace |-> IF f \in listening THEN Sim!Seen(x) ELSE faceView[f]]
  BY DEF Sim!Emit
<1>3. faceView' \in [SimFace -> [rt : 0..Len(rts'), pins : [Input -> Sim!PinState], mem : Sim!Memory]]
  BY <1>1, <1>2, SimTypes, SeenType
<1>4. Sim!TypeOK'
  BY <1>1, <1>3 DEF Sim!SimInv, Sim!TypeOK, Runtime, Replies
<1>5. Sim!FailureIsTheRuntimes'
  BY <1>1 DEF Sim!FailureIsTheRuntimes
<1>6. Sim!FacesAgree'
  BY <1>1, <1>2, SimTypes DEF Sim!FacesAgree, Sim!Seen
<1>7. Sim!RoomToReset' /\ Sim!ListenersAreOfTheLiving'
  BY <1>1 DEF Sim!SimInv, Sim!RoomToReset, Sim!ListenersAreOfTheLiving
<1> QED
  BY <1>1, <1>4, <1>5, <1>6, <1>7 DEF Sim!SimInv

\* An answer changes nothing.
LEMMA AnswerKeeps ==
  ASSUME Sim!SimInv, reply' \in Replies, rts' = rts, rt' = rt, simPhase' = simPhase,
         resetting' = resetting, awaiting' = awaiting, didNotSettle' = didNotSettle,
         listening' = listening, faceView' = faceView
  PROVE  Sim!SimInv'
<1>1. Sim!Runtimes' = Sim!Runtimes
  BY DEF Sim!Runtimes
<1>2. Sim!TypeOK'
  BY DEF Sim!SimInv, Sim!TypeOK, Replies
<1>3. Sim!OneRuntimeLives' /\ Sim!BuiltOnce' /\ Sim!FailureIsTheRuntimes'
  BY <1>1 DEF Sim!SimInv, Sim!OneRuntimeLives, Sim!BuiltOnce, Sim!FailureIsTheRuntimes
<1>4. Sim!FacesAgree' /\ Sim!RoomToReset' /\ Sim!ListenersAreOfTheLiving'
  BY DEF Sim!SimInv, Sim!FacesAgree, Sim!Seen, Sim!RoomToReset, Sim!ListenersAreOfTheLiving
<1> QED
  BY <1>2, <1>3, <1>4 DEF Sim!SimInv

\* Driving a runtime that is alive, to its end or to the assignment that did not settle.
LEMMA SettlesKeeps ==
  ASSUME Sim!SimInv, simPhase = "alive", ~didNotSettle, NEW list, IsDrive(list),
         Sim!Settles(list),
         rt' = rt, simPhase' = simPhase, resetting' = resetting, awaiting' = awaiting
  PROVE  Sim!SimInv'
<1>1. rts[rt] \in Runtime /\ rts[rt].alive = TRUE /\ rts[rt].stuck = FALSE
  BY TheRuntime
<1>2. CASE Sim!Driven(Sim!Drive(rts[rt], list), "ok") /\ Sim!Emit(Sim!Drive(rts[rt], list))
  <2> DEFINE x == Sim!Drive(rts[rt], list)
  <2>1. x \in Runtime /\ x.alive = TRUE /\ x.stuck = FALSE
    BY <1>1, DriveType
  <2>2. /\ rts' = [rts EXCEPT ![rt] = x] /\ reply' \in Replies
        /\ didNotSettle' = didNotSettle /\ listening' = listening /\ Sim!Emit(x)
    BY <1>2 DEF Sim!Driven, Replies
  <2> HIDE DEF x
  <2> QED
    BY <2>1, <2>2, EmitKeeps
<1>3. ASSUME NEW k \in 1..Len(list), Sim!Stuck(rt, Sim!Drive(rts[rt], SubSeq(list, 1, k))),
             reply' = "E_NOSETTLE"
      PROVE  Sim!SimInv'
  <2> DEFINE x == Sim!Drive(rts[rt], SubSeq(list, 1, k))
  <2>1. x \in Runtime /\ x.alive = TRUE
    BY <1>1, DriveType, FirstDrives
  <2>2. Sim!Stuck(rt, x) /\ reply' \in Replies
    BY <1>3 DEF Replies
  <2> HIDE DEF x
  <2> QED
    BY <2>1, <2>2, StuckKeeps
<1> QED
  BY <1>2, <1>3 DEF Sim!Settles

\* A refusal, whatever the reason.
LEMMA RefuseKeeps ==
  ASSUME Sim!SimInv, NEW answer \in Replies, Sim!Refuse(answer),
         rt' = rt, simPhase' = simPhase, resetting' = resetting, awaiting' = awaiting
  PROVE  Sim!SimInv'
<1>1. /\ reply' \in Replies /\ rts' = rts /\ didNotSettle' = didNotSettle
      /\ listening' = listening /\ faceView' = faceView
  BY DEF Sim!Refuse
<1> QED
  BY <1>1, AnswerKeeps

\* set() and eval().
LEMMA CallSettles == Sim!SimInv /\ Sim!Call => Sim!SimInv'
<1> SUFFICES ASSUME Sim!SimInv, Sim!Call PROVE Sim!SimInv'
  OBVIOUS
<1>1. /\ simPhase = "alive" /\ rt' = rt /\ simPhase' = simPhase
      /\ resetting' = resetting /\ awaiting' = awaiting
  BY DEF Sim!Call
<1>2. PICK list \in Sim!AssignLists : Sim!Eval(list)
  BY DEF Sim!Call
<1>3. "E_NOSETTLE" \in Replies /\ "refused" \in Replies
  BY DEF Replies
<1>4. CASE didNotSettle
  BY <1>1, <1>2, <1>3, <1>4, RefuseKeeps DEF Sim!Eval
<1>5. CASE ~didNotSettle /\ ~(\A i \in DOMAIN list : Sim!Resolves(list[i]))
  BY <1>1, <1>2, <1>3, <1>5, RefuseKeeps DEF Sim!Eval
<1>6. CASE ~didNotSettle /\ \A i \in DOMAIN list : Sim!Resolves(list[i])
  <2>1. \A a \in Sim!Assigns : Sim!Resolves(a) => a \in Assignment
    BY DEF Sim!Assigns, Sim!Resolves, Assignment
  <2>2. IsDrive(list)
    <3>1. CASE \E a \in Sim!Assigns : list = <<a>>
      <4>1. PICK a \in Sim!Assigns : list = <<a>>
        BY <3>1
      <4>2. 1 \in DOMAIN list /\ list[1] = a
        BY <4>1
      <4>3. a \in Assignment
        BY <1>6, <2>1, <4>2
      <4> QED
        BY <4>1, <4>3 DEF IsDrive
    <3>2. CASE \E a, b \in Sim!Assigns : list = <<a, b>>
      <4>1. PICK a \in Sim!Assigns, b \in Sim!Assigns : list = <<a, b>>
        BY <3>2
      <4>2. 1 \in DOMAIN list /\ list[1] = a /\ 2 \in DOMAIN list /\ list[2] = b
        BY <4>1
      <4>3. a \in Assignment /\ b \in Assignment
        BY <1>6, <2>1, <4>2
      <4> QED
        BY <4>1, <4>3 DEF IsDrive
    <3> QED
      BY <3>1, <3>2 DEF Sim!AssignLists
  <2>3. Sim!Settles(list)
    BY <1>2, <1>6 DEF Sim!Eval
  <2> QED
    BY <1>1, <1>6, <2>2, <2>3, SettlesKeeps
<1> QED
  BY <1>4, <1>5, <1>6

\* poke(), clear() and loadImage().
LEMMA WriteKeeps == Sim!SimInv /\ Sim!WriteMemory => Sim!SimInv'
<1> SUFFICES ASSUME Sim!SimInv, Sim!WriteMemory PROVE Sim!SimInv'
  OBVIOUS
<1>1. /\ simPhase = "alive" /\ rt' = rt /\ simPhase' = simPhase
      /\ resetting' = resetting /\ awaiting' = awaiting
  BY DEF Sim!WriteMemory
<1>2. "E_NOSETTLE" \in Replies /\ "refused" \in Replies
  BY DEF Replies
<1>3. CASE didNotSettle
  BY <1>1, <1>2, <1>3, RefuseKeeps DEF Sim!WriteMemory
<1>4. CASE ~didNotSettle
  <2>1. PICK w \in PinValue \cup {Sim!Floating, Sim!Image} :
          LET after == [rts[rt] EXCEPT !.mem = w] IN
          \/ Sim!Driven(after, "ok") /\ Sim!Emit(after)
          \/ Sim!Stuck(rt, after) /\ reply' = "E_NOSETTLE"
          \/ Sim!Refuse("refused")
    BY <1>4 DEF Sim!WriteMemory
  <2> DEFINE x == [rts[rt] EXCEPT !.mem = w]
  <2>2. x \in Runtime /\ x.alive = TRUE /\ x.stuck = FALSE
    <3>1. rts[rt] \in Runtime /\ rts[rt].alive = TRUE /\ rts[rt].stuck = FALSE /\ w \in Sim!Memory
      BY <1>1, <1>4, TheRuntime DEF Sim!Memory
    <3> QED
      BY <3>1 DEF Runtime
  <2>3. \/ Sim!Driven(x, "ok") /\ Sim!Emit(x)
        \/ Sim!Stuck(rt, x) /\ reply' = "E_NOSETTLE"
        \/ Sim!Refuse("refused")
    BY <2>1
  <2> HIDE DEF x
  <2>4. CASE Sim!Driven(x, "ok") /\ Sim!Emit(x)
    <3>1. /\ rts' = [rts EXCEPT ![rt] = x] /\ reply' \in Replies
          /\ didNotSettle' = didNotSettle /\ listening' = listening
      BY <2>4 DEF Sim!Driven, Replies
    <3> QED
      BY <1>1, <1>4, <2>2, <2>4, <3>1, EmitKeeps
  <2>5. CASE Sim!Stuck(rt, x) /\ reply' = "E_NOSETTLE"
    BY <1>1, <1>2, <2>2, <2>5, StuckKeeps
  <2>6. CASE Sim!Refuse("refused")
    BY <1>1, <1>2, <2>6, RefuseKeeps
  <2> QED
    BY <2>3, <2>4, <2>5, <2>6
<1> QED
  BY <1>3, <1>4

\* A line of the console that reads.
LEMMA AskKeeps == Sim!SimInv /\ Sim!Ask => Sim!SimInv'
<1> SUFFICES ASSUME Sim!SimInv, Sim!Ask PROVE Sim!SimInv'
  OBVIOUS
<1>1. reply' \in Replies
  BY DEF Sim!Ask, Replies
<1>2. /\ rts' = rts /\ rt' = rt /\ simPhase' = simPhase
      /\ resetting' = resetting /\ awaiting' = awaiting /\ didNotSettle' = didNotSettle
      /\ listening' = listening /\ faceView' = faceView
  BY DEF Sim!Ask
<1> QED
  BY <1>1, <1>2, AnswerKeeps

\* A click on the canvas, which holds the session's own runtime.
LEMMA CanvasKeeps == Sim!SimInv /\ Sim!CanvasDrive => Sim!SimInv'
<1> SUFFICES ASSUME Sim!SimInv, Sim!CanvasDrive PROVE Sim!SimInv'
  OBVIOUS
<1>1. /\ simPhase = "alive" /\ rt' = rt /\ simPhase' = simPhase /\ Canvas \in listening
      /\ resetting' = resetting /\ awaiting' = awaiting /\ reply' = reply
  BY DEF Sim!CanvasDrive
<1>2. ~didNotSettle /\ reply' \in Replies
  BY <1>1 DEF Sim!SimInv, Sim!TypeOK, Sim!ListenersAreOfTheLiving, Replies
<1>3. faceView[Canvas].rt = rt
  BY <1>1, <1>2 DEF Sim!SimInv, Sim!FacesAgree, Sim!Seen
<1>4. PICK p \in Input, w \in PinValue :
        LET after == Sim!Drive(rts[rt], <<[pin |-> p, value |-> w]>>) IN
        \/ /\ rts' = [rts EXCEPT ![rt] = after]
           /\ Sim!Emit(after)
           /\ UNCHANGED <<didNotSettle, listening>>
        \/ Sim!Stuck(rt, after)
  BY <1>3 DEF Sim!CanvasDrive
<1> DEFINE x == Sim!Drive(rts[rt], <<[pin |-> p, value |-> w]>>)
<1>5. x \in Runtime /\ x.alive = TRUE /\ x.stuck = FALSE
  <2>1. rts[rt] \in Runtime /\ rts[rt].alive = TRUE /\ rts[rt].stuck = FALSE
    BY <1>1, <1>2, TheRuntime
  <2>2. [pin |-> p, value |-> w] \in Assignment
    BY DEF Assignment
  <2>3. IsDrive(<<[pin |-> p, value |-> w]>>)
    BY <2>2 DEF IsDrive
  <2> QED
    BY <2>1, <2>3, DriveType
<1>6. \/ /\ rts' = [rts EXCEPT ![rt] = x] /\ Sim!Emit(x)
         /\ didNotSettle' = didNotSettle /\ listening' = listening
      \/ Sim!Stuck(rt, x)
  BY <1>4
<1> HIDE DEF x
<1>7. CASE Sim!Stuck(rt, x)
  BY <1>1, <1>2, <1>5, <1>7, StuckKeeps
<1>8. CASE ~Sim!Stuck(rt, x)
  BY <1>1, <1>2, <1>5, <1>6, <1>8, EmitKeeps
<1> QED
  BY <1>7, <1>8

\* build(): the preloads, then every input low.
LEMMA BuildKeeps == Sim!SimInv /\ (Sim!BeginBuild \/ Sim!EndBuild) => Sim!SimInv'
<1> SUFFICES ASSUME Sim!SimInv, Sim!BeginBuild \/ Sim!EndBuild PROVE Sim!SimInv'
  OBVIOUS
<1>0. simPhase \in {"absent", "building"} /\ simPhase # "alive" /\ rts = <<>> /\ listening = {} /\ ~resetting
  BY DEF Sim!SimInv, Sim!BuiltOnce, Sim!ListenersAreOfTheLiving, Sim!RoomToReset, Sim!BeginBuild,
     Sim!EndBuild
<1>1. CASE Sim!BeginBuild
  <2>1. /\ simPhase' = "building" /\ rts' = rts /\ rt' = rt /\ resetting' = resetting
        /\ awaiting' = awaiting /\ didNotSettle' = didNotSettle /\ listening' = listening
        /\ faceView' = faceView /\ reply' = reply
    BY <1>1 DEF Sim!BeginBuild
  <2>2. Sim!TypeOK'
    BY <2>1 DEF Sim!SimInv, Sim!TypeOK
  <2>3. Sim!OneRuntimeLives'
    BY <1>0, <2>1 DEF Sim!SimInv, Sim!OneRuntimeLives, Sim!Runtimes
  <2> QED
    BY <1>0, <2>1, <2>2, <2>3 DEF Sim!SimInv, Sim!FacesAgree, Sim!FailureIsTheRuntimes,
       Sim!RoomToReset, Sim!BuiltOnce, Sim!ListenersAreOfTheLiving
<1>2. CASE Sim!EndBuild
  <2>1. PICK fine \in BOOLEAN :
          /\ simPhase' = (IF fine THEN "alive" ELSE "destroyed")
          /\ rts' = <<IF fine THEN Sim!Booted ELSE Sim!Gone>>
          /\ didNotSettle' = ~fine
    BY <1>2 DEF Sim!EndBuild
  <2>2. /\ rt' = 1 /\ resetting' = resetting /\ awaiting' = awaiting /\ listening' = listening
        /\ faceView' = faceView /\ reply' = reply
    BY <1>2 DEF Sim!EndBuild
  <2> DEFINE x == IF fine THEN Sim!Booted ELSE Sim!Gone
  <2>3. x \in Runtime /\ (x.alive <=> fine) /\ (fine => ~x.stuck)
    BY FreshTypes
  <2>4. rts' = <<x>>
    BY <2>1
  <2> HIDE DEF x
  <2>5. rts' \in Seq(Runtime) /\ Len(rts') = 1 /\ rts'[1] = x /\ Sim!Runtimes' = 1..1
    BY <2>3, <2>4 DEF Sim!Runtimes
  <2>6. Len(rts) = 0
    BY <1>0
  <2>7. faceView' \in [SimFace -> [rt : 0..Len(rts'), pins : [Input -> Sim!PinState], mem : Sim!Memory]]
    BY <2>2, <2>5, <2>6, SimTypes
  <2>8. Sim!TypeOK'
    BY <2>1, <2>2, <2>5, <2>7, SessionAssumption DEF Sim!SimInv, Sim!TypeOK, Runtime
  <2>9. Sim!OneRuntimeLives' /\ Sim!BuiltOnce'
    BY <2>1, <2>2, <2>3, <2>5 DEF Sim!OneRuntimeLives, Sim!BuiltOnce
  <2>10. Sim!FailureIsTheRuntimes' /\ Sim!FacesAgree' /\ Sim!ListenersAreOfTheLiving' /\ Sim!RoomToReset'
    BY <1>0, <2>1, <2>2, <2>3, <2>5 DEF Sim!FailureIsTheRuntimes, Sim!FacesAgree,
       Sim!ListenersAreOfTheLiving, Sim!RoomToReset
  <2> QED
    BY <2>8, <2>9, <2>10 DEF Sim!SimInv
<1> QED
  BY <1>1, <1>2

\* A face comes or goes; one that comes is shown what there is.
LEMMA ListenerKeeps ==
  ASSUME Sim!SimInv, NEW f \in SimFace, Sim!Subscribe(f) \/ Sim!Unsubscribe(f)
  PROVE  Sim!SimInv'
<1>1. /\ rts' = rts /\ rt' = rt /\ simPhase' = simPhase /\ resetting' = resetting
      /\ awaiting' = awaiting /\ didNotSettle' = didNotSettle /\ reply' = reply
  BY DEF Sim!Subscribe, Sim!Unsubscribe
<1>2. Sim!Runtimes' = Sim!Runtimes
  BY <1>1 DEF Sim!Runtimes
<1>3. /\ listening' \subseteq SimFace
      /\ faceView' \in [SimFace -> [rt : 0..Len(rts'), pins : [Input -> Sim!PinState], mem : Sim!Memory]]
  <2>1. CASE Sim!Subscribe(f)
    <3>1. /\ simPhase = "alive" /\ listening' = listening \cup {f}
          /\ faceView' = [faceView EXCEPT ![f] = Sim!Seen(rts[rt])]
      BY <2>1 DEF Sim!Subscribe
    <3>2. Sim!Seen(rts[rt]) \in [rt : 0..Len(rts), pins : [Input -> Sim!PinState], mem : Sim!Memory]
      BY <3>1, TheRuntime, SeenType
    <3> QED
      BY <1>1, <3>1, <3>2, SimTypes
  <2>2. CASE Sim!Unsubscribe(f)
    <3>1. /\ listening' = listening \ {f} /\ faceView' = [faceView EXCEPT ![f] = Sim!Unseen]
      BY <2>2 DEF Sim!Unsubscribe
    <3> QED
      BY <1>1, <3>1, UnseenType, SimTypes
  <2> QED
    BY <2>1, <2>2
<1>4. Sim!TypeOK'
  BY <1>1, <1>3 DEF Sim!SimInv, Sim!TypeOK
<1>5. Sim!FacesAgree'
  BY <1>1, SimTypes DEF Sim!SimInv, Sim!FacesAgree, Sim!Seen, Sim!Subscribe, Sim!Unsubscribe
<1>6. Sim!ListenersAreOfTheLiving'
  BY <1>1 DEF Sim!SimInv, Sim!ListenersAreOfTheLiving, Sim!Subscribe, Sim!Unsubscribe
<1>7. Sim!OneRuntimeLives' /\ Sim!BuiltOnce' /\ Sim!FailureIsTheRuntimes' /\ Sim!RoomToReset'
  BY <1>1, <1>2 DEF Sim!SimInv, Sim!OneRuntimeLives, Sim!BuiltOnce, Sim!FailureIsTheRuntimes,
     Sim!RoomToReset
<1> QED
  BY <1>4, <1>5, <1>6, <1>7 DEF Sim!SimInv

\* A reset is asked for, or ends without a runtime.
LEMMA ResetKeeps ==
  ASSUME Sim!SimInv, Sim!LoadFails \/ \E f \in SimFace : Sim!Reset(f)
  PROVE  Sim!SimInv'
<1>1. /\ rts' = rts /\ rt' = rt /\ simPhase' = simPhase
      /\ didNotSettle' = didNotSettle /\ listening' = listening /\ faceView' = faceView
  BY DEF Sim!LoadFails, Sim!Reset
<1>2. /\ resetting' \in BOOLEAN /\ awaiting' \subseteq SimFace /\ reply' \in Replies
      /\ resetting' => Len(rts) < MaxRuntimes /\ simPhase = "alive"
  <2>1. CASE Sim!LoadFails
    BY <2>1 DEF Sim!LoadFails, Sim!ResetOver, Replies
  <2>2. CASE \E f \in SimFace : Sim!Reset(f)
    BY <2>2 DEF Sim!Reset, Sim!SimInv, Sim!TypeOK, Replies
  <2> QED
    BY <2>1, <2>2
<1>3. Sim!Runtimes' = Sim!Runtimes
  BY <1>1 DEF Sim!Runtimes
<1>4. Sim!TypeOK'
  BY <1>1, <1>2 DEF Sim!SimInv, Sim!TypeOK, Replies
<1>5. Sim!FacesAgree' /\ Sim!ListenersAreOfTheLiving'
  BY <1>1 DEF Sim!SimInv, Sim!FacesAgree, Sim!Seen, Sim!ListenersAreOfTheLiving
<1>6. Sim!OneRuntimeLives' /\ Sim!BuiltOnce' /\ Sim!FailureIsTheRuntimes' /\ Sim!RoomToReset'
  BY <1>1, <1>2, <1>3 DEF Sim!SimInv, Sim!OneRuntimeLives, Sim!BuiltOnce, Sim!FailureIsTheRuntimes,
     Sim!RoomToReset
<1> QED
  BY <1>4, <1>5, <1>6 DEF Sim!SimInv

\* The session was destroyed while a runtime was loaded for it.
LEMMA TooLateKeeps == Sim!SimInv /\ Sim!LoadedTooLate => Sim!SimInv'
<1> SUFFICES ASSUME Sim!SimInv, Sim!LoadedTooLate PROVE Sim!SimInv'
  OBVIOUS
<1>1. /\ resetting /\ simPhase = "destroyed" /\ rts' = Append(rts, Sim!Gone)
      /\ resetting' = FALSE /\ awaiting' = {} /\ reply' \in Replies
      /\ rt' = rt /\ simPhase' = simPhase /\ didNotSettle' = didNotSettle
      /\ listening' = listening /\ faceView' = faceView
  BY DEF Sim!LoadedTooLate, Sim!ResetOver, Replies
<1>2. /\ rts' \in Seq(Runtime) /\ Len(rts') = Len(rts) + 1 /\ rts'[Len(rts) + 1] = Sim!Gone
      /\ \A r \in 1..Len(rts) : rts'[r] = rts[r]
  BY <1>1, SimTypes, FreshTypes
<1>3. Len(rts) < MaxRuntimes /\ Len(rts) \in Nat
  BY <1>1, SimTypes DEF Sim!SimInv, Sim!RoomToReset
<1>4. faceView' \in [SimFace -> [rt : 0..Len(rts'), pins : [Input -> Sim!PinState], mem : Sim!Memory]]
  <2>1. 0..Len(rts) \subseteq 0..Len(rts')
    BY <1>2, <1>3
  <2> QED
    BY <1>1, <2>1, SimTypes
<1>5. Sim!TypeOK'
  <2>1. Len(rts') <= MaxRuntimes /\ rt' \in 0..Len(rts')
    BY <1>1, <1>2, <1>3, SimTypes, SessionAssumption
  <2> QED
    BY <1>1, <1>2, <1>4, <2>1 DEF Sim!SimInv, Sim!TypeOK, Runtime, Replies
<1>6. Sim!OneRuntimeLives'
  <2>1. \A r \in 1..Len(rts) : ~rts[r].alive
    BY <1>1, SimTypes DEF Sim!SimInv, Sim!OneRuntimeLives
  <2>2. \A r \in 1..(Len(rts) + 1) : r = Len(rts) + 1 \/ r \in 1..Len(rts)
    BY <1>3
  <2>3. \A r \in 1..(Len(rts) + 1) : ~rts'[r].alive
    BY <1>2, <2>1, <2>2, FreshTypes
  <2> QED
    BY <1>1, <1>2, <2>3 DEF Sim!OneRuntimeLives, Sim!Runtimes
<1>7. /\ Sim!FacesAgree' /\ Sim!ListenersAreOfTheLiving' /\ Sim!BuiltOnce' /\ Sim!RoomToReset'
      /\ Sim!FailureIsTheRuntimes'
  BY <1>1 DEF Sim!SimInv, Sim!FacesAgree, Sim!ListenersAreOfTheLiving, Sim!BuiltOnce,
     Sim!RoomToReset, Sim!FailureIsTheRuntimes
<1> QED
  BY <1>5, <1>6, <1>7 DEF Sim!SimInv

\* A runtime was loaded: the old one goes, and whoever listens is shown the new one.
LEMMA LoadKeeps == ASSUME Sim!ImagesAreWritten, Sim!SimInv, Sim!LoadEnds PROVE Sim!SimInv'
<1>1. PICK how \in Preloads :
        /\ Sim!Swap(how) /\ Sim!Rebuilt(how)
        /\ listening' = (IF how = "nosettle" THEN listening \ {Canvas} ELSE listening)
        /\ Sim!ResetOver(IF how = "ok" THEN "ok" ELSE "rejected")
  BY DEF Sim!LoadEnds
<1>2. how \in {"ok", "nosettle"}
  BY SessionAssumption DEF Sim!ImagesAreWritten
<1> DEFINE fresh == [Sim!Loaded EXCEPT !.mem = IF how = "ok" THEN Sim!Image ELSE Sim!Floating,
                                       !.stuck = (how = "nosettle")]
           old == [rts EXCEPT ![rt] = Sim!Gone]
           n == Len(rts) + 1
<1>3. /\ rts' = Append(old, fresh) /\ rt' = n /\ didNotSettle' = (how = "nosettle")
      /\ resetting /\ simPhase = "alive" /\ simPhase' = "alive"
      /\ resetting' = FALSE /\ awaiting' = {} /\ reply' \in Replies
  BY <1>1 DEF Sim!Swap, Sim!LoadEnds, Sim!ResetOver, Replies
<1>4. fresh \in Runtime /\ fresh.alive = TRUE /\ (fresh.stuck <=> how = "nosettle")
  BY FreshTypes DEF Runtime, Sim!Memory
<1>5. /\ old \in Seq(Runtime) /\ Len(old) = Len(rts) /\ Len(rts) \in Nat
      /\ \A r \in 1..Len(rts) : old[r].alive = FALSE
  <2>1. /\ old \in Seq(Runtime) /\ Len(old) = Len(rts) /\ old[rt] = Sim!Gone
        /\ \A r \in 1..Len(rts) : r # rt => old[r] = rts[r]
    BY <1>3, SimTypes, FreshTypes
  <2> QED
    BY <1>3, <2>1, FreshTypes, TheRuntime, SimTypes
<1> HIDE DEF fresh, old
<1>6. /\ rts' \in Seq(Runtime) /\ Len(rts') = n /\ rts'[n] = fresh
      /\ \A r \in 1..Len(rts) : rts'[r] = old[r]
  BY <1>3, <1>4, <1>5
<1>7. Len(rts) < MaxRuntimes
  BY <1>3 DEF Sim!SimInv, Sim!RoomToReset
<1>8. /\ faceView' \in [SimFace -> [rt : 0..Len(rts'), pins : [Input -> Sim!PinState], mem : Sim!Memory]]
      /\ how = "ok" => \A f \in listening :
           faceView'[f] = [rt |-> rt', pins |-> rts'[rt'].pins, mem |-> rts'[rt'].mem]
  <2>1. faceView \in [SimFace -> [rt : 0..Len(rts'), pins : [Input -> Sim!PinState], mem : Sim!Memory]]
    <3>1. 0..Len(rts) \subseteq 0..Len(rts')
      BY <1>5, <1>6
    <3> QED
      BY <3>1, SimTypes
  <2>2. CASE how = "ok"
    <3> DEFINE seen == [rt |-> rt', pins |-> rts'[rt'].pins, mem |-> rts'[rt'].mem]
    <3>1. faceView' = [f \in SimFace |-> IF f \in listening THEN seen ELSE faceView[f]]
      BY <1>1, <1>3, <2>2 DEF Sim!Rebuilt
    <3>2. seen \in [rt : 0..Len(rts'), pins : [Input -> Sim!PinState], mem : Sim!Memory]
      BY <1>3, <1>4, <1>5, <1>6 DEF Runtime
    <3> HIDE DEF seen
    <3>3. \A f \in listening : faceView'[f] = seen
      BY <3>1, SimTypes
    <3> QED
      BY <2>1, <3>1, <3>2, <3>3 DEF seen
  <2>3. CASE how = "nosettle"
    <3>1. faceView' = [faceView EXCEPT ![Canvas] = Sim!Unseen]
      BY <1>1, <2>3 DEF Sim!Rebuilt
    <3>2. Len(rts') \in Nat
      BY <1>5, <1>6
    <3> QED
      BY <2>1, <2>3, <3>1, <3>2, UnseenType
  <2> QED
    BY <1>2, <2>2, <2>3
<1>9. Sim!TypeOK'
  <2>1. Len(rts') <= MaxRuntimes /\ rt' \in 0..Len(rts')
    BY <1>3, <1>5, <1>6, <1>7, SessionAssumption
  <2>2. listening' \subseteq SimFace /\ awaiting' \subseteq SimFace
    BY <1>1, <1>3, SimTypes
  <2> QED
    BY <1>3, <1>6, <1>8, <2>1, <2>2 DEF Sim!TypeOK, Runtime, Replies
<1>10. Sim!OneRuntimeLives' /\ Sim!BuiltOnce'
  <2>1. \A r \in 1..n : r = n \/ r \in 1..Len(rts)
    BY <1>5
  <2>2. n \in 1..n /\ n \notin 1..Len(rts)
    BY <1>5
  <2>3. {r \in 1..n : rts'[r].alive} = {n}
    BY <1>4, <1>5, <1>6, <2>1, <2>2
  <2> QED
    BY <1>3, <1>6, <2>2, <2>3 DEF Sim!OneRuntimeLives, Sim!BuiltOnce, Sim!Runtimes
<1>11. Sim!FailureIsTheRuntimes' /\ Sim!ListenersAreOfTheLiving' /\ Sim!RoomToReset'
  BY <1>1, <1>3, <1>4, <1>6 DEF Sim!FailureIsTheRuntimes, Sim!ListenersAreOfTheLiving, Sim!RoomToReset
<1>12. Sim!FacesAgree'
  BY <1>1, <1>2, <1>3, <1>8 DEF Sim!FacesAgree, Sim!Seen
<1> QED
  BY <1>9, <1>10, <1>11, <1>12 DEF Sim!SimInv

\* destroy().
LEMMA DestroyKeeps == Sim!SimInv /\ Sim!Destroy => Sim!SimInv'
<1> SUFFICES ASSUME Sim!SimInv, Sim!Destroy PROVE Sim!SimInv'
  OBVIOUS
<1>1. /\ simPhase = "alive" /\ simPhase' = "destroyed" /\ rts' = [rts EXCEPT ![rt] = Sim!Gone]
      /\ listening' = {} /\ faceView' = [f \in SimFace |-> Sim!Unseen]
      /\ rt' = rt /\ resetting' = resetting /\ awaiting' = awaiting
      /\ didNotSettle' = didNotSettle /\ reply' = reply
  BY DEF Sim!Destroy
<1>2. /\ rts' \in Seq(Runtime) /\ Len(rts') = Len(rts) /\ rts'[rt] = Sim!Gone /\ Len(rts) \in Nat
      /\ \A r \in 1..Len(rts) : r # rt => rts'[r] = rts[r]
  BY <1>1, SimTypes, FreshTypes
<1>3. \A r \in 1..Len(rts) : ~rts'[r].alive
  BY <1>1, <1>2, FreshTypes, TheRuntime
<1>4. Sim!TypeOK'
  <2>1. faceView' \in [SimFace -> [rt : 0..Len(rts'), pins : [Input -> Sim!PinState], mem : Sim!Memory]]
    BY <1>1, <1>2, UnseenType
  <2> QED
    BY <1>1, <1>2, <2>1 DEF Sim!SimInv, Sim!TypeOK, Runtime
<1>5. Sim!OneRuntimeLives'
  BY <1>1, <1>2, <1>3 DEF Sim!OneRuntimeLives, Sim!Runtimes
<1>6. /\ Sim!FacesAgree' /\ Sim!ListenersAreOfTheLiving' /\ Sim!BuiltOnce' /\ Sim!RoomToReset'
      /\ Sim!FailureIsTheRuntimes'
  BY <1>1, <1>2 DEF Sim!SimInv, Sim!FacesAgree, Sim!ListenersAreOfTheLiving, Sim!BuiltOnce,
     Sim!RoomToReset, Sim!FailureIsTheRuntimes
<1> QED
  BY <1>4, <1>5, <1>6 DEF Sim!SimInv

\* A page that was just opened has no session.
LEMMA SimStarts == Sim!Init => Sim!SimInv
<1> SUFFICES ASSUME Sim!Init PROVE Sim!SimInv
  OBVIOUS
<1>1. /\ rts = <<>> /\ rt = 0 /\ simPhase = "absent" /\ resetting = FALSE /\ awaiting = {}
      /\ didNotSettle = FALSE /\ listening = {} /\ faceView = [f \in SimFace |-> Sim!Unseen]
      /\ reply = None
  BY DEF Sim!Init
<1>2. Len(rts) = 0 /\ Sim!Runtimes = {} /\ rts \in Seq(Runtime)
  BY <1>1 DEF Sim!Runtimes
<1>3. faceView \in [SimFace -> [rt : 0..Len(rts), pins : [Input -> Sim!PinState], mem : Sim!Memory]]
  BY <1>1, <1>2, UnseenType
<1>4. Sim!TypeOK
  <2>1. Len(rts) <= MaxRuntimes /\ rt \in 0..Len(rts)
    BY <1>1, <1>2, SessionAssumption
  <2>2. rts \in Seq([alive : BOOLEAN, stuck : BOOLEAN, pins : [Input -> Sim!PinState], mem : Sim!Memory])
    BY <1>2 DEF Runtime
  <2>3. /\ simPhase \in {"absent", "building", "alive", "destroyed"} /\ resetting \in BOOLEAN
        /\ awaiting \subseteq SimFace /\ didNotSettle \in BOOLEAN /\ listening \subseteq SimFace
        /\ reply \in {None, "ok", "refused", "E_NOSETTLE", "rejected", "listed", "values"}
    BY <1>1
  <2> QED
    BY <1>3, <2>1, <2>2, <2>3 DEF Sim!TypeOK
<1> QED
  BY <1>1, <1>2, <1>4 DEF Sim!SimInv, Sim!FacesAgree, Sim!OneRuntimeLives, Sim!FailureIsTheRuntimes,
     Sim!RoomToReset, Sim!BuiltOnce, Sim!ListenersAreOfTheLiving

\* A step of another component leaves the session alone.
LEMMA SimRests == Sim!SimInv /\ UNCHANGED simVars => Sim!SimInv'
<1> SUFFICES ASSUME Sim!SimInv, UNCHANGED simVars PROVE Sim!SimInv'
  OBVIOUS
<1>1. /\ rts' = rts /\ rt' = rt /\ simPhase' = simPhase
      /\ resetting' = resetting /\ awaiting' = awaiting /\ didNotSettle' = didNotSettle
      /\ listening' = listening /\ faceView' = faceView /\ reply' = reply
  BY DEF simVars
<1>2. reply' \in Replies
  BY <1>1 DEF Sim!SimInv, Sim!TypeOK, Replies
<1> QED
  BY <1>1, <1>2, AnswerKeeps

\* In a page whose run is a session, the session's invariant holds.
SimHolds == component = "simulation" => Sim!SimInv

\* The session keeps its invariant, and no other component touches its state.
LEMMA SimHoldsAlways == Sim!ImagesAreWritten => (Spec => []SimHolds)
<1> SUFFICES ASSUME Sim!ImagesAreWritten PROVE Spec => []SimHolds
  OBVIOUS
<1>1. Init => SimHolds
  BY SimStarts DEF Init, SimHolds
<1>2. Sim!SimInv /\ Sim!Next => Sim!SimInv'
  BY BuildKeeps, CallSettles, WriteKeeps, AskKeeps, CanvasKeeps, ListenerKeeps, ResetKeeps,
     TooLateKeeps, LoadKeeps, DestroyKeeps DEF Sim!Next, Sim!LoadStep
<1>3. SimHolds /\ [Next]_vars => SimHolds'
  BY <1>2, SimRests DEF SimHolds, Next, vars
<1> QED
  BY <1>1, <1>3, PTL DEF Spec

\* However the faces of sim-session.ts drive, reset, leave or destroy a session while
\* its next runtime is loaded, for any number of faces, inputs and values: as long as the
\* images can be written, one runtime lives, every face that listens shows what it holds,
\* and the session knows whether it settled.
THEOREM FacesShare == Sim!ImagesAreWritten => (Spec => []FacesShareTheRuntime)
<1> SUFFICES ASSUME Sim!ImagesAreWritten PROVE Spec => []FacesShareTheRuntime
  OBVIOUS
<1>1. SimHolds => FacesShareTheRuntime
  <2> SUFFICES ASSUME Sim!SimInv PROVE Sim!FacesShareTheRuntime
    BY DEF SimHolds, FacesShareTheRuntime
  <2>1. Sim!HeldRuntimeLives
    <3> SUFFICES ASSUME simPhase = "alive", Canvas \in listening PROVE rts[faceView[Canvas].rt].alive
      BY DEF Sim!HeldRuntimeLives
    <3>1. faceView[Canvas].rt = rt
      BY DEF Sim!SimInv, Sim!ListenersAreOfTheLiving, Sim!FacesAgree, Sim!Seen
    <3> QED
      BY <3>1, TheRuntime
  <2> QED
    BY <2>1 DEF Sim!SimInv, Sim!FacesShareTheRuntime
<1> QED
  BY <1>1, SimHoldsAlways, PTL

-----------------------------------------------------------------------------
(* A verification run *)

StepLine == [case : 1..NumCases, step : 1..MaxSteps, state : Verify!States]

\* What the type invariant says of the parts of the state.
LEMMA VerifyTypes ==
  ASSUME Verify!TypeOK
  PROVE  /\ c \in 1..(NumCases + 1) /\ c \in Nat /\ s \in 1..(MaxSteps + 1) /\ s \in Nat
         /\ \A i \in 1..NumCases : cases[i] \in 0..MaxSteps /\ cases[i] \in Nat
         /\ steps \in Seq(StepLine) /\ Len(steps) \in Nat /\ DOMAIN steps = 1..Len(steps)
         /\ \A i \in DOMAIN steps :
              /\ i \in Nat /\ steps[i] \in StepLine
              /\ steps[i].case \in 1..NumCases /\ steps[i].case \in Nat
              /\ steps[i].step \in 1..MaxSteps /\ steps[i].step \in Nat
              /\ steps[i].step <= cases[steps[i].case] /\ steps[i].state \in Verify!States
         /\ left.actions \in 0..MaxActions /\ left.expect \in 0..MaxExpect /\ left.bad \in BOOLEAN
<1>1. steps \in Seq(StepLine)
  BY DEF Verify!TypeOK, StepLine
<1>2. Len(steps) \in Nat /\ DOMAIN steps = 1..Len(steps) /\ \A i \in DOMAIN steps : steps[i] \in StepLine /\ i \in Nat
  BY <1>1
<1>3. \A r \in StepLine :
        /\ r.case \in 1..NumCases /\ r.case \in Nat /\ r.step \in 1..MaxSteps /\ r.step \in Nat
        /\ r.state \in Verify!States
  BY VerificationAssumption DEF StepLine
<1>4. left.actions \in 0..MaxActions /\ left.expect \in 0..MaxExpect /\ left.bad \in BOOLEAN
  BY DEF Verify!TypeOK
<1>5. \A i \in 1..NumCases : cases[i] \in 0..MaxSteps /\ cases[i] \in Nat
  BY VerificationAssumption DEF Verify!TypeOK
<1>6. c \in 1..(NumCases + 1) /\ c \in Nat /\ s \in 1..(MaxSteps + 1) /\ s \in Nat
  BY VerificationAssumption DEF Verify!TypeOK
<1>7. \A i \in DOMAIN steps : steps[i].step <= cases[steps[i].case]
  BY DEF Verify!TypeOK
<1> QED
  BY <1>1, <1>2, <1>3, <1>4, <1>5, <1>6, <1>7

\* The lines of a report that is written on.
LEMMA LinesGrow ==
  ASSUME Verify!TypeOK, NEW more \in Seq(StepLine), steps' = steps \o more
  PROVE  /\ steps' \in Seq(StepLine)
         /\ \A i \in DOMAIN steps : i \in DOMAIN steps' /\ steps'[i] = steps[i]
         /\ \A i \in DOMAIN steps' :
              \/ i \in DOMAIN steps /\ steps'[i] = steps[i]
              \/ /\ i \notin DOMAIN steps /\ i - Len(steps) \in DOMAIN more
                 /\ steps'[i] = more[i - Len(steps)] /\ \A k \in DOMAIN steps : k < i
         /\ \A p, q : Verify!IsRecorded(p, q)' <=>
              Verify!IsRecorded(p, q) \/ \E j \in DOMAIN more : more[j].case = p /\ more[j].step = q
         /\ \A t : (\E i \in DOMAIN steps' : steps'[i].state = t) <=>
              (\E i \in DOMAIN steps : steps[i].state = t) \/ \E j \in DOMAIN more : more[j].state = t
<1>1. steps \in Seq(StepLine) /\ Len(steps) \in Nat /\ DOMAIN steps = 1..Len(steps)
  BY VerifyTypes
<1>2. Len(more) \in Nat /\ DOMAIN more = 1..Len(more)
  OBVIOUS
<1>3. /\ steps' \in Seq(StepLine) /\ Len(steps') = Len(steps) + Len(more) /\ DOMAIN steps' = 1..Len(steps')
      /\ \A i \in 1..Len(steps') : steps'[i] = IF i <= Len(steps) THEN steps[i] ELSE more[i - Len(steps)]
  BY <1>1, <1>2, ConcatProperties
<1>4. \A i \in DOMAIN steps : i \in DOMAIN steps' /\ steps'[i] = steps[i]
  BY <1>1, <1>2, <1>3
<1>5. \A j \in DOMAIN more : Len(steps) + j \in DOMAIN steps' /\ steps'[Len(steps) + j] = more[j]
  <2> SUFFICES ASSUME NEW j \in DOMAIN more
               PROVE  Len(steps) + j \in DOMAIN steps' /\ steps'[Len(steps) + j] = more[j]
    OBVIOUS
  <2>1. Len(steps) + j \in 1..Len(steps') /\ ~(Len(steps) + j <= Len(steps)) /\ Len(steps) + j - Len(steps) = j
    BY <1>1, <1>2, <1>3
  <2> QED
    BY <1>3, <2>1
<1>6. ASSUME NEW i \in DOMAIN steps'
      PROVE  \/ i \in DOMAIN steps /\ steps'[i] = steps[i]
             \/ /\ i \notin DOMAIN steps /\ i - Len(steps) \in DOMAIN more
                /\ steps'[i] = more[i - Len(steps)] /\ \A k \in DOMAIN steps : k < i
  BY <1>1, <1>2, <1>3
<1>7. \A p, q : Verify!IsRecorded(p, q)' <=>
              Verify!IsRecorded(p, q) \/ \E j \in DOMAIN more : more[j].case = p /\ more[j].step = q
  <2> SUFFICES ASSUME NEW p, NEW q
               PROVE  (\E i \in DOMAIN steps' : steps'[i].case = p /\ steps'[i].step = q) <=>
                        (\E i \in DOMAIN steps : steps[i].case = p /\ steps[i].step = q)
                        \/ \E j \in DOMAIN more : more[j].case = p /\ more[j].step = q
    BY DEF Verify!IsRecorded
  <2>1. ASSUME NEW i \in DOMAIN steps', steps'[i].case = p, steps'[i].step = q
        PROVE  (\E k \in DOMAIN steps : steps[k].case = p /\ steps[k].step = q)
               \/ \E j \in DOMAIN more : more[j].case = p /\ more[j].step = q
    BY <1>6, <2>1
  <2>2. ASSUME NEW i \in DOMAIN steps, steps[i].case = p, steps[i].step = q
        PROVE  \E k \in DOMAIN steps' : steps'[k].case = p /\ steps'[k].step = q
    BY <1>4, <2>2
  <2>3. ASSUME NEW j \in DOMAIN more, more[j].case = p, more[j].step = q
        PROVE  \E k \in DOMAIN steps' : steps'[k].case = p /\ steps'[k].step = q
    BY <1>5, <2>3
  <2> QED
    BY <2>1, <2>2, <2>3
<1>8. \A t : (\E i \in DOMAIN steps' : steps'[i].state = t) <=>
              (\E i \in DOMAIN steps : steps[i].state = t) \/ \E j \in DOMAIN more : more[j].state = t
  BY <1>4, <1>5, <1>6
<1> QED
  BY <1>3, <1>4, <1>6, <1>7, <1>8

\* Lines of steps that had none leave the report with one for each; and if none of
\* them runs after a step that went wrong, the run stopped at the first.
LEMMA ReportGrows ==
  ASSUME Verify!VerifyInv, NEW more \in Seq(StepLine), steps' = steps \o more, cases' = cases, stop' = stop,
         \A j \in DOMAIN more : /\ more[j].step <= cases[more[j].case]
                                /\ ~Verify!IsRecorded(more[j].case, more[j].step),
         \A j, k \in DOMAIN more : more[j].case = more[k].case /\ more[j].step = more[k].step => j = k,
         \/ stop => ~\E i \in DOMAIN steps : Verify!Bad(steps[i].state)
         \/ \A j \in DOMAIN more : more[j].state = "not_run",
         Len(more) <= 1 \/ \A j \in DOMAIN more : more[j].state = "not_run"
  PROVE  /\ \A i \in DOMAIN steps' : steps'[i].step <= cases'[steps'[i].case]
         /\ \A i, j \in DOMAIN steps' :
              steps'[i].case = steps'[j].case /\ steps'[i].step = steps'[j].step => i = j
         /\ stop' => \A i, j \in DOMAIN steps' :
              i < j /\ Verify!Bad(steps'[i].state) => steps'[j].state = "not_run"
<1>0. Verify!TypeOK
  BY DEF Verify!VerifyInv
<1>1. /\ \A i \in DOMAIN steps : i \in DOMAIN steps' /\ steps'[i] = steps[i] /\ i \in Nat
      /\ \A i \in DOMAIN steps' :
              \/ i \in DOMAIN steps /\ steps'[i] = steps[i]
              \/ /\ i \notin DOMAIN steps /\ i - Len(steps) \in DOMAIN more
                 /\ steps'[i] = more[i - Len(steps)] /\ \A k \in DOMAIN steps : k < i
      /\ \A i \in DOMAIN steps' : i \in Nat
  BY <1>0, LinesGrow, VerifyTypes
<1>2. \A i \in DOMAIN steps' : steps'[i].step <= cases'[steps'[i].case]
  BY <1>0, <1>1, VerifyTypes
<1>3. ASSUME NEW i \in DOMAIN steps', NEW j \in DOMAIN steps',
             steps'[i].case = steps'[j].case, steps'[i].step = steps'[j].step
      PROVE  i = j
  <2>1. CASE i \in DOMAIN steps /\ j \in DOMAIN steps
    <3>1. steps'[i] = steps[i] /\ steps'[j] = steps[j]
      BY <1>1, <2>1
    <3> QED
      BY <1>3, <2>1, <3>1 DEF Verify!VerifyInv, Verify!EveryStepOnce
  <2>2. CASE i \in DOMAIN steps /\ j \notin DOMAIN steps
    <3> DEFINE k == j - Len(steps)
    <3>1. k \in DOMAIN more /\ steps'[j] = more[k] /\ steps'[i] = steps[i]
      BY <1>1, <2>2
    <3> HIDE DEF k
    <3> QED
      BY <1>3, <2>2, <3>1 DEF Verify!IsRecorded
  <2>3. CASE i \notin DOMAIN steps /\ j \in DOMAIN steps
    <3> DEFINE k == i - Len(steps)
    <3>1. k \in DOMAIN more /\ steps'[i] = more[k] /\ steps'[j] = steps[j]
      BY <1>1, <2>3
    <3> HIDE DEF k
    <3> QED
      BY <1>3, <2>3, <3>1 DEF Verify!IsRecorded
  <2>4. CASE i \notin DOMAIN steps /\ j \notin DOMAIN steps
    <3>1. i - Len(steps) = j - Len(steps)
      <4> DEFINE k == i - Len(steps)
                 l == j - Len(steps)
      <4>1. /\ k \in DOMAIN more /\ steps'[i] = more[k]
            /\ l \in DOMAIN more /\ steps'[j] = more[l]
        BY <1>1, <2>4
      <4> HIDE DEF k, l
      <4>2. k = l
        BY <1>3, <4>1
      <4> QED
        BY <4>2 DEF k, l
    <3> QED
      BY <1>0, <1>1, <3>1, VerifyTypes
  <2> QED
    BY <2>1, <2>2, <2>3, <2>4
<1>4. ASSUME stop, NEW i \in DOMAIN steps', NEW j \in DOMAIN steps', i < j, Verify!Bad(steps'[i].state)
      PROVE  steps'[j].state = "not_run"
  <2>1. CASE i \in DOMAIN steps /\ j \in DOMAIN steps
    BY <1>1, <1>4, <2>1 DEF Verify!VerifyInv, Verify!StopsAtTheFirst
  <2>2. CASE i \in DOMAIN steps /\ j \notin DOMAIN steps
    BY <1>1, <1>4, <2>2
  <2>3. CASE i \notin DOMAIN steps /\ j \in DOMAIN steps
    BY <1>1, <1>4, <2>3
  <2>4. CASE i \notin DOMAIN steps /\ j \notin DOMAIN steps
    <3>1. i - Len(steps) \in DOMAIN more /\ j - Len(steps) \in DOMAIN more
      BY <1>1, <2>4
    <3>2. CASE Len(more) <= 1
      <4>1. i - Len(steps) \in 1..Len(more) /\ j - Len(steps) \in 1..Len(more) /\ Len(more) \in Nat
        BY <3>1
      <4> QED
        BY <1>0, <1>1, <1>4, <3>2, <4>1, VerifyTypes
    <3>3. CASE \A k \in DOMAIN more : more[k].state = "not_run"
      BY <1>1, <2>4, <3>3
    <3> QED
      BY <3>2, <3>3
  <2> QED
    BY <2>1, <2>2, <2>3, <2>4
<1> QED
  BY <1>2, <1>3, <1>4

LEMMA SameCountVerify == \A S : Verify!Cardinality(S) = Cardinality(S)
BY DEF Verify!Cardinality, Cardinality

\* The steps without a line, one after the other, are all of them.
LEMMA MissingAreAll ==
  ASSUME Verify!TypeOK
  PROVE  LET U == Verify!Unrecorded IN
         /\ Cardinality(U) \in Nat
         /\ \A i \in 1..Cardinality(U) : Verify!Missing(i) \in U
         /\ \A i, j \in 1..Cardinality(U) : Verify!Missing(i) = Verify!Missing(j) => i = j
         /\ \A p \in U : \E i \in 1..Cardinality(U) : Verify!Missing(i) = p
<1> DEFINE U == Verify!Unrecorded
           rank(p) == Cardinality(Verify!Earlier(p))
           before(q, p) == q[1] < p[1] \/ (q[1] = p[1] /\ q[2] < p[2])
           n == Cardinality(U)
<1>1. IsFiniteSet(U) /\ n \in Nat
  <2>1. IsFiniteSet(1..NumCases) /\ IsFiniteSet(1..MaxSteps)
    BY VerificationAssumption, FS_Interval
  <2>2. IsFiniteSet((1..NumCases) \X (1..MaxSteps))
    BY <2>1, FS_Product
  <2>3. U \in SUBSET ((1..NumCases) \X (1..MaxSteps))
    BY DEF Verify!Unrecorded
  <2> QED
    BY <2>2, <2>3, FS_Subset, FS_CardinalityType
<1>2. \A p \in U : p[1] \in Nat /\ p[2] \in Nat /\ p = <<p[1], p[2]>>
  BY VerificationAssumption DEF Verify!Unrecorded
<1>3. \A p \in U : Verify!Earlier(p) = {q \in U : before(q, p)}
  BY DEF Verify!Earlier
<1> HIDE DEF U, n, before
<1>4. \A p \in U : ~before(p, p) /\ \A q \in U : p # q => before(p, q) \/ before(q, p)
  BY <1>2 DEF before
<1>5. \A p, q, r \in U : before(p, q) /\ before(q, r) => before(p, r)
  BY <1>2 DEF before
<1>6. \A p \in U : IsFiniteSet(Verify!Earlier(p)) /\ rank(p) \in Nat
  <2> SUFFICES ASSUME NEW p \in U PROVE IsFiniteSet(Verify!Earlier(p)) /\ rank(p) \in Nat
    OBVIOUS
  <2>1. Verify!Earlier(p) \in SUBSET U
    BY <1>3
  <2>2. IsFiniteSet(Verify!Earlier(p))
    BY <1>1, <2>1, FS_Subset
  <2> QED
    BY <2>2, FS_CardinalityType
<1>7. ASSUME NEW p \in U, NEW q \in U, before(p, q) PROVE rank(p) < rank(q)
  <2>1. Verify!Earlier(p) \in SUBSET Verify!Earlier(q)
    BY <1>3, <1>5, <1>7
  <2>2. p \in Verify!Earlier(q) /\ p \notin Verify!Earlier(p)
    BY <1>3, <1>4, <1>7
  <2>3. Cardinality(Verify!Earlier(p)) <= Cardinality(Verify!Earlier(q))
        /\ Cardinality(Verify!Earlier(p)) # Cardinality(Verify!Earlier(q))
    BY <1>6, <2>1, <2>2, FS_Subset
  <2> QED
    BY <1>6, <2>3
<1>8. \A p, q \in U : rank(p) = rank(q) => p = q
  BY <1>4, <1>6, <1>7
<1>9. \A p \in U : rank(p) + 1 \in 1..n
  <2> SUFFICES ASSUME NEW p \in U PROVE rank(p) + 1 \in 1..n
    OBVIOUS
  <2>1. Verify!Earlier(p) \in SUBSET U /\ p \notin Verify!Earlier(p)
    BY <1>3, <1>4
  <2>2. rank(p) <= n /\ rank(p) # n
    BY <1>1, <2>1, FS_Subset DEF n
  <2> QED
    BY <1>1, <1>6, <2>2
<1> DEFINE f == [p \in U |-> rank(p) + 1]
<1>10. f \in Surjection(U, 1..n)
  <2>1. f \in [U -> 1..n]
    BY <1>9
  <2>2. \A p, q \in U : f[p] = f[q] => p = q
    <3> SUFFICES ASSUME NEW p \in U, NEW q \in U, f[p] = f[q] PROVE p = q
      OBVIOUS
    <3>1. rank(p) + 1 = rank(q) + 1
      OBVIOUS
    <3> HIDE DEF rank
    <3> QED
      BY <1>6, <1>8, <3>1
  <2> HIDE DEF f
  <2>3. f \in Injection(U, 1..n)
    BY <2>1, <2>2 DEF Injection, IsInjective
  <2>4. IsFiniteSet(1..n) /\ Cardinality(1..n) = n
    BY <1>1, FS_Interval
  <2> QED
    BY <2>3, <2>4, FS_Injection DEF n
<1>11. \A i \in 1..n : \E p \in U : rank(p) = i - 1
  <2> SUFFICES ASSUME NEW i \in 1..n PROVE \E p \in U : rank(p) = i - 1
    OBVIOUS
  <2>1. PICK p \in U : f[p] = i
    BY <1>10 DEF Surjection
  <2>2. rank(p) + 1 = i
    BY <2>1
  <2> HIDE DEF rank
  <2> QED
    BY <1>1, <1>6, <2>2
<1>12. \A i \in 1..n : Verify!Missing(i) \in U /\ rank(Verify!Missing(i)) = i - 1
  <2> SUFFICES ASSUME NEW i \in 1..n PROVE Verify!Missing(i) \in U /\ rank(Verify!Missing(i)) = i - 1
    OBVIOUS
  <2>1. \E p \in Verify!Unrecorded : Verify!Cardinality(Verify!Earlier(p)) = i - 1
    BY <1>11, SameCountVerify DEF U
  <2>2. /\ Verify!Missing(i) \in Verify!Unrecorded
        /\ Verify!Cardinality(Verify!Earlier(Verify!Missing(i))) = i - 1
    BY <2>1 DEF Verify!Missing
  <2> QED
    BY <2>2, SameCountVerify DEF U
<1> HIDE DEF rank, f
<1>13. \A i, j \in 1..n : Verify!Missing(i) = Verify!Missing(j) => i = j
  BY <1>1, <1>12
<1>14. ASSUME NEW p \in U PROVE \E i \in 1..n : Verify!Missing(i) = p
  <2>1. rank(p) + 1 \in 1..n /\ (rank(p) + 1) - 1 = rank(p)
    BY <1>6, <1>9
  <2> QED
    BY <1>8, <1>12, <2>1
<1> QED
  BY <1>1, <1>12, <1>13, <1>14 DEF U, n

\* The sequence of a set of no or one element.
LEMMA SeqOfOne ==
  ASSUME NEW S, NEW x, S = {} \/ S = {x}
  PROVE  /\ Verify!SetToSeq(S) \in Seq(S) /\ Len(Verify!SetToSeq(S)) <= 1
         /\ \A j \in DOMAIN Verify!SetToSeq(S) : Verify!SetToSeq(S)[j] \in S
<1>1. IsFiniteSet(S) /\ Cardinality(S) \in {0, 1} /\ (Cardinality(S) = 1 => S = {x}) /\ (Cardinality(S) = 0 => S = {})
  BY FS_EmptySet, FS_Singleton
<1> DEFINE n == Verify!Cardinality(S)
<1>2. n \in {0, 1} /\ (n = 1 => S = {x}) /\ (n = 0 => S = {})
  BY <1>1, SameCountVerify
<1> HIDE DEF n
<1>3. \E f \in [1..n -> S] : Verify!IsInjective(f)
  <2> DEFINE f == [i \in 1..n |-> x]
  <2>1. f \in [1..n -> S]
    BY <1>2
  <2>2. Verify!IsInjective(f)
    BY <1>2 DEF Verify!IsInjective
  <2> QED
    BY <2>1, <2>2
<1>4. Verify!SetToSeq(S) \in [1..n -> S]
  BY <1>3 DEF Verify!SetToSeq, n
<1> QED
  BY <1>2, <1>4

\* A case that throws writes one error, for the step it was at, if it had one.
LEMMA CaughtWrites ==
  ASSUME Verify!VerifyInv, phase \in {"creating", "resetting"},
         NEW more, more = Verify!SetToSeq({Verify!Line(c, i, "error") : i \in Verify!FirstUnrecorded})
  PROVE  /\ more \in Seq(StepLine) /\ Len(more) <= 1 /\ c \in 1..NumCases
         /\ \A j \in DOMAIN more : /\ more[j].case = c /\ more[j].step <= cases[c] /\ more[j].state = "error"
                                   /\ ~Verify!IsRecorded(c, more[j].step)
<1>0. Verify!TypeOK
  BY DEF Verify!VerifyInv
<1>1. c \in 1..NumCases /\ cases[c] \in Nat /\ cases[c] <= MaxSteps
  BY <1>0, VerifyTypes, VerificationAssumption
     DEF Verify!VerifyInv, Verify!PlaceIsInside, Verify!InCase, Verify!AtStep
<1> DEFINE first == IF phase = "creating" THEN 1 ELSE s
           U == Verify!FirstUnrecorded
           E == {Verify!Line(c, i, "error") : i \in U}
<1>2. first \in Nat /\ 1 <= first
  BY <1>0, VerifyTypes
<1>3. \A k \in 1..(first - 1) : Verify!IsRecorded(c, k)
  BY DEF Verify!VerifyInv, Verify!LinesAreBehind, Verify!InCase, Verify!AtStep
<1>4. \A k \in 1..cases[c] : k >= first => ~Verify!IsRecorded(c, k)
  <2> SUFFICES ASSUME NEW k \in 1..cases[c], k >= first, NEW i \in DOMAIN steps,
                      steps[i].case = c, steps[i].step = k
               PROVE  FALSE
    BY DEF Verify!IsRecorded
  <2>1. c \in Nat /\ s \in Nat
    BY <1>0, VerifyTypes
  <2>2. steps[i].case < c \/ (phase # "creating" /\ steps[i].step < s)
    BY DEF Verify!VerifyInv, Verify!LinesAreBehind, Verify!InCase, Verify!AtStep
  <2> QED
    BY <1>1, <2>1, <2>2
<1> HIDE DEF first
<1>5. \A i \in U : i = first /\ i \in 1..cases[c] /\ ~Verify!IsRecorded(c, i)
  <2> SUFFICES ASSUME NEW i \in U PROVE i = first /\ i \in 1..cases[c] /\ ~Verify!IsRecorded(c, i)
    OBVIOUS
  <2>1. i \in 1..cases[c] /\ ~Verify!IsRecorded(c, i) /\ \A k \in 1..(i - 1) : Verify!IsRecorded(c, k)
    BY DEF Verify!FirstUnrecorded
  <2>2. ~(i < first)
    BY <1>1, <1>2, <1>3, <2>1
  <2>3. ~(i > first)
    <3>1. i > first => first \in 1..(i - 1) /\ first \in 1..cases[c]
      BY <1>1, <1>2, <2>1
    <3> QED
      BY <1>2, <1>4, <2>1, <3>1
  <2> QED
    BY <1>1, <1>2, <2>1, <2>2, <2>3
<1>6. E = {} \/ E = {Verify!Line(c, first, "error")}
  BY <1>5
<1>7. \A l \in E : /\ l \in StepLine /\ l.case = c /\ l.step <= cases[c] /\ l.state = "error"
                   /\ ~Verify!IsRecorded(c, l.step)
  <2> SUFFICES ASSUME NEW i \in U
               PROVE  LET l == Verify!Line(c, i, "error") IN
                      /\ l \in StepLine /\ l.case = c /\ l.step <= cases[c] /\ l.state = "error"
                      /\ ~Verify!IsRecorded(c, l.step)
    OBVIOUS
  <2>1. i \in 1..MaxSteps /\ i <= cases[c] /\ ~Verify!IsRecorded(c, i)
    BY <1>1, <1>5, VerificationAssumption
  <2> QED
    BY <1>1, <2>1 DEF Verify!Line, StepLine, Verify!States
<1> HIDE DEF E, U
<1>8. more = Verify!SetToSeq(E)
  BY DEF E, U
<1>9. more \in Seq(E) /\ Len(more) <= 1 /\ \A j \in DOMAIN more : more[j] \in E
  BY <1>6, <1>8, SeqOfOne
<1>10. more \in Seq(StepLine)
  BY <1>7, <1>9
<1> QED
  BY <1>1, <1>7, <1>9, <1>10

\* What holds of the lines while none is written and the run stays at its step.
LEMMA LinesStay ==
  ASSUME Verify!VerifyInv, steps' = steps, cases' = cases, stop' = stop, c' = c, s' = s,
         Verify!InCase' <=> Verify!InCase, phase' # "done", terminal \in Verify!Worse => terminal' \in Verify!Worse
  PROVE  Verify!EveryStepOnce' /\ Verify!LinesAreBehind' /\ Verify!OnlyErrorsLeaveOut'
<1>1. Verify!EveryStepOnce'
  BY DEF Verify!VerifyInv, Verify!EveryStepOnce
<1>2. \A p, q : Verify!IsRecorded(p, q)' <=> Verify!IsRecorded(p, q)
  BY DEF Verify!IsRecorded
<1>3. Verify!LinesAreBehind'
  BY <1>2 DEF Verify!VerifyInv, Verify!LinesAreBehind
<1>4. Verify!OnlyErrorsLeaveOut'
  BY <1>2 DEF Verify!VerifyInv, Verify!OnlyErrorsLeaveOut
<1> QED
  BY <1>1, <1>3, <1>4

\* The step the run is at gets its line.
LEMMA RecordKeeps ==
  ASSUME Verify!VerifyInv, NEW st \in Verify!States, Verify!Record(st), Verify!NextStep,
         Verify!InCase, s <= cases[c], cases' = cases, stop' = stop,
         terminal \in Verify!Worse => terminal' \in Verify!Worse,
         st = "not_run" \/ (stop => ~\E i \in DOMAIN steps : Verify!Bad(steps[i].state))
  PROVE  /\ steps' \in Seq(StepLine) /\ \A i \in DOMAIN steps' : steps'[i].step <= cases'[steps'[i].case]
         /\ c' = c /\ c <= NumCases /\ s' = s + 1 /\ s' \in 1..(MaxSteps + 1) /\ s' <= cases[c] + 1
         /\ phase' = "step"
         /\ Verify!EveryStepOnce' /\ Verify!LinesAreBehind' /\ Verify!OnlyErrorsLeaveOut'
         /\ stop' => \A i, j \in DOMAIN steps' :
              i < j /\ Verify!Bad(steps'[i].state) => steps'[j].state = "not_run"
         /\ \A t : (\E i \in DOMAIN steps' : steps'[i].state = t) <=>
              (\E i \in DOMAIN steps : steps[i].state = t) \/ t = st
<1>0. Verify!TypeOK
  BY DEF Verify!VerifyInv
<1> DEFINE line == Verify!Line(c, s, st)
           more == <<line>>
<1>1. c \in 1..NumCases /\ cases[c] \in Nat /\ cases[c] <= MaxSteps /\ s \in Nat /\ 1 <= s
  BY <1>0, VerifyTypes, VerificationAssumption DEF Verify!VerifyInv, Verify!PlaceIsInside
<1>2. line \in StepLine /\ line.case = c /\ line.step = s /\ line.state = st
  <2>1. s \in 1..MaxSteps
    BY <1>1, VerificationAssumption
  <2> QED
    BY <1>1, <2>1 DEF StepLine, Verify!Line
<1>3. steps \in Seq(StepLine)
  BY <1>0, VerifyTypes
<1> HIDE DEF line
<1>4. more \in Seq(StepLine) /\ Len(more) = 1 /\ DOMAIN more = {1} /\ more[1] = line
  BY <1>2
<1>5. steps' = steps \o more
  <2>1. steps' = Append(steps, line)
    BY DEF Verify!Record, line
  <2> QED
    BY <1>2, <1>3, <2>1, AppendIsConcat
<1>6. ~Verify!IsRecorded(c, s)
  BY <1>0, <1>1, VerifyTypes DEF Verify!IsRecorded, Verify!VerifyInv, Verify!LinesAreBehind
<1> HIDE DEF more
<1>7. /\ steps' \in Seq(StepLine)
      /\ \A i \in DOMAIN steps' :
              \/ i \in DOMAIN steps /\ steps'[i] = steps[i]
              \/ /\ i \notin DOMAIN steps /\ i - Len(steps) \in DOMAIN more
                 /\ steps'[i] = more[i - Len(steps)] /\ \A k \in DOMAIN steps : k < i
      /\ \A p, q : Verify!IsRecorded(p, q)' <=>
              Verify!IsRecorded(p, q) \/ \E j \in DOMAIN more : more[j].case = p /\ more[j].step = q
      /\ \A t : (\E i \in DOMAIN steps' : steps'[i].state = t) <=>
              (\E i \in DOMAIN steps : steps[i].state = t) \/ \E j \in DOMAIN more : more[j].state = t
  BY <1>0, <1>4, <1>5, LinesGrow
<1>8. /\ \A i \in DOMAIN steps' : steps'[i].step <= cases'[steps'[i].case]
      /\ \A i, j \in DOMAIN steps' :
              steps'[i].case = steps'[j].case /\ steps'[i].step = steps'[j].step => i = j
      /\ stop' => \A i, j \in DOMAIN steps' :
              i < j /\ Verify!Bad(steps'[i].state) => steps'[j].state = "not_run"
  <2>1. \A j \in DOMAIN more : more[j] = line
    BY <1>4
  <2>2. \A j \in DOMAIN more : /\ more[j].step <= cases[more[j].case]
                                /\ ~Verify!IsRecorded(more[j].case, more[j].step)
    BY <1>2, <1>6, <2>1
  <2>3. \A j, k \in DOMAIN more : more[j].case = more[k].case /\ more[j].step = more[k].step => j = k
    BY <1>4
  <2>4. \/ stop => ~\E i \in DOMAIN steps : Verify!Bad(steps[i].state)
        \/ \A j \in DOMAIN more : more[j].state = "not_run"
    BY <1>2, <2>1
  <2>5. Len(more) <= 1
    BY <1>4
  <2> QED
    BY <1>4, <1>5, <2>2, <2>3, <2>4, <2>5, ReportGrows
<1>9. c' = c /\ s' = s + 1 /\ phase' = "step"
  BY DEF Verify!NextStep
<1>10. s' \in 1..(MaxSteps + 1) /\ s' <= cases[c] + 1
  BY <1>1, <1>9, VerificationAssumption
<1>11. \A i \in DOMAIN steps' : \/ i \in DOMAIN steps /\ steps'[i] = steps[i]
                                \/ steps'[i] = line
  BY <1>4, <1>7
<1>12. \A p, q : Verify!IsRecorded(p, q)' <=> Verify!IsRecorded(p, q) \/ (p = c /\ q = s)
  BY <1>2, <1>4, <1>7
<1>13. Verify!LinesAreBehind'
  <2>1. \A i \in DOMAIN steps' : steps'[i].case < c' \/ (steps'[i].case = c' /\ steps'[i].step < s')
    <3>1. \A i \in DOMAIN steps : steps[i].case < c \/ (steps[i].case = c /\ steps[i].step < s)
      BY DEF Verify!VerifyInv, Verify!LinesAreBehind
    <3>2. \A i \in DOMAIN steps : steps[i].step \in Nat
      BY <1>0, VerifyTypes
    <3> QED
      BY <1>1, <1>2, <1>9, <1>11, <3>1, <3>2
  <2>2. \A k \in 1..(s' - 1) : \E i \in DOMAIN steps' : steps'[i].case = c /\ steps'[i].step = k
    <3>1. \A k \in 1..(s - 1) : Verify!IsRecorded(c, k)
      BY DEF Verify!VerifyInv, Verify!LinesAreBehind
    <3>2. \A k \in 1..(s' - 1) : k = s \/ k \in 1..(s - 1)
      BY <1>1, <1>9
    <3>3. \A k : Verify!IsRecorded(c, k) \/ k = s =>
                  \E i \in DOMAIN steps' : steps'[i].case = c /\ steps'[i].step = k
      BY <1>12 DEF Verify!IsRecorded
    <3> QED
      BY <3>1, <3>2, <3>3
  <2>3. Verify!InCase'
    BY <1>9 DEF Verify!InCase
  <2> QED
    BY <1>9, <2>1, <2>2, <2>3 DEF Verify!LinesAreBehind, Verify!IsRecorded
<1>14. Verify!OnlyErrorsLeaveOut'
  BY <1>9, <1>12 DEF Verify!VerifyInv, Verify!OnlyErrorsLeaveOut
<1>15. Verify!EveryStepOnce'
  BY <1>8, <1>9 DEF Verify!EveryStepOnce
<1>16. \A t : (\E i \in DOMAIN steps' : steps'[i].state = t) <=>
              (\E i \in DOMAIN steps : steps[i].state = t) \/ t = st
  BY <1>2, <1>4, <1>7
<1> QED
  BY <1>1, <1>7, <1>8, <1>9, <1>10, <1>13, <1>14, <1>15, <1>16

\* A case is begun, its session comes, and a case whose steps are through is closed.
LEMMA CaseKeeps ==
  ASSUME Verify!VerifyInv, Verify!Create \/ Verify!Created \/ Verify!CloseCase PROVE Verify!VerifyInv'
<1>0. Verify!TypeOK
  BY DEF Verify!VerifyInv
<1>1. /\ cases' = cases /\ stop' = stop /\ cancelled' = cancelled /\ left' = left /\ done' = done
      /\ count' = count /\ halted' = halted /\ terminal' = terminal /\ steps' = steps
      /\ passed' = passed /\ failed' = failed /\ late' = late
      /\ phase' \in {"creating", "step", "case"} /\ phase \in {"case", "creating", "step"}
  BY DEF Verify!Create, Verify!Created, Verify!CloseCase, Verify!Begins, Verify!NextCase,
     Verify!inputs, Verify!place, Verify!report
<1>2. /\ c \in Nat /\ s \in Nat /\ 1 \in 1..(MaxSteps + 1) /\ NumCases \in Nat /\ MaxSteps \in Nat
  BY <1>0, VerifyTypes, VerificationAssumption
<1>3. /\ Verify!FailuresAreTold' /\ Verify!SummarySoFar' /\ Verify!CancelStops'
      /\ Verify!CancelIsNoticed'
  BY <1>1 DEF Verify!VerifyInv, Verify!FailuresAreTold, Verify!SummarySoFar, Verify!CancelStops,
     Verify!CancelIsNoticed, Verify!AtStep
<1>4. CASE Verify!Create
  <2>1. /\ phase = "case" /\ c <= NumCases /\ ~halted /\ phase' = "creating" /\ c' = c /\ s' = s
        /\ session' = session
    BY <1>4 DEF Verify!Create, Verify!Begins, Verify!place
  <2>2. Verify!EveryStepOnce' /\ Verify!LinesAreBehind' /\ Verify!OnlyErrorsLeaveOut'
    BY <1>1, <2>1, LinesStay DEF Verify!InCase, Verify!AtStep
  <2>3. Verify!TypeOK'
    BY <1>0, <1>1, <2>1 DEF Verify!TypeOK
  <2>4. Verify!StopsAtTheFirst' /\ Verify!SessionsEnd' /\ Verify!HaltedIsOver'
    BY <1>1, <2>1 DEF Verify!VerifyInv, Verify!StopsAtTheFirst, Verify!SessionsEnd, Verify!HaltedIsOver,
       Verify!AtStep
  <2>5. Verify!PlaceIsInside'
    BY <1>1, <2>1 DEF Verify!VerifyInv, Verify!PlaceIsInside, Verify!InCase, Verify!AtStep
  <2> QED
    BY <1>3, <2>2, <2>3, <2>4, <2>5 DEF Verify!VerifyInv
<1>5. CASE Verify!Created
  <2>1. phase = "creating" /\ phase' = "step" /\ c' = c /\ s' = 1 /\ session' = "live"
    BY <1>5 DEF Verify!Created
  <2>2. c \in 1..NumCases /\ cases[c] \in Nat
    BY <1>0, <2>1, VerifyTypes, VerificationAssumption DEF Verify!VerifyInv, Verify!PlaceIsInside
  <2>3. \A p, q : Verify!IsRecorded(p, q)' <=> Verify!IsRecorded(p, q)
    BY <1>1 DEF Verify!IsRecorded
  <2>4. Verify!EveryStepOnce' /\ Verify!LinesAreBehind' /\ Verify!OnlyErrorsLeaveOut'
    BY <1>1, <2>1, <2>3 DEF Verify!VerifyInv, Verify!EveryStepOnce, Verify!LinesAreBehind,
       Verify!OnlyErrorsLeaveOut, Verify!InCase, Verify!AtStep
  <2>5. Verify!TypeOK'
    BY <1>0, <1>1, <1>2, <2>1 DEF Verify!TypeOK
  <2>6. Verify!StopsAtTheFirst' /\ Verify!SessionsEnd' /\ Verify!HaltedIsOver'
    BY <1>1, <2>1 DEF Verify!VerifyInv, Verify!StopsAtTheFirst, Verify!SessionsEnd, Verify!HaltedIsOver,
       Verify!AtStep
  <2>7. Verify!PlaceIsInside'
    BY <1>1, <2>1, <2>2 DEF Verify!VerifyInv, Verify!PlaceIsInside, Verify!InCase, Verify!AtStep
  <2> QED
    BY <1>3, <2>4, <2>5, <2>6, <2>7 DEF Verify!VerifyInv
<1>6. CASE Verify!CloseCase
  <2>1. phase = "step" /\ s > cases[c] /\ phase' = "case" /\ c' = c + 1 /\ s' = 1 /\ session' = "none"
    BY <1>6 DEF Verify!CloseCase, Verify!NextCase
  <2>2. c \in 1..NumCases /\ cases[c] \in Nat
    BY <1>0, <2>1, VerifyTypes, VerificationAssumption
       DEF Verify!VerifyInv, Verify!PlaceIsInside, Verify!InCase
  <2>3. \A p, q : Verify!IsRecorded(p, q)' <=> Verify!IsRecorded(p, q)
    BY <1>1 DEF Verify!IsRecorded
  <2>4. \A k \in 1..cases[c] : Verify!IsRecorded(c, k)
    <3>1. \A k \in 1..cases[c] : k \in 1..(s - 1)
      BY <1>2, <2>1, <2>2
    <3> QED
      BY <2>1, <3>1 DEF Verify!VerifyInv, Verify!LinesAreBehind, Verify!InCase
  <2>5. Verify!OnlyErrorsLeaveOut'
    <3>1. \A i \in 1..NumCases : i < c + 1 => i < c \/ i = c
      BY <1>2
    <3> QED
      BY <1>1, <2>1, <2>3, <2>4, <3>1 DEF Verify!VerifyInv, Verify!OnlyErrorsLeaveOut
  <2>6. Verify!LinesAreBehind' /\ Verify!EveryStepOnce'
    <3>1. \A i \in DOMAIN steps : steps[i].case < c + 1
      BY <1>0, <1>2, VerifyTypes DEF Verify!VerifyInv, Verify!LinesAreBehind
    <3> QED
      BY <1>1, <2>1, <3>1 DEF Verify!VerifyInv, Verify!EveryStepOnce, Verify!LinesAreBehind,
         Verify!InCase, Verify!AtStep
  <2>7. Verify!TypeOK'
    <3>1. c' \in 1..(NumCases + 1)
      BY <1>2, <2>1, <2>2
    <3> QED
      BY <1>0, <1>1, <1>2, <2>1, <3>1 DEF Verify!TypeOK
  <2>8. Verify!StopsAtTheFirst' /\ Verify!SessionsEnd' /\ Verify!HaltedIsOver'
    BY <1>1, <2>1 DEF Verify!VerifyInv, Verify!StopsAtTheFirst, Verify!SessionsEnd, Verify!HaltedIsOver,
       Verify!AtStep
  <2>9. Verify!PlaceIsInside'
    BY <1>1, <2>1 DEF Verify!VerifyInv, Verify!PlaceIsInside, Verify!InCase, Verify!AtStep
  <2> QED
    BY <1>3, <2>5, <2>6, <2>7, <2>8, <2>9 DEF Verify!VerifyInv
<1> QED
  BY <1>4, <1>5, <1>6

\* A step begins: it has not failed, and nothing went wrong before it if the run stops.
LEMMA BeginStepKeeps == Verify!VerifyInv /\ Verify!BeginStep => Verify!VerifyInv'
<1> SUFFICES ASSUME Verify!VerifyInv, Verify!BeginStep PROVE Verify!VerifyInv'
  OBVIOUS
<1>0. Verify!TypeOK
  BY DEF Verify!VerifyInv
<1>1. /\ cases' = cases /\ stop' = stop /\ cancelled' = cancelled /\ done' = 0
      /\ count' = count /\ halted' = halted /\ terminal' = terminal /\ steps' = steps
      /\ passed' = passed /\ failed' = failed /\ late' = late /\ session' = session
      /\ phase' = "act" /\ phase = "step" /\ s <= cases[c] /\ ~halted /\ c' = c /\ s' = s
  BY DEF Verify!BeginStep, Verify!inputs, Verify!report
<1>2. /\ left' \in [actions : 0..MaxActions, expect : 0..MaxExpect, bad : BOOLEAN]
      /\ left'.actions \in 0..MaxActions /\ ~left'.bad
  <2>1. PICK a \in 0..MaxActions, e \in 0..MaxExpect : left' = [actions |-> a, expect |-> e, bad |-> FALSE]
    BY DEF Verify!BeginStep
  <2> QED
    BY <2>1
<1>3. Verify!EveryStepOnce' /\ Verify!LinesAreBehind' /\ Verify!OnlyErrorsLeaveOut'
  BY <1>1, LinesStay DEF Verify!InCase, Verify!AtStep
<1>4. Verify!TypeOK'
  <2>1. done' \in 0..MaxActions
    BY <1>1, VerificationAssumption
  <2> QED
    BY <1>0, <1>1, <1>2, <2>1 DEF Verify!TypeOK
<1>5. Verify!FailuresAreTold' /\ Verify!SummarySoFar'
  BY <1>1, <1>2 DEF Verify!VerifyInv, Verify!FailuresAreTold, Verify!SummarySoFar, Verify!AtStep
<1>6. Verify!StopsAtTheFirst' /\ Verify!SessionsEnd' /\ Verify!HaltedIsOver'
  BY <1>1, <1>2 DEF Verify!VerifyInv, Verify!StopsAtTheFirst, Verify!SessionsEnd, Verify!HaltedIsOver, Verify!AtStep
<1>7. Verify!CancelStops' /\ Verify!CancelIsNoticed'
  BY <1>1 DEF Verify!VerifyInv, Verify!CancelStops, Verify!CancelIsNoticed
<1>8. Verify!PlaceIsInside'
  <2>1. done' + left'.actions <= MaxActions
    BY <1>1, <1>2, VerificationAssumption
  <2> QED
    BY <1>1, <2>1 DEF Verify!VerifyInv, Verify!PlaceIsInside, Verify!InCase, Verify!AtStep
<1> QED
  BY <1>3, <1>4, <1>5, <1>6, <1>7, <1>8 DEF Verify!VerifyInv

\* The step under way while its actions run: it has not failed and nothing has stopped the run.
LEMMA StepRuns ==
  ASSUME Verify!VerifyInv, Verify!AtStep, phase = "act" => left.actions > 0
  PROVE  /\ ~left.bad /\ ~halted /\ c <= NumCases /\ s <= cases[c]
         /\ stop => ~\E i \in DOMAIN steps : Verify!Bad(steps[i].state)
         /\ phase \in {"act", "resetting"} => late = 0
<1>1. left.actions \in Nat
  BY VerifyTypes, VerificationAssumption DEF Verify!VerifyInv
<1> DEFINE b == left.bad
           n == left.actions
<1>2. b \in BOOLEAN /\ (b => phase = "act" /\ n = 0)
  BY VerifyTypes DEF Verify!VerifyInv, Verify!FailuresAreTold
<1>3. halted => phase = "act" /\ n = 0
  BY DEF Verify!VerifyInv, Verify!HaltedIsOver
<1>4. phase = "act" => n > 0
  OBVIOUS
<1>5. n \in Nat
  BY <1>1
<1> HIDE DEF n, b
<1>6. ~b
  BY <1>2, <1>4, <1>5
<1>7. ~halted
  BY <1>3, <1>4, <1>5
<1>8. ~left.bad
  BY <1>6 DEF b
<1>9. stop => ~\E i \in DOMAIN steps : Verify!Bad(steps[i].state)
  BY DEF Verify!VerifyInv, Verify!HaltedIsOver
<1>10. phase \in {"act", "resetting"} => late = 0
  BY <1>7 DEF Verify!VerifyInv, Verify!CancelIsNoticed
<1>11. c <= NumCases /\ s <= cases[c]
  BY DEF Verify!VerifyInv, Verify!PlaceIsInside, Verify!InCase
<1> QED
  BY <1>7, <1>8, <1>9, <1>10, <1>11

\* An action is counted, and taken off the step.
LEMMA ActionCounts ==
  ASSUME Verify!VerifyInv, Verify!Counted, Verify!Took, left.actions > 0
  PROVE  /\ left' \in [actions : 0..MaxActions, expect : 0..MaxExpect, bad : BOOLEAN]
         /\ left'.bad = left.bad /\ done' \in 0..MaxActions /\ done' + left'.actions <= MaxActions
         /\ count' \in 0..(YieldActions - 1)
<1>0. Verify!TypeOK
  BY DEF Verify!VerifyInv
<1>1. /\ left \in [actions : 0..MaxActions, expect : 0..MaxExpect, bad : BOOLEAN]
      /\ done \in 0..MaxActions /\ count \in 0..(YieldActions - 1) /\ done + left.actions <= MaxActions
  BY DEF Verify!VerifyInv, Verify!TypeOK, Verify!PlaceIsInside
<1>2. left' = [left EXCEPT !.actions = left.actions - 1] /\ done' = done + 1 /\ count' = (count + 1) % YieldActions
  BY DEF Verify!Counted, Verify!Took
<1>3. left.actions \in 0..MaxActions /\ left.actions - 1 \in 0..MaxActions
  BY <1>1, VerificationAssumption
<1>4. /\ left' \in [actions : 0..MaxActions, expect : 0..MaxExpect, bad : BOOLEAN]
      /\ left'.bad = left.bad /\ left'.actions = left.actions - 1
  BY <1>1, <1>2, <1>3
<1>5. done' \in 0..MaxActions /\ done' + left'.actions <= MaxActions
  BY <1>1, <1>2, <1>3, <1>4, VerificationAssumption
<1>6. count' \in 0..(YieldActions - 1)
  <2>1. count + 1 \in Nat
    BY <1>1, VerificationAssumption
  <2> QED
    BY <1>2, <2>1, VerificationAssumption
<1> QED
  BY <1>4, <1>5, <1>6

\* An action takes effect: a cancellation it comes too early for is noticed after it.
LEMMA ActionKeeps ==
  ASSUME Verify!VerifyInv, Verify!Act \/ Verify!ResetEnds PROVE Verify!VerifyInv'
<1>0. Verify!TypeOK
  BY DEF Verify!VerifyInv
<1>1. /\ cases' = cases /\ stop' = stop /\ cancelled' = cancelled /\ c' = c /\ s' = s
      /\ halted' = halted /\ terminal' = terminal /\ steps' = steps /\ passed' = passed /\ failed' = failed
      /\ phase' \in {"yielding", "check"} /\ phase \in {"act", "resetting"} /\ session' = "live"
      /\ late' = IF cancelled THEN late + 1 ELSE late
  BY DEF Verify!Act, Verify!ResetEnds, Verify!inputs, Verify!report, Verify!AfterAction, Verify!Noticed
<1>2. Verify!Counted /\ Verify!Took /\ left.actions > 0
  BY DEF Verify!Act, Verify!ResetEnds, Verify!VerifyInv, Verify!PlaceIsInside
<1>3. /\ left' \in [actions : 0..MaxActions, expect : 0..MaxExpect, bad : BOOLEAN]
      /\ left'.bad = left.bad /\ done' \in 0..MaxActions /\ done' + left'.actions <= MaxActions
      /\ count' \in 0..(YieldActions - 1)
  BY <1>2, ActionCounts
<1>4. Verify!AtStep /\ Verify!InCase
  BY <1>1 DEF Verify!AtStep, Verify!InCase
<1>5. /\ ~left.bad /\ ~halted /\ c <= NumCases /\ s <= cases[c]
      /\ stop => ~\E i \in DOMAIN steps : Verify!Bad(steps[i].state)
      /\ late = 0
  BY <1>1, <1>2, <1>4, StepRuns
<1>6. ~left'.bad
  <2> DEFINE b == left.bad
             bn == left'.bad
  <2>1. bn = b /\ ~b
    BY <1>3, <1>5
  <2> HIDE DEF b, bn
  <2>2. ~bn
    BY <2>1
  <2> QED
    BY <2>2 DEF bn
<1>7. Verify!EveryStepOnce' /\ Verify!LinesAreBehind' /\ Verify!OnlyErrorsLeaveOut'
  BY <1>1, LinesStay DEF Verify!InCase, Verify!AtStep
<1>8. Verify!TypeOK'
  BY <1>0, <1>1, <1>3, <1>5 DEF Verify!TypeOK
<1>9. Verify!FailuresAreTold'
  BY <1>1, <1>5, <1>6 DEF Verify!VerifyInv, Verify!FailuresAreTold
<1>10. Verify!SummarySoFar'
  BY <1>1 DEF Verify!VerifyInv, Verify!SummarySoFar
<1>11. Verify!StopsAtTheFirst' /\ Verify!SessionsEnd'
  BY <1>1 DEF Verify!VerifyInv, Verify!StopsAtTheFirst, Verify!SessionsEnd
<1>12. Verify!HaltedIsOver'
  BY <1>1, <1>5, <1>6 DEF Verify!HaltedIsOver
<1>13. Verify!CancelStops' /\ Verify!CancelIsNoticed'
  BY <1>1, <1>5 DEF Verify!CancelStops, Verify!CancelIsNoticed
<1>14. Verify!PlaceIsInside'
  BY <1>1, <1>3, <1>4 DEF Verify!VerifyInv, Verify!PlaceIsInside, Verify!InCase, Verify!AtStep
<1> QED
  BY <1>7, <1>8, <1>9, <1>10, <1>11, <1>12, <1>13, <1>14 DEF Verify!VerifyInv

\* The run waits, or goes on after it waited.
LEMMA WaitKeeps ==
  ASSUME Verify!VerifyInv, Verify!BeginReset \/ Verify!Yielded \/ Verify!GoesOn \/ Verify!Cancel
  PROVE  Verify!VerifyInv'
<1>0. Verify!TypeOK
  BY DEF Verify!VerifyInv
<1>1. /\ cases' = cases /\ stop' = stop /\ c' = c /\ s' = s /\ left' = left /\ done' = done /\ count' = count
      /\ session' = session /\ halted' = halted /\ terminal' = terminal /\ steps' = steps
      /\ passed' = passed /\ failed' = failed /\ late' = late
  BY DEF Verify!BeginReset, Verify!Yielded, Verify!GoesOn, Verify!Cancel,
     Verify!inputs, Verify!place, Verify!report
<1>2. CASE Verify!Cancel
  <2>1. cancelled' = TRUE /\ phase' = phase
    BY <1>2 DEF Verify!Cancel
  <2>2. phase # "done"
    BY <1>2 DEF Verify!Cancel
  <2>3. Verify!EveryStepOnce' /\ Verify!LinesAreBehind' /\ Verify!OnlyErrorsLeaveOut'
    BY <1>1, <2>1, <2>2, LinesStay DEF Verify!InCase, Verify!AtStep
  <2>4. Verify!TypeOK'
    BY <1>0, <1>1, <2>1 DEF Verify!TypeOK
  <2>5. Verify!PlaceIsInside' /\ Verify!FailuresAreTold' /\ Verify!SummarySoFar' /\ Verify!HaltedIsOver'
    BY <1>1, <2>1 DEF Verify!VerifyInv, Verify!PlaceIsInside, Verify!FailuresAreTold, Verify!SummarySoFar,
       Verify!HaltedIsOver, Verify!AtStep, Verify!InCase
  <2>6. Verify!StopsAtTheFirst' /\ Verify!SessionsEnd' /\ Verify!CancelStops' /\ Verify!CancelIsNoticed'
    BY <1>1, <2>1 DEF Verify!VerifyInv, Verify!StopsAtTheFirst, Verify!SessionsEnd, Verify!CancelStops,
       Verify!CancelIsNoticed
  <2> QED
    BY <2>3, <2>4, <2>5, <2>6 DEF Verify!VerifyInv
<1>3. CASE Verify!BeginReset \/ Verify!Yielded \/ Verify!GoesOn
  <2>1. /\ cancelled' = cancelled
        /\ \/ phase = "act" /\ left.actions > 0 /\ phase' = "resetting"
           \/ phase = "yielding" /\ phase' = "check"
           \/ phase = "check" /\ phase' = "act" /\ ~cancelled
    BY <1>3 DEF Verify!BeginReset, Verify!Yielded, Verify!GoesOn, Verify!ChecksCancelled
  <2>2. Verify!AtStep /\ Verify!InCase /\ Verify!AtStep' /\ Verify!InCase'
    BY <2>1 DEF Verify!AtStep, Verify!InCase
  <2>3. /\ ~left.bad /\ ~halted
        /\ stop => ~\E i \in DOMAIN steps : Verify!Bad(steps[i].state)
        /\ phase = "act" => late = 0
    BY <2>1, <2>2, StepRuns
  <2>4. phase = "check" => late = 0
    BY <2>1 DEF Verify!VerifyInv, Verify!CancelIsNoticed
  <2>5. Verify!EveryStepOnce' /\ Verify!LinesAreBehind' /\ Verify!OnlyErrorsLeaveOut'
    BY <1>1, <2>1, <2>2, LinesStay
  <2>6. Verify!TypeOK'
    BY <1>0, <1>1, <2>1 DEF Verify!TypeOK
  <2>7. Verify!PlaceIsInside'
    BY <1>1, <2>1, <2>2 DEF Verify!VerifyInv, Verify!PlaceIsInside
  <2>8. Verify!FailuresAreTold'
    BY <1>1, <2>1, <2>3 DEF Verify!VerifyInv, Verify!FailuresAreTold
  <2>9. Verify!SummarySoFar' /\ Verify!StopsAtTheFirst' /\ Verify!CancelStops'
    BY <1>1 DEF Verify!VerifyInv, Verify!SummarySoFar, Verify!StopsAtTheFirst, Verify!CancelStops
  <2>10. Verify!HaltedIsOver'
    BY <1>1, <2>1, <2>3 DEF Verify!HaltedIsOver
  <2>11. Verify!CancelIsNoticed' /\ Verify!SessionsEnd'
    BY <1>1, <2>1, <2>3, <2>4 DEF Verify!VerifyInv, Verify!CancelIsNoticed, Verify!SessionsEnd
  <2> QED
    BY <2>5, <2>6, <2>7, <2>8, <2>9, <2>10, <2>11 DEF Verify!VerifyInv
<1> QED
  BY <1>2, <1>3

\* An expectation is checked: what does not hold is told by the step, and stops the run that stops.
LEMMA ExpectKeeps ==
  ASSUME Verify!VerifyInv, Verify!Holds \/ Verify!Differs \/ Verify!Unreadable PROVE Verify!VerifyInv'
<1>0. Verify!TypeOK
  BY DEF Verify!VerifyInv
<1>1. /\ cases' = cases /\ stop' = stop /\ cancelled' = cancelled /\ c' = c /\ s' = s /\ done' = done
      /\ count' = count /\ session' = session /\ steps' = steps /\ late' = late
      /\ phase = "act" /\ phase' = "act" /\ left.actions = 0 /\ left.expect > 0 /\ ~halted
  BY DEF Verify!Holds, Verify!Differs, Verify!Unreadable, Verify!Checks, Verify!inputs
<1>2. Verify!AtStep /\ Verify!InCase /\ Verify!AtStep' /\ Verify!InCase'
  BY <1>1 DEF Verify!AtStep, Verify!InCase
<1>3. /\ left \in [actions : 0..MaxActions, expect : 0..MaxExpect, bad : BOOLEAN]
      /\ left.expect - 1 \in 0..MaxExpect /\ passed \in Nat /\ failed \in Nat
  BY <1>0, <1>1, VerificationAssumption DEF Verify!TypeOK
<1>4. /\ left' \in [actions : 0..MaxActions, expect : 0..MaxExpect, bad : BOOLEAN]
      /\ left'.actions = 0
  BY <1>1, <1>3 DEF Verify!Holds, Verify!Differs, Verify!Unreadable
<1>5. late = 0 /\ (stop => ~\E i \in DOMAIN steps : Verify!Bad(steps[i].state))
  BY <1>1, <1>2 DEF Verify!VerifyInv, Verify!CancelIsNoticed, Verify!HaltedIsOver
<1>6. \/ /\ left'.bad = left.bad /\ passed' = passed + 1 /\ failed' = failed
         /\ terminal' = terminal /\ halted' = halted
      \/ /\ left'.bad /\ passed' = passed /\ failed' = failed + 1
         /\ terminal' = Verify!FailedState(terminal) /\ halted' = stop /\ session = "live"
      \/ /\ left'.bad /\ passed' = passed /\ failed' = failed + 1
         /\ terminal' = "error" /\ halted' = halted /\ session = "latched"
  BY <1>3 DEF Verify!Holds, Verify!Differs, Verify!Unreadable
<1>7. Verify!TypeOK' /\ Verify!PlaceIsInside'
  <2>1. Verify!TypeOK'
    <3>1. terminal' \in {"passed", "failed", "error", "timed_out", "cancelled"}
      BY <1>0, <1>6 DEF Verify!TypeOK, Verify!FailedState
    <3>2. passed' \in Nat /\ failed' \in Nat
      BY <1>3, <1>6
    <3>3. halted' \in BOOLEAN
      BY <1>0, <1>6 DEF Verify!TypeOK
    <3> QED
      BY <1>0, <1>1, <1>4, <3>1, <3>2, <3>3 DEF Verify!TypeOK
  <2>2. Verify!PlaceIsInside'
    BY <1>1, <1>2, <1>4 DEF Verify!VerifyInv, Verify!PlaceIsInside
  <2> QED
    BY <2>1, <2>2
<1>8. terminal \in Verify!Worse => terminal' \in Verify!Worse
  BY <1>6 DEF Verify!Worse, Verify!FailedState
<1>9. Verify!EveryStepOnce' /\ Verify!LinesAreBehind' /\ Verify!OnlyErrorsLeaveOut'
  BY <1>1, <1>2, <1>8, LinesStay
<1> DEFINE b == left.bad
           bn == left'.bad
<1>10. b \in BOOLEAN /\ bn \in BOOLEAN
  BY <1>3, <1>4
<1>11. /\ failed > 0 <=> (\E i \in DOMAIN steps : steps[i].state = "failed") \/ b
       /\ terminal = "failed" => failed > 0
       /\ b => terminal # "passed"
       /\ stop => ~b
  BY <1>1, <1>2 DEF Verify!VerifyInv, Verify!FailuresAreTold, Verify!HaltedIsOver
<1>12. \/ bn = b /\ failed' = failed /\ terminal' = terminal /\ halted' = halted
       \/ /\ bn /\ failed' = failed + 1 /\ session = "live"
          /\ terminal' = Verify!FailedState(terminal) /\ halted' = stop
       \/ /\ bn /\ failed' = failed + 1 /\ session = "latched"
          /\ terminal' = "error" /\ halted' = halted
  BY <1>6
<1> HIDE DEF b, bn
<1>13. session = "latched" => ~stop
  BY <1>1 DEF Verify!VerifyInv, Verify!StopsAtTheFirst
<1>14. /\ failed' > 0 <=> (\E i \in DOMAIN steps : steps[i].state = "failed") \/ bn
       /\ terminal' = "failed" => failed' > 0
       /\ bn => terminal' # "passed"
       /\ stop /\ bn => halted'
  <2>1. CASE bn = b /\ failed' = failed /\ terminal' = terminal /\ halted' = halted
    BY <1>10, <1>11, <2>1
  <2>2. CASE bn /\ failed' = failed + 1 /\ session = "live"
             /\ terminal' = Verify!FailedState(terminal) /\ halted' = stop
    BY <1>3, <2>2 DEF Verify!FailedState
  <2>3. CASE bn /\ failed' = failed + 1 /\ session = "latched" /\ terminal' = "error" /\ halted' = halted
    BY <1>3, <1>13, <2>3
  <2> QED
    BY <1>12, <2>1, <2>2, <2>3
<1>15. /\ failed' > 0 <=> (\E i \in DOMAIN steps : steps[i].state = "failed") \/ left'.bad
       /\ terminal' = "failed" => failed' > 0
       /\ left'.bad => terminal' # "passed"
       /\ stop /\ left'.bad => halted'
  BY <1>14 DEF bn
<1>16. Verify!FailuresAreTold' /\ Verify!HaltedIsOver'
  BY <1>1, <1>4, <1>5, <1>15 DEF Verify!FailuresAreTold, Verify!HaltedIsOver
<1>17. Verify!SummarySoFar'
  <2>1. terminal' = "passed" => terminal = "passed"
    BY <1>6 DEF Verify!FailedState
  <2>2. halted' => terminal' # "passed"
    BY <1>1, <1>6 DEF Verify!FailedState
  <2> QED
    BY <1>1, <1>8, <2>1, <2>2 DEF Verify!VerifyInv, Verify!SummarySoFar
<1>18. Verify!StopsAtTheFirst' /\ Verify!SessionsEnd'
  BY <1>1, <1>13 DEF Verify!VerifyInv, Verify!StopsAtTheFirst, Verify!SessionsEnd
<1>19. Verify!CancelStops' /\ Verify!CancelIsNoticed'
  BY <1>1, <1>5 DEF Verify!CancelStops, Verify!CancelIsNoticed
<1> QED
  BY <1>7, <1>9, <1>16, <1>17, <1>18, <1>19 DEF Verify!VerifyInv

\* A step gets its line, and the summary follows it.
LEMMA LineKeeps ==
  ASSUME Verify!VerifyInv, NEW st \in Verify!States, Verify!Record(st), Verify!NextStep, Verify!InCase, s <= cases[c],
         cases' = cases, stop' = stop, cancelled' = cancelled, passed' = passed, failed' = failed, late' = late,
         left' \in [actions : 0..MaxActions, expect : 0..MaxExpect, bad : BOOLEAN],
         done' \in 0..MaxActions, done' + left'.actions <= MaxActions, count' \in 0..(YieldActions - 1),
         session' \in {"none", "live", "latched"}, halted' \in BOOLEAN,
         terminal' \in {"passed", "failed", "error", "timed_out", "cancelled"},
         terminal \in Verify!Worse => terminal' \in Verify!Worse,
         st = "not_run" \/ (stop => ~\E i \in DOMAIN steps : Verify!Bad(steps[i].state)),
         st = "failed" <=> phase = "act" /\ left.bad,
         st = "error" => terminal' \in Verify!Worse,
         terminal' = "passed" => terminal = "passed" /\ st = "passed",
         terminal' = "failed" => terminal = "failed",
         halted => halted', halted' => terminal' # "passed",
         stop /\ (Verify!Bad(st) \/ session' = "latched") => halted',
         late # 0 => halted'
  PROVE  Verify!VerifyInv'
<1>0. Verify!TypeOK
  BY DEF Verify!VerifyInv
<1>1. /\ steps' \in Seq(StepLine) /\ \A i \in DOMAIN steps' : steps'[i].step <= cases'[steps'[i].case]
      /\ c' = c /\ c <= NumCases /\ s' = s + 1 /\ s' \in 1..(MaxSteps + 1) /\ s' <= cases[c] + 1
      /\ phase' = "step"
      /\ Verify!EveryStepOnce' /\ Verify!LinesAreBehind' /\ Verify!OnlyErrorsLeaveOut'
      /\ stop' => \A i, j \in DOMAIN steps' :
           i < j /\ Verify!Bad(steps'[i].state) => steps'[j].state = "not_run"
      /\ \A t : (\E i \in DOMAIN steps' : steps'[i].state = t) <=>
           (\E i \in DOMAIN steps : steps[i].state = t) \/ t = st
  BY RecordKeeps
<1>2. Verify!TypeOK'
  BY <1>0, <1>1 DEF Verify!TypeOK, StepLine
<1>3. Verify!PlaceIsInside'
  BY <1>1 DEF Verify!PlaceIsInside, Verify!InCase, Verify!AtStep
<1>4. Verify!FailuresAreTold'
  <2> DEFINE told == \E i \in DOMAIN steps : steps[i].state = "failed"
             toldn == \E i \in DOMAIN steps' : steps'[i].state = "failed"
             under == phase = "act" /\ left.bad
             wrong == failed > 0
  <2>1. (wrong <=> told \/ under) /\ (terminal = "failed" => wrong)
    BY DEF Verify!VerifyInv, Verify!FailuresAreTold
  <2>2. toldn <=> told \/ st = "failed"
    BY <1>1
  <2>3. st = "failed" <=> under
    OBVIOUS
  <2> HIDE DEF told, toldn, under, wrong
  <2>4. (wrong <=> toldn) /\ (terminal' = "failed" => wrong)
    BY <2>1, <2>2, <2>3
  <2> QED
    BY <1>1, <2>4 DEF toldn, wrong, Verify!FailuresAreTold, Verify!AtStep
<1>5. Verify!SummarySoFar'
  <2>1. (\E i \in DOMAIN steps' : steps'[i].state = "error") => terminal' \in Verify!Worse
    BY <1>1 DEF Verify!VerifyInv, Verify!SummarySoFar
  <2>2. ASSUME terminal' = "passed", NEW i \in DOMAIN steps' PROVE steps'[i].state = "passed"
    <3>1. (\E k \in DOMAIN steps : steps[k].state = steps'[i].state) \/ steps'[i].state = st
      BY <1>1
    <3> QED
      BY <2>2, <3>1 DEF Verify!VerifyInv, Verify!SummarySoFar
  <2> QED
    BY <2>1, <2>2 DEF Verify!SummarySoFar, Verify!Worse
<1>6. Verify!HaltedIsOver' /\ Verify!StopsAtTheFirst'
  <2>1. stop /\ (\E i \in DOMAIN steps' : Verify!Bad(steps'[i].state)) => halted'
    BY <1>1 DEF Verify!VerifyInv, Verify!HaltedIsOver, Verify!Bad
  <2>2. ~Verify!AtStep'
    BY <1>1 DEF Verify!AtStep
  <2>3. Verify!HaltedIsOver'
    BY <1>1, <2>1, <2>2 DEF Verify!HaltedIsOver, Verify!Bad
  <2>4. Verify!StopsAtTheFirst'
    BY <1>1 DEF Verify!StopsAtTheFirst, Verify!Bad
  <2> QED
    BY <2>3, <2>4
<1>7. Verify!SessionsEnd' /\ Verify!CancelStops' /\ Verify!CancelIsNoticed'
  BY <1>1 DEF Verify!VerifyInv, Verify!SessionsEnd, Verify!CancelStops, Verify!CancelIsNoticed
<1> QED
  BY <1>1, <1>2, <1>3, <1>4, <1>5, <1>6, <1>7 DEF Verify!VerifyInv

\* A step is skipped, refused, cut short or finished.
LEMMA StepEndKeeps ==
  ASSUME Verify!VerifyInv, Verify!SkipStep \/ Verify!Refused \/ Verify!Cancelled \/ Verify!TimedOut \/ Verify!FinishStep
  PROVE  Verify!VerifyInv'
<1>0. Verify!TypeOK
  BY DEF Verify!VerifyInv
<1>1. /\ cases' = cases /\ stop' = stop /\ cancelled' = cancelled
      /\ passed' = passed /\ failed' = failed /\ late' = late /\ Verify!NextStep
  BY DEF Verify!SkipStep, Verify!Refused, Verify!RefusedEnds, Verify!Cancelled, Verify!TimedOut, Verify!Cut,
     Verify!FinishStep, Verify!inputs
<1>2. /\ left \in [actions : 0..MaxActions, expect : 0..MaxExpect, bad : BOOLEAN]
      /\ done \in 0..MaxActions /\ done + left.actions <= MaxActions /\ count \in 0..(YieldActions - 1)
      /\ session \in {"none", "live", "latched"} /\ halted \in BOOLEAN
      /\ terminal \in {"passed", "failed", "error", "timed_out", "cancelled"}
  BY DEF Verify!VerifyInv, Verify!TypeOK, Verify!PlaceIsInside
<1>3. /\ session = "latched" /\ stop => halted
      /\ halted => terminal # "passed"
      /\ late # 0 /\ phase \notin {"yielding", "check"} => halted
  BY DEF Verify!VerifyInv, Verify!StopsAtTheFirst, Verify!SummarySoFar, Verify!CancelIsNoticed
<1>4. ASSUME Verify!SkipStep PROVE Verify!VerifyInv'
  <2>1. /\ phase = "step" /\ halted /\ s <= cases[c] /\ Verify!Record("not_run")
        /\ left' = left /\ done' = done /\ count' = count
        /\ session' = session /\ halted' = halted /\ terminal' = terminal
    BY <1>4 DEF Verify!SkipStep
  <2>2. Verify!InCase
    BY <2>1 DEF Verify!InCase
  <2> QED
    BY <1>1, <1>2, <1>3, <2>1, <2>2, LineKeeps DEF Verify!States, Verify!Bad
<1>5. ASSUME Verify!Refused PROVE Verify!VerifyInv'
  <2>1. /\ phase = "act" /\ left.actions > 0 /\ Verify!Record("error") /\ session' = "latched"
        /\ halted' = (halted \/ stop) /\ terminal' = "error" /\ Verify!Counted /\ Verify!Took
    BY <1>5 DEF Verify!Refused, Verify!RefusedEnds
  <2>2. Verify!AtStep /\ Verify!InCase
    BY <2>1 DEF Verify!InCase, Verify!AtStep
  <2>3. /\ ~left.bad /\ ~halted /\ s <= cases[c] /\ late = 0
        /\ stop => ~\E i \in DOMAIN steps : Verify!Bad(steps[i].state)
    BY <2>1, <2>2, StepRuns
  <2>4. /\ left' \in [actions : 0..MaxActions, expect : 0..MaxExpect, bad : BOOLEAN]
        /\ done' \in 0..MaxActions /\ done' + left'.actions <= MaxActions /\ count' \in 0..(YieldActions - 1)
    BY <2>1, ActionCounts
  <2>5. halted' = stop /\ stop \in BOOLEAN /\ late' = 0
    BY <1>0, <1>1, <2>1, <2>3 DEF Verify!TypeOK
  <2> QED
    BY <1>1, <2>1, <2>2, <2>3, <2>4, <2>5, LineKeeps DEF Verify!States, Verify!Bad, Verify!Worse
<1>6. ASSUME Verify!Cancelled \/ Verify!TimedOut PROVE Verify!VerifyInv'
  <2>1. /\ phase = "check" /\ Verify!Record("not_run") /\ halted' = TRUE /\ terminal' \in {"cancelled", "timed_out"}
        /\ left' = left /\ done' = done /\ count' = count /\ session' = session
    BY <1>6 DEF Verify!Cancelled, Verify!TimedOut, Verify!Cut
  <2>2. Verify!AtStep /\ Verify!InCase
    BY <2>1 DEF Verify!InCase, Verify!AtStep
  <2>3. ~left.bad /\ s <= cases[c]
    BY <2>1, <2>2, StepRuns
  <2> QED
    BY <1>1, <1>2, <2>1, <2>2, <2>3, LineKeeps DEF Verify!States, Verify!Bad, Verify!Worse
<1>7. ASSUME Verify!FinishStep PROVE Verify!VerifyInv'
  <2>1. /\ phase = "act" /\ left.actions = 0 /\ Verify!Record(Verify!Verdict)
        /\ left' = left /\ done' = done /\ count' = count
        /\ session' = session /\ halted' = halted /\ terminal' = terminal
    BY <1>7 DEF Verify!FinishStep
  <2>2. Verify!AtStep /\ Verify!InCase
    BY <2>1 DEF Verify!InCase, Verify!AtStep
  <2>3. s <= cases[c]
    BY <2>2 DEF Verify!VerifyInv, Verify!PlaceIsInside
  <2>4. stop => ~\E i \in DOMAIN steps : Verify!Bad(steps[i].state)
    BY <2>2 DEF Verify!VerifyInv, Verify!HaltedIsOver
  <2> DEFINE b == left.bad
             st == Verify!Verdict
  <2>5. b \in BOOLEAN /\ (b => terminal # "passed") /\ (stop /\ b => halted)
    BY <1>2, <2>2 DEF Verify!VerifyInv, Verify!FailuresAreTold, Verify!HaltedIsOver
  <2>6. st = IF b THEN "failed" ELSE "passed"
    BY DEF Verify!Verdict
  <2>7. st = "failed" <=> phase = "act" /\ left.bad
    <3>1. st = "failed" <=> b
      <4> HIDE DEF b, st
      <4> QED
        BY <2>5, <2>6
    <3> QED
      BY <2>1, <3>1
  <2>8. Verify!Record(st)
    BY <2>1
  <2> HIDE DEF b, st
  <2>9. /\ st \in {"failed", "passed"} /\ (st = "failed" => terminal # "passed") /\ (stop /\ st = "failed" => halted)
    BY <2>5, <2>6
  <2>10. late' # 0 => halted'
    BY <1>1, <1>3, <2>1
  <2> QED
    BY <1>1, <1>2, <1>3, <2>1, <2>2, <2>3, <2>4, <2>7, <2>8, <2>9, <2>10, LineKeeps DEF Verify!States, Verify!Bad
<1> QED
  BY <1>4, <1>5, <1>6, <1>7

\* A case that throws is over; what it leaves without a line is told by the end of the run.
LEMMA ThrowKeeps ==
  ASSUME Verify!VerifyInv, Verify!CreateThrows \/ Verify!ResetThrows PROVE Verify!VerifyInv'
<1>0. Verify!TypeOK
  BY DEF Verify!VerifyInv
<1> DEFINE more == Verify!SetToSeq({Verify!Line(c, i, "error") : i \in Verify!FirstUnrecorded})
<1>1. /\ phase \in {"creating", "resetting"} /\ terminal' = "error" /\ steps' = steps \o more /\ halted' = stop
      /\ c' = c + 1 /\ s' = 1 /\ phase' = "case" /\ session' = "none"
      /\ cases' = cases /\ stop' = stop /\ cancelled' = cancelled /\ left' = left /\ done' = done
      /\ count' = count /\ passed' = passed /\ failed' = failed /\ late' = late
  BY DEF Verify!CreateThrows, Verify!ResetThrows, Verify!Caught, Verify!NextCase, Verify!inputs
<1>2. /\ more \in Seq(StepLine) /\ Len(more) <= 1 /\ c \in 1..NumCases
      /\ \A j \in DOMAIN more : /\ more[j].case = c /\ more[j].step <= cases[c] /\ more[j].state = "error"
                                /\ ~Verify!IsRecorded(c, more[j].step)
  BY <1>1, CaughtWrites
<1> HIDE DEF more
<1>3. /\ stop => ~\E i \in DOMAIN steps : Verify!Bad(steps[i].state)
      /\ ~halted /\ late = 0 /\ ~(phase = "act")
  BY <1>1 DEF Verify!VerifyInv, Verify!HaltedIsOver, Verify!CancelIsNoticed, Verify!AtStep
<1>4. /\ steps' \in Seq(StepLine)
      /\ \A i \in DOMAIN steps' :
           \/ i \in DOMAIN steps /\ steps'[i] = steps[i]
           \/ i - Len(steps) \in DOMAIN more /\ steps'[i] = more[i - Len(steps)]
      /\ \A p, q : Verify!IsRecorded(p, q)' <=>
           Verify!IsRecorded(p, q) \/ \E j \in DOMAIN more : more[j].case = p /\ more[j].step = q
      /\ \A t : (\E i \in DOMAIN steps' : steps'[i].state = t) <=>
           (\E i \in DOMAIN steps : steps[i].state = t) \/ \E j \in DOMAIN more : more[j].state = t
  BY <1>0, <1>1, <1>2, LinesGrow
<1>5. /\ \A i \in DOMAIN steps' : steps'[i].step <= cases'[steps'[i].case]
      /\ \A i, j \in DOMAIN steps' :
           steps'[i].case = steps'[j].case /\ steps'[i].step = steps'[j].step => i = j
      /\ stop' => \A i, j \in DOMAIN steps' :
           i < j /\ Verify!Bad(steps'[i].state) => steps'[j].state = "not_run"
  <2>1. \A j, k \in DOMAIN more : j = k
    <3>1. \A j, k \in 1..Len(more) : j = k
      BY <1>2
    <3> QED
      BY <1>2, <3>1
  <2> QED
    BY <1>1, <1>2, <1>3, <2>1, ReportGrows
<1>6. c \in Nat /\ 1 \in 1..(MaxSteps + 1) /\ c + 1 \in 1..(NumCases + 1)
  BY <1>2, VerificationAssumption
<1>7. Verify!TypeOK'
  BY <1>0, <1>1, <1>4, <1>5, <1>6 DEF Verify!TypeOK, StepLine
<1>8. Verify!EveryStepOnce' /\ Verify!StopsAtTheFirst' /\ Verify!SessionsEnd'
  BY <1>1, <1>5 DEF Verify!EveryStepOnce, Verify!StopsAtTheFirst, Verify!SessionsEnd
<1>9. Verify!PlaceIsInside'
  BY <1>1 DEF Verify!VerifyInv, Verify!PlaceIsInside, Verify!InCase, Verify!AtStep
<1>10. Verify!LinesAreBehind'
  <2>1. \A i \in DOMAIN steps : steps[i].case < c + 1
    BY <1>0, <1>6, VerifyTypes DEF Verify!VerifyInv, Verify!LinesAreBehind
  <2>2. \A i \in DOMAIN steps' : steps'[i].case < c + 1
    BY <1>2, <1>4, <1>6, <2>1
  <2> QED
    BY <1>1, <2>2 DEF Verify!LinesAreBehind, Verify!InCase, Verify!AtStep
<1>11. Verify!OnlyErrorsLeaveOut'
  BY <1>1 DEF Verify!OnlyErrorsLeaveOut, Verify!Worse
<1>12. Verify!FailuresAreTold'
  <2>1. (\E i \in DOMAIN steps' : steps'[i].state = "failed") <=> \E i \in DOMAIN steps : steps[i].state = "failed"
    <3>1. ~\E j \in DOMAIN more : more[j].state = "failed"
      BY <1>2
    <3> QED
      BY <1>4, <3>1
  <2>2. failed > 0 <=> \E i \in DOMAIN steps : steps[i].state = "failed"
    BY <1>3 DEF Verify!VerifyInv, Verify!FailuresAreTold
  <2> QED
    BY <1>1, <2>1, <2>2 DEF Verify!FailuresAreTold, Verify!AtStep
<1>13. Verify!SummarySoFar' /\ Verify!HaltedIsOver'
  BY <1>1 DEF Verify!SummarySoFar, Verify!HaltedIsOver, Verify!Worse, Verify!AtStep
<1>14. Verify!CancelStops' /\ Verify!CancelIsNoticed'
  BY <1>1, <1>3 DEF Verify!CancelStops, Verify!CancelIsNoticed
<1> QED
  BY <1>7, <1>8, <1>9, <1>10, <1>11, <1>12, <1>13, <1>14 DEF Verify!VerifyInv

\* A run that stopped says of the steps of a case that they have not run.
LEMMA SkipCaseKeeps == Verify!VerifyInv /\ Verify!SkipCase => Verify!VerifyInv'
<1> SUFFICES ASSUME Verify!VerifyInv, Verify!SkipCase PROVE Verify!VerifyInv'
  OBVIOUS
<1>0. Verify!TypeOK
  BY DEF Verify!VerifyInv
<1> DEFINE more == Verify!NotRun(c)
<1>1. /\ phase = "case" /\ phase' = "case" /\ c <= NumCases /\ halted /\ steps' = steps \o more /\ c' = c + 1
      /\ s' = s /\ session' = session /\ halted' = halted /\ terminal' = terminal
      /\ cases' = cases /\ stop' = stop /\ cancelled' = cancelled /\ left' = left /\ done' = done
      /\ count' = count /\ passed' = passed /\ failed' = failed /\ late' = late
  BY DEF Verify!SkipCase, Verify!inputs
<1>2. c \in 1..NumCases /\ c \in Nat /\ cases[c] \in Nat /\ cases[c] <= MaxSteps
  BY <1>0, <1>1, VerifyTypes, VerificationAssumption
<1>3. /\ more \in Seq(StepLine) /\ DOMAIN more = 1..cases[c]
      /\ \A j \in DOMAIN more : more[j].case = c /\ more[j].step = j /\ more[j].state = "not_run"
  <2>1. \A j \in 1..cases[c] : Verify!Line(c, j, "not_run") \in StepLine
    BY <1>2, VerificationAssumption DEF Verify!Line, StepLine, Verify!States
  <2> QED
    BY <1>2, <2>1 DEF Verify!NotRun, Verify!Line
<1> HIDE DEF more
<1>4. \A q : ~Verify!IsRecorded(c, q)
  BY <1>0, <1>1, <1>2, VerifyTypes
     DEF Verify!VerifyInv, Verify!LinesAreBehind, Verify!InCase, Verify!AtStep, Verify!IsRecorded
<1>5. /\ steps' \in Seq(StepLine)
      /\ \A i \in DOMAIN steps' :
           \/ i \in DOMAIN steps /\ steps'[i] = steps[i]
           \/ i - Len(steps) \in DOMAIN more /\ steps'[i] = more[i - Len(steps)]
      /\ \A p, q : Verify!IsRecorded(p, q)' <=>
           Verify!IsRecorded(p, q) \/ \E j \in DOMAIN more : more[j].case = p /\ more[j].step = q
      /\ \A t : (\E i \in DOMAIN steps' : steps'[i].state = t) <=>
           (\E i \in DOMAIN steps : steps[i].state = t) \/ \E j \in DOMAIN more : more[j].state = t
  BY <1>0, <1>1, <1>3, LinesGrow
<1>6. /\ \A i \in DOMAIN steps' : steps'[i].step <= cases'[steps'[i].case]
      /\ \A i, j \in DOMAIN steps' :
           steps'[i].case = steps'[j].case /\ steps'[i].step = steps'[j].step => i = j
      /\ stop' => \A i, j \in DOMAIN steps' :
           i < j /\ Verify!Bad(steps'[i].state) => steps'[j].state = "not_run"
  <2>1. \A j \in DOMAIN more : more[j].step <= cases[more[j].case] /\ ~Verify!IsRecorded(more[j].case, more[j].step)
    BY <1>2, <1>3, <1>4
  <2>2. \A j, k \in DOMAIN more : more[j].case = more[k].case /\ more[j].step = more[k].step => j = k
    BY <1>3
  <2>3. \A j \in DOMAIN more : more[j].state = "not_run"
    BY <1>3
  <2> QED
    BY <1>1, <1>3, <2>1, <2>2, <2>3, ReportGrows
<1>7. Verify!TypeOK'
  <2>1. c' \in 1..(NumCases + 1)
    BY <1>1, <1>2, VerificationAssumption
  <2> QED
    BY <1>0, <1>1, <1>5, <1>6, <2>1 DEF Verify!TypeOK, StepLine
<1>8. Verify!EveryStepOnce' /\ Verify!StopsAtTheFirst' /\ Verify!SessionsEnd'
  BY <1>1, <1>6 DEF Verify!VerifyInv, Verify!EveryStepOnce, Verify!StopsAtTheFirst, Verify!SessionsEnd
<1>9. Verify!PlaceIsInside'
  BY <1>1 DEF Verify!VerifyInv, Verify!PlaceIsInside, Verify!InCase, Verify!AtStep
<1>10. Verify!LinesAreBehind'
  <2>1. \A i \in DOMAIN steps : steps[i].case < c + 1
    BY <1>0, <1>2, VerifyTypes DEF Verify!VerifyInv, Verify!LinesAreBehind
  <2>2. \A i \in DOMAIN steps' : steps'[i].case < c + 1
    BY <1>2, <1>3, <1>5, <2>1
  <2> QED
    BY <1>1, <2>2 DEF Verify!LinesAreBehind, Verify!InCase, Verify!AtStep
<1>11. Verify!OnlyErrorsLeaveOut'
  <2>1. \A p, q : (\E i \in DOMAIN steps' : steps'[i].case = p /\ steps'[i].step = q) <=>
           Verify!IsRecorded(p, q) \/ \E j \in DOMAIN more : more[j].case = p /\ more[j].step = q
    BY <1>5 DEF Verify!IsRecorded
  <2>2. \A q \in 1..cases[c] : \E j \in DOMAIN more : more[j].case = c /\ more[j].step = q
    BY <1>3
  <2>3. ASSUME NEW q \in 1..cases[c] PROVE \E i \in DOMAIN steps' : steps'[i].case = c /\ steps'[i].step = q
    <3>1. (\E i \in DOMAIN steps' : steps'[i].case = c /\ steps'[i].step = q) <=>
           Verify!IsRecorded(c, q) \/ \E j \in DOMAIN more : more[j].case = c /\ more[j].step = q
      BY <2>1
    <3> QED
      BY <2>2, <3>1
  <2>4. \A i \in 1..NumCases : i < c + 1 => i < c \/ i = c
    BY <1>2
  <2>5. \A i \in 1..NumCases : i < c => \A k \in 1..cases[i] : Verify!IsRecorded(i, k) \/ terminal \in Verify!Worse
    BY DEF Verify!VerifyInv, Verify!OnlyErrorsLeaveOut
  <2>6. ASSUME NEW i \in 1..NumCases, i < c + 1, NEW k \in 1..cases[i]
        PROVE  (\E j \in DOMAIN steps' : steps'[j].case = i /\ steps'[j].step = k) \/ terminal \in Verify!Worse
    BY <2>1, <2>3, <2>4, <2>5, <2>6
  <2> QED
    BY <1>1, <2>6 DEF Verify!OnlyErrorsLeaveOut, Verify!IsRecorded, Verify!Worse
<1>12. ASSUME NEW t, t # "not_run"
       PROVE  (\E i \in DOMAIN steps' : steps'[i].state = t) <=> \E i \in DOMAIN steps : steps[i].state = t
  <2>1. ~\E j \in DOMAIN more : more[j].state = t
    BY <1>3, <1>12
  <2> QED
    BY <1>5, <2>1
<1>13. Verify!FailuresAreTold'
  BY <1>1, <1>12 DEF Verify!VerifyInv, Verify!FailuresAreTold, Verify!AtStep
<1>14. Verify!SummarySoFar'
  BY <1>1, <1>12 DEF Verify!VerifyInv, Verify!SummarySoFar
<1>15. Verify!HaltedIsOver'
  BY <1>1 DEF Verify!HaltedIsOver, Verify!AtStep
<1>16. Verify!CancelStops' /\ Verify!CancelIsNoticed'
  BY <1>1 DEF Verify!VerifyInv, Verify!CancelStops, Verify!CancelIsNoticed
<1> QED
  BY <1>7, <1>8, <1>9, <1>10, <1>11, <1>13, <1>14, <1>15, <1>16 DEF Verify!VerifyInv

\* The end: every step without a line gets one, and none is missing from a run that passed.
LEMMA FinishKeeps == Verify!VerifyInv /\ Verify!Finish => Verify!VerifyInv'
<1> SUFFICES ASSUME Verify!VerifyInv, Verify!Finish PROVE Verify!VerifyInv'
  OBVIOUS
<1>0. Verify!TypeOK
  BY DEF Verify!VerifyInv
<1> DEFINE U == Verify!Unrecorded
           n == Verify!Cardinality(U)
           more == [i \in 1..n |-> Verify!Line(Verify!Missing(i)[1], Verify!Missing(i)[2], "not_run")]
<1>1. /\ phase = "case" /\ phase' = "done" /\ c > NumCases /\ steps' = steps \o more /\ c' = c
      /\ s' = s /\ session' = session /\ halted' = halted /\ terminal' = terminal
      /\ cases' = cases /\ stop' = stop /\ cancelled' = cancelled /\ left' = left /\ done' = done
      /\ count' = count /\ passed' = passed /\ failed' = failed /\ late' = late
  BY DEF Verify!Finish, Verify!inputs, Verify!place
<1>2. c = NumCases + 1
  BY <1>0, <1>1, VerifyTypes, VerificationAssumption
<1>3. /\ n \in Nat /\ \A i \in 1..n : Verify!Missing(i) \in U
      /\ \A i, j \in 1..n : Verify!Missing(i) = Verify!Missing(j) => i = j
      /\ \A p \in U : \E i \in 1..n : Verify!Missing(i) = p
  BY <1>0, MissingAreAll, SameCountVerify
<1>4. /\ U \subseteq (1..NumCases) \X (1..MaxSteps)
      /\ \A p \in U : p[2] <= cases[p[1]] /\ ~Verify!IsRecorded(p[1], p[2])
      /\ \A p \in (1..NumCases) \X (1..MaxSteps) : p[2] <= cases[p[1]] => p \in U \/ Verify!IsRecorded(p[1], p[2])
  BY DEF Verify!Unrecorded
<1> HIDE DEF U, n
<1>5. /\ DOMAIN more = 1..n /\ more \in Seq(StepLine)
      /\ \A j \in 1..n : /\ more[j].case = Verify!Missing(j)[1] /\ more[j].step = Verify!Missing(j)[2]
                         /\ more[j].state = "not_run"
  <2>1. \A j \in 1..n : Verify!Line(Verify!Missing(j)[1], Verify!Missing(j)[2], "not_run") \in StepLine
    BY <1>3, <1>4 DEF Verify!Line, StepLine, Verify!States
  <2> QED
    BY <1>3, <2>1 DEF Verify!Line
<1> HIDE DEF more
<1>6. \A p \in U : p = <<p[1], p[2]>>
  BY <1>4
<1>7. /\ steps' \in Seq(StepLine)
      /\ \A i \in DOMAIN steps' :
           \/ i \in DOMAIN steps /\ steps'[i] = steps[i]
           \/ i - Len(steps) \in DOMAIN more /\ steps'[i] = more[i - Len(steps)]
      /\ \A p, q : Verify!IsRecorded(p, q)' <=>
           Verify!IsRecorded(p, q) \/ \E j \in DOMAIN more : more[j].case = p /\ more[j].step = q
      /\ \A t : (\E i \in DOMAIN steps' : steps'[i].state = t) <=>
           (\E i \in DOMAIN steps : steps[i].state = t) \/ \E j \in DOMAIN more : more[j].state = t
  BY <1>0, <1>1, <1>5, LinesGrow
<1>8. /\ \A i \in DOMAIN steps' : steps'[i].step <= cases'[steps'[i].case]
      /\ \A i, j \in DOMAIN steps' :
           steps'[i].case = steps'[j].case /\ steps'[i].step = steps'[j].step => i = j
      /\ stop' => \A i, j \in DOMAIN steps' :
           i < j /\ Verify!Bad(steps'[i].state) => steps'[j].state = "not_run"
  <2>1. \A j \in DOMAIN more : more[j].step <= cases[more[j].case] /\ ~Verify!IsRecorded(more[j].case, more[j].step)
    BY <1>3, <1>4, <1>5
  <2>2. ASSUME NEW j \in DOMAIN more, NEW k \in DOMAIN more, more[j].case = more[k].case, more[j].step = more[k].step
        PROVE  j = k
    <3>1. Verify!Missing(j) = Verify!Missing(k)
      BY <1>3, <1>5, <1>6, <2>2
    <3> QED
      BY <1>3, <1>5, <3>1
  <2>3. \A j \in DOMAIN more : more[j].state = "not_run"
    BY <1>5
  <2> QED
    BY <1>1, <1>5, <2>1, <2>2, <2>3, ReportGrows
<1>9. Verify!TypeOK'
  BY <1>0, <1>1, <1>7, <1>8 DEF Verify!TypeOK, StepLine
<1>10. Verify!EveryStepOnce'
  <2>1. ASSUME NEW i \in 1..NumCases, NEW k \in 1..cases[i]
        PROVE  \E j \in DOMAIN steps' : steps'[j].case = i /\ steps'[j].step = k
    <3>1. (\E j \in DOMAIN steps' : steps'[j].case = i /\ steps'[j].step = k) <=>
             Verify!IsRecorded(i, k) \/ \E j \in DOMAIN more : more[j].case = i /\ more[j].step = k
      <4>1. \A p, q : (\E j \in DOMAIN steps' : steps'[j].case = p /\ steps'[j].step = q) <=>
              Verify!IsRecorded(p, q) \/ \E j \in DOMAIN more : more[j].case = p /\ more[j].step = q
        BY <1>7 DEF Verify!IsRecorded
      <4> QED
        BY <4>1
    <3>2. k \in 1..MaxSteps /\ k <= cases[i]
      BY <1>0, VerifyTypes, VerificationAssumption
    <3> DEFINE p == <<i, k>>
    <3>3. p \in (1..NumCases) \X (1..MaxSteps) /\ p[1] = i /\ p[2] = k
      BY <3>2
    <3> HIDE DEF p
    <3>4. p \in U \/ Verify!IsRecorded(i, k)
      BY <1>4, <3>2, <3>3
    <3>5. p \in U => \E j \in 1..n : Verify!Missing(j) = p
      BY <1>3
    <3> QED
      BY <1>5, <3>1, <3>3, <3>4, <3>5
  <2> QED
    BY <1>1, <1>8, <2>1 DEF Verify!EveryStepOnce, Verify!IsRecorded
<1>11. Verify!StopsAtTheFirst' /\ Verify!SessionsEnd'
  BY <1>1, <1>8 DEF Verify!VerifyInv, Verify!StopsAtTheFirst, Verify!SessionsEnd
<1>12. Verify!PlaceIsInside'
  BY <1>1, <1>2 DEF Verify!VerifyInv, Verify!PlaceIsInside, Verify!InCase, Verify!AtStep
<1>13. Verify!LinesAreBehind'
  <2>1. \A i \in DOMAIN steps' : steps'[i].case < c
    <3>1. \A l \in StepLine : l.case < c
      BY <1>2, VerificationAssumption DEF StepLine
    <3> QED
      BY <1>7, <3>1
  <2> QED
    BY <1>1, <2>1 DEF Verify!LinesAreBehind, Verify!InCase, Verify!AtStep
<1>14. Verify!OnlyErrorsLeaveOut'
  BY <1>1, <1>10 DEF Verify!EveryStepOnce, Verify!OnlyErrorsLeaveOut
<1>15. ASSUME NEW t, t # "not_run"
       PROVE  (\E i \in DOMAIN steps' : steps'[i].state = t) <=> \E i \in DOMAIN steps : steps[i].state = t
  <2>1. ~\E j \in DOMAIN more : more[j].state = t
    BY <1>5, <1>15
  <2> QED
    BY <1>7, <2>1
<1>16. Verify!FailuresAreTold'
  BY <1>1, <1>15 DEF Verify!VerifyInv, Verify!FailuresAreTold, Verify!AtStep
<1>17. Verify!SummarySoFar'
  <2>1. (\E i \in DOMAIN steps' : steps'[i].state = "error") => terminal' \in Verify!Worse
    BY <1>1, <1>15 DEF Verify!VerifyInv, Verify!SummarySoFar
  <2>2. ASSUME terminal' = "passed", NEW i \in DOMAIN steps' PROVE steps'[i].state = "passed"
    <3>1. U = {}
      <4> SUFFICES ASSUME NEW p \in U PROVE FALSE
        OBVIOUS
      <4>1. p[1] \in 1..NumCases /\ p[2] \in 1..MaxSteps /\ p[2] <= cases[p[1]] /\ ~Verify!IsRecorded(p[1], p[2])
        BY <1>4
      <4>2. p[1] < c /\ p[2] \in 1..cases[p[1]]
        BY <1>0, <1>2, <4>1, VerifyTypes, VerificationAssumption
      <4>3. terminal \in Verify!Worse
        BY <4>1, <4>2 DEF Verify!VerifyInv, Verify!OnlyErrorsLeaveOut
      <4> QED
        BY <1>1, <2>2, <4>3 DEF Verify!Worse
    <3>2. DOMAIN more = {}
      BY <1>3, <1>5, <3>1
    <3>3. i \in DOMAIN steps /\ steps'[i] = steps[i]
      BY <1>7, <3>2
    <3> QED
      BY <1>1, <2>2, <3>3 DEF Verify!VerifyInv, Verify!SummarySoFar
  <2>3. halted' => terminal' # "passed"
    BY <1>1 DEF Verify!VerifyInv, Verify!SummarySoFar
  <2> QED
    BY <2>1, <2>2, <2>3 DEF Verify!SummarySoFar, Verify!Worse
<1>18. Verify!HaltedIsOver'
  <2>1. stop /\ (\E i \in DOMAIN steps' : Verify!Bad(steps'[i].state)) =>
          \E i \in DOMAIN steps : Verify!Bad(steps[i].state)
    <3>1. /\ (\E i \in DOMAIN steps' : steps'[i].state = "failed") <=> \E i \in DOMAIN steps : steps[i].state = "failed"
          /\ (\E i \in DOMAIN steps' : steps'[i].state = "error") <=> \E i \in DOMAIN steps : steps[i].state = "error"
      BY <1>15
    <3> QED
      BY <3>1 DEF Verify!Bad
  <2> QED
    BY <1>1, <2>1 DEF Verify!VerifyInv, Verify!HaltedIsOver, Verify!AtStep, Verify!Bad
<1>19. Verify!CancelStops' /\ Verify!CancelIsNoticed'
  BY <1>1 DEF Verify!VerifyInv, Verify!CancelStops, Verify!CancelIsNoticed
<1> QED
  BY <1>9, <1>10, <1>11, <1>12, <1>13, <1>14, <1>16, <1>17, <1>18, <1>19 DEF Verify!VerifyInv

\* A run begins with an empty report.
LEMMA VerifyStarts == Verify!Init => Verify!VerifyInv
<1> SUFFICES ASSUME Verify!Init PROVE Verify!VerifyInv
  OBVIOUS
<1>1. /\ cancelled = FALSE /\ phase = "case" /\ c = 1 /\ s = 1
      /\ left = [actions |-> 0, expect |-> 0, bad |-> FALSE] /\ done = 0 /\ count = 0
      /\ session = "none" /\ halted = FALSE /\ terminal = "passed"
      /\ steps = <<>> /\ passed = 0 /\ failed = 0 /\ late = 0
  BY DEF Verify!Init
<1>2. steps \in Seq(StepLine) /\ DOMAIN steps = {}
  BY <1>1
<1>3. Verify!TypeOK
  <2>1. 0 \in 0..MaxActions /\ 0 \in 0..MaxExpect /\ 1 \in 1..(NumCases + 1) /\ 1 \in 1..(MaxSteps + 1)
        /\ 0 \in 0..(YieldActions - 1)
    BY VerificationAssumption
  <2>2. steps \in Seq([case : 1..NumCases, step : 1..MaxSteps, state : Verify!States])
    BY <1>2 DEF StepLine
  <2>3. /\ cases \in [1..NumCases -> 0..MaxSteps] /\ \E i \in 1..NumCases : cases[i] > 0
        /\ stop \in BOOLEAN
    BY DEF Verify!Init
  <2>4. left \in [actions : 0..MaxActions, expect : 0..MaxExpect, bad : BOOLEAN]
    BY <1>1, <2>1
  <2> QED
    BY <1>1, <1>2, <2>1, <2>2, <2>3, <2>4 DEF Verify!TypeOK
<1>4. Verify!PlaceIsInside
  BY <1>1, VerificationAssumption DEF Verify!PlaceIsInside, Verify!InCase, Verify!AtStep
<1>5. /\ Verify!EveryStepOnce /\ Verify!StopsAtTheFirst /\ Verify!SessionsEnd /\ Verify!CancelStops
      /\ Verify!LinesAreBehind /\ Verify!SummarySoFar /\ Verify!HaltedIsOver /\ Verify!CancelIsNoticed
  BY <1>1, <1>2 DEF Verify!EveryStepOnce, Verify!StopsAtTheFirst, Verify!SessionsEnd, Verify!CancelStops,
     Verify!LinesAreBehind, Verify!SummarySoFar, Verify!HaltedIsOver, Verify!CancelIsNoticed,
     Verify!InCase, Verify!AtStep
<1>6. Verify!FailuresAreTold /\ Verify!OnlyErrorsLeaveOut
  BY <1>1, <1>2 DEF Verify!FailuresAreTold, Verify!OnlyErrorsLeaveOut, Verify!AtStep
<1> QED
  BY <1>3, <1>4, <1>5, <1>6 DEF Verify!VerifyInv

\* A step of another component, or a run that is over, leaves the report alone.
LEMMA VerifyRests == Verify!VerifyInv /\ UNCHANGED verifyVars => Verify!VerifyInv'
<1> SUFFICES ASSUME Verify!VerifyInv, UNCHANGED verifyVars PROVE Verify!VerifyInv'
  OBVIOUS
<1>1. /\ cases' = cases /\ stop' = stop /\ cancelled' = cancelled /\ phase' = phase /\ c' = c /\ s' = s
      /\ left' = left /\ done' = done /\ count' = count /\ session' = session /\ halted' = halted
      /\ terminal' = terminal /\ steps' = steps /\ passed' = passed /\ failed' = failed /\ late' = late
  BY DEF verifyVars
<1>2. Verify!TypeOK'
  BY <1>1 DEF Verify!VerifyInv, Verify!TypeOK
<1>3. \A p, q : Verify!IsRecorded(p, q)' <=> Verify!IsRecorded(p, q)
  BY <1>1 DEF Verify!IsRecorded
<1>4. (Verify!InCase' <=> Verify!InCase) /\ (Verify!AtStep' <=> Verify!AtStep)
  BY <1>1 DEF Verify!InCase, Verify!AtStep
<1>5. Verify!EveryStepOnce' /\ Verify!LinesAreBehind' /\ Verify!OnlyErrorsLeaveOut'
  BY <1>1, <1>3, <1>4 DEF Verify!VerifyInv, Verify!EveryStepOnce, Verify!LinesAreBehind, Verify!OnlyErrorsLeaveOut
<1>6. Verify!StopsAtTheFirst' /\ Verify!SessionsEnd' /\ Verify!CancelStops' /\ Verify!CancelIsNoticed'
  BY <1>1 DEF Verify!VerifyInv, Verify!StopsAtTheFirst, Verify!SessionsEnd, Verify!CancelStops, Verify!CancelIsNoticed
<1>7. Verify!PlaceIsInside' /\ Verify!FailuresAreTold' /\ Verify!SummarySoFar' /\ Verify!HaltedIsOver'
  BY <1>1, <1>4 DEF Verify!VerifyInv, Verify!PlaceIsInside, Verify!FailuresAreTold, Verify!SummarySoFar,
     Verify!HaltedIsOver
<1> QED
  BY <1>2, <1>5, <1>6, <1>7 DEF Verify!VerifyInv

\* In a page whose run is a verification, its invariant holds.
VerifyHolds == component = "verification" => Verify!VerifyInv

\* The run keeps its invariant, and no other component touches its state.
LEMMA VerifyHoldsAlways == Spec => []VerifyHolds
<1>1. Init => VerifyHolds
  BY VerifyStarts DEF Init, VerifyHolds
<1>2. Verify!VerifyInv /\ Verify!Next => Verify!VerifyInv'
  <2>1. Verify!VerifyInv /\ Verify!Stopped => Verify!VerifyInv'
    BY VerifyRests DEF Verify!Stopped, Verify!vars, Verify!inputs, Verify!place, Verify!report, verifyVars
  <2> QED
    BY <2>1, SkipCaseKeeps, CaseKeeps, ThrowKeeps, StepEndKeeps, BeginStepKeeps, ActionKeeps, WaitKeeps,
       ExpectKeeps, FinishKeeps DEF Verify!Next, Verify!Runs
<1>3. VerifyHolds /\ [Next]_vars => VerifyHolds'
  BY <1>2, VerifyRests DEF VerifyHolds, Next, vars
<1> QED
  BY <1>1, <1>3, PTL DEF Spec

\* Once the report is written, its summary is that of its lines.
LEMMA SummaryTells == Verify!VerifyInv => Verify!SummaryIsTheSteps
<1> SUFFICES ASSUME Verify!VerifyInv, phase = "done" PROVE Verify!SummaryIsTheSteps
  BY DEF Verify!SummaryIsTheSteps
<1> DEFINE seen == {steps[i].state : i \in DOMAIN steps}
<1>1. seen \subseteq Verify!States
  BY VerifyTypes DEF Verify!VerifyInv
<1>2. seen # {}
  <2>1. PICK i \in 1..NumCases : cases[i] > 0
    BY DEF Verify!VerifyInv, Verify!TypeOK
  <2>2. 1 \in 1..cases[i]
    BY <2>1, VerifyTypes DEF Verify!VerifyInv
  <2>3. Verify!IsRecorded(i, 1)
    BY <2>2 DEF Verify!VerifyInv, Verify!EveryStepOnce
  <2> QED
    BY <2>3 DEF Verify!IsRecorded
<1>3. failed \in Nat /\ (failed > 0 <=> "failed" \in seen) /\ (terminal = "failed" => failed > 0)
  BY DEF Verify!VerifyInv, Verify!TypeOK, Verify!FailuresAreTold
<1>4. ("error" \in seen => terminal \in Verify!Worse) /\ (terminal = "passed" => seen \subseteq {"passed"})
  BY DEF Verify!VerifyInv, Verify!SummarySoFar
<1>5. Verify!SummaryIsTheSteps <=>
      /\ terminal = "passed" => seen = {"passed"} /\ failed = 0
      /\ terminal = "failed" => "failed" \in seen /\ seen \subseteq {"passed", "failed", "not_run"}
      /\ "error" \in seen => terminal \in {"error", "timed_out", "cancelled"}
      /\ "failed" \in seen <=> failed > 0
      /\ "not_run" \in seen => halted \/ terminal # "passed"
  BY DEF Verify!SummaryIsTheSteps
<1> HIDE DEF seen
<1>6. terminal = "passed" => seen = {"passed"} /\ failed = 0
  BY <1>2, <1>3, <1>4
<1>7. terminal = "failed" => "failed" \in seen /\ seen \subseteq {"passed", "failed", "not_run"}
  BY <1>1, <1>3, <1>4 DEF Verify!States, Verify!Worse
<1>8. "not_run" \in seen => terminal # "passed"
  BY <1>4
<1> QED
  BY <1>3, <1>4, <1>5, <1>6, <1>7, <1>8 DEF Verify!Worse

\* However a run of playground-verification.ts goes, for any number of cases and steps and
\* whatever throws, does not settle, times out or is cancelled: the report has one line for
\* every step, its summary is that of its lines, nothing runs after a stop, at most one
\* action takes effect after a cancellation, and no session is left over.
THEOREM ReportOfTheRun == Spec => []ReportIsTheRun
<1>1. VerifyHolds => ReportIsTheRun
  BY SummaryTells DEF VerifyHolds, ReportIsTheRun, Verify!ReportIsTheRun, Verify!VerifyInv
<1> QED
  BY <1>1, VerifyHoldsAlways, PTL

-----------------------------------------------------------------------------
(* The console *)

\* A set of natural numbers that is not empty has a least one; and a greatest, when
\* something bounds it.
LEMMA LeastOne ==
  ASSUME NEW T \in SUBSET Nat, T # {}
  PROVE  \E m \in T : \A n \in T : m <= n
<1> DEFINE R == OpToRel(<, Nat)
<1>1. IsWellFoundedOn(R, Nat)
  BY NatLessThanWellFounded, Zenon
<1> HIDE DEF R
<1>2. PICK m \in T : \A n \in T : <<n, m>> \notin R
  BY <1>1, WFMin
<1>3. \A n \in T : n < m => <<n, m>> \in R
  BY Zenon DEF R, OpToRel
<1>4. \A n \in T : ~(n < m)
  BY <1>2, <1>3
<1>5. m \in Nat /\ \A n \in T : n \in Nat
  OBVIOUS
<1> QED
  BY <1>4, <1>5

LEMMA GreatestOne ==
  ASSUME NEW k \in Nat, NEW T \in SUBSET (0..k), T # {}
  PROVE  \E m \in T : \A n \in T : n <= m
<1> DEFINE U == {k - n : n \in T}
<1>0. \A n \in T : n \in 0..k /\ k - n \in Nat
  OBVIOUS
<1>1. U \in SUBSET Nat /\ U # {}
  BY <1>0
<1>2. PICK u \in U : \A w \in U : u <= w
  BY <1>1, LeastOne
<1>3. PICK m \in T : u = k - m
  OBVIOUS
<1>4. \A n \in T : k - m <= k - n
  BY <1>2, <1>3
<1>5. \A n \in T : n <= m
  BY <1>0, <1>4
<1> QED
  BY <1>3, <1>5

\* The last n elements of a sequence.
LEMMA LastOfIs ==
  ASSUME NEW S, NEW a \in Seq(S), NEW n \in Nat
  PROVE  /\ Cons!LastOf(a, n) \in Seq(S)
         /\ Len(Cons!LastOf(a, n)) = IF Len(a) > n THEN n ELSE Len(a)
         /\ \A i \in 1..Len(Cons!LastOf(a, n)) :
              Cons!LastOf(a, n)[i] = a[i + (Len(a) - Len(Cons!LastOf(a, n)))]
<1> DEFINE b == Cons!LastOf(a, n)
<1>1. CASE Len(a) > n
  <2>1. b = SubSeq(a, Len(a) - n + 1, Len(a))
    BY <1>1 DEF Cons!LastOf
  <2>2. b \in Seq(S) /\ Len(b) = n /\ \A i \in 1..n : b[i] = a[(Len(a) - n + 1) + i - 1]
    BY <1>1, <2>1, SubSeqProperties
  <2> HIDE DEF b
  <2>3. \A i \in 1..n : (Len(a) - n + 1) + i - 1 = i + (Len(a) - n)
    OBVIOUS
  <2>4. \A i \in 1..Len(b) : b[i] = a[i + (Len(a) - Len(b))]
    BY <2>2, <2>3
  <2> QED
    BY <1>1, <2>2, <2>4 DEF b
<1>2. CASE ~(Len(a) > n)
  <2>1. b = a /\ \A i \in 1..Len(a) : i + (Len(a) - Len(a)) = i
    BY <1>2 DEF Cons!LastOf
  <2> QED
    BY <1>2, <2>1
<1> QED
  BY <1>1, <1>2

LEMMA SequencesAlike ==
  ASSUME NEW S, NEW a \in Seq(S), NEW b \in Seq(S), Len(a) = Len(b),
         \A i \in 1..Len(a) : a[i] = b[i]
  PROVE  a = b
BY SeqEqual

\* Elements appended after the oldest are gone: what is left is what would be left had
\* they stayed.
LEMMA LastOfLastOf ==
  ASSUME NEW S, NEW a \in Seq(S), NEW b \in Seq(S), NEW n \in Nat
  PROVE  Cons!LastOf(Cons!LastOf(a, n) \o b, n) = Cons!LastOf(a \o b, n)
<1> DEFINE u == Cons!LastOf(a, n)
           p == Cons!LastOf(u \o b, n)
           q == Cons!LastOf(a \o b, n)
<1>1. /\ u \in Seq(S) /\ Len(u) = (IF Len(a) > n THEN n ELSE Len(a))
      /\ \A i \in 1..Len(u) : u[i] = a[i + (Len(a) - Len(u))]
  BY LastOfIs
<1> HIDE DEF u
<1>2. /\ u \o b \in Seq(S) /\ Len(u \o b) = Len(u) + Len(b)
      /\ \A i \in 1..(Len(u) + Len(b)) : (u \o b)[i] = IF i <= Len(u) THEN u[i] ELSE b[i - Len(u)]
  BY <1>1, ConcatProperties
<1>3. /\ a \o b \in Seq(S) /\ Len(a \o b) = Len(a) + Len(b)
      /\ \A i \in 1..(Len(a) + Len(b)) : (a \o b)[i] = IF i <= Len(a) THEN a[i] ELSE b[i - Len(a)]
  BY ConcatProperties
<1> DEFINE ub == u \o b  ab == a \o b
<1> HIDE DEF ub, ab
<1>4. /\ p \in Seq(S) /\ Len(p) = (IF Len(ub) > n THEN n ELSE Len(ub))
      /\ \A i \in 1..Len(p) : p[i] = ub[i + (Len(ub) - Len(p))]
  BY <1>2, LastOfIs DEF ub
<1>5. /\ q \in Seq(S) /\ Len(q) = (IF Len(ab) > n THEN n ELSE Len(ab))
      /\ \A i \in 1..Len(q) : q[i] = ab[i + (Len(ab) - Len(q))]
  BY <1>3, LastOfIs DEF ab
<1> HIDE DEF p, q
<1>6. Len(u) \in Nat /\ Len(a) \in Nat /\ Len(b) \in Nat /\ Len(p) \in Nat /\ Len(q) \in Nat
  BY <1>1, <1>4, <1>5
<1>7. Len(ub) = Len(u) + Len(b) /\ Len(ab) = Len(a) + Len(b)
  BY <1>2, <1>3 DEF ub, ab
<1>8. Len(p) = Len(q) /\ Len(p) <= n /\ Len(p) <= Len(ub) /\ (Len(u) = Len(a) \/ Len(u) = n)
  BY <1>1, <1>4, <1>5, <1>6, <1>7
<1>9. ASSUME NEW i \in 1..Len(p) PROVE p[i] = q[i]
  <2> DEFINE j == i + (Len(ub) - Len(p))
             d == Len(a) - Len(u)
  <2>1. p[i] = ub[j] /\ q[i] = ab[j + d]
    <3>1. i + (Len(ab) - Len(q)) = j + d
      BY <1>6, <1>7, <1>8
    <3> QED
      BY <1>4, <1>5, <1>8, <3>1
  <2>2. j \in 1..(Len(u) + Len(b)) /\ j + d \in 1..(Len(a) + Len(b)) /\ (j <= Len(u) <=> j + d <= Len(a))
    BY <1>1, <1>6, <1>7, <1>8
  <2>3. j + d - Len(a) = j - Len(u) /\ j + (Len(a) - Len(u)) = j + d
    BY <1>6, <1>7
  <2>4. CASE j <= Len(u)
    <3>1. ub[j] = u[j] /\ ab[j + d] = a[j + d] /\ j \in 1..Len(u)
      BY <1>2, <1>3, <2>2, <2>4 DEF ub, ab
    <3> QED
      BY <1>1, <2>1, <2>3, <3>1
  <2>5. CASE ~(j <= Len(u))
    <3>1. ub[j] = b[j - Len(u)] /\ ab[j + d] = b[j + d - Len(a)]
      BY <1>2, <1>3, <2>2, <2>5 DEF ub, ab
    <3> QED
      BY <2>1, <2>3, <3>1
  <2> QED
    BY <2>4, <2>5
<1>10. p = q
  BY <1>4, <1>5, <1>8, <1>9, SequencesAlike
<1> QED
  BY <1>10 DEF p, q, u

\* A table that begins with start and goes on line by line is there, of any length.
Table(f, S, k, start, F) ==
  f \in [0..k -> S] /\ f[0] = start /\ \A i \in 1..k : f[i] = F[<<f[i - 1], i>>]

LEMMA TableExists ==
  ASSUME NEW S, NEW n \in Nat, NEW start \in S, NEW F \in [S \X (1..n) -> S]
  PROVE  \E f : Table(f, S, n, start, F)
<1> DEFINE T == {k \in 0..n : ~\E f : Table(f, S, k, start, F)}
<1>0. n \in 0..n
  OBVIOUS
<1>1. SUFFICES ASSUME T # {} PROVE FALSE
  BY <1>0
<1>2. T \in SUBSET Nat
  OBVIOUS
<1>3. PICK m \in T : \A k \in T : m <= k
  BY <1>1, <1>2, LeastOne
<1>4. m \in 0..n /\ ~\E f : Table(f, S, m, start, F)
  BY <1>3
<1>5. CASE m = 0
  <2> DEFINE f == [i \in 0..0 |-> start]
  <2>1. Table(f, S, 0, start, F)
    BY DEF Table
  <2> QED
    BY <1>4, <1>5, <2>1
<1>6. CASE m # 0
  <2> DEFINE k == m - 1
  <2>1. k \in 0..n /\ ~(m <= k) /\ m \in 1..n
    BY <1>4, <1>6
  <2>2. PICK g : Table(g, S, k, start, F)
    BY <1>3, <2>1
  <2> DEFINE f == [i \in 0..m |-> IF i <= k THEN g[i] ELSE F[<<g[k], m>>]]
  <2>3. \A i \in 0..k : g[i] \in S
    BY <2>2 DEF Table
  <2>4. F[<<g[k], m>>] \in S
    BY <2>1, <2>3
  <2>5. f \in [0..m -> S] /\ f[0] = start
    BY <2>1, <2>2, <2>3, <2>4 DEF Table
  <2>6. ASSUME NEW i \in 1..m PROVE f[i] = F[<<f[i - 1], i>>]
    <3>1. i - 1 \in 0..m /\ i - 1 <= k /\ f[i - 1] = g[i - 1]
      BY <2>1
    <3>2. CASE i <= k
      <4>1. i \in 1..k /\ f[i] = g[i]
        BY <2>1, <3>2
      <4> QED
        BY <2>2, <3>1, <4>1 DEF Table
    <3>3. CASE ~(i <= k)
      <4>1. i = m /\ i - 1 = k /\ f[i] = F[<<g[k], m>>]
        BY <2>1, <3>3
      <4> QED
        BY <3>1, <4>1
    <3> QED
      BY <3>2, <3>3
  <2> QED
    BY <1>4, <2>5, <2>6 DEF Table
<1> QED
  BY <1>5, <1>6

\* A session as a script sees it, and what its lines make of it.
State == [pin : Cons!Trits, word : Cons!Trits]

LEMMA KnownTrits == Cons!Unknown \in Cons!Trits /\ Cons!BootLow \in Cons!Trits
BY DEF Cons!Unknown, Cons!BootLow, Cons!Trits, Cons!Full

LEMMA ThenType ==
  ASSUME NEW st \in State, NEW l \in Cons!LogLine
  PROVE  Cons!Then(st, l) \in State
<1>1. l.x \in Cons!Trits
  BY DEF Cons!LogLine
<1>2. Cons!Does(st, l) \in State
  BY <1>1, KnownTrits DEF Cons!Does, State
<1> QED
  BY <1>2 DEF Cons!Then

ReplayTable(f, st, a) ==
  f = [i \in 0..Len(a) |-> IF i = 0 THEN st ELSE Cons!Then(f[i - 1], a[i])]

\* The table Replay reads is there, and holds states.
LEMMA ReplayTableExists ==
  ASSUME NEW st \in State, NEW a \in Seq(Cons!LogLine)
  PROVE  \E f \in [0..Len(a) -> State] : ReplayTable(f, st, a)
<1> DEFINE n == Len(a)
           F == [p \in State \X (1..n) |-> Cons!Then(p[1], a[p[2]])]
<1>0. n \in Nat
  OBVIOUS
<1>1. n \in Nat /\ \A i \in 1..n : a[i] \in Cons!LogLine
  OBVIOUS
<1> HIDE DEF n
<1>2. F \in [State \X (1..n) -> State]
  BY <1>1, ThenType
<1>3. \A y \in State, i \in 1..n : F[<<y, i>>] = Cons!Then(y, a[i])
  OBVIOUS
<1> HIDE DEF F
<1>4. PICK f : Table(f, State, n, st, F)
  BY <1>0, <1>2, TableExists
<1>5. ASSUME NEW i \in 0..n PROVE f[i] = IF i = 0 THEN st ELSE Cons!Then(f[i - 1], a[i])
  <2>1. i # 0 => i - 1 \in 0..n /\ i \in 1..n
    BY <1>1
  <2>2. i # 0 => f[i - 1] \in State
    BY <1>4, <2>1 DEF Table
  <2> QED
    BY <1>3, <1>4, <2>1, <2>2 DEF Table
<1>6. f \in [0..n -> State] /\ f = [i \in 0..n |-> f[i]]
  BY <1>4 DEF Table
<1> QED
  BY <1>5, <1>6 DEF ReplayTable, n

\* Tables of a sequence and of a longer one agree where both have lines.
LEMMA ReplayTablesAgree ==
  ASSUME NEW st, NEW a \in Seq(Cons!LogLine), NEW l \in Cons!LogLine, NEW f, NEW g,
         ReplayTable(f, st, a), ReplayTable(g, st, a) \/ ReplayTable(g, st, Append(a, l))
  PROVE  \A i \in 0..Len(a) : f[i] = g[i]
<1> DEFINE n == Len(a)
           T == {i \in 0..n : f[i] # g[i]}
<1>1. n \in Nat /\ Len(Append(a, l)) = n + 1 /\ \A i \in 1..n : Append(a, l)[i] = a[i]
  BY AppendProperties
<1>2. \A i \in 0..n : f[i] = IF i = 0 THEN st ELSE Cons!Then(f[i - 1], a[i])
  BY DEF ReplayTable
<1>3. \A i \in 0..n : g[i] = IF i = 0 THEN st ELSE Cons!Then(g[i - 1], a[i])
  <2>1. CASE ReplayTable(g, st, a)
    BY <2>1 DEF ReplayTable
  <2>2. CASE ReplayTable(g, st, Append(a, l))
    <3>1. \A i \in 0..(n + 1) : g[i] = IF i = 0 THEN st ELSE Cons!Then(g[i - 1], Append(a, l)[i])
      BY <1>1, <2>2 DEF ReplayTable
    <3>2. \A i \in 0..n : i \in 0..(n + 1) /\ (i # 0 => i \in 1..n)
      BY <1>1
    <3> HIDE DEF n
    <3> QED
      BY <1>1, <3>1, <3>2
  <2> QED
    BY <2>1, <2>2
<1> HIDE DEF n
<1>4. SUFFICES ASSUME T # {} PROVE FALSE
  BY DEF n
<1>5. PICK m \in T : \A i \in T : m <= i
  <2>1. T \in SUBSET Nat
    BY <1>1
  <2> QED
    BY <1>4, <2>1, LeastOne
<1>6. m \in 0..n /\ f[m] # g[m]
  BY <1>5
<1>7. m # 0
  BY <1>2, <1>3, <1>6
<1>8. m - 1 \in 0..n /\ ~(m <= m - 1)
  BY <1>1, <1>6, <1>7
<1>9. f[m - 1] = g[m - 1]
  BY <1>5, <1>8
<1> QED
  BY <1>2, <1>3, <1>6, <1>7, <1>9

\* Running a script line by line.
LEMMA ReplayAppends ==
  ASSUME NEW st \in State, NEW a \in Seq(Cons!LogLine), NEW l \in Cons!LogLine
  PROVE  /\ Cons!Replay(st, <<>>) = st
         /\ Cons!Replay(st, a) \in State
         /\ Cons!Replay(st, Append(a, l)) = Cons!Then(Cons!Replay(st, a), l)
<1> DEFINE At(b) == CHOOSE f : ReplayTable(f, st, b)
<1>1. \A b : Cons!Replay(st, b) = At(b)[Len(b)]
  BY DEF Cons!Replay, ReplayTable
<1>2. Append(a, l) \in Seq(Cons!LogLine) /\ Len(Append(a, l)) = Len(a) + 1 /\ Len(a) \in Nat
      /\ Append(a, l)[Len(a) + 1] = l
  BY AppendProperties
<1>3. \A b \in Seq(Cons!LogLine) : ReplayTable(At(b), st, b)
  BY ReplayTableExists
<1> HIDE DEF At
<1>4. Cons!Replay(st, <<>>) = st
  <2>1. <<>> \in Seq(Cons!LogLine) /\ Len(<<>>) = 0
    OBVIOUS
  <2> DEFINE e == At(<<>>)
  <2>2. ReplayTable(e, st, <<>>)
    BY <1>3, <2>1
  <2>3. Cons!Replay(st, <<>>) = e[0]
    BY <1>1, <2>1
  <2> HIDE DEF e
  <2>4. 0 \in 0..Len(<<>>)
    OBVIOUS
  <2>5. e[0] = st
    BY <2>2, <2>4 DEF ReplayTable
  <2> QED
    BY <2>3, <2>5
<1>5. Cons!Replay(st, a) \in State
  <2>1. PICK f \in [0..Len(a) -> State] : ReplayTable(f, st, a)
    BY ReplayTableExists
  <2>2. Len(a) \in 0..Len(a)
    BY <1>2
  <2>3. f[Len(a)] = At(a)[Len(a)]
    BY <1>3, <2>1, <2>2, ReplayTablesAgree
  <2> QED
    BY <1>1, <2>1, <2>2, <2>3
<1>6. Cons!Replay(st, Append(a, l)) = Cons!Then(Cons!Replay(st, a), l)
  <2> DEFINE n == Len(a)  g == At(Append(a, l))
  <2>1. ReplayTable(g, st, Append(a, l))
    BY <1>2, <1>3
  <2>2. g[n + 1] = Cons!Then(g[(n + 1) - 1], Append(a, l)[n + 1])
    BY <1>2, <2>1 DEF ReplayTable
  <2> DEFINE h == At(a)
  <2>3. ReplayTable(h, st, a)
    BY <1>3
  <2> HIDE DEF g, h
  <2>6. \A i \in 0..n : h[i] = g[i]
    BY <2>1, <2>3, ReplayTablesAgree
  <2>4. (n + 1) - 1 = n /\ n \in 0..n
    BY <1>2
  <2>5. g[n + 1] = Cons!Then(h[n], l)
    BY <1>2, <2>2, <2>4, <2>6
  <2> QED
    BY <1>1, <1>2, <2>5 DEF g, h
<1> QED
  BY <1>4, <1>5, <1>6

\* One more line said.
LEMMA LastIs == \A a : Cons!Last(a) = a[Len(a)]
BY DEF Cons!Last

LEMMA KeptType ==
  ASSUME NEW a \in Seq(Typed), NEW l \in Typed
  PROVE  Cons!Remembered(a, l) \in Seq(Typed)
BY AppendProperties DEF Cons!Remembered

KeptTable(f, a) ==
  f = [i \in 0..Len(a) |-> IF i = 0 THEN <<>> ELSE Cons!Remembered(f[i - 1], a[i])]

\* The table Distinct reads is there, and holds sequences of lines.
LEMMA KeptTableExists ==
  ASSUME NEW a \in Seq(Typed)
  PROVE  \E f \in [0..Len(a) -> Seq(Typed)] : KeptTable(f, a)
<1> DEFINE n == Len(a)
           F == [p \in Seq(Typed) \X (1..n) |-> Cons!Remembered(p[1], a[p[2]])]
<1>0. n \in Nat
  OBVIOUS
<1>1. n \in Nat /\ \A i \in 1..n : a[i] \in Typed
  OBVIOUS
<1> HIDE DEF n
<1>2. F \in [Seq(Typed) \X (1..n) -> Seq(Typed)]
  BY <1>1, KeptType
<1>3. \A y \in Seq(Typed), i \in 1..n : F[<<y, i>>] = Cons!Remembered(y, a[i])
  OBVIOUS
<1> HIDE DEF F
<1> DEFINE start == <<>>
<1>7. start \in Seq(Typed)
  OBVIOUS
<1> HIDE DEF start
<1>4. PICK f : Table(f, Seq(Typed), n, start, F)
  BY <1>0, <1>2, <1>7, TableExists
<1>5. ASSUME NEW i \in 0..n PROVE f[i] = IF i = 0 THEN <<>> ELSE Cons!Remembered(f[i - 1], a[i])
  <2>1. i # 0 => i - 1 \in 0..n /\ i \in 1..n
    BY <1>1
  <2>2. i # 0 => f[i - 1] \in Seq(Typed)
    BY <1>4, <2>1 DEF Table
  <2> QED
    BY <1>3, <1>4, <2>1, <2>2 DEF Table, start
<1>6. f \in [0..n -> Seq(Typed)] /\ f = [i \in 0..n |-> f[i]]
  BY <1>4 DEF Table
<1> QED
  BY <1>5, <1>6 DEF KeptTable, n

\* Tables of a sequence and of a longer one agree where both have lines.
LEMMA KeptTablesAgree ==
  ASSUME NEW a \in Seq(Typed), NEW l \in Typed, NEW f, NEW g,
         KeptTable(f, a), KeptTable(g, a) \/ KeptTable(g, Append(a, l))
  PROVE  \A i \in 0..Len(a) : f[i] = g[i]
<1> DEFINE n == Len(a)
           T == {i \in 0..n : f[i] # g[i]}
<1>1. n \in Nat /\ Len(Append(a, l)) = n + 1 /\ \A i \in 1..n : Append(a, l)[i] = a[i]
  BY AppendProperties
<1>2. \A i \in 0..n : f[i] = IF i = 0 THEN <<>> ELSE Cons!Remembered(f[i - 1], a[i])
  BY DEF KeptTable
<1>3. \A i \in 0..n : g[i] = IF i = 0 THEN <<>> ELSE Cons!Remembered(g[i - 1], a[i])
  <2>1. CASE KeptTable(g, a)
    BY <2>1 DEF KeptTable
  <2>2. CASE KeptTable(g, Append(a, l))
    <3>1. \A i \in 0..(n + 1) : g[i] = IF i = 0 THEN <<>> ELSE Cons!Remembered(g[i - 1], Append(a, l)[i])
      BY <1>1, <2>2 DEF KeptTable
    <3>2. \A i \in 0..n : i \in 0..(n + 1) /\ (i # 0 => i \in 1..n)
      BY <1>1
    <3> HIDE DEF n
    <3> QED
      BY <1>1, <3>1, <3>2
  <2> QED
    BY <2>1, <2>2
<1> HIDE DEF n
<1>4. SUFFICES ASSUME T # {} PROVE FALSE
  BY DEF n
<1>5. PICK m \in T : \A i \in T : m <= i
  <2>1. T \in SUBSET Nat
    BY <1>1
  <2> QED
    BY <1>4, <2>1, LeastOne
<1>6. m \in 0..n /\ f[m] # g[m]
  BY <1>5
<1>7. m # 0
  BY <1>2, <1>3, <1>6
<1>8. m - 1 \in 0..n /\ ~(m <= m - 1)
  BY <1>1, <1>6, <1>7
<1>9. f[m - 1] = g[m - 1]
  BY <1>5, <1>8
<1> QED
  BY <1>2, <1>3, <1>6, <1>7, <1>9

\* What is kept of the lines said, line by line.
LEMMA DistinctAppends ==
  ASSUME NEW a \in Seq(Typed), NEW l \in Typed
  PROVE  /\ Cons!Distinct(<<>>) = <<>>
         /\ Cons!Distinct(a) \in Seq(Typed)
         /\ Cons!Distinct(Append(a, l)) = Cons!Remembered(Cons!Distinct(a), l)
<1> DEFINE At(b) == CHOOSE f : KeptTable(f, b)
<1>1. \A b : Cons!Distinct(b) = At(b)[Len(b)]
  BY DEF Cons!Distinct, KeptTable
<1>2. Append(a, l) \in Seq(Typed) /\ Len(Append(a, l)) = Len(a) + 1 /\ Len(a) \in Nat
      /\ Append(a, l)[Len(a) + 1] = l
  BY AppendProperties
<1>3. \A b \in Seq(Typed) : KeptTable(At(b), b)
  BY KeptTableExists
<1> HIDE DEF At
<1>4. Cons!Distinct(<<>>) = <<>>
  <2>1. <<>> \in Seq(Typed) /\ Len(<<>>) = 0
    OBVIOUS
  <2> DEFINE e == At(<<>>)
  <2>2. KeptTable(e, <<>>)
    BY <1>3, <2>1
  <2>3. Cons!Distinct(<<>>) = e[0]
    BY <1>1, <2>1
  <2> HIDE DEF e
  <2>4. 0 \in 0..Len(<<>>)
    OBVIOUS
  <2>5. e[0] = <<>>
    BY <2>2, <2>4 DEF KeptTable
  <2> QED
    BY <2>3, <2>5
<1>5. Cons!Distinct(a) \in Seq(Typed)
  <2>1. PICK f \in [0..Len(a) -> Seq(Typed)] : KeptTable(f, a)
    BY KeptTableExists
  <2>2. Len(a) \in 0..Len(a)
    BY <1>2
  <2>3. f[Len(a)] = At(a)[Len(a)]
    BY <1>3, <2>1, <2>2, KeptTablesAgree
  <2> QED
    BY <1>1, <2>1, <2>2, <2>3
<1>6. Cons!Distinct(Append(a, l)) = Cons!Remembered(Cons!Distinct(a), l)
  <2> DEFINE n == Len(a)  g == At(Append(a, l))
  <2>1. KeptTable(g, Append(a, l))
    BY <1>2, <1>3
  <2>2. g[n + 1] = Cons!Remembered(g[(n + 1) - 1], Append(a, l)[n + 1])
    BY <1>2, <2>1 DEF KeptTable
  <2> DEFINE h == At(a)
  <2>3. KeptTable(h, a)
    BY <1>3
  <2> HIDE DEF g, h
  <2>6. \A i \in 0..n : h[i] = g[i]
    <3>1. KeptTable(h, a) /\ (KeptTable(g, a) \/ KeptTable(g, Append(a, l)))
      BY <2>1, <2>3
    <3> QED
      BY <3>1, KeptTablesAgree
  <2>4. (n + 1) - 1 = n /\ n \in 0..n
    BY <1>2
  <2>5. g[n + 1] = Cons!Remembered(h[n], l)
    BY <1>2, <2>2, <2>4, <2>6
  <2> QED
    BY <1>1, <1>2, <2>5 DEF g, h
<1> QED
  BY <1>4, <1>5, <1>6

LEMMA DistinctEmpty == Cons!Distinct(<<>>) = <<>>
<1> DEFINE e == CHOOSE f : KeptTable(f, <<>>)
<1>1. <<>> \in Seq(Typed) /\ Len(<<>>) = 0
  OBVIOUS
<1>2. KeptTable(e, <<>>)
  BY <1>1, KeptTableExists
<1>3. Cons!Distinct(<<>>) = e[0]
  BY <1>1 DEF Cons!Distinct, KeptTable
<1> HIDE DEF e
<1>4. 0 \in 0..Len(<<>>)
  OBVIOUS
<1>5. e[0] = <<>>
  BY <1>2, <1>4 DEF KeptTable
<1> QED
  BY <1>3, <1>5

\* A line is appended to the log a, which gives b: the d oldest lines are gone.
Lined(a, x, b, d) ==
  /\ a \in Seq(Cons!LogLine) /\ b \in Seq(Cons!LogLine) /\ x \in Cons!LogLine
  /\ d \in 0..Len(a) /\ Len(b) = Len(a) - d + 1 /\ b[Len(b)] = x
  /\ \A i \in 1..(Len(a) - d) : b[i] = a[i + d]

LEMMA LinedSays ==
  ASSUME NEW a, NEW x, NEW b, NEW d, Lined(a, x, b, d)
  PROVE  /\ Len(a) \in Nat /\ Len(b) \in Nat /\ d \in Nat /\ Len(b) = (Len(a) - d) + 1 /\ b[Len(b)] = x
         /\ DOMAIN a = 1..Len(a) /\ DOMAIN b = 1..Len(b)
         /\ \A i \in 1..Len(b) : i # Len(b) => i + d \in 1..Len(a) /\ b[i] = a[i + d]
         /\ \A i \in 1..Len(b) : b[i] \in Cons!LogLine
         /\ \A i \in 1..Len(a) : a[i] \in Cons!LogLine
<1>1. Len(a) \in Nat /\ Len(b) \in Nat /\ d \in Nat /\ Len(b) = (Len(a) - d) + 1
  BY DEF Lined
<1>2. ASSUME NEW i \in 1..Len(b), i # Len(b) PROVE i + d \in 1..Len(a) /\ b[i] = a[i + d]
  <2>1. i \in 1..(Len(a) - d) /\ i + d \in 1..Len(a)
    BY <1>1, <1>2
  <2> QED
    BY <2>1 DEF Lined
<1> QED
  BY <1>1, <1>2 DEF Lined

\* The log after one line.
LEMMA AppendedOne ==
  ASSUME NEW a \in Seq(Cons!LogLine), NEW x \in Cons!LogLine
  PROVE  /\ \E d \in Nat : Lined(a, x, Cons!Appended(a, <<x>>), d)
         /\ Cons!Appended(a, <<x>>) \in Seq(Cons!LogLine) /\ Len(Cons!Appended(a, <<x>>)) <= Cap
         /\ \A w \in Seq(Cons!LogLine) :
              Cons!Appended(a, <<x>> \o w) = Cons!Appended(Cons!Appended(a, <<x>>), w)
<1> DEFINE S == Cons!LogLine
           u == a \o <<x>>
           b == Cons!Appended(a, <<x>>)
           d == Len(u) - Len(b)
<1>1. Cap \in Nat /\ Cap >= 1
  BY ConsoleAssumption
<1>2. /\ u \in Seq(S) /\ Len(u) = Len(a) + 1 /\ u[Len(a) + 1] = x /\ Len(a) \in Nat
      /\ \A i \in 1..Len(a) : u[i] = a[i]
  BY ConcatProperties
<1>3. b = Cons!LastOf(u, Cap)
  BY DEF Cons!Appended
<1> HIDE DEF S, u, b
<1>4. /\ b \in Seq(S) /\ Len(b) = (IF Len(u) > Cap THEN Cap ELSE Len(u))
      /\ \A i \in 1..Len(b) : b[i] = u[i + (Len(u) - Len(b))]
  BY <1>1, <1>2, <1>3, LastOfIs
<1>5. Len(b) \in Nat /\ Len(b) >= 1 /\ d \in 0..Len(a) /\ Len(b) = Len(a) - d + 1
  BY <1>1, <1>2, <1>4
<1>6. b[Len(b)] = x
  <2>1. Len(b) \in 1..Len(b) /\ Len(b) + (Len(u) - Len(b)) = Len(a) + 1
    BY <1>2, <1>5
  <2> QED
    BY <1>2, <1>4, <2>1
<1>7. \A i \in 1..(Len(a) - d) : b[i] = a[i + d]
  <2> TAKE i \in 1..(Len(a) - d)
  <2>1. i \in 1..Len(b) /\ i + d \in 1..Len(a)
    BY <1>2, <1>5
  <2> QED
    BY <1>2, <1>4, <2>1
<1>8. Lined(a, x, b, d) /\ d \in Nat
  BY <1>4, <1>5, <1>6, <1>7 DEF Lined, S
<1>9. ASSUME NEW w \in Seq(S) PROVE Cons!Appended(a, <<x>> \o w) = Cons!Appended(b, w)
  <2>1. a \o (<<x>> \o w) = u \o w
    BY ConcatAssociative, <<x>> \in Seq(S) DEF u, S
  <2>2. Cons!LastOf(Cons!LastOf(u, Cap) \o w, Cap) = Cons!LastOf(u \o w, Cap)
    BY <1>1, <1>2, LastOfLastOf
  <2> QED
    BY <1>3, <2>1, <2>2 DEF Cons!Appended
<1>10. Len(b) <= Cap
  BY <1>1, <1>2, <1>4
<1> QED
  BY <1>4, <1>8, <1>9, <1>10 DEF b, S

LEMMA TuplesAreConcats ==
  \A x, y, z : <<x, y>> = <<x>> \o <<y>> /\ <<x, y, z>> = <<x>> \o (<<y>> \o <<z>>)
<1> TAKE x, y, z
<1> DEFINE S == {x, y, z}
<1>0. x \in S /\ y \in S /\ z \in S
  OBVIOUS
<1> HIDE DEF S
<1>1. <<x>> \in Seq(S) /\ <<y>> \in Seq(S) /\ <<z>> \in Seq(S) /\ <<x, y>> \in Seq(S) /\ <<y, z>> \in Seq(S)
  BY <1>0
<1>2. ASSUME NEW u \in S, NEW w \in S PROVE <<u, w>> = <<u>> \o <<w>>
  <2>1. <<u>> \in Seq(S) /\ <<w>> \in Seq(S) /\ Len(<<u>>) = 1 /\ Len(<<w>>) = 1
    BY <1>0
  <2> DEFINE p == <<u>> \o <<w>>  q == <<u, w>>
  <2>2. p \in Seq(S) /\ Len(p) = 2 /\ p[1] = u /\ p[2] = w
    BY <2>1, ConcatProperties
  <2>3. q \in Seq(S) /\ Len(q) = 2 /\ q[1] = u /\ q[2] = w
    BY <1>0
  <2> HIDE DEF p, q
  <2>4. \A i \in 1..Len(p) : p[i] = q[i]
    BY <2>2, <2>3
  <2>5. p = q
    BY <2>2, <2>3, <2>4, SequencesAlike
  <2> QED
    BY <2>5 DEF p, q
<1>3. <<x, y, z>> = <<x>> \o <<y, z>>
  <2>1. <<x>> \in Seq(S) /\ <<y, z>> \in Seq(S) /\ Len(<<x>>) = 1 /\ Len(<<y, z>>) = 2
    BY <1>0
  <2> DEFINE p == <<x>> \o <<y, z>>  q == <<x, y, z>>
  <2>2. p \in Seq(S) /\ Len(p) = 3 /\ p[1] = x /\ p[2] = y /\ p[3] = z
    BY <2>1, ConcatProperties
  <2>3. q \in Seq(S) /\ Len(q) = 3 /\ q[1] = x /\ q[2] = y /\ q[3] = z
    BY <1>0
  <2> HIDE DEF p, q
  <2>4. \A i \in 1..Len(p) : p[i] = q[i]
    BY <2>2, <2>3
  <2>5. p = q
    BY <2>2, <2>3, <2>4, SequencesAlike
  <2> QED
    BY <2>5 DEF p, q
<1> QED
  BY <1>0, <1>2, <1>3

\* The log after a command with its reply, and with a handshake too.
LEMMA AppendedMore ==
  ASSUME NEW a \in Seq(Cons!LogLine), NEW x \in Cons!LogLine, NEW y \in Cons!LogLine, NEW z \in Cons!LogLine
  PROVE  /\ Cons!Appended(a, <<x, y>>) = Cons!Appended(Cons!Appended(a, <<x>>), <<y>>)
         /\ Cons!Appended(a, <<x, y, z>>)
              = Cons!Appended(Cons!Appended(Cons!Appended(a, <<x>>), <<y>>), <<z>>)
<1> DEFINE S == Cons!LogLine
           b == Cons!Appended(a, <<x>>)
           v == <<y>>
           w == <<y>> \o <<z>>
<1>1. <<x, y>> = <<x>> \o v /\ <<x, y, z>> = <<x>> \o w
  BY TuplesAreConcats, Zenon
<1>2. v \in Seq(S) /\ w \in Seq(S)
  BY ConcatProperties
<1>3. b \in Seq(S)
  BY AppendedOne
<1>4. Cons!Appended(b, w) = Cons!Appended(Cons!Appended(b, <<y>>), <<z>>)
  <2>1. <<z>> \in Seq(S)
    OBVIOUS
  <2> HIDE DEF b, S
  <2> QED
    BY <1>3, <2>1, AppendedOne DEF S
<1> HIDE DEF v, w
<1>5. Cons!Appended(a, <<x>> \o v) = Cons!Appended(b, v) /\ Cons!Appended(a, <<x>> \o w) = Cons!Appended(b, w)
  BY <1>2, AppendedOne
<1> QED
  BY <1>1, <1>4, <1>5 DEF v

\* The part of a log from its newest handshake on.
LEMMA SinceIs ==
  ASSUME NEW a \in Seq(Cons!LogLine), Cons!Announced(a) # {}
  PROVE  /\ Cons!Newest(a) \in 1..Len(a) /\ a[Cons!Newest(a)].k = "ready"
         /\ \A j \in 1..Len(a) : a[j].k = "ready" => j <= Cons!Newest(a)
         /\ Cons!Since(a) \in Seq(Cons!LogLine)
         /\ Len(Cons!Since(a)) = (Len(a) - Cons!Newest(a)) + 1
         /\ \A i \in 1..Len(Cons!Since(a)) : Cons!Since(a)[i] = a[(Cons!Newest(a) + i) - 1]
<1> DEFINE A == Cons!Announced(a)
           n == Cons!Newest(a)
<1>1. Len(a) \in Nat /\ DOMAIN a = 1..Len(a) /\ A \in SUBSET (0..Len(a))
  BY DEF Cons!Announced
<1>2. n \in A /\ \A j \in A : j <= n
  <2>1. \E i \in A : \A j \in A : j <= i
    BY <1>1, GreatestOne
  <2> QED
    BY <2>1 DEF Cons!Newest
<1>3. /\ n \in 1..Len(a) /\ a[n].k = "ready" /\ \A j \in 1..Len(a) : a[j].k = "ready" => j <= n
  BY <1>1, <1>2 DEF Cons!Announced
<1> HIDE DEF A, n
<1>4. Cons!Since(a) = SubSeq(a, n, Len(a))
  BY DEF Cons!Since, n
<1>5. /\ SubSeq(a, n, Len(a)) \in Seq(Cons!LogLine) /\ Len(SubSeq(a, n, Len(a))) = (Len(a) - n) + 1
      /\ \A i \in 1..((Len(a) - n) + 1) : SubSeq(a, n, Len(a))[i] = a[(n + i) - 1]
  BY <1>1, <1>3, SubSeqProperties
<1> QED
  BY <1>3, <1>4, <1>5 DEF n

\* A handshake begins it anew; any other line is its last.
LEMMA SinceStarts ==
  ASSUME NEW a, NEW x, NEW b, NEW d, Lined(a, x, b, d), x.k = "ready"
  PROVE  Cons!Since(b) = Append(<<>>, x)
<1>1. b \in Seq(Cons!LogLine) /\ Len(b) \in 1..Len(b) /\ b[Len(b)] = x /\ Len(b) \in Nat
  BY LinedSays DEF Lined
<1>2. Cons!Announced(b) # {}
  BY <1>1 DEF Cons!Announced
<1>3. Cons!Newest(b) = Len(b)
  BY <1>1, <1>2, SinceIs
<1> DEFINE p == Cons!Since(b)  n == Cons!Newest(b)
<1>6. /\ p \in Seq(Cons!LogLine) /\ Len(p) = (Len(b) - n) + 1
      /\ \A i \in 1..Len(p) : p[i] = b[(n + i) - 1]
  BY <1>1, <1>2, SinceIs
<1> HIDE DEF p, n
<1>7. n = Len(b) /\ Len(p) = 1 /\ (n + 1) - 1 = Len(b) /\ 1 \in 1..Len(p)
  BY <1>1, <1>3, <1>6 DEF n
<1>4. Len(p) = 1 /\ p[1] = x /\ p \in Seq(Cons!LogLine)
  BY <1>1, <1>6, <1>7
<1>5. Append(<<>>, x) \in Seq(Cons!LogLine) /\ Len(Append(<<>>, x)) = 1 /\ Append(<<>>, x)[1] = x
  BY AppendProperties DEF Lined
<1>8. p = Append(<<>>, x)
  <2> DEFINE q == Append(<<>>, x)
  <2> HIDE DEF q
  <2>1. \A i \in 1..Len(p) : p[i] = q[i]
    BY <1>4, <1>5 DEF q
  <2> QED
    BY <1>4, <1>5, <2>1, SequencesAlike DEF q
<1> QED
  BY <1>8 DEF p

LEMMA SinceGrows ==
  ASSUME NEW a, NEW x, NEW b, NEW d, Lined(a, x, b, d), x.k # "ready", Cons!Announced(b) # {}
  PROVE  Cons!Announced(a) # {} /\ Cons!Since(b) = Append(Cons!Since(a), x)
<1> DEFINE m == Cons!Newest(b)  n == Cons!Newest(a)
           p == Cons!Since(b)  q == Cons!Since(a)
<1>1. a \in Seq(Cons!LogLine) /\ b \in Seq(Cons!LogLine) /\ x \in Cons!LogLine
  BY DEF Lined
<1>2. /\ m \in 1..Len(b) /\ b[m].k = "ready"
      /\ \A j \in 1..Len(b) : b[j].k = "ready" => j <= m
      /\ p \in Seq(Cons!LogLine) /\ Len(p) = (Len(b) - m) + 1
      /\ \A i \in 1..Len(p) : p[i] = b[(m + i) - 1]
  BY <1>1, SinceIs
<1>3. m # Len(b) /\ m + d \in 1..Len(a) /\ b[m] = a[m + d]
  <2>1. b[Len(b)].k # "ready" /\ \A i \in 1..Len(b) : i # Len(b) => i + d \in 1..Len(a) /\ b[i] = a[i + d]
    BY LinedSays
  <2>2. m # Len(b) /\ m \in 1..Len(b)
    BY <1>2, <2>1
  <2> QED
    BY <2>1, <2>2
<1>4. Cons!Announced(a) # {}
  BY <1>2, <1>3, LinedSays DEF Cons!Announced
<1>5. /\ n \in 1..Len(a) /\ a[n].k = "ready"
      /\ \A j \in 1..Len(a) : a[j].k = "ready" => j <= n
      /\ q \in Seq(Cons!LogLine) /\ Len(q) = (Len(a) - n) + 1
      /\ \A i \in 1..Len(q) : q[i] = a[(n + i) - 1]
  BY <1>1, <1>4, SinceIs
<1> HIDE DEF m, n, p, q
<1>6. Len(a) \in Nat /\ Len(b) \in Nat /\ d \in Nat /\ Len(b) = (Len(a) - d) + 1 /\ m \in Nat /\ n \in Nat
  BY <1>2, <1>5, LinedSays
<1>7. n = m + d
  <2>1. m + d <= n
    BY <1>2, <1>3, <1>5
  <2>2. n - d \in 1..Len(b) /\ n - d # Len(b) /\ (n - d) + d = n
    BY <1>2, <1>5, <1>6, <2>1
  <2>3. b[n - d] = a[n]
    BY <2>2, LinedSays
  <2>4. n - d <= m
    BY <1>2, <1>5, <2>2, <2>3
  <2> QED
    BY <1>6, <2>1, <2>4
<1>13. q \in Seq(Cons!LogLine) /\ x \in Cons!LogLine
  BY <1>1, <1>5
<1>8. /\ Append(q, x) \in Seq(Cons!LogLine) /\ Len(Append(q, x)) = Len(q) + 1
      /\ Append(q, x)[Len(q) + 1] = x /\ \A i \in 1..Len(q) : Append(q, x)[i] = q[i]
  BY <1>13, AppendProperties
<1>12. /\ Len(p) = (Len(b) - m) + 1 /\ Len(q) = (Len(a) - n) + 1 /\ m \in 1..Len(b) /\ n \in 1..Len(a)
       /\ Len(p) \in Nat /\ Len(q) \in Nat
  BY <1>2, <1>5
<1>9. Len(p) = Len(q) + 1 /\ Len(q) \in Nat
  BY <1>2, <1>5, <1>6, <1>7
<1>10. ASSUME NEW i \in 1..Len(p) PROVE p[i] = Append(q, x)[i]
  <2>1. CASE i = Len(p)
    <3>1. (m + i) - 1 = Len(b)
      BY <1>6, <1>12, <2>1
    <3>2. p[i] = b[(m + i) - 1] /\ b[Len(b)] = x
      BY <1>2, LinedSays
    <3> QED
      BY <1>8, <1>9, <2>1, <3>1, <3>2
  <2>2. CASE i # Len(p)
    <3>1. i \in 1..Len(q)
      BY <1>9, <2>2
    <3>2. (m + i) - 1 \in 1..Len(b) /\ (m + i) - 1 # Len(b) /\ ((m + i) - 1) + d = (n + i) - 1
      BY <1>6, <1>7, <1>12, <2>2
    <3>3. b[(m + i) - 1] = a[(n + i) - 1]
      BY <3>2, LinedSays
    <3> QED
      BY <1>2, <1>5, <1>8, <3>1, <3>3
  <2> QED
    BY <2>1, <2>2
<1>11. p = Append(q, x)
  BY <1>2, <1>8, <1>9, <1>10, SequencesAlike
<1> QED
  BY <1>4, <1>11 DEF p, q

\* The script in a, run on a session that begins as ses began, leads to it.
Began(ses) == [pin |-> ses.start, word |-> Cons!Unknown]
Script(a, ses) == Cons!Replay(Began(ses), Cons!Since(a))
NoImage(q) == \A i \in DOMAIN q : q[i].c # "image"
Tells(a, ses) ==
  Cons!Announced(a) # {} =>
    Script(a, ses).pin = ses.pin /\ (NoImage(Cons!Since(a)) => Script(a, ses).word = ses.word)

Session == [id : Nat, pin : Cons!Trits, word : Cons!Trits, alive : BOOLEAN, start : Cons!Trits]

LEMMA BeganType == ASSUME NEW ses \in Session PROVE Began(ses) \in State
BY KnownTrits DEF Session, Began, State

LEMMA RecordTells ==
  Cons!LogIsTheRecord <=>
    (announced.alive /\ running = Cons!Idle /\ disturbed = "no" => Tells(log, announced))
BY DEF Cons!LogIsTheRecord, Cons!RecordOf, Tells, Script, Began, NoImage

\* A handshake of a session that is as it began.
LEMMA TellsAtFirst ==
  ASSUME NEW a, NEW x, NEW b, NEW d, Lined(a, x, b, d), x.k = "ready",
         NEW ses \in Session, ses.pin = ses.start, ses.word = Cons!Unknown
  PROVE  Tells(b, ses)
<1>1. x \in Cons!LogLine /\ <<>> \in Seq(Cons!LogLine)
  BY DEF Lined
<1> DEFINE st == Began(ses)
<1>4. st \in State /\ Cons!Since(b) = Append(<<>>, x)
  BY BeganType, SinceStarts
<1> HIDE DEF st
<1>5. Cons!Replay(st, <<>>) = st /\ Cons!Replay(st, Append(<<>>, x)) = Cons!Then(Cons!Replay(st, <<>>), x)
  BY <1>1, <1>4, ReplayAppends
<1>2. Script(b, ses) = Cons!Then(Began(ses), x)
  BY <1>4, <1>5 DEF Script, st
<1>3. Script(b, ses) = Began(ses)
  BY <1>2 DEF Cons!Then, Cons!InScript
<1> QED
  BY <1>3 DEF Tells, Began

\* A line that does to a script what happened to the session.
LEMMA TellsOn ==
  ASSUME NEW a, NEW x, NEW b, NEW d, Lined(a, x, b, d), x.k # "ready",
         NEW old \in Session, NEW new \in Session, new.start = old.start, Tells(a, old),
         \A st \in State : st.pin = old.pin => Cons!Then(st, x).pin = new.pin,
         \A st \in State : x.c # "image" /\ st.word = old.word => Cons!Then(st, x).word = new.word
  PROVE  Tells(b, new)
<1> SUFFICES ASSUME Cons!Announced(b) # {} PROVE Tells(b, new)
  BY DEF Tells
<1> DEFINE q == Cons!Since(a)
           p == Cons!Since(b)
<1>1. Cons!Announced(a) # {} /\ p = Append(q, x)
  BY SinceGrows
<1>2. x \in Cons!LogLine /\ a \in Seq(Cons!LogLine)
  BY DEF Lined
<1>3. q \in Seq(Cons!LogLine)
  BY <1>1, <1>2, SinceIs
<1>4. Script(a, old) \in State /\ Began(new) = Began(old)
  <2>1. Began(new) = Began(old)
    BY DEF Began
  <2>2. Began(old) \in State
    BY BeganType
  <2> HIDE DEF q
  <2>3. Cons!Replay(Began(old), q) \in State
    BY <1>2, <1>3, <2>2, ReplayAppends
  <2> QED
    BY <2>1, <2>3 DEF Script, q
<1>5. Script(b, new) = Cons!Then(Script(a, old), x)
  <2> HIDE DEF q
  <2>1. Script(a, old) = Cons!Replay(Began(old), q) /\ Script(b, new) = Cons!Replay(Began(old), Append(q, x))
    BY <1>1, <1>4 DEF Script, q
  <2> QED
    BY <1>2, <1>3, <2>1, BeganType, ReplayAppends
<1>6. NoImage(p) => NoImage(q) /\ x.c # "image"
  <2> HIDE DEF p, q
  <2>1. /\ Len(q) \in Nat /\ DOMAIN q = 1..Len(q) /\ DOMAIN p = 1..(Len(q) + 1)
        /\ p[Len(q) + 1] = x /\ \A i \in 1..Len(q) : p[i] = q[i]
    BY <1>1, <1>2, <1>3, AppendProperties
  <2>2. Len(q) + 1 \in DOMAIN p /\ \A i \in DOMAIN q : i \in DOMAIN p
    BY <2>1
  <2> QED
    BY <2>1, <2>2 DEF NoImage
<1> QED
  BY <1>1, <1>4, <1>5, <1>6 DEF Tells

\* What SummaryPairs says, line by line: e is the last command, i the first line after it
\* that is not a note.
PairedAt(a, e, i) ==
  /\ a[e].k = "echo" /\ \A j \in DOMAIN a : a[j].k = "echo" => j <= e
  /\ i > e /\ a[i].k # "note" /\ \A j \in DOMAIN a : j > e /\ a[j].k # "note" => i <= j
  => a[i].k = "ready" \/ a[i].n = a[e].n

LEMMA PairedIs ==
  ASSUME NEW a \in Seq(Cons!LogLine)
  PROVE  Cons!Paired(a) <=> \A e, i \in DOMAIN a : PairedAt(a, e, i)
<1> DEFINE E == Cons!Echoes(a)
           A == Cons!After(a)
           e == Cons!LastEcho(a)
           f == CHOOSE i \in A : \A j \in A : i <= j
<1>1. Len(a) \in Nat /\ DOMAIN a = 1..Len(a) /\ E \in SUBSET (0..Len(a)) /\ A \in SUBSET Nat
  BY DEF Cons!Echoes, Cons!After
<1>2. E # {} => e \in E /\ \A j \in E : j <= e
  <2>1. E # {} => \E i \in E : \A j \in E : j <= i
    BY <1>1, GreatestOne
  <2> QED
    BY <2>1 DEF Cons!LastEcho
<1>3. A # {} => f \in A /\ \A j \in A : f <= j
  <2>1. A # {} => \E i \in A : \A j \in A : i <= j
    BY <1>1, LeastOne
  <2> QED
    BY <2>1
<1>4. Cons!FirstAfter(a) = a[f]
  BY DEF Cons!FirstAfter
<1>5. \A i : i \in E <=> i \in DOMAIN a /\ a[i].k = "echo"
  BY DEF Cons!Echoes
<1>6. \A i : i \in A <=> i \in DOMAIN a /\ i > e /\ a[i].k # "note"
  BY DEF Cons!After
<1>7. Cons!Paired(a) <=> (E # {} /\ A # {} => a[f].k = "ready" \/ a[f].n = a[e].n)
  BY <1>4 DEF Cons!Paired
<1> HIDE DEF E, A, e, f
<1>8. ASSUME Cons!Paired(a), NEW g \in DOMAIN a, NEW i \in DOMAIN a PROVE PairedAt(a, g, i)
  <2> SUFFICES ASSUME a[g].k = "echo", \A j \in DOMAIN a : a[j].k = "echo" => j <= g,
                      i > g, a[i].k # "note", \A j \in DOMAIN a : j > g /\ a[j].k # "note" => i <= j
               PROVE  a[i].k = "ready" \/ a[i].n = a[g].n
    BY DEF PairedAt
  <2>1. g \in E /\ e \in E /\ e = g
    BY <1>1, <1>2, <1>5
  <2>2. i \in A /\ f \in A /\ f = i
    BY <1>1, <1>3, <1>6, <2>1
  <2> QED
    BY <1>7, <1>8, <2>1, <2>2
<1>9. ASSUME \A g, i \in DOMAIN a : PairedAt(a, g, i), E # {}, A # {}
      PROVE  a[f].k = "ready" \/ a[f].n = a[e].n
  <2>1. e \in DOMAIN a /\ f \in DOMAIN a /\ PairedAt(a, e, f)
    BY <1>2, <1>3, <1>5, <1>6, <1>9
  <2> QED
    BY <1>2, <1>3, <1>5, <1>6, <1>9, <2>1 DEF PairedAt
<1> QED
  BY <1>7, <1>8, <1>9

\* Any line but the wrong reply leaves it so.
LEMMA PairedOn ==
  ASSUME NEW a, NEW x, NEW b, NEW d, Lined(a, x, b, d), Cons!Paired(a),
         x.k = "reply" => a # <<>> /\ a[Len(a)].k = "echo" /\ a[Len(a)].n = x.n
  PROVE  Cons!Paired(b)
<1>1. a \in Seq(Cons!LogLine) /\ b \in Seq(Cons!LogLine)
  BY DEF Lined
<1>7. Len(a) \in Nat /\ Len(b) \in Nat /\ d \in Nat /\ Len(b) = (Len(a) - d) + 1
  BY LinedSays
<1>8. x.k \in {"echo", "reply", "note", "ready"}
  BY DEF Lined, Cons!LogLine
<1>2. /\ Len(a) \in Nat /\ Len(b) \in Nat /\ d \in Nat /\ Len(b) = (Len(a) - d) + 1 /\ b[Len(b)] = x
      /\ DOMAIN a = 1..Len(a) /\ DOMAIN b = 1..Len(b)
      /\ \A i \in 1..Len(b) : i # Len(b) => i + d \in 1..Len(a) /\ b[i] = a[i + d]
      /\ x.k \in {"echo", "reply", "note", "ready"}
  BY <1>8, LinedSays
<1> SUFFICES ASSUME NEW e \in DOMAIN b, NEW i \in DOMAIN b,
                    b[e].k = "echo", \A j \in DOMAIN b : b[j].k = "echo" => j <= e,
                    i > e, b[i].k # "note", \A j \in DOMAIN b : j > e /\ b[j].k # "note" => i <= j
             PROVE  b[i].k = "ready" \/ b[i].n = b[e].n
  BY <1>1, PairedIs DEF PairedAt
<1>3. e # Len(b) /\ e + d \in 1..Len(a) /\ b[e] = a[e + d] /\ e \in Nat /\ i \in Nat
  BY <1>2
<1>4. CASE i = Len(b)
  <2>1. x.k # "echo" /\ x.k # "note"
    <3>1. Len(b) \in DOMAIN b
      BY <1>2, <1>4
    <3> QED
      BY <1>2, <1>3, <1>4, <3>1
  <2>2. CASE x.k = "ready"
    BY <1>2, <1>4, <2>2
  <2>3. CASE x.k = "reply"
    <3>1. Len(a) - d \in 1..Len(b) /\ Len(a) - d # Len(b) /\ (Len(a) - d) + d = Len(a) /\ e <= Len(a) - d
      BY <1>3, <1>7
    <3>2. b[Len(a) - d] = a[Len(a)]
      BY <1>2, <3>1
    <3>3. Len(a) - d <= e
      BY <1>2, <2>3, <3>1, <3>2
    <3>4. e = Len(a) - d
      <4>1. e \in Int
        BY <1>3
      <4>2. Len(a) - d \in Int
        BY <1>7
      <4>3. e <= Len(a) - d
        BY <3>1
      <4> QED
        BY <3>3, <4>1, <4>2, <4>3
    <3> QED
      BY <1>2, <1>4, <2>3, <3>2, <3>4
  <2> QED
    BY <1>2, <2>1, <2>2, <2>3
<1>5. CASE i # Len(b)
  <2>1. i + d \in 1..Len(a) /\ b[i] = a[i + d] /\ i + d > e + d
    BY <1>2, <1>3, <1>5
  <2>2. ASSUME NEW j \in 1..Len(a), j > d
        PROVE  j - d \in DOMAIN b /\ a[j] = b[j - d]
    <3>1. j - d \in 1..Len(b) /\ j - d # Len(b) /\ (j - d) + d = j
      BY <1>2, <2>2
    <3> QED
      BY <1>2, <3>1
  <2>3. \A j \in DOMAIN a : a[j].k = "echo" => j <= e + d
    <3> SUFFICES ASSUME NEW j \in 1..Len(a), a[j].k = "echo", j > e + d PROVE FALSE
      BY <1>2, <1>3
    <3>1. j > d
      BY <1>2, <1>3
    <3>2. j - d <= e
      BY <2>2, <3>1
    <3> QED
      BY <1>2, <1>3, <3>2
  <2>4. \A j \in DOMAIN a : j > e + d /\ a[j].k # "note" => i + d <= j
    <3> SUFFICES ASSUME NEW j \in 1..Len(a), j > e + d, a[j].k # "note" PROVE i + d <= j
      BY <1>2
    <3>1. j > d /\ j - d > e
      BY <1>2, <1>3
    <3>2. i <= j - d
      BY <2>2, <3>1
    <3> QED
      BY <1>2, <1>3, <3>2
  <2>5. PairedAt(a, e + d, i + d)
    BY <1>1, <1>2, <1>3, <2>1, PairedIs
  <2> QED
    BY <1>2, <1>3, <2>1, <2>3, <2>4, <2>5 DEF PairedAt
<1> QED
  BY <1>4, <1>5

\* And between a command and its reply no handshake comes, when its reply is the next line.
LEMMA RepliedOn ==
  ASSUME NEW a, NEW x, NEW b, NEW d, Lined(a, x, b, d), Cons!RepliedFirst(a),
         x.k = "reply" => /\ a # <<>> /\ a[Len(a)].k = "echo" /\ a[Len(a)].n = x.n
                          /\ \A i \in 1..(Len(a) - 1) : a[i].n < x.n
  PROVE  Cons!RepliedFirst(b)
<1>1. a \in Seq(Cons!LogLine) /\ b \in Seq(Cons!LogLine)
  BY DEF Lined
<1>2. /\ Len(a) \in Nat /\ Len(b) \in Nat /\ d \in Nat /\ Len(b) = (Len(a) - d) + 1 /\ b[Len(b)] = x
      /\ DOMAIN a = 1..Len(a) /\ DOMAIN b = 1..Len(b)
      /\ \A i \in 1..Len(b) : i # Len(b) => i + d \in 1..Len(a) /\ b[i] = a[i + d]
      /\ \A i \in 1..Len(a) : a[i].n \in Nat
  <2>1. \A l \in Cons!LogLine : l.n \in Nat
    BY DEF Cons!LogLine
  <2> QED
    BY <2>1, LinedSays
<1>7. Len(a) \in Nat /\ Len(b) \in Nat /\ d \in Nat /\ Len(b) = (Len(a) - d) + 1
  BY <1>2
<1> SUFFICES ASSUME NEW i \in 1..Len(b), NEW j \in 1..Len(b), i < j, b[i].k = "echo", b[j].k = "reply",
                    b[i].n = b[j].n, NEW m \in i..j
             PROVE  b[m].k # "ready"
  BY <1>2 DEF Cons!RepliedFirst
<1>3. /\ i # Len(b) /\ i + d \in 1..Len(a) /\ b[i] = a[i + d] /\ m \in 1..Len(b)
      /\ i \in Nat /\ j \in Nat /\ m \in Nat
  BY <1>2
<1>4. CASE j = Len(b)
  <2>1. x.k = "reply" /\ a[i + d].n = x.n
    BY <1>2, <1>3, <1>4
  <2>2. i + d = Len(a)
    <3>1. i + d \in 1..(Len(a) - 1) => a[i + d].n < x.n
      BY <2>1
    <3>2. ~(a[i + d].n < x.n)
      BY <1>2, <1>3, <2>1
    <3>3. i + d \notin 1..(Len(a) - 1)
      BY <3>1, <3>2
    <3> QED
      BY <1>3, <1>7, <3>3
  <2>3. m = i \/ m = j
    BY <1>3, <1>4, <1>7, <2>2
  <2> QED
    BY <2>3
<1>5. CASE j # Len(b)
  <2>1. /\ j + d \in 1..Len(a) /\ b[j] = a[j + d] /\ m # Len(b) /\ m + d \in (i + d)..(j + d)
        /\ i + d < j + d
    BY <1>2, <1>3, <1>5
  <2>2. b[m] = a[m + d]
    BY <1>2, <1>3, <2>1
  <2>3. a[m + d].k # "ready"
    BY <1>2, <1>3, <2>1 DEF Cons!RepliedFirst
  <2> QED
    BY <2>2, <2>3
<1> QED
  BY <1>4, <1>5

\* The prompt: pushing a line keeps the tail of what was said, no line twice in a row.
LEMMA PushedIs ==
  ASSUME NEW D \in Seq(Typed), NEW l \in Typed, lines = Cons!LastOf(D, HistoryCap)
  PROVE  /\ Cons!Pushed(l) = Cons!LastOf(Cons!Remembered(D, l), HistoryCap)
         /\ Cons!Pushed(l) \in Seq(Typed) /\ Len(Cons!Pushed(l)) <= HistoryCap
<1> DEFINE H == HistoryCap
<1>1. H \in Nat
  BY ConsoleAssumption
<1>2. /\ lines \in Seq(Typed) /\ Len(lines) = (IF Len(D) > H THEN H ELSE Len(D))
      /\ \A i \in 1..Len(lines) : lines[i] = D[i + (Len(D) - Len(lines))]
  BY <1>1, LastOfIs
<1>3. Len(D) \in Nat /\ Len(lines) \in Nat /\ Len(lines) <= Len(D) /\ Len(lines) <= H
  BY <1>1, <1>2
<1>4. Cons!Remembered(D, l) \in Seq(Typed)
  BY KeptType
<1>5. Cons!LastOf(Cons!Remembered(D, l), H) \in Seq(Typed) /\ Len(Cons!LastOf(Cons!Remembered(D, l), H)) <= H
  <2> DEFINE k == Cons!Remembered(D, l)
  <2> HIDE DEF k, H
  <2>1. Len(k) \in Nat /\ Cons!LastOf(k, H) \in Seq(Typed)
        /\ Len(Cons!LastOf(k, H)) = IF Len(k) > H THEN H ELSE Len(k)
    BY <1>1, <1>4, LastOfIs DEF k
  <2> QED
    BY <1>1, <2>1 DEF k
<1>6. Cons!LastOf(Append(lines, l), H) = Cons!LastOf(Append(D, l), H)
  <2>1. Append(lines, l) = lines \o <<l>> /\ Append(D, l) = D \o <<l>>
    BY <1>2, AppendIsConcat
  <2>2. <<l>> \in Seq(Typed)
    OBVIOUS
  <2> HIDE DEF H
  <2>3. Cons!LastOf(Cons!LastOf(D, H) \o <<l>>, H) = Cons!LastOf(D \o <<l>>, H)
    BY <1>1, <2>2, LastOfLastOf
  <2> QED
    BY <2>1, <2>3 DEF H
<1> DEFINE same == lines # <<>> /\ Cons!Last(lines) = l
           held == D # <<>> /\ Cons!Last(D) = l
<1>7. Cons!Pushed(l) = IF l = "empty" \/ same THEN lines ELSE Cons!LastOf(Append(lines, l), H)
  BY DEF Cons!Pushed
<1>8. Cons!Remembered(D, l) = IF l = "empty" \/ held THEN D ELSE Append(D, l)
  BY DEF Cons!Remembered
<1>9. CASE H = 0
  <2>1. lines = <<>>
    BY <1>2, <1>3, <1>9
  <2>2. \A q \in Seq(Typed) : Cons!LastOf(q, H) = <<>>
    <3> TAKE q \in Seq(Typed)
    <3>1. Len(q) \in Nat /\ Cons!LastOf(q, H) \in Seq(Typed)
          /\ Len(Cons!LastOf(q, H)) = IF Len(q) > H THEN H ELSE Len(q)
      BY <1>1, LastOfIs
    <3> QED
      BY <1>9, <3>1
  <2>3. Append(lines, l) \in Seq(Typed)
    BY <1>2
  <2> QED
    BY <1>4, <1>5, <1>7, <2>1, <2>2, <2>3
<1>10. CASE H # 0
  <2>1. (lines = <<>> <=> D = <<>>) /\ (lines # <<>> => lines[Len(lines)] = D[Len(D)])
    <3>1. lines = <<>> <=> Len(lines) = 0
      BY <1>2
    <3>2. D = <<>> <=> Len(D) = 0
      OBVIOUS
    <3>3. Len(lines) = 0 <=> Len(D) = 0
      BY <1>1, <1>2, <1>3, <1>10
    <3>4. Len(lines) # 0 => Len(lines) \in 1..Len(lines) /\ Len(lines) + (Len(D) - Len(lines)) = Len(D)
      BY <1>3
    <3> QED
      BY <1>2, <3>1, <3>2, <3>3, <3>4
  <2>2. same <=> held
    BY <2>1, LastIs
  <2> QED
    BY <1>5, <1>6, <1>7, <1>8, <2>2
<1> QED
  BY <1>9, <1>10

\* The parts of the invariant after a step.
LEMMA ConsNext ==
  /\ Cons!SummaryPairs' <=> (disturbed' = "no" => Cons!Paired(log'))
  /\ Cons!RepliesFirst' <=> (disturbed' = "no" => Cons!RepliedFirst(log'))
  /\ Cons!HistoryIsTheTail' <=> lines' = Cons!LastOf(Cons!Distinct(said'), HistoryCap)
  /\ Cons!LogIsTheRecord' <=>
       (announced'.alive /\ running' = Cons!Idle /\ disturbed' = "no" => Tells(log', announced'))
<1>1. Cons!SummaryPairs' <=> (disturbed' = "no" => Cons!Paired(log'))
  BY DEF Cons!SummaryPairs, Cons!Paired, Cons!Echoes, Cons!After, Cons!FirstAfter, Cons!LastEcho
<1>2. Cons!RepliesFirst' <=> (disturbed' = "no" => Cons!RepliedFirst(log'))
  BY DEF Cons!RepliesFirst, Cons!RepliedFirst
<1>3. Cons!HistoryIsTheTail' <=> lines' = Cons!LastOf(Cons!Distinct(said'), HistoryCap)
  BY DEF Cons!HistoryIsTheTail
<1>4. Cons!LogIsTheRecord' <=>
       (announced'.alive /\ running' = Cons!Idle /\ disturbed' = "no" => Tells(log', announced'))
  BY DEF Cons!LogIsTheRecord, Cons!RecordOf, Tells, Script, Began, NoImage
<1> QED
  BY <1>1, <1>2, <1>3, <1>4

\* What a log is as to its numbers and its pairs.
Numbered(a, m) == a \in Seq(Cons!LogLine) /\ Len(a) <= Cap /\ \A i \in 1..Len(a) : a[i].n <= m
Fine(a) == Cons!Paired(a) /\ Cons!RepliedFirst(a)
EchoLast(a, n) ==
  /\ a # <<>> /\ a[Len(a)].k = "echo" /\ a[Len(a)].n = n
  /\ \A i \in 1..(Len(a) - 1) : a[i].n < n

LEMMA LineNumbers == ASSUME NEW l \in Cons!LogLine PROVE l.n \in Nat
BY DEF Cons!LogLine

\* A line whose number is known by then; and one that is neither a command nor a reply.
LEMMA LineOn ==
  ASSUME NEW m \in Nat, NEW a, Numbered(a, m), NEW x \in Cons!LogLine, x.n <= m
  PROVE  /\ Numbered(Cons!Appended(a, <<x>>), m)
         /\ x.k # "reply" /\ Fine(a) => Fine(Cons!Appended(a, <<x>>))
<1> DEFINE b == Cons!Appended(a, <<x>>)
<1>1. a \in Seq(Cons!LogLine)
  BY DEF Numbered
<1>2. PICK d \in Nat : Lined(a, x, b, d)
  BY <1>1, AppendedOne
<1>3. b \in Seq(Cons!LogLine) /\ Len(b) <= Cap
  BY <1>1, AppendedOne
<1> HIDE DEF b
<1>4. \A i \in 1..Len(b) : b[i].n <= m
  <2> TAKE i \in 1..Len(b)
  <2>1. CASE i = Len(b)
    <3>1. b[Len(b)] = x
      BY <1>2, LinedSays
    <3> QED
      BY <2>1, <3>1
  <2>2. CASE i # Len(b)
    <3>1. i + d \in 1..Len(a) /\ b[i] = a[i + d]
      BY <1>2, <2>2, LinedSays
    <3> QED
      BY <3>1 DEF Numbered
  <2> QED
    BY <2>1, <2>2
<1>5. x.k # "reply" /\ Fine(a) => Fine(b)
  BY <1>2, PairedOn, RepliedOn DEF Fine
<1> QED
  BY <1>3, <1>4, <1>5 DEF Numbered, b

\* A new command is the last line.
LEMMA EchoOn ==
  ASSUME NEW m \in Nat, NEW a, Numbered(a, m), NEW x \in Cons!LogLine, x.k = "echo", x.n = m + 1
  PROVE  /\ Numbered(Cons!Appended(a, <<x>>), m + 1) /\ EchoLast(Cons!Appended(a, <<x>>), m + 1)
         /\ Fine(a) => Fine(Cons!Appended(a, <<x>>))
<1> DEFINE b == Cons!Appended(a, <<x>>)
<1>1. a \in Seq(Cons!LogLine) /\ m + 1 \in Nat
  BY DEF Numbered
<1>2. Numbered(a, m + 1)
  <2>1. \A i \in 1..Len(a) : a[i].n \in Nat /\ a[i].n <= m
    BY <1>1, LineNumbers DEF Numbered
  <2> QED
    BY <2>1 DEF Numbered
<1>3. Numbered(b, m + 1) /\ (Fine(a) => Fine(b))
  <2>1. x.n <= m + 1 /\ x.k # "reply"
    BY <1>1
  <2> QED
    BY <1>1, <1>2, <2>1, LineOn
<1>4. PICK d \in Nat : Lined(a, x, b, d)
  BY <1>1, AppendedOne
<1> HIDE DEF b
<1>5. /\ Len(b) \in Nat /\ Len(a) \in Nat /\ Len(b) = (Len(a) - d) + 1 /\ b[Len(b)] = x
      /\ \A i \in 1..Len(b) : i # Len(b) => i + d \in 1..Len(a) /\ b[i] = a[i + d]
  BY <1>4, LinedSays
<1>6. b # <<>>
  <2>1. Len(b) # 0
    BY <1>4, <1>5 DEF Lined
  <2> QED
    BY <2>1
<1>7. \A i \in 1..(Len(b) - 1) : b[i].n < m + 1
  <2> TAKE i \in 1..(Len(b) - 1)
  <2>1. i \in 1..Len(b) /\ i # Len(b)
    BY <1>5
  <2>2. i + d \in 1..Len(a) /\ b[i] = a[i + d]
    BY <1>5, <2>1
  <2>3. a[i + d].n \in Nat /\ a[i + d].n <= m
    BY <1>1, <2>2, LineNumbers DEF Numbered
  <2> QED
    BY <2>2, <2>3
<1> QED
  BY <1>3, <1>5, <1>6, <1>7 DEF EchoLast, b

\* The reply to the command that is the last line.
LEMMA ReplyOn ==
  ASSUME NEW n \in Nat, NEW a, Numbered(a, n), EchoLast(a, n), NEW x \in Cons!LogLine,
         x.k = "reply", x.n = n
  PROVE  /\ Numbered(Cons!Appended(a, <<x>>), n)
         /\ Fine(a) => Fine(Cons!Appended(a, <<x>>))
<1>1. a \in Seq(Cons!LogLine)
  BY DEF Numbered
<1>2. Numbered(Cons!Appended(a, <<x>>), n)
  BY LineOn
<1>3. PICK d \in Nat : Lined(a, x, Cons!Appended(a, <<x>>), d)
  BY <1>1, AppendedOne
<1>4. Cons!Paired(a) => Cons!Paired(Cons!Appended(a, <<x>>))
  BY <1>3, PairedOn DEF EchoLast
<1>5. Cons!RepliedFirst(a) => Cons!RepliedFirst(Cons!Appended(a, <<x>>))
  BY <1>3, RepliedOn DEF EchoLast
<1> QED
  BY <1>2, <1>4, <1>5 DEF Fine

\* The lines there are, and what a script does with them.
LEMMA LinesAre ==
  /\ \A n \in Nat : /\ Cons!Reply(n) \in Cons!LogLine /\ Cons!Reply(n).k = "reply" /\ Cons!Reply(n).n = n
                    /\ \A st \in State : Cons!Then(st, Cons!Reply(n)) = st
  /\ Cons!Handshake \in Cons!LogLine /\ Cons!Handshake.k = "ready" /\ Cons!Handshake.n = 0
  /\ \A w \in {"image", "session ended"} :
       /\ Cons!Note(w) \in Cons!LogLine /\ Cons!Note(w).k = "note" /\ Cons!Note(w).n = 0 /\ Cons!Note(w).c = w
       /\ \A st \in State : Cons!Then(st, Cons!Note(w)) = st
<1>1. ASSUME NEW n \in Nat
      PROVE  /\ Cons!Reply(n) \in Cons!LogLine /\ Cons!Reply(n).k = "reply" /\ Cons!Reply(n).n = n
             /\ \A st \in State : Cons!Then(st, Cons!Reply(n)) = st
  <2>1. /\ Cons!Reply(n) \in Cons!LogLine /\ Cons!Reply(n).k = "reply" /\ Cons!Reply(n).n = n
    BY KnownTrits DEF Cons!Reply, Cons!Line, Cons!LogLine, Cons!Shows
  <2> QED
    BY <2>1 DEF Cons!Then, Cons!InScript
<1>2. Cons!Handshake \in Cons!LogLine /\ Cons!Handshake.k = "ready" /\ Cons!Handshake.n = 0
  BY KnownTrits DEF Cons!Handshake, Cons!Line, Cons!LogLine, Cons!Shows
<1>3. ASSUME NEW w \in {"image", "session ended"}
      PROVE  /\ Cons!Note(w) \in Cons!LogLine /\ Cons!Note(w).k = "note" /\ Cons!Note(w).n = 0
             /\ Cons!Note(w).c = w
             /\ \A st \in State : Cons!Then(st, Cons!Note(w)) = st
  <2>2. /\ Cons!Note(w) \in Cons!LogLine /\ Cons!Note(w).k = "note" /\ Cons!Note(w).n = 0
        /\ Cons!Note(w).c = w
    <3>1. CASE w = "image"
      BY <3>1, KnownTrits DEF Cons!Note, Cons!Line, Cons!LogLine, Cons!Shows
    <3>2. CASE w = "session ended"
      BY <3>2, KnownTrits DEF Cons!Note, Cons!Line, Cons!LogLine, Cons!Shows
    <3> QED
      BY <3>1, <3>2
  <2> QED
    BY <2>2 DEF Cons!Then, Cons!Does
<1> QED
  BY <1>1, <1>2, <1>3

LEMMA EchoIs ==
  ASSUME NEW e \in Cons!Shows, NEW n \in Nat, NEW x \in Cons!Trits
  PROVE  /\ Cons!Echo(e, n, x) \in Cons!LogLine /\ Cons!Echo(e, n, x).k = "echo"
         /\ Cons!Echo(e, n, x).n = n /\ Cons!Echo(e, n, x).c = e
BY DEF Cons!Echo, Cons!Line, Cons!LogLine

LEMMA EchoesDo ==
  ASSUME NEW n, NEW x, NEW st \in State
  PROVE  /\ Cons!Then(st, Cons!Echo("set", n, x)) = [st EXCEPT !.pin = x]
         /\ Cons!Then(st, Cons!Echo("poke", n, x)) = [st EXCEPT !.word = x]
         /\ Cons!Then(st, Cons!Echo("clear", n, x)) = [st EXCEPT !.word = Cons!Unknown]
         /\ \A e \in {"load", "help", "empty"} : Cons!Then(st, Cons!Echo(e, n, x)) = st
BY DEF Cons!Echo, Cons!Line, Cons!Then, Cons!InScript, Cons!Does

\* A command with its reply: a script does with them what x does.
LEMMA CommandOn ==
  ASSUME NEW m \in Nat, NEW a, Numbered(a, m), NEW x \in Cons!LogLine, x.k = "echo", x.n = m + 1
  PROVE  LET t == Cons!Appended(a, <<x, Cons!Reply(m + 1)>>)
         IN /\ Numbered(t, m + 1)
            /\ Fine(a) => Fine(t)
            /\ \A old \in Session, new \in Session :
                 /\ Tells(a, old) /\ new.start = old.start
                 /\ \A st \in State : st.pin = old.pin => Cons!Then(st, x).pin = new.pin
                 /\ \A st \in State : x.c # "image" /\ st.word = old.word => Cons!Then(st, x).word = new.word
                 => Tells(t, new)
<1> DEFINE y == Cons!Reply(m + 1)
           b == Cons!Appended(a, <<x>>)
           t == Cons!Appended(a, <<x, y>>)
<1>1. a \in Seq(Cons!LogLine) /\ m + 1 \in Nat
  BY DEF Numbered
<1>2. y \in Cons!LogLine /\ y.k = "reply" /\ y.n = m + 1 /\ \A st \in State : Cons!Then(st, y) = st
  BY <1>1, LinesAre
<1> HIDE DEF y
<1>3. t = Cons!Appended(b, <<y>>)
  BY <1>1, <1>2, AppendedMore
<1> HIDE DEF t
<1>4. Numbered(b, m + 1) /\ EchoLast(b, m + 1) /\ (Fine(a) => Fine(b))
  BY EchoOn
<1>5. Numbered(t, m + 1) /\ (Fine(b) => Fine(t))
  BY <1>1, <1>2, <1>3, <1>4, ReplyOn
<1>6. ASSUME NEW old \in Session, NEW new \in Session, Tells(a, old), new.start = old.start,
             \A st \in State : st.pin = old.pin => Cons!Then(st, x).pin = new.pin,
             \A st \in State : x.c # "image" /\ st.word = old.word => Cons!Then(st, x).word = new.word
      PROVE  Tells(t, new)
  <2>1. PICK d \in Nat : Lined(a, x, b, d)
    BY <1>1, AppendedOne
  <2>2. b \in Seq(Cons!LogLine)
    BY <1>1, AppendedOne
  <2> HIDE DEF b
  <2>3. Tells(b, new)
    BY <1>6, <2>1, TellsOn
  <2>4. PICK g \in Nat : Lined(b, y, t, g)
    BY <1>2, <1>3, <2>2, AppendedOne
  <2>5. y.k # "ready"
    BY <1>2
  <2>6. /\ \A st \in State : st.pin = new.pin => Cons!Then(st, y).pin = new.pin
        /\ \A st \in State : y.c # "image" /\ st.word = new.word => Cons!Then(st, y).word = new.word
    BY <1>2
  <2> QED
    BY <2>3, <2>4, <2>5, <2>6, TellsOn
<1> QED
  BY <1>4, <1>5, <1>6 DEF t, y

\* What the type invariant says of the parts of the state.
LEMMA ConsTypes ==
  ASSUME Cons!TypeOK
  PROVE  /\ Numbered(log, number) /\ log \in Seq(Cons!LogLine) /\ number \in Nat
         /\ announced \in Session /\ running.n \in 0..number /\ rebuilt \in BOOLEAN
         /\ lines \in Seq(Typed) /\ said \in Seq(Typed) /\ taken \in 0..MaxLines
         /\ disturbed \in {"no", "page", "failed"}
<1>1. log \in Seq(Cons!LogLine) /\ Len(log) <= Cap /\ \A i \in DOMAIN log : log[i].n <= number
  BY DEF Cons!TypeOK
<1>2. Numbered(log, number)
  BY <1>1 DEF Numbered
<1> QED
  BY <1>1, <1>2 DEF Cons!TypeOK, Session

\* Later numbers leave a log numbered.
LEMMA NumberedLater == ASSUME NEW m \in Nat, NEW a, Numbered(a, m) PROVE Numbered(a, m + 1)
<1>1. \A i \in 1..Len(a) : a[i].n \in Nat
  BY LineNumbers DEF Numbered
<1> QED
  BY <1>1 DEF Numbered

\* Types, after a step.
LEMMA ConsTypesNext ==
  ASSUME number' \in Nat, Numbered(log', number'), announced' \in Session,
         running' \in [n : 0..number', line : Typed \cup {"none"}, session : Nat],
         rebuilt' \in BOOLEAN, disturbed' \in {"no", "page", "failed"}, taken' \in 0..MaxLines,
         lines' \in Seq(Typed), Len(lines') <= HistoryCap, cursor' \in 0..Len(lines'), said' \in Seq(Typed)
  PROVE  Cons!TypeOK'
<1>1. log' \in Seq(Cons!LogLine) /\ Len(log') <= Cap /\ \A i \in DOMAIN log' : log'[i].n <= number'
  BY DEF Numbered
<1>2. Cons!LogLine' = Cons!LogLine /\ Cons!Trits' = Cons!Trits
  BY DEF Cons!LogLine, Cons!Trits, Cons!Shows, Cons!Full
<1>3. announced' \in [id : Nat, pin : Cons!Trits, word : Cons!Trits, alive : BOOLEAN, start : Cons!Trits]
  BY DEF Session
<1> QED
  BY <1>1, <1>2, <1>3 DEF Cons!TypeOK

\* Whatever happens while no line waits keeps the invariant, when its lines are in order and
\* tell what it did; while a line waits, it is disturbed.
LEMMA HappeningKeeps ==
  ASSUME Cons!ConsoleInv, Cons!Step, running' = running, rebuilt' = rebuilt,
         running = Cons!Idle => disturbed' = disturbed,
         running # Cons!Idle => disturbed' \in {"page", "failed"},
         number' = number \/ number' = number + 1, Numbered(log', number'), announced' \in Session,
         lines' \in Seq(Typed), Len(lines') <= HistoryCap, cursor' \in 0..Len(lines'), said' \in Seq(Typed),
         Cons!HistoryIsTheTail',
         running = Cons!Idle /\ Fine(log) => Fine(log'),
         running = Cons!Idle /\ announced'.alive /\ (announced.alive => Tells(log, announced)) =>
           Tells(log', announced')
  PROVE  Cons!ConsoleInv'
<1>1. Cons!TypeOK /\ ~rebuilt /\ taken < MaxLines /\ taken' = taken + 1
  BY DEF Cons!ConsoleInv, Cons!LogTellsTheSession, Cons!Step
<1>2. Cons!TypeOK'
  <2>1. number \in Nat /\ number' \in Nat /\ number <= number' /\ taken' \in 0..MaxLines
    BY <1>1, ConsTypes, ConsoleAssumption
  <2>2. running \in [n : 0..number, line : Typed \cup {"none"}, session : Nat] /\ rebuilt \in BOOLEAN
        /\ disturbed \in {"no", "page", "failed"}
    BY <1>1 DEF Cons!TypeOK
  <2>3. 0..number \subseteq 0..number'
    BY <2>1
  <2>4. running' \in [n : 0..number', line : Typed \cup {"none"}, session : Nat]
    BY <2>2, <2>3
  <2> QED
    BY <2>1, <2>2, <2>4, ConsTypesNext
<1>3. disturbed' = "no" => running = Cons!Idle /\ disturbed = "no"
  OBVIOUS
<1>4. disturbed = "no" => Fine(log)
  BY DEF Cons!ConsoleInv, Cons!LogTellsTheSession, Cons!SummaryPairs, Cons!RepliesFirst, Fine
<1>5. Cons!SummaryPairs' /\ Cons!RepliesFirst'
  BY <1>3, <1>4, ConsNext DEF Fine
<1>6. Cons!LogIsTheRecord'
  <2>1. running = Cons!Idle /\ disturbed = "no" /\ announced.alive => Tells(log, announced)
    BY RecordTells DEF Cons!ConsoleInv, Cons!LogTellsTheSession
  <2> QED
    BY <1>3, <2>1, ConsNext
<1>7. Cons!EchoIsLast' /\ Cons!RebuiltIsFresh'
  BY <1>1, <1>3 DEF Cons!EchoIsLast, Cons!RebuiltIsFresh, Cons!Idle
<1> QED
  BY <1>2, <1>5, <1>6, <1>7 DEF Cons!ConsoleInv, Cons!LogTellsTheSession

\* The prompt is left alone.
LEMMA RingStays ==
  ASSUME Cons!ConsoleInv, UNCHANGED Cons!Ring
  PROVE  /\ lines' \in Seq(Typed) /\ Len(lines') <= HistoryCap /\ cursor' \in 0..Len(lines')
         /\ said' \in Seq(Typed) /\ Cons!HistoryIsTheTail'
BY ConsNext DEF Cons!ConsoleInv, Cons!LogTellsTheSession, Cons!TypeOK, Cons!HistoryIsTheTail, Cons!Ring

LEMMA DisturbSays ==
  ASSUME Cons!TypeOK, Cons!Disturb
  PROVE  /\ running = Cons!Idle => disturbed' = disturbed
         /\ running # Cons!Idle => disturbed' \in {"page", "failed"}
BY DEF Cons!TypeOK, Cons!Disturb

LEMMA SteppedTypes == Cons!ConsoleInv => Cons!TypeOK
BY DEF Cons!ConsoleInv, Cons!LogTellsTheSession

\* Clearing the console, opening another project, and an edit that ends the session.
LEMMA NothingToTell == ASSUME NEW ses PROVE Tells(<<>>, ses)
BY DEF Tells, Cons!Announced

LEMMA EmptyIsFine == Fine(<<>>) /\ \A m \in Nat : Numbered(<<>>, m)
<1>1. Cap \in Nat
  BY ConsoleAssumption
<1> QED
  BY <1>1 DEF Fine, Cons!Paired, Cons!Echoes, Cons!RepliedFirst, Numbered

LEMMA ClearKeeps == Cons!ConsoleInv /\ Cons!Clear => Cons!ConsoleInv'
<1> SUFFICES ASSUME Cons!ConsoleInv, Cons!Clear PROVE Cons!ConsoleInv'
  OBVIOUS
<1>1. /\ Cons!Step /\ log' = <<>> /\ Cons!Disturb /\ UNCHANGED Cons!Ring
      /\ running' = running /\ rebuilt' = rebuilt /\ announced' = announced /\ number' = number
  BY DEF Cons!Clear, Cons!Ring
<1>2. Cons!TypeOK
  BY SteppedTypes
<1> QED
  BY <1>1, <1>2, HappeningKeeps, DisturbSays, RingStays, ConsTypes, EmptyIsFine, NothingToTell

LEMMA OpenKeeps == Cons!ConsoleInv /\ Cons!OpenProject => Cons!ConsoleInv'
<1> SUFFICES ASSUME Cons!ConsoleInv, Cons!OpenProject PROVE Cons!ConsoleInv'
  OBVIOUS
<1>1. /\ Cons!Step /\ log' = <<>> /\ Cons!Disturb
      /\ running' = running /\ rebuilt' = rebuilt /\ number' = number
      /\ announced' = [announced EXCEPT !.alive = FALSE]
      /\ lines' = <<>> /\ cursor' = 0 /\ said' = <<>>
  BY DEF Cons!OpenProject
<1>2. Cons!TypeOK
  BY SteppedTypes
<1>3. announced' \in Session
  BY <1>1, <1>2, ConsTypes DEF Session
<1>4. /\ lines' \in Seq(Typed) /\ Len(lines') <= HistoryCap /\ cursor' \in 0..Len(lines')
      /\ said' \in Seq(Typed)
  BY <1>1, ConsoleAssumption
<1>5. Cons!HistoryIsTheTail'
  <2>1. Cons!Distinct(<<>>) = <<>>
    BY DistinctEmpty
  <2>2. Len(<<>>) = 0 /\ HistoryCap \in Nat
    BY ConsoleAssumption
  <2>3. Cons!LastOf(<<>>, HistoryCap) = <<>>
    BY <2>2 DEF Cons!LastOf
  <2> QED
    BY <1>1, <2>1, <2>3, ConsNext
<1> QED
  BY <1>1, <1>2, <1>3, <1>4, <1>5, HappeningKeeps, DisturbSays, ConsTypes, EmptyIsFine, NothingToTell

\* An edit ends the session: a note, and nothing more to tell.
LEMMA DropKeeps == Cons!ConsoleInv /\ Cons!Drop => Cons!ConsoleInv'
<1> SUFFICES ASSUME Cons!ConsoleInv, Cons!Drop PROVE Cons!ConsoleInv'
  OBVIOUS
<1> DEFINE x == Cons!Note("session ended")
<1>1. /\ Cons!Step /\ log' = Cons!Appended(log, <<x>>) /\ Cons!Disturb /\ UNCHANGED Cons!Ring
      /\ running' = running /\ rebuilt' = rebuilt /\ number' = number
      /\ announced' = [announced EXCEPT !.alive = FALSE]
  BY DEF Cons!Drop, Cons!Ring
<1>2. Cons!TypeOK
  BY SteppedTypes
<1>3. announced' \in Session /\ ~announced'.alive
  BY <1>1, <1>2, ConsTypes DEF Session
<1>4. x \in Cons!LogLine /\ x.k = "note" /\ x.n = 0
  BY LinesAre
<1> HIDE DEF x
<1>5. Numbered(log', number') /\ (Fine(log) => Fine(log'))
  <2>1. number \in Nat /\ Numbered(log, number) /\ x.n <= number /\ x.k # "reply"
    BY <1>2, <1>4, ConsTypes
  <2> QED
    BY <1>1, <1>4, <2>1, LineOn
<1> QED
  BY <1>1, <1>2, <1>3, <1>5, HappeningKeeps, DisturbSays, RingStays

\* A session is built: its handshake, and the pins the reader had.
LEMMA UnderIs ==
  ASSUME NEW x \in Cons!Pins
  PROVE  Cons!Under(x) \in Cons!Trits /\ Cons!valueWithMask(x) = Cons!Under(x)
BY DEF Cons!Pins, Cons!Under, Cons!valueWithMask, Cons!Trits, Cons!Full

LEMMA ConsBuildKeeps ==
  ASSUME Cons!ConsoleInv, NEW x \in Cons!Pins, Cons!Build(Cons!Under(x))
  PROVE  Cons!ConsoleInv'
<1> DEFINE y == Cons!Handshake
           p == Cons!Under(x)
<1>1. p \in Cons!Trits
  BY UnderIs
<1> HIDE DEF p
<1>2. /\ Cons!Step /\ log' = Cons!Appended(log, <<y>>) /\ Cons!Disturb /\ UNCHANGED Cons!Ring
      /\ running' = running /\ rebuilt' = rebuilt /\ number' = number
      /\ announced' = [id |-> announced.id + 1, pin |-> p, word |-> Cons!Unknown, alive |-> TRUE, start |-> p]
  BY DEF Cons!Build, Cons!Ring, p
<1>3. Cons!TypeOK
  BY SteppedTypes
<1>4. announced' \in Session /\ announced'.pin = announced'.start /\ announced'.word = Cons!Unknown
  BY <1>1, <1>2, <1>3, ConsTypes, KnownTrits DEF Session
<1>5. y \in Cons!LogLine /\ y.k = "ready" /\ y.n = 0
  BY LinesAre
<1> HIDE DEF y
<1>6. number \in Nat /\ Numbered(log, number) /\ y.n <= number /\ y.k # "reply" /\ log \in Seq(Cons!LogLine)
  BY <1>3, <1>5, ConsTypes
<1>7. Numbered(log', number') /\ (Fine(log) => Fine(log'))
  BY <1>2, <1>5, <1>6, LineOn
<1>8. Tells(log', announced')
  <2>1. PICK d \in Nat : Lined(log, y, log', d)
    BY <1>2, <1>5, <1>6, AppendedOne
  <2> QED
    BY <1>4, <1>5, <2>1, TellsAtFirst
<1> QED
  BY <1>2, <1>3, <1>4, <1>7, <1>8, HappeningKeeps, DisturbSays, RingStays

\* What a face did, and its line or lines, when no line waits.
LEMMA FaceKeeps ==
  ASSUME Cons!ConsoleInv, NEW event \in {"drive", "poke", "clear", "image", "reset"}, NEW x \in Cons!Trits,
         event = "drive" => x \in Cons!Pins, Cons!Face(event, x)
  PROVE  Cons!ConsoleInv'
<1> DEFINE n == number + 1
           y == Cons!Reply(n)
<1>1. /\ Cons!Step /\ announced.alive /\ Cons!Disturb /\ UNCHANGED Cons!Ring
      /\ running' = running /\ rebuilt' = rebuilt /\ number' = n
      /\ announced' = CASE event = "drive" -> [announced EXCEPT !.pin = Cons!Under(x)]
                        [] event = "poke" -> [announced EXCEPT !.word = x]
                        [] event = "clear" -> [announced EXCEPT !.word = Cons!Unknown]
                        [] event = "image" -> [announced EXCEPT !.word = [v |-> 1, d |-> Cons!Full]]
                        [] event = "reset" -> [announced EXCEPT !.pin = Cons!Unknown, !.word = Cons!Unknown,
                                                                !.start = Cons!Unknown]
      /\ log' = IF running = Cons!Idle THEN Cons!Appended(log, Cons!commandFor(event, x, n)) ELSE log
  BY DEF Cons!Face, Cons!Recorded, Cons!Ring
<1>2. Cons!TypeOK
  BY SteppedTypes
<1>3. /\ number \in Nat /\ Numbered(log, number) /\ log \in Seq(Cons!LogLine) /\ announced \in Session
      /\ n \in Nat /\ 0 <= n
  BY <1>2, ConsTypes
<1>4. event = "drive" => Cons!Under(x) \in Cons!Trits /\ Cons!valueWithMask(x) = Cons!Under(x)
  BY UnderIs
<1>5. [v |-> 1, d |-> Cons!Full] \in Cons!Trits
  BY DEF Cons!Trits, Cons!Full
<1>6. announced' \in Session
  BY <1>1, <1>3, <1>4, <1>5, KnownTrits DEF Session
<1>7. Numbered(log, n)
  BY <1>3, NumberedLater
<1> DEFINE Kept2 == /\ Numbered(log', n) /\ (Fine(log) => Fine(log'))
                    /\ Tells(log, announced) => Tells(log', announced')
<1>8. CASE running # Cons!Idle
  BY <1>1, <1>2, <1>6, <1>7, <1>8, HappeningKeeps, DisturbSays, RingStays
<1>9. ASSUME running = Cons!Idle, NEW e \in Cons!Shows, NEW z \in Cons!Trits,
             Cons!commandFor(event, x, n) = <<Cons!Echo(e, n, z), y>>,
             announced'.start = announced.start,
             \A st \in State : st.pin = announced.pin => Cons!Then(st, Cons!Echo(e, n, z)).pin = announced'.pin,
             \A st \in State : st.word = announced.word =>
               Cons!Then(st, Cons!Echo(e, n, z)).word = announced'.word
      PROVE  Kept2
  <2> DEFINE w == Cons!Echo(e, n, z)
  <2>1. w \in Cons!LogLine /\ w.k = "echo" /\ w.n = number + 1
    <3> HIDE DEF n
    <3>1. w \in Cons!LogLine /\ w.k = "echo" /\ w.n = n
      BY <1>3, <1>9, EchoIs
    <3> QED
      BY <3>1 DEF n
  <2>2. log' = Cons!Appended(log, <<w, Cons!Reply(number + 1)>>)
    BY <1>1, <1>9
  <2> HIDE DEF w
  <2>3. /\ Numbered(log', number + 1) /\ (Fine(log) => Fine(log'))
        /\ /\ Tells(log, announced) /\ announced'.start = announced.start
           /\ \A st \in State : st.pin = announced.pin => Cons!Then(st, w).pin = announced'.pin
           /\ \A st \in State : w.c # "image" /\ st.word = announced.word => Cons!Then(st, w).word = announced'.word
           => Tells(log', announced')
    BY <1>3, <1>6, <2>1, <2>2, CommandOn
  <2> QED
    BY <1>9, <2>3 DEF w
<1>10. ASSUME running = Cons!Idle PROVE Kept2
  <2>1. CASE event = "drive"
    <3> DEFINE u == Cons!Under(x)
               w == Cons!Echo("set", n, u)
    <3>1. Cons!commandFor(event, x, n) = <<w, y>>
      BY <1>4, <2>1 DEF Cons!commandFor
    <3>2. announced' = [announced EXCEPT !.pin = u] /\ u \in Cons!Trits
      BY <1>1, <1>4, <2>1
    <3> HIDE DEF u
    <3>3. "set" \in Cons!Shows
      BY DEF Cons!Shows
    <3>4. \A st \in State : Cons!Then(st, w) = [st EXCEPT !.pin = u]
      BY EchoesDo
    <3>5. announced'.start = announced.start /\ announced'.pin = u /\ announced'.word = announced.word
      BY <1>3, <3>2 DEF Session
    <3>6. \A st \in State : Cons!Then(st, w).pin = u /\ Cons!Then(st, w).word = st.word
      BY <3>4 DEF State
    <3> QED
      BY <1>9, <1>10, <3>1, <3>2, <3>3, <3>5, <3>6
  <2>2. CASE event = "poke"
    <3> DEFINE w == Cons!Echo("poke", n, x)
    <3>1. Cons!commandFor(event, x, n) = <<w, y>>
      BY <2>2 DEF Cons!commandFor
    <3>2. announced' = [announced EXCEPT !.word = x]
      BY <1>1, <2>2
    <3>3. "poke" \in Cons!Shows
      BY DEF Cons!Shows
    <3>4. \A st \in State : Cons!Then(st, w) = [st EXCEPT !.word = x]
      BY EchoesDo
    <3>5. announced'.start = announced.start /\ announced'.pin = announced.pin /\ announced'.word = x
      BY <1>3, <3>2 DEF Session
    <3>6. \A st \in State : Cons!Then(st, w).pin = st.pin /\ Cons!Then(st, w).word = x
      BY <3>4 DEF State
    <3> QED
      BY <1>9, <1>10, <3>1, <3>3, <3>5, <3>6
  <2>3. CASE event = "clear"
    <3> DEFINE u == Cons!Unknown
               w == Cons!Echo("clear", n, u)
    <3>1. Cons!commandFor(event, x, n) = <<w, y>>
      BY <2>3 DEF Cons!commandFor
    <3>2. announced' = [announced EXCEPT !.word = u] /\ u \in Cons!Trits
      BY <1>1, <2>3, KnownTrits
    <3>3. "clear" \in Cons!Shows
      BY DEF Cons!Shows
    <3>4. \A st \in State : Cons!Then(st, w) = [st EXCEPT !.word = u]
      BY EchoesDo
    <3>5. announced'.start = announced.start /\ announced'.pin = announced.pin /\ announced'.word = u
      BY <1>3, <3>2 DEF Session
    <3>6. \A st \in State : Cons!Then(st, w).pin = st.pin /\ Cons!Then(st, w).word = u
      BY <3>4 DEF State
    <3> QED
      BY <1>9, <1>10, <3>1, <3>2, <3>3, <3>5, <3>6
  <2>4. CASE event = "image"
    <3> DEFINE w == Cons!Note("image")
    <3>1. log' = Cons!Appended(log, <<w>>)
      BY <1>1, <1>10, <2>4 DEF Cons!commandFor
    <3>2. announced'.start = announced.start /\ announced'.pin = announced.pin
      BY <1>1, <1>3, <2>4 DEF Session
    <3>3. /\ w \in Cons!LogLine /\ w.k = "note" /\ w.n = 0 /\ w.c = "image"
          /\ \A st \in State : Cons!Then(st, w) = st
      BY LinesAre
    <3> HIDE DEF w
    <3>4. w.n <= n /\ w.k # "reply" /\ w.k # "ready"
      BY <1>3, <3>3
    <3>5. Numbered(log', n) /\ (Fine(log) => Fine(log'))
      <4> HIDE DEF n
      <4> QED
        BY <1>3, <1>7, <3>1, <3>3, <3>4, LineOn
    <3>6. PICK d \in Nat : Lined(log, w, log', d)
      BY <1>3, <3>1, <3>3, AppendedOne
    <3>7. /\ \A st \in State : st.pin = announced.pin => Cons!Then(st, w).pin = announced'.pin
          /\ \A st \in State : w.c # "image" /\ st.word = announced.word => Cons!Then(st, w).word = announced'.word
      BY <3>2, <3>3
    <3>8. Tells(log, announced) => Tells(log', announced')
      BY <1>3, <1>6, <3>2, <3>4, <3>6, <3>7, TellsOn
    <3> QED
      BY <3>5, <3>8
  <2>5. CASE event = "reset"
    <3> DEFINE u == Cons!Unknown
               w == Cons!Echo("reset", n, u)
               h == Cons!Handshake
               t == Cons!Appended(log, <<w, y>>)
    <3>1. log' = Cons!Appended(log, <<w, y, h>>)
      BY <1>1, <1>10, <2>5 DEF Cons!commandFor
    <3>2. announced'.pin = announced'.start /\ announced'.word = Cons!Unknown
      BY <1>1, <1>3, <2>5 DEF Session
    <3>3. "reset" \in Cons!Shows
      BY DEF Cons!Shows
    <3>4. w \in Cons!LogLine /\ w.k = "echo" /\ w.n = number + 1
      <4> HIDE DEF n
      <4>1. w \in Cons!LogLine /\ w.k = "echo" /\ w.n = n
        BY <1>3, <3>3, KnownTrits, EchoIs
      <4> QED
        BY <4>1 DEF n
    <3>5. y \in Cons!LogLine /\ h \in Cons!LogLine /\ h.k = "ready" /\ h.n = 0
      BY <1>3, LinesAre
    <3> HIDE DEF w, h
    <3>6. Numbered(t, n) /\ (Fine(log) => Fine(t))
      BY <1>3, <3>4, CommandOn
    <3> HIDE DEF y
    <3>7. log' = Cons!Appended(t, <<h>>) /\ t \in Seq(Cons!LogLine)
      <4>1. t = Cons!Appended(Cons!Appended(log, <<w>>), <<y>>)
            /\ log' = Cons!Appended(Cons!Appended(Cons!Appended(log, <<w>>), <<y>>), <<h>>)
        BY <1>3, <3>1, <3>4, <3>5, AppendedMore
      <4> QED
        BY <3>6, <4>1 DEF Numbered
    <3> HIDE DEF t
    <3>8. Numbered(log', n) /\ (Fine(log) => Fine(log'))
      <4>1. h.n <= n /\ h.k # "reply"
        BY <1>3, <3>5
      <4> HIDE DEF n
      <4> QED
        BY <1>3, <3>5, <3>6, <3>7, <4>1, LineOn
    <3>9. PICK d \in Nat : Lined(t, h, log', d)
      BY <3>5, <3>7, AppendedOne
    <3>10. Tells(log', announced')
      BY <1>6, <3>2, <3>5, <3>9, TellsAtFirst
    <3> QED
      BY <3>8, <3>10
  <2> QED
    BY <2>1, <2>2, <2>3, <2>4, <2>5
<1>11. CASE running = Cons!Idle
  <2>1. Kept2
    BY <1>10, <1>11
  <2> QED
    BY <1>1, <1>2, <1>6, <1>11, <2>1, HappeningKeeps, DisturbSays, RingStays
<1> QED
  BY <1>8, <1>11

\* A line is typed: remembered, echoed, and answered at once or awaited.
LEMMA SubmitRemembers ==
  ASSUME Cons!ConsoleInv, NEW line \in Typed, Cons!Remember(line)
  PROVE  /\ lines' \in Seq(Typed) /\ Len(lines') <= HistoryCap /\ cursor' \in 0..Len(lines')
         /\ said' \in Seq(Typed) /\ Cons!HistoryIsTheTail'
<1> DEFINE D == Cons!Distinct(said)
<1>1. lines' = Cons!Pushed(line) /\ cursor' = Len(Cons!Pushed(line)) /\ said' = Append(said, line)
  BY DEF Cons!Remember
<1>2. said \in Seq(Typed) /\ lines = Cons!LastOf(D, HistoryCap)
  BY SteppedTypes, ConsTypes DEF Cons!ConsoleInv, Cons!LogTellsTheSession, Cons!HistoryIsTheTail
<1>3. D \in Seq(Typed) /\ Cons!Distinct(Append(said, line)) = Cons!Remembered(D, line)
  BY <1>2, DistinctAppends
<1> HIDE DEF D
<1>4. /\ Cons!Pushed(line) = Cons!LastOf(Cons!Remembered(D, line), HistoryCap)
      /\ Cons!Pushed(line) \in Seq(Typed) /\ Len(Cons!Pushed(line)) <= HistoryCap
  BY <1>2, <1>3, PushedIs
<1>5. said' \in Seq(Typed)
  BY <1>1, <1>2, AppendProperties
<1>6. lines' \in Seq(Typed) /\ Len(lines') <= HistoryCap /\ cursor' \in 0..Len(lines')
  <2>1. Len(lines') \in Nat /\ cursor' = Len(lines')
    BY <1>1, <1>4
  <2> QED
    BY <1>1, <1>4, <2>1
<1>7. Cons!HistoryIsTheTail'
  BY <1>1, <1>3, <1>4, ConsNext
<1> QED
  BY <1>5, <1>6, <1>7

\* The line waits for a runtime.
LEMMA WaitingKeeps ==
  ASSUME Cons!ConsoleInv, NEW line \in Typed, line \in {"reset", "quit"}, Cons!Submit(line)
  PROVE  Cons!ConsoleInv'
<1> DEFINE n == number + 1
           x == Cons!Echo(line, n, Cons!Unknown)
<1>1. /\ Cons!Step /\ announced.alive /\ running = Cons!Idle /\ Cons!Remember(line) /\ number' = n
      /\ running' = [n |-> n, line |-> line, session |-> announced.id]
      /\ log' = Cons!Appended(log, <<x>>) /\ announced' = announced
      /\ rebuilt' = rebuilt /\ disturbed' = disturbed
  BY DEF Cons!Submit
<1>2. Cons!TypeOK
  BY SteppedTypes
<1>3. number \in Nat /\ Numbered(log, number) /\ announced \in Session /\ n \in Nat /\ n # 0
  BY <1>2, ConsTypes
<1>4. x \in Cons!LogLine /\ x.k = "echo" /\ x.n = number + 1
  <2> HIDE DEF n
  <2>1. line \in Cons!Shows
    BY DEF Cons!Shows
  <2>2. x \in Cons!LogLine /\ x.k = "echo" /\ x.n = n
    BY <1>3, <2>1, KnownTrits, EchoIs
  <2> QED
    BY <2>2 DEF n
<1> HIDE DEF x
<1>5. Numbered(log', n) /\ EchoLast(log', n) /\ (Fine(log) => Fine(log'))
  BY <1>1, <1>3, <1>4, EchoOn
<1> HIDE DEF n
<1>6. /\ lines' \in Seq(Typed) /\ Len(lines') <= HistoryCap /\ cursor' \in 0..Len(lines')
      /\ said' \in Seq(Typed) /\ Cons!HistoryIsTheTail'
  BY <1>1, SubmitRemembers
<1>7. running' \in [n : 0..n, line : Typed \cup {"none"}, session : Nat] /\ running' # Cons!Idle
      /\ running'.n = n /\ running'.session = announced.id
  BY <1>1, <1>3 DEF Session, Cons!Idle
<1>8. rebuilt' = FALSE /\ disturbed' \in {"no", "page", "failed"} /\ taken' \in 0..MaxLines
  BY <1>1, <1>2, ConsTypes, ConsoleAssumption DEF Cons!Step
<1>9. Cons!TypeOK'
  BY <1>1, <1>3, <1>5, <1>6, <1>7, <1>8, ConsTypesNext
<1>10. disturbed = "no" => Fine(log)
  BY DEF Cons!ConsoleInv, Cons!LogTellsTheSession, Cons!SummaryPairs, Cons!RepliesFirst, Fine
<1>11. Cons!SummaryPairs' /\ Cons!RepliesFirst' /\ Cons!LogIsTheRecord'
  BY <1>1, <1>5, <1>7, <1>10, ConsNext DEF Fine
<1>12. Cons!EchoIsLast' /\ Cons!RebuiltIsFresh'
  BY <1>1, <1>5, <1>7, <1>8 DEF Cons!EchoIsLast, Cons!RebuiltIsFresh, EchoLast
<1> QED
  BY <1>6, <1>9, <1>11, <1>12 DEF Cons!ConsoleInv, Cons!LogTellsTheSession

\* The line is answered at once.
LEMMA AnsweredKeeps ==
  ASSUME Cons!ConsoleInv, NEW line \in Typed, line \notin {"reset", "quit"}, Cons!Submit(line)
  PROVE  Cons!ConsoleInv'
<1> DEFINE n == number + 1
           z == Cons!Value(line)
           x == Cons!Echo(line, n, z)
           y == Cons!Reply(n)
<1>1. /\ Cons!Step /\ announced.alive /\ running = Cons!Idle /\ Cons!Remember(line) /\ number' = n
      /\ running' = running /\ rebuilt' = rebuilt /\ disturbed' = disturbed
      /\ log' = Cons!Appended(log, <<x>> \o Cons!Answers(line, n)) /\ announced' = Cons!Ran(line, announced)
  BY DEF Cons!Submit
<1>2. Cons!TypeOK
  BY SteppedTypes
<1>3. /\ number \in Nat /\ Numbered(log, number) /\ announced \in Session /\ n \in Nat
      /\ log \in Seq(Cons!LogLine)
  BY <1>2, ConsTypes
<1>4. line \in {"set", "poke", "load", "help", "empty"} /\ line \in Cons!Shows
  BY ConsoleAssumption DEF Cons!Shows
<1>5. z \in Cons!Trits
  BY KnownTrits DEF Cons!Value, Cons!Trits, Cons!Full
<1>6. x \in Cons!LogLine /\ x.k = "echo" /\ x.n = number + 1 /\ x.c = line
  <2> HIDE DEF n, z
  <2>1. x \in Cons!LogLine /\ x.k = "echo" /\ x.n = n /\ x.c = line
    BY <1>3, <1>4, <1>5, EchoIs
  <2> QED
    BY <2>1 DEF n
<1>7. announced' \in Session /\ announced'.start = announced.start
  BY <1>1, <1>3, KnownTrits DEF Cons!Ran, Session, Cons!Trits, Cons!Full
<1>8. ASSUME NEW st \in State
      PROVE  /\ st.pin = announced.pin => Cons!Then(st, x).pin = announced'.pin
             /\ x.c # "image" /\ st.word = announced.word => Cons!Then(st, x).word = announced'.word
  <2>1. CASE line = "set"
    <3>1. Cons!Then(st, x) = [st EXCEPT !.pin = z] /\ z = Cons!BootLow
      BY <2>1, EchoesDo DEF Cons!Value
    <3>2. announced' = [announced EXCEPT !.pin = Cons!BootLow]
      BY <1>1, <2>1 DEF Cons!Ran
    <3> HIDE DEF x, z
    <3>3. Cons!Then(st, x).pin = Cons!BootLow /\ Cons!Then(st, x).word = st.word
      BY <3>1 DEF State
    <3>4. announced'.pin = Cons!BootLow /\ announced'.word = announced.word
      BY <1>3, <3>2 DEF Session
    <3> QED
      BY <3>3, <3>4
  <2>2. CASE line = "poke"
    <3>1. Cons!Then(st, x) = [st EXCEPT !.word = z] /\ z = [v |-> 1, d |-> Cons!Full]
      BY <2>2, EchoesDo DEF Cons!Value
    <3>2. announced' = [announced EXCEPT !.word = z]
      BY <1>1, <2>2, <3>1 DEF Cons!Ran
    <3> HIDE DEF x, z
    <3>3. Cons!Then(st, x).pin = st.pin /\ Cons!Then(st, x).word = z
      BY <3>1 DEF State
    <3>4. announced'.pin = announced.pin /\ announced'.word = z
      BY <1>3, <3>2 DEF Session
    <3> QED
      BY <3>3, <3>4
  <2>3. CASE line \in {"load", "help", "empty"}
    <3>1. Cons!Then(st, x) = st
      BY <2>3, EchoesDo
    <3>2. announced' = announced
      BY <1>1, <2>3 DEF Cons!Ran
    <3> QED
      BY <3>1, <3>2
  <2> QED
    BY <1>4, <2>1, <2>2, <2>3
<1>9. /\ lines' \in Seq(Typed) /\ Len(lines') <= HistoryCap /\ cursor' \in 0..Len(lines')
      /\ said' \in Seq(Typed) /\ Cons!HistoryIsTheTail'
  BY <1>1, SubmitRemembers
<1>10. Numbered(log', n) /\ (Fine(log) => Fine(log')) /\ (Tells(log, announced) => Tells(log', announced'))
  <2>1. CASE line \in {"help", "empty"}
    <3>1. log' = Cons!Appended(log, <<x>>)
      <4>1. <<x>> \o <<>> = <<x>> /\ Cons!Answers(line, n) = <<>>
        BY <2>1 DEF Cons!Answers
      <4> QED
        BY <1>1, <4>1
    <3> HIDE DEF x
    <3>2. Numbered(log', n) /\ (Fine(log) => Fine(log'))
      BY <1>3, <1>6, <3>1, EchoOn
    <3>3. PICK d \in Nat : Lined(log, x, log', d)
      BY <1>3, <1>6, <3>1, AppendedOne
    <3>4. x.k # "ready"
      BY <1>6
    <3>5. Tells(log, announced) => Tells(log', announced')
      BY <1>3, <1>7, <1>8, <3>3, <3>4, TellsOn
    <3> QED
      BY <3>2, <3>5
  <2>2. CASE line \notin {"help", "empty"}
    <3>1. log' = Cons!Appended(log, <<x, Cons!Reply(number + 1)>>)
      <4>1. <<x>> \o <<y>> = <<x, y>>
        BY TuplesAreConcats, Zenon
      <4>2. Cons!Answers(line, n) = <<y>>
        BY <2>2 DEF Cons!Answers
      <4> QED
        BY <1>1, <4>1, <4>2
    <3> HIDE DEF x
    <3>2. /\ Numbered(log', number + 1) /\ (Fine(log) => Fine(log'))
          /\ /\ Tells(log, announced) /\ announced'.start = announced.start
             /\ \A st \in State : st.pin = announced.pin => Cons!Then(st, x).pin = announced'.pin
             /\ \A st \in State : x.c # "image" /\ st.word = announced.word => Cons!Then(st, x).word = announced'.word
             => Tells(log', announced')
      BY <1>3, <1>6, <1>7, <3>1, CommandOn
    <3> QED
      BY <1>7, <1>8, <3>2
  <2> QED
    BY <2>1, <2>2
<1> HIDE DEF x, y, z
<1>11. Tells(log, announced) => Tells(log', announced')
  BY <1>10
<1> QED
  BY <1>1, <1>3, <1>7, <1>9, <1>10, HappeningKeeps

LEMMA ConsSubmitKeeps == ASSUME Cons!ConsoleInv, NEW line \in Typed, Cons!Submit(line) PROVE Cons!ConsoleInv'
BY WaitingKeeps, AnsweredKeeps

\* Walking through the history changes no more than where the prompt is.
LEMMA ConsStays ==
  ASSUME Cons!ConsoleInv, cursor' \in 0..Len(lines),
         UNCHANGED <<log, lines, said, running, rebuilt, announced, number, disturbed, taken>>
  PROVE  Cons!ConsoleInv'
<1>1. Cons!TypeOK'
  BY DEF Cons!ConsoleInv, Cons!LogTellsTheSession, Cons!TypeOK, Cons!LogLine, Cons!Trits, Cons!Shows, Cons!Full
<1>2. Cons!LogIsTheRecord' /\ Cons!SummaryPairs' /\ Cons!RepliesFirst' /\ Cons!HistoryIsTheTail'
  BY ConsNext, RecordTells DEF Cons!ConsoleInv, Cons!LogTellsTheSession, Cons!SummaryPairs, Cons!RepliesFirst,
     Cons!HistoryIsTheTail
<1>3. Cons!EchoIsLast' /\ Cons!RebuiltIsFresh'
  BY DEF Cons!ConsoleInv, Cons!EchoIsLast, Cons!RebuiltIsFresh, Cons!Idle, Cons!Unknown
<1> QED
  BY <1>1, <1>2, <1>3 DEF Cons!ConsoleInv, Cons!LogTellsTheSession

LEMMA HistoryKeeps == Cons!ConsoleInv /\ (Cons!Up \/ Cons!Down) => Cons!ConsoleInv'
<1> SUFFICES ASSUME Cons!ConsoleInv, Cons!Up \/ Cons!Down PROVE Cons!ConsoleInv'
  OBVIOUS
<1>1. cursor \in 0..Len(lines) /\ Len(lines) \in Nat
  BY SteppedTypes, ConsTypes DEF Cons!TypeOK
<1>2. cursor' \in 0..Len(lines)
  BY <1>1 DEF Cons!Up, Cons!Down
<1> QED
  BY <1>2, ConsStays DEF Cons!Up, Cons!Down

\* The runtime of a reset is there: nothing is known, and the replies are next.
LEMMA ReloadedKeeps == Cons!ConsoleInv /\ Cons!Reloaded => Cons!ConsoleInv'
<1> SUFFICES ASSUME Cons!ConsoleInv, Cons!Reloaded PROVE Cons!ConsoleInv'
  OBVIOUS
<1>1. /\ running # Cons!Idle /\ announced.alive /\ rebuilt' = TRUE
      /\ announced' = [announced EXCEPT !.pin = Cons!Unknown, !.word = Cons!Unknown, !.start = Cons!Unknown]
      /\ UNCHANGED <<log, lines, cursor, said, running, number, disturbed, taken>> /\ UNCHANGED Cons!Ring
  BY DEF Cons!Reloaded, Cons!Ring
<1>2. Cons!TypeOK
  BY SteppedTypes
<1>3. /\ announced' \in Session /\ announced'.alive /\ announced'.id = announced.id
      /\ announced'.pin = Cons!Unknown /\ announced'.word = Cons!Unknown /\ announced'.start = Cons!Unknown
  BY <1>1, <1>2, ConsTypes, KnownTrits DEF Session
<1>4. Cons!TypeOK'
  <2>1. /\ lines' \in Seq(Typed) /\ Len(lines') <= HistoryCap /\ cursor' \in 0..Len(lines')
        /\ said' \in Seq(Typed)
    BY <1>1, RingStays
  <2>2. running' \in [n : 0..number', line : Typed \cup {"none"}, session : Nat]
    BY <1>1, <1>2 DEF Cons!TypeOK
  <2>3. /\ number' \in Nat /\ Numbered(log', number') /\ rebuilt' \in BOOLEAN
        /\ disturbed' \in {"no", "page", "failed"} /\ taken' \in 0..MaxLines
    BY <1>1, <1>2, ConsTypes
  <2> QED
    BY <1>3, <2>1, <2>2, <2>3, ConsTypesNext
<1>5. Cons!LogIsTheRecord' /\ Cons!SummaryPairs' /\ Cons!RepliesFirst' /\ Cons!HistoryIsTheTail'
  BY <1>1, ConsNext DEF Cons!ConsoleInv, Cons!LogTellsTheSession, Cons!SummaryPairs, Cons!RepliesFirst,
     Cons!HistoryIsTheTail
<1>6. Cons!EchoIsLast' /\ Cons!RebuiltIsFresh'
  BY <1>1, <1>3 DEF Cons!ConsoleInv, Cons!EchoIsLast, Cons!RebuiltIsFresh, Cons!Idle, Cons!Unknown
<1> QED
  BY <1>4, <1>5, <1>6 DEF Cons!ConsoleInv, Cons!LogTellsTheSession

\* The replies of the line that waited, then its handshake; or nothing, when it failed.
LEMMA ConsFinishKeeps == Cons!ConsoleInv /\ Cons!Finish => Cons!ConsoleInv'
<1> SUFFICES ASSUME Cons!ConsoleInv, Cons!Finish PROVE Cons!ConsoleInv'
  OBVIOUS
<1> DEFINE m == running.n
           y == Cons!Reply(m)
           h == Cons!Handshake
           t == Cons!Appended(log, <<y>>)
<1>1. /\ running # Cons!Idle /\ running' = Cons!Idle /\ rebuilt' = FALSE
      /\ UNCHANGED Cons!Ring /\ announced' = announced /\ number' = number /\ taken' = taken
      /\ log' = IF rebuilt THEN Cons!Appended(log, <<y, h>>) ELSE log
      /\ Cons!Fail
  BY DEF Cons!Finish, Cons!Ring
<1>2. Cons!TypeOK
  BY SteppedTypes
<1>3. /\ number \in Nat /\ Numbered(log, number) /\ announced \in Session /\ m \in 0..number /\ m \in Nat
      /\ log \in Seq(Cons!LogLine) /\ rebuilt \in BOOLEAN
  BY <1>2, ConsTypes
<1>4. y \in Cons!LogLine /\ y.k = "reply" /\ y.n = m /\ h \in Cons!LogLine /\ h.k = "ready" /\ h.n = 0
  BY <1>3, LinesAre
<1>5. Cons!Appended(log, <<y, h>>) = Cons!Appended(t, <<h>>) /\ t \in Seq(Cons!LogLine)
  BY <1>3, <1>4, AppendedOne, AppendedMore
<1> HIDE DEF y, h, t
<1>6. Numbered(t, number) /\ (Cons!Appended(t, <<h>>) = log' => Numbered(log', number))
  <2>1. y.n <= number /\ h.n <= number
    BY <1>3, <1>4
  <2>2. Numbered(t, number)
    BY <1>3, <1>4, <2>1, LineOn DEF t
  <2> QED
    BY <1>3, <1>4, <2>1, <2>2, LineOn
<1>7. Numbered(log', number)
  BY <1>1, <1>3, <1>5, <1>6
<1>8. disturbed' = "no" => rebuilt /\ disturbed = "no"
  <2>1. disturbed = "no" => announced.alive /\ announced.id = running.session
    BY <1>1 DEF Cons!ConsoleInv, Cons!EchoIsLast
  <2> QED
    BY <1>1, <2>1 DEF Cons!Fail
<1>9. Cons!TypeOK'
  <2>1. disturbed' \in {"no", "page", "failed"}
    BY <1>1, <1>2, ConsTypes DEF Cons!Fail
  <2>2. running' \in [n : 0..number', line : Typed \cup {"none"}, session : Nat]
    BY <1>1, <1>3 DEF Cons!Idle
  <2>3. /\ number' \in Nat /\ Numbered(log', number') /\ announced' \in Session /\ rebuilt' \in BOOLEAN
        /\ taken' \in 0..MaxLines
    BY <1>1, <1>2, <1>3, <1>7, ConsTypes
  <2>4. /\ lines' \in Seq(Typed) /\ Len(lines') <= HistoryCap /\ cursor' \in 0..Len(lines')
        /\ said' \in Seq(Typed)
    BY <1>1, RingStays
  <2> QED
    BY <2>1, <2>2, <2>3, <2>4, ConsTypesNext
<1>10. ASSUME disturbed' = "no" PROVE Fine(log') /\ Tells(log', announced')
  <2>1. rebuilt /\ disturbed = "no" /\ log' = Cons!Appended(t, <<h>>)
    BY <1>1, <1>5, <1>8, <1>10
  <2>2. Fine(log)
    BY <2>1 DEF Cons!ConsoleInv, Cons!LogTellsTheSession, Cons!SummaryPairs, Cons!RepliesFirst, Fine
  <2>3. EchoLast(log, m) /\ m = number
    BY <1>1, <2>1 DEF Cons!ConsoleInv, Cons!EchoIsLast, EchoLast
  <2>4. Fine(t)
    <3>1. Numbered(log, m)
      BY <1>3, <2>3
    <3> HIDE DEF m
    <3> QED
      BY <1>3, <1>4, <2>2, <2>3, <3>1, ReplyOn DEF t
  <2>5. Fine(log')
    <3>1. h.n <= number /\ h.k # "reply"
      BY <1>3, <1>4
    <3> QED
      BY <1>3, <1>4, <1>6, <2>1, <2>4, <3>1, LineOn
  <2>6. PICK d \in Nat : Lined(t, h, log', d)
    BY <1>4, <1>5, <2>1, AppendedOne
  <2>7. announced.pin = announced.start /\ announced.word = Cons!Unknown
    BY <2>1 DEF Cons!ConsoleInv, Cons!RebuiltIsFresh
  <2>8. Tells(log', announced)
    BY <1>3, <1>4, <2>6, <2>7, TellsAtFirst
  <2> QED
    BY <1>1, <2>5, <2>8
<1>11. Cons!LogIsTheRecord' /\ Cons!SummaryPairs' /\ Cons!RepliesFirst'
  BY <1>10, ConsNext DEF Fine
<1>12. Cons!HistoryIsTheTail' /\ Cons!EchoIsLast' /\ Cons!RebuiltIsFresh'
  BY <1>1, RingStays DEF Cons!EchoIsLast, Cons!RebuiltIsFresh, Cons!Idle
<1> QED
  BY <1>9, <1>11, <1>12 DEF Cons!ConsoleInv, Cons!LogTellsTheSession

LEMMA ConsStarts == Cons!Init => Cons!ConsoleInv
<1> SUFFICES ASSUME Cons!Init PROVE Cons!ConsoleInv
  OBVIOUS
<1> DEFINE h == Cons!Handshake
<1>1. /\ log = <<h>> /\ lines = <<>> /\ cursor = 0 /\ said = <<>> /\ running = Cons!Idle /\ rebuilt = FALSE
      /\ announced = [id |-> 1, pin |-> Cons!BootLow, word |-> Cons!Unknown, alive |-> TRUE,
                      start |-> Cons!BootLow]
      /\ number = 0 /\ disturbed = "no" /\ taken = 0
  BY DEF Cons!Init
<1>2. h \in Cons!LogLine /\ h.k = "ready" /\ h.n = 0
  BY LinesAre
<1> HIDE DEF h
<1>3. log = Cons!Appended(<<>>, <<h>>)
  <2>1. <<>> \o <<h>> = <<h>> /\ Len(<<h>>) = 1
    OBVIOUS
  <2>2. Cons!LastOf(<<h>>, Cap) = <<h>>
    BY <2>1, ConsoleAssumption DEF Cons!LastOf
  <2> QED
    BY <1>1, <2>1, <2>2 DEF Cons!Appended
<1> DEFINE e == <<>>
<1>4. e \in Seq(Cons!LogLine) /\ Numbered(e, 0) /\ Fine(e) /\ log = Cons!Appended(e, <<h>>)
  BY <1>3, EmptyIsFine
<1> HIDE DEF e
<1>5. Numbered(log, 0) /\ Fine(log)
  BY <1>2, <1>4, LineOn
<1>6. announced \in Session /\ announced.pin = announced.start /\ announced.word = Cons!Unknown
  BY <1>1, KnownTrits DEF Session
<1>7. Tells(log, announced)
  <2>1. PICK d \in Nat : Lined(e, h, log, d)
    BY <1>2, <1>4, AppendedOne
  <2> QED
    BY <1>2, <1>6, <2>1, TellsAtFirst
<1>8. Cons!TypeOK
  <2>1. log \in Seq(Cons!LogLine) /\ Len(log) <= Cap /\ \A i \in DOMAIN log : log[i].n <= 0
    BY <1>5 DEF Numbered
  <2>2. lines \in Seq(Typed) /\ Len(lines) <= HistoryCap /\ cursor \in 0..Len(lines) /\ said \in Seq(Typed)
    <3>1. <<>> \in Seq(Typed) /\ Len(<<>>) = 0 /\ HistoryCap \in Nat
      BY ConsoleAssumption
    <3> QED
      BY <1>1, <3>1
  <2>3. running \in [n : 0..0, line : Typed \cup {"none"}, session : Nat]
    BY <1>1 DEF Cons!Idle
  <2>4. 0 \in 0..MaxLines
    BY ConsoleAssumption
  <2> QED
    BY <1>1, <1>6, <2>1, <2>2, <2>3, <2>4 DEF Cons!TypeOK, Session
<1>9. Cons!LogIsTheRecord /\ Cons!SummaryPairs /\ Cons!RepliesFirst
  BY <1>5, <1>7, RecordTells DEF Cons!SummaryPairs, Cons!RepliesFirst, Fine
<1>10. Cons!HistoryIsTheTail
  <2>1. Len(<<>>) = 0 /\ HistoryCap \in Nat
    BY ConsoleAssumption
  <2>2. Cons!LastOf(<<>>, HistoryCap) = <<>>
    BY <2>1 DEF Cons!LastOf
  <2> QED
    BY <1>1, <2>2, DistinctEmpty DEF Cons!HistoryIsTheTail
<1>11. Cons!EchoIsLast /\ Cons!RebuiltIsFresh
  BY <1>1 DEF Cons!EchoIsLast, Cons!RebuiltIsFresh
<1> QED
  BY <1>8, <1>9, <1>10, <1>11 DEF Cons!ConsoleInv, Cons!LogTellsTheSession

LEMMA ConsRests == Cons!ConsoleInv /\ UNCHANGED consVars => Cons!ConsoleInv'
<1> SUFFICES ASSUME Cons!ConsoleInv, UNCHANGED consVars PROVE Cons!ConsoleInv'
  OBVIOUS
<1>1. cursor' \in 0..Len(lines)
  BY SteppedTypes DEF consVars, Cons!TypeOK
<1> QED
  BY <1>1, ConsStays DEF consVars

LEMMA ConsKeeps == Cons!ConsoleInv /\ Cons!Next => Cons!ConsoleInv'
<1> SUFFICES ASSUME Cons!ConsoleInv, Cons!Next PROVE Cons!ConsoleInv'
  OBVIOUS
<1>1. ASSUME NEW x \in Cons!Pins, Cons!Face("drive", x) PROVE Cons!ConsoleInv'
  <2>1. x \in Cons!Trits
    BY DEF Cons!Pins, Cons!Trits, Cons!Full
  <2> QED
    BY <1>1, <2>1, FaceKeeps
<1>2. ASSUME NEW w \in Cons!Words, Cons!Face("poke", [v |-> w, d |-> Cons!Full]) PROVE Cons!ConsoleInv'
  <2> DEFINE x == [v |-> w, d |-> Cons!Full]
  <2>1. x \in Cons!Trits
    BY DEF Cons!Words, Cons!Trits, Cons!Full
  <2> HIDE DEF x
  <2>2. Cons!Face("poke", x)
    BY <1>2 DEF x
  <2> QED
    BY <2>1, <2>2, FaceKeeps
<1>3. Cons!Face("clear", Cons!Unknown) \/ Cons!Face("image", Cons!Unknown) \/ Cons!Face("reset", Cons!Unknown)
      => Cons!ConsoleInv'
  BY KnownTrits, FaceKeeps
<1> QED
  BY <1>1, <1>2, <1>3, ConsSubmitKeeps, HistoryKeeps, ReloadedKeeps, ConsFinishKeeps, DropKeeps, ClearKeeps,
     OpenKeeps, ConsBuildKeeps DEF Cons!Next

\* In a page whose run is the console's, its invariant holds.
ConsHolds == component = "console" => Cons!ConsoleInv

LEMMA ConsHoldsAlways == Spec => []ConsHolds
<1>1. Init => ConsHolds
  BY ConsStarts DEF Init, ConsHolds
<1>2. ConsHolds /\ [Next]_vars => ConsHolds'
  BY ConsKeeps, ConsRests DEF ConsHolds, Next, vars
<1> QED
  BY <1>1, <1>2, PTL DEF Spec

\* For a log and a history of any length and whatever is typed, driven, edited, cleared or
\* opened while a line waits for its runtime: the script read off the log of console.ts leads
\* to the session it stands for, the closed line never shows a command with another's reply,
\* a handshake comes after the reply that caused it, and the prompt remembers the last lines.
THEOREM LogTellsSession == Spec => []LogTellsTheSession
<1>1. ConsHolds => LogTellsTheSession
  BY DEF ConsHolds, LogTellsTheSession, Cons!ConsoleInv
<1> QED
  BY <1>1, ConsHoldsAlways, PTL
=============================================================================
