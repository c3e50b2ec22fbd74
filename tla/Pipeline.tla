------------------------------ MODULE Pipeline ------------------------------
(***************************************************************************)
(* The compile pipeline of the playground: the two debounced stages of     *)
(* scripts/pipeline.ts, each a timer and a sequence counter, and the runs  *)
(* the island of components/Playground.astro starts from them, whose       *)
(* replies land after any number of further edits.                         *)
(* A document is its number. What the compiler says of it is chosen when   *)
(* it is written and known only through replies.                           *)
(***************************************************************************)
EXTENDS Naturals, FiniteSets

CONSTANTS
  MaxDoc,           \* bound: edits, counting the document shown at first
  Qualities,        \* what a source can be: "clean", "warns", "errs"
  MaxOps,           \* bound: operations queued
  WarningsAsErrors, \* the setting
  None

Stages == {"analyze", "build"}
Kinds == Stages \cup {"preview"}
Docs == 1..MaxDoc

VARIABLES
  doc, since,       \* the source, and the first document of its circuit
  quality,          \* what the library says of each document
  opCount, slot,    \* operations queued, and the last of each kind
  timer, counter,   \* the stages
  runs,             \* the runs that wait: for the handshake or for a reply
  handshake, loading, \* "none", "ok" or "failed", and whether it is awaited
  analysis,         \* the document last analysed, and what was found
  shown,            \* the document each output is of, 0 when it is empty
  stale, busy, failure, view,
  failedOn          \* history: the document each kind of call last failed on

stages == <<timer, counter>>
source == <<doc, since, quality, view>>
panes == <<analysis, shown, stale, busy, failure, failedOn>>
vars == <<source, opCount, slot, stages, runs, handshake, loading, panes>>

NoAnalysis == [doc |-> 0, errors |-> FALSE, warnings |-> FALSE]

Init ==
  /\ doc = 1 /\ since = 1 /\ quality \in [{1} -> Qualities]
  /\ opCount = 0 /\ slot = [k \in Kinds |-> 0]
  /\ timer = [s \in Stages |-> None] /\ counter = [s \in Stages |-> 0]
  /\ runs = {} /\ handshake = "none" /\ loading = FALSE
  /\ analysis = NoAnalysis
  /\ shown = [artifact |-> 0, preview |-> 0]
  /\ stale = FALSE /\ busy = [s \in Stages |-> FALSE] /\ failure = FALSE
  /\ view = "simulate" /\ failedOn = [k \in Kinds |-> 0]

-----------------------------------------------------------------------------
(* Stage: the counter is claimed when the timer fires.                     *)

StageOf(k) == IF k = "analyze" THEN "analyze" ELSE "build"
isCurrent(r) == r.seq = counter[StageOf(r.kind)]
ownsOperation(r) == slot[r.kind] = r.op

\* Mutant: replies are taken whatever the stage has claimed since.
AcceptsOwned(r) == ownsOperation(r)

\* Mutant: replies are taken whenever they come.
AcceptsAll(r) == r \in runs

\* Both are looked at after every await.
Accepts(r) == isCurrent(r) /\ ownsOperation(r)

Run(k, op, d, seq) == [kind |-> k, op |-> op, doc |-> d, seq |-> seq, at |-> "handshake"]

\* queueOperation('analyze'), queueOperation('compile'): the one queued before
\* no longer owns its kind.
QueueBoth ==
  /\ opCount + 2 <= MaxOps
  /\ opCount' = opCount + 2
  /\ slot' = [slot EXCEPT !["analyze"] = opCount + 1, !["build"] = opCount + 2]

Op(s) == IF s = "analyze" THEN opCount + 1 ELSE opCount + 2

\* ensureReady() is begun by every run.
BeginRuns(new) ==
  /\ runs' = runs \cup new
  /\ loading' = (loading \/ handshake # "ok")

\* flushPipeline(): cancel both timers, claim, run now.
Flush(d) ==
  /\ timer' = [s \in Stages |-> None]
  /\ counter' = [s \in Stages |-> counter[s] + 1]
  /\ BeginRuns({Run(s, Op(s), d, counter[s] + 1) : s \in Stages})

-----------------------------------------------------------------------------
(* What the reader of the page does.                                       *)

Write ==
  /\ doc' = doc + 1
  /\ \E q \in Qualities : quality' = [d \in 1..(doc + 1) |-> IF d > doc THEN q ELSE quality[d]]

\* schedule() after an edit in a body: both stages wait for their delay again.
Edit ==
  /\ doc < MaxDoc /\ QueueBoth
  /\ Write
  /\ timer' = [s \in Stages |-> [op |-> Op(s), doc |-> doc + 1]]
  /\ stale' = TRUE
  /\ UNCHANGED <<since, view, counter, runs, handshake, loading, analysis, shown, busy, failure, failedOn>>

\* schedule() after another file or project was selected: the outputs are
\* cleared, and both stages claimed and flushed (the second claim is Flush's).
Cleared == /\ analysis' = NoAnalysis
           /\ shown' = [artifact |-> 0, preview |-> 0]
           /\ stale' = FALSE /\ failure' = FALSE

Switch ==
  /\ doc < MaxDoc /\ QueueBoth
  /\ Write /\ since' = doc + 1
  /\ Flush(doc + 1)
  /\ Cleared
  /\ UNCHANGED <<view, handshake, busy, failedOn>>

\* flushPipeline() on its own: at boot, or for a caller who wants it built now.
FlushNow ==
  /\ QueueBoth /\ Flush(doc)
  /\ UNCHANGED <<source, handshake, panes>>

\* runPreview(): an operation of its own, under the sequence it is given, once
\* the handshake is through.
BeginPreview(seq) ==
  IF handshake = "ok" /\ opCount < MaxOps
    THEN /\ opCount' = opCount + 1
         /\ slot' = [slot EXCEPT !["preview"] = opCount + 1]
    ELSE UNCHANGED <<opCount, slot>>

PreviewRun(seq) ==
  IF handshake = "ok" /\ opCount < MaxOps
    THEN {[Run("preview", opCount + 1, doc, seq) EXCEPT !.at = "reply"]} ELSE {}

\* A view switch asks for its output under the sequence the stage has.
SelectView ==
  /\ view' = IF view = "simulate" THEN "schematic" ELSE "simulate"
  /\ IF view' = "schematic"
       THEN BeginPreview(counter["build"]) /\ runs' = runs \cup PreviewRun(counter["build"])
       ELSE UNCHANGED <<opCount, slot, runs>>
  /\ opCount < MaxOps
  /\ UNCHANGED <<doc, since, quality, stages, handshake, loading, panes>>

-----------------------------------------------------------------------------
\* A timer fires: claim, and begin the run.
Fire(s) ==
  /\ timer[s] # None
  /\ timer' = [timer EXCEPT ![s] = None]
  /\ counter' = [counter EXCEPT ![s] = @ + 1]
  /\ BeginRuns({Run(s, timer[s].op, timer[s].doc, counter[s] + 1)})
  /\ UNCHANGED <<source, opCount, slot, handshake, panes>>

\* The handshake fails: the run is over. The client keeps the outcome.
NotReady(r) ==
  /\ r \in runs /\ r.at = "handshake" /\ handshake # "ok"
  /\ runs' = runs \ {r}
  /\ handshake' = "failed"
  /\ loading' = FALSE /\ failure' = TRUE
  /\ UNCHANGED <<source, opCount, slot, stages, analysis, shown, stale, busy, failedOn>>

\* shouldCompile() is FALSE only for a fresh analysis.
Skips(r) == analysis.doc = r.doc /\ (analysis.errors \/ (WarningsAsErrors /\ analysis.warnings))

\* setStale(state.artifact !== null)
DimIfShown == stale' = (shown.artifact # 0)

\* The run goes on after the handshake: to its call, or no further.
Ready(r) ==
  /\ r \in runs /\ r.at = "handshake"
  /\ \/ handshake = "ok" /\ UNCHANGED <<handshake, loading, failure>>
     \/ handshake = "none" /\ handshake' = "ok" /\ loading' = FALSE /\ failure' = FALSE
  /\ \/ /\ ~Accepts(r)
        /\ runs' = runs \ {r}
        /\ UNCHANGED <<busy, stale>>
     \/ /\ Accepts(r) /\ r.kind = "build" /\ Skips(r)
        /\ runs' = runs \ {r}
        /\ DimIfShown
        /\ busy' = [busy EXCEPT !["build"] = FALSE]
     \/ /\ Accepts(r) /\ ~(r.kind = "build" /\ Skips(r))
        /\ runs' = (runs \ {r}) \cup {[r EXCEPT !.at = "reply"]}
        /\ busy' = [busy EXCEPT ![r.kind] = TRUE]
        /\ UNCHANGED stale
  /\ UNCHANGED <<source, opCount, slot, stages, analysis, shown, failedOn>>

Waits(r, k) == r \in runs /\ r.kind = k /\ r.at = "reply"

\* A reply that came too late: the run ends and shows nothing.
Dropped(r) ==
  /\ r \in runs /\ r.at = "reply" /\ ~Accepts(r)
  /\ runs' = runs \ {r}
  /\ UNCHANGED <<source, opCount, slot, stages, handshake, loading, panes>>

\* The analysis of a document arrives.
AnalyzeReply(r) ==
  /\ Waits(r, "analyze") /\ Accepts(r)
  /\ runs' = runs \ {r}
  /\ analysis' = [doc |-> r.doc, errors |-> quality[r.doc] = "errs", warnings |-> quality[r.doc] = "warns"]
  /\ failure' = FALSE
  /\ busy' = [busy EXCEPT !["analyze"] = FALSE]
  /\ UNCHANGED <<source, opCount, slot, stages, handshake, loading, shown, stale, failedOn>>

\* A refusal, a bad request, a reply that is no JSON or a dead worker.
AnalyzeFails(r) ==
  /\ Waits(r, "analyze") /\ Accepts(r)
  /\ runs' = runs \ {r}
  /\ failure' = TRUE /\ failedOn' = [failedOn EXCEPT !["analyze"] = r.doc]
  /\ busy' = [busy EXCEPT !["analyze"] = FALSE]
  /\ UNCHANGED <<source, opCount, slot, stages, handshake, loading, analysis, shown, stale>>

Refuses(d) == quality[d] = "errs" \/ (WarningsAsErrors /\ quality[d] = "warns")

\* What follows a build on screen: the preview, under the build's sequence.
ThenPreview(r) ==
  IF view = "schematic"
    THEN BeginPreview(r.seq) /\ runs' = (runs \ {r}) \cup PreviewRun(r.seq)
    ELSE runs' = runs \ {r} /\ UNCHANGED <<opCount, slot>>

\* An artifact, or the library's diagnostics: the last good one stays, dimmed.
BuildReply(r) ==
  /\ Waits(r, "build") /\ Accepts(r)
  /\ IF Refuses(r.doc)
       THEN /\ analysis' = [analysis EXCEPT !.errors = TRUE]
            /\ DimIfShown
            /\ UNCHANGED <<shown, failure>>
       ELSE /\ shown' = [shown EXCEPT !.artifact = r.doc]
            /\ failure' = FALSE /\ stale' = FALSE
            /\ UNCHANGED analysis
  /\ busy' = [busy EXCEPT !["build"] = FALSE]
  /\ ThenPreview(r)
  /\ UNCHANGED <<source, stages, handshake, loading, failedOn>>

\* A refusal or a bad request goes on to the preview; a dead worker or a reply
\* that cannot be read does not.
BuildFails(r) ==
  /\ Waits(r, "build") /\ Accepts(r)
  /\ failure' = TRUE /\ DimIfShown /\ failedOn' = [failedOn EXCEPT !.build = r.doc]
  /\ busy' = [busy EXCEPT !["build"] = FALSE]
  /\ \/ ThenPreview(r)
     \/ runs' = runs \ {r} /\ UNCHANGED <<opCount, slot>>
  /\ UNCHANGED <<source, stages, handshake, loading, analysis, shown>>

\* The schematic, or a refusal of it, which leaves the last good one in place.
PreviewReply(r) ==
  /\ Waits(r, "preview") /\ Accepts(r)
  /\ runs' = runs \ {r}
  /\ IF quality[r.doc] = "errs"
       THEN /\ failure' = TRUE
            /\ stale' = (shown.preview # 0)
            /\ failedOn' = [failedOn EXCEPT !.preview = r.doc]
            /\ UNCHANGED shown
       ELSE /\ shown' = [shown EXCEPT !.preview = r.doc]
            /\ UNCHANGED <<failure, stale, failedOn>>
  /\ UNCHANGED <<source, opCount, slot, stages, handshake, loading, analysis, busy>>

\* A preview call the worker never answers fails its operation only.
PreviewThrows(r) ==
  /\ Waits(r, "preview")
  /\ runs' = runs \ {r}
  /\ UNCHANGED <<source, opCount, slot, stages, handshake, loading, panes>>

RunStep(r) ==
  \/ NotReady(r) \/ Ready(r) \/ Dropped(r)
  \/ AnalyzeReply(r) \/ AnalyzeFails(r)
  \/ BuildReply(r) \/ BuildFails(r)
  \/ PreviewReply(r) \/ PreviewThrows(r)

Next ==
  \/ Edit \/ Switch \/ FlushNow \/ SelectView
  \/ \E s \in Stages : Fire(s)
  \/ \E r \in runs : RunStep(r)

\* Timers fire, and a call is answered or rejected (EveryCallSettles of MCAgentCalls).
Fairness == (\A s \in Stages : WF_vars(Fire(s))) /\ WF_vars(\E r \in runs : RunStep(r))

Spec == Init /\ [][Next]_vars /\ Fairness

-----------------------------------------------------------------------------
\* The states of the stages, the runs and the panes are the code's.
TypeOK ==
  /\ since \in Docs /\ doc \in since..MaxDoc /\ quality \in [1..doc -> Qualities]
  /\ opCount \in 0..MaxOps /\ slot \in [Kinds -> 0..opCount]
  /\ timer \in [Stages -> {None} \cup [op : 1..opCount, doc : 1..doc]]
  /\ counter \in [Stages -> Nat]
  /\ runs \subseteq [kind : Kinds, op : 1..opCount, doc : 1..doc, seq : Nat, at : {"handshake", "reply"}]
  /\ handshake \in {"none", "ok", "failed"} /\ loading \in BOOLEAN /\ stale \in BOOLEAN /\ failure \in BOOLEAN
  /\ analysis \in [doc : 0..doc, errors : BOOLEAN, warnings : BOOLEAN]
  /\ shown \in [artifact : 0..doc, preview : 0..doc] /\ failedOn \in [Kinds -> 0..doc]
  /\ busy \in [Stages -> BOOLEAN] /\ view \in {"simulate", "schematic"}

\* Nothing of a circuit that was left lands beside the one selected.
NothingOfTheOldCircuit ==
  \A d \in {shown.artifact, shown.preview, analysis.doc} : d = 0 \/ d >= since

\* No output gives way to an older one.
NeverOlder ==
  \A k \in {"artifact", "preview"} : shown'[k] >= shown[k] \/ (since' # since /\ shown'[k] = 0)

\* A build that is not of the source on screen is dimmed. The one exception is
\* a preview of a source after it that was refused, which undims it.
DimmedWhenOld ==
  shown.artifact \notin {0, doc} => stale \/ failedOn.preview > shown.artifact

\* The page at rest: no timer set and no call out.
AtRest == runs = {} /\ \A s \in Stages : timer[s] = None

\* At rest nothing is said to be compiling.
RestIsNotBusy == AtRest => busy = [s \in Stages |-> FALSE] /\ ~loading

\* Unless the call for it failed, at rest the outputs are those of the last source:
\* its artifact, or the diagnostics that say why there is none.
RestIsSettled ==
  AtRest /\ handshake = "ok" /\ failedOn.build # doc =>
    \/ shown.artifact = doc
    \/ Refuses(doc) /\ (analysis.errors \/ (WarningsAsErrors /\ analysis.warnings))

\* statusFor(): a failure outranks the handshake, that the work in flight, that
\* the diagnostics.
statusFor ==
  IF failure THEN "error"
  ELSE IF loading THEN "loading"
  ELSE IF handshake # "ok" THEN "idle"
  ELSE IF \E t \in Stages : busy[t] THEN "compiling"
  ELSE IF analysis.errors THEN "error" ELSE "live"

\* At rest 'Live' without 'showing the last good build' is said of the source's
\* own artifact. A build that failed for this source is the exception: a later
\* reply takes its failure off the bar; and a source refused for its warnings
\* when nothing was built before.
LiveIsTheSource ==
  AtRest /\ statusFor = "live" /\ ~stale =>
    \/ shown.artifact = doc
    \/ failedOn.build = doc
    \/ WarningsAsErrors /\ analysis.warnings /\ shown.artifact = 0

\* What the page shows and says of its state is of the source in the editor, or is
\* marked as older.
PanesTellTheSource ==
  /\ TypeOK /\ NothingOfTheOldCircuit /\ DimmedWhenOld
  /\ RestIsNotBusy /\ RestIsSettled /\ LiveIsTheSource

-----------------------------------------------------------------------------
(***************************************************************************)
(* The inductive invariant behind it: what is under way for a stage is for *)
(* the source in the editor or will be dropped, a preview that is taken is *)
(* at least as new as what it replaces, and what is said of the build      *)
(* stands until something for that stage is under way.                     *)
(***************************************************************************)

\* The last operation of a stage still waits for its delay or its reply.
Out(s) == timer[s] # None \/ \E r \in runs : r.kind = s /\ Accepts(r)

\* The operation of a timer has no run yet. A run that owns the operation of
\* its stage is of the source and has the sequence: whoever claims a stage takes
\* the slot as well, so only previews need the sequence.
TimersAreCurrent == \A s \in Stages : timer[s] # None =>
  timer[s] = [op |-> slot[s], doc |-> doc] /\ \A r \in runs : r.kind = s => r.op # slot[s]

RunsAreCurrent == \A r \in runs :
  /\ r.seq <= counter[StageOf(r.kind)]
  /\ r.kind \in Stages /\ ownsOperation(r) => r.doc = doc /\ isCurrent(r)

\* A preview under the sequence of the stage is of the source, unless an edit
\* waits for its delay, and never of one before the build on screen.
PreviewsInOrder == \A r \in runs : r.kind = "preview" =>
  /\ r.at = "reply"
  /\ isCurrent(r) => /\ r.doc >= since /\ r.doc >= shown.artifact
                     /\ timer["build"] = None => r.doc = doc
  /\ ownsOperation(r) => r.doc >= shown.preview
  /\ \A q \in runs : q.kind = "preview" /\ q.op = r.op => q.doc = r.doc

BusyIsUnderWay ==
  /\ \A s \in Stages : busy[s] => handshake = "ok" /\ Out(s)
  /\ loading => handshake # "ok" /\ \E r \in runs : r.at = "handshake"
  /\ \A r \in runs : r.at = "reply" => handshake = "ok"

AnalysisIsOfItsDoc == analysis.doc = doc =>
  (analysis.errors => Refuses(doc)) /\ (analysis.warnings => quality[doc] = "warns")

ArtifactWasBuilt == shown.artifact # 0 => quality[shown.artifact] # "errs"

\* The source was refused, and the page says why and that the build is older.
IsRefused ==
  /\ Refuses(doc)
  /\ analysis.errors \/ (WarningsAsErrors /\ analysis.warnings /\ quality[doc] = "warns")
  /\ stale \/ shown.artifact = 0 \/ quality[doc] = "errs"

BuildIsSettled == ~Out("build") =>
  /\ handshake = "ok" => failedOn.build = doc \/ shown.artifact = doc \/ IsRefused
  /\ handshake = "none" => runs = {} /\ timer["analyze"] = None

PipeInv ==
  /\ TypeOK /\ NothingOfTheOldCircuit /\ DimmedWhenOld
  /\ TimersAreCurrent /\ RunsAreCurrent /\ PreviewsInOrder
  /\ BusyIsUnderWay /\ AnalysisIsOfItsDoc /\ ArtifactWasBuilt /\ BuildIsSettled
=============================================================================
