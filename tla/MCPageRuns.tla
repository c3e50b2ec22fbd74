----------------------------- MODULE MCPageRuns -----------------------------
(***************************************************************************)
(* The page's asynchronous runs: the compile pipeline (Pipeline), the      *)
(* schematic and the truth table asked for as operations (Inspections),    *)
(* the simulation session and its faces (SimSession), a verification run   *)
(* (Verification) and the console's log (Console).  Each is checked by     *)
(* itself: a behaviour of the run is one of any one of them, `component`   *)
(* says which, and the variables of the others stay Off.                   *)
(***************************************************************************)
EXTENDS Naturals

CONSTANTS
  MaxDoc, Qualities, MaxPipelineOps, WarningsAsErrors, None,
  MaxRev, MaxBuilds, MaxOps, MaxFails, Kept,
  SimFace, Canvas, Input, PinValue, MaxRuntimes, Preloads,
  NumCases, MaxSteps, MaxActions, MaxExpect, YieldActions,
  Cap, HistoryCap, Typed, MaxLines

ASSUME PipelineAssumption ==
  /\ MaxDoc \in Nat \ {0} /\ MaxPipelineOps \in Nat /\ WarningsAsErrors \in BOOLEAN
  /\ None \notin [op : Nat, doc : Nat]

ASSUME InspectionsAssumption == Kept \in Nat

ASSUME SessionAssumption ==
  /\ MaxRuntimes \in Nat \ {0} /\ PinValue # {}
  /\ Preloads \subseteq {"ok", "nosettle", "throws"}

ASSUME VerificationAssumption ==
  /\ NumCases \in Nat /\ MaxSteps \in Nat /\ MaxActions \in Nat /\ MaxExpect \in Nat
  /\ YieldActions \in Nat \ {0}

\* A log has room for a line, and the lines typed are those whose effect is known.
ASSUME ConsoleAssumption ==
  /\ Cap \in Nat \ {0} /\ HistoryCap \in Nat /\ MaxLines \in Nat
  /\ Typed \subseteq {"set", "poke", "reset", "quit", "load", "help", "empty"}

VARIABLES
  component,
  doc, since, quality, opCount, slot, timer, counter, runs, handshake, loading,
  analysis, shown, stale, busy, failure, view, failedOn,
  rev, seq, due, building, openView, scratch, starting, ops, newest, screen,
  kept, ticket, fails,
  rts, rt, simPhase, resetting, awaiting, didNotSettle, listening, faceView, reply,
  cases, stop, cancelled, phase, c, s, left, done, count, session, halted,
  terminal, steps, passed, failed, late,
  log, lines, cursor, said, prompt, running, rebuilt, announced, number,
  disturbed, taken

Pipe == INSTANCE Pipeline WITH MaxOps <- MaxPipelineOps
Insp == INSTANCE Inspections WITH view <- openView, slot <- newest
Sim  == INSTANCE SimSession WITH
          Face <- SimFace, Value <- PinValue, phase <- simPhase, view <- faceView
Verify == INSTANCE Verification
Cons == INSTANCE Console WITH
          shown <- prompt, busy <- running, session <- announced, count <- number,
          steps <- taken, MaxSteps <- MaxLines

pipeVars == <<doc, since, quality, opCount, slot, timer, counter, runs, handshake,
              loading, analysis, shown, stale, busy, failure, view, failedOn>>
inspVars == <<rev, seq, due, building, openView, scratch, starting, ops, newest,
              screen, kept, ticket, fails>>
simVars == <<rts, rt, simPhase, resetting, awaiting, didNotSettle, listening, faceView, reply>>
verifyVars == <<cases, stop, cancelled, phase, c, s, left, done, count, session,
                halted, terminal, steps, passed, failed, late>>
consVars == <<log, lines, cursor, said, prompt, running, rebuilt, announced, number,
              disturbed, taken>>
vars == <<component, pipeVars, inspVars, simVars, verifyVars, consVars>>

Off == "off"

PipeOff ==
  /\ doc = Off /\ since = Off /\ quality = Off /\ opCount = Off /\ slot = Off
  /\ timer = Off /\ counter = Off /\ runs = Off /\ handshake = Off /\ loading = Off
  /\ analysis = Off /\ shown = Off /\ stale = Off /\ busy = Off /\ failure = Off
  /\ view = Off /\ failedOn = Off

InspOff ==
  /\ rev = Off /\ seq = Off /\ due = Off /\ building = Off /\ openView = Off
  /\ scratch = Off /\ starting = Off /\ ops = Off /\ newest = Off /\ screen = Off
  /\ kept = Off /\ ticket = Off /\ fails = Off

SimOff ==
  /\ rts = Off /\ rt = Off /\ simPhase = Off /\ resetting = Off /\ awaiting = Off
  /\ didNotSettle = Off /\ listening = Off /\ faceView = Off /\ reply = Off

VerifyOff ==
  /\ cases = Off /\ stop = Off /\ cancelled = Off /\ phase = Off /\ c = Off
  /\ s = Off /\ left = Off /\ done = Off /\ count = Off /\ session = Off
  /\ halted = Off /\ terminal = Off /\ steps = Off /\ passed = Off /\ failed = Off
  /\ late = Off

ConsOff ==
  /\ log = Off /\ lines = Off /\ cursor = Off /\ said = Off /\ prompt = Off
  /\ running = Off /\ rebuilt = Off /\ announced = Off /\ number = Off
  /\ disturbed = Off /\ taken = Off

Init ==
  \/ component = "pipeline" /\ Pipe!Init /\ InspOff /\ SimOff /\ VerifyOff /\ ConsOff
  \/ component = "inspections" /\ Insp!Init /\ PipeOff /\ SimOff /\ VerifyOff /\ ConsOff
  \/ component = "simulation" /\ Sim!Init /\ PipeOff /\ InspOff /\ VerifyOff /\ ConsOff
  \/ component = "verification" /\ Verify!Init /\ PipeOff /\ InspOff /\ SimOff /\ ConsOff
  \/ component = "console" /\ Cons!Init /\ PipeOff /\ InspOff /\ SimOff /\ VerifyOff

Next ==
  /\ UNCHANGED component
  /\ \/ component = "pipeline" /\ Pipe!Next /\ UNCHANGED <<inspVars, simVars, verifyVars, consVars>>
     \/ component = "inspections" /\ Insp!Next /\ UNCHANGED <<pipeVars, simVars, verifyVars, consVars>>
     \/ component = "simulation" /\ Sim!Next /\ UNCHANGED <<pipeVars, inspVars, verifyVars, consVars>>
     \/ component = "verification" /\ Verify!Next /\ UNCHANGED <<pipeVars, inspVars, simVars, consVars>>
     \/ component = "console" /\ Cons!Next /\ UNCHANGED <<pipeVars, inspVars, simVars, verifyVars>>

\* The fairness of each: timers fire, calls are answered, a runtime comes or fails.
Fairness ==
  /\ \A t \in Pipe!Stages : WF_pipeVars(component = "pipeline" /\ Pipe!Fire(t))
  /\ WF_pipeVars(component = "pipeline" /\ \E r \in runs : Pipe!RunStep(r))
  /\ WF_simVars(component = "simulation" /\ Sim!LoadStep)
  /\ WF_simVars(component = "simulation" /\ Sim!EndBuild)
  /\ WF_verifyVars(component = "verification" /\ Verify!Runs)
  /\ WF_consVars(component = "console" /\ Cons!Finish)

Spec == Init /\ [][Next]_vars /\ Fairness

-----------------------------------------------------------------------------
\* What the page shows and says of its state is of the source in the editor, or is
\* marked as older.
PanesTellTheSource == component = "pipeline" => Pipe!PanesTellTheSource

\* No output gives way to an older one, however late the replies are.
NeverOlder == [][component = "pipeline" => Pipe!NeverOlder]_pipeVars

\* Of each kind only the newest operation runs, what is kept is what succeeded last, and
\* a schematic that is reused is of the source asked about.
NewestIsServed == component = "inspections" => Insp!NewestIsServed

\* One runtime, shared: whoever drives, resets or destroys the session, every face
\* shows what the one runtime alive holds and whether it settled.
FacesShareTheRuntime == component = "simulation" => Sim!FacesShareTheRuntime

\* The report is the run: a line for every step, a summary that says what the lines say,
\* nothing run after a stop, and no session left over.
ReportIsTheRun == component = "verification" => Verify!ReportIsTheRun

\* The log is a record of the session: run as a script it leads to this session, and
\* replies stand with the commands they answer.
LogTellsTheSession == component = "console" => Cons!LogTellsTheSession

\* Nothing is under way: no timer set and no call out, nobody awaiting a reset, the
\* report written, the prompt free.
AtRest ==
  CASE component = "pipeline"     -> Pipe!AtRest
    [] component = "simulation"   -> awaiting = {}
    [] component = "verification" -> phase = "done"
    [] component = "console"      -> running = Cons!Idle
    [] component = "inspections"  -> TRUE

\* What was begun ends: the page comes to rest after the edits, everyone who asked for a
\* reset hears how it ended, a verification run has its report, and the prompt comes back.
RunsEnd == []<>AtRest
=============================================================================
