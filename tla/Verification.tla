---------------------------- MODULE Verification ----------------------------
(***************************************************************************)
(* A verification run (scripts/playground-verification.ts): cases, each in *)
(* a session of its own that is thrown away, steps of actions and          *)
(* expectations, and a report that has a line for every step. The run      *)
(* gives way to the page where it awaits: while a session is built, while  *)
(* it is reset, and every YieldActions actions; only there can the         *)
(* operation be cancelled.                                                 *)
(***************************************************************************)
EXTENDS Naturals, Sequences, SequencesExt, FiniteSets

CONSTANTS
  NumCases, MaxSteps,      \* bounds: cases, and steps of a case
  MaxActions, MaxExpect,   \* bounds: actions and expectations of a step
  YieldActions             \* VERIFICATION_YIELD_ACTIONS

VARIABLES
  cases,      \* the number of steps of each case
  stop,       \* stopOnFailure
  cancelled,  \* what runtime.cancelled() answers
  phase,      \* where the run is
  c, s,       \* the case and the step it is at
  left,       \* actions and expectations the step still has
  done,       \* actions of this step that ran
  count,      \* actionCount, modulo YieldActions
  session,    \* "none", or the case's session: "live", or "latched" once it did not settle
  halted, terminal,
  steps,      \* the report, in the order it is written
  passed, failed,
  late        \* history: actions that took effect after the cancellation

inputs == <<cases, stop>>
place  == <<c, s, left, done>>
report == <<steps, passed, failed>>
vars   == <<inputs, cancelled, phase, place, count, session, halted, terminal, report, late>>

Line(case, step, state) == [case |-> case, step |-> step, state |-> state]
States == {"passed", "failed", "error", "not_run"}
IsRecorded(case, step) == \E i \in DOMAIN steps : steps[i].case = case /\ steps[i].step = step
Bad(state) == state \in {"failed", "error"}

Init ==
  /\ cases \in {f \in [1..NumCases -> 0..MaxSteps] : \E i \in 1..NumCases : f[i] > 0}
  /\ stop \in BOOLEAN
  /\ cancelled = FALSE /\ phase = "case" /\ c = 1 /\ s = 1
  /\ left = [actions |-> 0, expect |-> 0, bad |-> FALSE] /\ done = 0 /\ count = 0
  /\ session = "none" /\ halted = FALSE /\ terminal = "passed"
  /\ steps = <<>> /\ passed = 0 /\ failed = 0 /\ late = 0

-----------------------------------------------------------------------------
(* Cases.                                                                  *)

NotRun(case) == [i \in 1..cases[case] |-> Line(case, i, "not_run")]

SkipCase ==
  /\ phase = "case" /\ c <= NumCases /\ halted
  /\ steps' = steps \o NotRun(c)
  /\ c' = c + 1
  /\ UNCHANGED <<inputs, cancelled, phase, s, left, done, count, session, halted, terminal, passed, failed, late>>

Begins == phase = "case" /\ c <= NumCases /\ ~halted

Create ==
  /\ Begins
  /\ phase' = "creating"
  /\ UNCHANGED <<inputs, cancelled, place, count, session, halted, terminal, report, late>>

\* The next case, once the session of this one is destroyed.
NextCase == c' = c + 1 /\ s' = 1 /\ phase' = "case" /\ session' = "none"

\* The first step of the case without a line.
FirstUnrecorded == {i \in 1..cases[c] : ~IsRecorded(c, i) /\ \A k \in 1..(i - 1) : IsRecorded(c, k)}

\* catch and finally: the step it was at is an error, the case is over.
Caught ==
  /\ terminal' = "error"
  /\ steps' = steps \o SetToSeq({Line(c, i, "error") : i \in FirstUnrecorded})
  /\ halted' = stop
  /\ NextCase

\* The runtime could not be built, an image did not load, or a low did not settle.
CreateThrows ==
  /\ phase = "creating"
  /\ Caught
  /\ UNCHANGED <<inputs, cancelled, left, done, count, passed, failed, late>>

Created ==
  /\ phase = "creating"
  /\ phase' = "step" /\ s' = 1 /\ session' = "live"
  /\ UNCHANGED <<inputs, cancelled, c, left, done, count, halted, terminal, report, late>>

CloseCase ==
  /\ phase = "step" /\ s > cases[c]
  /\ NextCase
  /\ UNCHANGED <<inputs, cancelled, left, done, count, halted, terminal, report, late>>

-----------------------------------------------------------------------------
(* Steps: their actions, then their expectations.                          *)

Record(state) == steps' = Append(steps, Line(c, s, state))
NextStep == phase' = "step" /\ s' = s + 1 /\ UNCHANGED c

SkipStep ==
  /\ phase = "step" /\ s <= cases[c] /\ halted
  /\ Record("not_run") /\ NextStep
  /\ UNCHANGED <<inputs, cancelled, left, done, count, session, halted, terminal, passed, failed, late>>

BeginStep ==
  /\ phase = "step" /\ s <= cases[c] /\ ~halted
  /\ \E a \in 0..MaxActions, e \in 0..MaxExpect :
       a + e > 0 /\ left' = [actions |-> a, expect |-> e, bad |-> FALSE]
  /\ done' = 0
  /\ phase' = "act"
  /\ UNCHANGED <<inputs, cancelled, c, s, count, session, halted, terminal, report, late>>

Counted == done' = done + 1 /\ count' = (count + 1) % YieldActions
Noticed == late' = IF cancelled THEN late + 1 ELSE late
Took    == left' = [left EXCEPT !.actions = @ - 1]

\* What follows an action that took effect.
AfterAction == phase' = IF count' = 0 THEN "yielding" ELSE "check"

\* A drive, poke, clear or load that the session takes.
Act ==
  /\ phase = "act" /\ left.actions > 0 /\ session = "live"
  /\ Counted /\ Took /\ Noticed /\ AfterAction
  /\ UNCHANGED <<inputs, cancelled, c, s, session, halted, terminal, report>>

\* An action the session refuses ends the step.
RefusedEnds ==
  /\ Record("error") /\ NextStep
  /\ terminal' = "error" /\ halted' = (halted \/ stop)

\* It does not settle, or the session already did not.
Refused ==
  /\ phase = "act" /\ left.actions > 0
  /\ Counted /\ Took /\ session' = "latched"
  /\ RefusedEnds
  /\ UNCHANGED <<inputs, cancelled, passed, failed, late>>

BeginReset ==
  /\ phase = "act" /\ left.actions > 0
  /\ phase' = "resetting"
  /\ UNCHANGED <<inputs, cancelled, place, count, session, halted, terminal, report, late>>

\* A fresh runtime with the images of the case; the latch is off.
ResetEnds ==
  /\ phase = "resetting"
  /\ session' = "live"
  /\ Counted /\ Took /\ Noticed /\ AfterAction
  /\ UNCHANGED <<inputs, cancelled, c, s, halted, terminal, report>>

ResetThrows ==
  /\ phase = "resetting"
  /\ Caught
  /\ UNCHANGED <<inputs, cancelled, left, done, count, passed, failed, late>>

Yielded ==
  /\ phase = "yielding"
  /\ phase' = "check"
  /\ UNCHANGED <<inputs, cancelled, place, count, session, halted, terminal, report, late>>

\* The step is cut short: it has not run, however many of its actions did.
Cut(state) ==
  /\ terminal' = state /\ halted' = TRUE
  /\ Record("not_run") /\ NextStep
  /\ UNCHANGED <<inputs, cancelled, left, done, count, session, passed, failed, late>>

ChecksCancelled == cancelled

Cancelled == phase = "check" /\ ChecksCancelled /\ Cut("cancelled")

TimedOut == phase = "check" /\ ~ChecksCancelled /\ Cut("timed_out")

GoesOn ==
  /\ phase = "check" /\ ~ChecksCancelled
  /\ phase' = "act"
  /\ UNCHANGED <<inputs, cancelled, place, count, session, halted, terminal, report, late>>

-----------------------------------------------------------------------------
(* An expectation holds, does not, or cannot be read.                      *)

Checks == phase = "act" /\ left.actions = 0 /\ left.expect > 0 /\ ~halted

Holds ==
  /\ Checks /\ session = "live"
  /\ left' = [left EXCEPT !.expect = @ - 1] /\ passed' = passed + 1
  /\ UNCHANGED <<inputs, cancelled, phase, c, s, done, count, session, halted, terminal, steps, failed, late>>

\* Mutant: what comes last is what is reported.
FailedAfter(state) == "failed"

FailedState(state) == IF state = "passed" THEN "failed" ELSE state

Differs ==
  /\ Checks /\ session = "live"
  /\ left' = [left EXCEPT !.expect = @ - 1, !.bad = TRUE] /\ failed' = failed + 1
  /\ terminal' = FailedState(terminal) /\ halted' = stop
  /\ UNCHANGED <<inputs, cancelled, phase, c, s, done, count, session, steps, passed, late>>

Unreadable ==
  /\ Checks /\ session = "latched"
  /\ left' = [left EXCEPT !.expect = @ - 1, !.bad = TRUE] /\ failed' = failed + 1
  /\ terminal' = "error"
  /\ UNCHANGED <<inputs, cancelled, phase, c, s, done, count, session, halted, steps, passed, late>>

Verdict == IF left.bad THEN "failed" ELSE "passed"

FinishStep ==
  /\ phase = "act" /\ left.actions = 0 /\ (left.expect = 0 \/ halted)
  /\ Record(Verdict) /\ NextStep
  /\ UNCHANGED <<inputs, cancelled, left, done, count, session, halted, terminal, passed, failed, late>>

-----------------------------------------------------------------------------
(* The end: a line for every step that has none.                           *)

Unrecorded == {p \in (1..NumCases) \X (1..MaxSteps) : p[2] <= cases[p[1]] /\ ~IsRecorded(p[1], p[2])}

\* The steps without a line that come before one: case by case.
Earlier(p) == {q \in Unrecorded : q[1] < p[1] \/ (q[1] = p[1] /\ q[2] < p[2])}
Missing(i) == CHOOSE p \in Unrecorded : Cardinality(Earlier(p)) = i - 1

Finish ==
  /\ phase = "case" /\ c > NumCases
  /\ steps' = steps \o [i \in 1..Cardinality(Unrecorded) |-> Line(Missing(i)[1], Missing(i)[2], "not_run")]
  /\ phase' = "done"
  /\ UNCHANGED <<inputs, cancelled, place, count, session, halted, terminal, passed, failed, late>>

\* The operation is superseded, or forgotten.
Cancel ==
  /\ phase \in {"creating", "resetting", "yielding"} /\ ~cancelled
  /\ cancelled' = TRUE
  /\ UNCHANGED <<inputs, phase, place, count, session, halted, terminal, report, late>>

Runs ==
  \/ SkipCase \/ Create \/ CreateThrows \/ Created \/ CloseCase
  \/ SkipStep \/ BeginStep \/ Act \/ Refused \/ BeginReset \/ ResetEnds \/ ResetThrows
  \/ Yielded \/ Cancelled \/ TimedOut \/ GoesOn
  \/ Holds \/ Differs \/ Unreadable \/ FinishStep \/ Finish

Stopped == phase = "done" /\ UNCHANGED vars

Next == Runs \/ Cancel \/ Stopped

\* Promises settle and timers fire: the run is never left waiting.
Spec == Init /\ [][Next]_vars /\ WF_vars(Runs)

-----------------------------------------------------------------------------

TypeOK ==
  /\ cases \in [1..NumCases -> 0..MaxSteps] /\ (\E i \in 1..NumCases : cases[i] > 0)
  /\ stop \in BOOLEAN /\ cancelled \in BOOLEAN
  /\ phase \in {"case", "creating", "step", "act", "resetting", "yielding", "check", "done"}
  /\ left \in [actions : 0..MaxActions, expect : 0..MaxExpect, bad : BOOLEAN]
  /\ session \in {"none", "live", "latched"} /\ halted \in BOOLEAN
  /\ terminal \in {"passed", "failed", "error", "timed_out", "cancelled"}
  /\ c \in 1..(NumCases + 1) /\ s \in 1..(MaxSteps + 1)
  /\ done \in 0..MaxActions /\ count \in 0..(YieldActions - 1) /\ late \in Nat
  /\ passed \in Nat /\ failed \in Nat
  /\ steps \in Seq([case : 1..NumCases, step : 1..MaxSteps, state : States])
  /\ \A i \in DOMAIN steps : steps[i].step <= cases[steps[i].case]

\* A report has one line for every step, whatever threw and whenever the run
\* was cut short.
EveryStepOnce ==
  /\ \A i, j \in DOMAIN steps : steps[i].case = steps[j].case /\ steps[i].step = steps[j].step => i = j
  /\ phase = "done" => \A i \in 1..NumCases : \A k \in 1..cases[i] : IsRecorded(i, k)

\* The summary says of the steps what they say of themselves: passed when all
\* did, failed when an expectation failed and nothing worse, and a worse state
\* is not forgotten.
SummaryIsTheSteps == phase = "done" =>
  LET seen == {steps[i].state : i \in DOMAIN steps} IN
  /\ terminal = "passed" => seen = {"passed"} /\ failed = 0
  /\ terminal = "failed" => "failed" \in seen /\ seen \subseteq {"passed", "failed", "not_run"}
  /\ "error" \in seen => terminal \in {"error", "timed_out", "cancelled"}
  /\ "failed" \in seen <=> failed > 0
  /\ "not_run" \in seen => halted \/ terminal # "passed"

\* With stopOnFailure the first step that goes wrong is the last one that runs.
StopsAtTheFirst ==
  stop => /\ \A i, j \in DOMAIN steps : i < j /\ Bad(steps[i].state) => steps[j].state = "not_run"
          /\ session = "latched" => halted

\* A session is there while its case runs, and none outlives it.
SessionsEnd == session # "none" => phase \notin {"case", "creating", "done"}

\* A cancelled run lets at most one more action take effect.
CancelStops == late <= 1

\* The report is the run: a line for every step, a summary that says what the lines say,
\* nothing run after a stop, and no session left over.
ReportIsTheRun ==
  TypeOK /\ EveryStepOnce /\ SummaryIsTheSteps /\ StopsAtTheFirst /\ SessionsEnd /\ CancelStops

-----------------------------------------------------------------------------
(***************************************************************************)
(* The inductive invariant behind it: which steps have their line at every *)
(* place of the run, and what the lines, the step under way and the        *)
(* summary say of one another.                                             *)
(***************************************************************************)

\* The case has its session, and may be at a step.
AtStep == phase \in {"act", "resetting", "yielding", "check"}
InCase == phase = "step" \/ AtStep

\* The run goes through the cases and their steps in order.
PlaceIsInside ==
  /\ phase = "creating" \/ InCase => c <= NumCases
  /\ InCase => s <= cases[c] + 1
  /\ AtStep => s <= cases[c]
  /\ phase = "done" => c = NumCases + 1
  /\ done + left.actions <= MaxActions
  /\ phase = "resetting" => left.actions > 0

\* Steps before the place of the run have a line, and no others; those behind one
\* that threw are left out until the end.
LinesAreBehind ==
  /\ \A i \in DOMAIN steps : steps[i].case < c \/ (InCase /\ steps[i].case = c /\ steps[i].step < s)
  /\ InCase => \A k \in 1..(s - 1) : IsRecorded(c, k)

Worse == {"error", "timed_out", "cancelled"}

OnlyErrorsLeaveOut ==
  \A i \in 1..NumCases : i < c => \A k \in 1..cases[i] : IsRecorded(i, k) \/ terminal \in Worse

\* An expectation that failed is told by the lines or by the step under way, and
\* expectations come after the actions.
FailuresAreTold ==
  /\ failed > 0 <=> (\E i \in DOMAIN steps : steps[i].state = "failed") \/ (phase = "act" /\ left.bad)
  /\ terminal = "failed" => failed > 0
  /\ AtStep /\ left.bad => phase = "act" /\ left.actions = 0 /\ terminal # "passed"

\* A worse end is not forgotten, and nothing is left out of a run that passed.
SummarySoFar ==
  /\ (\E i \in DOMAIN steps : steps[i].state = "error") => terminal \in Worse
  /\ terminal = "passed" => \A i \in DOMAIN steps : steps[i].state = "passed"
  /\ halted => terminal # "passed"

\* A run that stops does so at the first that goes wrong, and then only the step
\* under way still gets its verdict.
HaltedIsOver ==
  /\ stop /\ (\E i \in DOMAIN steps : Bad(steps[i].state)) => halted /\ ~AtStep
  /\ AtStep /\ halted => phase = "act" /\ left.actions = 0
  /\ AtStep /\ stop /\ left.bad => halted
  /\ phase = "creating" => ~halted

\* A cancelled run takes no action after the next check.
CancelIsNoticed ==
  /\ late # 0 => cancelled
  /\ late # 0 /\ phase \notin {"yielding", "check"} => halted

VerifyInv ==
  /\ TypeOK /\ EveryStepOnce /\ StopsAtTheFirst /\ SessionsEnd /\ CancelStops
  /\ PlaceIsInside /\ LinesAreBehind /\ OnlyErrorsLeaveOut /\ FailuresAreTold
  /\ SummarySoFar /\ HaltedIsOver /\ CancelIsNoticed
=============================================================================
