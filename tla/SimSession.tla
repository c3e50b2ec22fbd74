----------------------------- MODULE SimSession -----------------------------
(***************************************************************************)
(* A simulation session and its faces (scripts/sim-session.ts): the owner  *)
(* of the runtime built from an artifact, driven by the Data tab, the      *)
(* console (scripts/sim-executor.ts) and the canvas, which drives the      *)
(* runtime itself and tells the session after. A reset replaces the        *)
(* runtime across an await, while the faces go on.                         *)
(* Of a runtime the model keeps what was driven: its input pins and one    *)
(* memory word. Whether a change settles is the circuit's affair and left  *)
(* open; Engine is about that.                                             *)
(***************************************************************************)
EXTENDS Naturals, Sequences, SequencesExt

CONSTANTS
  Face, Canvas,     \* who listens, and the one of them that holds the runtime
  Input,            \* the root inputs
  Value,            \* what fits their width
  MaxRuntimes,      \* bound: runtimes loaded
  Preloads,         \* how writing the images may end: "ok", "nosettle", "throws"
  None

\* What a pin reads that nobody drove, and a value beyond the width.
Floating == "z"
TooWide == "wide"
\* A name that is no input: an output, or unknown.
NotInput == "out"
Low == CHOOSE v \in Value : TRUE
Image == "image"

VARIABLES
  rts,          \* every runtime loaded so far
  rt,           \* the session's, 0 before it is built
  phase,        \* "absent", "building", "alive" or "destroyed"
  resetting,    \* a reset awaits its runtime
  awaiting,     \* the faces that await the reset's promise
  didNotSettle,
  listening,    \* the faces subscribed
  view,         \* what each face shows, and the runtime it holds
  reply         \* the answer to the last call

vars == <<rts, rt, phase, resetting, awaiting, didNotSettle, listening, view, reply>>

Runtimes == 1..Len(rts)
Unseen == [rt |-> 0, pins |-> [p \in Input |-> Floating], mem |-> Floating]

\* loadSimulationRuntime(): every pin floating, every cell unknown.
Loaded == [alive |-> TRUE, stuck |-> FALSE, pins |-> [p \in Input |-> Floating], mem |-> Floating]

\* A runtime after its destroy().
Gone == [Loaded EXCEPT !.alive = FALSE]

Init ==
  /\ rts = <<>> /\ rt = 0 /\ phase = "absent" /\ resetting = FALSE /\ awaiting = {}
  /\ didNotSettle = FALSE
  /\ listening = {} /\ view = [f \in Face |-> Unseen] /\ reply = None

\* What a face shows once it has read the session's runtime.
Seen(state) == [rt |-> rt, pins |-> state.pins, mem |-> state.mem]

\* emit(): every listener refreshes from the runtime.
Emit(state) == view' = [f \in Face |-> IF f \in listening THEN Seen(state) ELSE view[f]]

-----------------------------------------------------------------------------
(* Building.                                                               *)

BeginBuild ==
  /\ phase = "absent" /\ phase' = "building"
  /\ UNCHANGED <<rts, rt, resetting, awaiting, didNotSettle, listening, view, reply>>

Booted == [Loaded EXCEPT !.pins = [p \in Input |-> Low], !.mem = Image]

\* build(): preloads, then every input low; a failure destroys the session.
EndBuild ==
  /\ phase = "building"
  /\ rt' = 1
  /\ \E how \in Preloads, settles \in BOOLEAN :
       LET fine == how = "ok" /\ settles IN
       /\ phase' = IF fine THEN "alive" ELSE "destroyed"
       /\ rts' = <<IF fine THEN Booted ELSE Gone>>
       /\ didNotSettle' = ~fine
  /\ UNCHANGED <<resetting, awaiting, listening, view, reply>>

Subscribe(f) ==
  /\ phase = "alive" /\ ~didNotSettle /\ f \notin listening
  /\ listening' = listening \cup {f}
  /\ view' = [view EXCEPT ![f] = Seen(rts[rt])]
  /\ UNCHANGED <<rts, rt, phase, resetting, awaiting, didNotSettle, reply>>

Unsubscribe(f) ==
  /\ f \in listening /\ listening' = listening \ {f}
  /\ view' = [view EXCEPT ![f] = Unseen]
  /\ UNCHANGED <<rts, rt, phase, resetting, awaiting, didNotSettle, reply>>

-----------------------------------------------------------------------------
(* Drives. A list of assignments is driven in order, each settling, up to  *)
(* the first that does not.                                                *)

\* resolveDrive(): an input, and a value within its width.
Resolves(a) == a.pin \in Input /\ a.value \in Value

Drive(state, as) == [state EXCEPT !.pins = [p \in Input |->
  LET hits == {i \in DOMAIN as : as[i].pin = p}
  IN  IF hits = {} THEN @[p] ELSE as[Max(hits)].value]]

\* The latched work budget: the canvas is retired before the next task.
Stuck(r, state) ==
  /\ rts' = [rts EXCEPT ![r] = [state EXCEPT !.stuck = TRUE]]
  /\ didNotSettle' = TRUE
  /\ listening' = listening \ {Canvas}
  /\ view' = [view EXCEPT ![Canvas] = Unseen]

Driven(state, answer) ==
  /\ rts' = [rts EXCEPT ![rt] = state]
  /\ reply' = answer
  /\ UNCHANGED <<didNotSettle, listening>>

\* Mutant: the session does not tell the others.
SilentSettles(as) ==
  \/ Driven(Drive(rts[rt], as), "ok") /\ UNCHANGED view
  \/ \E k \in 1..Len(as) : Stuck(rt, Drive(rts[rt], SubSeq(as, 1, k))) /\ reply' = "E_NOSETTLE"

Settles(as) ==
  \/ Driven(Drive(rts[rt], as), "ok") /\ Emit(Drive(rts[rt], as))
  \/ \E k \in 1..Len(as) : Stuck(rt, Drive(rts[rt], SubSeq(as, 1, k))) /\ reply' = "E_NOSETTLE"

\* An answer that leaves everything as it is.
Refuse(answer) == reply' = answer /\ UNCHANGED <<rts, didNotSettle, listening, view>>

\* set() and eval(): every assignment is looked up before one is driven.
Eval(as) ==
  IF didNotSettle THEN Refuse("E_NOSETTLE")
  ELSE IF \A i \in DOMAIN as : Resolves(as[i]) THEN Settles(as)
  ELSE Refuse("refused")

Assigns == [pin : Input \cup {NotInput}, value : Value \cup {TooWide}]
AssignLists == {<<a>> : a \in Assigns} \cup {<<a, b>> : a, b \in Assigns}

Call ==
  /\ phase = "alive"
  /\ \E as \in AssignLists : Eval(as)
  /\ UNCHANGED <<rt, phase, resetting, awaiting>>

\* poke(), clear() and loadImage(): one write, then settle.
WriteMemory ==
  /\ phase = "alive"
  /\ IF didNotSettle THEN Refuse("E_NOSETTLE")
     ELSE \E w \in Value \cup {Floating, Image} :
            LET after == [rts[rt] EXCEPT !.mem = w] IN
            \/ Driven(after, "ok") /\ Emit(after)
            \/ Stuck(rt, after) /\ reply' = "E_NOSETTLE"
            \/ Refuse("refused")
  /\ UNCHANGED <<rt, phase, resetting, awaiting>>

\* What the console asks of a session without changing it.
Listings == {"pins", "mems"}
Readings == {"get", "dump", "peek", "mem", "save"}

\* execute(): after a run that did not settle only a reset, quit or a listing is
\* answered.
Gated(verb) == didNotSettle /\ verb \notin Listings

\* A line of the console that reads; a name that is unknown or an address beyond
\* the memory is refused.
Ask ==
  /\ phase = "alive"
  /\ \E verb \in Listings \cup Readings :
       \/ Gated(verb) /\ reply' = "E_NOSETTLE"
       \/ ~Gated(verb) /\ verb \in Listings /\ reply' = "listed"
       \/ ~Gated(verb) /\ verb \in Readings /\ reply' \in {"values", "refused"}
  /\ UNCHANGED <<rts, rt, phase, resetting, awaiting, didNotSettle, listening, view>>

\* A click on the canvas drives the runtime it holds, then notifyExternal().
CanvasDrive ==
  /\ phase = "alive" /\ Canvas \in listening
  /\ LET r == view[Canvas].rt IN
     \E p \in Input, v \in Value :
       LET after == Drive(rts[r], <<[pin |-> p, value |-> v]>>) IN
       \/ /\ rts' = [rts EXCEPT ![r] = after]
          /\ Emit(IF r = rt THEN after ELSE rts[rt])
          /\ UNCHANGED <<didNotSettle, listening>>
       \/ Stuck(r, after)
  /\ UNCHANGED <<rt, phase, resetting, awaiting, reply>>

-----------------------------------------------------------------------------
(* Reset, across the load of a runtime.                                    *)

\* reset() and the console's reset and quit: one reset for all who ask.
Reset(f) ==
  /\ phase = "alive" /\ f \notin awaiting
  /\ Len(rts) < MaxRuntimes
  /\ resetting' = TRUE /\ awaiting' = awaiting \cup {f}
  /\ UNCHANGED <<rts, rt, phase, didNotSettle, listening, view, reply>>

\* Mutant: the reset is forgotten with those who await it.
ResetOverInSilence(answer) == resetting' = FALSE /\ awaiting' = awaiting /\ reply' = answer

\* finally: the promise is settled and forgotten.
ResetOver(answer) == resetting' = FALSE /\ awaiting' = {} /\ reply' = answer

LoadFails ==
  /\ resetting /\ ResetOver("rejected")
  /\ UNCHANGED <<rts, rt, phase, didNotSettle, listening, view>>

\* The session was destroyed while it loaded: so is the runtime.
LoadedTooLate ==
  /\ resetting /\ phase = "destroyed"
  /\ rts' = Append(rts, Gone)
  /\ ResetOver("rejected")
  /\ UNCHANGED <<rt, phase, didNotSettle, listening, view>>

\* The swap: the failure is forgotten, the old runtime destroyed, the images
\* written once more; nothing is driven low.
Swap(how) ==
  LET fresh == [Loaded EXCEPT !.mem = IF how = "ok" THEN Image ELSE Floating, !.stuck = (how = "nosettle")]
  IN /\ rts' = Append([rts EXCEPT ![rt] = Gone], fresh)
     /\ rt' = Len(rts) + 1
     /\ didNotSettle' = (how = "nosettle")

\* 'rebuilt' is emitted only after the preloads went through.
Rebuilt(how) ==
  IF how = "ok" THEN view' = [f \in Face |-> IF f \in listening
                                THEN [rt |-> rt', pins |-> rts'[rt'].pins, mem |-> rts'[rt'].mem] ELSE view[f]]
  ELSE IF how = "nosettle" THEN view' = [view EXCEPT ![Canvas] = Unseen]
  ELSE UNCHANGED view

LoadEnds ==
  /\ resetting /\ phase = "alive"
  /\ \E how \in Preloads :
       /\ Swap(how) /\ Rebuilt(how)
       /\ listening' = IF how = "nosettle" THEN listening \ {Canvas} ELSE listening
       /\ ResetOver(IF how = "ok" THEN "ok" ELSE "rejected")
  /\ UNCHANGED phase

\* destroy(): once; the listeners are let go.
Destroy ==
  /\ phase = "alive" /\ phase' = "destroyed"
  /\ rts' = [rts EXCEPT ![rt] = Gone]
  /\ listening' = {} /\ view' = [f \in Face |-> Unseen]
  /\ UNCHANGED <<rt, resetting, awaiting, didNotSettle, reply>>

LoadStep == LoadFails \/ LoadedTooLate \/ LoadEnds

Next ==
  \/ BeginBuild \/ EndBuild \/ Call \/ WriteMemory \/ Ask \/ CanvasDrive
  \/ \E f \in Face : Subscribe(f) \/ Unsubscribe(f) \/ Reset(f)
  \/ LoadStep \/ Destroy

\* Instantiating a module ends.
Spec == Init /\ [][Next]_vars /\ WF_vars(LoadStep) /\ WF_vars(EndBuild)

-----------------------------------------------------------------------------
PinState == Value \cup {Floating}
Memory == Value \cup {Floating, Image}

\* The states of the session, its runtimes and its faces are the code's.
TypeOK ==
  /\ rts \in Seq([alive : BOOLEAN, stuck : BOOLEAN, pins : [Input -> PinState], mem : Memory])
  /\ Len(rts) <= MaxRuntimes /\ rt \in 0..Len(rts)
  /\ phase \in {"absent", "building", "alive", "destroyed"}
  /\ resetting \in BOOLEAN /\ awaiting \subseteq Face /\ didNotSettle \in BOOLEAN
  /\ listening \subseteq Face /\ view \in [Face -> [rt : 0..Len(rts), pins : [Input -> PinState], mem : Memory]]
  /\ reply \in {None, "ok", "refused", "E_NOSETTLE", "rejected", "listed", "values"}

\* Whoever drives, through the session or around it, and whatever reset comes
\* between: every face that listens shows what the runtime holds.
FacesAgree ==
  phase = "alive" /\ ~didNotSettle => \A f \in listening : view[f] = Seen(rts[rt])

\* The session owns every runtime it loaded: one lives while it lives, none
\* after, however a reset and a destroy overtake each other.
OneRuntimeLives ==
  {r \in Runtimes : rts[r].alive} = IF phase = "alive" THEN {rt} ELSE {}

\* The session says it did not settle exactly while its runtime is latched, so
\* a reset brings it back and a latched runtime is never read as an answer.
FailureIsTheRuntimes == phase = "alive" => (didNotSettle <=> rts[rt].stuck)

\* What reset() promises: the old runtime is destroyed, and a face holding it
\* rebuilds. So no face that listens holds a runtime that is gone.
HeldRuntimeLives == phase = "alive" /\ Canvas \in listening => rts[view[Canvas].rt].alive

\* One runtime, shared: whoever drives, resets or destroys the session, every face
\* shows what the one runtime alive holds and whether it settled.
FacesShareTheRuntime ==
  TypeOK /\ FacesAgree /\ OneRuntimeLives /\ FailureIsTheRuntimes /\ HeldRuntimeLives

-----------------------------------------------------------------------------
(***************************************************************************)
(* The inductive invariant behind it, which holds as long as the images of *)
(* a session can be written: there is room for the runtime that is being   *)
(* loaded, nobody listens to a session that is not alive, and the canvas   *)
(* not to a runtime that did not settle.                                   *)
(***************************************************************************)
RoomToReset == resetting => Len(rts) < MaxRuntimes /\ phase \in {"alive", "destroyed"}

BuiltOnce ==
  /\ phase \in {"absent", "building"} => rts = <<>>
  /\ phase = "alive" => rt \in Runtimes

ListenersAreOfTheLiving ==
  /\ phase # "alive" => listening = {}
  /\ Canvas \in listening => ~didNotSettle

SimInv ==
  /\ TypeOK /\ FacesAgree /\ OneRuntimeLives /\ FailureIsTheRuntimes
  /\ RoomToReset /\ BuiltOnce /\ ListenersAreOfTheLiving

ImagesAreWritten == "throws" \notin Preloads
=============================================================================
