------------------------------- MODULE Engine -------------------------------
(***************************************************************************)
(* The event-driven simulation engine, Circuit of lib/circuit.zig: the     *)
(* event queue, the two-phase step propagate() runs per timestamp, the     *)
(* replaceable (inertial) pending transition of a logic gate, the settle   *)
(* budget, and the host calls that start a propagation.                    *)
(*                                                                         *)
(* Time is relative.  queue[d] holds the events due d units from now, in   *)
(* insertion order, which is the (timestamp, sequence) order of the heap:  *)
(* no event is scheduled more than GateDelay ahead.  The run-to-completion *)
(* call propagate() is cut at every unit of settle work, so the states     *)
(* between two loop iterations are states of the model too.                *)
(***************************************************************************)
EXTENDS Netlist

CONSTANTS
  HostPin,        \* input pins the host drives
  HostValue,      \* HostValue[p]: values the host drives onto p
  HostWord,       \* HostWord[m]: words the host writes to a cell of m
  HostImage,      \* HostImage[m]: cell planes the host loads into m
  MaxSettleWork,  \* Circuit.MAX_SETTLE_WORK
  GenLimit        \* generations wrap to 1 at this value, STAGED_INERTIAL_FLAG

GateDelay == 5    \* PROPAGATION_DELAY
WireDelay == 1    \* WIRE_PROPAGATION_DELAY

ASSUME EngineAssumption ==
  /\ MaxSettleWork \in Nat
  /\ GenLimit \in Nat /\ GenLimit > 1
  /\ HostPin \subseteq {c \in Component : Kind[c] = "input_pin"}
  /\ \A p \in HostPin : HostValue[p] \subseteq State(Width[p])
  /\ \A m \in Memory : HostWord[m] \subseteq State(Width[m])
  /\ \A m \in Memory : HostImage[m] \subseteq [Address(m) -> State(Width[m])]

\* The host drives inputs of the whole circuit, which have no port to drive.
ASSUME PinAssumption == \A p \in HostPin : ~Connected(p, "in")

VARIABLES
  state,      \* the pool: state[c] is the stored value of c
  cells,      \* the cell planes of the memories
  prevClk,    \* MemoryState.prev_clk, bit 0
  pending,    \* pending[c] = [gen, val]: the gate's pending transition, gen 0 none
  nextGen,    \* next_generation
  queue,      \* queue[d]: events due in d time units, in sequence order
  phase,      \* where propagate() is; "idle" between host calls
  batch,      \* events of the current timestamp not popped yet
  staged,     \* staged_at_step
  wave,       \* indices of staged gate events awaiting validation
  idx,        \* position in the staged list of the loop that is running
  outs,       \* downstream components still to notify for staged[idx]
  remaining,  \* settle work left to this propagate() call
  failed,     \* settle_failed
  call        \* the host call that is running: component and value it drives

step == <<batch, staged, wave, idx, outs>>
vars == <<state, cells, prevClk, pending, nextGen, queue, phase, step,
          remaining, failed, call>>

Delay == 1..GateDelay
NoCall == <<>>
NoQueue == [d \in Delay |-> <<>>]

Phases == {"idle", "next", "pop", "project", "validate", "notify", "requeue"}

Event == [comp : Component, val : AnyState, gen : Nat]

StagedEvent == [comp : Component, val : AnyState, gate : BOOLEAN,
                old : AnyState, accepted : BOOLEAN]

\* readState: a failed circuit reads undefined everywhere.
ReadState(c) == IF failed THEN Undefined(Width[c]) ELSE state[c]

QueueEmpty == \A d \in Delay : queue[d] = <<>>

Init ==
  /\ state = [c \in Component |-> Undefined(Width[c])]
  /\ cells = [m \in Memory |-> [a \in Address(m) |-> Undefined(Width[m])]]
  /\ prevClk = [m \in Memory |-> "X"]
  /\ pending = [c \in Component |-> [gen |-> 0, val |-> Undefined(Width[c])]]
  /\ nextGen = 1
  /\ queue = NoQueue
  /\ phase = "idle"
  /\ batch = <<>> /\ staged = <<>> /\ wave = {} /\ idx = 0 /\ outs = <<>>
  /\ remaining = 0
  /\ failed = FALSE
  /\ call = NoCall

-----------------------------------------------------------------------------
(* Settle work *)

\* consumeSettleWork, n times in a row, all granted.
Consume(n) ==
  /\ remaining >= n
  /\ remaining' = remaining - n

(***************************************************************************)
(* The work the next loop iteration asks for: one per popped event, per    *)
(* validated candidate, per notified output, per rejected candidate.       *)
(***************************************************************************)
WorkNeeded ==
  IF phase = "pop" /\ batch # <<>> THEN 1
  ELSE IF phase = "validate" THEN Cardinality(wave)
  ELSE IF phase = "notify" /\ outs # <<>> THEN 1
  ELSE IF phase = "requeue" /\ idx < Len(staged) /\ ~staged[idx + 1].accepted THEN 1
  ELSE 0

-----------------------------------------------------------------------------
(* Host calls.  All refuse with NoSettle once the circuit has failed.      *)

\* Variant: the settle_failed refusal is missing.
CallableWhenFailed == phase = "idle"

Callable == phase = "idle" /\ ~failed

\* propagateEvent(c, v), followed by the call of propagate().
PropagateEvent(c, v) ==
  IF state[c] = v
    THEN UNCHANGED <<queue, phase, remaining, call>>
    ELSE /\ queue' = [queue EXCEPT ![GateDelay] = Append(@, [comp |-> c, val |-> v, gen |-> 0])]
         /\ phase' = "next"
         /\ remaining' = MaxSettleWork
         /\ call' = <<c, v>>

\* setPin, Circuit.propagateEvent on an input pin.
Drive(p) ==
  /\ Callable
  /\ \E v \in HostValue[p] : PropagateEvent(p, v)
  /\ UNCHANGED <<state, cells, prevClk, pending, nextGen, step, failed>>

\* Variant: the new plane is not presented on out.
SetPlaneUnrefreshed(m, plane) ==
  /\ cells' = [cells EXCEPT ![m] = plane]
  /\ UNCHANGED <<state, prevClk, pending, nextGen, queue, phase, step, remaining,
                 failed, call>>

\* The three mutators below end in memoryRefresh: out follows the new planes.
SetPlane(m, plane) ==
  /\ cells' = [cells EXCEPT ![m] = plane]
  /\ PropagateEvent(m, MemoryReadOut(m, state, cells'))
  /\ UNCHANGED <<state, prevClk, pending, nextGen, step, failed>>

MemoryWriteWord(m) ==
  /\ Callable
  /\ \E a \in Address(m), v \in HostWord[m] : SetPlane(m, [cells[m] EXCEPT ![a] = v])

MemoryClear(m) ==
  /\ Callable
  /\ SetPlane(m, [a \in Address(m) |-> Undefined(Width[m])])

MemoryLoadImage(m) ==
  /\ Callable
  /\ \E plane \in HostImage[m] : SetPlane(m, plane)

-----------------------------------------------------------------------------
(* Scheduling *)

\* The transport events: wire-like kinds after 1 unit, memories and wired
\* input pins after 5, compared with the COMMITTED state and never cancelled.
\* Variant: one delay for every kind.
DelayOfUniform(c) == GateDelay

DelayOf(c) == IF c \in WireLike THEN WireDelay ELSE GateDelay

ScheduleTransport(c, target) ==
  /\ queue' = IF state[c] = target THEN queue
              ELSE [queue EXCEPT ![DelayOf(c)] =
                      Append(@, [comp |-> c, val |-> target, gen |-> 0])]
  /\ UNCHANGED <<pending, nextGen>>

\* A gate with its pending transition dropped; the stored target stays behind.
Dropped(p) == [gen |-> 0, val |-> p.val]

\* Variant: the generation counter never wraps.
NextGenerationUnbounded == nextGen + 1

NextGeneration == IF nextGen + 1 >= GenLimit THEN 1 ELSE nextGen + 1

\* Variant: every evaluation starts a new transition, postponing the deadline.
ScheduleInertialReissued(c, target) ==
  IF state[c] = target
    THEN /\ pending' = [pending EXCEPT ![c] = Dropped(@)]
         /\ UNCHANGED <<queue, nextGen>>
  ELSE /\ pending' = [pending EXCEPT ![c] = [gen |-> nextGen, val |-> target]]
       /\ queue' = [queue EXCEPT ![GateDelay] =
                      Append(@, [comp |-> c, val |-> target, gen |-> nextGen])]
       /\ nextGen' = NextGeneration

\* Variant: the dedup compares the value and forgets that nothing is pending.
ScheduleInertialStaleDedup(c, target) ==
  IF state[c] = target
    THEN /\ pending' = [pending EXCEPT ![c] = Dropped(@)]
         /\ UNCHANGED <<queue, nextGen>>
  ELSE IF pending[c].val = target
    THEN UNCHANGED <<pending, queue, nextGen>>
  ELSE /\ pending' = [pending EXCEPT ![c] = [gen |-> nextGen, val |-> target]]
       /\ queue' = [queue EXCEPT ![GateDelay] =
                      Append(@, [comp |-> c, val |-> target, gen |-> nextGen])]
       /\ nextGen' = NextGeneration

\* scheduleInertial
ScheduleInertial(c, target) ==
  IF state[c] = target
    THEN /\ pending' = [pending EXCEPT ![c] = Dropped(@)]
         /\ UNCHANGED <<queue, nextGen>>
  ELSE IF pending[c].gen # 0 /\ pending[c].val = target
    THEN UNCHANGED <<pending, queue, nextGen>>
  ELSE /\ pending' = [pending EXCEPT ![c] = [gen |-> nextGen, val |-> target]]
       /\ queue' = [queue EXCEPT ![GateDelay] =
                      Append(@, [comp |-> c, val |-> target, gen |-> nextGen])]
       /\ nextGen' = NextGeneration

\* Variant: an undefined clock counts as low.
RamWritesFromUndefined(m) ==
  /\ Kind[m] = "ram"
  /\ ControlBit(m, "clk", state) = "1" /\ prevClk[m] # "1"
  /\ ControlBit(m, "we", state) = "1"
  /\ HasAddress(m, state)

\* The RAM arm: a defined-low to defined-high clk with we high stores din.
RamWrites(m) ==
  /\ Kind[m] = "ram"
  /\ ControlBit(m, "clk", state) = "1" /\ prevClk[m] = "0"
  /\ ControlBit(m, "we", state) = "1"
  /\ HasAddress(m, state)

Written(m) ==
  IF RamWrites(m)
    THEN [cells EXCEPT ![m][AddressOf(m, state)] = DataIn(m, state)]
    ELSE cells

\* Variant: prev_clk is stored only when the edge wrote.
RecalculateMemoryLazyClock(m) ==
  /\ cells' = Written(m)
  /\ prevClk' = IF Kind[m] = "ram" /\ (RamWrites(m) \/ ControlBit(m, "clk", state) # "1")
                  THEN [prevClk EXCEPT ![m] = ControlBit(m, "clk", state)]
                ELSE prevClk
  /\ ScheduleTransport(m, MemoryReadOut(m, state, cells'))

RecalculateMemory(m) ==
  /\ cells' = Written(m)
  /\ prevClk' = IF Kind[m] = "ram" THEN [prevClk EXCEPT ![m] = ControlBit(m, "clk", state)]
                ELSE prevClk
  /\ ScheduleTransport(m, MemoryReadOut(m, state, cells'))

\* Variant: every input pin is left to the host.
UndrivenPin(c) == Kind[c] = "input_pin"

\* An input pin nothing drives returns before scheduling.
Undriven(c) == Kind[c] = "input_pin" /\ ~Connected(c, "in")

\* recalculateAndReschedule
Recalculate(c) ==
  IF c \in Memory THEN RecalculateMemory(c)
  ELSE /\ UNCHANGED <<cells, prevClk>>
       /\ IF c \in Gate THEN ScheduleInertial(c, Target(c, state))
          ELSE IF Undriven(c) THEN UNCHANGED <<pending, queue, nextGen>>
          ELSE ScheduleTransport(c, Target(c, state))

-----------------------------------------------------------------------------
(* propagate(): Phase 1 *)

EarliestDue == CHOOSE d \in Delay :
                 /\ queue[d] # <<>>
                 /\ \A e \in Delay : queue[e] # <<>> => d <= e

Shifted(q, t) == [d \in Delay |-> IF d + t \in Delay THEN q[d + t] ELSE <<>>]

\* The outer loop: current_time advances to the earliest timestamp.
Advance ==
  /\ phase = "next" /\ ~QueueEmpty
  /\ batch' = queue[EarliestDue]
  /\ queue' = Shifted(queue, EarliestDue)
  /\ phase' = "pop"
  /\ UNCHANGED <<state, cells, prevClk, pending, nextGen, staged, wave, idx,
                 outs, remaining, failed, call>>

\* Variant: one timestamp per call.
ReturnEarly ==
  /\ phase = "next"
  /\ phase' = "idle"
  /\ remaining' = 0
  /\ call' = NoCall
  /\ UNCHANGED <<state, cells, prevClk, pending, nextGen, queue, step, failed>>

\* The queue ran dry: propagate() returns to the host.
Return ==
  /\ phase = "next" /\ QueueEmpty
  /\ phase' = "idle"
  /\ remaining' = 0
  /\ call' = NoCall
  /\ UNCHANGED <<state, cells, prevClk, pending, nextGen, queue, step, failed>>

\* Variant: any event of a gate with a pending transition is live.
LiveAnyGeneration(e) == e.gen = 0 \/ pending[e.comp].gen # 0

\* A gate event is live while it is the gate's one pending transition.
Live(e) == e.gen = 0 \/ pending[e.comp] = [gen |-> e.gen, val |-> e.val]

Candidate(e) == [comp |-> e.comp, val |-> e.val, gate |-> e.gen # 0,
                 old |-> Undefined(Width[e.comp]), accepted |-> TRUE]

Projected(s) == [comp |-> s.comp, val |-> s.val, gate |-> s.gate,
                 old |-> state[s.comp], accepted |-> s.accepted]

Reversed(s) == [comp |-> s.comp, val |-> s.val, gate |-> s.gate,
                old |-> s.old, accepted |-> ~s.accepted]

\* Variant: the transition being carried out still counts as pending.
PopLiveStillPending ==
  /\ phase = "pop" /\ batch # <<>> /\ Live(Head(batch))
  /\ Consume(1)
  /\ batch' = Tail(batch)
  /\ staged' = Append(staged, Candidate(Head(batch)))
  /\ UNCHANGED <<state, cells, prevClk, pending, nextGen, queue, phase, wave, idx, outs,
                 failed, call>>

PopLive ==
  /\ phase = "pop" /\ batch # <<>> /\ Live(Head(batch))
  /\ Consume(1)
  /\ batch' = Tail(batch)
  /\ staged' = Append(staged, Candidate(Head(batch)))
  /\ pending' = IF Head(batch).gen = 0 THEN pending
                ELSE [pending EXCEPT ![Head(batch).comp] = Dropped(@)]
  /\ UNCHANGED <<state, cells, prevClk, nextGen, queue, phase, wave, idx, outs,
                 failed, call>>

PopStale ==
  /\ phase = "pop" /\ batch # <<>> /\ ~Live(Head(batch))
  /\ Consume(1)
  /\ batch' = Tail(batch)
  /\ UNCHANGED <<state, cells, prevClk, pending, nextGen, queue, phase, staged,
                 wave, idx, outs, failed, call>>

\* Every event of this timestamp is popped.
StageDone ==
  /\ phase = "pop" /\ batch = <<>>
  /\ phase' = "project"
  /\ UNCHANGED <<state, cells, prevClk, pending, nextGen, queue, step, remaining,
                 failed, call>>

(***************************************************************************)
(* The projection loop writes the candidates in order, remembering what    *)
(* each overwrote; a later candidate of a component wins.                  *)
(***************************************************************************)
Project ==
  /\ phase = "project" /\ idx < Len(staged)
  /\ staged' = [staged EXCEPT ![idx + 1] = Projected(@)]
  /\ state' = [state EXCEPT ![staged[idx + 1].comp] = staged[idx + 1].val]
  /\ idx' = idx + 1
  /\ UNCHANGED <<cells, prevClk, pending, nextGen, queue, phase, batch, wave, outs,
                 remaining, failed, call>>

\* Every staged gate is queued for validation.
StartValidation ==
  /\ phase = "project" /\ idx = Len(staged)
  /\ wave' = {i \in DOMAIN staged : staged[i].gate}
  /\ idx' = 0
  /\ phase' = "validate"
  /\ UNCHANGED <<state, cells, prevClk, pending, nextGen, queue, batch, staged, outs,
                 remaining, failed, call>>

(***************************************************************************)
(* One validation wave: every queued candidate is judged against the same  *)
(* pool, then the verdicts that changed are written, and the staged gates  *)
(* they feed are queued for the next wave.                                 *)
(***************************************************************************)
\* Variant: no validation at the deadline.
SupportedAlways(i) == TRUE

Supported(i) == Target(staged[i].comp, state) = staged[i].val

Flips == {i \in wave : Supported(i) # staged[i].accepted}

FlippedState(c) ==
  IF \E i \in Flips : staged[i].comp = c
    THEN LET i == CHOOSE i \in Flips : staged[i].comp = c
         IN  IF staged[i].accepted THEN staged[i].old ELSE staged[i].val
    ELSE state[c]

ValidateWave ==
  /\ phase = "validate" /\ wave # {}
  /\ Consume(Cardinality(wave))
  /\ staged' = [i \in DOMAIN staged |->
                  IF i \in Flips THEN Reversed(staged[i]) ELSE staged[i]]
  /\ state' = [c \in Component |-> FlippedState(c)]
  /\ wave' = {j \in DOMAIN staged :
                staged[j].gate /\ \E i \in Flips : Listens(staged[j].comp, staged[i].comp)}
  /\ UNCHANGED <<cells, prevClk, pending, nextGen, queue, phase, batch, idx,
                 outs, failed, call>>

\* No candidate left to judge: the batch is committed.
Commit ==
  /\ phase = "validate" /\ wave = {}
  /\ phase' = "notify"
  /\ UNCHANGED <<state, cells, prevClk, pending, nextGen, queue, step, remaining,
                 failed, call>>

-----------------------------------------------------------------------------
(* propagate(): Phase 2 *)

Changed(s) == s.accepted /\ s.old # s.val

NextChanged ==
  /\ phase = "notify" /\ outs = <<>> /\ idx < Len(staged)
  /\ idx' = idx + 1
  /\ outs' = IF Changed(staged[idx + 1]) THEN Outputs[staged[idx + 1].comp] ELSE <<>>
  /\ UNCHANGED <<state, cells, prevClk, pending, nextGen, queue, phase, batch,
                 staged, wave, remaining, failed, call>>

NotifyOutput ==
  /\ phase = "notify" /\ outs # <<>>
  /\ Consume(1)
  /\ Recalculate(Head(outs))
  /\ outs' = Tail(outs)
  /\ UNCHANGED <<state, phase, batch, staged, wave, idx, failed, call>>

NotifyDone ==
  /\ phase = "notify" /\ outs = <<>> /\ idx = Len(staged)
  /\ idx' = 0
  /\ phase' = "requeue"
  /\ UNCHANGED <<state, cells, prevClk, pending, nextGen, queue, batch, staged,
                 wave, outs, remaining, failed, call>>

\* Rejected candidates are evaluated again against the committed batch.
RequeueRejected ==
  /\ phase = "requeue" /\ idx < Len(staged) /\ ~staged[idx + 1].accepted
  /\ Consume(1)
  /\ Recalculate(staged[idx + 1].comp)
  /\ idx' = idx + 1
  /\ UNCHANGED <<state, phase, batch, staged, wave, outs, failed, call>>

SkipAccepted ==
  /\ phase = "requeue" /\ idx < Len(staged) /\ staged[idx + 1].accepted
  /\ idx' = idx + 1
  /\ UNCHANGED <<state, cells, prevClk, pending, nextGen, queue, phase, batch,
                 staged, wave, outs, remaining, failed, call>>

\* clearStepScratch, and back to the outer loop.
EndStep ==
  /\ phase = "requeue" /\ idx = Len(staged)
  /\ phase' = "next"
  /\ staged' = <<>> /\ wave' = {} /\ idx' = 0
  /\ UNCHANGED <<state, cells, prevClk, pending, nextGen, queue, batch, outs,
                 remaining, failed, call>>

(***************************************************************************)
(* The budget runs out: settle_failed is set and the errdefer of           *)
(* propagate() drops the queue, the scratch lists and every pending        *)
(* transition.  The pool keeps whatever the half-done step wrote.          *)
(***************************************************************************)
NoSettle ==
  /\ WorkNeeded > remaining
  /\ failed' = TRUE
  /\ phase' = "idle"
  /\ queue' = NoQueue
  /\ pending' = [c \in Component |-> Dropped(pending[c])]
  /\ batch' = <<>> /\ staged' = <<>> /\ wave' = {} /\ idx' = 0 /\ outs' = <<>>
  /\ remaining' = 0
  /\ call' = NoCall
  /\ UNCHANGED <<state, cells, prevClk, nextGen>>

-----------------------------------------------------------------------------
HostCall ==
  \/ \E p \in HostPin : Drive(p)
  \/ \E m \in Memory : MemoryWriteWord(m) \/ MemoryClear(m) \/ MemoryLoadImage(m)

Propagate ==
  \/ Advance \/ Return \/ PopLive \/ PopStale \/ StageDone \/ Project
  \/ StartValidation \/ ValidateWave \/ Commit
  \/ NextChanged \/ NotifyOutput \/ NotifyDone
  \/ RequeueRejected \/ SkipAccepted \/ EndStep \/ NoSettle

Next == HostCall \/ Propagate

\* propagate() runs to completion on the caller's thread; the host need not call.
Spec == Init /\ [][Next]_vars /\ WF_vars(Propagate)
-----------------------------------------------------------------------------
(* Properties *)

EventsOK(events) ==
  /\ events \in Seq(Event)
  /\ \A i \in DOMAIN events : LET e == events[i] IN
       /\ e.val \in State(Width[e.comp])
       /\ e.gen # 0 <=> e.comp \in Gate

CandidatesOK(cands) ==
  /\ cands \in Seq(StagedEvent)
  /\ \A i \in DOMAIN cands : LET s == cands[i] IN
       /\ s.val \in State(Width[s.comp]) /\ s.old \in State(Width[s.comp])
       /\ s.gate <=> s.comp \in Gate

\* The shape of the engine's state.
TypeOK ==
  /\ state \in Pool
  /\ cells \in CellPlanes
  /\ prevClk \in [Memory -> Trit]
  /\ pending \in [Component -> [gen : 0..(GenLimit - 1), val : AnyState]]
  /\ nextGen \in 1..(GenLimit - 1)
  /\ queue \in [Delay -> Seq(Event)] /\ \A d \in Delay : EventsOK(queue[d])
  /\ EventsOK(batch)
  /\ CandidatesOK(staged)
  /\ wave \subseteq {i \in DOMAIN staged : staged[i].gate}
  /\ idx \in 0..Len(staged)
  /\ outs \in Seq(Component)
  /\ phase \in Phases
  /\ remaining \in 0..MaxSettleWork
  /\ failed \in BOOLEAN

Consistent(c) == state[c] = Target(c, state)

(***************************************************************************)
(* When propagate() has returned, every gate and every wire-like component *)
(* holds the value its drivers give it: no corrective event was lost to    *)
(* the dedup, to a cancellation or to a rejection.                         *)
(***************************************************************************)
SettledConsistent ==
  phase = "idle" /\ ~failed => \A c \in Gate \cup WireLike : Consistent(c)

\* Events of c that are still to come with this generation and value.
Scheduled(c, d) == {i \in DOMAIN queue[d] : queue[d][i].comp = c}

(***************************************************************************)
(* Between two timestamps a gate has a pending transition exactly when its *)
(* drivers ask for a value it does not hold, the transition is to that     *)
(* value, and an event that will carry it out is in the queue.             *)
(***************************************************************************)
PendingTracksTarget ==
  phase \in {"idle", "next"} /\ ~failed =>
    \A g \in Gate :
      /\ pending[g].gen = 0 <=> Consistent(g)
      /\ pending[g].gen # 0 =>
           /\ pending[g].val = Target(g, state)
           /\ \E d \in Delay : \E i \in Scheduled(g, d) : Live(queue[d][i])

(***************************************************************************)
(* Between two timestamps the events of a wire-like component are all due  *)
(* one unit from now, with the value its drivers ask for, and there is one *)
(* whenever it does not hold that value.                                   *)
(***************************************************************************)
TransportTracksTarget ==
  phase \in {"idle", "next"} /\ ~failed =>
    \A c \in WireLike :
      /\ \A d \in Delay : \A i \in Scheduled(c, d) :
            d = WireDelay /\ queue[d][i].val = Target(c, state)
      /\ ~Consistent(c) => Scheduled(c, WireDelay) # {}

\* Between two timestamps the queue holds what every gate and every wire has still to
\* become, and no more: nothing stored in `pending` or in the queue is out of date.
QueueTracksTargets == PendingTracksTarget /\ TransportTracksTarget

(***************************************************************************)
(* A replaced transition can never be carried out by the event of an older *)
(* one: at most one event of a gate is live, although the generations are  *)
(* reused when the counter wraps.                                          *)
(***************************************************************************)
OneLiveEvent ==
  \A g \in Gate : \A d, e \in Delay : \A i \in Scheduled(g, d), j \in Scheduled(g, e) :
    Live(queue[d][i]) /\ Live(queue[e][j]) => d = e /\ i = j

(***************************************************************************)
(* A memory shows cells[addr] on out whenever propagate() has returned:    *)
(* no address change, write or host call left an older word there.         *)
(***************************************************************************)
MemoryPresentsWord ==
  phase = "idle" /\ ~failed =>
    \A m \in Memory : state[m] = MemoryReadOut(m, state, cells)

(***************************************************************************)
(* The input pin of a sub-circuit holds the value of the signal bound to   *)
(* it whenever propagate() has returned: the boundary is only a delay.     *)
(***************************************************************************)
WiredPinFollowsDriver ==
  phase = "idle" /\ ~failed =>
    \A c \in Component : Kind[c] = "input_pin" /\ Connected(c, "in") => Consistent(c)

\* A circuit that failed is never written again; only a rebuild helps.
FailedIsFinal == [][failed => UNCHANGED <<state, cells>>]_vars

-----------------------------------------------------------------------------
(* Refinement *)

Status == IF failed THEN "failed" ELSE IF phase = "idle" THEN "idle" ELSE "busy"

DrivenPins ==
  [p \in HostPin |->
     IF failed THEN Undefined(Width[p])
     ELSE IF call # NoCall /\ call[1] = p THEN call[2]
     ELSE state[p]]

\* What the host can read: between calls, through readState.
HostView ==
  [c \in Component |-> IF phase = "idle" THEN ReadState(c) ELSE Undefined(Width[c])]

SN == INSTANCE SettledNet WITH pins <- DrivenPins, net <- HostView, status <- Status

(***************************************************************************)
(* A host sees nothing but settled nets: propagateEvent() implements the   *)
(* abstract box, keeps the pins it was given, and always comes back.       *)
(***************************************************************************)
ImplementsSettledNet == SN!Spec
=============================================================================
