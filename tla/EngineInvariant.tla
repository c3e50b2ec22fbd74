-------------------------- MODULE EngineInvariant --------------------------
(***************************************************************************)
(* The inductive invariant behind SettledConsistent.  SettledConsistent    *)
(* speaks of the moment a host call has returned; the invariant says, for  *)
(* every point inside propagate(), why no correction can be lost: which    *)
(* gate and which wire-like component is still owed an evaluation, an      *)
(* event or a place in the batch.                                          *)
(***************************************************************************)
EXTENDS Engine

InQueue(e) == \E d \in Delay : \E i \in 1..Len(queue[d]) : queue[d][i] = e

InBatch(e) == \E i \in 1..Len(batch) : batch[i] = e

Queued(c) == \E d \in Delay : \E i \in 1..Len(queue[d]) : queue[d][i].comp = c

Batched(c) == \E i \in 1..Len(batch) : batch[i].comp = c

Staged(c) == \E i \in 1..Len(staged) : staged[i].comp = c

PendingEvent(g) == [comp |-> g, val |-> pending[g].val, gen |-> pending[g].gen]

InStep == phase \in {"pop", "project", "validate"}

\* What is empty, and where idx points, in each phase.
Shape ==
  /\ phase \in {"idle", "next"} => staged = <<>>
  /\ phase \in {"idle", "next", "pop", "validate"} => idx = 0
  /\ phase # "pop" => batch = <<>>
  /\ phase # "notify" => outs = <<>>
  /\ phase = "idle" => QueueEmpty

\* A pending transition always has an event that will carry it out.
PendingQueued ==
  \A g \in Gate : pending[g].gen # 0 => InQueue(PendingEvent(g)) \/ InBatch(PendingEvent(g))

\* A gate is staged at most once, and not pending until the batch is committed.
StagedOnce ==
  \A i, j \in 1..Len(staged) : staged[i].gate /\ staged[j].comp = staged[i].comp => i = j

StagedNotPending ==
  InStep => \A i \in 1..Len(staged) : staged[i].gate => pending[staged[i].comp].gen = 0

-----------------------------------------------------------------------------
(* While a batch is being staged, projected and judged.  s0 is the pool    *)
(* before the timestamp.                                                   *)

IsProjected(i) == phase = "validate" \/ (phase = "project" /\ i <= idx)

\* Nothing is rejected before validation starts.
AcceptedAtFirst ==
  phase \in {"pop", "project"} => \A i \in 1..Len(staged) : staged[i].accepted

\* A component that changed has a candidate that says so.
ChangesAreStaged(s0) ==
  \A x \in Component : state[x] # s0[x] =>
    \E i \in 1..Len(staged) : IsProjected(i) /\ staged[i].comp = x /\ Changed(staged[i])

\* A projected gate shows its candidate, or what it held before the timestamp.
GatesShowVerdict(s0) ==
  \A i \in 1..Len(staged) : staged[i].gate /\ IsProjected(i) =>
    /\ staged[i].old = s0[staged[i].comp]
    /\ state[staged[i].comp] = IF staged[i].accepted THEN staged[i].val ELSE staged[i].old

\* A gate that is neither pending nor staged was consistent before.
IdleGatesWereConsistent(s0) ==
  \A g \in Gate : pending[g].gen = 0 => Staged(g) \/ s0[g] = Target(g, s0)

\* The first candidate of a component remembers what it held before the timestamp.
FirstRemembers(s0) ==
  \A i \in 1..Len(staged) :
    IsProjected(i) /\ (\A j \in 1..(i - 1) : staged[j].comp # staged[i].comp) =>
      staged[i].old = s0[staged[i].comp]

\* A transition that is still pending was what the drivers asked for.
PendingWasRight(s0) ==
  \A g \in Gate : pending[g].gen # 0 =>
    pending[g].val = Target(g, s0) /\ s0[g] # Target(g, s0)

Ram == {m \in Memory : Kind[m] = "ram"}

\* The edge detectors hold the clocks of the pool before the timestamp.
ClocksWereSeen(s0) == \A m \in Ram : prevClk[m] = ControlBit(m, "clk", s0)

\* The batch brings every wire-like component to what its drivers asked for.
WiresFollow(s0) ==
  \A c \in WireLike :
    /\ \A i \in 1..Len(batch) : batch[i].comp = c => batch[i].val = Target(c, s0)
    /\ \A i \in 1..Len(staged) : staged[i].comp = c =>
         /\ staged[i].val = Target(c, s0)
         /\ IsProjected(i) => state[c] = Target(c, s0)
    /\ s0[c] # Target(c, s0) => Batched(c) \/ Staged(c)
    /\ ~Queued(c)

StepFrom(s0) ==
  /\ ChangesAreStaged(s0)
  /\ GatesShowVerdict(s0)
  /\ FirstRemembers(s0)
  /\ IdleGatesWereConsistent(s0)
  /\ PendingWasRight(s0)
  /\ WiresFollow(s0)
  /\ ClocksWereSeen(s0)

\* The verdict on a gate that is not queued for judgement is the right one.
VerdictsStand ==
  phase = "validate" =>
    \A i \in 1..Len(staged) :
      staged[i].gate /\ i \notin wave => (staged[i].accepted <=> Supported(i))

-----------------------------------------------------------------------------
(* While the changes are notified, and between timestamps.                 *)

\* c will still be evaluated in this step because something it reads changed.
ToNotify(c) ==
  \/ \E k \in 1..Len(outs) : outs[k] = c
  \/ phase = "notify" /\ \E i \in 1..Len(staged) :
       i > idx /\ Changed(staged[i]) /\ Listens(c, staged[i].comp)

\* c was rejected and will still be evaluated in this step.
ToRequeue(c) ==
  \E i \in 1..Len(staged) :
    /\ staged[i].comp = c /\ ~staged[i].accepted
    /\ phase = "notify" \/ (phase = "requeue" /\ i > idx)

WireEventsDue ==
  \A d \in Delay : \A i \in 1..Len(queue[d]) :
    queue[d][i].comp \in WireLike =>
      d = WireDelay /\ queue[d][i].val = Target(queue[d][i].comp, state)

WiresOwed == \A c \in WireLike : Consistent(c) \/ ToNotify(c) \/ Queued(c)

GatesOwed ==
  \A g \in Gate : pending[g].gen = 0 => Consistent(g) \/ ToNotify(g) \/ ToRequeue(g)

\* A pending transition that is out of date will be replaced or dropped.
PendingOwed ==
  \A g \in Gate : pending[g].gen # 0 =>
    (pending[g].val = Target(g, state) /\ ~Consistent(g)) \/ ToNotify(g)

\* An edge detector that is out of date will see the clock.
ClocksOwed == \A m \in Ram : prevClk[m] = ControlBit(m, "clk", state) \/ ToNotify(m)

Owed == WireEventsDue /\ WiresOwed /\ GatesOwed /\ PendingOwed /\ ClocksOwed

-----------------------------------------------------------------------------
\* S is where the pool before the timestamp is looked for.
SettleInvWith(S) ==
  ~failed =>
    /\ Shape /\ PendingQueued /\ StagedOnce /\ StagedNotPending
    /\ AcceptedAtFirst /\ VerdictsStand
    /\ InStep => \E s0 \in S : StepFrom(s0)
    /\ ~InStep => Owed

SettleInv == SettleInvWith(Pool)

\* The pool before the timestamp: what the first candidate of a component overwrote.
Before ==
  LET first(c) == {i \in 1..Len(staged) : /\ IsProjected(i) /\ staged[i].comp = c
                                         /\ \A j \in 1..(i - 1) : staged[j].comp # c}
  IN  [c \in Component |->
         IF first(c) = {} THEN state[c] ELSE staged[CHOOSE i \in first(c) : TRUE].old]

(***************************************************************************)
(* SettleInv with its witness named: while a timestamp is processed, every *)
(* gate and wire-like component that will disagree with its drivers after  *)
(* the commit has a place in the batch, and afterwards it is owed an       *)
(* evaluation or an event.                                                 *)
(***************************************************************************)
NothingIsLost == SettleInvWith({Before})

-----------------------------------------------------------------------------
(***************************************************************************)
(* The value a call drives onto a pin is on its way: it is the only thing  *)
(* scheduled for any host pin, until the pin holds it.                     *)
(***************************************************************************)
PinEvent(e) == e.comp \in HostPin => call # NoCall /\ e.comp = call[1] /\ e.val = call[2]

OnlyTheCallDrivesPins ==
  /\ \A d \in Delay : \A i \in 1..Len(queue[d]) : PinEvent(queue[d][i])
  /\ \A i \in 1..Len(batch) : PinEvent(batch[i])
  /\ \A i \in 1..Len(staged) : PinEvent(staged[i])

Unprojected(c) ==
  phase \in {"pop", "project"} /\ \E i \in 1..Len(staged) : i > idx /\ staged[i].comp = c

CallArrives ==
  call # NoCall /\ call[1] \in HostPin =>
    state[call[1]] = call[2] \/ Queued(call[1]) \/ Batched(call[1]) \/ Unprojected(call[1])

PinInv ==
  /\ failed => phase = "idle"
  /\ phase = "idle" => call = NoCall
  /\ ~failed => OnlyTheCallDrivesPins /\ CallArrives

-----------------------------------------------------------------------------
(***************************************************************************)
(* Generations: an evaluation that takes one is paid from the settle work, *)
(* and the queue is empty between two calls, so as long as a call cannot   *)
(* use them all, no two events that are still to come share one.           *)
(***************************************************************************)

\* How many generations were handed out since n was, n included.
Age(n) == IF n < nextGen THEN nextGen - n ELSE nextGen - n + (GenLimit - 1)

PaidFor(e) == e.gen # 0 => Age(e.gen) <= MaxSettleWork - remaining

GenerationsPaid ==
  /\ \A d \in Delay : \A i \in 1..Len(queue[d]) : PaidFor(queue[d][i])
  /\ \A i \in 1..Len(batch) : PaidFor(batch[i])

Same(e, f) == e.gen # 0 /\ e.gen = f.gen

GenerationsDiffer ==
  /\ \A d, e \in Delay : \A i \in 1..Len(queue[d]) : \A j \in 1..Len(queue[e]) :
       Same(queue[d][i], queue[e][j]) => d = e /\ i = j
  /\ \A i, j \in 1..Len(batch) : Same(batch[i], batch[j]) => i = j
  /\ \A d \in Delay : \A i \in 1..Len(queue[d]) : \A j \in 1..Len(batch) :
       ~Same(queue[d][i], batch[j])

GenInv ==
  IF phase = "idle" THEN QueueEmpty ELSE GenerationsPaid /\ GenerationsDiffer

\* MAX_SETTLE_WORK is a million and a generation has 31 bits: one call cannot use them up.
GenerationsSuffice == MaxSettleWork < GenLimit
=============================================================================
