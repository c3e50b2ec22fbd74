---------------------------- MODULE SettleProofs ----------------------------
(***************************************************************************)
(* What propagate() owes, for every circuit, every budget and every        *)
(* sequence of host calls: SettleInv of EngineInvariant holds initially,   *)
(* every action preserves it, and it implies NothingIsLost,                *)
(* SettledConsistent and QueueTracksTargets.  At the end, the engine       *)
(* implements SettledNet step by step: a host sees nothing but settled     *)
(* nets, and the pins it has driven.  Proved is the safety part of         *)
(* ImplementsSettledNet, SN!Init and the steps of SN!Next; that every call *)
(* comes back is left to TLC.                                              *)
(***************************************************************************)
EXTENDS EngineInvariant, EngineProofs, WellFoundedInduction

-----------------------------------------------------------------------------
(* The shape of the lists *)

\* The staged events are a sequence with idx inside it; gates are what is inertial.
LEMMA StagedFacts ==
  ASSUME TypeOK
  PROVE  /\ staged \in Seq(StagedEvent) /\ Len(staged) \in Nat
         /\ DOMAIN staged = 1..Len(staged)
         /\ idx \in Nat /\ idx <= Len(staged)
         /\ \A i \in 1..Len(staged) :
              /\ staged[i].comp \in Component
              /\ staged[i].gate <=> staged[i].comp \in Gate
<1>1. staged \in Seq(StagedEvent) /\ Len(staged) \in Nat /\ DOMAIN staged = 1..Len(staged)
  BY DEF TypeOK, CandidatesOK
<1>2. idx \in Nat /\ idx <= Len(staged)
  BY <1>1 DEF TypeOK
<1>3. ASSUME NEW i \in 1..Len(staged)
      PROVE  staged[i].comp \in Component /\ (staged[i].gate <=> staged[i].comp \in Gate)
  <2>1. staged[i] \in StagedEvent
    BY <1>1
  <2> QED
    BY <1>1, <2>1 DEF TypeOK, CandidatesOK, StagedEvent
<1> QED
  BY <1>1, <1>2, <1>3

\* The first event of the batch, and the others.
LEMMA BatchFacts ==
  ASSUME TypeOK, batch # <<>>
  PROVE  /\ Len(batch) \in Nat /\ 1 \in 1..Len(batch) /\ batch[1] = Head(batch)
         /\ \A i \in 1..Len(batch) : i # 1 =>
              i - 1 \in 1..Len(Tail(batch)) /\ Tail(batch)[i - 1] = batch[i]
         /\ \A i \in 1..Len(Tail(batch)) :
              i + 1 \in 1..Len(batch) /\ Tail(batch)[i] = batch[i + 1]
BY DEF TypeOK, EventsOK

\* An empty sequence has no position.
LEMMA NoneIn == \A i : i \notin 1..Len(<<>>)
BY EmptySeq

\* An event added to the queue leaves every other event where it is.
LEMMA Added ==
  ASSUME NEW q \in [Delay -> Seq(Event)], NEW due \in Delay, NEW e \in Event,
         NEW r, r = [q EXCEPT ![due] = Append(@, e)]
  PROVE  /\ \A d \in Delay : \A i \in 1..Len(q[d]) : i \in 1..Len(r[d]) /\ r[d][i] = q[d][i]
         /\ \A d \in Delay : \A i \in 1..Len(r[d]) :
              \/ i \in 1..Len(q[d]) /\ r[d][i] = q[d][i]
              \/ d = due /\ r[d][i] = e
         /\ \E i \in 1..Len(r[due]) : r[due][i] = e
<1>1. /\ r[due] = Append(q[due], e)
      /\ \A d \in Delay : d # due => r[d] = q[d]
  OBVIOUS
<1>2. q[due] \in Seq(Event) /\ Len(q[due]) \in Nat /\ Len(r[due]) = Len(q[due]) + 1
  BY <1>1
<1>3. /\ \A i \in 1..Len(q[due]) : r[due][i] = q[due][i]
      /\ r[due][Len(q[due]) + 1] = e
  BY <1>1, <1>2
<1> QED
  BY <1>1, <1>2, <1>3

-----------------------------------------------------------------------------
(* What an evaluation does to the queue and to the pending transitions *)

QueueKept ==
  \A d \in Delay : \A i \in 1..Len(queue[d]) :
    i \in 1..Len(queue'[d]) /\ queue'[d][i] = queue[d][i]

\* Only c is scheduled, and a wire-like c for its target one unit from now.
OnlyFor(c) ==
  \A d \in Delay : \A i \in 1..Len(queue'[d]) :
    \/ i \in 1..Len(queue[d]) /\ queue'[d][i] = queue[d][i]
    \/ /\ queue'[d][i].comp = c
       /\ c \in WireLike => d = WireDelay /\ queue'[d][i].val = Target(c, state)

\* A step that leaves the queue alone schedules nothing.
LEMMA QueueUnchanged ==
  ASSUME queue' = queue
  PROVE  QueueKept /\ \A c : OnlyFor(c)
BY DEF QueueKept, OnlyFor

\* A transport event is for the component it is scheduled for, and a wire-like one is queued.
LEMMA Transported ==
  ASSUME TypeOK, NEW c \in Component, c \notin Gate, NEW v \in State(Width[c]),
         c \in WireLike => v = Target(c, state), ScheduleTransport(c, v)
  PROVE  /\ QueueKept /\ OnlyFor(c)
         /\ pending' = pending
         /\ c \in WireLike => Consistent(c) \/ Queued(c)'
<1>1. CASE state[c] = v
  BY <1>1, QueueUnchanged DEF ScheduleTransport, Consistent
<1>2. CASE state[c] # v
  <2> DEFINE e == [comp |-> c, val |-> v, gen |-> 0]
  <2>1. e \in Event /\ e.comp = c /\ e.val = v
    BY AnyStateType DEF Event
  <2>2. queue' = [queue EXCEPT ![DelayOf(c)] = Append(@, e)] /\ pending' = pending
    BY <1>2 DEF ScheduleTransport
  <2>3. queue \in [Delay -> Seq(Event)] /\ DelayOf(c) \in Delay
    BY DelayFacts DEF TypeOK
  <2>4. c \in WireLike => DelayOf(c) = WireDelay
    BY DEF DelayOf
  <2> HIDE DEF e
  <2>5. /\ QueueKept
        /\ \A d \in Delay : \A i \in 1..Len(queue'[d]) :
              \/ i \in 1..Len(queue[d]) /\ queue'[d][i] = queue[d][i]
              \/ d = DelayOf(c) /\ queue'[d][i] = e
        /\ \E i \in 1..Len(queue'[DelayOf(c)]) : queue'[DelayOf(c)][i] = e
    BY <2>1, <2>2, <2>3, Added DEF QueueKept
  <2>6. OnlyFor(c)
    BY <2>1, <2>4, <2>5 DEF OnlyFor
  <2>7. Queued(c)'
    BY <2>1, <2>3, <2>5 DEF Queued
  <2> QED
    BY <2>2, <2>5, <2>6, <2>7
<1> QED
  BY <1>1, <1>2

\* After inertial scheduling the pending event of the gate is its target, or there is none.
LEMMA Inertial ==
  ASSUME TypeOK, NEW c \in Gate, ScheduleInertial(c, Target(c, state))
  PROVE  /\ QueueKept /\ OnlyFor(c)
         /\ \A g \in Gate : g # c => pending'[g] = pending[g]
         /\ pending'[c].gen = 0 => Consistent(c)
         /\ pending'[c].gen # 0 =>
              /\ pending'[c] = pending[c] \/ InQueue(PendingEvent(c))'
              /\ pending'[c].val = Target(c, state) /\ ~Consistent(c)
<1> DEFINE v == Target(c, state)
<1>1. c \in Component /\ c \notin WireLike /\ v \in State(Width[c])
  BY KindsApart, TargetType DEF TypeOK, Gate
<1>2. pending \in [Component -> [gen : 0..(GenLimit - 1), val : AnyState]] /\ Gate \subseteq Component
  BY DEF TypeOK, Gate
<1> HIDE DEF v
<1>3. CASE state[c] = v
  <2>1. pending' = [pending EXCEPT ![c] = Dropped(@)] /\ queue' = queue
    BY <1>3 DEF ScheduleInertial, v
  <2>2. pending'[c].gen = 0
    BY <2>1, <1>1, <1>2 DEF Dropped
  <2> QED
    BY <1>2, <1>3, <2>1, <2>2, QueueUnchanged DEF Consistent, v
<1>4. CASE state[c] # v /\ pending[c].gen # 0 /\ pending[c].val = v
  <2>1. pending' = pending /\ queue' = queue
    BY <1>4 DEF ScheduleInertial, v
  <2> QED
    BY <1>4, <2>1, QueueUnchanged DEF Consistent, v
<1>5. CASE state[c] # v /\ ~(pending[c].gen # 0 /\ pending[c].val = v)
  <2> DEFINE e == [comp |-> c, val |-> v, gen |-> nextGen]
  <2>1. /\ pending' = [pending EXCEPT ![c] = [gen |-> nextGen, val |-> v]]
        /\ queue' = [queue EXCEPT ![GateDelay] = Append(@, e)]
    BY <1>5 DEF ScheduleInertial, v
  <2>2. e \in Event /\ e.comp = c /\ nextGen # 0
    BY <1>1, AnyStateType, EngineAssumption DEF Event, TypeOK, EngineAssumption
  <2>3. /\ pending'[c].gen = nextGen /\ pending'[c].val = v
        /\ \A g \in Gate : g # c => pending'[g] = pending[g]
        /\ PendingEvent(c)' = e
    BY <1>1, <1>2, <2>1 DEF PendingEvent
  <2>4. queue \in [Delay -> Seq(Event)] /\ GateDelay \in Delay
    BY DelayFacts DEF TypeOK
  <2> HIDE DEF e
  <2>5. /\ QueueKept
        /\ \A d \in Delay : \A i \in 1..Len(queue'[d]) :
              \/ i \in 1..Len(queue[d]) /\ queue'[d][i] = queue[d][i]
              \/ d = GateDelay /\ queue'[d][i] = e
        /\ \E i \in 1..Len(queue'[GateDelay]) : queue'[GateDelay][i] = e
    BY <2>1, <2>2, <2>4, Added DEF QueueKept
  <2>6. OnlyFor(c)
    BY <1>1, <2>2, <2>5 DEF OnlyFor
  <2>7. InQueue(PendingEvent(c))'
    BY <2>3, <2>4, <2>5 DEF InQueue
  <2> QED
    BY <1>5, <2>2, <2>3, <2>5, <2>6, <2>7 DEF Consistent, v
<1> QED
  BY <1>3, <1>4, <1>5

\* After an evaluation the component is consistent or its target is on its way.
LEMMA Evaluated ==
  ASSUME TypeOK, NEW c \in Component, Recalculate(c)
  PROVE  /\ QueueKept /\ OnlyFor(c)
         /\ \A g \in Gate : g # c => pending'[g] = pending[g]
         /\ c \in Gate =>
              /\ pending'[c].gen = 0 => Consistent(c)
              /\ pending'[c].gen # 0 =>
                   /\ pending'[c] = pending[c] \/ InQueue(PendingEvent(c))'
                   /\ pending'[c].val = Target(c, state) /\ ~Consistent(c)
         /\ c \in WireLike => Consistent(c) \/ Queued(c)'
<1>1. CASE c \in Memory
  <2>1. c \notin Gate /\ c \notin WireLike
    BY <1>1, KindsApart
  <2>2. SchedOK'
    BY EvaluateType
  <2>3. MemoryReadOut(c, state, cells') \in State(Width[c])
    BY <1>1, <2>2, MemoryReadOutType DEF SchedOK, TypeOK
  <2>4. ScheduleTransport(c, MemoryReadOut(c, state, cells'))
    BY <1>1 DEF Recalculate, RecalculateMemory
  <2> QED
    BY <2>1, <2>3, <2>4, Transported
<1>2. CASE c \in Gate
  <2>1. ScheduleInertial(c, Target(c, state)) /\ c \notin WireLike
    BY <1>2, KindsApart DEF Recalculate
  <2> QED
    BY <1>2, <2>1, Inertial
<1>3. CASE c \notin Memory /\ c \notin Gate /\ Undriven(c)
  <2>1. pending' = pending /\ queue' = queue
    BY <1>3 DEF Recalculate
  <2>2. c \notin WireLike
    BY <1>3 DEF Undriven, WireLike
  <2> QED
    BY <1>3, <2>1, <2>2, QueueUnchanged
<1>4. CASE c \notin Memory /\ c \notin Gate /\ ~Undriven(c)
  <2>1. ScheduleTransport(c, Target(c, state)) /\ Target(c, state) \in State(Width[c])
    BY <1>4, TargetType DEF Recalculate, TypeOK
  <2> QED
    BY <1>4, <2>1, Transported
<1> QED
  BY <1>1, <1>2, <1>3, <1>4

\* An evaluation shows the clock to the edge detector of c and to no other.
LEMMA ClockSeen ==
  ASSUME TypeOK, NEW c \in Component, Recalculate(c)
  PROVE  \A m \in Ram : prevClk'[m] = IF m = c THEN ControlBit(m, "clk", state) ELSE prevClk[m]
<1>1. Ram \subseteq Memory /\ prevClk \in [Memory -> Trit]
  BY DEF TypeOK, Ram
<1>2. CASE c \in Memory
  <2>1. prevClk' = IF Kind[c] = "ram" THEN [prevClk EXCEPT ![c] = ControlBit(c, "clk", state)]
                   ELSE prevClk
    BY <1>2 DEF Recalculate, RecalculateMemory
  <2> QED
    BY <1>1, <2>1 DEF Ram
<1>3. CASE c \notin Memory
  <2>1. prevClk' = prevClk
    BY <1>3 DEF Recalculate
  <2> QED
    BY <1>1, <1>3, <2>1
<1> QED
  BY <1>2, <1>3

\* What an evaluation leaves of the invariant, and what it gives c.
LEMMA EvaluationKeeps ==
  ASSUME TypeOK, NEW c \in Component, Recalculate(c), PendingQueued, WireEventsDue,
         batch' = batch, state' = state
  PROVE  /\ PendingQueued' /\ WireEventsDue'
         /\ \A x : Queued(x) => Queued(x)'
         /\ \A g \in Gate : pending'[g].gen = 0 => pending[g].gen = 0 \/ g = c
         /\ \A g \in Gate : g # c => pending'[g] = pending[g]
         /\ c \in Gate /\ pending'[c].gen = 0 => Consistent(c)
         /\ c \in Gate /\ pending'[c].gen # 0 =>
              pending'[c].val = Target(c, state) /\ ~Consistent(c)
         /\ c \in WireLike => Consistent(c) \/ Queued(c)'
<1>1. /\ QueueKept /\ OnlyFor(c)
      /\ \A g \in Gate : g # c => pending'[g] = pending[g]
      /\ c \in Gate =>
           /\ pending'[c].gen = 0 => Consistent(c)
           /\ pending'[c].gen # 0 =>
                /\ pending'[c] = pending[c] \/ InQueue(PendingEvent(c))'
                /\ pending'[c].val = Target(c, state) /\ ~Consistent(c)
      /\ c \in WireLike => Consistent(c) \/ Queued(c)'
  BY Evaluated
<1>2. ASSUME NEW x, Queued(x)
      PROVE  Queued(x)'
  <2>1. PICK d \in Delay : \E i \in 1..Len(queue[d]) : queue[d][i].comp = x
    BY <1>2 DEF Queued
  <2> QED
    BY <1>1, <2>1 DEF Queued, QueueKept
<1>3. ASSUME NEW e, InQueue(e)
      PROVE  \E d \in Delay : \E i \in 1..Len(queue'[d]) : queue'[d][i] = e
  <2>1. PICK d \in Delay : \E i \in 1..Len(queue[d]) : queue[d][i] = e
    BY <1>3 DEF InQueue
  <2> QED
    BY <1>1, <2>1 DEF QueueKept
<1>4. ASSUME NEW g \in Gate, pending'[g].gen # 0
      PROVE  InQueue(PendingEvent(g))' \/ InBatch(PendingEvent(g))'
  <2>1. CASE pending'[g] = pending[g]
    <3>1. PendingEvent(g)' = PendingEvent(g)
      BY <2>1 DEF PendingEvent
    <3>2. InQueue(PendingEvent(g)) \/ InBatch(PendingEvent(g))
      BY <1>4, <2>1 DEF PendingQueued
    <3> QED
      BY <1>3, <3>1, <3>2 DEF InQueue, InBatch
  <2>2. CASE pending'[g] # pending[g]
    BY <1>1, <1>4, <2>2
  <2> QED
    BY <2>1, <2>2
<1>5. WireEventsDue'
  <2> SUFFICES ASSUME NEW d \in Delay, NEW i \in 1..Len(queue'[d]), queue'[d][i].comp \in WireLike
               PROVE  d = WireDelay /\ queue'[d][i].val = Target(queue'[d][i].comp, state)
    BY DEF WireEventsDue
  <2> QED
    BY <1>1 DEF OnlyFor, WireEventsDue
<1> QED
  BY <1>1, <1>2, <1>4, <1>5 DEF PendingQueued

-----------------------------------------------------------------------------
(* Host calls *)

\* A host call schedules a pin or a memory, which nothing is owed.
LEMMA HostEventKeeps ==
  ASSUME TypeOK, SettleInv, Callable, NEW c \in Component, c \notin Gate, c \notin WireLike,
         NEW v \in State(Width[c]), PropagateEvent(c, v),
         UNCHANGED <<state, prevClk, pending, step, failed>>
  PROVE  SettleInv'
<1>1. /\ Shape /\ PendingQueued /\ StagedOnce /\ StagedNotPending /\ Owed
      /\ phase = "idle" /\ ~failed
  BY DEF SettleInv, SettleInvWith, Callable, InStep
<1>2. /\ state' = state /\ prevClk' = prevClk /\ pending' = pending
      /\ batch' = batch /\ staged' = staged /\ wave' = wave /\ idx' = idx /\ outs' = outs /\ failed' = failed
  BY DEF step
<1>3. CASE state[c] = v
  <2>1. queue' = queue /\ phase' = phase
    BY <1>3 DEF PropagateEvent
  <2>2. Shape' /\ PendingQueued' /\ StagedOnce' /\ StagedNotPending' /\ ~InStep'
    BY <1>1, <1>2, <2>1 DEF Shape, QueueEmpty, PendingQueued, InQueue, InBatch, PendingEvent,
       StagedOnce, StagedNotPending, InStep
  <2>3. AcceptedAtFirst' /\ VerdictsStand'
    BY <1>1, <1>2, <2>1 DEF AcceptedAtFirst, VerdictsStand
  <2>4. WireEventsDue' /\ WiresOwed' /\ GatesOwed' /\ PendingOwed' /\ ClocksOwed'
    BY <1>1, <1>2, <2>1 DEF Owed, WireEventsDue, WiresOwed, GatesOwed, PendingOwed, ClocksOwed,
       ToNotify, ToRequeue, Queued, Consistent
  <2> QED
    BY <2>2, <2>3, <2>4 DEF SettleInv, SettleInvWith, Owed
<1>4. CASE state[c] # v
  <2> DEFINE e == [comp |-> c, val |-> v, gen |-> 0]
  <2>1. e \in Event /\ e.comp = c
    BY AnyStateType DEF Event
  <2>2. queue' = [queue EXCEPT ![GateDelay] = Append(@, e)] /\ phase' = "next"
    BY <1>4 DEF PropagateEvent
  <2>3. queue \in [Delay -> Seq(Event)] /\ GateDelay \in Delay
    BY DelayFacts DEF TypeOK
  <2> HIDE DEF e
  <2>4. /\ QueueKept
        /\ \A d \in Delay : \A i \in 1..Len(queue'[d]) :
             (i \in 1..Len(queue[d]) /\ queue'[d][i] = queue[d][i]) \/ queue'[d][i] = e
    BY <2>1, <2>2, <2>3, Added DEF QueueKept
  <2>5. Shape'
    BY <1>1, <1>2, <2>2 DEF Shape
  <2>6. PendingQueued'
    <3> SUFFICES ASSUME NEW g \in Gate, pending[g].gen # 0
                 PROVE  InQueue(PendingEvent(g))' \/ InBatch(PendingEvent(g))'
      BY <1>2 DEF PendingQueued
    <3>1. PendingEvent(g)' = PendingEvent(g)
      BY <1>2 DEF PendingEvent
    <3>2. InQueue(PendingEvent(g)) \/ InBatch(PendingEvent(g))
      BY <1>1 DEF PendingQueued
    <3> QED
      BY <1>2, <2>4, <3>1, <3>2 DEF InQueue, InBatch, QueueKept
  <2>7. StagedOnce' /\ StagedNotPending' /\ AcceptedAtFirst' /\ VerdictsStand' /\ ~InStep'
    BY <1>1, <1>2, <2>2 DEF StagedOnce, StagedNotPending, AcceptedAtFirst, VerdictsStand, InStep
  <2>8. WireEventsDue'
    BY <1>1, <1>2, <2>1, <2>4 DEF Owed, WireEventsDue
  <2>9. WiresOwed' /\ GatesOwed' /\ PendingOwed' /\ ClocksOwed'
    <3>1. \A x : Queued(x) => Queued(x)'
      BY <2>4 DEF Queued, QueueKept
    <3>2. \A x : ToNotify(x) => ToNotify(x)'
      BY <1>1, <1>2 DEF ToNotify
    <3>3. \A x : ~ToRequeue(x)
      BY <1>1 DEF ToRequeue
    <3> QED
      BY <1>1, <1>2, <3>1, <3>2, <3>3
         DEF Owed, WiresOwed, GatesOwed, PendingOwed, ClocksOwed, Consistent
  <2> QED
    BY <2>5, <2>6, <2>7, <2>8, <2>9 DEF SettleInv, SettleInvWith, Owed
<1> QED
  BY <1>3, <1>4

\* A host call.
LEMMA HostCallKeeps ==
  ASSUME TypeOK, SettleInv, HostCall
  PROVE  SettleInv'
<1>1. PICK c \in HostPin \cup Memory : \E v \in State(Width[c]) : HostEvent(c, v)
  BY HostCallCases
<1>2. PICK v \in State(Width[c]) : HostEvent(c, v)
  BY <1>1
<1> QED
  BY <1>2, HostSchedules, HostEventKeeps DEF HostEvent

-----------------------------------------------------------------------------
(* Phase 1 of the loop *)

\* Time moves to the earliest event.
LEMMA AdvanceKeeps ==
  ASSUME TypeOK, SettleInv, ~failed, Advance
  PROVE  SettleInv'
<1> DEFINE E == EarliestDue
<1>1. /\ Shape /\ PendingQueued /\ Owed
      /\ phase = "next" /\ staged = <<>> /\ outs = <<>> /\ batch = <<>> /\ idx = 0
  BY DEF SettleInv, SettleInvWith, Advance, InStep, Shape
<1>2. /\ state' = state /\ prevClk' = prevClk /\ pending' = pending
      /\ staged' = staged /\ idx' = idx /\ outs' = outs /\ failed' = failed /\ phase' = "pop"
      /\ batch' = queue[E] /\ queue' = Shifted(queue, E)
  BY DEF Advance
<1>3. E \in Delay /\ \A d \in Delay : queue[d] # <<>> => E <= d
  BY EarliestDueFacts DEF Advance
<1>4. \A d \in Delay : queue[d] \in Seq(Event) /\ (d < E => queue[d] = <<>>)
  BY <1>3 DEF TypeOK, Delay, GateDelay
<1> HIDE DEF E
\* What stays in the queue was due later; what was due later stays.
<1>5. ASSUME NEW d \in Delay, NEW i \in 1..Len(queue'[d])
      PROVE  d + E \in Delay /\ i \in 1..Len(queue[d + E]) /\ queue'[d][i] = queue[d + E][i]
  BY <1>2, <1>5, NoneIn DEF Shifted
<1>6. ASSUME NEW d \in Delay, d # E, NEW i \in 1..Len(queue[d])
      PROVE  \E k \in Delay : queue'[k] = queue[d]
  <2>1. E < d
    BY <1>3, <1>6, NoneIn DEF Delay, GateDelay
  <2>2. d - E \in Delay /\ (d - E) + E = d
    BY <1>3, <2>1 DEF Delay, GateDelay
  <2>3. queue'[d - E] = queue[d]
    BY <1>2, <2>2 DEF Shifted
  <2> QED
    BY <2>2, <2>3
<1>7. Shape'
  BY <1>1, <1>2 DEF Shape
<1>8. PendingQueued'
  <2> SUFFICES ASSUME NEW g \in Gate, pending[g].gen # 0
               PROVE  InQueue(PendingEvent(g))' \/ InBatch(PendingEvent(g))'
    BY <1>2 DEF PendingQueued
  <2>1. PendingEvent(g)' = PendingEvent(g)
    BY <1>2 DEF PendingEvent
  <2>2. InQueue(PendingEvent(g))
    BY <1>1, NoneIn DEF PendingQueued, InBatch
  <2>3. PICK d \in Delay : \E i \in 1..Len(queue[d]) : queue[d][i] = PendingEvent(g)
    BY <2>2 DEF InQueue
  <2>4. CASE d = E
    BY <1>2, <2>1, <2>3, <2>4 DEF InBatch
  <2>5. CASE d # E
    BY <1>6, <2>1, <2>3, <2>5 DEF InQueue
  <2> QED
    BY <2>4, <2>5
<1>9. StagedOnce' /\ StagedNotPending' /\ AcceptedAtFirst' /\ VerdictsStand'
  BY <1>1, <1>2, NoneIn DEF StagedOnce, StagedNotPending, AcceptedAtFirst, VerdictsStand
<1>10. \A c : ~ToNotify(c) /\ ~ToRequeue(c)
  BY <1>1, NoneIn DEF ToNotify, ToRequeue
<1>11. WiresFollow(state)'
  <2> SUFFICES ASSUME NEW c \in WireLike
               PROVE  /\ \A i \in 1..Len(batch') : batch'[i].comp = c =>
                            batch'[i].val = Target(c, state)
                      /\ state[c] # Target(c, state) => Batched(c)'
                      /\ ~Queued(c)'
    BY <1>1, <1>2, NoneIn DEF WiresFollow
  <2>1. \A i \in 1..Len(batch') : batch'[i].comp = c => batch'[i].val = Target(c, state)
    BY <1>1, <1>2, <1>3 DEF Owed, WireEventsDue
  <2>2. ASSUME state[c] # Target(c, state)
        PROVE  Batched(c)'
    <3>1. Queued(c)
      BY <1>1, <1>10, <2>2 DEF Owed, WiresOwed, Consistent
    <3>2. PICK d \in Delay : \E i \in 1..Len(queue[d]) : queue[d][i].comp = c
      BY <3>1 DEF Queued
    <3>3. d = WireDelay /\ queue[d] # <<>>
      BY <1>1, <3>2, NoneIn DEF Owed, WireEventsDue
    <3>4. d = E
      BY <1>3, <3>3 DEF WireDelay, Delay, GateDelay
    <3> QED
      BY <1>2, <3>2, <3>4 DEF Batched
  <2>3. ASSUME Queued(c)'
        PROVE  FALSE
    <3>1. PICK d \in Delay : \E i \in 1..Len(queue'[d]) : queue'[d][i].comp = c
      BY <2>3 DEF Queued
    <3>2. d + E = WireDelay
      BY <1>1, <1>5, <3>1 DEF Owed, WireEventsDue
    <3> QED
      BY <1>3, <3>2 DEF WireDelay, Delay, GateDelay
  <2> QED
    BY <2>1, <2>2, <2>3
<1>12. IdleGatesWereConsistent(state)'
  BY <1>1, <1>2, <1>10 DEF Owed, GatesOwed, Consistent, IdleGatesWereConsistent
<1>13. ChangesAreStaged(state)' /\ GatesShowVerdict(state)' /\ FirstRemembers(state)'
  BY <1>1, <1>2, NoneIn DEF ChangesAreStaged, GatesShowVerdict, FirstRemembers
<1>14. PendingWasRight(state)' /\ ClocksWereSeen(state)'
  BY <1>1, <1>2, <1>10
     DEF Owed, PendingOwed, ClocksOwed, Consistent, PendingWasRight, ClocksWereSeen
<1>15. \E s0 \in Pool : StepFrom(s0)'
  <2>1. StepFrom(state)'
    BY <1>11, <1>12, <1>13, <1>14 DEF StepFrom
  <2> QED
    BY <1>2, <2>1 DEF TypeOK, StepFrom, ChangesAreStaged, GatesShowVerdict, FirstRemembers,
       IdleGatesWereConsistent, PendingWasRight, WiresFollow, ClocksWereSeen
<1> QED
  BY <1>2, <1>7, <1>8, <1>9, <1>15 DEF SettleInv, SettleInvWith, InStep

\* A live event is staged.
LEMMA PopLiveKeeps ==
  ASSUME TypeOK, SettleInv, ~failed, PopLive
  PROVE  SettleInv'
<1> DEFINE e == Head(batch)
           s == Candidate(e)
           n == Len(staged) + 1
<1>1. /\ Shape /\ PendingQueued /\ StagedOnce /\ StagedNotPending /\ AcceptedAtFirst
      /\ phase = "pop" /\ batch # <<>> /\ InStep
  BY DEF SettleInv, SettleInvWith, PopLive, InStep
<1>2. PICK s0 \in Pool : StepFrom(s0)
  BY <1>1 DEF SettleInv, SettleInvWith
<1>3. /\ e \in Event /\ e.comp \in Component /\ e.gen \in Nat /\ (e.gen # 0 <=> e.comp \in Gate)
      /\ 1 \in 1..Len(batch) /\ batch[1] = e
      /\ \A i \in 1..Len(batch) : i # 1 =>
           i - 1 \in 1..Len(Tail(batch)) /\ Tail(batch)[i - 1] = batch[i]
      /\ \A i \in 1..Len(Tail(batch)) : i + 1 \in 1..Len(batch) /\ Tail(batch)[i] = batch[i + 1]
  BY <1>1, TailEvents, BatchFacts DEF TypeOK
<1>4. /\ s.comp = e.comp /\ s.val = e.val /\ s.accepted /\ (s.gate <=> e.gen # 0)
  BY DEF Candidate
<1>5. /\ state' = state /\ queue' = queue /\ phase' = phase /\ idx' = idx /\ outs' = outs
      /\ failed' = failed /\ batch' = Tail(batch) /\ staged' = Append(staged, s)
      /\ prevClk' = prevClk
  BY DEF PopLive
<1>6. /\ e.gen # 0 => pending[e.comp].gen # 0
      /\ \A g \in Gate :
           \/ pending'[g] = pending[g] /\ (g # e.comp \/ e.gen = 0)
           \/ g = e.comp /\ pending'[g].gen = 0
  <2>1. CASE e.gen = 0
    BY <2>1 DEF PopLive
  <2>2. CASE e.gen # 0
    <3>1. pending' = [pending EXCEPT ![e.comp] = Dropped(@)] /\ Live(e)
      BY <2>2 DEF PopLive
    <3>2. pending'[e.comp].gen = 0 /\ \A g \in Gate : g # e.comp => pending'[g] = pending[g]
      BY <1>3, <3>1 DEF Dropped, TypeOK, Gate
    <3>3. pending[e.comp].gen # 0
      BY <2>2, <3>1 DEF Live
    <3> QED
      BY <3>2, <3>3
  <2> QED
    BY <2>1, <2>2
<1>7. /\ staged \in Seq(StagedEvent) /\ Len(staged) \in Nat
      /\ \A i \in 1..Len(staged) : staged[i].gate <=> staged[i].comp \in Gate
  BY StagedFacts
<1> HIDE DEF e, s
<1>8. /\ Len(staged') = n /\ staged'[n] = s
      /\ \A i \in 1..Len(staged) : staged'[i] = staged[i]
      /\ \A i \in 1..Len(staged') : i \in 1..Len(staged) \/ i = n
      /\ n \in 1..Len(staged') /\ n \notin 1..Len(staged)
      /\ \A i \in 1..Len(staged) : i \in 1..Len(staged')
  BY <1>5, <1>7
<1> HIDE DEF n
<1>9. Shape'
  BY <1>1, <1>5 DEF Shape
<1>10. PendingQueued'
  <2> SUFFICES ASSUME NEW g \in Gate, pending'[g].gen # 0
               PROVE  InQueue(PendingEvent(g))' \/ InBatch(PendingEvent(g))'
    BY DEF PendingQueued
  <2>1. pending'[g] = pending[g] /\ (g # e.comp \/ e.gen = 0)
    BY <1>6
  <2>2. PendingEvent(g)' = PendingEvent(g) /\ PendingEvent(g) # e
    BY <2>1 DEF PendingEvent
  <2>3. CASE InQueue(PendingEvent(g))
    BY <1>5, <2>2, <2>3 DEF InQueue
  <2>4. CASE InBatch(PendingEvent(g))
    <3>1. PICK i \in 1..Len(batch) : batch[i] = PendingEvent(g)
      BY <2>4 DEF InBatch
    <3>2. i - 1 \in 1..Len(batch') /\ batch'[i - 1] = PendingEvent(g)
      BY <1>3, <1>5, <2>2, <3>1
    <3> QED
      BY <2>2, <3>2 DEF InBatch
  <2> QED
    BY <1>1, <2>1, <2>3, <2>4 DEF PendingQueued
\* A live gate event was pending, so its gate is not staged yet.
<1>11. s.gate => \A i \in 1..Len(staged) : staged[i].comp # s.comp
  BY <1>1, <1>3, <1>4, <1>6, <1>7 DEF StagedNotPending
<1>12. StagedOnce'
  <2> SUFFICES ASSUME NEW i \in 1..Len(staged'), NEW j \in 1..Len(staged'),
                      staged'[i].gate, staged'[j].comp = staged'[i].comp
               PROVE  i = j
    BY DEF StagedOnce
  <2>1. s.gate <=> s.comp \in Gate
    BY <1>3, <1>4
  <2>2. CASE i \in 1..Len(staged) /\ j \in 1..Len(staged)
    BY <1>1, <1>8, <2>2 DEF StagedOnce
  <2>3. CASE i = n \/ j = n
    BY <1>7, <1>8, <1>11, <2>1, <2>3
  <2> QED
    BY <1>8, <2>2, <2>3
<1>13. StagedNotPending'
  <2> SUFFICES ASSUME NEW i \in 1..Len(staged'), staged'[i].gate
               PROVE  pending'[staged'[i].comp].gen = 0
    BY DEF StagedNotPending
  <2>1. CASE i \in 1..Len(staged)
    BY <1>1, <1>6, <1>7, <1>8, <2>1 DEF StagedNotPending
  <2>2. CASE i = n
    BY <1>3, <1>4, <1>6, <1>8, <2>2
  <2> QED
    BY <1>8, <2>1, <2>2
<1>14. AcceptedAtFirst' /\ VerdictsStand'
  BY <1>1, <1>4, <1>5, <1>8 DEF AcceptedAtFirst, VerdictsStand
<1>15. \A x : Staged(x) => Staged(x)'
  BY <1>8 DEF Staged
<1>16. \A x : x = e.comp => Staged(x)'
  BY <1>4, <1>8 DEF Staged
<1>17. \A i : ~IsProjected(i) /\ ~IsProjected(i)'
  BY <1>1, <1>5 DEF IsProjected
<1>18. ChangesAreStaged(s0)' /\ GatesShowVerdict(s0)' /\ FirstRemembers(s0)'
  BY <1>2, <1>5, <1>17 DEF StepFrom, ChangesAreStaged, GatesShowVerdict, FirstRemembers
<1>19. IdleGatesWereConsistent(s0)'
  BY <1>2, <1>6, <1>15, <1>16 DEF StepFrom, IdleGatesWereConsistent
<1>20. WiresFollow(s0)'
  <2> SUFFICES ASSUME NEW c \in WireLike
               PROVE  /\ \A i \in 1..Len(batch') : batch'[i].comp = c =>
                            batch'[i].val = Target(c, s0)
                      /\ \A i \in 1..Len(staged') : staged'[i].comp = c =>
                            staged'[i].val = Target(c, s0)
                      /\ s0[c] # Target(c, s0) => Batched(c)' \/ Staged(c)'
                      /\ ~Queued(c)'
    BY <1>17 DEF WiresFollow
  <2>1. /\ \A i \in 1..Len(batch) : batch[i].comp = c => batch[i].val = Target(c, s0)
        /\ \A i \in 1..Len(staged) : staged[i].comp = c => staged[i].val = Target(c, s0)
        /\ s0[c] # Target(c, s0) => Batched(c) \/ Staged(c)
        /\ ~Queued(c)
    BY <1>2 DEF StepFrom, WiresFollow
  <2>2. \A i \in 1..Len(batch') : batch'[i].comp = c => batch'[i].val = Target(c, s0)
    BY <1>3, <1>5, <2>1
  <2>3. \A i \in 1..Len(staged') : staged'[i].comp = c => staged'[i].val = Target(c, s0)
    BY <1>3, <1>4, <1>8, <2>1
  <2>4. ASSUME Batched(c), c # e.comp
        PROVE  Batched(c)'
    <3>1. PICK i \in 1..Len(batch) : batch[i].comp = c
      BY <2>4 DEF Batched
    <3>2. i - 1 \in 1..Len(batch') /\ batch'[i - 1].comp = c
      BY <1>3, <1>5, <2>4, <3>1
    <3> QED
      BY <3>2 DEF Batched
  <2>5. ~Queued(c)'
    BY <1>5, <2>1 DEF Queued
  <2> QED
    BY <1>15, <1>16, <2>1, <2>2, <2>3, <2>4, <2>5
<1>21. PendingWasRight(s0)' /\ ClocksWereSeen(s0)'
  BY <1>2, <1>5, <1>6 DEF StepFrom, PendingWasRight, ClocksWereSeen
<1> QED
  BY <1>1, <1>9, <1>10, <1>12, <1>13, <1>14, <1>18, <1>19, <1>20, <1>21, <1>5
     DEF SettleInv, SettleInvWith, StepFrom, InStep

\* A cancelled event is dropped.
LEMMA PopStaleKeeps ==
  ASSUME TypeOK, SettleInv, ~failed, PopStale
  PROVE  SettleInv'
<1> DEFINE e == Head(batch)
<1>1. /\ Shape /\ PendingQueued /\ StagedOnce /\ StagedNotPending /\ AcceptedAtFirst
      /\ phase = "pop" /\ batch # <<>> /\ ~Live(e) /\ InStep
  BY DEF SettleInv, SettleInvWith, PopStale, InStep
<1>2. PICK s0 \in Pool : StepFrom(s0)
  BY <1>1 DEF SettleInv, SettleInvWith
<1>3. /\ e \in Event /\ (e.gen # 0 <=> e.comp \in Gate)
      /\ batch[1] = e
      /\ \A i \in 1..Len(batch) : i # 1 =>
           i - 1 \in 1..Len(Tail(batch)) /\ Tail(batch)[i - 1] = batch[i]
      /\ \A i \in 1..Len(Tail(batch)) : i + 1 \in 1..Len(batch) /\ Tail(batch)[i] = batch[i + 1]
  BY <1>1, TailEvents, BatchFacts DEF TypeOK
<1>4. /\ state' = state /\ queue' = queue /\ phase' = phase /\ idx' = idx /\ outs' = outs
      /\ failed' = failed /\ batch' = Tail(batch) /\ staged' = staged /\ pending' = pending
      /\ prevClk' = prevClk
  BY DEF PopStale
<1>5. e.comp \in Gate
  BY <1>1, <1>3 DEF Live
<1>6. \A g \in Gate : PendingEvent(g) # e
  <2> SUFFICES ASSUME NEW g \in Gate, PendingEvent(g) = e
               PROVE  FALSE
    OBVIOUS
  <2>1. e.comp = g /\ e.val = pending[g].val /\ e.gen = pending[g].gen
    BY DEF PendingEvent
  <2>2. pending[g] \in [gen : 0..(GenLimit - 1), val : AnyState]
    BY DEF TypeOK, Gate
  <2>3. pending[g] = [gen |-> pending[g].gen, val |-> pending[g].val]
    BY <2>2
  <2> QED
    BY <1>1, <2>1, <2>3 DEF Live
<1> HIDE DEF e
<1>7. PendingQueued'
  <2> SUFFICES ASSUME NEW g \in Gate, pending[g].gen # 0
               PROVE  InQueue(PendingEvent(g))' \/ InBatch(PendingEvent(g))'
    BY <1>4 DEF PendingQueued
  <2>1. PendingEvent(g)' = PendingEvent(g) /\ PendingEvent(g) # e
    BY <1>4, <1>6 DEF PendingEvent
  <2>2. CASE InQueue(PendingEvent(g))
    BY <1>4, <2>1, <2>2 DEF InQueue
  <2>3. CASE InBatch(PendingEvent(g))
    <3>1. PICK i \in 1..Len(batch) : batch[i] = PendingEvent(g)
      BY <2>3 DEF InBatch
    <3>2. i - 1 \in 1..Len(batch') /\ batch'[i - 1] = PendingEvent(g)
      BY <1>3, <1>4, <2>1, <3>1
    <3> QED
      BY <2>1, <3>2 DEF InBatch
  <2> QED
    BY <1>1, <2>2, <2>3 DEF PendingQueued
<1>8. Shape' /\ StagedOnce' /\ StagedNotPending' /\ AcceptedAtFirst' /\ VerdictsStand'
  BY <1>1, <1>4 DEF Shape, StagedOnce, StagedNotPending, InStep, AcceptedAtFirst, VerdictsStand
<1>9. /\ ChangesAreStaged(s0)' /\ GatesShowVerdict(s0)' /\ FirstRemembers(s0)'
      /\ IdleGatesWereConsistent(s0)' /\ PendingWasRight(s0)' /\ ClocksWereSeen(s0)'
  BY <1>2, <1>4 DEF StepFrom, ChangesAreStaged, GatesShowVerdict, FirstRemembers,
     IdleGatesWereConsistent, PendingWasRight, ClocksWereSeen, IsProjected, Staged
<1>10. ASSUME NEW c \in WireLike, Batched(c)
       PROVE  Batched(c)'
  <2>1. PICK i \in 1..Len(batch) : batch[i].comp = c
    BY <1>10 DEF Batched
  <2>2. i # 1
    BY <1>3, <1>5, <2>1, KindsApart
  <2> QED
    BY <1>3, <1>4, <2>1, <2>2 DEF Batched
<1>11. \A c : (Staged(c) => Staged(c)') /\ (Queued(c)' => Queued(c))
  BY <1>4 DEF Staged, Queued
<1>12. WiresFollow(s0)'
  BY <1>2, <1>3, <1>4, <1>10, <1>11 DEF StepFrom, WiresFollow, IsProjected
<1> QED
  BY <1>1, <1>4, <1>7, <1>8, <1>9, <1>12 DEF SettleInv, SettleInvWith, StepFrom, InStep

\* The batch is empty.
LEMMA StageDoneKeeps ==
  ASSUME TypeOK, SettleInv, ~failed, StageDone
  PROVE  SettleInv'
<1>1. /\ Shape /\ PendingQueued /\ StagedOnce /\ StagedNotPending /\ AcceptedAtFirst
      /\ phase = "pop" /\ batch = <<>> /\ idx = 0 /\ InStep
  BY DEF SettleInv, SettleInvWith, StageDone, InStep, Shape
<1>2. PICK s0 \in Pool : StepFrom(s0)
  BY <1>1 DEF SettleInv, SettleInvWith
<1>3. /\ state' = state /\ queue' = queue /\ phase' = "project" /\ idx' = idx /\ outs' = outs
      /\ failed' = failed /\ batch' = batch /\ staged' = staged /\ pending' = pending
      /\ prevClk' = prevClk
  BY DEF StageDone, step
<1>4. Shape' /\ StagedOnce' /\ StagedNotPending' /\ AcceptedAtFirst' /\ VerdictsStand'
  BY <1>1, <1>3 DEF Shape, StagedOnce, StagedNotPending, InStep, AcceptedAtFirst, VerdictsStand
<1>5. PendingQueued'
  BY <1>1, <1>3 DEF PendingQueued, PendingEvent, InQueue, InBatch
<1>6. \A i \in 1..Len(staged) : ~IsProjected(i) /\ ~IsProjected(i)'
  BY <1>1, <1>3, StagedFacts DEF IsProjected
<1>7. /\ ChangesAreStaged(s0)' /\ GatesShowVerdict(s0)' /\ FirstRemembers(s0)'
      /\ IdleGatesWereConsistent(s0)' /\ PendingWasRight(s0)' /\ ClocksWereSeen(s0)'
  BY <1>2, <1>3, <1>6 DEF StepFrom, ChangesAreStaged, GatesShowVerdict, FirstRemembers,
     IdleGatesWereConsistent, PendingWasRight, ClocksWereSeen, Staged
<1>8. WiresFollow(s0)'
  BY <1>2, <1>3, <1>6 DEF StepFrom, WiresFollow, Batched, Staged, Queued
<1> QED
  BY <1>3, <1>4, <1>5, <1>7, <1>8 DEF SettleInv, SettleInvWith, StepFrom, InStep

\* One staged event is written to the pool.
LEMMA ProjectKeeps ==
  ASSUME TypeOK, SettleInv, ~failed, Project
  PROVE  SettleInv'
<1> DEFINE n == idx + 1
           s == staged[n]
           c == s.comp
<1>1. /\ Shape /\ PendingQueued /\ StagedOnce /\ StagedNotPending /\ AcceptedAtFirst
      /\ phase = "project" /\ batch = <<>> /\ InStep
  BY DEF SettleInv, SettleInvWith, Project, InStep, Shape
<1>2. PICK s0 \in Pool : StepFrom(s0)
  BY <1>1 DEF SettleInv, SettleInvWith
<1>3. /\ staged \in Seq(StagedEvent) /\ Len(staged) \in Nat /\ idx \in Nat
      /\ n \in 1..Len(staged) /\ n \notin 1..idx
      /\ \A i \in 1..Len(staged) :
           staged[i].comp \in Component /\ (staged[i].gate <=> staged[i].comp \in Gate)
  BY StagedFacts DEF Project
<1>4. /\ queue' = queue /\ phase' = phase /\ outs' = outs /\ failed' = failed
      /\ batch' = batch /\ pending' = pending /\ idx' = n /\ prevClk' = prevClk
      /\ staged' = [staged EXCEPT ![n] = Projected(s)]
      /\ state' = [state EXCEPT ![c] = s.val]
  BY DEF Project
<1>5. /\ Projected(s).comp = c /\ Projected(s).val = s.val /\ Projected(s).gate = s.gate
      /\ Projected(s).old = state[c] /\ Projected(s).accepted = s.accepted
  BY DEF Projected
<1>6. s.accepted
  BY <1>1, <1>3 DEF AcceptedAtFirst
<1> HIDE DEF s
<1>7. /\ Len(staged') = Len(staged)
      /\ \A i \in 1..Len(staged) : i # n => staged'[i] = staged[i]
      /\ staged'[n] = Projected(s) /\ s = staged[n]
  BY <1>3, <1>4 DEF s
<1>8. \A i \in 1..Len(staged) :
        /\ staged'[i].comp = staged[i].comp /\ staged'[i].val = staged[i].val
        /\ staged'[i].gate = staged[i].gate /\ staged'[i].accepted = staged[i].accepted
  BY <1>5, <1>7
<1>9. /\ \A x \in Component : x # c => state'[x] = state[x]
      /\ state'[c] = s.val
      /\ c = staged[n].comp
  BY <1>3, <1>4, <1>7 DEF TypeOK, Pool
<1>10. \A i \in 1..Len(staged) : (IsProjected(i) <=> i <= idx) /\ (IsProjected(i)' <=> i <= idx \/ i = n)
  BY <1>1, <1>3, <1>4 DEF IsProjected
<1> HIDE DEF n, c
<1>11. Shape' /\ StagedOnce' /\ StagedNotPending' /\ AcceptedAtFirst' /\ VerdictsStand'
  BY <1>1, <1>4, <1>7, <1>8
     DEF Shape, StagedOnce, StagedNotPending, InStep, AcceptedAtFirst, VerdictsStand
<1>12. PendingQueued'
  BY <1>1, <1>4 DEF PendingQueued, PendingEvent, InQueue, InBatch
<1>13. ChangesAreStaged(s0)
  BY <1>2 DEF StepFrom
<1>14. ChangesAreStaged(s0)'
  <2> SUFFICES ASSUME NEW x \in Component, state'[x] # s0[x]
               PROVE  \E i \in 1..Len(staged) :
                        IsProjected(i)' /\ staged'[i].comp = x /\ Changed(staged'[i])
    BY <1>7 DEF ChangesAreStaged
  <2>1. CASE state[x] # s0[x]
    <3>1. PICK i \in 1..Len(staged) : IsProjected(i) /\ staged[i].comp = x /\ Changed(staged[i])
      BY <1>13, <2>1 DEF ChangesAreStaged
    <3>2. i # n
      BY <1>3, <1>10, <3>1 DEF n
    <3> QED
      BY <1>7, <1>10, <3>1, <3>2
  <2>2. CASE state[x] = s0[x]
    <3>1. x = c /\ state[c] # s.val
      BY <1>9, <2>2
    <3>2. PICK j \in 1..Len(staged) : j = n
      BY <1>3
    <3>3. IsProjected(j)'
      BY <1>10, <3>2
    <3>4. staged'[j] = Projected(s)
      BY <1>7, <3>2
    <3>5. staged'[j].comp = x
      BY <1>5, <3>1, <3>4
    <3>6. staged'[j].accepted /\ staged'[j].old = state[c] /\ staged'[j].val = s.val
      BY <1>5, <1>6, <3>4
    <3>7. Changed(staged'[j])
      BY <3>1, <3>6 DEF Changed
    <3> QED
      BY <3>3, <3>5, <3>7
  <2> QED
    BY <2>1, <2>2
\* What a gate held before its own projection is what it held before the timestamp.
<1>15. s.gate => state[c] = s0[c]
  <2> SUFFICES ASSUME s.gate, state[c] # s0[c]
               PROVE  FALSE
    OBVIOUS
  <2>1. PICK i \in 1..Len(staged) : IsProjected(i) /\ staged[i].comp = c
    BY <1>3, <1>9, <1>13 DEF ChangesAreStaged
  <2>2. i = n
    BY <1>1, <1>3, <1>7, <1>9, <2>1 DEF StagedOnce
  <2> QED
    BY <1>3, <1>10, <2>1, <2>2 DEF n
<1>16. GatesShowVerdict(s0)'
  <2> SUFFICES ASSUME NEW i \in 1..Len(staged), staged'[i].gate, IsProjected(i)'
               PROVE  /\ staged'[i].old = s0[staged'[i].comp]
                      /\ state'[staged'[i].comp] =
                           IF staged'[i].accepted THEN staged'[i].val ELSE staged'[i].old
    BY <1>7 DEF GatesShowVerdict
  <2>1. CASE i = n
    BY <1>5, <1>6, <1>7, <1>9, <1>15, <2>1
  <2>2. CASE i # n
    <3>1. staged'[i] = staged[i] /\ IsProjected(i) /\ staged[i].gate
      BY <1>7, <1>10, <2>2
    <3>2. staged[i].comp # c
      BY <1>1, <1>3, <1>9, <2>2, <3>1 DEF StagedOnce
    <3>3. /\ staged[i].old = s0[staged[i].comp]
          /\ state[staged[i].comp] = IF staged[i].accepted THEN staged[i].val ELSE staged[i].old
      BY <1>2, <3>1 DEF StepFrom, GatesShowVerdict
    <3> QED
      BY <1>3, <1>9, <3>1, <3>2, <3>3
  <2> QED
    BY <2>1, <2>2
<1>17. \A x : Staged(x) <=> Staged(x)'
  BY <1>7, <1>8 DEF Staged
<1>18. IdleGatesWereConsistent(s0)'
  BY <1>2, <1>4, <1>17 DEF StepFrom, IdleGatesWereConsistent
<1>19. WiresFollow(s0)'
  <2> SUFFICES ASSUME NEW w \in WireLike
               PROVE  /\ \A i \in 1..Len(batch) : batch[i].comp = w =>
                            batch[i].val = Target(w, s0)
                      /\ \A i \in 1..Len(staged) : staged'[i].comp = w =>
                           /\ staged'[i].val = Target(w, s0)
                           /\ IsProjected(i)' => state'[w] = Target(w, s0)
                      /\ s0[w] # Target(w, s0) => Batched(w)' \/ Staged(w)'
                      /\ ~Queued(w)'
    BY <1>4, <1>7 DEF WiresFollow
  <2>1. /\ \A i \in 1..Len(batch) : batch[i].comp = w => batch[i].val = Target(w, s0)
        /\ \A i \in 1..Len(staged) : staged[i].comp = w =>
             /\ staged[i].val = Target(w, s0)
             /\ IsProjected(i) => state[w] = Target(w, s0)
        /\ s0[w] # Target(w, s0) => Batched(w) \/ Staged(w)
        /\ ~Queued(w)
    BY <1>2 DEF StepFrom, WiresFollow
  <2>2. ASSUME NEW i \in 1..Len(staged), staged'[i].comp = w, IsProjected(i)'
        PROVE  state'[w] = Target(w, s0)
    <3>1. CASE w = c
      BY <1>3, <1>7, <1>9, <2>1, <3>1
    <3>2. CASE w # c
      <4>1. staged[i].comp = w /\ i # n /\ w \in Component
        BY <1>3, <1>8, <1>9, <2>2, <3>2
      <4> QED
        BY <1>9, <1>10, <2>1, <2>2, <3>2, <4>1
    <3> QED
      BY <3>1, <3>2
  <2>3. (Batched(w) => Batched(w)') /\ (Queued(w)' => Queued(w))
    BY <1>4 DEF Batched, Queued
  <2> QED
    BY <1>8, <1>17, <2>1, <2>2, <2>3
<1>20. FirstRemembers(s0)'
  <2> SUFFICES ASSUME NEW i \in 1..Len(staged), IsProjected(i)',
                      \A j \in 1..(i - 1) : staged'[j].comp # staged'[i].comp
               PROVE  staged'[i].old = s0[staged'[i].comp]
    BY <1>7 DEF FirstRemembers
  <2>0. \A j \in 1..(i - 1) : staged[j].comp # staged[i].comp
    BY <1>3, <1>8
  <2>1. CASE i = n
    <3>1. staged'[i].old = state[c] /\ staged'[i].comp = c
      BY <1>5, <1>7, <2>1
    <3>2. ASSUME state[c] # s0[c]
          PROVE  FALSE
      <4>1. PICK k \in 1..Len(staged) : IsProjected(k) /\ staged[k].comp = c
        BY <1>3, <1>9, <1>13, <3>2 DEF ChangesAreStaged
      <4>2. k <= idx
        BY <1>10, <4>1
      <4>3. k \in 1..(i - 1) /\ staged[i].comp = c
        BY <1>3, <1>9, <2>1, <4>2 DEF n
      <4> QED
        BY <2>0, <4>1, <4>3
    <3> QED
      BY <3>1, <3>2
  <2>2. CASE i # n
    BY <1>2, <1>7, <1>10, <2>0, <2>2 DEF StepFrom, FirstRemembers
  <2> QED
    BY <2>1, <2>2
<1>21. PendingWasRight(s0)' /\ ClocksWereSeen(s0)'
  BY <1>2, <1>4 DEF StepFrom, PendingWasRight, ClocksWereSeen
<1> QED
  BY <1>1, <1>4, <1>11, <1>12, <1>14, <1>16, <1>18, <1>19, <1>20, <1>21
     DEF SettleInv, SettleInvWith, StepFrom, InStep

\* The first wave of validation is made up.
LEMMA StartValidationKeeps ==
  ASSUME TypeOK, SettleInv, ~failed, StartValidation
  PROVE  SettleInv'
<1>1. /\ Shape /\ PendingQueued /\ StagedOnce /\ StagedNotPending
      /\ phase = "project" /\ idx = Len(staged) /\ InStep
  BY DEF SettleInv, SettleInvWith, StartValidation, InStep
<1>2. PICK s0 \in Pool : StepFrom(s0)
  BY <1>1 DEF SettleInv, SettleInvWith
<1>3. /\ state' = state /\ queue' = queue /\ phase' = "validate" /\ idx' = 0 /\ outs' = outs
      /\ failed' = failed /\ batch' = batch /\ staged' = staged /\ pending' = pending
      /\ wave' = {i \in DOMAIN staged : staged[i].gate} /\ prevClk' = prevClk
  BY DEF StartValidation
<1>4. DOMAIN staged = 1..Len(staged) /\ Len(staged) \in Nat
  BY StagedFacts
<1>5. Shape' /\ StagedOnce' /\ StagedNotPending' /\ AcceptedAtFirst' /\ VerdictsStand'
  BY <1>1, <1>3, <1>4
     DEF Shape, StagedOnce, StagedNotPending, InStep, AcceptedAtFirst, VerdictsStand
<1>6. PendingQueued'
  BY <1>1, <1>3 DEF PendingQueued, PendingEvent, InQueue, InBatch
<1>7. \A i \in 1..Len(staged) : IsProjected(i) /\ IsProjected(i)'
  BY <1>1, <1>3, <1>4 DEF IsProjected
<1>8. /\ ChangesAreStaged(s0)' /\ GatesShowVerdict(s0)' /\ FirstRemembers(s0)'
      /\ IdleGatesWereConsistent(s0)' /\ PendingWasRight(s0)' /\ ClocksWereSeen(s0)'
  BY <1>2, <1>3, <1>7 DEF StepFrom, ChangesAreStaged, GatesShowVerdict, FirstRemembers,
     IdleGatesWereConsistent, PendingWasRight, ClocksWereSeen, Staged
<1>9. WiresFollow(s0)'
  BY <1>2, <1>3, <1>7 DEF StepFrom, WiresFollow, Batched, Staged, Queued
<1> QED
  BY <1>1, <1>3, <1>5, <1>6, <1>8, <1>9 DEF SettleInv, SettleInvWith, StepFrom, InStep

-----------------------------------------------------------------------------
(* The validation waves and the commit *)

\* A verdict is flipped exactly when the evaluation contradicts it.
LEMMA FlipFacts ==
  ASSUME TypeOK
  PROVE  /\ Flips \subseteq wave /\ wave \subseteq 1..Len(staged)
         /\ \A i \in wave : staged[i].gate
         /\ \A i \in Flips : Supported(i) <=> ~staged[i].accepted
         /\ \A i \in wave : i \notin Flips => (Supported(i) <=> staged[i].accepted)
<1>1. wave \subseteq 1..Len(staged) /\ \A i \in wave : staged[i].gate
  BY StagedFacts DEF TypeOK
<1>2. ASSUME NEW i \in wave
      PROVE  staged[i].accepted \in BOOLEAN /\ Supported(i) \in BOOLEAN
  <2>1. staged[i] \in StagedEvent
    BY <1>1, <1>2, StagedFacts
  <2> QED
    BY <2>1 DEF StagedEvent, Supported
<1>3. ASSUME NEW i \in Flips
      PROVE  Supported(i) <=> ~staged[i].accepted
  <2>1. i \in wave /\ Supported(i) # staged[i].accepted
    BY DEF Flips
  <2> QED
    BY <1>2, <2>1, Zenon
<1>4. ASSUME NEW i \in wave, i \notin Flips
      PROVE  Supported(i) <=> staged[i].accepted
  <2>1. Supported(i) = staged[i].accepted
    BY <1>4, Zenon DEF Flips
  <2> QED
    BY <1>2, <2>1, Zenon
<1>5. Flips \subseteq wave
  BY DEF Flips
<1> QED
  BY <1>1, <1>3, <1>4, <1>5

\* Where the pool changes, and to what.
LEMMA FlippedFacts ==
  ASSUME TypeOK, StagedOnce
  PROVE  /\ \A i \in Flips :
              FlippedState(staged[i].comp) =
                IF staged[i].accepted THEN staged[i].old ELSE staged[i].val
         /\ \A x : (\A i \in Flips : staged[i].comp # x) => FlippedState(x) = state[x]
<1>1. ASSUME NEW i \in Flips
      PROVE  FlippedState(staged[i].comp) =
               IF staged[i].accepted THEN staged[i].old ELSE staged[i].val
  <2> DEFINE j == CHOOSE k \in Flips : staged[k].comp = staged[i].comp
  <2>1. j \in Flips /\ staged[j].comp = staged[i].comp
    BY Zenon
  <2>2. j = i
    BY <2>1, FlipFacts DEF StagedOnce
  <2>3. FlippedState(staged[i].comp) = IF staged[j].accepted THEN staged[j].old ELSE staged[j].val
    BY DEF FlippedState
  <2> QED
    BY <2>2, <2>3
<1>2. ASSUME NEW x, \A i \in Flips : staged[i].comp # x
      PROVE  FlippedState(x) = state[x]
  BY <1>2 DEF FlippedState
<1> QED
  BY <1>1, <1>2

\* A wave of validation, and the one that follows it.
LEMMA ValidateWaveKeeps ==
  ASSUME TypeOK, SettleInv, ~failed, ValidateWave
  PROVE  SettleInv'
<1>1. /\ Shape /\ PendingQueued /\ StagedOnce /\ StagedNotPending /\ VerdictsStand
      /\ phase = "validate" /\ InStep
  BY DEF SettleInv, SettleInvWith, ValidateWave, InStep
<1>2. PICK s0 \in Pool : StepFrom(s0)
  BY <1>1 DEF SettleInv, SettleInvWith
<1>3. /\ staged \in Seq(StagedEvent) /\ Len(staged) \in Nat /\ DOMAIN staged = 1..Len(staged)
      /\ \A i \in 1..Len(staged) :
           staged[i].comp \in Component /\ (staged[i].gate <=> staged[i].comp \in Gate)
  BY StagedFacts
<1>4. /\ queue' = queue /\ phase' = phase /\ outs' = outs /\ failed' = failed
      /\ batch' = batch /\ pending' = pending /\ idx' = idx /\ prevClk' = prevClk
      /\ staged' = [i \in DOMAIN staged |-> IF i \in Flips THEN Reversed(staged[i]) ELSE staged[i]]
      /\ state' = [c \in Component |-> FlippedState(c)]
      /\ wave' = {j \in DOMAIN staged :
                    staged[j].gate /\ \E i \in Flips : Listens(staged[j].comp, staged[i].comp)}
  BY DEF ValidateWave
<1>5. Len(staged') = Len(staged)
  <2>1. \A i \in DOMAIN staged : (IF i \in Flips THEN Reversed(staged[i]) ELSE staged[i])
                                   \in {Reversed(staged[k]) : k \in DOMAIN staged} \cup
                                       {staged[k] : k \in DOMAIN staged}
    OBVIOUS
  <2> QED
    BY <1>3, <1>4, <2>1, SequenceOverDomain
<1>6. Flips \subseteq 1..Len(staged) /\ \A i \in Flips : staged[i].gate
  BY FlipFacts
<1>7. \A i \in 1..Len(staged) :
        /\ staged'[i].comp = staged[i].comp /\ staged'[i].val = staged[i].val
        /\ staged'[i].gate = staged[i].gate /\ staged'[i].old = staged[i].old
        /\ i \in Flips => (staged'[i].accepted <=> ~staged[i].accepted)
        /\ i \notin Flips => staged'[i] = staged[i]
  BY <1>3, <1>4 DEF Reversed
<1>8. /\ \A i \in Flips : state'[staged[i].comp] =
                            IF staged[i].accepted THEN staged[i].old ELSE staged[i].val
      /\ \A x \in Component : (\A i \in Flips : staged[i].comp # x) => state'[x] = state[x]
  BY <1>1, <1>3, <1>4, <1>6, FlippedFacts
\* No other candidate is of a component that flips.
<1>9. \A i \in Flips : \A k \in 1..Len(staged) : staged[k].comp = staged[i].comp => k = i
  BY <1>1, <1>6 DEF StagedOnce
<1>10. \A i : IsProjected(i) /\ IsProjected(i)'
  BY <1>1, <1>4 DEF IsProjected
<1>11. Shape' /\ StagedOnce' /\ StagedNotPending' /\ AcceptedAtFirst'
  <2>1. phase' = phase /\ pending' = pending /\ batch' = batch /\ outs' = outs /\ idx' = idx
    BY <1>4
  <2>2. Shape' /\ AcceptedAtFirst'
    BY <1>1, <2>1 DEF Shape, AcceptedAtFirst
  <2>3. StagedOnce'
    BY <1>1, <1>5, <1>7 DEF StagedOnce
  <2>4. StagedNotPending'
    BY <1>1, <1>5, <1>7, <2>1 DEF StagedNotPending
  <2> QED
    BY <2>2, <2>3, <2>4
<1>12. PendingQueued'
  BY <1>1, <1>4 DEF PendingQueued, PendingEvent, InQueue, InBatch
<1>13. GatesShowVerdict(s0)
  BY <1>2 DEF StepFrom
<1>14. GatesShowVerdict(s0)'
  <2> SUFFICES ASSUME NEW i \in 1..Len(staged), staged'[i].gate
               PROVE  /\ staged'[i].old = s0[staged'[i].comp]
                      /\ state'[staged'[i].comp] =
                           IF staged'[i].accepted THEN staged'[i].val ELSE staged'[i].old
    BY <1>5 DEF GatesShowVerdict
  <2>1. /\ staged[i].old = s0[staged[i].comp]
        /\ state[staged[i].comp] = IF staged[i].accepted THEN staged[i].val ELSE staged[i].old
    BY <1>7, <1>10, <1>13 DEF GatesShowVerdict
  <2>2. CASE i \in Flips
    BY <1>7, <1>8, <2>1, <2>2
  <2>3. CASE i \notin Flips
    <3>1. staged'[i] = staged[i] /\ state'[staged[i].comp] = state[staged[i].comp]
      BY <1>3, <1>7, <1>8, <1>9, <2>3
    <3> QED
      BY <2>1, <3>1
  <2> QED
    BY <2>2, <2>3
<1>15. ChangesAreStaged(s0)'
  <2> SUFFICES ASSUME NEW x \in Component, state'[x] # s0[x]
               PROVE  \E i \in 1..Len(staged) : staged'[i].comp = x /\ Changed(staged'[i])
    BY <1>5, <1>10 DEF ChangesAreStaged
  <2>1. CASE \E i \in Flips : staged[i].comp = x
    <3>1. PICK i \in Flips : staged[i].comp = x
      BY <2>1
    <3>2. i \in 1..Len(staged) /\ staged[i].gate /\ staged[i].old = s0[x]
      BY <1>6, <1>10, <1>13, <3>1 DEF GatesShowVerdict
    <3>3. ~staged[i].accepted /\ staged[i].val # s0[x]
      BY <1>8, <3>1, <3>2
    <3> QED
      BY <1>7, <3>1, <3>2, <3>3 DEF Changed
  <2>2. CASE \A i \in Flips : staged[i].comp # x
    <3>1. state[x] # s0[x]
      BY <1>8, <2>2
    <3>2. PICK i \in 1..Len(staged) : staged[i].comp = x /\ Changed(staged[i])
      BY <1>2, <3>1 DEF StepFrom, ChangesAreStaged
    <3>3. i \notin Flips
      BY <2>2, <3>2
    <3> QED
      BY <1>7, <3>2, <3>3
  <2> QED
    BY <2>1, <2>2
<1>16. \A x : Staged(x) <=> Staged(x)'
  BY <1>5, <1>7 DEF Staged
<1>17. IdleGatesWereConsistent(s0)'
  BY <1>2, <1>4, <1>16 DEF StepFrom, IdleGatesWereConsistent
<1>18. \A c \in WireLike : state'[c] = state[c]
  BY <1>3, <1>6, <1>8, KindsApart DEF WireLike
<1>19. WiresFollow(s0)'
  <2>1. \A c : (Batched(c) <=> Batched(c)') /\ (Queued(c) <=> Queued(c)')
    BY <1>4 DEF Batched, Queued
  <2> SUFFICES ASSUME NEW c \in WireLike
               PROVE  /\ \A i \in 1..Len(batch) : batch[i].comp = c =>
                            batch[i].val = Target(c, s0)
                      /\ \A i \in 1..Len(staged) : staged'[i].comp = c =>
                           /\ staged'[i].val = Target(c, s0)
                           /\ state'[c] = Target(c, s0)
                      /\ s0[c] # Target(c, s0) => Batched(c)' \/ Staged(c)'
                      /\ ~Queued(c)'
    <3>1. batch' = batch
      BY <1>4
    <3> QED
      BY <1>5, <3>1 DEF WiresFollow
  <2>2. /\ \A i \in 1..Len(batch) : batch[i].comp = c => batch[i].val = Target(c, s0)
        /\ \A i \in 1..Len(staged) : staged[i].comp = c =>
             staged[i].val = Target(c, s0) /\ state[c] = Target(c, s0)
        /\ s0[c] # Target(c, s0) => Batched(c) \/ Staged(c)
        /\ ~Queued(c)
    BY <1>2, <1>10 DEF StepFrom, WiresFollow
  <2> QED
    BY <1>7, <1>16, <1>18, <2>1, <2>2
\* A gate not queued again reads nothing that flipped: its last evaluation stands.
<1>20. VerdictsStand'
  <2> SUFFICES ASSUME NEW i \in 1..Len(staged), staged'[i].gate, i \notin wave'
               PROVE  staged'[i].accepted <=> Target(staged'[i].comp, state') = staged'[i].val
    BY <1>5 DEF VerdictsStand, Supported
  <2> DEFINE g == staged[i].comp
  <2>1. g \in Component /\ staged[i].gate
    BY <1>3, <1>7
  <2>2. \A k \in Flips : ~Listens(g, staged[k].comp)
    BY <1>3, <1>4, <2>1
  <2>3. \A d \in Component : Drives(d, g) => state[d] = state'[d]
    BY <1>3, <1>6, <1>8, <2>1, <2>2, NetlistAssumption DEF NetlistAssumption
  <2>4. Target(g, state) = Target(g, state')
    BY <2>1, <2>3, TargetLocal
  <2>5. staged'[i].accepted <=> Supported(i)
    <3>1. CASE i \in Flips
      BY <1>7, <3>1, FlipFacts
    <3>2. CASE i \notin Flips /\ i \in wave
      BY <1>7, <3>2, FlipFacts
    <3>3. CASE i \notin Flips /\ i \notin wave
      BY <1>1, <1>7, <2>1, <3>3 DEF VerdictsStand
    <3> QED
      BY <3>1, <3>2, <3>3
  <2> QED
    BY <1>7, <2>4, <2>5 DEF Supported
<1>21. FirstRemembers(s0)'
  BY <1>2, <1>5, <1>7, <1>10 DEF StepFrom, FirstRemembers
<1>22. PendingWasRight(s0)' /\ ClocksWereSeen(s0)'
  BY <1>2, <1>4 DEF StepFrom, PendingWasRight, ClocksWereSeen
<1> QED
  BY <1>1, <1>4, <1>11, <1>12, <1>14, <1>15, <1>17, <1>19, <1>20, <1>21, <1>22
     DEF SettleInv, SettleInvWith, StepFrom, InStep

\* The end of Phase 1: what the batch changed is owed to whoever reads it.
LEMMA CommitKeeps ==
  ASSUME TypeOK, SettleInv, ~failed, Commit
  PROVE  SettleInv'
<1>1. /\ Shape /\ PendingQueued /\ StagedOnce /\ StagedNotPending /\ VerdictsStand
      /\ phase = "validate" /\ wave = {} /\ idx = 0 /\ batch = <<>> /\ outs = <<>> /\ InStep
  BY DEF SettleInv, SettleInvWith, Commit, InStep, Shape
<1>2. PICK s0 \in Pool : StepFrom(s0)
  BY <1>1 DEF SettleInv, SettleInvWith
<1>3. /\ state' = state /\ queue' = queue /\ phase' = "notify" /\ idx' = idx /\ outs' = outs
      /\ failed' = failed /\ batch' = batch /\ staged' = staged /\ pending' = pending
      /\ prevClk' = prevClk
  BY DEF Commit, step
<1>4. /\ Len(staged) \in Nat
      /\ \A i \in 1..Len(staged) : staged[i].gate <=> staged[i].comp \in Gate
  BY StagedFacts
<1>5. \A i : IsProjected(i)
  BY <1>1 DEF IsProjected
<1>6. Shape' /\ StagedOnce' /\ StagedNotPending' /\ AcceptedAtFirst' /\ VerdictsStand' /\ ~InStep'
  BY <1>1, <1>3 DEF Shape, StagedOnce, StagedNotPending, InStep, AcceptedAtFirst, VerdictsStand
<1>7. PendingQueued'
  BY <1>1, <1>3 DEF PendingQueued, PendingEvent, InQueue, InBatch
<1>8. ASSUME NEW x \in Component, state[x] # s0[x]
      PROVE  \E i \in 1..Len(staged) : staged[i].comp = x /\ Changed(staged[i])
  BY <1>2, <1>8 DEF StepFrom, ChangesAreStaged
\* A driver that moved is noticed by its reader.
<1>9. ASSUME NEW c \in Component, ~ToNotify(c)'
      PROVE  /\ \A d \in Component : Drives(d, c) => state[d] = s0[d]
             /\ Target(c, state) = Target(c, s0)
  <2>1. ASSUME NEW d \in Component, Drives(d, c), state[d] # s0[d]
        PROVE  FALSE
    <3>1. PICK i \in 1..Len(staged) : staged[i].comp = d /\ Changed(staged[i])
      BY <1>8, <2>1
    <3>2. Listens(c, d)
      BY <2>1, NetlistAssumption DEF NetlistAssumption
    <3> QED
      BY <1>1, <1>3, <1>9, <3>1, <3>2 DEF ToNotify
  <2> QED
    BY <2>1, TargetLocal
<1>10. WireEventsDue'
  BY <1>2, <1>3 DEF StepFrom, WiresFollow, WireEventsDue, Queued
<1>11. WiresOwed'
  <2> SUFFICES ASSUME NEW c \in WireLike, ~ToNotify(c)'
               PROVE  state[c] = Target(c, state)
    BY <1>3 DEF WiresOwed, Consistent
  <2>1. c \in Component /\ Target(c, state) = Target(c, s0)
    BY <1>9 DEF WireLike
  <2>2. /\ \A i \in 1..Len(staged) : staged[i].comp = c => state[c] = Target(c, s0)
        /\ s0[c] # Target(c, s0) => Batched(c) \/ Staged(c)
    BY <1>2, <1>5 DEF StepFrom, WiresFollow
  <2>3. ~Batched(c)
    BY <1>1, NoneIn DEF Batched
  <2>4. CASE Staged(c)
    BY <2>1, <2>2, <2>4 DEF Staged
  <2>5. CASE ~Staged(c)
    BY <1>8, <2>1, <2>2, <2>3, <2>5 DEF Staged
  <2> QED
    BY <2>4, <2>5
<1>12. GatesOwed'
  <2> SUFFICES ASSUME NEW g \in Gate, pending[g].gen = 0, ~ToNotify(g)', ~ToRequeue(g)'
               PROVE  state[g] = Target(g, state)
    BY <1>3 DEF GatesOwed, Consistent
  <2>1. g \in Component /\ Target(g, state) = Target(g, s0)
    BY <1>9 DEF Gate
  <2>2. CASE Staged(g)
    <3>1. PICK i \in 1..Len(staged) : staged[i].comp = g
      BY <2>2 DEF Staged
    <3>2. staged[i].gate /\ staged[i].accepted
      BY <1>3, <1>4, <3>1 DEF ToRequeue
    <3>3. state[g] = staged[i].val
      BY <1>2, <1>5, <3>1, <3>2 DEF StepFrom, GatesShowVerdict
    <3>4. Target(g, state) = staged[i].val
      BY <1>1, <3>1, <3>2 DEF VerdictsStand, Supported
    <3> QED
      BY <3>3, <3>4
  <2>3. CASE ~Staged(g)
    <3>1. s0[g] = Target(g, s0)
      BY <1>2, <2>3 DEF StepFrom, IdleGatesWereConsistent
    <3>2. state[g] = s0[g]
      BY <1>8, <2>1, <2>3 DEF Staged
    <3> QED
      BY <2>1, <3>1, <3>2
  <2> QED
    BY <2>2, <2>3
<1>13. PendingOwed'
  <2> SUFFICES ASSUME NEW g \in Gate, pending[g].gen # 0, ~ToNotify(g)'
               PROVE  pending[g].val = Target(g, state) /\ state[g] # Target(g, state)
    BY <1>3 DEF PendingOwed, Consistent
  <2>1. g \in Component /\ Target(g, state) = Target(g, s0)
    BY <1>9 DEF Gate
  <2>2. state[g] = s0[g]
    BY <1>1, <1>4, <1>8, <2>1 DEF StagedNotPending
  <2> QED
    BY <1>2, <2>1, <2>2 DEF StepFrom, PendingWasRight
<1>14. ClocksOwed'
  <2> SUFFICES ASSUME NEW m \in Ram, ~ToNotify(m)'
               PROVE  prevClk[m] = ControlBit(m, "clk", state)
    BY <1>3 DEF ClocksOwed
  <2>1. ControlBit(m, "clk", state) = ControlBit(m, "clk", s0)
    <3>1. CASE Connected(m, "clk")
      <4> DEFINE d == Drivers[m]["clk"][1]
      <4>1. m \in Component /\ d \in Component /\ Drives(d, m)
        BY <3>1, DriverFacts DEF Ram, Memory, Connected, Port, Drives
      <4>2. state[d] = s0[d]
        BY <1>9, <4>1
      <4> QED
        BY <4>2 DEF ControlBit, PortState
    <3> QED
      BY <3>1 DEF ControlBit
  <2> QED
    BY <1>2, <2>1 DEF StepFrom, ClocksWereSeen
<1> QED
  BY <1>3, <1>6, <1>7, <1>10, <1>11, <1>12, <1>13, <1>14 DEF SettleInv, SettleInvWith, Owed

-----------------------------------------------------------------------------
(* Phase 2 of the loop *)

\* The parts of the invariant that hold by the phase alone.
LEMMA OutsideStep ==
  ASSUME ~InStep'
  PROVE  StagedNotPending' /\ AcceptedAtFirst' /\ VerdictsStand'
BY DEF InStep, StagedNotPending, AcceptedAtFirst, VerdictsStand

\* The next changed component.
LEMMA NextChangedKeeps ==
  ASSUME TypeOK, SettleInv, ~failed, NextChanged
  PROVE  SettleInv'
<1> DEFINE n == idx + 1
<1>1. /\ Shape /\ PendingQueued /\ StagedOnce /\ Owed
      /\ phase = "notify" /\ outs = <<>> /\ idx < Len(staged)
  BY DEF SettleInv, SettleInvWith, NextChanged, InStep
<1>2. /\ state' = state /\ queue' = queue /\ phase' = phase /\ idx' = n
      /\ outs' = IF Changed(staged[n]) THEN Outputs[staged[n].comp] ELSE <<>>
      /\ failed' = failed /\ batch' = batch /\ staged' = staged /\ pending' = pending
      /\ prevClk' = prevClk
  BY DEF NextChanged
<1>3. Len(staged) \in Nat /\ idx \in Nat
  BY StagedFacts
<1>4. ~InStep' /\ Shape' /\ StagedOnce'
  BY <1>1, <1>2 DEF Shape, StagedOnce, InStep
<1>5. PendingQueued' /\ WireEventsDue'
  BY <1>1, <1>2 DEF PendingQueued, PendingEvent, InQueue, InBatch, Owed, WireEventsDue
<1>6. ASSUME NEW c, ToNotify(c)
      PROVE  ToNotify(c)'
  <2>1. PICK i \in 1..Len(staged) : i > idx /\ Changed(staged[i]) /\ Listens(c, staged[i].comp)
    BY <1>1, <1>6, NoneIn DEF ToNotify
  <2>2. CASE i = n
    <3>1. outs' = Outputs[staged[i].comp]
      BY <1>2, <2>1, <2>2
    <3> QED
      BY <2>1, <3>1 DEF ToNotify, Listens
  <2>3. CASE i > n
    BY <1>1, <1>2, <2>1, <2>3 DEF ToNotify
  <2> QED
    BY <1>3, <2>1, <2>2, <2>3
<1>7. \A c : (ToRequeue(c) => ToRequeue(c)') /\ (Queued(c) => Queued(c)')
  BY <1>1, <1>2 DEF ToRequeue, Queued
<1>8. WiresOwed' /\ GatesOwed' /\ PendingOwed' /\ ClocksOwed'
  BY <1>1, <1>2, <1>6, <1>7
     DEF Owed, WiresOwed, GatesOwed, PendingOwed, ClocksOwed, Consistent
<1> QED
  BY <1>4, <1>5, <1>8, OutsideStep DEF SettleInv, SettleInvWith, Owed

\* One reader is told of a change.
LEMMA NotifyOutputKeeps ==
  ASSUME TypeOK, SettleInv, ~failed, NotifyOutput
  PROVE  SettleInv'
<1> DEFINE h == Head(outs)
<1>1. /\ Shape /\ PendingQueued /\ StagedOnce /\ Owed
      /\ phase = "notify" /\ outs # <<>> /\ Recalculate(h)
  BY DEF SettleInv, SettleInvWith, NotifyOutput, InStep
<1>2. /\ state' = state /\ phase' = phase /\ idx' = idx /\ outs' = Tail(outs)
      /\ failed' = failed /\ batch' = batch /\ staged' = staged
  BY DEF NotifyOutput
<1>3. /\ h \in Component /\ outs[1] = h
      /\ \A k \in 1..Len(outs) : k # 1 => k - 1 \in 1..Len(Tail(outs)) /\ Tail(outs)[k - 1] = outs[k]
  BY <1>1 DEF TypeOK
<1> HIDE DEF h
<1>4. /\ PendingQueued' /\ WireEventsDue'
      /\ \A x : Queued(x) => Queued(x)'
      /\ \A g \in Gate : pending'[g].gen = 0 => pending[g].gen = 0 \/ g = h
      /\ \A g \in Gate : g # h => pending'[g] = pending[g]
      /\ h \in Gate /\ pending'[h].gen = 0 => Consistent(h)
      /\ h \in Gate /\ pending'[h].gen # 0 =>
           pending'[h].val = Target(h, state) /\ ~Consistent(h)
      /\ \A x : x = h /\ x \in WireLike => Consistent(x) \/ Queued(x)'
      /\ \A m \in Ram : prevClk'[m] = IF m = h THEN ControlBit(m, "clk", state) ELSE prevClk[m]
  <2>1. \A c \in Component : c = h => Recalculate(c)
    BY <1>1
  <2>2. ASSUME NEW c \in Component, c = h
        PROVE  /\ PendingQueued' /\ WireEventsDue'
               /\ \A x : Queued(x) => Queued(x)'
               /\ \A g \in Gate : pending'[g].gen = 0 => pending[g].gen = 0 \/ g = c
               /\ \A g \in Gate : g # c => pending'[g] = pending[g]
               /\ c \in Gate /\ pending'[c].gen = 0 => Consistent(c)
               /\ c \in Gate /\ pending'[c].gen # 0 =>
                    pending'[c].val = Target(c, state) /\ ~Consistent(c)
               /\ c \in WireLike => Consistent(c) \/ Queued(c)'
               /\ \A m \in Ram :
                    prevClk'[m] = IF m = c THEN ControlBit(m, "clk", state) ELSE prevClk[m]
    BY <1>1, <1>2, <2>1, <2>2, EvaluationKeeps, ClockSeen DEF Owed
  <2> QED
    BY <1>3, <2>2
<1>5. ~InStep' /\ Shape' /\ StagedOnce'
  BY <1>1, <1>2 DEF Shape, StagedOnce, InStep
<1>6. ASSUME NEW c, ToNotify(c), c # h
      PROVE  ToNotify(c)'
  BY <1>2, <1>3, <1>6 DEF ToNotify
<1>7. \A c : ToRequeue(c) => ToRequeue(c)'
  BY <1>2 DEF ToRequeue
<1>8. WiresOwed'
  BY <1>1, <1>2, <1>4, <1>6 DEF Owed, WiresOwed, Consistent
<1>9. GatesOwed'
  BY <1>1, <1>2, <1>4, <1>6, <1>7 DEF Owed, GatesOwed, Consistent
<1>10. PendingOwed' /\ ClocksOwed'
  BY <1>1, <1>2, <1>4, <1>6 DEF Owed, PendingOwed, ClocksOwed, Consistent
<1> QED
  BY <1>4, <1>5, <1>8, <1>9, <1>10, OutsideStep DEF SettleInv, SettleInvWith, Owed

\* All readers have been told.
LEMMA NotifyDoneKeeps ==
  ASSUME TypeOK, SettleInv, ~failed, NotifyDone
  PROVE  SettleInv'
<1>1. /\ Shape /\ PendingQueued /\ StagedOnce /\ Owed
      /\ phase = "notify" /\ outs = <<>> /\ idx = Len(staged)
  BY DEF SettleInv, SettleInvWith, NotifyDone, InStep
<1>2. /\ state' = state /\ queue' = queue /\ phase' = "requeue" /\ idx' = 0 /\ outs' = outs
      /\ failed' = failed /\ batch' = batch /\ staged' = staged /\ pending' = pending
      /\ prevClk' = prevClk
  BY DEF NotifyDone
<1>3. ~InStep' /\ Shape' /\ StagedOnce'
  BY <1>1, <1>2 DEF Shape, StagedOnce, InStep
<1>4. PendingQueued' /\ WireEventsDue'
  BY <1>1, <1>2 DEF PendingQueued, PendingEvent, InQueue, InBatch, Owed, WireEventsDue
<1>5. \A c : ~ToNotify(c)
  BY <1>1, NoneIn, StagedFacts DEF ToNotify
<1>6. \A c : (ToRequeue(c) => ToRequeue(c)') /\ (Queued(c) => Queued(c)')
  BY <1>1, <1>2 DEF ToRequeue, Queued
<1>7. WiresOwed' /\ GatesOwed' /\ PendingOwed' /\ ClocksOwed'
  BY <1>1, <1>2, <1>5, <1>6
     DEF Owed, WiresOwed, GatesOwed, PendingOwed, ClocksOwed, Consistent
<1> QED
  BY <1>3, <1>4, <1>7, OutsideStep DEF SettleInv, SettleInvWith, Owed

\* A rejected gate is evaluated again.
LEMMA RequeueRejectedKeeps ==
  ASSUME TypeOK, SettleInv, ~failed, RequeueRejected
  PROVE  SettleInv'
<1> DEFINE n == idx + 1
           h == staged[n].comp
<1>1. /\ Shape /\ PendingQueued /\ StagedOnce /\ Owed
      /\ phase = "requeue" /\ outs = <<>> /\ idx < Len(staged) /\ Recalculate(h)
  BY DEF SettleInv, SettleInvWith, RequeueRejected, InStep, Shape
<1>2. /\ state' = state /\ phase' = phase /\ idx' = n /\ outs' = outs
      /\ failed' = failed /\ batch' = batch /\ staged' = staged
  BY DEF RequeueRejected
<1>3. Len(staged) \in Nat /\ idx \in Nat /\ h \in Component
  BY <1>1, StagedFacts
<1>4. ASSUME NEW c, ToRequeue(c)
      PROVE  c = h \/ ToRequeue(c)'
  <2>1. PICK i \in 1..Len(staged) : staged[i].comp = c /\ ~staged[i].accepted /\ i > idx
    BY <1>1, <1>4 DEF ToRequeue
  <2> QED
    BY <1>1, <1>2, <1>3, <2>1 DEF ToRequeue
<1> HIDE DEF h
<1>5. /\ PendingQueued' /\ WireEventsDue'
      /\ \A x : Queued(x) => Queued(x)'
      /\ \A g \in Gate : pending'[g].gen = 0 => pending[g].gen = 0 \/ g = h
      /\ \A g \in Gate : g # h => pending'[g] = pending[g]
      /\ h \in Gate /\ pending'[h].gen = 0 => Consistent(h)
      /\ h \in Gate /\ pending'[h].gen # 0 =>
           pending'[h].val = Target(h, state) /\ ~Consistent(h)
      /\ \A x : x = h /\ x \in WireLike => Consistent(x) \/ Queued(x)'
      /\ \A m \in Ram : prevClk'[m] = IF m = h THEN ControlBit(m, "clk", state) ELSE prevClk[m]
  <2>1. \A c \in Component : c = h => Recalculate(c)
    BY <1>1
  <2>2. ASSUME NEW c \in Component, c = h
        PROVE  /\ PendingQueued' /\ WireEventsDue'
               /\ \A x : Queued(x) => Queued(x)'
               /\ \A g \in Gate : pending'[g].gen = 0 => pending[g].gen = 0 \/ g = c
               /\ \A g \in Gate : g # c => pending'[g] = pending[g]
               /\ c \in Gate /\ pending'[c].gen = 0 => Consistent(c)
               /\ c \in Gate /\ pending'[c].gen # 0 =>
                    pending'[c].val = Target(c, state) /\ ~Consistent(c)
               /\ c \in WireLike => Consistent(c) \/ Queued(c)'
               /\ \A m \in Ram :
                    prevClk'[m] = IF m = c THEN ControlBit(m, "clk", state) ELSE prevClk[m]
    BY <1>1, <1>2, <2>1, <2>2, EvaluationKeeps, ClockSeen DEF Owed
  <2> QED
    BY <1>3, <2>2
<1>6. ~InStep' /\ Shape' /\ StagedOnce'
  BY <1>1, <1>2 DEF Shape, StagedOnce, InStep
<1>7. \A c : ~ToNotify(c)
  BY <1>1, NoneIn DEF ToNotify
<1>8. WiresOwed'
  BY <1>1, <1>2, <1>5, <1>7 DEF Owed, WiresOwed, Consistent
<1>9. GatesOwed'
  BY <1>1, <1>2, <1>4, <1>5, <1>7 DEF Owed, GatesOwed, Consistent
<1>10. PendingOwed' /\ ClocksOwed'
  BY <1>1, <1>2, <1>5, <1>7 DEF Owed, PendingOwed, ClocksOwed, Consistent
<1> QED
  BY <1>5, <1>6, <1>8, <1>9, <1>10, OutsideStep DEF SettleInv, SettleInvWith, Owed

\* An accepted one is not.
LEMMA SkipAcceptedKeeps ==
  ASSUME TypeOK, SettleInv, ~failed, SkipAccepted
  PROVE  SettleInv'
<1> DEFINE n == idx + 1
<1>1. /\ Shape /\ PendingQueued /\ StagedOnce /\ Owed
      /\ phase = "requeue" /\ outs = <<>> /\ staged[n].accepted
  BY DEF SettleInv, SettleInvWith, SkipAccepted, InStep, Shape
<1>2. /\ state' = state /\ queue' = queue /\ phase' = phase /\ idx' = n /\ outs' = outs
      /\ failed' = failed /\ batch' = batch /\ staged' = staged /\ pending' = pending
      /\ prevClk' = prevClk
  BY DEF SkipAccepted
<1>3. Len(staged) \in Nat /\ idx \in Nat
  BY StagedFacts
<1>4. ~InStep' /\ Shape' /\ StagedOnce'
  BY <1>1, <1>2 DEF Shape, StagedOnce, InStep
<1>5. PendingQueued' /\ WireEventsDue'
  BY <1>1, <1>2 DEF PendingQueued, PendingEvent, InQueue, InBatch, Owed, WireEventsDue
<1>6. ASSUME NEW c, ToRequeue(c)
      PROVE  ToRequeue(c)'
  <2>1. PICK i \in 1..Len(staged) : staged[i].comp = c /\ ~staged[i].accepted /\ i > idx
    BY <1>1, <1>6 DEF ToRequeue
  <2>2. i > n
    BY <1>1, <1>3, <2>1
  <2> QED
    BY <1>1, <1>2, <2>1, <2>2 DEF ToRequeue
<1>7. \A c : ~ToNotify(c) /\ (Queued(c) => Queued(c)')
  BY <1>1, <1>2, NoneIn DEF ToNotify, Queued
<1>8. WiresOwed' /\ GatesOwed' /\ PendingOwed' /\ ClocksOwed'
  BY <1>1, <1>2, <1>6, <1>7
     DEF Owed, WiresOwed, GatesOwed, PendingOwed, ClocksOwed, Consistent
<1> QED
  BY <1>4, <1>5, <1>8, OutsideStep DEF SettleInv, SettleInvWith, Owed

\* The timestamp ends.
LEMMA EndStepKeeps ==
  ASSUME TypeOK, SettleInv, ~failed, EndStep
  PROVE  SettleInv'
<1>1. /\ Shape /\ PendingQueued /\ Owed
      /\ phase = "requeue" /\ outs = <<>> /\ idx = Len(staged)
  BY DEF SettleInv, SettleInvWith, EndStep, InStep, Shape
<1>2. /\ state' = state /\ queue' = queue /\ phase' = "next" /\ idx' = 0 /\ outs' = outs
      /\ failed' = failed /\ batch' = batch /\ staged' = <<>> /\ pending' = pending
      /\ prevClk' = prevClk
  BY DEF EndStep
<1>3. ~InStep' /\ Shape' /\ StagedOnce'
  BY <1>1, <1>2, NoneIn DEF Shape, StagedOnce, InStep
<1>4. PendingQueued' /\ WireEventsDue'
  BY <1>1, <1>2 DEF PendingQueued, PendingEvent, InQueue, InBatch, Owed, WireEventsDue
<1>5. \A c : ~ToNotify(c) /\ ~ToRequeue(c) /\ (Queued(c) => Queued(c)')
  BY <1>1, <1>2, NoneIn, StagedFacts DEF ToNotify, ToRequeue, Queued
<1>6. WiresOwed' /\ GatesOwed' /\ PendingOwed' /\ ClocksOwed'
  BY <1>1, <1>2, <1>5
     DEF Owed, WiresOwed, GatesOwed, PendingOwed, ClocksOwed, Consistent
<1> QED
  BY <1>3, <1>4, <1>6, OutsideStep DEF SettleInv, SettleInvWith, Owed

\* Propagation returns with the queue empty.
LEMMA ReturnKeeps ==
  ASSUME TypeOK, SettleInv, ~failed, Return
  PROVE  SettleInv'
<1>1. /\ Shape /\ PendingQueued /\ Owed /\ phase = "next" /\ staged = <<>> /\ QueueEmpty
  BY DEF SettleInv, SettleInvWith, Return, InStep, Shape
<1>2. /\ state' = state /\ queue' = queue /\ phase' = "idle" /\ idx' = idx /\ outs' = outs
      /\ failed' = failed /\ batch' = batch /\ staged' = staged /\ pending' = pending
      /\ prevClk' = prevClk
  BY DEF Return, step
<1>3. ~InStep' /\ Shape' /\ StagedOnce'
  BY <1>1, <1>2, NoneIn DEF Shape, StagedOnce, InStep, QueueEmpty
<1>4. PendingQueued' /\ WireEventsDue'
  BY <1>1, <1>2 DEF PendingQueued, PendingEvent, InQueue, InBatch, Owed, WireEventsDue
<1>6. WiresOwed' /\ GatesOwed' /\ PendingOwed' /\ ClocksOwed'
  BY <1>1, <1>2, NoneIn
     DEF Owed, WiresOwed, GatesOwed, PendingOwed, ClocksOwed, Consistent, ToNotify, ToRequeue, Queued
<1> QED
  BY <1>3, <1>4, <1>6, OutsideStep DEF SettleInv, SettleInvWith, Owed

-----------------------------------------------------------------------------
\* The circuit as it is initialised.
LEMMA InitSettle == Init => SettleInv
<1> SUFFICES ASSUME Init
             PROVE  SettleInv
  OBVIOUS
<1>1. /\ phase = "idle" /\ staged = <<>> /\ batch = <<>> /\ outs = <<>> /\ idx = 0
      /\ \A d \in Delay : queue[d] = <<>>
      /\ \A c \in Component : state[c] = Undefined(Width[c]) /\ pending[c].gen = 0
      /\ \A m \in Memory : prevClk[m] = "X"
  BY DEF Init, NoQueue
<1>2. ~InStep /\ Shape /\ StagedOnce
  BY <1>1, NoneIn DEF InStep, Shape, StagedOnce, QueueEmpty
<1>3. StagedNotPending /\ AcceptedAtFirst /\ VerdictsStand
  BY <1>1, <1>2 DEF StagedNotPending, AcceptedAtFirst, VerdictsStand
<1>4. PendingQueued
  BY <1>1 DEF PendingQueued, Gate
<1>5. WireEventsDue
  BY <1>1, NoneIn DEF WireEventsDue
<1>6. \A c \in Component : Consistent(c)
  BY <1>1, UndefinedTarget DEF Consistent
<1>7. WiresOwed /\ GatesOwed
  BY <1>6 DEF WiresOwed, GatesOwed, WireLike, Gate
<1>8. PendingOwed
  BY <1>1 DEF PendingOwed, Gate
<1>9. ClocksOwed
  <2> SUFFICES ASSUME NEW m \in Ram
               PROVE  ControlBit(m, "clk", state) = "X"
    BY <1>1 DEF ClocksOwed, Ram
  <2>1. CASE Connected(m, "clk")
    <3>1. 1 \in 1..Len(Drivers[m]["clk"]) /\ Drivers[m]["clk"][1] \in Component
      BY <2>1, DriverFacts DEF Ram, Memory, Connected, Port
    <3>2. 1 \in 1..Width[Drivers[m]["clk"][1]]
      BY <3>1, WidthFacts
    <3> QED
      BY <1>1, <2>1, <3>1, <3>2, UndefinedBit DEF ControlBit, PortState
  <2> QED
    BY <2>1 DEF ControlBit
<1> QED
  BY <1>2, <1>3, <1>4, <1>5, <1>7, <1>8, <1>9 DEF SettleInv, SettleInvWith, Owed

\* Every step of the engine.
LEMMA StepSettle ==
  ASSUME TypeOK, SettleInv, [Next]_vars
  PROVE  SettleInv'
<1>1. CASE failed
  <2>1. failed' = failed
    BY <1>1 DEF Next, HostCall, Drive, MemoryWriteWord, MemoryClear, MemoryLoadImage, SetPlane,
       Callable, Propagate, Advance, Return, PopLive, PopStale, StageDone, Project,
       StartValidation, ValidateWave, Commit, NextChanged, NotifyOutput, NotifyDone,
       RequeueRejected, SkipAccepted, EndStep, NoSettle, vars
  <2> QED
    BY <1>1, <2>1 DEF SettleInv, SettleInvWith
<1>2. CASE ~failed /\ HostCall
  BY <1>2, HostCallKeeps
<1>3. CASE ~failed /\ Propagate
  <2>1. CASE NoSettle
    BY <2>1 DEF NoSettle, SettleInv, SettleInvWith
  <2> QED
    BY <1>3, <2>1, AdvanceKeeps, ReturnKeeps, PopLiveKeeps, PopStaleKeeps, StageDoneKeeps,
       ProjectKeeps, StartValidationKeeps, ValidateWaveKeeps, CommitKeeps, NextChangedKeeps,
       NotifyOutputKeeps, NotifyDoneKeeps, RequeueRejectedKeeps, SkipAcceptedKeeps, EndStepKeeps
       DEF Propagate
<1>4. CASE UNCHANGED vars
  BY <1>4 DEF vars, step, SettleInv, SettleInvWith, Shape, QueueEmpty, PendingQueued, InQueue, InBatch,
     PendingEvent, StagedOnce, StagedNotPending, InStep, AcceptedAtFirst, VerdictsStand,
     Supported, StepFrom, ChangesAreStaged, GatesShowVerdict, FirstRemembers,
     IdleGatesWereConsistent, PendingWasRight, WiresFollow, ClocksWereSeen, IsProjected,
     Batched, Staged, Queued, Owed, WireEventsDue, WiresOwed, GatesOwed, PendingOwed,
     ClocksOwed, ToNotify, ToRequeue, Consistent
<1> QED
  BY <1>1, <1>2, <1>3, <1>4 DEF Next

\* At rest every component is what its inputs ask for.
LEMMA SettleInvSettled == SettleInv => SettledConsistent
<1> SUFFICES ASSUME SettleInv, phase = "idle", ~failed, NEW c \in Gate \cup WireLike
             PROVE  Consistent(c)
  BY DEF SettledConsistent
<1>1. Shape /\ PendingQueued /\ Owed /\ ~InStep
  BY DEF SettleInv, SettleInvWith, InStep
<1>2. staged = <<>> /\ outs = <<>> /\ batch = <<>> /\ \A d \in Delay : queue[d] = <<>>
  BY <1>1 DEF Shape, QueueEmpty
<1>3. ~ToNotify(c) /\ ~ToRequeue(c) /\ ~Queued(c)
  BY <1>2, NoneIn DEF ToNotify, ToRequeue, Queued
<1>4. CASE c \in WireLike
  BY <1>1, <1>3, <1>4 DEF Owed, WiresOwed
<1>5. CASE c \in Gate
  <2>1. pending[c].gen = 0
    BY <1>1, <1>2, <1>5, NoneIn DEF PendingQueued, InQueue, InBatch
  <2> QED
    BY <1>1, <1>3, <1>5, <2>1 DEF Owed, GatesOwed
<1> QED
  BY <1>4, <1>5

(***************************************************************************)
(* The invariant of EngineInvariant: at every point inside propagate(), a  *)
(* component that disagrees with its drivers is owed an event, an          *)
(* evaluation or a place in the batch.                                     *)
(***************************************************************************)
THEOREM SettleInvariant == Spec => []SettleInv
<1>1. Init => SettleInv
  BY InitSettle
<1>2. TypeOK /\ SettleInv /\ [Next]_vars => SettleInv'
  BY StepSettle
<1> QED
  BY <1>1, <1>2, TypeCorrect, PTL DEF Spec

(***************************************************************************)
(* A circuit never settles wrong: whenever propagate() has returned        *)
(* without NoSettle, every gate and every wire-like component holds the    *)
(* value its drivers give it.  No corrective event is lost to the dedup,   *)
(* to a cancellation, to a stale generation or to a rejected candidate.    *)
(***************************************************************************)
THEOREM Settles == Spec => []SettledConsistent
<1>1. SettleInv => SettledConsistent
  BY SettleInvSettled
<1> QED
  BY <1>1, SettleInvariant, PTL

-----------------------------------------------------------------------------
(* The witness of SettleInv, and what it says between two timestamps *)

\* A set of positions that is not empty has a first one.
LEMMA FirstPosition ==
  ASSUME NEW T \in SUBSET Nat, T # {}
  PROVE  \E m \in T : \A n \in T : m <= n
<1> DEFINE R == OpToRel(<, Nat)
<1>1. IsWellFoundedOn(R, Nat)
  BY NatLessThanWellFounded
<1> HIDE DEF R
<1>2. PICK m \in T : \A n \in T : <<n, m>> \notin R
  BY <1>1, WFMin
<1>3. \A n \in T : n < m => <<n, m>> \in R
  BY DEF R, OpToRel
<1>4. \A n \in T : ~(n < m)
  BY <1>2, <1>3
<1>5. m \in Nat /\ \A n \in T : n \in Nat
  OBVIOUS
<1> QED
  BY <1>4, <1>5

\* The pool before the timestamp can be read off the candidates: what the first of a
\* component overwrote, and the pool for a component without one.
LEMMA OnlyBefore ==
  ASSUME TypeOK, NEW s0 \in Pool, StepFrom(s0)
  PROVE  Before = s0
<1> DEFINE first(c) == {i \in 1..Len(staged) : /\ IsProjected(i) /\ staged[i].comp = c
                                              /\ \A j \in 1..(i - 1) : staged[j].comp # c}
<1>1. Before = [c \in Component |->
                  IF first(c) = {} THEN state[c] ELSE staged[CHOOSE i \in first(c) : TRUE].old]
  BY DEF Before
<1>2. s0 = [c \in Component |-> s0[c]]
  BY DEF Pool
<1>3. ASSUME NEW c \in Component, first(c) # {}
      PROVE  staged[CHOOSE i \in first(c) : TRUE].old = s0[c]
  <2>1. (CHOOSE i \in first(c) : TRUE) \in first(c)
    BY <1>3
  <2> QED
    BY <2>1 DEF StepFrom, FirstRemembers
<1>4. ASSUME NEW c \in Component, first(c) = {}
      PROVE  state[c] = s0[c]
  <2> SUFFICES ASSUME state[c] # s0[c]
               PROVE  FALSE
    OBVIOUS
  <2> DEFINE T == {i \in 1..Len(staged) : IsProjected(i) /\ staged[i].comp = c}
  <2>1. T \in SUBSET Nat /\ T # {}
    BY DEF StepFrom, ChangesAreStaged
  <2>2. PICK m \in T : \A n \in T : m <= n
    BY <2>1, FirstPosition
  <2>3. \A j \in 1..(m - 1) : j \in 1..Len(staged) /\ IsProjected(j) /\ j \notin T
    <3>1. Len(staged) \in Nat /\ idx \in Nat
      BY StagedFacts
    <3> QED
      BY <2>2, <3>1 DEF IsProjected
  <2>4. m \in first(c)
    BY <2>2, <2>3
  <2> QED
    BY <1>4, <2>4
<1> HIDE DEF first
<1>5. \A c \in Component :
        (IF first(c) = {} THEN state[c] ELSE staged[CHOOSE i \in first(c) : TRUE].old) = s0[c]
  BY <1>3, <1>4
<1> QED
  BY <1>1, <1>2, <1>5

\* Nothing a change owes is ever forgotten.
LEMMA SettleInvLosesNothing == TypeOK /\ SettleInv => NothingIsLost
<1> SUFFICES ASSUME TypeOK, SettleInv, ~failed
             PROVE  /\ Shape /\ PendingQueued /\ StagedOnce /\ StagedNotPending
                    /\ AcceptedAtFirst /\ VerdictsStand
                    /\ InStep => \E s0 \in {Before} : StepFrom(s0)
                    /\ ~InStep => Owed
  BY DEF NothingIsLost, SettleInvWith
<1>1. ASSUME InStep
      PROVE  \E s0 \in {Before} : StepFrom(s0)
  <2>1. PICK s0 \in Pool : StepFrom(s0)
    BY <1>1 DEF SettleInv, SettleInvWith
  <2> QED
    BY <2>1, OnlyBefore
<1> QED
  BY <1>1 DEF SettleInv, SettleInvWith

\* What is pending for a gate is its target.
LEMMA SettleInvTracks == TypeOK /\ SettleInv => QueueTracksTargets
<1> SUFFICES ASSUME TypeOK, SettleInv, phase \in {"idle", "next"}, ~failed
             PROVE  /\ \A g \in Gate :
                         /\ pending[g].gen = 0 <=> Consistent(g)
                         /\ pending[g].gen # 0 =>
                              /\ pending[g].val = Target(g, state)
                              /\ \E d \in Delay : \E i \in Scheduled(g, d) : Live(queue[d][i])
                    /\ \A c \in WireLike :
                         /\ \A d \in Delay : \A i \in Scheduled(c, d) :
                              d = WireDelay /\ queue[d][i].val = Target(c, state)
                         /\ ~Consistent(c) => Scheduled(c, WireDelay) # {}
  BY DEF QueueTracksTargets, PendingTracksTarget, TransportTracksTarget
<1>1. Shape /\ PendingQueued /\ Owed /\ ~InStep
  BY DEF SettleInv, SettleInvWith, InStep
<1>2. staged = <<>> /\ outs = <<>> /\ batch = <<>>
  BY <1>1 DEF Shape
<1>3. \A c : ~ToNotify(c) /\ ~ToRequeue(c)
  BY <1>2, NoneIn DEF ToNotify, ToRequeue
<1>4. \A d \in Delay : DOMAIN queue[d] = 1..Len(queue[d])
  BY DEF TypeOK
<1>5. ASSUME NEW g \in Gate, pending[g].gen # 0
      PROVE  \E d \in Delay : \E i \in Scheduled(g, d) : Live(queue[d][i])
  <2>1. InQueue(PendingEvent(g))
    BY <1>1, <1>2, <1>5, NoneIn DEF PendingQueued, InBatch
  <2>2. PICK d \in Delay : \E i \in 1..Len(queue[d]) : queue[d][i] = PendingEvent(g)
    BY <2>1 DEF InQueue
  <2>3. pending[g] = [gen |-> pending[g].gen, val |-> pending[g].val]
    BY DEF TypeOK, Gate
  <2> QED
    BY <1>4, <2>2, <2>3 DEF Scheduled, PendingEvent, Live
<1>6. \A g \in Gate : /\ pending[g].gen = 0 <=> Consistent(g)
                      /\ pending[g].gen # 0 => pending[g].val = Target(g, state)
  BY <1>1, <1>3 DEF Owed, GatesOwed, PendingOwed
<1>7. ASSUME NEW c \in WireLike
      PROVE  /\ \A d \in Delay : \A i \in Scheduled(c, d) :
                  d = WireDelay /\ queue[d][i].val = Target(c, state)
             /\ ~Consistent(c) => Scheduled(c, WireDelay) # {}
  <2>1. \A d \in Delay : \A i \in Scheduled(c, d) :
          d = WireDelay /\ queue[d][i].val = Target(c, state)
    BY <1>1, <1>4 DEF Owed, WireEventsDue, Scheduled
  <2>2. Consistent(c) \/ Queued(c)
    BY <1>1, <1>3 DEF Owed, WiresOwed
  <2> QED
    BY <1>4, <2>1, <2>2 DEF Queued, Scheduled
<1> QED
  BY <1>5, <1>6, <1>7

(***************************************************************************)
(* NothingIsLost: while a timestamp is processed, the pool before it can   *)
(* be read off the candidates, and every gate and wire-like component that *)
(* will disagree with its drivers after the commit has a place in the      *)
(* batch; afterwards it is owed an evaluation or an event.                 *)
(***************************************************************************)
THEOREM LosesNothing == Spec => []NothingIsLost
<1>1. TypeOK /\ SettleInv => NothingIsLost
  BY SettleInvLosesNothing
<1> QED
  BY <1>1, TypeCorrect, SettleInvariant, PTL

(***************************************************************************)
(* Between two timestamps the queue and the pending transitions of the     *)
(* gates hold what every gate and every wire has still to become, and no   *)
(* more: nothing scheduleInertial or scheduleTransport left there is out   *)
(* of date.                                                                *)
(***************************************************************************)
THEOREM TracksTargets == Spec => []QueueTracksTargets
<1>1. TypeOK /\ SettleInv => QueueTracksTargets
  BY SettleInvTracks
<1> QED
  BY <1>1, TypeCorrect, SettleInvariant, PTL

-----------------------------------------------------------------------------
(* A failed circuit does nothing more *)

\* Once a settle has failed no step changes anything.
LEMMA FailedStutters ==
  ASSUME TypeOK, PinInv, failed, [Next]_vars
  PROVE  UNCHANGED vars
<1>1. phase = "idle" /\ remaining \in Nat
  BY DEF PinInv, TypeOK
<1>2. ~HostCall
  BY DEF HostCall, Drive, MemoryWriteWord, MemoryClear, MemoryLoadImage, Callable
<1>3. WorkNeeded = 0
  BY <1>1 DEF WorkNeeded
<1>4. ~NoSettle
  BY <1>1, <1>3 DEF NoSettle
<1>5. ~Propagate
  BY <1>1, <1>4 DEF Propagate, Advance, Return, PopLive, PopStale, StageDone, Project,
     StartValidation, ValidateWave, Commit, NextChanged, NotifyOutput, NotifyDone,
     RequeueRejected, SkipAccepted, EndStep
<1> QED
  BY <1>2, <1>5 DEF Next

-----------------------------------------------------------------------------
(* The pins the host drives *)

\* Evaluating a component schedules nothing for a host pin.
LEMMA PinsAreLeftAlone ==
  ASSUME TypeOK, NEW c \in Component, Recalculate(c)
  PROVE  \A d \in Delay : \A i \in 1..Len(queue'[d]) :
           \/ i \in 1..Len(queue[d]) /\ queue'[d][i] = queue[d][i]
           \/ queue'[d][i].comp \notin HostPin
<1>1. OnlyFor(c)
  BY Evaluated
<1>2. CASE c \in HostPin
  <2>1. Undriven(c) /\ c \notin Memory /\ c \notin Gate
    BY <1>2, KindsApart, EngineAssumption, PinAssumption DEF EngineAssumption, Undriven
  <2>2. queue' = queue
    BY <2>1 DEF Recalculate
  <2> QED
    BY <2>2
<1>3. CASE c \notin HostPin
  BY <1>1, <1>3 DEF OnlyFor
<1> QED
  BY <1>2, <1>3

\* propagateEvent: the queue was empty, and holds the value driven.
LEMMA HostEventPins ==
  ASSUME TypeOK, SettleInv, PinInv, Callable, NEW c \in Component, NEW v \in State(Width[c]),
         PropagateEvent(c, v), UNCHANGED <<state, step, failed>>
  PROVE  PinInv'
<1>1. /\ phase = "idle" /\ ~failed /\ call = NoCall /\ OnlyTheCallDrivesPins
      /\ staged = <<>> /\ batch = <<>> /\ \A d \in Delay : queue[d] = <<>>
  BY DEF Callable, PinInv, SettleInv, SettleInvWith, Shape, QueueEmpty
<1>2. state' = state /\ batch' = batch /\ staged' = staged /\ idx' = idx /\ failed' = failed
  BY DEF step
<1>3. CASE state[c] = v
  <2>1. queue' = queue /\ phase' = phase /\ call' = call
    BY <1>3 DEF PropagateEvent
  <2> QED
    BY <1>1, <1>2, <2>1, NoneIn DEF PinInv, OnlyTheCallDrivesPins, CallArrives
<1>4. CASE state[c] # v
  <2> DEFINE e == [comp |-> c, val |-> v, gen |-> 0]
  <2>1. e \in Event /\ e.comp = c /\ e.val = v
    BY AnyStateType DEF Event
  <2>2. /\ queue' = [queue EXCEPT ![GateDelay] = Append(@, e)]
        /\ phase' = "next" /\ call' = <<c, v>>
    BY <1>4 DEF PropagateEvent
  <2>3. queue \in [Delay -> Seq(Event)] /\ GateDelay \in Delay
    BY DelayFacts DEF TypeOK
  <2> HIDE DEF e
  <2>4. /\ \A d \in Delay : \A i \in 1..Len(queue'[d]) : queue'[d][i] = e
        /\ \E i \in 1..Len(queue'[GateDelay]) : queue'[GateDelay][i] = e
    BY <1>1, <2>1, <2>2, <2>3, Added, NoneIn
  <2>5. call' # NoCall /\ call'[1] = c /\ call'[2] = v
    BY <2>2 DEF NoCall
  <2>6. OnlyTheCallDrivesPins'
    BY <1>1, <1>2, <2>1, <2>4, <2>5, NoneIn DEF OnlyTheCallDrivesPins, PinEvent
  <2>7. CallArrives'
    BY <2>1, <2>3, <2>4, <2>5 DEF CallArrives, Queued
  <2> QED
    BY <1>1, <1>2, <2>2, <2>6, <2>7 DEF PinInv
<1> QED
  BY <1>3, <1>4

\* A host call owes its pin the value it was called with.
LEMMA HostCallPins ==
  ASSUME TypeOK, SettleInv, PinInv, HostCall
  PROVE  PinInv'
<1>1. PICK c \in HostPin \cup Memory : \E v \in State(Width[c]) : HostEvent(c, v)
  BY HostCallCases
<1>2. PICK v \in State(Width[c]) : HostEvent(c, v)
  BY <1>1
<1> QED
  BY <1>2, HostSchedules, HostEventPins DEF HostEvent

-----------------------------------------------------------------------------
(* The steps of propagate() *)

\* Inside the loop the value is on its way for as long as its event is somewhere.
LEMMA AdvancePins ==
  ASSUME TypeOK, SettleInv, PinInv, Advance
  PROVE  PinInv'
<1> DEFINE E == EarliestDue
<1>1. /\ phase = "next" /\ ~failed /\ staged = <<>> /\ batch = <<>>
      /\ OnlyTheCallDrivesPins /\ CallArrives
  BY DEF Advance, PinInv, SettleInv, SettleInvWith, Shape
<1>2. /\ state' = state /\ staged' = staged /\ failed' = failed /\ call' = call /\ phase' = "pop"
      /\ batch' = queue[E] /\ queue' = Shifted(queue, E)
  BY DEF Advance
<1>3. E \in Delay /\ \A d \in Delay : queue[d] # <<>> => E <= d
  BY EarliestDueFacts DEF Advance
<1> HIDE DEF E
<1>4. \A d \in Delay : \A i \in 1..Len(queue'[d]) :
        d + E \in Delay /\ i \in 1..Len(queue[d + E]) /\ queue'[d][i] = queue[d + E][i]
  BY <1>2, NoneIn DEF Shifted
<1>5. OnlyTheCallDrivesPins'
  <2>1. \A d \in Delay : \A i \in 1..Len(queue'[d]) : PinEvent(queue[d][i])'
    BY <1>1, <1>2, <1>4 DEF OnlyTheCallDrivesPins, PinEvent
  <2>2. \A i \in 1..Len(batch') : PinEvent(batch[i])'
    BY <1>1, <1>2, <1>3 DEF OnlyTheCallDrivesPins, PinEvent
  <2> QED
    BY <1>1, <1>2, <2>1, <2>2, NoneIn DEF OnlyTheCallDrivesPins
<1>6. CallArrives'
  <2> SUFFICES ASSUME call # NoCall, call[1] \in HostPin, state[call[1]] # call[2]
               PROVE  Queued(call[1])' \/ Batched(call[1])'
    BY <1>2 DEF CallArrives, Queued, Batched
  <2>1. Queued(call[1])
    BY <1>1, NoneIn DEF CallArrives, Batched, Unprojected
  <2>2. PICK d \in Delay : \E i \in 1..Len(queue[d]) : queue[d][i].comp = call[1]
    BY <2>1 DEF Queued
  <2>3. CASE d = E
    BY <1>2, <2>2, <2>3 DEF Batched
  <2>4. CASE d # E
    <3>1. E < d
      BY <1>3, <2>2, <2>4, NoneIn DEF Delay, GateDelay
    <3>2. d - E \in Delay /\ (d - E) + E = d
      BY <1>3, <3>1 DEF Delay, GateDelay
    <3>3. queue'[d - E] = queue[d]
      BY <1>2, <3>2 DEF Shifted
    <3> QED
      BY <1>2, <2>2, <3>2, <3>3 DEF Queued
  <2> QED
    BY <2>3, <2>4
<1> QED
  BY <1>1, <1>2, <1>5, <1>6 DEF PinInv

\* Staging an event leaves the pins as they are.
LEMMA PopPins ==
  ASSUME TypeOK, SettleInv, PinInv, PopLive \/ PopStale
  PROVE  PinInv'
<1> DEFINE e == Head(batch)
<1>1. /\ phase = "pop" /\ ~failed /\ batch # <<>> /\ idx = 0
      /\ OnlyTheCallDrivesPins /\ CallArrives
  BY DEF PopLive, PopStale, PinInv, SettleInv, SettleInvWith, Shape
<1>2. /\ state' = state /\ queue' = queue /\ phase' = phase /\ idx' = idx /\ failed' = failed
      /\ call' = call /\ batch' = Tail(batch)
      /\ \/ staged' = Append(staged, Candidate(e))
         \/ staged' = staged /\ ~Live(e)
  BY DEF PopLive, PopStale
<1>3. /\ 1 \in 1..Len(batch) /\ batch[1] = e /\ (e.gen # 0 <=> e.comp \in Gate)
      /\ \A i \in 1..Len(batch) : i # 1 =>
           i - 1 \in 1..Len(Tail(batch)) /\ Tail(batch)[i - 1] = batch[i]
      /\ \A i \in 1..Len(Tail(batch)) : i + 1 \in 1..Len(batch) /\ Tail(batch)[i] = batch[i + 1]
  BY <1>1, TailEvents, BatchFacts DEF TypeOK
<1>4. staged \in Seq(StagedEvent) /\ Len(staged) \in Nat
  BY StagedFacts
<1>5. PinEvent(e) /\ PinEvent(Candidate(e)) /\ Candidate(e).comp = e.comp
  BY <1>1, <1>3 DEF OnlyTheCallDrivesPins, PinEvent, Candidate
<1>6. Live(e) \/ e.comp \notin HostPin
  BY <1>3, KindsApart DEF Live
<1> HIDE DEF e
<1>7. \A i \in 1..Len(staged) : i \in 1..Len(staged') /\ staged'[i] = staged[i]
  BY <1>2, <1>4
<1>8. \A i \in 1..Len(staged') : i \in 1..Len(staged) \/ staged'[i] = Candidate(e)
  BY <1>2, <1>4
<1>9. OnlyTheCallDrivesPins'
  BY <1>1, <1>2, <1>3, <1>5, <1>7, <1>8 DEF OnlyTheCallDrivesPins, PinEvent
<1>10. CallArrives'
  <2> SUFFICES ASSUME call # NoCall, call[1] \in HostPin
               PROVE  \/ state[call[1]] = call[2] \/ Queued(call[1])
                      \/ Batched(call[1])' \/ Unprojected(call[1])'
    BY <1>2 DEF CallArrives, Queued
  <2>1. CASE Unprojected(call[1])
    BY <1>2, <1>7, <2>1 DEF Unprojected
  <2>2. CASE Batched(call[1])
    <3>1. PICK i \in 1..Len(batch) : batch[i].comp = call[1]
      BY <2>2 DEF Batched
    <3>2. CASE i # 1
      BY <1>2, <1>3, <3>1, <3>2 DEF Batched
    <3>3. CASE i = 1
      <4>1. staged' = Append(staged, Candidate(e)) /\ e.comp = call[1]
        BY <1>2, <1>3, <1>6, <3>1, <3>3
      <4>2. Len(staged) + 1 \in 1..Len(staged') /\ staged'[Len(staged) + 1] = Candidate(e)
        BY <1>4, <4>1
      <4> QED
        BY <1>1, <1>2, <1>4, <1>5, <4>1, <4>2 DEF Unprojected
    <3> QED
      BY <3>2, <3>3
  <2> QED
    BY <1>1, <2>1, <2>2 DEF CallArrives
<1> QED
  BY <1>1, <1>2, <1>9, <1>10 DEF PinInv

\* The pool of a pin changes to what the host asked for, or not at all.
LEMMA ProjectPins ==
  ASSUME TypeOK, SettleInv, PinInv, Project
  PROVE  PinInv' /\ \A p \in HostPin : state'[p] = state[p] \/ (call # NoCall /\ call[1] = p)
<1> DEFINE k == idx + 1
<1>1. /\ phase = "project" /\ idx < Len(staged) /\ ~failed /\ batch = <<>>
      /\ OnlyTheCallDrivesPins /\ CallArrives
  BY DEF Project, PinInv, SettleInv, SettleInvWith, Shape
<1>2. /\ staged' = [staged EXCEPT ![k] = Projected(@)]
      /\ state' = [state EXCEPT ![staged[k].comp] = staged[k].val]
      /\ idx' = k /\ queue' = queue /\ phase' = phase /\ batch' = batch /\ call' = call
      /\ failed' = failed
  BY DEF Project
<1>3. /\ staged \in Seq(StagedEvent) /\ Len(staged) \in Nat /\ idx \in Nat
      /\ k \in 1..Len(staged) /\ staged[k].comp \in Component
  BY <1>1, StagedFacts
<1>4. PinEvent(staged[k])
  BY <1>1, <1>3 DEF OnlyTheCallDrivesPins
<1> HIDE DEF k
<1>5. Len(staged') = Len(staged) /\ \A i \in 1..Len(staged) :
        staged'[i].comp = staged[i].comp /\ staged'[i].val = staged[i].val
  BY <1>2, <1>3 DEF Projected
<1>6. /\ \A c \in Component : c # staged[k].comp => state'[c] = state[c]
      /\ state'[staged[k].comp] = staged[k].val
  BY <1>2, <1>3 DEF TypeOK, Pool
<1>7. OnlyTheCallDrivesPins'
  BY <1>1, <1>2, <1>5, NoneIn DEF OnlyTheCallDrivesPins, PinEvent
<1>8. CallArrives'
  <2> SUFFICES ASSUME call # NoCall, call[1] \in HostPin
               PROVE  state'[call[1]] = call[2] \/ Queued(call[1]) \/ Unprojected(call[1])'
    BY <1>2 DEF CallArrives, Queued
  <2>1. CASE staged[k].comp = call[1]
    BY <1>4, <1>6, <2>1 DEF PinEvent
  <2>2. CASE staged[k].comp # call[1]
    <3>1. state'[call[1]] = state[call[1]]
      BY <1>6, <2>2, KindsApart
    <3>2. Unprojected(call[1]) => Unprojected(call[1])'
      <4> SUFFICES ASSUME NEW i \in 1..Len(staged), i > idx, staged[i].comp = call[1]
                   PROVE  i > idx'
        BY <1>1, <1>2, <1>5 DEF Unprojected
      <4> QED
        BY <1>2, <1>3, <2>2 DEF k
    <3> QED
      BY <1>1, <3>1, <3>2, NoneIn DEF CallArrives, Batched
  <2> QED
    BY <2>1, <2>2
<1>9. \A p \in HostPin : state'[p] = state[p] \/ (call # NoCall /\ call[1] = p)
  BY <1>4, <1>6, KindsApart DEF PinEvent
<1> QED
  BY <1>1, <1>2, <1>7, <1>8, <1>9 DEF PinInv

\* A verdict is only written to gates.
LEMMA WavePins ==
  ASSUME TypeOK, SettleInv, PinInv, ValidateWave
  PROVE  PinInv' /\ \A p \in HostPin : state'[p] = state[p]
<1>1. /\ phase = "validate" /\ ~failed /\ OnlyTheCallDrivesPins /\ CallArrives
  BY DEF ValidateWave, PinInv
<1>2. /\ staged' = [i \in DOMAIN staged |->
                      IF i \in Flips THEN Reversed(staged[i]) ELSE staged[i]]
      /\ state' = [c \in Component |-> FlippedState(c)]
      /\ queue' = queue /\ phase' = phase /\ batch' = batch /\ call' = call /\ failed' = failed
  BY DEF ValidateWave
<1>3. /\ staged \in Seq(StagedEvent) /\ Len(staged) \in Nat /\ DOMAIN staged = 1..Len(staged)
      /\ \A i \in 1..Len(staged) : staged[i].gate <=> staged[i].comp \in Gate
  BY StagedFacts
<1>4. CandidatesOK(staged')
  BY StepType DEF Next, Propagate, TypeOK
<1>5. DOMAIN staged' = 1..Len(staged)
  BY <1>2, <1>3
<1>6. 1..Len(staged') = 1..Len(staged)
  BY <1>4, <1>5 DEF CandidatesOK
<1>7. \A i \in 1..Len(staged) :
        staged'[i].comp = staged[i].comp /\ staged'[i].val = staged[i].val
  BY <1>2, <1>3 DEF Reversed
<1>8. ASSUME NEW p \in HostPin
      PROVE  state'[p] = state[p]
  <2>1. ~\E i \in Flips : staged[i].comp = p
    BY <1>3, KindsApart DEF Flips, TypeOK
  <2> QED
    BY <1>2, <2>1, KindsApart DEF FlippedState
<1>9. OnlyTheCallDrivesPins'
  BY <1>1, <1>2, <1>6, <1>7 DEF OnlyTheCallDrivesPins, PinEvent
<1>10. CallArrives'
  BY <1>1, <1>2, <1>8 DEF CallArrives, Queued, Batched, Unprojected
<1> QED
  BY <1>1, <1>2, <1>8, <1>9, <1>10 DEF PinInv

\* An evaluation schedules no pin, and nothing of what is scheduled is taken away.
LEMMA EvaluationPins ==
  ASSUME TypeOK, PinInv, ~failed, NEW c \in Component, Recalculate(c),
         phase \in {"notify", "requeue"},
         UNCHANGED <<state, phase, batch, staged, failed, call>>
  PROVE  PinInv'
<1>1. /\ OnlyTheCallDrivesPins /\ CallArrives
      /\ state' = state /\ phase' = phase /\ batch' = batch /\ staged' = staged /\ call' = call
      /\ failed' = failed
  BY DEF PinInv
<1>2. QueueKept /\ \A d \in Delay : \A i \in 1..Len(queue'[d]) :
        \/ i \in 1..Len(queue[d]) /\ queue'[d][i] = queue[d][i]
        \/ queue'[d][i].comp \notin HostPin
  BY Evaluated, PinsAreLeftAlone
<1>3. OnlyTheCallDrivesPins'
  BY <1>1, <1>2 DEF OnlyTheCallDrivesPins, PinEvent
<1>4. \A x : Queued(x) => Queued(x)'
  BY <1>2 DEF Queued, QueueKept
<1>5. CallArrives'
  BY <1>1, <1>4 DEF CallArrives, Batched, Unprojected
<1> QED
  BY <1>1, <1>3, <1>5 DEF PinInv

\* Every step of propagation.
LEMMA PropagatePins ==
  ASSUME TypeOK, SettleInv, PinInv, Propagate
  PROVE  PinInv'
<1>1. CASE StageDone \/ StartValidation \/ Commit \/ NextChanged \/ NotifyDone \/ SkipAccepted
  <2>1. /\ state' = state /\ queue' = queue /\ batch' = batch /\ staged' = staged
        /\ call' = call /\ failed' = failed /\ phase' # "idle"
        /\ phase = "pop" => batch = <<>> /\ phase' = "project" /\ idx' = idx
        /\ phase = "project" => idx = Len(staged)
        /\ phase \in Phases \ {"idle"}
    BY <1>1 DEF StageDone, StartValidation, Commit, NextChanged, NotifyDone, SkipAccepted, step,
       Phases
  <2>2. ~failed /\ OnlyTheCallDrivesPins /\ CallArrives
    BY <2>1 DEF PinInv
  <2>3. OnlyTheCallDrivesPins'
    BY <2>1, <2>2 DEF OnlyTheCallDrivesPins, PinEvent
  <2>4. \A x : Unprojected(x) => Unprojected(x)'
    BY <2>1, StagedFacts DEF Unprojected
  <2>5. CallArrives'
    BY <2>1, <2>2, <2>4 DEF CallArrives, Queued, Batched
  <2> QED
    BY <2>1, <2>2, <2>3, <2>5 DEF PinInv
<1>2. CASE NotifyOutput
  <2>1. outs \in Seq(Component) /\ outs # <<>> /\ ~failed
    BY <1>2 DEF NotifyOutput, TypeOK, PinInv
  <2> QED
    BY <1>2, <2>1, EvaluationPins DEF NotifyOutput
<1>3. CASE RequeueRejected
  <2>1. idx + 1 \in 1..Len(staged) /\ ~failed
    BY <1>3, StagedFacts DEF RequeueRejected, PinInv
  <2>2. staged[idx + 1].comp \in Component
    BY <2>1, StagedFacts
  <2> QED
    BY <1>3, <2>1, <2>2, EvaluationPins DEF RequeueRejected
<1>4. CASE EndStep
  <2>1. /\ ~failed /\ OnlyTheCallDrivesPins /\ CallArrives /\ batch = <<>> /\ phase = "requeue"
    BY <1>4 DEF EndStep, PinInv, SettleInv, SettleInvWith, Shape
  <2>2. /\ state' = state /\ queue' = queue /\ batch' = batch /\ staged' = <<>>
        /\ call' = call /\ failed' = failed /\ phase' = "next"
    BY <1>4 DEF EndStep
  <2>3. OnlyTheCallDrivesPins'
    BY <2>1, <2>2, NoneIn DEF OnlyTheCallDrivesPins, PinEvent
  <2>4. CallArrives'
    BY <2>1, <2>2 DEF CallArrives, Queued, Batched, Unprojected
  <2> QED
    BY <2>1, <2>2, <2>3, <2>4 DEF PinInv
<1>5. CASE Return
  <2>1. /\ ~failed /\ OnlyTheCallDrivesPins /\ QueueEmpty /\ batch = <<>> /\ staged = <<>>
    BY <1>5 DEF Return, PinInv, SettleInv, SettleInvWith, Shape
  <2>2. /\ queue' = queue /\ batch' = batch /\ staged' = staged
        /\ call' = NoCall /\ failed' = failed
    BY <1>5 DEF Return, step
  <2> QED
    BY <2>1, <2>2, NoneIn DEF PinInv, OnlyTheCallDrivesPins, CallArrives, QueueEmpty
<1>6. CASE NoSettle
  BY <1>6 DEF NoSettle, PinInv
<1> QED
  BY <1>1, <1>2, <1>3, <1>4, <1>5, <1>6, AdvancePins, PopPins, ProjectPins, WavePins
     DEF Propagate

\* No pin is owed anything at first.
LEMMA InitPins == Init => PinInv
BY NoneIn DEF Init, NoQueue, PinInv, OnlyTheCallDrivesPins, CallArrives

\* Every step of the engine.
LEMMA StepPins ==
  ASSUME TypeOK, SettleInv, PinInv, [Next]_vars
  PROVE  PinInv'
<1>1. CASE UNCHANGED vars
  BY <1>1 DEF vars, step, PinInv, OnlyTheCallDrivesPins, PinEvent, CallArrives, Queued, Batched,
     Unprojected
<1> QED
  BY <1>1, HostCallPins, PropagatePins DEF Next

(***************************************************************************)
(* The value setPin drives onto a pin is the only thing scheduled for any  *)
(* host pin, and it is on its way until the pin holds it: no candidate and *)
(* no evaluation writes a pin behind the host's back.                      *)
(***************************************************************************)
THEOREM PinInvariant == Spec => []PinInv
<1>1. Init => PinInv
  BY InitPins
<1>2. TypeOK /\ SettleInv /\ PinInv /\ [Next]_vars => PinInv'
  BY StepPins
<1> QED
  BY <1>1, <1>2, TypeCorrect, SettleInvariant, PTL DEF Spec
(***************************************************************************)
(* FailedIsFinal: a circuit that failed is never written again.            *)
(***************************************************************************)
THEOREM FailureIsFinal == Spec => FailedIsFinal
<1>1. TypeOK /\ PinInv /\ [Next]_vars => (failed => UNCHANGED <<state, cells>>)
  BY FailedStutters DEF vars
<1>2. UNCHANGED vars => UNCHANGED <<state, cells>>
  BY DEF vars
<1> QED
  BY <1>1, <1>2, TypeCorrect, PinInvariant, PTL DEF Spec, FailedIsFinal

-----------------------------------------------------------------------------
(* The refinement *)

\* The abstract box asks of its net what the engine asks of its pool.
LEMMA SameTarget == \A c, pool : SN!Target(c, pool) = Target(c, pool)
BY DEF SN!Target, SN!Flip, SN!BitAnd, SN!WireState, SN!Slice, SN!Concat, SN!Prefix,
       SN!Dominant, SN!IsUndefined, SN!Undefined, SN!Trit,
       Target, Flip, BitAnd, WireState, Slice, Concat, Prefix,
       Dominant, IsUndefined, Undefined, Trit
\* The abstract specification speaks of the same components.
LEMMA SameWords ==
  /\ SN!Blank = [c \in Component |-> Undefined(Width[c])]
  /\ SN!BlankPins = [p \in HostPin |-> Undefined(Width[p])]
  /\ SN!Memory = Memory /\ SN!Gate = Gate /\ SN!WireLike = WireLike
BY DEF SN!Blank, SN!BlankPins, SN!Undefined, SN!Memory, SN!Gate, SN!WireLike,
       Undefined, Memory, Gate, WireLike

\* While a call runs nothing can be read, and the pins are those it was given.
LEMMA BusyMaps ==
  ASSUME ~failed, phase # "idle"
  PROVE  HostView = SN!Blank /\ Status = "busy"
BY SameWords DEF HostView, Status

\* A host call is SN!Drive, SN!Disturb, or answered at once.
LEMMA HostCallMaps ==
  ASSUME TypeOK, PinInv, HostCall
  PROVE  (\E p \in HostPin : SN!Drive(p)) \/ SN!Disturb \/ UNCHANGED SN!vars
<1>1. PICK c \in HostPin \cup Memory : \E v \in State(Width[c]) : HostEvent(c, v)
  BY HostCallCases
<1>2. PICK v \in State(Width[c]) : HostEvent(c, v)
  BY <1>1
<1>3. /\ PropagateEvent(c, v) /\ state' = state /\ failed' = failed
      /\ phase = "idle" /\ ~failed /\ call = NoCall /\ Status = "idle"
  BY <1>2 DEF HostEvent, Callable, PinInv, Status
<1>4. DrivenPins = [p \in HostPin |-> state[p]]
  BY <1>3 DEF DrivenPins
<1>5. CASE state[c] = v
  <2>1. phase' = phase /\ call' = call
    BY <1>3, <1>5 DEF PropagateEvent
  <2>2. DrivenPins' = DrivenPins /\ HostView' = HostView /\ Status' = Status
    BY <1>3, <2>1 DEF DrivenPins, HostView, ReadState, Status
  <2> QED
    BY <2>2 DEF SN!vars
<1>6. CASE state[c] # v
  <2>1. phase' = "next" /\ call' = <<c, v>>
    BY <1>3, <1>6 DEF PropagateEvent
  <2>2. HostView' = SN!Blank /\ Status' = "busy"
    BY <1>3, <2>1, SameWords DEF HostView, Status
  <2>3. call' # NoCall /\ call'[1] = c /\ call'[2] = v
    BY <2>1 DEF NoCall
  <2>4. DrivenPins' = [p \in HostPin |-> IF c = p THEN v ELSE state[p]]
    BY <1>3, <2>3 DEF DrivenPins
  <2>5. CASE c \in HostPin
    <3>1. v \in HostValue[c]
      BY <1>2, <2>5 DEF HostEvent
    <3>2. DrivenPins' = [DrivenPins EXCEPT ![c] = v]
      BY <1>4, <2>4
    <3>3. DrivenPins'[c] # DrivenPins[c]
      BY <1>4, <1>6, <2>4, <2>5
    <3>4. SN!Drive(c)
      BY <1>3, <2>2, <3>1, <3>2, <3>3 DEF SN!Drive
    <3> QED
      BY <2>5, <3>4
  <2>6. CASE c \notin HostPin
    <3>1. DrivenPins' = DrivenPins
      BY <1>4, <2>4, <2>6
    <3>2. Memory # {}
      BY <2>6
    <3> QED
      BY <1>3, <2>2, <3>1, <3>2, SameWords DEF SN!Disturb
  <2> QED
    BY <2>5, <2>6
<1> QED
  BY <1>5, <1>6

\* The loop of propagate() shows the host nothing.
LEMMA BusyStep ==
  ASSUME TypeOK, PinInv, phase # "idle", phase' # "idle",
         UNCHANGED <<call, failed>>,
         \A p \in HostPin : state'[p] = state[p] \/ (call # NoCall /\ call[1] = p)
  PROVE  UNCHANGED SN!vars
<1>1. ~failed /\ ~failed' /\ call' = call
  BY DEF PinInv
<1>2. DrivenPins' = DrivenPins
  BY <1>1 DEF DrivenPins
<1>3. HostView' = HostView /\ Status' = Status
  BY <1>1 DEF HostView, Status
<1> QED
  BY <1>2, <1>3 DEF SN!vars

\* The return of a host call is where the abstract circuit settles.
LEMMA ReturnMaps ==
  ASSUME TypeOK, SettleInv, PinInv, Return
  PROVE  SN!Settle
<1>1. /\ phase = "next" /\ ~failed /\ phase' = "idle" /\ failed' = failed /\ state' = state
      /\ call' = NoCall /\ staged = <<>> /\ batch = <<>> /\ QueueEmpty /\ CallArrives
  BY DEF Return, PinInv, SettleInv, SettleInvWith, Shape
<1>2. QueueTracksTargets /\ \A c, d : d \in Delay => Scheduled(c, d) = {}
  BY <1>1, SettleInvTracks, NoneIn DEF QueueEmpty, Scheduled
<1>3. \A c \in Gate \cup WireLike : state[c] = Target(c, state)
  BY <1>1, <1>2, DelayFacts
     DEF QueueTracksTargets, PendingTracksTarget, TransportTracksTarget, Consistent
<1>4. HostView' = state
  <2>1. HostView' = [c \in Component |-> state[c]]
    BY <1>1 DEF HostView, ReadState
  <2>2. state = [c \in Component |-> state[c]]
    BY DEF TypeOK, Pool
  <2> QED
    BY <2>1, <2>2
<1>5. \A p \in HostPin : call # NoCall /\ call[1] = p => state[p] = call[2]
  BY <1>1, NoneIn DEF CallArrives, Queued, Batched, Unprojected, QueueEmpty
<1>6. DrivenPins = [p \in HostPin |-> state[p]] /\ DrivenPins' = [p \in HostPin |-> state[p]]
  BY <1>1, <1>5 DEF DrivenPins
<1>7. SN!Settled(HostView')
  BY <1>3, <1>4, <1>6, SameWords, SameTarget DEF SN!Settled
<1>8. DOMAIN HostView' = Component
  BY <1>4 DEF TypeOK, Pool
<1>9. Status = "busy" /\ Status' = "idle"
  BY <1>1 DEF Status
<1> QED
  BY <1>6, <1>7, <1>8, <1>9 DEF SN!Settle

\* A circuit that does not settle is one the abstract one gives up on.
LEMMA NoSettleMaps ==
  ASSUME TypeOK, PinInv, NoSettle
  PROVE  SN!GiveUp
<1>1. phase # "idle"
  BY DEF NoSettle, WorkNeeded, TypeOK
<1>2. ~failed /\ Status = "busy"
  BY <1>1 DEF PinInv, Status
<1>3. failed' /\ phase' = "idle" /\ Status' = "failed"
  BY DEF NoSettle, Status
<1>4. HostView' = SN!Blank /\ DrivenPins' = SN!BlankPins
  BY <1>3, SameWords DEF HostView, ReadState, DrivenPins
<1> QED
  BY <1>2, <1>3, <1>4 DEF SN!GiveUp

\* Every step is a step of the abstract circuit or leaves it as it is.
LEMMA StepMaps ==
  ASSUME TypeOK, SettleInv, PinInv, [Next]_vars
  PROVE  [SN!Next]_(SN!vars)
<1>1. CASE HostCall
  BY <1>1, HostCallMaps DEF SN!Next
<1>2. CASE Return
  BY <1>2, ReturnMaps DEF SN!Next
<1>3. CASE NoSettle
  BY <1>3, NoSettleMaps DEF SN!Next
<1>4. CASE Project
  BY <1>4, ProjectPins, BusyStep DEF Project
<1>5. CASE ValidateWave
  BY <1>5, WavePins, BusyStep DEF ValidateWave
<1>6. CASE \/ Advance \/ PopLive \/ PopStale \/ StageDone \/ StartValidation \/ Commit
           \/ NextChanged \/ NotifyOutput \/ NotifyDone \/ RequeueRejected \/ SkipAccepted
           \/ EndStep
  <2>1. phase # "idle" /\ phase' # "idle" /\ call' = call /\ failed' = failed /\ state' = state
    BY <1>6 DEF Advance, PopLive, PopStale, StageDone, StartValidation, Commit, NextChanged,
       NotifyOutput, NotifyDone, RequeueRejected, SkipAccepted, EndStep
  <2> QED
    BY <2>1, BusyStep
<1>7. CASE UNCHANGED vars
  BY <1>7 DEF vars, SN!vars, DrivenPins, HostView, ReadState, Status
<1> QED
  BY <1>1, <1>2, <1>3, <1>4, <1>5, <1>6, <1>7 DEF Next, Propagate

\* The initial states are initial there.
LEMMA InitMaps == Init => SN!Init
<1> SUFFICES ASSUME Init
             PROVE  SN!Init
  OBVIOUS
<1>1. /\ ~failed /\ phase = "idle" /\ call = NoCall
      /\ \A c \in Component : state[c] = Undefined(Width[c])
  BY DEF Init
<1>2. DrivenPins = SN!BlankPins
  BY <1>1, SameWords, KindsApart DEF DrivenPins
<1>3. HostView = SN!Blank /\ Status = "idle"
  BY <1>1, SameWords DEF HostView, ReadState, Status
<1> QED
  BY <1>2, <1>3 DEF SN!Init

(***************************************************************************)
(* The engine takes only steps of SettledNet: a host is shown a net only   *)
(* between two calls, every gate and wire-like component of it agrees with *)
(* its drivers and every host pin holds the last value driven onto it; or  *)
(* the call gave up, and nothing can be read any more.                     *)
(***************************************************************************)
THEOREM StepsOfSettledNet == Spec => SN!Init /\ [][SN!Next]_(SN!vars)
<1>1. Init => SN!Init
  BY InitMaps
<1>2. TypeOK /\ SettleInv /\ PinInv /\ [Next]_vars => [SN!Next]_(SN!vars)
  BY StepMaps
<1> QED
  BY <1>1, <1>2, TypeCorrect, SettleInvariant, PinInvariant, PTL DEF Spec
=============================================================================
