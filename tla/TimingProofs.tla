----------------------------- MODULE TimingProofs -----------------------------
(***************************************************************************)
(* Time and edges, for every circuit: a replaced transition is never       *)
(* carried out, a gate changes exactly when its drivers have asked for it  *)
(* for the whole gate delay, and a ram stores one word per clock edge.     *)
(* The proofs about the history variables reuse the invariant of the       *)
(* settle loop, because every step of HNext is a step of Next.             *)
(***************************************************************************)
EXTENDS SettleProofs, EngineHistory

-----------------------------------------------------------------------------
(* What an evaluation does to the generations *)

\* Nothing with a generation is scheduled, or one event with the next one.
HandsNone ==
  /\ nextGen' = nextGen
  /\ \A d \in Delay : \A i \in 1..Len(queue'[d]) :
       \/ i \in 1..Len(queue[d]) /\ queue'[d][i] = queue[d][i]
       \/ queue'[d][i].gen = 0

HandsOne ==
  /\ nextGen' = NextGeneration
  /\ \A d \in Delay : \A i \in 1..Len(queue'[d]) :
       \/ i \in 1..Len(queue[d]) /\ queue'[d][i] = queue[d][i]
       \/ /\ d = GateDelay /\ i = Len(queue[GateDelay]) + 1
          /\ queue'[d][i].gen = nextGen

\* An event added to the queue is the last of its list.
LEMMA AddedLast ==
  ASSUME NEW q \in [Delay -> Seq(Event)], NEW due \in Delay, NEW e \in Event,
         NEW r, r = [q EXCEPT ![due] = Append(@, e)]
  PROVE  \A d \in Delay : \A i \in 1..Len(r[d]) :
           \/ i \in 1..Len(q[d]) /\ r[d][i] = q[d][i]
           \/ d = due /\ i = Len(q[due]) + 1 /\ r[d][i] = e
<1>1. /\ r[due] = Append(q[due], e)
      /\ \A d \in Delay : d # due => r[d] = q[d]
  OBVIOUS
<1>2. q[due] \in Seq(Event) /\ Len(q[due]) \in Nat /\ Len(r[due]) = Len(q[due]) + 1
  BY <1>1
<1>3. /\ \A i \in 1..Len(q[due]) : r[due][i] = q[due][i]
      /\ r[due][Len(q[due]) + 1] = e
  BY <1>1, <1>2
<1> QED
  BY <1>1, <1>2, <1>3

\* A transport event carries no generation.
LEMMA TransportHands ==
  ASSUME TypeOK, NEW c \in Component, NEW v \in State(Width[c]), ScheduleTransport(c, v)
  PROVE  HandsNone \/ HandsOne
<1>1. CASE state[c] = v
  BY <1>1 DEF ScheduleTransport, HandsNone
<1>2. CASE state[c] # v
  <2> DEFINE e == [comp |-> c, val |-> v, gen |-> 0]
  <2>1. e \in Event /\ e.gen = 0
    BY AnyStateType DEF Event
  <2>2. queue' = [queue EXCEPT ![DelayOf(c)] = Append(@, e)] /\ nextGen' = nextGen
    BY <1>2 DEF ScheduleTransport
  <2>3. queue \in [Delay -> Seq(Event)] /\ DelayOf(c) \in Delay
    BY DelayFacts DEF TypeOK
  <2> HIDE DEF e
  <2> QED
    BY <2>1, <2>2, <2>3, AddedLast DEF HandsNone, HandsOne
<1> QED
  BY <1>1, <1>2

\* Inertial scheduling gives out one generation at most.
LEMMA InertialHands ==
  ASSUME TypeOK, NEW c \in Gate, NEW v \in State(Width[c]), ScheduleInertial(c, v)
  PROVE  HandsNone \/ HandsOne
<1>1. CASE queue' = queue /\ nextGen' = nextGen
  BY <1>1 DEF HandsNone
<1>2. CASE ~(queue' = queue /\ nextGen' = nextGen)
  <2> DEFINE e == [comp |-> c, val |-> v, gen |-> nextGen]
  <2>1. e \in Event /\ e.gen = nextGen
    BY AnyStateType DEF Event, TypeOK, Gate
  <2>2. queue' = [queue EXCEPT ![GateDelay] = Append(@, e)] /\ nextGen' = NextGeneration
    BY <1>2 DEF ScheduleInertial
  <2>3. queue \in [Delay -> Seq(Event)] /\ GateDelay \in Delay
    BY DelayFacts DEF TypeOK
  <2> HIDE DEF e
  <2> QED
    BY <2>1, <2>2, <2>3, AddedLast DEF HandsNone, HandsOne
<1> QED
  BY <1>1, <1>2

\* So does an evaluation.
LEMMA EvaluationHands ==
  ASSUME TypeOK, NEW c \in Component, Recalculate(c)
  PROVE  HandsNone \/ HandsOne
<1>1. CASE c \in Memory
  <2>1. SchedOK'
    BY EvaluateType
  <2>2. MemoryReadOut(c, state, cells') \in State(Width[c])
    BY <1>1, <2>1, MemoryReadOutType DEF SchedOK, TypeOK
  <2> QED
    BY <1>1, <2>2, TransportHands DEF Recalculate, RecalculateMemory
<1>2. CASE c \notin Memory /\ Undriven(c) /\ c \notin Gate
  BY <1>2 DEF Recalculate, HandsNone
<1>3. CASE c \notin Memory /\ ~(Undriven(c) /\ c \notin Gate)
  <2>1. Target(c, state) \in State(Width[c])
    BY <1>3, TargetType DEF TypeOK
  <2> QED
    BY <1>3, <2>1, TransportHands, InertialHands DEF Recalculate
<1> QED
  BY <1>1, <1>2, <1>3

-----------------------------------------------------------------------------
(* No two events that are still to come share a generation *)

\* The types of everything the generations are counted with.
LEMMA GenFacts ==
  ASSUME TypeOK
  PROVE  /\ nextGen \in Nat /\ nextGen >= 1 /\ nextGen <= GenLimit - 1
         /\ GenLimit \in Nat /\ MaxSettleWork \in Nat
         /\ remaining \in Nat /\ remaining <= MaxSettleWork
         /\ \A d \in Delay : queue[d] \in Seq(Event) /\ Len(queue[d]) \in Nat
         /\ \A d \in Delay : \A i \in 1..Len(queue[d]) : queue[d][i].gen \in Nat
         /\ batch \in Seq(Event)
         /\ \A i \in 1..Len(batch) : batch[i].gen \in Nat
<1>1. \A d \in Delay : queue[d] \in Seq(Event)
  BY DEF TypeOK
<1>2. batch \in Seq(Event) /\ \A e \in Event : e.gen \in Nat
  BY DEF TypeOK, EventsOK, Event
<1> QED
  BY <1>1, <1>2, EngineAssumption DEF TypeOK, EngineAssumption

\* Age, once the evaluation has been done.
AgeAfter(n) == IF n < nextGen' THEN nextGen' - n ELSE nextGen' - n + (GenLimit - 1)

\* A generation taken makes every other one that is in use older by one.
LEMMA Aging ==
  ASSUME TypeOK, NEW n \in Nat, n # 0, nextGen' = NextGeneration
  PROVE  /\ n # nextGen => AgeAfter(n) <= Age(n) + 1
         /\ n = nextGen => AgeAfter(n) = 1 /\ Age(n) = GenLimit - 1
         /\ Age(n) \in Int /\ AgeAfter(n) \in Int
<1>1. /\ nextGen \in Nat /\ nextGen >= 1 /\ nextGen <= GenLimit - 1 /\ GenLimit \in Nat
      /\ nextGen' = IF nextGen + 1 >= GenLimit THEN 1 ELSE nextGen + 1
  BY GenFacts DEF NextGeneration
<1> QED
  BY <1>1 DEF Age, AgeAfter

\* What GenInv says of the queue alone.
QueuePaid ==
  \A d \in Delay : \A i \in 1..Len(queue[d]) :
    queue[d][i].gen # 0 => Age(queue[d][i].gen) <= MaxSettleWork - remaining

QueueDiffers ==
  \A d, e \in Delay : \A i \in 1..Len(queue[d]) : \A j \in 1..Len(queue[e]) :
    queue[d][i].gen # 0 /\ queue[d][i].gen = queue[e][j].gen => d = e /\ i = j

\* Between batches only the queue holds events.
LEMMA GenInvOfQueue ==
  ASSUME batch = <<>>
  PROVE  GenerationsPaid /\ GenerationsDiffer <=> QueuePaid /\ QueueDiffers
BY NoneIn DEF GenerationsPaid, GenerationsDiffer, PaidFor, Same, QueuePaid, QueueDiffers

\* An evaluation pays for the generation it takes out of the budget of the settle.
LEMMA EvaluationGens ==
  ASSUME TypeOK, GenInv, GenerationsSuffice, phase # "idle", phase' # "idle",
         NEW c \in Component, Recalculate(c), Consume(1), batch' = batch, batch = <<>>
  PROVE  GenInv'
<1>1. QueuePaid /\ QueueDiffers
  BY GenInvOfQueue DEF GenInv
<1>2. /\ remaining >= 1 /\ remaining' = remaining - 1
      /\ remaining \in Nat /\ remaining <= MaxSettleWork /\ MaxSettleWork \in Nat
      /\ MaxSettleWork < GenLimit /\ GenLimit \in Nat
  BY GenFacts DEF Consume, GenerationsSuffice
<1>3. SUFFICES QueuePaid' /\ QueueDiffers'
  BY NoneIn DEF GenInv, GenerationsPaid, GenerationsDiffer, PaidFor, Same, QueuePaid, QueueDiffers
<1>4. CASE HandsNone
  <2>1. ASSUME NEW d \in Delay, NEW i \in 1..Len(queue'[d]), queue'[d][i].gen # 0
        PROVE  i \in 1..Len(queue[d]) /\ queue'[d][i] = queue[d][i]
    BY <1>4, <2>1 DEF HandsNone
  <2>2. QueuePaid'
    <3> SUFFICES ASSUME NEW d \in Delay, NEW i \in 1..Len(queue'[d]), queue'[d][i].gen # 0
                 PROVE  AgeAfter(queue'[d][i].gen) <= MaxSettleWork - remaining'
      BY DEF QueuePaid, Age, AgeAfter
    <3>1. i \in 1..Len(queue[d]) /\ queue'[d][i] = queue[d][i] /\ queue[d][i].gen \in Nat
      BY <2>1, GenFacts
    <3>2. Age(queue[d][i].gen) <= MaxSettleWork - remaining
      BY <1>1, <3>1 DEF QueuePaid
    <3>3. AgeAfter(queue[d][i].gen) = Age(queue[d][i].gen) /\ Age(queue[d][i].gen) \in Int
      <4>1. nextGen' = nextGen
        BY <1>4 DEF HandsNone
      <4>2. nextGen \in Nat /\ GenLimit \in Nat
        BY GenFacts
      <4> QED
        BY <3>1, <4>1, <4>2 DEF Age, AgeAfter
    <3> QED
      BY <1>2, <3>1, <3>2, <3>3
  <2>3. QueueDiffers'
    <3> SUFFICES ASSUME NEW d \in Delay, NEW e \in Delay,
                        NEW i \in 1..Len(queue'[d]), NEW j \in 1..Len(queue'[e]),
                        queue'[d][i].gen # 0, queue'[d][i].gen = queue'[e][j].gen
                 PROVE  d = e /\ i = j
      BY DEF QueueDiffers
    <3>1. i \in 1..Len(queue[d]) /\ queue'[d][i] = queue[d][i]
      BY <2>1
    <3>2. j \in 1..Len(queue[e]) /\ queue'[e][j] = queue[e][j]
      BY <2>1
    <3> QED
      BY <1>1, <3>1, <3>2 DEF QueueDiffers
  <2> QED
    BY <2>2, <2>3
<1>5. CASE HandsOne
  \* Nothing that is scheduled has the generation that is handed out.
  <2>1. ASSUME NEW d \in Delay, NEW i \in 1..Len(queue[d]), queue[d][i].gen # 0
        PROVE  queue[d][i].gen # nextGen
               /\ AgeAfter(queue[d][i].gen) <= MaxSettleWork - remaining'
    <3>1. queue[d][i].gen \in Nat /\ Age(queue[d][i].gen) <= MaxSettleWork - remaining
      BY <1>1, <2>1, GenFacts DEF QueuePaid
    <3> DEFINE n == queue[d][i].gen
    <3>2. /\ n # nextGen => AgeAfter(n) <= Age(n) + 1
          /\ n = nextGen => Age(n) = GenLimit - 1
          /\ Age(n) \in Int /\ AgeAfter(n) \in Int
      BY <1>5, <2>1, <3>1, Aging DEF HandsOne
    <3> QED
      BY <1>2, <3>1, <3>2
  <2>2. nextGen \in Nat /\ nextGen # 0 /\ AgeAfter(nextGen) = 1
    BY <1>5, GenFacts, Aging DEF HandsOne
  <2>3. \A d \in Delay : \A i \in 1..Len(queue'[d]) :
          \/ i \in 1..Len(queue[d]) /\ queue'[d][i] = queue[d][i]
          \/ /\ d = GateDelay /\ i = Len(queue[GateDelay]) + 1
             /\ queue'[d][i].gen = nextGen
    BY <1>5 DEF HandsOne
  <2>4. QueuePaid'
    <3> SUFFICES ASSUME NEW d \in Delay, NEW i \in 1..Len(queue'[d]), queue'[d][i].gen # 0
                 PROVE  AgeAfter(queue'[d][i].gen) <= MaxSettleWork - remaining'
      BY DEF QueuePaid, Age, AgeAfter
    <3>1. CASE i \in 1..Len(queue[d]) /\ queue'[d][i] = queue[d][i]
      BY <2>1, <3>1
    <3>2. CASE queue'[d][i].gen = nextGen
      BY <1>2, <2>2, <3>2
    <3> QED
      BY <2>3, <3>1, <3>2
  <2>5. QueueDiffers'
    <3> SUFFICES ASSUME NEW d \in Delay, NEW e \in Delay,
                        NEW i \in 1..Len(queue'[d]), NEW j \in 1..Len(queue'[e]),
                        queue'[d][i].gen # 0, queue'[d][i].gen = queue'[e][j].gen
                 PROVE  d = e /\ i = j
      BY DEF QueueDiffers
    <3>1. CASE i \in 1..Len(queue[d]) /\ queue'[d][i] = queue[d][i]
               /\ j \in 1..Len(queue[e]) /\ queue'[e][j] = queue[e][j]
      BY <1>1, <3>1 DEF QueueDiffers
    <3> QED
      BY <2>1, <2>3, <3>1
  <2> QED
    BY <2>4, <2>5
<1> QED
  BY <1>4, <1>5, EvaluationHands

\* The other steps hand out no generation; they may take events away.
LEMMA FewerGens ==
  ASSUME TypeOK, GenInv, phase # "idle", phase' # "idle",
         nextGen' = nextGen, remaining' \in Int, remaining' <= remaining,
         queue' = queue,
         batch' = batch \/ (batch # <<>> /\ batch' = Tail(batch))
  PROVE  GenInv'
<1>1. GenerationsPaid /\ GenerationsDiffer
  BY DEF GenInv
<1>2. ASSUME NEW e, e.gen \in Nat, PaidFor(e), e.gen # 0
      PROVE  AgeAfter(e.gen) <= MaxSettleWork - remaining'
  <2>1. AgeAfter(e.gen) = Age(e.gen) /\ Age(e.gen) \in Int
    BY <1>2, GenFacts DEF Age, AgeAfter
  <2> QED
    BY <1>2, <2>1, GenFacts DEF PaidFor
<1>3. CASE batch' = batch
  <2>1. GenerationsPaid'
    BY <1>1, <1>2, <1>3, GenFacts DEF GenerationsPaid, PaidFor, Age, AgeAfter
  <2>2. GenerationsDiffer'
    BY <1>1, <1>3 DEF GenerationsDiffer, Same
  <2> QED
    BY <2>1, <2>2 DEF GenInv
<1>4. CASE batch # <<>> /\ batch' = Tail(batch)
  <2>1. \A i \in 1..Len(batch') : i + 1 \in 1..Len(batch) /\ batch'[i] = batch[i + 1]
    BY <1>4, BatchFacts
  <2>2. GenerationsPaid'
    <3>1. \A d \in Delay : \A i \in 1..Len(queue[d]) : PaidFor(queue[d][i])'
      BY <1>1, <1>2, GenFacts DEF GenerationsPaid, PaidFor, Age, AgeAfter
    <3>2. \A i \in 1..Len(batch') : PaidFor(batch[i])'
      BY <1>1, <1>2, <2>1, GenFacts DEF GenerationsPaid, PaidFor, Age, AgeAfter
    <3> QED
      BY <3>1, <3>2 DEF GenerationsPaid
  <2>3. GenerationsDiffer'
    <3>1. \A i, j \in 1..Len(batch') : Same(batch'[i], batch'[j]) => i = j
      <4> SUFFICES ASSUME NEW i \in 1..Len(batch'), NEW j \in 1..Len(batch'),
                          Same(batch'[i], batch'[j])
                   PROVE  i = j
        OBVIOUS
      <4>1. /\ i + 1 \in 1..Len(batch) /\ j + 1 \in 1..Len(batch)
            /\ Same(batch[i + 1], batch[j + 1])
        BY <2>1
      <4>2. i + 1 = j + 1
        BY <1>1, <4>1 DEF GenerationsDiffer
      <4> QED
        BY <4>2
    <3>2. \A d \in Delay : \A i \in 1..Len(queue[d]) : \A j \in 1..Len(batch') :
            ~Same(queue[d][i], batch'[j])
      BY <1>1, <2>1 DEF GenerationsDiffer
    <3> QED
      BY <1>1, <3>1, <3>2 DEF GenerationsDiffer, Same
  <2> QED
    BY <2>2, <2>3 DEF GenInv
<1> QED
  BY <1>3, <1>4

\* The queue moves on: what is due goes to the batch, the rest one delay nearer.
LEMMA AdvanceGens ==
  ASSUME TypeOK, SettleInv, ~failed, GenInv, Advance
  PROVE  GenInv'
<1> DEFINE E == EarliestDue
<1>1. phase = "next" /\ batch = <<>> /\ GenerationsPaid /\ GenerationsDiffer
  BY DEF Advance, GenInv, SettleInv, SettleInvWith, Shape
<1>2. /\ phase' = "pop" /\ nextGen' = nextGen /\ remaining' = remaining
      /\ batch' = queue[E] /\ queue' = Shifted(queue, E)
  BY DEF Advance
<1>3. E \in Delay
  BY EarliestDueFacts DEF Advance
<1> HIDE DEF E
<1>4. \A d \in Delay : \A i \in 1..Len(queue'[d]) :
        /\ d + E \in Delay /\ d + E # E /\ i \in 1..Len(queue[d + E])
        /\ queue'[d][i] = queue[d + E][i]
  BY <1>2, <1>3, NoneIn DEF Shifted, Delay, GateDelay
<1>5. GenerationsPaid'
  BY <1>1, <1>2, <1>3, <1>4 DEF GenerationsPaid, PaidFor, Age
<1>6. GenerationsDiffer'
  <2>1. ASSUME NEW d \in Delay, NEW e \in Delay,
               NEW i \in 1..Len(queue'[d]), NEW j \in 1..Len(queue'[e]),
               Same(queue'[d][i], queue'[e][j])
        PROVE  d = e /\ i = j
    <3>1. /\ d + E \in Delay /\ e + E \in Delay
          /\ i \in 1..Len(queue[d + E]) /\ j \in 1..Len(queue[e + E])
          /\ Same(queue[d + E][i], queue[e + E][j])
      BY <1>4, <2>1
    <3>2. d + E = e + E /\ i = j
      BY <1>1, <3>1 DEF GenerationsDiffer
    <3> QED
      BY <1>3, <3>2 DEF Delay, GateDelay
  <2>2. \A i, j \in 1..Len(batch') : Same(batch'[i], batch'[j]) => i = j
    BY <1>1, <1>2, <1>3 DEF GenerationsDiffer
  <2>3. \A d \in Delay : \A i \in 1..Len(queue'[d]) : \A j \in 1..Len(batch') :
          ~Same(queue'[d][i], batch'[j])
    BY <1>1, <1>2, <1>3, <1>4 DEF GenerationsDiffer
  <2> QED
    BY <2>1, <2>2, <2>3 DEF GenerationsDiffer, Same
<1> QED
  BY <1>2, <1>5, <1>6 DEF GenInv

\* A host call finds the queue empty, and what it schedules has no generation.
LEMMA HostCallGens ==
  ASSUME TypeOK, SettleInv, GenInv, HostCall
  PROVE  GenInv'
<1>1. PICK c \in HostPin \cup Memory : \E v \in State(Width[c]) : HostEvent(c, v)
  BY HostCallCases
<1>2. PICK v \in State(Width[c]) : HostEvent(c, v)
  BY <1>1
<1>3. /\ PropagateEvent(c, v) /\ phase = "idle" /\ batch' = <<>> /\ QueueEmpty
  BY <1>2 DEF HostEvent, Callable, step, GenInv, SettleInv, SettleInvWith, Shape
<1>4. CASE state[c] = v
  BY <1>3, <1>4 DEF PropagateEvent, GenInv, QueueEmpty
<1>5. CASE state[c] # v
  <2> DEFINE e == [comp |-> c, val |-> v, gen |-> 0]
  <2>1. e \in Event /\ e.gen = 0
    BY AnyStateType, HostSchedules DEF Event
  <2>2. queue' = [queue EXCEPT ![GateDelay] = Append(@, e)] /\ phase' = "next"
    BY <1>3, <1>5 DEF PropagateEvent
  <2>3. queue \in [Delay -> Seq(Event)] /\ GateDelay \in Delay
    BY DelayFacts DEF TypeOK
  <2> HIDE DEF e
  <2>4. \A d \in Delay : \A i \in 1..Len(queue'[d]) : queue'[d][i].gen = 0
    BY <1>3, <2>1, <2>2, <2>3, AddedLast, NoneIn DEF QueueEmpty
  <2> QED
    BY <1>3, <2>2, <2>4, NoneIn DEF GenInv, GenerationsPaid, GenerationsDiffer, PaidFor, Same
<1> QED
  BY <1>4, <1>5

\* Every step of propagation keeps generations apart.
LEMMA PropagateGens ==
  ASSUME TypeOK, SettleInv, ~failed, GenInv, GenerationsSuffice, Propagate
  PROVE  GenInv'
<1>1. CASE NotifyOutput
  <2>1. /\ phase = "notify" /\ phase' = "notify" /\ batch = <<>> /\ batch' = batch
        /\ outs \in Seq(Component) /\ outs # <<>> /\ Consume(1) /\ Recalculate(Head(outs))
    BY <1>1 DEF NotifyOutput, TypeOK, SettleInv, SettleInvWith, Shape
  <2> QED
    BY <2>1, EvaluationGens
<1>2. CASE RequeueRejected
  <2>1. /\ phase = "requeue" /\ phase' = "requeue" /\ batch = <<>> /\ batch' = batch
        /\ Consume(1) /\ Recalculate(staged[idx + 1].comp) /\ idx + 1 \in 1..Len(staged)
    BY <1>2, StagedFacts DEF RequeueRejected, SettleInv, SettleInvWith, Shape
  <2>2. staged[idx + 1].comp \in Component
    BY <2>1, StagedFacts
  <2> QED
    BY <2>1, <2>2, EvaluationGens
<1>3. CASE PopLive \/ PopStale \/ ValidateWave
  <2>1. /\ phase # "idle" /\ phase' # "idle" /\ nextGen' = nextGen /\ queue' = queue
        /\ batch' = batch \/ (batch # <<>> /\ batch' = Tail(batch))
        /\ Consume(1) \/ Consume(Cardinality(wave))
    BY <1>3 DEF PopLive, PopStale, ValidateWave
  <2>2. remaining' \in Int /\ remaining' <= remaining
    BY <2>1, WaveFinite, GenFacts DEF Consume
  <2> QED
    BY <2>1, <2>2, FewerGens
<1>4. CASE StageDone \/ Project \/ StartValidation \/ Commit \/ NextChanged \/ NotifyDone
           \/ SkipAccepted \/ EndStep
  <2>1. /\ phase # "idle" /\ phase' # "idle" /\ nextGen' = nextGen /\ queue' = queue
        /\ batch' = batch /\ remaining' = remaining
    BY <1>4 DEF StageDone, Project, StartValidation, Commit, NextChanged, NotifyDone,
       SkipAccepted, EndStep, step
  <2> QED
    BY <2>1, GenFacts, FewerGens
<1>5. CASE Return
  BY <1>5 DEF Return, GenInv, QueueEmpty
<1>6. CASE NoSettle
  BY <1>6 DEF NoSettle, GenInv, QueueEmpty, NoQueue
<1> QED
  BY <1>1, <1>2, <1>3, <1>4, <1>5, <1>6, AdvanceGens DEF Propagate

\* Nothing is queued at first.
LEMMA InitGens == Init => GenInv
BY DEF Init, GenInv, QueueEmpty, NoQueue

\* Every step of the engine keeps generations apart.
LEMMA StepGens ==
  ASSUME TypeOK, SettleInv, PinInv, GenInv, GenerationsSuffice, [Next]_vars
  PROVE  GenInv'
<1>1. CASE UNCHANGED vars
  BY <1>1 DEF vars, step, GenInv, QueueEmpty, GenerationsPaid, GenerationsDiffer,
     PaidFor, Same, Age
<1>2. CASE failed
  BY <1>1, <1>2, FailedStutters
<1>3. CASE ~failed /\ Next
  BY <1>3, HostCallGens, PropagateGens DEF Next
<1> QED
  BY <1>1, <1>2, <1>3

\* Events that differ in generation: one of a gate is live at most.
LEMMA GenInvOneLive == TypeOK /\ GenInv => OneLiveEvent
<1> SUFFICES ASSUME TypeOK, GenInv, NEW g \in Gate, NEW d \in Delay, NEW e \in Delay,
                    NEW i \in Scheduled(g, d), NEW j \in Scheduled(g, e),
                    Live(queue[d][i]), Live(queue[e][j])
             PROVE  d = e /\ i = j
  BY DEF OneLiveEvent
<1>1. /\ DOMAIN queue[d] = 1..Len(queue[d]) /\ DOMAIN queue[e] = 1..Len(queue[e])
      /\ EventsOK(queue[d]) /\ EventsOK(queue[e])
  BY DEF TypeOK
<1>2. /\ i \in 1..Len(queue[d]) /\ queue[d][i].comp = g /\ queue[d][i].gen # 0
      /\ j \in 1..Len(queue[e]) /\ queue[e][j].comp = g /\ queue[e][j].gen # 0
  BY <1>1 DEF Scheduled, EventsOK
<1>3. pending[g].gen = queue[d][i].gen /\ pending[g].gen = queue[e][j].gen
  BY <1>2 DEF Live
<1>4. Same(queue[d][i], queue[e][j])
  BY <1>2, <1>3 DEF Same
<1>5. phase # "idle"
  BY <1>2, NoneIn DEF GenInv, QueueEmpty
<1> QED
  BY <1>2, <1>4, <1>5 DEF GenInv, GenerationsDiffer

(***************************************************************************)
(* Generations are reused when next_generation wraps, yet two events that  *)
(* are still to come never share one: what a call can hand out is bounded  *)
(* by the settle work, and the queue is empty between two calls.           *)
(***************************************************************************)
THEOREM GenerationsApart == GenerationsSuffice => (Spec => []GenInv)
<1> SUFFICES ASSUME GenerationsSuffice
             PROVE  Spec => []GenInv
  OBVIOUS
<1>1. Init => GenInv
  BY InitGens
<1>2. TypeOK /\ SettleInv /\ PinInv /\ GenInv /\ [Next]_vars => GenInv'
  BY StepGens
<1> QED
  BY <1>1, <1>2, TypeCorrect, SettleInvariant, PinInvariant, PTL DEF Spec

(***************************************************************************)
(* OneLiveEvent: the event of a transition that scheduleInertial replaced  *)
(* is stale for good, so at most one event of a gate is live.              *)
(***************************************************************************)
THEOREM OneTransitionIsLive == GenerationsSuffice => (Spec => []OneLiveEvent)
<1> SUFFICES ASSUME GenerationsSuffice
             PROVE  Spec => []OneLiveEvent
  OBVIOUS
<1>1. TypeOK /\ GenInv => OneLiveEvent
  BY GenInvOneLive
<1> QED
  BY <1>1, TypeCorrect, GenerationsApart, PTL

-----------------------------------------------------------------------------
(* The history variables only watch *)

\* The history variables only watch.
LEMMA HistoryStep == [HNext]_<<vars, history>> => [Next]_vars
BY DEF HNext, WithinTimestamp, Next, Propagate

-----------------------------------------------------------------------------
(* Gate delay *)

\* While the pending transitions, their events and the history stay, so does being due.
LEMMA DueStays ==
  ASSUME held \in [Gate -> 0..GateDelay], NEW g \in Gate, pending'[g] = pending[g],
         demand' = demand, held' = held, QueueKept
  PROVE  /\ DueWithDemand(g) => DueWithDemand(g)'
         /\ \A d \in Delay : DueIn(g, d) => DueIn(g, d)'
<1>1. PendingEvent(g)' = PendingEvent(g)
  BY DEF PendingEvent
<1>2. ASSUME NEW d \in Delay, DueIn(g, d)
      PROVE  DueIn(g, d)'
  <2>1. PICK i \in 1..Len(queue[d]) : queue[d][i] = PendingEvent(g)
    BY <1>2 DEF DueIn
  <2>2. i \in 1..Len(queue'[d]) /\ queue'[d][i] = PendingEvent(g)'
    BY <1>1, <2>1 DEF QueueKept
  <2> QED
    BY <2>2 DEF DueIn
<1>3. DueWithDemand(g) => GateDelay - held[g] \in Delay
  BY DEF DueWithDemand, Delay, GateDelay
<1>4. ASSUME DueWithDemand(g)
      PROVE  DueWithDemand(g)'
  <2>1. DueIn(g, GateDelay - held[g])'
    BY <1>2, <1>3, <1>4 DEF DueWithDemand
  <2> QED
    BY <1>4, <2>1 DEF DueWithDemand
<1> QED
  BY <1>2, <1>4

\* Every timestamp takes its time off the delay that is left.
LEMMA AdvanceTiming ==
  ASSUME TypeOK, SettleInv, TimingInv, ~failed, Advance, TimePasses
  PROVE  TimingInv'
<1> DEFINE E == EarliestDue
<1>1. /\ phase = "next" /\ staged = <<>> /\ outs = <<>> /\ QueueTracksTargets /\ RestTiming
      /\ held \in [Gate -> 0..GateDelay]
  BY SettleInvTracks DEF Advance, SettleInv, SettleInvWith, Shape, TimingInv
<1>2. /\ state' = state /\ pending' = pending /\ staged' = staged /\ failed' = failed
      /\ phase' = "pop" /\ batch' = queue[E] /\ queue' = Shifted(queue, E)
      /\ demand' = demand
      /\ held' = [g \in Gate |-> IF held[g] + E < GateDelay THEN held[g] + E ELSE GateDelay]
  BY DEF Advance, TimePasses
<1>3. E \in Delay /\ \A d \in Delay : queue[d] # <<>> => E <= d
  BY EarliestDueFacts DEF Advance
<1> HIDE DEF E
<1>4. held' \in [Gate -> 0..GateDelay]
  BY <1>1, <1>2, <1>3 DEF GateDelay, Delay
<1>5. ASSUME NEW g \in Gate, pending[g].gen # 0
      PROVE  \/ DueWithDemand(g)'
             \/ pending[g].val = demand[g] /\ held'[g] = GateDelay /\ InBatch(PendingEvent(g))'
  <2>1. DueWithDemand(g) /\ held[g] \in 0..GateDelay
    BY <1>1, <1>5 DEF RestTiming
  <2> DEFINE d == GateDelay - held[g]
  <2>2. d \in Delay
    BY <2>1 DEF DueWithDemand, Delay, GateDelay
  <2>3. PICK i \in 1..Len(queue[d]) : queue[d][i] = PendingEvent(g)
    BY <2>1 DEF DueWithDemand, DueIn
  <2>4. PendingEvent(g)' = PendingEvent(g)
    BY <1>2 DEF PendingEvent
  <2>5. E <= d
    BY <1>3, <2>2, <2>3, NoneIn
  <2>6. CASE E = d
    <3>1. held'[g] = GateDelay
      BY <1>2, <1>3, <2>1, <2>6 DEF GateDelay, Delay
    <3>2. InBatch(PendingEvent(g))'
      BY <1>2, <2>3, <2>4, <2>6 DEF InBatch
    <3> QED
      BY <2>1, <3>1, <3>2 DEF DueWithDemand
  <2>7. CASE E # d
    <3>1. held'[g] = held[g] + E /\ held'[g] < GateDelay
      BY <1>2, <1>3, <2>1, <2>5, <2>7 DEF GateDelay, Delay
    <3>2. GateDelay - held'[g] \in Delay /\ (GateDelay - held'[g]) + E = d
      BY <1>3, <2>1, <2>2, <2>5, <2>7, <3>1 DEF GateDelay, Delay
    <3>3. queue'[GateDelay - held'[g]] = queue[d]
      BY <1>2, <2>2, <3>2 DEF Shifted
    <3>4. DueIn(g, GateDelay - held[g])'
      BY <2>3, <2>4, <3>3 DEF DueIn
    <3> QED
      BY <1>2, <2>1, <3>1, <3>4 DEF DueWithDemand
  <2> QED
    BY <2>6, <2>7
<1>6. \A g \in Gate : pending[g].gen = 0 => state[g] = demand[g]
  BY <1>1 DEF RestTiming, QueueTracksTargets, PendingTracksTarget, Consistent
<1>7. StepTiming'
  BY <1>1, <1>2, <1>5, <1>6, NoneIn DEF StepTiming
<1> QED
  BY <1>2, <1>4, <1>7 DEF TimingInv

\* A host call changes nothing that gates wait for.
LEMMA HostCallTiming ==
  ASSUME TypeOK, SettleInv, TimingInv, HostCall, UNCHANGED history
  PROVE  TimingInv'
<1>1. PICK c \in HostPin \cup Memory : \E v \in State(Width[c]) : HostEvent(c, v)
  BY HostCallCases
<1>2. PICK v \in State(Width[c]) : HostEvent(c, v)
  BY <1>1
<1>3. /\ phase = "idle" /\ ~failed /\ RestTiming /\ held \in [Gate -> 0..GateDelay]
      /\ PropagateEvent(c, v) /\ state' = state /\ pending' = pending /\ failed' = failed
      /\ demand' = demand /\ held' = held
  BY <1>2 DEF HostEvent, Callable, TimingInv, history
<1>4. \A g \in Gate : pending[g].gen = 0
  BY <1>3, NoneIn DEF SettleInv, SettleInvWith, Shape, QueueEmpty, PendingQueued, InQueue, InBatch, InStep
<1>5. phase' \in {"idle", "next"}
  BY <1>3 DEF PropagateEvent
<1>6. RestTiming'
  BY <1>3, <1>4 DEF RestTiming
<1> QED
  BY <1>3, <1>5, <1>6 DEF TimingInv, InStep

\* The pending transition a live event carries out was due, for no other event has its
\* generation.
LEMMA PopLiveTiming ==
  ASSUME TypeOK, SettleInv, GenInv, TimingInv, ~failed, PopLive, UNCHANGED history
  PROVE  TimingInv'
<1> DEFINE e == Head(batch)
           s == Candidate(e)
           n == Len(staged) + 1
<1>1. /\ phase = "pop" /\ batch # <<>> /\ StepTiming /\ held \in [Gate -> 0..GateDelay]
      /\ GenerationsDiffer
  BY DEF PopLive, TimingInv, InStep, GenInv
<1>2. /\ state' = state /\ queue' = queue /\ phase' = phase /\ failed' = failed
      /\ batch' = Tail(batch) /\ staged' = Append(staged, s)
      /\ demand' = demand /\ held' = held
      /\ pending' = IF e.gen = 0 THEN pending ELSE [pending EXCEPT ![e.comp] = Dropped(@)]
      /\ Live(e)
  BY DEF PopLive, history
<1>3. /\ e \in Event /\ e.comp \in Component /\ e.gen \in Nat /\ (e.gen # 0 <=> e.comp \in Gate)
      /\ 1 \in 1..Len(batch) /\ batch[1] = e
      /\ \A i \in 1..Len(batch) : i # 1 =>
           i - 1 \in 1..Len(Tail(batch)) /\ Tail(batch)[i - 1] = batch[i]
  BY <1>1, TailEvents, BatchFacts DEF TypeOK
<1>4. s.comp = e.comp /\ s.val = e.val /\ (s.gate <=> e.gen # 0)
  BY DEF Candidate
<1>5. staged \in Seq(StagedEvent) /\ Len(staged) \in Nat
  BY StagedFacts
<1> HIDE DEF e, s
<1>6. /\ \A i \in 1..Len(staged) : i \in 1..Len(staged') /\ staged'[i] = staged[i]
      /\ \A i \in 1..Len(staged') : i \in 1..Len(staged) \/ staged'[i] = s
      /\ n \in 1..Len(staged') /\ staged'[n] = s
  BY <1>2, <1>5
<1> HIDE DEF n
<1>7. \A g \in Gate :
        \/ pending'[g] = pending[g] /\ (g # e.comp \/ e.gen = 0)
        \/ g = e.comp /\ pending'[g].gen = 0
  BY <1>2, <1>3 DEF Dropped, TypeOK, Gate
<1>8. ASSUME e.gen # 0
      PROVE  e.val = demand[e.comp] /\ held[e.comp] = GateDelay
  <2>1. pending[e.comp].gen = e.gen /\ pending[e.comp].val = e.val /\ e.comp \in Gate
    BY <1>2, <1>3, <1>8 DEF Live
  <2>2. ~DueWithDemand(e.comp)
    <3> SUFFICES ASSUME DueWithDemand(e.comp)
                 PROVE  FALSE
      OBVIOUS
    <3>1. GateDelay - held[e.comp] \in Delay
      BY <1>1, <2>1 DEF DueWithDemand, Delay, GateDelay
    <3>2. PICK i \in 1..Len(queue[GateDelay - held[e.comp]]) :
            queue[GateDelay - held[e.comp]][i] = PendingEvent(e.comp)
      BY DEF DueWithDemand, DueIn
    <3>3. Same(queue[GateDelay - held[e.comp]][i], batch[1])
      BY <1>3, <1>8, <2>1, <3>2 DEF PendingEvent, Same
    <3> QED
      BY <1>1, <1>3, <3>1, <3>3 DEF GenerationsDiffer
  <2> QED
    BY <1>1, <1>8, <2>1, <2>2 DEF StepTiming
<1>9. \A x : x = e.comp \/ Staged(x) => Staged(x)'
  BY <1>4, <1>6 DEF Staged
<1>10. ASSUME NEW g \in Gate, pending'[g].gen # 0
       PROVE  \/ DueWithDemand(g)'
              \/ pending'[g].val = demand[g] /\ held[g] = GateDelay /\ InBatch(PendingEvent(g))'
  <2>1. pending'[g] = pending[g] /\ (g # e.comp \/ e.gen = 0)
    BY <1>7, <1>10
  <2>2. PendingEvent(g)' = PendingEvent(g) /\ PendingEvent(g) # e
    BY <1>10, <2>1 DEF PendingEvent
  <2>3. CASE DueWithDemand(g)
    BY <1>1, <1>2, <2>1, <2>3, DueStays, QueueUnchanged
  <2>4. CASE pending[g].val = demand[g] /\ held[g] = GateDelay /\ InBatch(PendingEvent(g))
    <3>1. PICK i \in 1..Len(batch) : batch[i] = PendingEvent(g)
      BY <2>4 DEF InBatch
    <3>2. i - 1 \in 1..Len(batch') /\ batch'[i - 1] = PendingEvent(g)
      BY <1>2, <1>3, <2>2, <3>1
    <3> QED
      BY <2>1, <2>2, <2>4, <3>2 DEF InBatch
  <2> QED
    BY <1>1, <1>10, <2>1, <2>3, <2>4 DEF StepTiming
<1>11. ASSUME NEW g \in Gate, pending'[g].gen = 0
       PROVE  Staged(g)' \/ state[g] = demand[g]
  BY <1>1, <1>7, <1>9, <1>11 DEF StepTiming
<1>12. ASSUME NEW i \in 1..Len(staged'), staged'[i].gate
       PROVE  staged'[i].val = demand[staged'[i].comp] /\ held[staged'[i].comp] = GateDelay
  BY <1>1, <1>4, <1>6, <1>8, <1>12 DEF StepTiming
<1>13. StepTiming'
  BY <1>2, <1>10, <1>11, <1>12 DEF StepTiming
<1> QED
  BY <1>1, <1>2, <1>13 DEF TimingInv, InStep

\* A stale event is not the one a transition waits for.
LEMMA PopStaleTiming ==
  ASSUME TypeOK, TimingInv, ~failed, PopStale, UNCHANGED history
  PROVE  TimingInv'
<1>1. /\ phase = "pop" /\ batch # <<>> /\ StepTiming /\ held \in [Gate -> 0..GateDelay]
  BY DEF PopStale, TimingInv, InStep
<1>2. /\ state' = state /\ queue' = queue /\ phase' = phase /\ failed' = failed
      /\ batch' = Tail(batch) /\ staged' = staged /\ pending' = pending
      /\ demand' = demand /\ held' = held /\ ~Live(Head(batch))
  BY DEF PopStale, history
<1>3. /\ batch[1] = Head(batch)
      /\ \A i \in 1..Len(batch) : i # 1 =>
           i - 1 \in 1..Len(Tail(batch)) /\ Tail(batch)[i - 1] = batch[i]
  BY <1>1, BatchFacts
<1>4. ASSUME NEW g \in Gate, pending[g].gen # 0
      PROVE  \/ DueWithDemand(g)'
             \/ pending[g].val = demand[g] /\ held[g] = GateDelay /\ InBatch(PendingEvent(g))'
  <2>1. PendingEvent(g)' = PendingEvent(g)
    BY <1>2 DEF PendingEvent
  <2>2. CASE DueWithDemand(g)
    BY <1>1, <1>2, <2>2, DueStays, QueueUnchanged
  <2>3. CASE pending[g].val = demand[g] /\ held[g] = GateDelay /\ InBatch(PendingEvent(g))
    <3>1. PICK i \in 1..Len(batch) : batch[i] = PendingEvent(g)
      BY <2>3 DEF InBatch
    <3>2. Live(PendingEvent(g))
      BY DEF Live, PendingEvent, TypeOK, Gate
    <3>3. i - 1 \in 1..Len(batch') /\ batch'[i - 1] = PendingEvent(g)
      BY <1>2, <1>3, <3>1, <3>2
    <3> QED
      BY <2>1, <2>3, <3>3 DEF InBatch
  <2> QED
    BY <1>1, <1>4, <2>2, <2>3 DEF StepTiming
<1>5. StepTiming'
  BY <1>1, <1>2, <1>4 DEF StepTiming, Staged
<1> QED
  BY <1>1, <1>2, <1>5 DEF TimingInv, InStep

\* Projecting and judging write only what is staged.
LEMMA JudgeTiming ==
  ASSUME TypeOK, TimingInv, ~failed, UNCHANGED history,
         StageDone \/ Project \/ StartValidation \/ ValidateWave
  PROVE  TimingInv'
<1>1. /\ InStep /\ StepTiming /\ held \in [Gate -> 0..GateDelay]
      /\ demand' = demand /\ held' = held
  BY DEF StageDone, Project, StartValidation, ValidateWave, TimingInv, InStep, history
<1>2. /\ queue' = queue /\ batch' = batch /\ pending' = pending /\ failed' = failed /\ InStep'
  BY DEF StageDone, Project, StartValidation, ValidateWave, step, InStep
<1>3. /\ staged \in Seq(StagedEvent) /\ Len(staged) \in Nat /\ DOMAIN staged = 1..Len(staged)
      /\ \A i \in 1..Len(staged) : staged[i].comp \in Component
  BY StagedFacts
<1>4. /\ Len(staged') = Len(staged)
      /\ \A i \in 1..Len(staged) : /\ staged'[i].comp = staged[i].comp
                                   /\ staged'[i].val = staged[i].val
                                   /\ staged'[i].gate = staged[i].gate
      /\ \A c \in Component : state'[c] = state[c] \/ Staged(c)
  <2>1. CASE StageDone \/ StartValidation
    BY <2>1 DEF StageDone, StartValidation, step
  <2>2. CASE Project
    <3>1. idx + 1 \in 1..Len(staged)
      BY <2>2, StagedFacts DEF Project
    <3>2. /\ staged' = [staged EXCEPT ![idx + 1] = Projected(@)]
          /\ state' = [state EXCEPT ![staged[idx + 1].comp] = staged[idx + 1].val]
      BY <2>2 DEF Project
    <3> QED
      BY <1>3, <3>1, <3>2 DEF Projected, Staged, TypeOK, Pool
  <2>3. CASE ValidateWave
    <3>1. /\ staged' = [i \in DOMAIN staged |->
                          IF i \in Flips THEN Reversed(staged[i]) ELSE staged[i]]
          /\ state' = [c \in Component |-> FlippedState(c)]
      BY <2>3 DEF ValidateWave
    <3>2. \A i \in 1..Len(staged) : /\ staged'[i].comp = staged[i].comp
                                    /\ staged'[i].val = staged[i].val
                                    /\ staged'[i].gate = staged[i].gate
      BY <1>3, <3>1 DEF Reversed
    <3>3. \A i \in Flips : i \in 1..Len(staged)
      BY <1>3 DEF Flips, TypeOK
    <3>4. \A c \in Component : state'[c] = state[c] \/ Staged(c)
      BY <3>1, <3>3 DEF FlippedState, Staged
    <3>5. CandidatesOK(staged') /\ DOMAIN staged' = 1..Len(staged)
      BY <1>3, <2>3, <3>1, StepType DEF Next, Propagate, TypeOK
    <3>6. Len(staged') = Len(staged)
      <4>1. Len(staged') \in Nat /\ 1..Len(staged') = 1..Len(staged)
        BY <3>5 DEF CandidatesOK
      <4> QED
        BY <1>3, <4>1
    <3> QED
      BY <3>2, <3>4, <3>6
  <2> QED
    BY <2>1, <2>2, <2>3
<1>5. \A x : Staged(x) => Staged(x)'
  BY <1>4 DEF Staged
<1>6. \A g \in Gate : DueWithDemand(g) => DueWithDemand(g)'
  BY <1>1, <1>2, DueStays, QueueUnchanged
<1>7. ASSUME NEW g \in Gate, pending[g].gen # 0
      PROVE  \/ DueWithDemand(g)'
             \/ pending[g].val = demand[g] /\ held[g] = GateDelay /\ InBatch(PendingEvent(g))'
  BY <1>1, <1>2, <1>6, <1>7 DEF StepTiming, InBatch, PendingEvent
<1>8. ASSUME NEW g \in Gate, pending[g].gen = 0
      PROVE  Staged(g)' \/ state'[g] = demand[g]
  BY <1>1, <1>4, <1>5, <1>8 DEF StepTiming, Gate
<1>9. StepTiming'
  BY <1>1, <1>2, <1>4, <1>7, <1>8 DEF StepTiming
<1> QED
  BY <1>1, <1>2, <1>9 DEF TimingInv, InStep

\* What is committed has been asked for long enough, and what was rejected is not asked
\* for any more.
LEMMA CommitTiming ==
  ASSUME TypeOK, SettleInv, TimingInv, ~failed, Commit, UNCHANGED history
  PROVE  TimingInv'
<1>1. /\ InStep /\ phase = "validate" /\ StepTiming /\ held \in [Gate -> 0..GateDelay]
      /\ batch = <<>> /\ wave = {} /\ VerdictsStand
  BY DEF Commit, TimingInv, InStep, SettleInv, SettleInvWith, Shape
<1>2. PICK s0 \in Pool : StepFrom(s0)
  BY <1>1 DEF SettleInv, SettleInvWith
<1>3. /\ state' = state /\ queue' = queue /\ pending' = pending /\ failed' = failed
      /\ demand' = demand /\ held' = held /\ phase' = "notify"
  BY DEF Commit, history
<1>4. ASSUME NEW g \in Gate, pending[g].gen # 0
      PROVE  DueWithDemand(g)'
  BY <1>1, <1>3, <1>4, NoneIn, DueStays, QueueUnchanged DEF StepTiming, InBatch
<1>5. ASSUME NEW g \in Gate, pending[g].gen = 0
      PROVE  Consistent(g) \/ Target(g, state) # demand[g]
  <2>1. CASE ~Staged(g)
    BY <1>1, <1>5, <2>1 DEF StepTiming, Consistent
  <2>2. CASE Staged(g)
    <3>1. PICK i \in 1..Len(staged) : staged[i].comp = g
      BY <2>2 DEF Staged
    <3>2. staged[i].gate /\ IsProjected(i)
      BY <1>1, <3>1, StagedFacts DEF IsProjected
    <3>3. /\ staged[i].val = demand[g]
          /\ staged[i].accepted <=> Target(g, state) = staged[i].val
      BY <1>1, <3>1, <3>2 DEF StepTiming, VerdictsStand, Supported
    <3>4. staged[i].accepted => state[g] = staged[i].val
      BY <1>2, <3>1, <3>2 DEF StepFrom, GatesShowVerdict
    <3> QED
      BY <3>3, <3>4 DEF Consistent
  <2> QED
    BY <2>1, <2>2
<1>6. NotifyTiming'
  BY <1>3, <1>4, <1>5 DEF NotifyTiming, Consistent
<1> QED
  BY <1>1, <1>3, <1>6 DEF TimingInv, InStep

\* A transition that is started now is to a demand that is new.
LEMMA EvaluationTiming ==
  ASSUME TypeOK, TimingInv, ~failed, NEW c \in Component, Recalculate(c),
         phase \in {"notify", "requeue"}, UNCHANGED <<state, phase, failed>>, UNCHANGED history
  PROVE  TimingInv'
<1>1. /\ NotifyTiming /\ held \in [Gate -> 0..GateDelay]
      /\ state' = state /\ phase' = phase /\ failed' = failed /\ demand' = demand /\ held' = held
  BY DEF TimingInv, history
<1>2. QueueKept /\ \A g \in Gate : g # c => pending'[g] = pending[g]
  BY Evaluated
<1>3. ASSUME NEW g \in Gate, pending'[g] = pending[g]
      PROVE  /\ pending'[g].gen # 0 =>
                  \/ DueWithDemand(g)'
                  \/ /\ pending'[g].val = Target(g, state) /\ pending'[g].val # demand[g]
                     /\ DueIn(g, GateDelay)'
             /\ pending'[g].gen = 0 => Consistent(g) \/ Target(g, state) # demand[g]
  BY <1>1, <1>2, <1>3, DueStays, DelayFacts DEF NotifyTiming
<1>4. ASSUME c \in Gate, pending'[c] # pending[c]
      PROVE  /\ pending'[c].gen # 0 =>
                  /\ pending'[c].val = Target(c, state) /\ pending'[c].val # demand[c]
                  /\ DueIn(c, GateDelay)'
             /\ pending'[c].gen = 0 => Consistent(c)
  <2> DEFINE v == Target(c, state)
             e == [comp |-> c, val |-> v, gen |-> nextGen]
  <2>1. ScheduleInertial(c, v) /\ c \notin Memory
    BY <1>4, KindsApart DEF Recalculate
  <2>2. CASE state[c] = v
    BY <1>4, <2>1, <2>2 DEF ScheduleInertial, Dropped, Consistent, TypeOK, Gate
  <2>3. CASE state[c] # v
    <3>1. /\ ~(pending[c].gen # 0 /\ pending[c].val = v)
          /\ pending' = [pending EXCEPT ![c] = [gen |-> nextGen, val |-> v]]
          /\ queue' = [queue EXCEPT ![GateDelay] = Append(@, e)]
      BY <1>4, <2>1, <2>3 DEF ScheduleInertial
    <3>2. v # demand[c]
      BY <1>1, <1>4, <2>3, <3>1 DEF NotifyTiming, DueWithDemand, Consistent
    <3>3. e \in Event /\ nextGen # 0
      <4>1. v \in State(Width[c]) /\ c \in Component
        BY <1>4, TargetType DEF TypeOK, Gate
      <4> QED
        BY <4>1, AnyStateType, GenFacts DEF Event
    <3>4. queue \in [Delay -> Seq(Event)] /\ GateDelay \in Delay
      BY DelayFacts DEF TypeOK
    <3>5. pending'[c].gen = nextGen /\ pending'[c].val = v /\ PendingEvent(c)' = e
      BY <1>4, <3>1 DEF PendingEvent, TypeOK, Gate
    <3> HIDE DEF e
    <3>6. \E i \in 1..Len(queue'[GateDelay]) : queue'[GateDelay][i] = e
      BY <3>1, <3>3, <3>4, Added
    <3> QED
      BY <3>2, <3>3, <3>5, <3>6 DEF DueIn
  <2> QED
    BY <2>2, <2>3
<1>5. NotifyTiming'
  BY <1>1, <1>2, <1>3, <1>4 DEF NotifyTiming, Consistent
<1> QED
  BY <1>1, <1>5 DEF TimingInv, InStep

\* The demand of the timestamp is what the transitions were started for.
LEMMA EndStepTiming ==
  ASSUME TypeOK, SettleInv, TimingInv, ~failed, EndStep, TimestampEnds
  PROVE  TimingInv'
<1>1. /\ NotifyTiming /\ held \in [Gate -> 0..GateDelay] /\ outs = <<>> /\ Owed
      /\ phase = "requeue"
  BY DEF EndStep, TimingInv, SettleInv, SettleInvWith, Shape, InStep
<1>2. /\ state' = state /\ queue' = queue /\ pending' = pending /\ failed' = failed
      /\ phase' = "next"
      /\ demand' = [g \in Gate |-> Target(g, state)]
      /\ held' = [g \in Gate |-> IF Target(g, state) = demand[g] THEN held[g] ELSE 0]
  BY DEF EndStep, TimestampEnds
<1>3. held' \in [Gate -> 0..GateDelay]
  BY <1>1, <1>2 DEF GateDelay
<1>4. ASSUME NEW g \in Gate, pending[g].gen # 0
      PROVE  DueWithDemand(g)'
  <2>1. pending[g].val = Target(g, state)
    BY <1>1, <1>4, NoneIn DEF Owed, PendingOwed, ToNotify
  <2>2. \A d : DueIn(g, d) => \E i \in 1..Len(queue'[d]) : queue'[d][i] = PendingEvent(g)'
    BY <1>2 DEF DueIn, PendingEvent
  <2>3. CASE DueWithDemand(g)
    <3>1. held'[g] = held[g] /\ demand'[g] = pending'[g].val
      BY <1>2, <2>1, <2>3 DEF DueWithDemand
    <3> QED
      BY <2>2, <2>3, <3>1 DEF DueWithDemand, DueIn
  <2>4. CASE pending[g].val # demand[g] /\ DueIn(g, GateDelay)
    <3>1. held'[g] = 0 /\ demand'[g] = pending'[g].val /\ GateDelay - held'[g] = GateDelay
      BY <1>2, <2>1, <2>4 DEF GateDelay
    <3> QED
      BY <2>2, <2>4, <3>1 DEF DueWithDemand, DueIn, GateDelay
  <2> QED
    BY <1>1, <1>4, <2>3, <2>4 DEF NotifyTiming
<1>5. RestTiming'
  BY <1>2, <1>4 DEF RestTiming
<1> QED
  BY <1>2, <1>3, <1>5 DEF TimingInv, InStep

\* Before the first timestamp nothing is demanded.
LEMMA InitTiming == HInit => TimingInv
<1> SUFFICES ASSUME HInit
             PROVE  TimingInv
  OBVIOUS
<1>1. /\ phase = "idle" /\ \A c \in Component : state[c] = Undefined(Width[c]) /\ pending[c].gen = 0
      /\ demand = [g \in Gate |-> Undefined(Width[g])]
      /\ held = [g \in Gate |-> GateDelay]
  BY DEF HInit, Init
<1>2. RestTiming
  BY <1>1, UndefinedTarget DEF RestTiming, Gate
<1> QED
  BY <1>1, <1>2 DEF TimingInv, InStep, GateDelay

\* Every step keeps the count of how long a gate has been asked for its value.
LEMMA StepTimingKept ==
  ASSUME TypeOK, SettleInv, PinInv, GenInv, TimingInv, [HNext]_<<vars, history>>
  PROVE  TimingInv'
<1>1. CASE UNCHANGED <<vars, history>>
  BY <1>1 DEF vars, step, history, TimingInv, InStep, RestTiming, StepTiming, NotifyTiming,
     DueWithDemand, DueIn, PendingEvent, InBatch, Staged, Consistent
<1>2. CASE failed /\ HNext
  <2>1. UNCHANGED vars
    BY <1>2, HistoryStep, FailedStutters
  <2>2. ~Advance /\ ~EndStep /\ ~NoSettle
    BY <1>2, GenFacts DEF PinInv, Advance, EndStep, NoSettle, WorkNeeded
  <2> QED
    BY <1>1, <1>2, <2>1, <2>2 DEF HNext
<1>3. CASE ~failed /\ HNext
  <2>1. CASE HostCall /\ UNCHANGED history
    BY <2>1, HostCallTiming
  <2>2. CASE Advance /\ TimePasses
    BY <1>3, <2>2, AdvanceTiming
  <2>3. CASE NotifyOutput /\ UNCHANGED history
    <3>1. outs \in Seq(Component) /\ outs # <<>>
      BY <2>3 DEF NotifyOutput, TypeOK
    <3> QED
      BY <1>3, <2>3, <3>1, EvaluationTiming DEF NotifyOutput
  <2>4. CASE RequeueRejected /\ UNCHANGED history
    <3>1. idx + 1 \in 1..Len(staged)
      BY <2>4, StagedFacts DEF RequeueRejected
    <3>2. staged[idx + 1].comp \in Component
      BY <3>1, StagedFacts
    <3> QED
      BY <1>3, <2>4, <3>2, EvaluationTiming DEF RequeueRejected
  <2>5. CASE (NextChanged \/ NotifyDone \/ SkipAccepted) /\ UNCHANGED history
    <3>1. /\ state' = state /\ queue' = queue /\ pending' = pending /\ failed' = failed
          /\ demand' = demand /\ held' = held
          /\ phase \in {"notify", "requeue"} /\ phase' \in {"notify", "requeue"}
      BY <2>5 DEF NextChanged, NotifyDone, SkipAccepted, history
    <3>2. NotifyTiming'
      BY <1>3, <3>1 DEF TimingInv, NotifyTiming, DueWithDemand, DueIn, PendingEvent, Consistent
    <3> QED
      BY <3>1, <3>2 DEF TimingInv, InStep
  <2>6. CASE EndStep /\ TimestampEnds
    BY <1>3, <2>6, EndStepTiming
  <2>7. CASE Return /\ UNCHANGED history
    <3>1. /\ state' = state /\ queue' = queue /\ pending' = pending /\ failed' = failed
          /\ demand' = demand /\ held' = held /\ phase = "next" /\ phase' = "idle"
      BY <2>7 DEF Return, history
    <3>2. RestTiming'
      BY <1>3, <3>1 DEF TimingInv, RestTiming, DueWithDemand, DueIn, PendingEvent
    <3> QED
      BY <3>1, <3>2 DEF TimingInv, InStep
  <2>8. CASE NoSettle /\ UNCHANGED history
    BY <2>8 DEF NoSettle, history, TimingInv
  <2> QED
    BY <1>3, <2>1, <2>2, <2>3, <2>4, <2>5, <2>6, <2>7, <2>8,
       PopLiveTiming, PopStaleTiming, JudgeTiming, CommitTiming DEF HNext, WithinTimestamp
<1> QED
  BY <1>1, <1>2, <1>3

-----------------------------------------------------------------------------
(* Clock edges *)

\* An evaluation of m stores a word on an edge and in no other memory.
LEMMA EvaluationStores ==
  ASSUME TypeOK, NEW c \in Component, Recalculate(c)
  PROVE  /\ \A m \in Memory : m # c => cells'[m] = cells[m]
         /\ \A m \in Memory : m = c =>
              cells'[m] = IF RamWrites(m) THEN Captured(m) ELSE cells[m]
<1>1. cells \in CellPlanes /\ \A m \in Memory : m \in DOMAIN cells
  BY DEF TypeOK, CellPlanes
<1>2. CASE c \in Memory
  <2>1. cells' = IF RamWrites(c)
                   THEN [cells EXCEPT ![c][AddressOf(c, state)] = DataIn(c, state)] ELSE cells
    BY <1>2 DEF Recalculate, RecalculateMemory, Written
  <2> QED
    BY <1>1, <1>2, <2>1 DEF Captured
<1>3. CASE c \notin Memory
  BY <1>3 DEF Recalculate
<1> QED
  BY <1>2, <1>3

\* The word of an edge is in its cell once it is captured.
LEMMA CapturedHolds ==
  ASSUME TypeOK, NEW m \in Memory, HasAddress(m, state)
  PROVE  Captured(m)[AddressOf(m, state)] = DataIn(m, state)
<1>1. AddressOf(m, state) \in Address(m)
  BY AddressType DEF TypeOK
<1>2. cells[m] \in [Address(m) -> State(Width[m])]
  BY DEF TypeOK, CellPlanes
<1> QED
  BY <1>1, <1>2 DEF Captured

\* An evaluation shows a ram the clock and stores what an edge asks for.
LEMMA EvaluationClock ==
  ASSUME TypeOK, ClockInv, ~failed, NEW c \in Component, Recalculate(c),
         phase \in {"notify", "requeue"}, UNCHANGED <<state, phase, failed>>, UNCHANGED history
  PROVE  ClockInv'
<1>1. /\ \A m \in Ram :
           /\ prevClk[m] \in {lastClk[m], ControlBit(m, "clk", state)}
           /\ /\ Rose(m) /\ prevClk[m] = "1"
              /\ ControlBit(m, "we", state) = "1" /\ HasAddress(m, state)
              => cells[m][AddressOf(m, state)] = DataIn(m, state)
      /\ state' = state /\ phase' = phase /\ failed' = failed /\ lastClk' = lastClk
  BY DEF ClockInv, EdgeKept, history
<1>2. SUFFICES ASSUME NEW m \in Ram
               PROVE  /\ prevClk'[m] \in {lastClk[m], ControlBit(m, "clk", state)}
                      /\ /\ Rose(m) /\ prevClk'[m] = "1"
                         /\ ControlBit(m, "we", state) = "1" /\ HasAddress(m, state)
                         => cells'[m][AddressOf(m, state)] = DataIn(m, state)
  BY <1>1 DEF ClockInv, EdgeKept, Rose
<1>3. m \in Memory /\ Kind[m] = "ram"
  BY DEF Ram
<1>4. CASE m # c
  BY <1>1, <1>3, <1>4, ClockSeen, EvaluationStores
<1>5. CASE m = c
  <2>1. prevClk'[m] = ControlBit(m, "clk", state)
    BY <1>5, ClockSeen
  <2>2. cells'[m] = IF RamWrites(m) THEN Captured(m) ELSE cells[m]
    BY <1>3, <1>5, EvaluationStores
  <2>3. ASSUME Rose(m), ControlBit(m, "we", state) = "1", HasAddress(m, state)
        PROVE  cells'[m][AddressOf(m, state)] = DataIn(m, state)
    <3>1. CASE RamWrites(m)
      BY <1>3, <2>2, <2>3, <3>1, CapturedHolds
    <3>2. CASE ~RamWrites(m)
      <4>1. prevClk[m] = "1"
        BY <1>1, <1>3, <2>3, <3>2 DEF RamWrites, Rose
      <4> QED
        BY <1>1, <2>2, <2>3, <3>2, <4>1
    <3> QED
      BY <3>1, <3>2
  <2> QED
    BY <2>1, <2>3
<1> QED
  BY <1>4, <1>5

\* Every step keeps the clock of the edge detectors.
LEMMA StepClock ==
  ASSUME TypeOK, SettleInv, PinInv, ClockInv, [HNext]_<<vars, history>>
  PROVE  ClockInv'
<1>1. CASE UNCHANGED <<vars, history>>
  BY <1>1 DEF vars, history, ClockInv, EdgeKept, Rose
<1>2. CASE failed /\ HNext
  <2>1. UNCHANGED vars
    BY <1>2, HistoryStep, FailedStutters
  <2> QED
    BY <1>2, <2>1 DEF vars, ClockInv
<1>3. CASE ~failed /\ HNext
  <2>1. CASE HostCall /\ UNCHANGED history
    <3>1. PICK c \in HostPin \cup Memory : \E v \in State(Width[c]) : HostEvent(c, v)
      BY <2>1, HostCallCases
    <3>2. PICK v \in State(Width[c]) : HostEvent(c, v)
      BY <3>1
    <3>3. /\ phase = "idle" /\ phase' \in {"idle", "next"} /\ prevClk' = prevClk
          /\ lastClk' = lastClk /\ failed' = failed
      BY <2>1, <3>2 DEF HostEvent, Callable, PropagateEvent, history
    <3> QED
      BY <3>3 DEF ClockInv
  <2>2. CASE \/ Advance /\ TimePasses
             \/ (PopLive \/ PopStale \/ StageDone \/ Project \/ StartValidation \/ ValidateWave
                   \/ Return) /\ UNCHANGED history
    <3>1. /\ phase \notin {"notify", "requeue"} /\ phase' \notin {"notify", "requeue"}
          /\ prevClk' = prevClk /\ lastClk' = lastClk /\ failed' = failed
      BY <2>2 DEF Advance, TimePasses, PopLive, PopStale, StageDone, Project, StartValidation,
         ValidateWave, Return, history
    <3> QED
      BY <3>1 DEF ClockInv
  <2>3. CASE Commit /\ UNCHANGED history
    <3>1. /\ phase = "validate" /\ phase' = "notify" /\ state' = state /\ cells' = cells
          /\ prevClk' = prevClk /\ lastClk' = lastClk /\ failed' = failed
      BY <2>3 DEF Commit, history
    <3>2. \A m \in Ram : prevClk[m] = lastClk[m] /\ ~(Rose(m) /\ prevClk[m] = "1")
      BY <1>3, <3>1 DEF ClockInv, EdgeKept, Rose
    <3>3. \A m \in Ram : prevClk'[m] = lastClk'[m] /\ ~(Rose(m)' /\ prevClk'[m] = "1")
      BY <3>1, <3>2 DEF Rose
    <3>4. ASSUME NEW m \in Ram PROVE EdgeKept(m)'
      BY <3>3 DEF EdgeKept
    <3> QED
      BY <3>1, <3>4 DEF ClockInv
  <2>4. CASE (NextChanged \/ NotifyDone \/ SkipAccepted) /\ UNCHANGED history
    <3>1. /\ state' = state /\ cells' = cells /\ prevClk' = prevClk /\ failed' = failed
          /\ lastClk' = lastClk
          /\ phase \in {"notify", "requeue"} /\ phase' \in {"notify", "requeue"}
      BY <2>4 DEF NextChanged, NotifyDone, SkipAccepted, history
    <3> QED
      BY <1>3, <3>1 DEF ClockInv, EdgeKept, Rose
  <2>5. CASE NotifyOutput /\ UNCHANGED history
    <3>1. outs \in Seq(Component) /\ outs # <<>>
      BY <2>5 DEF NotifyOutput, TypeOK
    <3> QED
      BY <1>3, <2>5, <3>1, EvaluationClock DEF NotifyOutput
  <2>6. CASE RequeueRejected /\ UNCHANGED history
    <3>1. idx + 1 \in 1..Len(staged)
      BY <2>6, StagedFacts DEF RequeueRejected
    <3>2. staged[idx + 1].comp \in Component
      BY <3>1, StagedFacts
    <3> QED
      BY <1>3, <2>6, <3>2, EvaluationClock DEF RequeueRejected
  <2>7. CASE EndStep /\ TimestampEnds
    <3>1. /\ outs = <<>> /\ Owed /\ phase = "requeue"
      BY <1>3, <2>7 DEF EndStep, SettleInv, SettleInvWith, Shape, InStep
    <3>2. \A m \in Ram : prevClk[m] = ControlBit(m, "clk", state)
      BY <3>1, NoneIn DEF Owed, ClocksOwed, ToNotify
    <3>3. /\ state' = state /\ prevClk' = prevClk /\ phase' = "next"
          /\ lastClk' = [m \in Memory |-> ControlBit(m, "clk", state)]
      BY <2>7 DEF EndStep, TimestampEnds
    <3> QED
      BY <3>2, <3>3 DEF ClockInv, Ram
  <2>8. CASE NoSettle
    BY <2>8 DEF NoSettle, ClockInv
  <2> QED
    BY <1>3, <2>1, <2>2, <2>3, <2>4, <2>5, <2>6, <2>7, <2>8 DEF HNext, WithinTimestamp
<1> QED
  BY <1>1, <1>2, <1>3

\* No clock has been seen at first.
LEMMA InitClock == HInit => ClockInv
BY DEF HInit, Init, ClockInv, Ram, Memory

-----------------------------------------------------------------------------
(* What the invariants say *)

\* A ram writes on a rising clock and on nothing else.
LEMMA ClockEdge ==
  ASSUME TypeOK, SettleInv, PinInv, ClockInv, [HNext]_<<vars, history>>
  PROVE  WritesOnEdge /\ EdgeCaptures
<1>1. WritesOnEdge
  <2> SUFFICES ASSUME phase = "notify" \/ phase = "requeue", ~failed', NEW m \in Memory,
                      cells'[m] # cells[m]
               PROVE  Rose(m) /\ ControlBit(m, "we", state) = "1" /\ cells'[m] = Captured(m)
    BY DEF WritesOnEdge
  <2>1. PICK c \in Component : Recalculate(c)
    <3>1. NotifyOutput \/ RequeueRejected
      BY DEF HNext, WithinTimestamp, HostCall, Drive, MemoryWriteWord, MemoryClear,
         MemoryLoadImage, Callable, Advance, PopLive, PopStale, StageDone, Project,
         StartValidation, ValidateWave, Commit, NextChanged, NotifyDone, SkipAccepted, EndStep,
         Return, NoSettle, vars
    <3>2. CASE NotifyOutput
      <4>1. Head(outs) \in Component /\ Recalculate(Head(outs))
        BY <3>2 DEF NotifyOutput, TypeOK
      <4> QED
        BY <4>1
    <3>3. CASE RequeueRejected
      <4>1. idx + 1 \in 1..Len(staged) /\ Recalculate(staged[idx + 1].comp)
        BY <3>3, StagedFacts DEF RequeueRejected
      <4> QED
        BY <4>1, StagedFacts
    <3> QED
      BY <3>1, <3>2, <3>3
  <2>2. m = c /\ RamWrites(m) /\ cells'[m] = Captured(m)
    BY <2>1, EvaluationStores
  <2>3. m \in Ram /\ ~failed
    BY <2>2 DEF RamWrites, Ram, PinInv
  <2>4. prevClk[m] \in {lastClk[m], ControlBit(m, "clk", state)}
    BY <2>3 DEF ClockInv, EdgeKept
  <2> QED
    BY <2>2, <2>4 DEF RamWrites, Rose
<1>2. EdgeCaptures
  <2> SUFFICES ASSUME phase = "requeue", phase' = "next", NEW m \in Memory, Kind[m] = "ram",
                      Rose(m), ControlBit(m, "we", state) = "1", HasAddress(m, state)
               PROVE  cells[m][AddressOf(m, state)] = DataIn(m, state)
    BY DEF EdgeCaptures
  <2>1. EndStep
    BY DEF HNext, WithinTimestamp, HostCall, Drive, MemoryWriteWord, MemoryClear,
       MemoryLoadImage, Callable, Advance, PopLive, PopStale, StageDone, Project,
       StartValidation, ValidateWave, Commit, NextChanged, NotifyOutput, NotifyDone,
       RequeueRejected, SkipAccepted, Return, NoSettle, vars
  <2>2. m \in Ram /\ ~failed
    BY DEF Ram, PinInv
  <2>3. outs = <<>> /\ Owed
    BY <2>1, <2>2 DEF EndStep, SettleInv, SettleInvWith, Shape, InStep
  <2>4. prevClk[m] = "1"
    BY <2>1, <2>2, <2>3, NoneIn DEF EndStep, Owed, ClocksOwed, ToNotify, Rose
  <2> QED
    BY <2>2, <2>4 DEF ClockInv, EdgeKept
<1> QED
  BY <1>1, <1>2

\* At rest every edge detector has seen the clock as it is.
LEMMA RestClock ==
  ASSUME TypeOK, SettleInv
  PROVE  EdgeDetectorInStep
<1> SUFFICES ASSUME phase \in {"idle", "next"}, ~failed, NEW m \in Memory, Kind[m] = "ram"
             PROVE  prevClk[m] = ControlBit(m, "clk", state)
  BY DEF EdgeDetectorInStep
<1>1. staged = <<>> /\ outs = <<>> /\ Owed
  BY DEF SettleInv, SettleInvWith, Shape, InStep
<1> QED
  BY <1>1, NoneIn DEF Owed, ClocksOwed, ToNotify, Ram

\* At rest what a gate is asked for is what it has pending, as old as the demand.
LEMMA RestDelay ==
  ASSUME TypeOK, SettleInv, TimingInv
  PROVE  DelayIsExact
<1> SUFFICES ASSUME phase \in {"idle", "next"}, ~failed, NEW g \in Gate, held[g] = GateDelay
             PROVE  state[g] = demand[g]
  BY DEF DelayIsExact
<1>1. RestTiming /\ QueueTracksTargets
  BY SettleInvTracks DEF TimingInv
<1>2. pending[g].gen = 0
  BY <1>1 DEF RestTiming, DueWithDemand, GateDelay
<1> QED
  BY <1>1, <1>2 DEF RestTiming, QueueTracksTargets, PendingTracksTarget, Consistent

\* A gate changes to what it has been asked for all through its delay.
LEMMA CommitFilters ==
  ASSUME TypeOK, SettleInv, PinInv, TimingInv, [HNext]_<<vars, history>>,
         phase = "validate", phase' = "notify", NEW i \in DOMAIN staged,
         staged[i].gate, Changed(staged[i])
  PROVE  /\ demand[staged[i].comp] = staged[i].val
         /\ held[staged[i].comp] = GateDelay
         /\ Target(staged[i].comp, state) = staged[i].val
<1>1. Commit
  BY DEF HNext, WithinTimestamp, HostCall, Drive, MemoryWriteWord, MemoryClear,
     MemoryLoadImage, Callable, Advance, PopLive, PopStale, StageDone, Project,
     StartValidation, ValidateWave, EndStep, NextChanged, NotifyOutput, NotifyDone,
     RequeueRejected, SkipAccepted, Return, NoSettle, vars
<1>2. i \in 1..Len(staged) /\ ~failed
  BY StagedFacts DEF PinInv
<1>3. StepTiming /\ VerdictsStand /\ wave = {}
  BY <1>1, <1>2 DEF Commit, TimingInv, InStep, SettleInv, SettleInvWith
<1>4. Supported(i)
  BY <1>2, <1>3 DEF VerdictsStand, Changed
<1> QED
  BY <1>2, <1>3, <1>4 DEF StepTiming, Supported

\* What holds of the engine holds of the engine that remembers.
EdgesWatched == TypeOK /\ SettleInv /\ PinInv /\ ClockInv
DelaysWatched == TypeOK /\ SettleInv /\ PinInv /\ GenInv /\ TimingInv

\* The invariants behind the edges hold together, always.
LEMMA EdgesInvariant == HSpec => []EdgesWatched
<1>1. HInit => EdgesWatched
  BY InitType, InitSettle, InitPins, InitClock DEF HInit, EdgesWatched
<1>2. EdgesWatched /\ [HNext]_<<vars, history>> => EdgesWatched'
  BY HistoryStep, StepType, StepSettle, StepPins, StepClock DEF EdgesWatched
<1> QED
  BY <1>1, <1>2, PTL DEF HSpec

\* Those behind the delays too, while generations suffice.
LEMMA DelaysInvariant == GenerationsSuffice => (HSpec => []DelaysWatched)
<1> SUFFICES ASSUME GenerationsSuffice
             PROVE  HSpec => []DelaysWatched
  OBVIOUS
<1>1. HInit => DelaysWatched
  BY InitType, InitSettle, InitPins, InitGens, InitTiming DEF HInit, DelaysWatched
<1>2. DelaysWatched /\ [HNext]_<<vars, history>> => DelaysWatched'
  BY HistoryStep, StepType, StepSettle, StepPins, StepGens, StepTimingKept DEF DelaysWatched
<1> QED
  BY <1>1, <1>2, PTL DEF HSpec

(***************************************************************************)
(* DelayIsExact: a gate whose drivers have asked for a value for the whole *)
(* PROPAGATION_DELAY holds it, however often it was evaluated, replaced or *)
(* rejected in between.                                                    *)
(***************************************************************************)
THEOREM DelayExact == GenerationsSuffice => (HSpec => []DelayIsExact)
<1> SUFFICES ASSUME GenerationsSuffice
             PROVE  HSpec => []DelayIsExact
  OBVIOUS
<1>1. DelaysWatched => DelayIsExact
  BY RestDelay DEF DelaysWatched
<1> QED
  BY <1>1, DelaysInvariant, PTL

(***************************************************************************)
(* InertialFilter: what validation lets a gate commit, its drivers have    *)
(* asked for during the whole delay and ask for after the commit; no pulse *)
(* as short as the delay gets through a gate.                              *)
(***************************************************************************)
THEOREM PulsesAreFiltered == GenerationsSuffice => (HSpec => InertialFilter)
<1> SUFFICES ASSUME GenerationsSuffice
             PROVE  HSpec => InertialFilter
  OBVIOUS
<1> DEFINE Filters == phase = "validate" /\ phase' = "notify" =>
       \A i \in DOMAIN staged :
         staged[i].gate /\ Changed(staged[i]) =>
           /\ demand[staged[i].comp] = staged[i].val
           /\ held[staged[i].comp] = GateDelay
           /\ Target(staged[i].comp, state) = staged[i].val
<1>1. DelaysWatched /\ [HNext]_<<vars, history>> => [Filters]_vars
  BY CommitFilters DEF DelaysWatched
<1> QED
  BY <1>1, DelaysInvariant, PTL DEF HSpec, InertialFilter

(***************************************************************************)
(* EdgeDetectorInStep: between two timestamps prev_clk is the clock level  *)
(* of the pool, although evaluations any input caused store it.            *)
(***************************************************************************)
THEOREM DetectorInStep == HSpec => []EdgeDetectorInStep
<1>1. EdgesWatched => EdgeDetectorInStep
  BY RestClock DEF EdgesWatched
<1> QED
  BY <1>1, EdgesInvariant, PTL

(***************************************************************************)
(* OneStorePerEdge: a ram stores when its clock rose in the timestamp that *)
(* is being notified, the word of that timestamp, and no edge is missed.   *)
(***************************************************************************)
THEOREM StoresOnEdges == HSpec => OneStorePerEdge
<1>1. EdgesWatched /\ [HNext]_<<vars, history>> => [WritesOnEdge /\ EdgeCaptures]_vars
  BY ClockEdge DEF EdgesWatched
<1> QED
  BY <1>1, EdgesInvariant, PTL DEF HSpec, OneStorePerEdge
=============================================================================
