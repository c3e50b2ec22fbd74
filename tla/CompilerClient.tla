--------------------------- MODULE CompilerClient ---------------------------
(***************************************************************************)
(* The page's handle on the compiler worker (scripts/libcirc-client.ts)    *)
(* and the worker itself (workers/libcirc.worker.ts): one promise for each *)
(* message id, a handshake made once, a worker that may crash, and         *)
(* dispose(), after which the next call starts another worker.             *)
(* A request is a model value; what the library computes for it is not     *)
(* looked at, only which request a reply is the answer of.                 *)
(***************************************************************************)
EXTENDS Naturals, Sequences, FiniteSets, SequencesExt

CONSTANTS
  Request,      \* the calls of call() and reset()
  MaxWorkers,   \* bound: workers spawned, so dispose() happens MaxWorkers-1 times
  None

Workers == 1..MaxWorkers
\* The handshake's own message, beside the requests'.
Init_ == "init"

VARIABLES
  worker,       \* the worker in use, 0 when there is none
  spawned,      \* workers started so far
  workers,      \* each worker's side and the messages between it and the page
  nextId,
  pending,      \* id -> what it was sent for
  initPromise,  \* "none", "waiting", "resolved" or "rejected"
  initialized,
  failure,
  call,         \* how far each request has come
  crossed       \* history: the requests a dispose() fell into

page == <<worker, spawned, nextId, pending, initPromise, initialized, failure>>
vars == <<page, workers, call, crossed>>

Idle == [alive |-> FALSE, exports |-> "none", inbox |-> <<>>, outbox |-> <<>>, error |-> FALSE]
Fresh == [Idle EXCEPT !.alive = TRUE]

Init ==
  /\ worker = 0 /\ spawned = 0 /\ nextId = 1
  /\ workers = [w \in Workers |-> Idle]
  /\ pending = {}
  /\ initPromise = "none" /\ initialized = FALSE /\ failure = FALSE
  /\ call = [r \in Request |-> [at |-> "new", reply |-> None]]
  /\ crossed = {}

\* The ids are entries of a Map: what each stands for.
IdsFor(what) == {e \in pending : e.for = what}

\* The requests whose await is over: their continuations are microtasks, which
\* run before the next message or error of a worker is looked at.
Continuing == {r \in Request : call[r].at = "go"}

-----------------------------------------------------------------------------
(* send(): an id, the worker (started when there is none), the message.    *)

SpawnAndPost(id) ==
  IF worker # 0
    THEN /\ workers' = [workers EXCEPT ![worker].inbox = Append(@, id)]
         /\ UNCHANGED <<worker, spawned>>
    ELSE /\ spawned' = spawned + 1
         /\ worker' = spawned + 1
         /\ workers' = [workers EXCEPT ![spawned + 1] = [Fresh EXCEPT !.inbox = <<id>>]]

\* Mutant: the id is not taken off.
TakeIdAgain(what) == pending' = pending \cup {[id |-> nextId, for |-> what]} /\ UNCHANGED nextId

TakeId(what) ==
  /\ nextId' = nextId + 1
  /\ pending' = pending \cup {[id |-> nextId, for |-> what]}

Send(what) == ~failure /\ TakeId(what) /\ SpawnAndPost([id |-> nextId, for |-> what])

Settle(r, at) == [call[r] EXCEPT !.at = at]

\* call() and reset(): make the handshake, or wait for the one under way.
Call(r) ==
  /\ call[r].at = "new"
  /\ \/ /\ initPromise = "none" /\ ~failure
        /\ Send(Init_)
        /\ initPromise' = "waiting"
        /\ call' = [call EXCEPT ![r].at = "init"]
        /\ UNCHANGED <<initialized, failure>>
     \/ /\ initPromise = "none" /\ failure      \* spawn() throws
        /\ nextId' = nextId + 1
        /\ call' = [call EXCEPT ![r].at = "rejected"]
        /\ UNCHANGED <<worker, spawned, workers, pending, initPromise, initialized, failure>>
     \/ /\ initPromise # "none"
        /\ call' = [call EXCEPT ![r].at = CASE initPromise = "waiting" -> "init"
                                            [] initPromise = "resolved" -> "go"
                                            [] OTHER -> "rejected"]
        /\ UNCHANGED <<page, workers>>
  /\ UNCHANGED crossed

\* The rest of call() once the handshake is through.
GoesOn(r) ==
  /\ call[r].at = "go"
  /\ \/ /\ Send(r)
        /\ call' = [call EXCEPT ![r].at = "sent"]
     \/ /\ failure
        /\ nextId' = nextId + 1
        /\ call' = [call EXCEPT ![r].at = "rejected"]
        /\ UNCHANGED <<worker, spawned, workers, pending>>
  /\ UNCHANGED <<initPromise, initialized, failure, crossed>>

-----------------------------------------------------------------------------
(* The worker: messages one after the other; those that arrive while the   *)
(* module is being instantiated wait for it in their order.                *)

Reply(w, status) ==
  LET m == Head(workers[w].inbox)
  IN  workers' = [workers EXCEPT ![w].inbox = Tail(@),
                                 ![w].outbox = Append(@, [id |-> m.id, of |-> m.for, status |-> status])]

WorkerOnly == UNCHANGED <<page, call, crossed>>

Handles(w) == workers[w].alive /\ workers[w].inbox # <<>>

\* exportsPromise ??= instantiateLibcirc(fetch(...)): the first init begins it.
BeginInstantiate(w) ==
  /\ Handles(w) /\ workers[w].exports = "none"
  /\ Head(workers[w].inbox).for = Init_
  /\ workers' = [workers EXCEPT ![w].exports = "loading"]
  /\ WorkerOnly

EndInstantiate(w) ==
  /\ workers[w].alive /\ workers[w].exports = "loading"
  /\ \E how \in {"ok", "failed"} : workers' = [workers EXCEPT ![w].exports = how]
  /\ WorkerOnly

\* A status of the library, or -1: the module is missing, an allocation or
\* the call itself threw.
Handle(w) ==
  /\ Handles(w)
  /\ \/ workers[w].exports = "none" /\ Head(workers[w].inbox).for # Init_ /\ Reply(w, "init first")
     \/ workers[w].exports = "failed" /\ Reply(w, "thrown")
     \/ workers[w].exports = "ok" /\ \E s \in {"ok", "thrown"} : Reply(w, s)
  /\ WorkerOnly

\* An error nobody caught; the worker may answer no more.
Crash(w) ==
  /\ workers[w].alive /\ ~workers[w].error
  /\ \E b \in BOOLEAN : workers' = [workers EXCEPT ![w].error = TRUE, ![w].alive = b]
  /\ WorkerOnly

-----------------------------------------------------------------------------
(* What the page does with it.                                             *)

\* worker.onmessage: an id nobody waits for is ignored. The handshake's
\* promise settles everyone who waited for it.
OnMessage(w) ==
  LET m   == Head(workers[w].outbox)
      hit == {e \in pending : e.id = m.id}
  IN /\ Continuing = {} /\ workers[w].outbox # <<>>
     /\ workers' = [workers EXCEPT ![w].outbox = Tail(@)]
     /\ pending' = pending \ hit
     /\ IF \E e \in hit : e.for = Init_
          THEN /\ initPromise' = IF m.status = "ok" THEN "resolved" ELSE "rejected"
               /\ initialized' = (initialized \/ m.status = "ok")
               /\ call' = [r \in Request |-> IF call[r].at # "init" THEN call[r]
                             ELSE Settle(r, IF m.status = "ok" THEN "go" ELSE "rejected")]
          ELSE /\ call' = [r \in Request |-> IF \E e \in hit : e.for = r
                             THEN [at |-> "answered", reply |-> m] ELSE call[r]]
               /\ UNCHANGED <<initPromise, initialized>>
     /\ UNCHANGED <<worker, spawned, nextId, failure, crossed>>

\* Everyone in the map is rejected; those who wait for the handshake with it.
Rejected == [r \in Request |->
  IF IdsFor(r) # {} \/ (IdsFor(Init_) # {} /\ call[r].at = "init") THEN Settle(r, "rejected") ELSE call[r]]

\* Mutant: fail() forgets those that are waiting.
FailTellsNobody == call' = call /\ pending' = pending /\ UNCHANGED initPromise

FailRejects ==
  /\ call' = Rejected /\ pending' = {}
  /\ initPromise' = IF IdsFor(Init_) # {} THEN "rejected" ELSE initPromise

\* worker.onerror -> fail(): only the first failure counts. An error event of a
\* worker that was terminated meanwhile fails the client all the same.
OnError(w) ==
  /\ Continuing = {} /\ workers[w].error
  /\ workers' = [workers EXCEPT ![w].error = FALSE]
  /\ failure' = TRUE
  /\ \/ ~failure /\ FailRejects
     \/ failure /\ UNCHANGED <<call, pending, initPromise>>
  /\ UNCHANGED <<worker, spawned, nextId, initialized, crossed>>

\* What dispose() forgets of the worker it ends.
Forget == worker' = 0 /\ initPromise' = "none" /\ initialized' = FALSE /\ failure' = FALSE

\* dispose(): terminate() drops the messages both ways, not an error event that
\* is queued already.
Dispose ==
  /\ worker # 0 /\ spawned < MaxWorkers
  /\ call' = Rejected /\ pending' = {}
  /\ workers' = [workers EXCEPT ![worker] = [Idle EXCEPT !.error = workers[worker].error]]
  /\ Forget
  /\ crossed' = crossed \cup {r \in Request : call[r].at \in {"init", "go", "sent"}}
  /\ UNCHANGED <<spawned, nextId>>

WorkerStep(w) == BeginInstantiate(w) \/ EndInstantiate(w) \/ Handle(w)

Next ==
  \/ \E r \in Request : Call(r) \/ GoesOn(r)
  \/ \E w \in Workers : WorkerStep(w) \/ Crash(w) \/ OnMessage(w) \/ OnError(w)
  \/ Dispose

\* The event loops of the page and of the worker turn, and a fetch ends.
Fairness ==
  /\ \A r \in Request : WF_vars(GoesOn(r))
  /\ \A w \in Workers : WF_vars(WorkerStep(w)) /\ WF_vars(OnMessage(w)) /\ WF_vars(OnError(w))

Spec == Init /\ [][Next]_vars /\ Fairness

-----------------------------------------------------------------------------
Ids == 1..(2 * (Cardinality(Request) + MaxWorkers) + 1)
What == Request \cup {Init_}
Message == [id : Ids, for : What]
Answer == [id : Ids, of : What, status : {"ok", "thrown", "init first"}]
Side == [alive : BOOLEAN, exports : {"none", "loading", "ok", "failed"},
         inbox : Seq(Message), outbox : Seq(Answer), error : BOOLEAN]

\* The states of the client, the worker and the calls are the code's.
TypeOK ==
  /\ worker \in 0..spawned /\ spawned \in 0..MaxWorkers /\ nextId \in Ids
  /\ pending \subseteq Message
  /\ workers \in [Workers -> Side]
  /\ initPromise \in {"none", "waiting", "resolved", "rejected"}
  /\ initialized \in BOOLEAN /\ failure \in BOOLEAN
  /\ call \in [Request -> [at : {"new", "init", "go", "sent", "answered", "rejected"},
                           reply : Answer \cup {None}]]
  /\ crossed \subseteq Request

\* A caller gets the reply to its own request, whatever else the shared client
\* has in flight, and however many workers have come and gone.
AnswersItsOwn == \A r \in Request : call[r].at = "answered" => call[r].reply.of = r

\* The worker is never asked before its handshake, except by a call that a
\* dispose() overtook between its handshake and its message.
InitComesFirst ==
  \A r \in Request : call[r].at = "answered" /\ call[r].reply.status = "init first" => r \in crossed

\* transportState() says 'available' only of a worker that is instantiated.
transportState ==
  IF failure THEN "failed" ELSE IF initialized THEN "available"
  ELSE IF initPromise # "none" \/ worker # 0 THEN "starting" ELSE "not_started"

AvailableIsReady == transportState = "available" => worker # 0 /\ workers[worker].exports = "ok"

\* A caller waits only for something that is on its way: its id is in the map,
\* and the map's messages are with the worker in use, or were lost with a crash
\* whose event is still to come.
NobodyWaitsForNothing ==
  /\ \A r \in Request : call[r].at = "sent" => IdsFor(r) # {}
  /\ \A r \in Request : call[r].at = "init" => IdsFor(Init_) # {}
  /\ \A e \in pending :
       /\ worker # 0
       /\ \/ e \in ToSet(workers[worker].inbox)
          \/ \E m \in ToSet(workers[worker].outbox) : m.id = e.id /\ m.of = e.for

\* Whatever crashes and is started anew: a caller gets the reply to its own request,
\* after the handshake, and waits only for what is on its way.
RepliesFindTheirCall ==
  TypeOK /\ AnswersItsOwn /\ InitComesFirst /\ AvailableIsReady /\ NobodyWaitsForNothing

-----------------------------------------------------------------------------
(* The inductive invariant behind it.                                      *)

Inbox(w) == ToSet(workers[w].inbox)
Outbox(w) == ToSet(workers[w].outbox)

\* An id is given out once: what stands under it in the map and in the messages
\* both ways is the same.
IdsAreUnique ==
  /\ \A e \in pending : e.id < nextId
  /\ \A e, f \in pending : e.id = f.id => e = f
  /\ \A w \in Workers :
       /\ \A m \in Inbox(w) :
            m.id < nextId /\ \A e \in pending : e.id = m.id => e.for = m.for
       /\ \A m \in Outbox(w) :
            m.id < nextId /\ \A e \in pending : e.id = m.id => e.for = m.of

\* Every call takes two ids at most, one for the handshake and one of its own.
Began == {r \in Request : call[r].at # "new"}
Over == {r \in Request : call[r].at \in {"sent", "answered", "rejected"}}
IdsAreCounted == nextId <= 1 + Cardinality(Began) + Cardinality(Over)

\* A worker that was terminated holds nothing and says nothing, and there is room for
\* another one.
OnlyOneWorks ==
  /\ \A w \in Workers \ {worker} :
       workers[w].inbox = <<>> /\ workers[w].outbox = <<>> /\ workers[w].exports = "none"
  /\ worker = 0 => spawned < MaxWorkers

\* What follows the handshake goes to a worker that is instantiated, unless a dispose()
\* came between; whatever is said of an instance that is not there says so.
Instantiated == worker # 0 /\ workers[worker].exports = "ok"

HandshakeFirst ==
  /\ initialized \/ initPromise = "resolved" => Instantiated
  /\ \A r \in Request \ crossed : call[r].at = "go" => Instantiated
  /\ \A w \in Workers :
       /\ \A m \in Inbox(w) : m.for \in Request \ crossed => workers[w].exports = "ok"
       /\ \A m \in Outbox(w) : /\ m.status = "ok" => workers[w].exports = "ok"
                               /\ m.status = "init first" => m.of \in crossed

HandshakeIsAwaited == initPromise = "waiting" => IdsFor(Init_) # {}

ClientInv ==
  /\ TypeOK /\ IdsAreUnique /\ IdsAreCounted /\ OnlyOneWorks /\ HandshakeFirst
  /\ HandshakeIsAwaited /\ AnswersItsOwn /\ InitComesFirst /\ NobodyWaitsForNothing
=============================================================================
