------------------------------ MODULE Operations ------------------------------
(* The operations of a playground page and the agents that wait for them:    *)
(* the OperationStore, the wait path of the page controller, the gate of the *)
(* tool registry in front of it, and the page events that suspend, resume    *)
(* and dispose the three together.  One action is one turn of the event      *)
(* loop.  The registry answers a wait in a later turn (a microtask) than the *)
(* one that settles it.                                                      *)
EXTENDS Naturals, FiniteSets

CONSTANTS
  MaxOps,       \* bound: operations a page creates in the model
  Calls,        \* the tool calls an agent makes, each once
  MaxRetained,  \* maxRetained, 128 in the code
  MaxWaits,     \* MAX_OPERATION_WAITS, 32 in the code
  Times,        \* what the clock may read when an operation is created
  Finals,       \* the terminal states a run tells apart
  Ports,        \* the ports of the island that are installed
  MaxAborts     \* bound: abort controllers the page goes through

Terminal == {"succeeded", "diagnostics", "refused", "failed", "superseded"}
Live == {"queued", "running"}
Gone == {"none", "evicted"}
AllPorts == {"workspace", "authoring", "simulation", "inspection", "workbench", "handoff"}
Codes == {"PAGE_SUSPENDED", "PAGE_DISPOSED", "WAIT_CANCELLED"}

VARIABLES
  sequence,        \* operations created so far, which is the last id
  records,         \* id -> state and creation time; "none" not created, "evicted" dropped
  listeners,       \* id -> the waits to tell when it ends
  activeWaits,     \* the counter behind the limit on waits
  calls,           \* call -> where it is and what it has been told
  signal,          \* the abort controller new waits listen to
  reasons,         \* abort controller -> why it was aborted
  registry,        \* "active", "suspended" or "disposed"
  disposed,        \* the controller's own flag
  activeRequests   \* calls the registry believes are in flight

vars == <<sequence, records, listeners, activeWaits, calls, signal, reasons,
          registry, disposed, activeRequests>>
page == <<signal, reasons, registry, disposed>>

Ids == 1..MaxOps
NoReply == [kind |-> "none", state |-> "none"]
Told == [kind : {"none", "terminal", "timed_out", "cancelled", "refused"},
         state : Live \cup Terminal \cup Codes \cup
                 {"none", "OPERATION_NOT_FOUND", "OPERATION_EXPIRED", "WAIT_LIMIT",
                  "UNKNOWN_TOOL", "INPUT_TOO_LARGE", "INVALID_ARGUMENT", "NOT_READY", "PORT_ANSWER"}]

TypeOK ==
  /\ sequence \in 0..MaxOps
  /\ records \in [Ids -> [state : Live \cup Terminal \cup Gone, createdAt : Times \cup {0}]]
  /\ listeners \in [Ids -> SUBSET Calls]
  /\ activeWaits \in Nat
  /\ calls \in [Calls -> [stage : {"idle", "pending", "settled", "answered"},
                          op : Ids \cup {0}, signal : 1..MaxAborts, told : Told]]
  /\ signal \in 1..MaxAborts
  /\ reasons \in [1..MaxAborts -> Codes \cup {"none"}]
  /\ registry \in {"active", "suspended", "disposed"}
  /\ disposed \in BOOLEAN
  /\ activeRequests \in Nat

Init ==
  /\ sequence = 0
  /\ records = [i \in Ids |-> [state |-> "none", createdAt |-> 0]]
  /\ listeners = [i \in Ids |-> {}]
  /\ activeWaits = 0
  /\ calls = [w \in Calls |-> [stage |-> "idle", op |-> 0, signal |-> 1, told |-> NoReply]]
  /\ signal = 1
  /\ reasons = [g \in 1..MaxAborts |-> "none"]
  /\ registry = "active"
  /\ disposed = FALSE
  /\ activeRequests = 0

----------------------------------------------------------------------------
(* The store. *)

Lookup(i) ==
  IF i \in Ids /\ records[i].state \notin Gone THEN "found"
  ELSE IF i <= sequence THEN "expired" ELSE "not_found"

Create ==
  /\ sequence < MaxOps
  /\ sequence' = sequence + 1
  /\ \E t \in Times :
       records' = [records EXCEPT ![sequence + 1] = [state |-> "queued", createdAt |-> t]]
  /\ UNCHANGED <<listeners, activeWaits, calls, page, activeRequests>>

Start(i) ==
  /\ records[i].state = "queued"
  /\ records' = [records EXCEPT ![i].state = "running"]
  /\ UNCHANGED <<sequence, listeners, activeWaits, calls, page, activeRequests>>

\* The order in which finished operations are dropped.
Older(r, i, j) ==
  \/ r[i].createdAt < r[j].createdAt
  \/ r[i].createdAt = r[j].createdAt /\ i < j

\* Only finished operations are dropped, all but the MaxRetained last created.
Evict(r) ==
  LET finished == {i \in Ids : r[i].state \in Terminal}
      newer(i) == {j \in finished : Older(r, i, j)}
  IN  [i \in Ids |->
         IF i \in finished /\ Cardinality(newer(i)) >= MaxRetained
         THEN [state |-> "evicted", createdAt |-> r[i].createdAt] ELSE r[i]]

\* A wait ends once: the slot is freed, the timer and both listeners removed.
Complete(ws, kind, state) ==
  LET settling == {w \in ws : calls[w].stage = "pending"}
  IN  /\ calls' = [w \in Calls |->
           IF w \in settling
           THEN [calls[w] EXCEPT !.stage = "settled",
                                 !.told = [kind |-> kind, state |-> state[w]]]
           ELSE calls[w]]
      /\ activeWaits' = activeWaits - Cardinality(settling)

\* Mutant: the end of an operation is recorded and nobody is told.
FinishSilently(i, s) ==
  /\ records[i].state \in Live
  /\ records' = Evict([records EXCEPT ![i].state = s])
  /\ listeners' = [listeners EXCEPT ![i] = {}]
  /\ UNCHANGED <<sequence, activeWaits, calls, page, activeRequests>>

\* update, when the new state is terminal: an ended operation is not changed
\* again, and the waits are told at once.
Ended(i, s) ==
  /\ records[i].state \in Live
  /\ Complete(listeners[i], "terminal", [w \in Calls |-> s])
  /\ listeners' = [listeners EXCEPT ![i] = {}]

\* The waits hear of the end before anything is evicted.
Finish(i, s) ==
  /\ Ended(i, s)
  /\ records' = Evict([records EXCEPT ![i].state = s])
  /\ UNCHANGED <<sequence, page, activeRequests>>

Supersede(i) == Finish(i, "superseded")

----------------------------------------------------------------------------
(* A tool call, from the registry's gate to the wait and back. *)

\* A call refused in the turn that made it: its activity begins and ends there.
Refuse(w, code) ==
  /\ calls' = [calls EXCEPT ![w].stage = "answered",
                            ![w].told = [kind |-> "refused", state |-> code]]
  /\ UNCHANGED <<sequence, records, listeners, activeWaits, page, activeRequests>>

CallRefusedAtGate(w) ==
  /\ calls[w].stage = "idle" /\ registry # "active"
  /\ Refuse(w, IF registry = "suspended" THEN "PAGE_SUSPENDED" ELSE "PAGE_DISPOSED")

CallRefusedForInput(w, code) ==
  /\ calls[w].stage = "idle" /\ registry = "active"
  /\ Refuse(w, code)

\* A wait refused by the controller or the store: the refusal travels through
\* the awaits, so the call is answered in a later turn.
SettleRefused(w, code) ==
  /\ calls[w].stage = "idle" /\ registry = "active" /\ ~disposed
  /\ calls' = [calls EXCEPT ![w].stage = "settled",
                            ![w].told = [kind |-> "refused", state |-> code]]
  /\ activeRequests' = activeRequests + 1
  /\ UNCHANGED <<sequence, records, listeners, activeWaits, page>>

CallRefusedByController(w) == SettleRefused(w, "INVALID_ARGUMENT")

CallRefusedByStore(w, i) ==
  /\ Lookup(i) # "found"
  /\ SettleRefused(w, IF Lookup(i) = "expired" THEN "OPERATION_EXPIRED"
                      ELSE "OPERATION_NOT_FOUND")

CallRefusedAtLimit(w, i) ==
  /\ Lookup(i) = "found" /\ records[i].state \in Live
  /\ activeWaits >= MaxWaits
  /\ SettleRefused(w, "WAIT_LIMIT")

\* A tool behind a port of the island: it is there or the page is not ready.
CallPort(w, port) ==
  SettleRefused(w, IF port \in Ports THEN "PORT_ANSWER" ELSE "NOT_READY")

\* A wait that is over before it takes a slot: the operation has ended, or no
\* time is allowed.  The slot limit is not consulted.
CallOver(w, i, zero) ==
  /\ calls[w].stage = "idle" /\ registry = "active" /\ ~disposed
  /\ Lookup(i) = "found"
  /\ records[i].state \in Terminal \/ zero
  /\ calls' = [calls EXCEPT ![w] =
       [stage |-> "settled", op |-> i, signal |-> signal,
        told |-> [kind |-> IF records[i].state \in Terminal THEN "terminal" ELSE "timed_out",
                  state |-> records[i].state]]]
  /\ activeRequests' = activeRequests + 1
  /\ UNCHANGED <<sequence, records, listeners, activeWaits, page>>

CallWaits(w, i) ==
  /\ calls[w].stage = "idle" /\ registry = "active" /\ ~disposed
  /\ Lookup(i) = "found" /\ records[i].state \in Live
  /\ activeWaits < MaxWaits
  /\ activeWaits' = activeWaits + 1
  /\ listeners' = [listeners EXCEPT ![i] = @ \cup {w}]
  /\ calls' = [calls EXCEPT ![w] = [stage |-> "pending", op |-> i, signal |-> signal,
                                    told |-> [kind |-> "none", state |-> records[i].state]]]
  /\ activeRequests' = activeRequests + 1
  /\ UNCHANGED <<sequence, records, page>>

\* What a wait that ends without its operation ending reports of it: the
\* record as it is now, or, had it gone, as it was when the wait began.
CurrentState(w) ==
  IF Lookup(calls[w].op) = "found" THEN records[calls[w].op].state ELSE calls[w].told.state

CurrentStates == [w \in Calls |-> CurrentState(w)]

WaitTimesOut(w) ==
  /\ calls[w].stage = "pending"
  /\ Complete({w}, "timed_out", CurrentStates)
  /\ listeners' = [listeners EXCEPT ![calls[w].op] = @ \ {w}]
  /\ UNCHANGED <<sequence, records, page, activeRequests>>

\* The continuation of the call: a cancelled wait is reported with the reason
\* its own controller was aborted for.
Answer(w) ==
  /\ calls[w].stage = "settled"
  /\ calls' = [calls EXCEPT ![w].stage = "answered",
       ![w].told = IF @.kind = "cancelled"
                   THEN [kind |-> "refused", state |-> reasons[calls[w].signal]] ELSE @]
  /\ activeRequests' = activeRequests - 1
  /\ UNCHANGED <<sequence, records, listeners, activeWaits, page>>

----------------------------------------------------------------------------
(* The page. *)

\* Every wait on the current controller ends; later waits get a fresh one.
CancelWaits(reason) ==
  LET aborted == {w \in Calls : calls[w].stage = "pending" /\ calls[w].signal = signal}
  IN  /\ signal < MaxAborts
      /\ reasons' = [reasons EXCEPT ![signal] = reason]
      /\ Complete(aborted, "cancelled", CurrentStates)
      /\ listeners' = [i \in Ids |-> listeners[i] \ aborted]
      /\ signal' = signal + 1

PageHide ==
  /\ registry # "disposed"
  /\ registry' = "suspended"
  /\ CancelWaits("PAGE_SUSPENDED")
  /\ UNCHANGED <<sequence, records, disposed, activeRequests>>

PageShow ==
  /\ registry = "suspended"
  /\ registry' = "active"
  /\ UNCHANGED <<sequence, records, listeners, activeWaits, calls, signal, reasons,
                 disposed, activeRequests>>

Dispose ==
  /\ registry # "disposed"
  /\ registry' = "disposed"
  /\ CancelWaits("PAGE_DISPOSED")
  /\ disposed' = TRUE
  /\ UNCHANGED <<sequence, records, activeRequests>>

----------------------------------------------------------------------------

Next ==
  \/ Create
  \/ \E i \in Ids : Start(i)
  \/ \E i \in Ids, s \in Finals : Finish(i, s)
  \/ \E i \in Ids : Supersede(i)
  \/ \E w \in Calls :
       \/ CallRefusedAtGate(w)
       \/ \E code \in {"UNKNOWN_TOOL", "INPUT_TOO_LARGE", "INVALID_ARGUMENT"} :
            CallRefusedForInput(w, code)
       \/ CallRefusedByController(w)
       \/ \E port \in AllPorts : CallPort(w, port)
       \/ \E i \in 1..(MaxOps + 1) : CallRefusedByStore(w, i)
       \/ \E i \in Ids, zero \in BOOLEAN : CallOver(w, i, zero)
       \/ \E i \in Ids : CallRefusedAtLimit(w, i)
       \/ \E i \in Ids : CallWaits(w, i)
       \/ WaitTimesOut(w)
       \/ Answer(w)
  \/ PageHide
  \/ PageShow
  \/ Dispose

\* A timer fires and a continuation runs: the event loop does not starve them.
Fairness == \A w \in Calls : WF_vars(WaitTimesOut(w)) /\ WF_vars(Answer(w))

Spec == Init /\ [][Next]_vars /\ Fairness

----------------------------------------------------------------------------

Pending == {w \in Calls : calls[w].stage = "pending"}

\* However a wait ends, by the operation, its timer, the page or none of them
\* yet, the counters that limit waits and show activity count exactly the
\* calls that are in flight: no slot leaks and none is freed twice.
SlotsMatchWaits ==
  /\ activeWaits = Cardinality(Pending)
  /\ activeWaits <= MaxWaits
  /\ activeRequests = Cardinality({w \in Calls : calls[w].stage \in {"pending", "settled"}})

\* There is no window in which an operation has ended and a wait for it has
\* not heard: a pending wait is subscribed and its operation is still live.
NoLostCompletion ==
  \A w \in Pending : /\ records[calls[w].op].state \in Live
                     /\ w \in listeners[calls[w].op]

\* A page that is hidden or gone holds no wait: whatever arrives after the
\* cancellation is refused at the gate.
QuietWhenAway == registry # "active" => Pending = {}

\* What an agent is told of an operation agrees with the record as long as
\* there is one: an end it heard of is the end on record, and a wait that
\* timed out was never told of an end.
AnswerIsTruth ==
  \A w \in Calls :
    /\ calls[w].told.kind = "terminal" =>
         records[calls[w].op].state \in {calls[w].told.state, "evicted"}
    /\ calls[w].told.kind \in {"timed_out", "cancelled"} => calls[w].told.state \in Live

\* Retention: at most MaxRetained ended operations, and none was dropped while
\* an older one was kept.
OldestGoFirst ==
  /\ Cardinality({i \in Ids : records[i].state \in Terminal}) <= MaxRetained
  /\ \A i, j \in Ids : records[i].state = "evicted" /\ records[j].state \in Terminal
                         => Older(records, i, j)

\* However operations end, calls wait and the page comes and goes: no slot leaks, no
\* end is missed, and what an agent was told is what is on record.
WaitsAreKept ==
  TypeOK /\ SlotsMatchWaits /\ NoLostCompletion /\ QuietWhenAway /\ AnswerIsTruth /\ OldestGoFirst
----------------------------------------------------------------------------
(* The inductive invariant behind it. *)

\* Ids are given out in order.
CreatedInOrder == \A i \in Ids : i > sequence => records[i].state = "none"

\* Whoever is subscribed to an operation is a wait for it that is not over.
ListenersWait ==
  \A i \in Ids : \A w \in listeners[i] : w \in Pending /\ calls[w].op = i

\* A wait is for an operation, and hears of the page's current abort controller.
WaitsAreCurrent == \A w \in Pending : calls[w].op \in Ids /\ calls[w].signal = signal

\* Only ends are told as ends.
EndsAreTold ==
  \A w \in Calls : calls[w].told.kind = "terminal" =>
    calls[w].op \in Ids /\ calls[w].told.state \in Terminal

\* What ended and is on record.
Finished == {i \in Ids : records[i].state \in Terminal}

\* Nothing is dropped while there is room.
EvictedWhenFull ==
  (\E i \in Ids : records[i].state = "evicted") => Cardinality(Finished) = MaxRetained

OpsInv ==
  /\ TypeOK /\ CreatedInOrder /\ ListenersWait /\ WaitsAreCurrent /\ EndsAreTold
  /\ EvictedWhenFull /\ SlotsMatchWaits /\ NoLostCompletion /\ QuietWhenAway
  /\ AnswerIsTruth /\ OldestGoFirst
=============================================================================
