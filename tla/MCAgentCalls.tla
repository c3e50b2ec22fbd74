---------------------------- MODULE MCAgentCalls ----------------------------
(***************************************************************************)
(* Everything of a page that makes a caller wait: the operations an agent  *)
(* waits for (Operations), the tools offered to the browser's provider     *)
(* (WebMcp) and the compiler's worker (CompilerClient).  They share no     *)
(* state, so a behaviour of the run is one of any one of them: `component` *)
(* says which, and the variables of the others stay Off.                   *)
(***************************************************************************)
EXTENDS Naturals, FiniteSets

CONSTANTS
  MaxOps, Calls, MaxRetained, MaxWaits, Times, Finals, Ports, MaxAborts,
  NTools, MaxEvents, ProviderFails,
  Request, MaxWorkers, None

VARIABLES
  component,
  sequence, records, listeners, activeWaits, calls, signal, reasons,
  registry, disposed, activeRequests,
  page, generation, controller, aborted, registrations, status, tasks, live,
  worker, spawned, workers, nextId, pending, initPromise, initialized, failure,
  call, crossed

(***************************************************************************)
(* What a page is made with: as many agents, tools and requests as there   *)
(* are, none of them named like the handshake; clocks that read numbers;   *)
(* caps that are numbers.  Bounds let everything happen once.              *)
(***************************************************************************)
ASSUME OperationsAssumption ==
  /\ MaxOps \in Nat /\ MaxRetained \in Nat /\ MaxWaits \in Nat /\ MaxAborts \in Nat \ {0}
  /\ Times \subseteq Nat /\ IsFiniteSet(Calls)
  /\ Finals \subseteq {"succeeded", "diagnostics", "refused", "failed", "superseded"}

ASSUME ToolsAssumption == NTools \in Nat \ {0} /\ MaxEvents \in Nat \ {0}

ASSUME ClientAssumption ==
  IsFiniteSet(Request) /\ "init" \notin Request /\ MaxWorkers \in Nat \ {0}

Ops    == INSTANCE Operations
Tools  == INSTANCE WebMcp
Client == INSTANCE CompilerClient

opsVars == <<sequence, records, listeners, activeWaits, calls, signal, reasons,
             registry, disposed, activeRequests>>
toolsVars == <<page, generation, controller, aborted, registrations, status, tasks, live>>
clientVars == <<worker, spawned, workers, nextId, pending, initPromise, initialized,
                failure, call, crossed>>
vars == <<component, opsVars, toolsVars, clientVars>>

Off == "off"

OpsOff ==
  /\ sequence = Off /\ records = Off /\ listeners = Off /\ activeWaits = Off
  /\ calls = Off /\ signal = Off /\ reasons = Off /\ registry = Off
  /\ disposed = Off /\ activeRequests = Off

ToolsOff ==
  /\ page = Off /\ generation = Off /\ controller = Off /\ aborted = Off
  /\ registrations = Off /\ status = Off /\ tasks = Off /\ live = Off

ClientOff ==
  /\ worker = Off /\ spawned = Off /\ workers = Off /\ nextId = Off
  /\ pending = Off /\ initPromise = Off /\ initialized = Off /\ failure = Off
  /\ call = Off /\ crossed = Off

Init ==
  \/ component = "operations" /\ Ops!Init /\ ToolsOff /\ ClientOff
  \/ component = "tools" /\ Tools!Init /\ OpsOff /\ ClientOff
  \/ component = "client" /\ Client!Init /\ OpsOff /\ ToolsOff

Next ==
  /\ UNCHANGED component
  /\ \/ component = "operations" /\ Ops!Next /\ UNCHANGED <<toolsVars, clientVars>>
     \/ component = "tools" /\ Tools!Next /\ UNCHANGED <<opsVars, clientVars>>
     \/ component = "client" /\ Client!Next /\ UNCHANGED <<opsVars, toolsVars>>

\* The fairness of each of the three: timers fire, promises settle, event loops turn.
Fairness ==
  /\ \A w \in Calls :
       /\ WF_opsVars(component = "operations" /\ Ops!WaitTimesOut(w))
       /\ WF_opsVars(component = "operations" /\ Ops!Answer(w))
  /\ \A g \in Tools!Gens : WF_toolsVars(component = "tools" /\ Tools!GoesOn(g))
  /\ \A r \in Request : WF_clientVars(component = "client" /\ Client!GoesOn(r))
  /\ \A w \in Client!Workers :
       /\ WF_clientVars(component = "client" /\ Client!WorkerStep(w))
       /\ WF_clientVars(component = "client" /\ Client!OnMessage(w))
       /\ WF_clientVars(component = "client" /\ Client!OnError(w))

Spec == Init /\ [][Next]_vars /\ Fairness

-----------------------------------------------------------------------------
\* However operations end, calls wait and the page comes and goes: no slot leaks, no
\* end is missed, and what an agent was told is what is on record.
WaitsAreKept == component = "operations" => Ops!WaitsAreKept

\* However the page's calls overtake each other: what is on offer, what the adapter
\* reports and what it can take back agree.
ToolsMatchStatus == component = "tools" => Tools!ToolsMatchStatus

\* Whatever crashes and is started anew: a caller gets the reply to its own request,
\* after the handshake, and waits only for what is on its way.
RepliesFindTheirCall == component = "client" => Client!RepliesFindTheirCall

\* Every wait of an agent is answered, by the operation's end, its timer or the page
\* going away; every call of the library settles, answered or rejected by a crash or a
\* dispose; and a page that is gone leaves no tool with the provider, now or later.
EveryCallSettles ==
  /\ \A w \in Calls :
       (component = "operations" /\ calls[w].stage \in {"pending", "settled"})
         ~> (component = "operations" /\ calls[w].stage = "answered")
  /\ \A r \in Request :
       (component = "client" /\ call[r].at # "new")
         ~> (component = "client" /\ call[r].at \in {"answered", "rejected"})
  /\ (component = "tools" /\ page = "disposed") ~> [](component = "tools" /\ live = {})
=============================================================================
