-------------------------------- MODULE WebMcp --------------------------------
(* The adapter that offers the page's tools to the browser's WebMCP provider *)
(* (webmcp-adapter.ts), driven by the page events of page-api.ts.  start,    *)
(* suspend and dispose are asynchronous: each call is a task that runs up to *)
(* its next await and goes on in a later step.  The provider and its latency *)
(* are external: it answers each registration when it likes.                 *)
EXTENDS Naturals

CONSTANTS
  NTools,        \* tools of the page, registered one after the other
  MaxEvents,     \* bound: calls of start, suspend and dispose
  ProviderFails  \* whether the provider may refuse a tool for reasons of its own

VARIABLES
  page,           \* "active", "suspended" (in the bfcache) or "disposed"
  generation,     \* calls made; the number of a call is its generation
  controller,     \* the start whose AbortController the adapter holds, or 0
  aborted,        \* the starts whose controller has been aborted
  registrations,  \* the start whose registrations the adapter holds, or 0
  status,         \* what status() reports
  tasks,          \* the calls: what they are and how far they got
  live            \* the provider: the tools on offer and who registered them

vars == <<page, generation, controller, aborted, registrations, status, tasks, live>>

Gens == 1..MaxEvents
Tools == 1..NTools
Offers == [gen : Gens, tool : Tools, linked : BOOLEAN]

TypeOK ==
  /\ page \in {"active", "suspended", "disposed"}
  /\ generation \in 0..MaxEvents
  /\ controller \in 0..MaxEvents /\ registrations \in 0..MaxEvents
  /\ aborted \subseteq Gens
  /\ status \in {"not-configured", "registering", "registered", "failed", "suspended"}
  /\ tasks \in [Gens -> [kind : {"none", "start", "suspend", "dispose"},
                         stage : {"clearing", "registering", "disposing", "failing", "done"},
                         tool : Tools, linked : BOOLEAN]]
  /\ live \subseteq Offers

Idle == [kind |-> "none", stage |-> "done", tool |-> 1, linked |-> TRUE]

\* The part of every call before its first await: a new generation, the
\* current controller aborted (which withdraws the tools linked to it) and the
\* registrations handed over to the cleanup.
Call(kind) ==
  /\ generation < MaxEvents
  /\ generation' = generation + 1
  /\ aborted' = IF controller = 0 THEN aborted ELSE aborted \cup {controller}
  /\ live' = {o \in live : ~(o.gen = controller /\ o.linked)}
  /\ registrations' = 0
  /\ tasks' = [tasks EXCEPT ![generation + 1] =
                 [kind |-> kind, stage |-> "clearing", tool |-> 1, linked |-> TRUE]]
  /\ UNCHANGED <<controller, status>>

\* The page is installed and start has just been called.
Init ==
  /\ page = "active"
  /\ generation = 1
  /\ controller = 0 /\ aborted = {} /\ registrations = 0
  /\ status = "not-configured"
  /\ tasks = [g \in Gens |-> IF g = 1 THEN [Idle EXCEPT !.kind = "start", !.stage = "clearing"]
                             ELSE Idle]
  /\ live = {}

Hide == page = "active" /\ page' = "suspended" /\ Call("suspend")

Show == page = "suspended" /\ page' = "active" /\ Call("start")

Leave == page # "disposed" /\ page' = "disposed" /\ Call("dispose")

----------------------------------------------------------------------------

At(g, stage) == tasks[g].stage = stage

\* The calls that clear wait for one chain of promises, so they go on in the
\* order in which they were made.
Cleared(g) == At(g, "clearing") /\ \A e \in Gens : e < g => ~At(e, "clearing")

\* start goes on only if nothing was called since; it then registers the first
\* tool under a controller of its own.
StartGoesOn(g) ==
  /\ Cleared(g) /\ tasks[g].kind = "start"
  /\ IF g = generation
     THEN /\ controller' = g
          /\ status' = "registering"
          /\ tasks' = [tasks EXCEPT ![g].stage = "registering"]
     ELSE /\ tasks' = [tasks EXCEPT ![g].stage = "done"]
          /\ UNCHANGED <<controller, status>>
  /\ UNCHANGED <<page, generation, aborted, registrations, live>>

SuspendGoesOn(g) ==
  /\ Cleared(g) /\ tasks[g].kind = "suspend"
  /\ status' = "suspended"
  /\ tasks' = [tasks EXCEPT ![g].stage = "done"]
  /\ UNCHANGED <<page, generation, controller, aborted, registrations, live>>

DisposeGoesOn(g) ==
  /\ Cleared(g) /\ tasks[g].kind = "dispose"
  /\ tasks' = [tasks EXCEPT ![g].stage = "done"]
  /\ UNCHANGED <<page, generation, controller, aborted, registrations, status, live>>

\* Mutant: a start only looks at its own controller.
StaleUnlessCurrent(g) == FALSE

Stale(g) == g # generation \/ g \in aborted

\* The provider accepts a tool, which it does not under a name it has.  A tool
\* whose own controller was aborted while it waited is not offered; one that
\* was registered under a controller already aborted is linked to nothing.
Accept(g) ==
  LET t == tasks[g].tool
      offer == [gen |-> g, tool |-> t, linked |-> tasks[g].linked]
  IN  /\ At(g, "registering")
      /\ \A o \in live : o.tool # t
      /\ live' = IF g \in aborted /\ tasks[g].linked THEN live ELSE live \cup {offer}

\* The loop of start: the next tool, whatever became of the controller.
NextTool(g) ==
  /\ tasks[g].tool < NTools
  /\ Accept(g)
  /\ tasks' = [tasks EXCEPT ![g].tool = @ + 1, ![g].linked = g \notin aborted]
  /\ UNCHANGED <<page, generation, controller, aborted, registrations, status>>

\* After the last tool a start that was overtaken takes everything back.
LastTool(g) ==
  /\ tasks[g].tool = NTools
  /\ Accept(g)
  /\ IF Stale(g)
     THEN /\ tasks' = [tasks EXCEPT ![g].stage = "disposing"]
          /\ UNCHANGED <<registrations, status>>
     ELSE /\ registrations' = g
          /\ status' = "registered"
          /\ tasks' = [tasks EXCEPT ![g].stage = "done"]
  /\ UNCHANGED <<page, generation, controller, aborted>>

\* The provider refuses: the name is taken, the registration was aborted, or,
\* if ProviderFails, for a reason of its own.
Refused(g) ==
  /\ At(g, "registering")
  /\ ProviderFails \/ g \in aborted \/ \E o \in live : o.tool = tasks[g].tool
  /\ tasks' = [tasks EXCEPT ![g].stage = "failing"]
  /\ UNCHANGED <<page, generation, controller, aborted, registrations, status, live>>

TakenBack(g) ==
  /\ At(g, "disposing") \/ At(g, "failing")
  /\ live' = {o \in live : o.gen # g}
  /\ tasks' = [tasks EXCEPT ![g].stage = "done"]
  /\ status' = IF At(g, "failing") /\ ~Stale(g) THEN "failed" ELSE status
  /\ UNCHANGED <<page, generation, controller, aborted, registrations>>

GoesOn(g) ==
  \/ StartGoesOn(g) \/ SuspendGoesOn(g) \/ DisposeGoesOn(g)
  \/ NextTool(g) \/ LastTool(g) \/ Refused(g) \/ TakenBack(g)

Next == Hide \/ Show \/ Leave \/ \E g \in Gens : GoesOn(g)

\* Promises settle: the provider answers and continuations run.
Spec == Init /\ [][Next]_vars /\ \A g \in Gens : WF_vars(GoesOn(g))

----------------------------------------------------------------------------

Quiet == \A g \in Gens : At(g, "done")

\* What the provider offers is what the adapter reports: all tools of the
\* last start once it says registered, none when the page is away or the
\* registration failed, whatever calls overtook each other on the way.
ExposureMatchesStatus ==
  Quiet =>
    /\ page # "active" \/ status = "failed" => live = {}
    /\ page = "active" /\ status = "registered" =>
         live = [gen : {generation}, tool : Tools, linked : {TRUE}]

\* The status written last belongs to the event that came last: a suspend
\* that finishes late does not overwrite the start that followed it.
StatusFollowsPage ==
  Quiet => /\ page = "suspended" => status = "suspended"
           /\ page = "active" => status \in {"registered", "failed"}

\* The registrations the adapter holds, and would take back, are on offer
\* under a controller it can still abort.
HeldToolsAreWithdrawable ==
  registrations # 0 =>
    /\ controller = registrations /\ registrations \notin aborted
    /\ [gen : {registrations}, tool : Tools, linked : {TRUE}] \subseteq live

\* However the page's calls overtake each other: what is on offer, what the adapter
\* reports and what it can take back agree.
ToolsMatchStatus == TypeOK /\ ExposureMatchesStatus /\ StatusFollowsPage /\ HeldToolsAreWithdrawable
----------------------------------------------------------------------------
(* The inductive invariant behind it. *)

\* A start that is past its clearing and has not returned.
Running(g) == tasks[g].stage \in {"registering", "disposing", "failing"}

\* The last call is the one the page's state asks for; only a start registers, from the
\* first tool on.
KindOf == [active |-> "start", suspended |-> "suspend", disposed |-> "dispose"]

TasksFollowPage ==
  /\ generation >= 1 /\ tasks[generation].kind = KindOf[page]
  /\ \A g \in Gens : /\ g > generation => tasks[g].kind = "none" /\ At(g, "done")
                     /\ Running(g) => tasks[g].kind = "start"
                     /\ At(g, "clearing") => tasks[g].tool = 1 /\ tasks[g].linked

\* The chain of promises: who clears later than another is behind it.
OneChain == \A e, g \in Gens : e < g /\ g <= generation /\ At(e, "clearing") => At(g, "clearing")

\* Only the adapter's own controller is not aborted, and every call of the page since
\* aborts it; a start that is overtaken knows it from one or the other.
ControllerIsNewest ==
  /\ \A g \in aborted : g < generation
  /\ controller <= generation
  /\ controller # 0 /\ controller # generation => controller \in aborted
  /\ \A g \in Gens :
       /\ Running(g) => g = controller \/ g \in aborted
       /\ Running(g) /\ ~tasks[g].linked => g \in aborted
       /\ At(g, "clearing") => g # controller
       /\ At(g, "disposing") => g # generation

\* Whatever is on offer is somebody's, who will take it back or holds it; and a start that
\* was not overtaken has offered all the tools before its own.
OffersHaveOwner ==
  /\ \A o \in live : /\ Running(o.gen) \/ registrations = o.gen
                     /\ o.gen \notin aborted => o.linked
  /\ \A g \in Gens \ aborted : At(g, "registering") =>
       \A t \in Tools : t < tasks[g].tool => [gen |-> g, tool |-> t, linked |-> TRUE] \in live

\* The registrations held are those of the last start, which is over.
HeldIsNewest ==
  registrations # 0 =>
    /\ registrations = generation /\ page = "active" /\ status = "registered"
    /\ At(generation, "done")

\* Once the last call is through the status is its own.
StatusIsNewest ==
  At(generation, "done") =>
    /\ page = "active" => status = "failed" \/ (status = "registered" /\ registrations = generation)
    /\ page = "suspended" => status = "suspended"

ToolsInv ==
  /\ TypeOK /\ TasksFollowPage /\ OneChain /\ ControllerIsNewest /\ OffersHaveOwner
  /\ HeldIsNewest /\ HeldToolsAreWithdrawable /\ StatusIsNewest
=============================================================================
