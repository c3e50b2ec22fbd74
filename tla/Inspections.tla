---------------------------- MODULE Inspections ----------------------------
(***************************************************************************)
(* The schematic and the truth table as operations of the page             *)
(* (components/Playground.astro): who starts one, whose reply is taken,    *)
(* what an agent that asks for one is told, and the results that are kept  *)
(* for it (scripts/playground-inspection.ts).                              *)
(***************************************************************************)
EXTENDS Naturals, Sequences, FiniteSets, SequencesExt

CONSTANTS
  MaxRev,   \* bound: revisions of the source
  MaxBuilds, \* bound: builds claimed
  MaxOps,   \* bound: operations
  MaxFails, \* bound: operations that fail or are refused
  Kept      \* results kept of a kind, scaled down

VARIABLES
  rev,      \* the source's revision
  seq,      \* buildStage's sequence
  due,      \* a build is scheduled
  building, \* the revision being built, or 0
  view,     \* the output view that is open
  scratch,  \* truth is enumerated on a scratch session, after an await
  starting, \* the sequences of the scratch tables that have no operation yet
  ops,      \* [kind, rev, seq, state] of every operation
  slot,     \* the newest operation of a kind, or 0
  screen,   \* the revision of the output shown of a kind
  kept,     \* the operations whose results are retained
  ticket,   \* the answer to an agent that is just given
  fails

vars == <<rev, seq, due, building, view, scratch, starting, ops, slot, screen, kept, ticket, fails>>

Kinds == {"preview", "truth"}
Views == {"live", "schematic", "truth"}
Ended == {"succeeded", "failed", "refused", "superseded"}
NoTicket == [kind |-> "none", id |-> 0, how |-> "none", rev |-> 0]

\* Mutant: the operation before is left to itself.
QueueBeside(kind, at) ==
  /\ Len(ops) < MaxOps
  /\ ops' = Append(ops, [kind |-> kind, rev |-> rev, seq |-> at, state |-> "running"])
  /\ slot' = [slot EXCEPT ![kind] = Len(ops) + 1]

\* queueOperation() and start(): the operation before it is superseded, if it
\* has not ended.
Queue(kind, at) ==
  /\ Len(ops) < MaxOps
  /\ ops' = Append([i \in DOMAIN ops |-> IF i = slot[kind] /\ ops[i].state \notin Ended THEN [ops[i] EXCEPT !.state = "superseded"] ELSE ops[i]],
                   [kind |-> kind, rev |-> rev, seq |-> at, state |-> "running"])
  /\ slot' = [slot EXCEPT ![kind] = Len(ops) + 1]

\* runPreview(), or runTruth(), which for imported images or too many inputs
\* awaits a session first.
Run(kind, at) ==
  IF kind = "truth" /\ scratch THEN starting' = starting \cup {at} /\ UNCHANGED <<ops, slot>>
  ELSE Queue(kind, at) /\ UNCHANGED starting

\* The guard after the await of a reply.
Takes(i) == ops[i].seq = seq /\ slot[ops[i].kind] = i

\* SchematicResults.admit() and TruthResults.admit(): the oldest go.
admit(kind, i) ==
  kept' = [kept EXCEPT ![kind] = LET all == Append(@, i) IN IF Len(all) > Kept THEN Tail(all) ELSE all]

-----------------------------------------------------------------------------

\* An edit of the source, or of an option of the compiler: a build is scheduled.
Edit ==
  /\ rev < MaxRev /\ rev' = rev + 1 /\ due' = TRUE
  /\ ticket' = NoTicket /\ UNCHANGED <<seq, building, view, scratch, starting, ops, slot, screen, kept, fails>>

Option ==
  /\ ~due /\ due' = TRUE /\ seq < MaxBuilds
  /\ ticket' = NoTicket /\ UNCHANGED <<rev, seq, building, view, scratch, starting, ops, slot, screen, kept, fails>>

\* The timer fires: the stage's sequence is claimed, and what is built is the
\* source there is.
Claim ==
  /\ due /\ seq < MaxBuilds /\ due' = FALSE /\ seq' = seq + 1 /\ building' = rev
  /\ ticket' = NoTicket /\ UNCHANGED <<rev, view, scratch, starting, ops, slot, screen, kept, fails>>

\* The end of runBuild(): the view that is open is run again.
Built ==
  /\ building # 0 /\ building' = 0
  /\ IF view = "live" THEN UNCHANGED <<starting, ops, slot>>
     ELSE Run(IF view = "truth" THEN "truth" ELSE "preview", seq)
  /\ ticket' = NoTicket /\ UNCHANGED <<rev, seq, due, view, scratch, screen, kept, fails>>

\* showView()
Show(v) ==
  /\ v # view /\ view' = v
  /\ IF v = "live" THEN UNCHANGED <<starting, ops, slot>>
     ELSE Run(IF v = "truth" THEN "truth" ELSE "preview", seq)
  /\ ticket' = NoTicket /\ UNCHANGED <<rev, seq, due, building, scratch, screen, kept, fails>>

\* runScratchTruth() after its session: the operation is queued now, if the
\* sequence is still the stage's.
SessionReady(at) ==
  /\ starting' = starting \ {at}
  /\ IF at = seq THEN Queue("truth", at) ELSE UNCHANGED <<ops, slot>>
  /\ ticket' = NoTicket /\ UNCHANGED <<rev, seq, due, building, view, scratch, screen, kept, fails>>

\* The worker's reply, or the rows: dropped without a word where it is not taken.
\* A table or text too large is shown and not kept.
Reply(i, fits) ==
  LET kind == ops[i].kind IN
  /\ ops[i].state \in {"running", "superseded"} /\ Takes(i)
  /\ ops' = [ops EXCEPT ![i].state = IF @ = "running" THEN "succeeded" ELSE @]
  /\ screen' = [screen EXCEPT ![kind] = ops[i].rev]
  /\ IF fits THEN admit(kind, i) ELSE UNCHANGED kept
  /\ ticket' = NoTicket /\ UNCHANGED <<rev, seq, due, building, view, scratch, starting, slot, fails>>

\* A refusal or an error, taken like a reply, or the worker's, which is taken
\* always.
Fail(i, how, lost) ==
  /\ ops[i].state = "running" /\ fails < MaxFails /\ fails' = fails + 1
  /\ lost \/ Takes(i)
  /\ ops' = [ops EXCEPT ![i].state = how]
  /\ ticket' = NoTicket /\ UNCHANGED <<rev, seq, due, building, view, scratch, starting, slot, screen, kept>>

Told(kind, id, how) == ticket' = [kind |-> kind, id |-> id, how |-> how, rev |-> rev]

\* What an agent is told of the operation there is.
Disposition(i) == IF ops[i].state \in Ended THEN "already_current" ELSE "joined"

\* requestSchematicForAgent(): an operation with these inputs, in any state.
requestSchematic ==
  LET i == slot["preview"] IN
  /\ IF i # 0 /\ ops[i].rev = rev
     THEN Told("preview", i, Disposition(i)) /\ UNCHANGED <<starting, ops, slot>>
     ELSE Run("preview", seq) /\ Told("preview", Len(ops) + 1, "started")
  /\ UNCHANGED <<rev, seq, due, building, view, scratch, screen, kept, fails>>

\* requestTruthForAgent(): the operation in the slot, whatever its inputs.
requestTruth ==
  LET i == slot["truth"] IN
  /\ IF i # 0 /\ ops[i].state \notin {"failed", "refused"}
     THEN Told("truth", i, Disposition(i)) /\ UNCHANGED <<starting, ops, slot>>
     ELSE /\ Run("truth", seq)
          /\ IF scratch THEN IF i = 0 THEN ticket' = NoTicket ELSE Told("truth", i, "started")
             ELSE Told("truth", Len(ops) + 1, "started")
  /\ UNCHANGED <<rev, seq, due, building, view, scratch, screen, kept, fails>>

Init ==
  /\ rev = 1 /\ seq = 1 /\ due = FALSE /\ building = 0 /\ view = "live" /\ scratch \in BOOLEAN
  /\ starting = {} /\ ops = <<>> /\ slot = [k \in Kinds |-> 0] /\ screen = [k \in Kinds |-> 0]
  /\ kept = [k \in Kinds |-> <<>>] /\ ticket = NoTicket /\ fails = 0

Sessions == \E at \in starting : SessionReady(at)

Next ==
  \/ Edit \/ Option \/ Claim \/ Built
  \/ \E v \in Views : Show(v)
  \/ Sessions
  \/ \E i \in DOMAIN ops : \/ \E fits \in BOOLEAN : Reply(i, fits)
                           \/ \E how \in {"failed", "refused"} : Fail(i, how, FALSE)
                           \/ Fail(i, "failed", TRUE)
  \/ requestSchematic \/ requestTruth

Spec == Init /\ [][Next]_vars

-----------------------------------------------------------------------------

TypeOK ==
  /\ rev \in Nat \ {0} /\ seq \in Nat \ {0} /\ starting \subseteq 1..seq
  /\ ops \in Seq([kind : Kinds, rev : Nat, seq : Nat, state : Ended \cup {"running"}])
  /\ \A i \in DOMAIN ops : ops[i].rev \in 1..rev /\ ops[i].seq \in 1..seq
  /\ slot \in [Kinds -> Nat] /\ kept \in [Kinds -> Seq(Nat)]
  /\ \A k \in Kinds : slot[k] \in 0..Len(ops) /\ Len(kept[k]) <= Kept

\* Of a kind, only the newest operation runs, so that whoever waits for an
\* older one is told.
OnlyNewestRuns == \A i \in DOMAIN ops : ops[i].state = "running" => slot[ops[i].kind] = i

\* What is kept is of operations that succeeded, the newest ones in the order
\* they did.
KeptAreNewest ==
  \A k \in Kinds :
    /\ \A n \in DOMAIN kept[k] : ops[kept[k][n]].state = "succeeded" /\ ops[kept[k][n]].kind = k
    /\ \A m, n \in DOMAIN kept[k] : m < n => kept[k][m] < kept[k][n]

\* A schematic that is reused is of the source asked about; a truth table's is
\* not promised.
SchematicIsCurrent == ticket.kind = "preview" => ops[ticket.id].rev = ticket.rev

\* Of each kind only the newest operation runs, what is kept is what succeeded last, and
\* a schematic that is reused is of the source asked about.
NewestIsServed == TypeOK /\ OnlyNewestRuns /\ KeptAreNewest /\ SchematicIsCurrent

-----------------------------------------------------------------------------
(***************************************************************************)
(* The inductive invariant behind it: the slot of a kind holds its last    *)
(* operation, which nothing has superseded, and what is kept are           *)
(* operations that were in the slot.                                       *)
(***************************************************************************)
SlotIsNewest ==
  /\ \A i \in DOMAIN ops : i <= slot[ops[i].kind]
  /\ \A k \in Kinds : slot[k] # 0 => ops[slot[k]].kind = k /\ ops[slot[k]].state # "superseded"

KeptAreThere == \A k \in Kinds : \A n \in DOMAIN kept[k] : kept[k][n] \in DOMAIN ops

TicketIsThere == ticket.kind = "preview" => ticket.id \in DOMAIN ops

OpsInv == TypeOK /\ OnlyNewestRuns /\ KeptAreNewest /\ SlotIsNewest /\ KeptAreThere

InspInv == OpsInv /\ SchematicIsCurrent /\ TicketIsThere
=============================================================================
