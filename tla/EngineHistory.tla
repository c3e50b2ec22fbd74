---------------------------- MODULE EngineHistory ---------------------------
(***************************************************************************)
(* The engine with variables that remember, at the end of each timestamp,  *)
(* what the drivers of a gate have been asking for and for how long, and   *)
(* the clock level every memory last saw.  They record and never restrict. *)
(***************************************************************************)
EXTENDS EngineInvariant

VARIABLES
  demand,    \* demand[g]: Target of g when the last timestamp ended
  held,      \* held[g]: for how long, up to GateDelay
  lastClk    \* lastClk[m]: clock bit of m when the last timestamp ended

history == <<demand, held, lastClk>>

HInit ==
  /\ Init
  /\ demand = [g \in Gate |-> Undefined(Width[g])]
  /\ held = [g \in Gate |-> GateDelay]
  /\ lastClk = [m \in Memory |-> "X"]

TimePasses ==
  /\ held' = [g \in Gate |-> IF held[g] + EarliestDue < GateDelay
                              THEN held[g] + EarliestDue ELSE GateDelay]
  /\ UNCHANGED <<demand, lastClk>>

TimestampEnds ==
  /\ demand' = [g \in Gate |-> Target(g, state)]
  /\ held' = [g \in Gate |-> IF Target(g, state) = demand[g] THEN held[g] ELSE 0]
  /\ lastClk' = [m \in Memory |-> ControlBit(m, "clk", state)]

WithinTimestamp ==
  \/ PopLive \/ PopStale \/ StageDone \/ Project
  \/ StartValidation \/ ValidateWave \/ Commit
  \/ NextChanged \/ NotifyOutput \/ NotifyDone
  \/ RequeueRejected \/ SkipAccepted

HNext ==
  \/ HostCall /\ UNCHANGED history
  \/ Advance /\ TimePasses
  \/ WithinTimestamp /\ UNCHANGED history
  \/ EndStep /\ TimestampEnds
  \/ (Return \/ NoSettle) /\ UNCHANGED history

HSpec == HInit /\ [][HNext]_<<vars, history>>

(***************************************************************************)
(* Inclusive inertial delay: a gate commits a new value only when its      *)
(* drivers have asked for that very value for the whole gate delay and ask *)
(* for it still after the commit, so a pulse no longer than the delay      *)
(* never gets through a gate.                                              *)
(***************************************************************************)
InertialFilter ==
  [][phase = "validate" /\ phase' = "notify" =>
       \A i \in DOMAIN staged :
         staged[i].gate /\ Changed(staged[i]) =>
           /\ demand[staged[i].comp] = staged[i].val
           /\ held[staged[i].comp] = GateDelay
           /\ Target(staged[i].comp, state) = staged[i].val]_vars

(***************************************************************************)
(* And not later: a gate whose drivers have asked for a value for the      *)
(* whole delay holds it, however often it was evaluated, replaced or       *)
(* rejected in between.                                                    *)
(***************************************************************************)
DelayIsExact ==
  phase \in {"idle", "next"} /\ ~failed =>
    \A g \in Gate : held[g] = GateDelay => state[g] = demand[g]

(***************************************************************************)
(* The clock the edge detector compares with is the level at the end of    *)
(* the previous timestamp, although it is stored several times per step    *)
(* and by evaluations any input of the memory caused.                      *)
(***************************************************************************)
EdgeDetectorInStep ==
  phase \in {"idle", "next"} /\ ~failed =>
    \A m \in Memory : Kind[m] = "ram" => prevClk[m] = ControlBit(m, "clk", state)

(***************************************************************************)
(* A timestamp changes the cells of a ram only if its clock rose in it     *)
(* from defined low to defined high with we high, and then it stores the   *)
(* din and addr of that same timestamp.                                    *)
(***************************************************************************)
Rose(m) == lastClk[m] = "0" /\ ControlBit(m, "clk", state) = "1"

Captured(m) == [cells[m] EXCEPT ![AddressOf(m, state)] = DataIn(m, state)]

WritesOnEdge ==
  (phase = "notify" \/ phase = "requeue") /\ ~failed' =>
    \A m \in Memory :
      cells'[m] # cells[m] =>
        Rose(m) /\ ControlBit(m, "we", state) = "1" /\ cells'[m] = Captured(m)

\* And an edge is never missed: by the end of its timestamp the word is stored.
EdgeCaptures ==
  phase = "requeue" /\ phase' = "next" =>
    \A m \in Memory :
      /\ Kind[m] = "ram" /\ Rose(m)
      /\ ControlBit(m, "we", state) = "1" /\ HasAddress(m, state)
      => cells[m][AddressOf(m, state)] = DataIn(m, state)

\* One edge, one store: a ram stores when its clock rises, all of that timestamp's word,
\* and never else.
OneStorePerEdge == [][WritesOnEdge /\ EdgeCaptures]_vars

-----------------------------------------------------------------------------
(***************************************************************************)
(* The inductive invariants behind these properties.  Between two          *)
(* timestamps a pending transition is due when its demand has lasted for   *)
(* the gate delay; while the batch is processed every gate it carries has  *)
(* held its demand that long, and while its changes are notified a         *)
(* transition is either that old one or one to a demand that is new.       *)
(***************************************************************************)
DueIn(g, d) == \E i \in 1..Len(queue[d]) : queue[d][i] = PendingEvent(g)

\* The pending transition of g is to the demand, and due when that has lasted.
DueWithDemand(g) ==
  /\ pending[g].val = demand[g]
  /\ held[g] < GateDelay /\ DueIn(g, GateDelay - held[g])

RestTiming ==
  \A g \in Gate :
    /\ demand[g] = Target(g, state)
    /\ pending[g].gen # 0 => DueWithDemand(g)

StepTiming ==
  /\ \A g \in Gate :
       /\ pending[g].gen # 0 =>
            \/ DueWithDemand(g)
            \/ /\ pending[g].val = demand[g]
               /\ held[g] = GateDelay /\ InBatch(PendingEvent(g))
       /\ pending[g].gen = 0 => Staged(g) \/ state[g] = demand[g]
  /\ \A i \in 1..Len(staged) : staged[i].gate =>
       staged[i].val = demand[staged[i].comp] /\ held[staged[i].comp] = GateDelay

NotifyTiming ==
  \A g \in Gate :
    /\ pending[g].gen # 0 =>
         \/ DueWithDemand(g)
         \/ /\ pending[g].val = Target(g, state) /\ pending[g].val # demand[g]
            /\ DueIn(g, GateDelay)
    /\ pending[g].gen = 0 => Consistent(g) \/ Target(g, state) # demand[g]

TimingInv ==
  /\ held \in [Gate -> 0..GateDelay]
  /\ ~failed =>
       /\ phase \in {"idle", "next"} => RestTiming
       /\ InStep => StepTiming
       /\ phase \in {"notify", "requeue"} => NotifyTiming

\* A ram knows the clock of the last timestamp until it has been told of this one, and
\* has stored the word when it has been told of an edge.
EdgeKept(m) ==
  /\ prevClk[m] \in {lastClk[m], ControlBit(m, "clk", state)}
  /\ /\ Rose(m) /\ prevClk[m] = "1"
     /\ ControlBit(m, "we", state) = "1" /\ HasAddress(m, state)
     => cells[m][AddressOf(m, state)] = DataIn(m, state)

ClockInv ==
  ~failed =>
    IF phase \in {"notify", "requeue"}
      THEN \A m \in Ram : EdgeKept(m)
      ELSE \A m \in Ram : prevClk[m] = lastClk[m]
=============================================================================
