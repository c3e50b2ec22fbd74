--------------------------- MODULE AgentCallsProofs ---------------------------
(***************************************************************************)
(* What the agents, the tools' adapter and the compiler's client promise,  *)
(* for any number of calls, tools and requests: RepliesFindTheirCall,      *)
(* ToolsMatchStatus and WaitsAreKept are invariants of MCAgentCalls.       *)
(***************************************************************************)
EXTENDS MCAgentCalls, Sequences, FiniteSetTheorems, WellFoundedInduction, TLAPS

-----------------------------------------------------------------------------
(* Sequences of messages as the sets of what they hold *)

\* What a queue of messages holds after one was added, and after the first was taken.
LEMMA QueueContents ==
  ASSUME NEW S, NEW s \in Seq(S)
  PROVE  /\ \A x \in S : Client!ToSet(Append(s, x)) = Client!ToSet(s) \cup {x}
         /\ s # <<>> => /\ Head(s) \in Client!ToSet(s) /\ Tail(s) \in Seq(S)
                        /\ Client!ToSet(s) = {Head(s)} \cup Client!ToSet(Tail(s))
         /\ Client!ToSet(s) \subseteq S
<1>1. \A x \in S : Client!ToSet(Append(s, x)) = Client!ToSet(s) \cup {x}
  <2> SUFFICES ASSUME NEW x \in S
               PROVE  Client!ToSet(Append(s, x)) = Client!ToSet(s) \cup {x}
    OBVIOUS
  <2> DEFINE t == Append(s, x)
  <2>1. /\ DOMAIN s = 1..Len(s) /\ Len(s) \in Nat /\ DOMAIN t = 1..(Len(s) + 1)
        /\ \A i \in 1..Len(s) : t[i] = s[i]
        /\ t[Len(s) + 1] = x
    OBVIOUS
  <2>2. \A i \in 1..(Len(s) + 1) : i \in 1..Len(s) \/ i = Len(s) + 1
    BY <2>1
  <2>3. Len(s) + 1 \in 1..(Len(s) + 1) /\ 1..Len(s) \subseteq 1..(Len(s) + 1)
    BY <2>1
  <2> HIDE DEF t
  <2>4. Client!ToSet(t) = Client!ToSet(s) \cup {x}
    BY <2>1, <2>2, <2>3 DEF Client!ToSet
  <2> QED
    BY <2>4 DEF t
<1>2. ASSUME s # <<>>
      PROVE  /\ Head(s) \in Client!ToSet(s) /\ Tail(s) \in Seq(S)
             /\ Client!ToSet(s) = {Head(s)} \cup Client!ToSet(Tail(s))
  <2> DEFINE t == Tail(s)
  <2>1. /\ DOMAIN s = 1..Len(s) /\ Len(s) \in Nat /\ Len(s) # 0 /\ Head(s) = s[1] /\ t \in Seq(S)
        /\ DOMAIN t = 1..(Len(s) - 1) /\ \A i \in 1..(Len(s) - 1) : t[i] = s[i + 1]
    BY <1>2
  <2>2. \A i \in 1..Len(s) : i = 1 \/ (i - 1 \in 1..(Len(s) - 1) /\ s[i] = t[i - 1])
    BY <2>1
  <2>3. 1 \in 1..Len(s) /\ \A i \in 1..(Len(s) - 1) : i + 1 \in 1..Len(s)
    BY <2>1
  <2> HIDE DEF t
  <2>4. Head(s) \in Client!ToSet(s) /\ Client!ToSet(t) \subseteq Client!ToSet(s)
    BY <2>1, <2>3 DEF Client!ToSet
  <2>5. Client!ToSet(s) \subseteq {Head(s)} \cup Client!ToSet(t)
    BY <2>1, <2>2 DEF Client!ToSet
  <2> QED
    BY <2>1, <2>4, <2>5 DEF t
<1>3. Client!ToSet(s) \subseteq S
  BY DEF Client!ToSet
<1> QED
  BY <1>1, <1>2, <1>3
-----------------------------------------------------------------------------
(* The client and its worker *)

\* An instance counts like the module it is an instance in.
LEMMA SameCount == \A S : Client!Cardinality(S) = Cardinality(S)
BY DEF Client!Cardinality, Cardinality

\* Counting the ids: every call is in Began, and in Over when it takes no more of them.
LEMMA Counts ==
  /\ IsFiniteSet(Client!Began) /\ IsFiniteSet(Client!Over)
  /\ Cardinality(Client!Began) \in Nat /\ Cardinality(Client!Over) \in Nat
  /\ Cardinality(Client!Began) <= Cardinality(Request)
  /\ Cardinality(Client!Over) <= Cardinality(Request) /\ Cardinality(Request) \in Nat
BY ClientAssumption, FS_Subset, FS_CardinalityType DEF Client!Began, Client!Over

\* A step that takes no id keeps the count, because no call goes back.
LEMMA CountKept ==
  ASSUME Client!IdsAreCounted, nextId' = nextId, nextId \in Nat,
         Client!Began \subseteq Client!Began', Client!Over \subseteq Client!Over'
  PROVE  Client!IdsAreCounted'
<1>1. IsFiniteSet(Client!Began') /\ IsFiniteSet(Client!Over')
  BY ClientAssumption, FS_Subset DEF Client!Began, Client!Over
<1>2. /\ Cardinality(Client!Began) <= Cardinality(Client!Began')
      /\ Cardinality(Client!Over) <= Cardinality(Client!Over')
      /\ Cardinality(Client!Began') \in Nat /\ Cardinality(Client!Over') \in Nat
  BY <1>1, FS_Subset, FS_CardinalityType
<1> QED
  BY <1>2, Counts, SameCount DEF Client!IdsAreCounted

\* A step that takes one is the one in which a call begins, or takes its last; so
\* there is room for all of them.
LEMMA CountTaken ==
  ASSUME Client!IdsAreCounted, nextId' = nextId + 1, nextId \in Nat, NEW r \in Request,
         \/ /\ Client!Began' = Client!Began \cup {r} /\ r \notin Client!Began
            /\ Client!Over \subseteq Client!Over'
         \/ /\ Client!Over' = Client!Over \cup {r} /\ r \notin Client!Over
            /\ Client!Began \subseteq Client!Began'
  PROVE  Client!IdsAreCounted' /\ nextId' \in Client!Ids
<1>1. IsFiniteSet(Client!Began') /\ IsFiniteSet(Client!Over')
  BY ClientAssumption, FS_Subset DEF Client!Began, Client!Over
<1>2. /\ Cardinality(Client!Began') \in Nat /\ Cardinality(Client!Over') \in Nat
      /\ Cardinality(Client!Began') <= Cardinality(Request)
      /\ Cardinality(Client!Over') <= Cardinality(Request) /\ Cardinality(Request) \in Nat
  BY <1>1, ClientAssumption, FS_Subset, FS_CardinalityType DEF Client!Began, Client!Over
<1>3. ASSUME Client!Began' = Client!Began \cup {r}, r \notin Client!Began,
             Client!Over \subseteq Client!Over'
      PROVE  Client!IdsAreCounted'
  <2>1. Cardinality(Client!Began') = Cardinality(Client!Began) + 1
    BY <1>3, Counts, FS_AddElement
  <2>2. Cardinality(Client!Over) <= Cardinality(Client!Over')
    BY <1>1, <1>3, FS_Subset
  <2> QED
    BY <1>2, <2>1, <2>2, Counts, SameCount DEF Client!IdsAreCounted
<1>4. ASSUME Client!Over' = Client!Over \cup {r}, r \notin Client!Over,
             Client!Began \subseteq Client!Began'
      PROVE  Client!IdsAreCounted'
  <2>1. Cardinality(Client!Over') = Cardinality(Client!Over) + 1
    BY <1>4, Counts, FS_AddElement
  <2>2. Cardinality(Client!Began) <= Cardinality(Client!Began')
    BY <1>1, <1>4, FS_Subset
  <2> QED
    BY <1>2, <2>1, <2>2, Counts, SameCount DEF Client!IdsAreCounted
<1>5. Client!IdsAreCounted'
  BY <1>3, <1>4
<1>6. nextId' <= 1 + Cardinality(Client!Began') + Cardinality(Client!Over')
  BY <1>5, SameCount DEF Client!IdsAreCounted
<1> QED
  BY <1>2, <1>5, <1>6, SameCount, ClientAssumption DEF Client!Ids

\* What send() does, whether it has to start a worker or not: the message is with the
\* worker in use, and no instance comes or goes.
Posted(what) ==
  LET e == [id |-> nextId, for |-> what]
  IN  /\ e \in Client!Message /\ pending' = pending \cup {e} /\ nextId' = nextId + 1
      /\ worker' \in Client!Workers /\ worker' \in 0..spawned' /\ spawned' \in 0..MaxWorkers
      /\ worker # 0 => worker' = worker
      /\ worker = 0 => pending = {}
      /\ workers' \in [Client!Workers -> Client!Side]
      /\ \A w \in Client!Workers :
           /\ workers'[w].exports = workers[w].exports /\ workers'[w].outbox = workers[w].outbox
           /\ workers'[w].inbox = IF w = worker' THEN Append(workers[w].inbox, e)
                                                  ELSE workers[w].inbox

\* send() posts exactly one message, under the next id, to the worker in use.
LEMMA SendPosts ==
  ASSUME Client!ClientInv, NEW what \in Client!What, Client!Send(what)
  PROVE  Posted(what)
<1> DEFINE e == [id |-> nextId, for |-> what]
<1>1. /\ worker \in 0..spawned /\ spawned \in 0..MaxWorkers /\ MaxWorkers \in Nat
      /\ worker = 0 => spawned < MaxWorkers
      /\ \A w \in Client!Workers \ {worker} :
           workers[w].inbox = <<>> /\ workers[w].outbox = <<>> /\ workers[w].exports = "none"
      /\ worker = 0 => pending = {}
  BY ClientAssumption DEF Client!ClientInv, Client!TypeOK, Client!OnlyOneWorks,
     Client!NobodyWaitsForNothing
<1>2. /\ e \in Client!Message /\ pending' = pending \cup {e} /\ nextId' = nextId + 1
  BY DEF Client!ClientInv, Client!TypeOK, Client!Send, Client!TakeId, Client!Message
<1>3. workers \in [Client!Workers -> Client!Side]
  BY DEF Client!ClientInv, Client!TypeOK
<1>4. CASE worker # 0
  <2>1. /\ worker' = worker /\ spawned' = spawned /\ worker \in Client!Workers
        /\ workers' = [workers EXCEPT ![worker].inbox = Append(@, e)]
    BY <1>1, <1>4 DEF Client!Send, Client!SpawnAndPost, Client!Workers
  <2> HIDE DEF e
  <2>2. /\ \A w \in Client!Workers :
             /\ workers'[w].exports = workers[w].exports /\ workers'[w].outbox = workers[w].outbox
             /\ workers'[w].inbox = IF w = worker THEN Append(workers[w].inbox, e)
                                                  ELSE workers[w].inbox
    BY <1>3, <2>1 DEF Client!Side
  <2>3. workers' \in [Client!Workers -> Client!Side]
    <3>1. Append(workers[worker].inbox, e) \in Seq(Client!Message)
      BY <1>2, <1>3, <2>1 DEF Client!Side
    <3> QED
      BY <1>3, <2>1, <3>1 DEF Client!Side
  <2> QED
    BY <1>1, <1>2, <1>4, <2>1, <2>2, <2>3 DEF Posted, e
<1>5. CASE worker = 0
  <2>1. /\ worker' = spawned + 1 /\ spawned' = spawned + 1 /\ worker' \in Client!Workers
        /\ worker' \in 0..spawned' /\ spawned' \in 0..MaxWorkers /\ worker' # worker
    <3>1. worker' = spawned + 1 /\ spawned' = spawned + 1
      BY <1>5 DEF Client!Send, Client!SpawnAndPost
    <3> QED
      BY <1>1, <1>5, <3>1 DEF Client!Workers
  <2>0. workers' = [workers EXCEPT ![worker'] = [alive |-> TRUE, exports |-> "none",
             inbox |-> <<e>>, outbox |-> <<>>, error |-> FALSE]]
    BY <1>5, <2>1 DEF Client!Send, Client!SpawnAndPost, Client!Fresh, Client!Idle
  <2> HIDE DEF e
  <2>2. \A w \in Client!Workers :
             /\ workers'[w].exports = workers[w].exports /\ workers'[w].outbox = workers[w].outbox
             /\ workers'[w].inbox = IF w = worker' THEN Append(workers[w].inbox, e)
                                                   ELSE workers[w].inbox
    <3>1. Append(<<>>, e) = <<e>>
      BY <1>2
    <3> QED
      BY <1>1, <1>3, <1>5, <2>0, <2>1, <3>1 DEF Client!Side
  <2>3. workers' \in [Client!Workers -> Client!Side]
    <3>1. <<e>> \in Seq(Client!Message) /\ <<>> \in Seq(Client!Answer)
      BY <1>2
    <3> QED
      BY <1>3, <2>0, <2>1, <3>1 DEF Client!Side
  <2> QED
    BY <1>1, <1>2, <1>5, <2>1, <2>2, <2>3 DEF Posted, e
<1> QED
  BY <1>4, <1>5

\* What the ends of the messages hold, in sets.
LEMMA BoxTypes ==
  ASSUME workers \in [Client!Workers -> Client!Side], NEW w \in Client!Workers
  PROVE  /\ workers[w].inbox \in Seq(Client!Message) /\ workers[w].outbox \in Seq(Client!Answer)
         /\ Client!Inbox(w) \subseteq Client!Message /\ Client!Outbox(w) \subseteq Client!Answer
<1>1. workers[w].inbox \in Seq(Client!Message) /\ workers[w].outbox \in Seq(Client!Answer)
  BY DEF Client!Side
<1> QED
  BY <1>1, QueueContents DEF Client!Inbox, Client!Outbox

\* The entries of the map are with the worker in use.
OnTheWay ==
  \A e \in pending :
    /\ worker # 0
    /\ \/ e \in Client!Inbox(worker)
       \/ \E m \in Client!Outbox(worker) : m.id = e.id /\ m.of = e.for

\* After a message was posted it is in the map and with the worker in use; nothing else
\* moved, and what is instantiated is so still.
Delivered(e) ==
  /\ e \in pending' /\ pending' = pending \cup {e} /\ nextId' = nextId + 1
  /\ worker' \in 0..spawned' /\ spawned' \in 0..MaxWorkers
  /\ pending' \subseteq Client!Message /\ workers' \in [Client!Workers -> Client!Side]
  /\ Client!IdsAreUnique' /\ Client!OnlyOneWorks' /\ OnTheWay'
  /\ Client!Instantiated => Client!Instantiated'
  /\ \A w \in Client!Workers :
       /\ workers'[w].exports = workers[w].exports
       /\ Client!Outbox(w)' = Client!Outbox(w)
       /\ \A m \in Client!Inbox(w)' : m \in Client!Inbox(w) \/ (m = e /\ w = worker')

\* A message posted under a fresh id leaves ids unique, and is with the worker.
LEMMA PostKeeps ==
  ASSUME Client!ClientInv, NEW what \in Client!What, Posted(what)
  PROVE  Delivered([id |-> nextId, for |-> what])
<1> DEFINE e == [id |-> nextId, for |-> what]
<1>1. /\ e \in Client!Message /\ pending' = pending \cup {e} /\ nextId' = nextId + 1
      /\ worker' \in Client!Workers /\ worker' \in 0..spawned' /\ spawned' \in 0..MaxWorkers
      /\ worker # 0 => worker' = worker
      /\ worker = 0 => pending = {}
      /\ workers' \in [Client!Workers -> Client!Side]
      /\ \A w \in Client!Workers :
           /\ workers'[w].exports = workers[w].exports /\ workers'[w].outbox = workers[w].outbox
           /\ workers'[w].inbox = IF w = worker' THEN Append(workers[w].inbox, e)
                                                  ELSE workers[w].inbox
  BY DEF Posted
<1>2. /\ workers \in [Client!Workers -> Client!Side] /\ pending \subseteq Client!Message
      /\ nextId \in Nat /\ worker \in 0..spawned /\ spawned \in Nat
  BY DEF Client!ClientInv, Client!TypeOK, Client!Ids
<1>3. e.id = nextId /\ e.for = what
  OBVIOUS
<1> HIDE DEF e
<1>4. \A w \in Client!Workers :
        /\ Client!Outbox(w)' = Client!Outbox(w)
        /\ Client!Inbox(w)' = IF w = worker' THEN Client!Inbox(w) \cup {e} ELSE Client!Inbox(w)
  <2> SUFFICES ASSUME NEW w \in Client!Workers
               PROVE  /\ Client!Outbox(w)' = Client!Outbox(w)
                      /\ Client!Inbox(w)' = IF w = worker' THEN Client!Inbox(w) \cup {e}
                                                           ELSE Client!Inbox(w)
    OBVIOUS
  <2>1. workers[w].inbox \in Seq(Client!Message)
    BY <1>2, BoxTypes
  <2>2. Client!ToSet(Append(workers[w].inbox, e)) = Client!ToSet(workers[w].inbox) \cup {e}
    BY <1>1, <2>1, QueueContents
  <2> QED
    BY <1>1, <2>2 DEF Client!Inbox, Client!Outbox
<1>5. \A x \in pending : x.id < nextId
  BY DEF Client!ClientInv, Client!IdsAreUnique
<1>6. \A w \in Client!Workers :
        /\ \A m \in Client!Inbox(w) :
             m.id < nextId /\ \A x \in pending : x.id = m.id => x.for = m.for
        /\ \A m \in Client!Outbox(w) :
             m.id < nextId /\ \A x \in pending : x.id = m.id => x.for = m.of
  BY DEF Client!ClientInv, Client!IdsAreUnique
<1>7. /\ \A x \in pending : x.id \in Nat
      /\ \A w \in Client!Workers : /\ \A m \in Client!Inbox(w) : m.id \in Nat
                                   /\ \A m \in Client!Outbox(w) : m.id \in Nat
  <2>1. \A m \in Client!Message : m.id \in Nat
    <3>1. Client!Ids \subseteq Nat
      BY DEF Client!Ids
    <3> QED
      BY <3>1 DEF Client!Message
  <2>2. \A m \in Client!Answer : m.id \in Nat
    <3>1. Client!Ids \subseteq Nat
      BY DEF Client!Ids
    <3> QED
      BY <3>1 DEF Client!Answer
  <2> QED
    BY <1>2, <2>1, <2>2, BoxTypes
<1>8. Client!IdsAreUnique'
  <2>1. \A x \in pending' : x.id < nextId'
    BY <1>1, <1>2, <1>3, <1>5, <1>7
  <2>2. \A x, y \in pending' : x.id = y.id => x = y
    <3>1. \A x, y \in pending : x.id = y.id => x = y
      BY DEF Client!ClientInv, Client!IdsAreUnique
    <3> QED
      BY <1>1, <1>2, <1>3, <1>5, <1>7, <3>1
  <2>3. ASSUME NEW w \in Client!Workers
        PROVE  /\ \A m \in Client!Inbox(w)' :
                    m.id < nextId' /\ \A x \in pending' : x.id = m.id => x.for = m.for
               /\ \A m \in Client!Outbox(w)' :
                    m.id < nextId' /\ \A x \in pending' : x.id = m.id => x.for = m.of
    <3>1. ASSUME NEW m \in Client!Inbox(w)'
          PROVE  m.id < nextId' /\ \A x \in pending' : x.id = m.id => x.for = m.for
      <4>1. CASE m = e
        <5>1. m.id = nextId /\ m.for = what /\ nextId < nextId'
          BY <1>1, <1>2, <1>3, <4>1
        <5>2. \A x \in pending' : x.id = nextId => x = e
          BY <1>1, <1>2, <1>5, <1>7
        <5> QED
          BY <1>3, <5>1, <5>2
      <4>2. CASE m \in Client!Inbox(w)
        <5>1. m.id \in Nat /\ m.id < nextId /\ \A x \in pending : x.id = m.id => x.for = m.for
          BY <1>6, <1>7, <4>2
        <5> QED
          BY <1>1, <1>2, <1>3, <5>1
      <4> QED
        BY <1>4, <3>1, <4>1, <4>2
    <3>2. ASSUME NEW m \in Client!Outbox(w)
          PROVE  m.id < nextId' /\ \A x \in pending' : x.id = m.id => x.for = m.of
      BY <1>1, <1>2, <1>3, <1>6, <1>7
    <3> QED
      BY <1>4, <3>1, <3>2
  <2> QED
    BY <2>1, <2>2, <2>3 DEF Client!IdsAreUnique
<1>9. Client!OnlyOneWorks'
  <2>1. ASSUME NEW w \in Client!Workers, w # worker'
        PROVE  workers'[w].inbox = <<>> /\ workers'[w].outbox = <<>> /\ workers'[w].exports = "none"
    <3>1. w # worker
      BY <1>1, <2>1 DEF Client!Workers
    <3> QED
      BY <1>1, <2>1, <3>1 DEF Client!ClientInv, Client!OnlyOneWorks
  <2>2. worker' # 0
    BY <1>1 DEF Client!Workers
  <2> QED
    BY <2>1, <2>2 DEF Client!OnlyOneWorks
<1>10. OnTheWay'
  <2> SUFFICES ASSUME NEW x \in pending'
               PROVE  \/ x \in Client!Inbox(worker)'
                      \/ \E m \in Client!Outbox(worker)' : m.id = x.id /\ m.of = x.for
    BY <1>1 DEF OnTheWay, Client!Workers
  <2>1. CASE x = e
    BY <1>1, <1>4, <2>1 DEF Client!Inbox
  <2>2. CASE x \in pending
    <3>1. worker' = worker /\ worker \in Client!Workers
      BY <1>1, <2>2
    <3>2. \/ x \in Client!Inbox(worker)
          \/ \E m \in Client!Outbox(worker) : m.id = x.id /\ m.of = x.for
      BY <2>2 DEF Client!ClientInv, Client!NobodyWaitsForNothing, Client!Inbox, Client!Outbox
    <3> QED
      BY <1>4, <3>1, <3>2 DEF Client!Inbox, Client!Outbox
  <2> QED
    BY <1>1, <2>1, <2>2
<1>11. Client!Instantiated => Client!Instantiated'
  BY <1>1, <1>2 DEF Client!Instantiated, Client!Workers
<1>12. e \in pending' /\ pending' \subseteq Client!Message
  BY <1>1, <1>2
<1>13. \A w \in Client!Workers :
         /\ workers'[w].exports = workers[w].exports
         /\ Client!Outbox(w)' = Client!Outbox(w)
         /\ \A m \in Client!Inbox(w)' : m \in Client!Inbox(w) \/ (m = e /\ w = worker')
  BY <1>1, <1>4
<1> QED
  BY <1>1, <1>8, <1>9, <1>10, <1>11, <1>12, <1>13 DEF e, Delivered

\* The conditions that a step keeps by sending nothing.
LEMMA QuietKeeps ==
  ASSUME Client!ClientInv, worker' = worker, spawned' = spawned, workers' = workers,
         pending' = pending, nextId' \in {nextId, nextId + 1}
  PROVE  Client!IdsAreUnique' /\ Client!OnlyOneWorks' /\ OnTheWay'
<1>1. /\ nextId \in Nat /\ workers \in [Client!Workers -> Client!Side]
      /\ pending \subseteq Client!Message /\ nextId' \in Nat /\ nextId <= nextId'
  BY DEF Client!ClientInv, Client!TypeOK, Client!Ids
<1>2. /\ \A x \in pending : x.id \in Nat /\ x.id < nextId
      /\ \A w \in Client!Workers : /\ \A m \in Client!Inbox(w) : m.id \in Nat /\ m.id < nextId
                                   /\ \A m \in Client!Outbox(w) : m.id \in Nat /\ m.id < nextId
  <2>1. \A m \in Client!Message : m.id \in Nat
    <3>1. Client!Ids \subseteq Nat
      BY DEF Client!Ids
    <3> QED
      BY <3>1 DEF Client!Message
  <2>2. \A m \in Client!Answer : m.id \in Nat
    <3>1. Client!Ids \subseteq Nat
      BY DEF Client!Ids
    <3> QED
      BY <3>1 DEF Client!Answer
  <2> QED
    BY <1>1, <2>1, <2>2, BoxTypes DEF Client!ClientInv, Client!IdsAreUnique
<1>3. \A w \in Client!Workers : Client!Inbox(w)' = Client!Inbox(w) /\ Client!Outbox(w)' = Client!Outbox(w)
  BY DEF Client!Inbox, Client!Outbox
<1>4. Client!IdsAreUnique'
  <2>1. /\ \A e \in pending : e.id < nextId'
        /\ \A w \in Client!Workers : /\ \A m \in Client!Inbox(w) : m.id < nextId'
                                     /\ \A m \in Client!Outbox(w) : m.id < nextId'
    BY <1>1, <1>2
  <2> QED
    BY <1>3, <2>1 DEF Client!ClientInv, Client!IdsAreUnique
<1>5. Client!OnlyOneWorks'
  BY DEF Client!ClientInv, Client!OnlyOneWorks
<1>6. OnTheWay'
  BY DEF Client!ClientInv, Client!NobodyWaitsForNothing, OnTheWay, Client!Inbox, Client!Outbox
<1> QED
  BY <1>4, <1>5, <1>6

\* What the invariant says of the calls, taken apart.
LEMMA CallFacts ==
  ASSUME Client!ClientInv
  PROVE  /\ call \in [Request -> [at : {"new", "init", "go", "sent", "answered", "rejected"},
                                 reply : Client!Answer \cup {None}]]
         /\ nextId \in Nat /\ pending \subseteq Client!Message /\ crossed \subseteq Request
         /\ "init" \notin Request
         /\ initPromise \in {"none", "waiting", "resolved", "rejected"}
         /\ initialized \in BOOLEAN /\ failure \in BOOLEAN
         /\ OnTheWay /\ Client!IdsAreCounted
         /\ worker \in 0..spawned /\ spawned \in 0..MaxWorkers
         /\ workers \in [Client!Workers -> Client!Side]
         /\ worker # 0 => worker \in Client!Workers
<1>1. worker # 0 => worker \in Client!Workers
  BY ClientAssumption DEF Client!ClientInv, Client!TypeOK, Client!Workers
<1> QED
  BY <1>1, ClientAssumption DEF Client!ClientInv, Client!TypeOK, Client!NobodyWaitsForNothing,
     OnTheWay, Client!Inbox, Client!Outbox, Client!Ids

\* The invariant put together again after a step.
LEMMA ClientParts ==
  ASSUME worker' \in 0..spawned', spawned' \in 0..MaxWorkers, nextId' \in Client!Ids,
         pending' \subseteq Client!Message, workers' \in [Client!Workers -> Client!Side],
         initPromise' \in {"none", "waiting", "resolved", "rejected"},
         initialized' \in BOOLEAN, failure' \in BOOLEAN, crossed' \subseteq Request,
         call' \in [Request -> [at : {"new", "init", "go", "sent", "answered", "rejected"},
                               reply : Client!Answer \cup {None}]],
         Client!IdsAreUnique', Client!IdsAreCounted', Client!OnlyOneWorks',
         Client!HandshakeFirst', Client!HandshakeIsAwaited', Client!AnswersItsOwn',
         Client!InitComesFirst', OnTheWay',
         \A r \in Request : /\ call'[r].at = "sent" => Client!IdsFor(r)' # {}
                            /\ call'[r].at = "init" => Client!IdsFor("init")' # {}
  PROVE  Client!ClientInv'
<1>1. Client!TypeOK'
  BY DEF Client!TypeOK
<1>2. Client!NobodyWaitsForNothing'
  BY DEF Client!NobodyWaitsForNothing, OnTheWay, Client!Inbox, Client!Outbox, Client!Init_
<1> QED
  BY <1>1, <1>2 DEF Client!ClientInv

\* A step that leaves the instances as they are, and delivers no reply to a call.
LEMMA NoReplyComes ==
  ASSUME Client!ClientInv, NEW r \in Request, NEW at \in {"init", "go", "sent", "rejected"},
         call' = [call EXCEPT ![r].at = at], crossed' = crossed
  PROVE  /\ call' \in [Request -> [at : {"new", "init", "go", "sent", "answered", "rejected"},
                                 reply : Client!Answer \cup {None}]]
         /\ call'[r].at = at /\ \A q \in Request \ {r} : call'[q] = call[q]
         /\ Client!AnswersItsOwn' /\ Client!InitComesFirst'
<1>1. /\ call \in [Request -> [at : {"new", "init", "go", "sent", "answered", "rejected"},
                              reply : Client!Answer \cup {None}]]
  BY CallFacts
<1>2. call' \in [Request -> [at : {"new", "init", "go", "sent", "answered", "rejected"},
                                 reply : Client!Answer \cup {None}]]
  BY <1>1
<1>3. /\ call'[r].at = at /\ \A q \in Request \ {r} : call'[q] = call[q]
  BY <1>1
<1>4. Client!AnswersItsOwn' /\ Client!InitComesFirst'
  BY <1>3 DEF Client!ClientInv, Client!AnswersItsOwn, Client!InitComesFirst
<1> QED
  BY <1>2, <1>3, <1>4

\* What one call that moves does to the two sets the ids are counted by.
LEMMA BeganAndOver ==
  ASSUME Client!ClientInv, NEW r \in Request,
         NEW at \in {"init", "go", "sent", "answered", "rejected"},
         call'[r].at = at, \A q \in Request \ {r} : call'[q] = call[q]
  PROVE  /\ Client!Began' = Client!Began \cup {r}
         /\ at \in {"sent", "answered", "rejected"} => Client!Over' = Client!Over \cup {r}
         /\ call[r].at \in {"new", "init", "go"} => r \notin Client!Over
         /\ call[r].at = "new" => r \notin Client!Began
         /\ r \notin Client!Over => Client!Over \subseteq Client!Over'
BY DEF Client!Began, Client!Over

\* The parts of the handshake invariant, after a step.
LEMMA HandshakeParts ==
  ASSUME initialized' \/ initPromise' = "resolved" => Client!Instantiated',
         \A r \in Request \ crossed' : call'[r].at = "go" => Client!Instantiated',
         \A w \in Client!Workers :
           /\ \A m \in Client!Inbox(w)' : m.for \in Request \ crossed' => workers'[w].exports = "ok"
           /\ \A m \in Client!Outbox(w)' : /\ m.status = "ok" => workers'[w].exports = "ok"
                                           /\ m.status = "init first" => m.of \in crossed'
  PROVE  Client!HandshakeFirst'
BY DEF Client!HandshakeFirst

\* Who is through with the handshake finds the instance, also after a step that only
\* posted a message, or nothing.
LEMMA PostHandshake ==
  ASSUME Client!ClientInv, crossed' = crossed, NEW e,
         \/ Delivered(e) /\ (e.for \in Request \ crossed => Client!Instantiated)
         \/ worker' = worker /\ workers' = workers,
         initialized' \/ initPromise' = "resolved" => Client!Instantiated,
         \A q \in Request \ crossed : call'[q].at = "go" => Client!Instantiated
  PROVE  Client!HandshakeFirst'
<1>1. Client!Instantiated => Client!Instantiated'
  BY DEF Delivered, Client!Instantiated
<1>2. ASSUME NEW w \in Client!Workers, NEW m \in Client!Inbox(w)', m.for \in Request \ crossed'
      PROVE  workers'[w].exports = "ok"
  <2>1. CASE m \in Client!Inbox(w)
    BY <1>2, <2>1 DEF Delivered, Client!ClientInv, Client!HandshakeFirst
  <2>2. CASE m \notin Client!Inbox(w)
    <3>1. m = e /\ w = worker' /\ Client!Instantiated
      BY <1>2, <2>2 DEF Delivered, Client!Inbox
    <3> QED
      BY <1>1, <3>1 DEF Client!Instantiated
  <2> QED
    BY <2>1, <2>2
<1>3. ASSUME NEW w \in Client!Workers, NEW m \in Client!Outbox(w)'
      PROVE  /\ m.status = "ok" => workers'[w].exports = "ok"
             /\ m.status = "init first" => m.of \in crossed'
  <2>1. m \in Client!Outbox(w) /\ workers'[w].exports = workers[w].exports
    BY <1>3 DEF Delivered, Client!Outbox
  <2> QED
    BY <2>1 DEF Client!ClientInv, Client!HandshakeFirst
<1> QED
  BY <1>1, <1>2, <1>3 DEF Client!HandshakeFirst

\* Send(what) where a call has come to `at` with it.
LEMMA PostingKeeps ==
  ASSUME Client!ClientInv, NEW r \in Request, NEW what \in Client!What, Client!Send(what),
         crossed' = crossed, initialized' = initialized, failure' = failure,
         \/ /\ call[r].at = "new" /\ call' = [call EXCEPT ![r].at = "init"]
            /\ what = "init" /\ initPromise' = "waiting"
         \/ /\ call[r].at = "go" /\ call' = [call EXCEPT ![r].at = "sent"]
            /\ what = r /\ initPromise' = initPromise
  PROVE  Client!ClientInv'
<1> DEFINE e == [id |-> nextId, for |-> what]
<1>0. e.for = what /\ "init" \notin Request
  BY ClientAssumption
<1> HIDE DEF e
<1>1. Delivered(e)
  BY SendPosts, PostKeeps DEF e
<1>2. PICK at \in {"init", "sent"} :
        /\ call' = [call EXCEPT ![r].at = at]
        /\ at = "init" => call[r].at = "new"
        /\ at = "sent" => call[r].at = "go" /\ what = r
  OBVIOUS
<1>3. /\ call' \in [Request -> [at : {"new", "init", "go", "sent", "answered", "rejected"},
                                 reply : Client!Answer \cup {None}]]
      /\ call'[r].at = at /\ \A q \in Request \ {r} : call'[q] = call[q]
      /\ Client!AnswersItsOwn' /\ Client!InitComesFirst'
  BY <1>2, NoReplyComes
<1>4. Client!IdsAreCounted' /\ nextId' \in Client!Ids
  BY <1>1, <1>2, <1>3, BeganAndOver, CountTaken, CallFacts DEF Delivered
<1>5. e \in Client!IdsFor(what)'
  BY <1>0, <1>1 DEF Client!IdsFor, Delivered
<1>6. Client!HandshakeFirst'
  <2>1. initialized' \/ initPromise' = "resolved" => Client!Instantiated
    BY DEF Client!ClientInv, Client!HandshakeFirst
  <2>2. \A q \in Request \ crossed : call'[q].at = "go" => Client!Instantiated
    BY <1>2, <1>3 DEF Client!ClientInv, Client!HandshakeFirst
  <2>3. e.for \in Request \ crossed => Client!Instantiated
    BY <1>0 DEF Client!ClientInv, Client!HandshakeFirst
  <2> QED
    BY <1>1, <2>1, <2>2, <2>3, PostHandshake
<1>7. \A x : Client!IdsFor(x) # {} => Client!IdsFor(x)' # {}
  BY <1>1 DEF Delivered, Client!IdsFor
<1>8. \A q \in Request : /\ call'[q].at = "sent" => Client!IdsFor(q)' # {}
                         /\ call'[q].at = "init" => Client!IdsFor("init")' # {}
  BY <1>2, <1>3, <1>5, <1>7 DEF Client!ClientInv, Client!NobodyWaitsForNothing, Client!Init_
<1>9. Client!HandshakeIsAwaited'
  BY <1>5, <1>7 DEF Client!ClientInv, Client!HandshakeIsAwaited, Client!Init_
<1>10. /\ initPromise' \in {"none", "waiting", "resolved", "rejected"}
       /\ initialized' \in BOOLEAN /\ failure' \in BOOLEAN /\ crossed' \subseteq Request
  BY CallFacts
<1> QED
  BY <1>1, <1>3, <1>4, <1>6, <1>8, <1>9, <1>10, ClientParts DEF Delivered

\* A call that is told at once: it waits for the handshake of another, goes on, or is
\* rejected.
LEMMA TellingKeeps ==
  ASSUME Client!ClientInv, NEW r \in Request, NEW at \in {"init", "go", "rejected"},
         call' = [call EXCEPT ![r].at = at], call[r].at \in {"new", "go"},
         at = "init" => initPromise = "waiting",
         at = "go" => initPromise = "resolved",
         nextId' = nextId \/ (nextId' = nextId + 1 /\ at = "rejected"),
         worker' = worker, spawned' = spawned, workers' = workers, pending' = pending,
         initPromise' = initPromise, initialized' = initialized, failure' = failure,
         crossed' = crossed
  PROVE  Client!ClientInv'
<1>1. Client!IdsAreUnique' /\ Client!OnlyOneWorks' /\ OnTheWay'
  BY QuietKeeps
<1>3. /\ call' \in [Request -> [at : {"new", "init", "go", "sent", "answered", "rejected"},
                                 reply : Client!Answer \cup {None}]]
      /\ call'[r].at = at /\ \A q \in Request \ {r} : call'[q] = call[q]
      /\ Client!AnswersItsOwn' /\ Client!InitComesFirst'
  BY NoReplyComes
<1>4. Client!IdsAreCounted' /\ nextId' \in Client!Ids
  <2>1. /\ Client!Began' = Client!Began \cup {r} /\ r \notin Client!Over
        /\ Client!Over \subseteq Client!Over'
        /\ at = "rejected" => Client!Over' = Client!Over \cup {r}
    BY <1>3, BeganAndOver
  <2>2. nextId \in Nat /\ nextId \in Client!Ids /\ Client!IdsAreCounted
    BY CallFacts DEF Client!ClientInv, Client!TypeOK
  <2>3. CASE nextId' = nextId
    BY <2>1, <2>2, <2>3, CountKept
  <2>4. CASE nextId' = nextId + 1 /\ at = "rejected"
    BY <2>1, <2>2, <2>4, CountTaken
  <2> QED
    BY <2>3, <2>4
<1>6. Client!HandshakeFirst'
  <2>1. initialized' \/ initPromise' = "resolved" => Client!Instantiated
    BY DEF Client!ClientInv, Client!HandshakeFirst
  <2>2. \A q \in Request \ crossed : call'[q].at = "go" => Client!Instantiated
    BY <1>3, <2>1 DEF Client!ClientInv, Client!HandshakeFirst
  <2> QED
    BY <2>1, <2>2, PostHandshake
<1>7. \A x : Client!IdsFor(x)' = Client!IdsFor(x)
  BY DEF Client!IdsFor
<1>8. \A q \in Request : /\ call'[q].at = "sent" => Client!IdsFor(q)' # {}
                         /\ call'[q].at = "init" => Client!IdsFor("init")' # {}
  BY <1>3, <1>7 DEF Client!ClientInv, Client!NobodyWaitsForNothing, Client!Init_,
     Client!HandshakeIsAwaited
<1>9. Client!HandshakeIsAwaited'
  BY <1>7 DEF Client!ClientInv, Client!HandshakeIsAwaited
<1> QED
  BY <1>1, <1>3, <1>4, <1>6, <1>8, <1>9, CallFacts, ClientParts

\* call() and reset(): the handshake is made, awaited, or known to have failed.
LEMMA CallKeeps ==
  ASSUME Client!ClientInv, NEW r \in Request, Client!Call(r)
  PROVE  Client!ClientInv'
<1>1. CASE /\ initPromise = "none" /\ ~failure /\ Client!Send("init")
           /\ initPromise' = "waiting" /\ call' = [call EXCEPT ![r].at = "init"]
           /\ UNCHANGED <<initialized, failure>>
  BY <1>1, PostingKeeps DEF Client!Call, Client!What, Client!Init_
<1>2. CASE /\ initPromise = "none" /\ failure
           /\ nextId' = nextId + 1
           /\ call' = [call EXCEPT ![r].at = "rejected"]
           /\ UNCHANGED <<worker, spawned, workers, pending, initPromise, initialized, failure>>
  BY <1>2, TellingKeeps DEF Client!Call
<1>3. CASE /\ initPromise # "none"
           /\ call' = [call EXCEPT ![r].at = CASE initPromise = "waiting" -> "init"
                                            [] initPromise = "resolved" -> "go"
                                            [] OTHER -> "rejected"]
           /\ UNCHANGED <<Client!page, workers>>
  <2> DEFINE at == CASE initPromise = "waiting" -> "init"
                     [] initPromise = "resolved" -> "go"
                     [] OTHER -> "rejected"
  <2>1. /\ at \in {"init", "go", "rejected"} /\ at = "init" => initPromise = "waiting"
        /\ at = "go" => initPromise = "resolved"
    BY CallFacts
  <2>2. call' = [call EXCEPT ![r].at = at] /\ UNCHANGED <<Client!page, workers>>
    BY <1>3
  <2> HIDE DEF at
  <2> QED
    BY <2>1, <2>2, TellingKeeps DEF Client!Call, Client!page
<1> QED
  BY <1>1, <1>2, <1>3 DEF Client!Call, Client!Init_

\* The rest of call(), once the handshake is through.
LEMMA GoesOnKeeps ==
  ASSUME Client!ClientInv, NEW r \in Request, Client!GoesOn(r)
  PROVE  Client!ClientInv'
<1>1. CASE Client!Send(r) /\ call' = [call EXCEPT ![r].at = "sent"]
  BY <1>1, PostingKeeps DEF Client!GoesOn, Client!What
<1>2. CASE /\ failure /\ nextId' = nextId + 1 /\ call' = [call EXCEPT ![r].at = "rejected"]
           /\ UNCHANGED <<worker, spawned, workers, pending>>
  BY <1>2, TellingKeeps DEF Client!GoesOn
<1> QED
  BY <1>1, <1>2 DEF Client!GoesOn

\* A step of one worker, in what it may do to its side of the messages: it moves each
\* message of its inbox to the outbox or leaves it, and is truthful about its instance.
LEMMA SideKeeps ==
  ASSUME Client!ClientInv, NEW w \in Client!Workers, NEW side \in Client!Side,
         workers' = [workers EXCEPT ![w] = side], Client!WorkerOnly,
         Client!ToSet(side.inbox) \subseteq Client!Inbox(w),
         Client!Outbox(w) \subseteq Client!ToSet(side.outbox),
         \A m \in Client!ToSet(side.outbox) \ Client!Outbox(w) :
           /\ \E n \in Client!Inbox(w) : m.id = n.id /\ m.of = n.for
           /\ m.status = "ok" => side.exports = "ok"
           /\ m.status = "init first" => m.of \in crossed,
         \A n \in Client!Inbox(w) \ Client!ToSet(side.inbox) :
           \E m \in Client!ToSet(side.outbox) : m.id = n.id /\ m.of = n.for,
         workers[w].exports = "ok" => side.exports = "ok",
         w # worker => side.inbox = <<>> /\ side.outbox = <<>> /\ side.exports = "none"
  PROVE  Client!ClientInv'
<1>1. /\ worker' = worker /\ spawned' = spawned /\ nextId' = nextId /\ pending' = pending
      /\ initPromise' = initPromise /\ initialized' = initialized /\ failure' = failure
      /\ call' = call /\ crossed' = crossed
  BY DEF Client!WorkerOnly, Client!page
<1>2. /\ workers \in [Client!Workers -> Client!Side] /\ workers' \in [Client!Workers -> Client!Side]
      /\ workers'[w] = side /\ \A v \in Client!Workers \ {w} : workers'[v] = workers[v]
  BY CallFacts
<1>3. /\ Client!Inbox(w)' = Client!ToSet(side.inbox) /\ Client!Outbox(w)' = Client!ToSet(side.outbox)
      /\ \A v \in Client!Workers \ {w} : /\ Client!Inbox(v)' = Client!Inbox(v)
                                         /\ Client!Outbox(v)' = Client!Outbox(v)
  BY <1>2 DEF Client!Inbox, Client!Outbox
<1>4. Client!IdsAreUnique'
  <2>1. ASSUME NEW v \in Client!Workers
        PROVE  /\ \A m \in Client!Inbox(v)' :
                    m.id < nextId /\ \A e \in pending : e.id = m.id => e.for = m.for
               /\ \A m \in Client!Outbox(v)' :
                    m.id < nextId /\ \A e \in pending : e.id = m.id => e.for = m.of
    <3>0. /\ \A m \in Client!Inbox(v) :
               m.id < nextId /\ \A e \in pending : e.id = m.id => e.for = m.for
          /\ \A m \in Client!Outbox(v) :
               m.id < nextId /\ \A e \in pending : e.id = m.id => e.for = m.of
      BY DEF Client!ClientInv, Client!IdsAreUnique
    <3>1. CASE v # w
      BY <1>3, <3>0, <3>1
    <3>2. CASE v = w
      <4>1. ASSUME NEW m \in Client!Outbox(w)'
            PROVE  m.id < nextId /\ \A e \in pending : e.id = m.id => e.for = m.of
        <5>1. CASE m \in Client!Outbox(w)
          BY <3>0, <3>2, <5>1
        <5>2. CASE m \notin Client!Outbox(w)
          <6>1. PICK n \in Client!Inbox(w) : m.id = n.id /\ m.of = n.for
            BY <1>3, <4>1, <5>2
          <6>2. n.id < nextId /\ \A e \in pending : e.id = n.id => e.for = n.for
            BY <3>0, <3>2
          <6> QED
            BY <6>1, <6>2
        <5> QED
          BY <5>1, <5>2
      <4> QED
        BY <1>3, <3>0, <3>2, <4>1
    <3> QED
      BY <3>1, <3>2
  <2> QED
    BY <1>1, <2>1 DEF Client!ClientInv, Client!IdsAreUnique
<1>5. Client!OnlyOneWorks'
  BY <1>1, <1>2 DEF Client!ClientInv, Client!OnlyOneWorks
<1>0. worker # 0 => worker \in Client!Workers
  BY CallFacts
<1>6. Client!Instantiated => Client!Instantiated'
  BY <1>0, <1>1, <1>2 DEF Client!Instantiated
<1>7. Client!HandshakeFirst'
  <2>1. ASSUME NEW v \in Client!Workers
        PROVE  /\ \A m \in Client!Inbox(v)' : m.for \in Request \ crossed => workers'[v].exports = "ok"
               /\ \A m \in Client!Outbox(v)' : /\ m.status = "ok" => workers'[v].exports = "ok"
                                               /\ m.status = "init first" => m.of \in crossed
    <3>1. /\ \A m \in Client!Inbox(v) : m.for \in Request \ crossed => workers[v].exports = "ok"
          /\ \A m \in Client!Outbox(v) : /\ m.status = "ok" => workers[v].exports = "ok"
                                         /\ m.status = "init first" => m.of \in crossed
      BY DEF Client!ClientInv, Client!HandshakeFirst
    <3>2. CASE v # w
      BY <1>2, <1>3, <3>1, <3>2
    <3>3. CASE v = w
      BY <1>2, <1>3, <3>1, <3>3
    <3> QED
      BY <3>2, <3>3
  <2>2. /\ initialized' \/ initPromise' = "resolved" => Client!Instantiated'
        /\ \A q \in Request \ crossed' : call'[q].at = "go" => Client!Instantiated'
    BY <1>1, <1>6 DEF Client!ClientInv, Client!HandshakeFirst
  <2>3. \A v \in Client!Workers :
          /\ \A m \in Client!Inbox(v)' : m.for \in Request \ crossed' => workers'[v].exports = "ok"
          /\ \A m \in Client!Outbox(v)' : /\ m.status = "ok" => workers'[v].exports = "ok"
                                          /\ m.status = "init first" => m.of \in crossed'
    BY <1>1, <2>1
  <2> QED
    BY <2>2, <2>3, HandshakeParts
<1>8. OnTheWay'
  <2> SUFFICES ASSUME NEW e \in pending
               PROVE  /\ worker # 0
                      /\ \/ e \in Client!ToSet(workers'[worker].inbox)
                         \/ \E m \in Client!ToSet(workers'[worker].outbox) :
                              m.id = e.id /\ m.of = e.for
    BY <1>1 DEF OnTheWay, Client!Inbox, Client!Outbox
  <2>1. /\ worker # 0 /\ worker \in Client!Workers
        /\ \/ e \in Client!Inbox(worker)
           \/ \E m \in Client!Outbox(worker) : m.id = e.id /\ m.of = e.for
    BY <1>0, CallFacts DEF OnTheWay
  <2>2. CASE worker # w
    BY <1>2, <2>1, <2>2 DEF Client!Inbox, Client!Outbox
  <2>3. CASE worker = w
    <3>1. CASE e \in Client!Inbox(w)
      BY <1>2, <2>1, <2>3, <3>1
    <3>2. CASE e \notin Client!Inbox(w)
      BY <1>2, <2>1, <2>3, <3>2
    <3> QED
      BY <3>1, <3>2
  <2> QED
    BY <2>2, <2>3
<1>9. /\ Client!IdsAreCounted' /\ Client!HandshakeIsAwaited' /\ Client!AnswersItsOwn'
      /\ Client!InitComesFirst' /\ \A x : Client!IdsFor(x)' = Client!IdsFor(x)
  BY <1>1 DEF Client!ClientInv, Client!IdsAreCounted, Client!Began, Client!Over, Client!IdsFor,
     Client!HandshakeIsAwaited, Client!AnswersItsOwn, Client!InitComesFirst
<1>10. \A q \in Request : /\ call'[q].at = "sent" => Client!IdsFor(q)' # {}
                          /\ call'[q].at = "init" => Client!IdsFor("init")' # {}
  BY <1>1, <1>9 DEF Client!ClientInv, Client!NobodyWaitsForNothing, Client!Init_
<1>11. nextId \in Client!Ids
  BY DEF Client!ClientInv, Client!TypeOK
<1> QED
  BY <1>1, <1>2, <1>4, <1>5, <1>7, <1>8, <1>9, <1>10, <1>11, CallFacts, ClientParts

\* A worker's answer goes to the end of its outbox.
LEMMA OutboxGrows ==
  ASSUME NEW w \in Client!Workers, workers[w].outbox \in Seq(Client!Answer),
         NEW x \in Client!Answer
  PROVE  /\ Append(workers[w].outbox, x) \in Seq(Client!Answer)
         /\ Client!ToSet(Append(workers[w].outbox, x)) = Client!ToSet(workers[w].outbox) \cup {x}
BY QueueContents

\* A step that touches neither the messages of a worker nor takes its instance away.
LEMMA QuietSideKeeps ==
  ASSUME Client!ClientInv, NEW w \in Client!Workers, NEW side \in Client!Side,
         workers' = [workers EXCEPT ![w] = side], Client!WorkerOnly,
         side.inbox = workers[w].inbox, side.outbox = workers[w].outbox,
         workers[w].exports = "ok" => side.exports = "ok",
         w # worker => side.exports = "none"
  PROVE  Client!ClientInv'
<1>1. Client!ToSet(side.inbox) = Client!Inbox(w) /\ Client!ToSet(side.outbox) = Client!Outbox(w)
  BY DEF Client!Inbox, Client!Outbox
<1>2. w # worker => side.inbox = <<>> /\ side.outbox = <<>>
  BY DEF Client!ClientInv, Client!OnlyOneWorks
<1> QED
  BY <1>1, <1>2, SideKeeps

\* What a worker does by itself: it instantiates the library, answers, or crashes.
LEMMA WorkerStepKeeps ==
  ASSUME Client!ClientInv, NEW w \in Client!Workers, Client!WorkerStep(w) \/ Client!Crash(w)
  PROVE  Client!ClientInv'
<1>1. /\ workers \in [Client!Workers -> Client!Side] /\ workers[w] \in Client!Side
      /\ workers[w].inbox \in Seq(Client!Message) /\ workers[w].outbox \in Seq(Client!Answer)
      /\ w # worker => workers[w].inbox = <<>> /\ workers[w].outbox = <<>> /\ workers[w].exports = "none"
  BY CallFacts, BoxTypes DEF Client!ClientInv, Client!OnlyOneWorks
<1>3. CASE Client!BeginInstantiate(w) \/ Client!EndInstantiate(w)
  <2>1. PICK how \in {"loading", "ok", "failed"} : workers' = [workers EXCEPT ![w].exports = how]
    BY <1>3 DEF Client!BeginInstantiate, Client!EndInstantiate
  <2>2. w = worker /\ workers[w].exports # "ok" /\ Client!WorkerOnly
    BY <1>1, <1>3 DEF Client!BeginInstantiate, Client!EndInstantiate, Client!Handles
  <2> DEFINE side == [workers[w] EXCEPT !.exports = how]
  <2>3. /\ side \in Client!Side /\ side.inbox = workers[w].inbox /\ side.outbox = workers[w].outbox
        /\ workers' = [workers EXCEPT ![w] = side]
    BY <1>1, <2>1 DEF Client!Side
  <2> HIDE DEF side
  <2> QED
    BY <2>2, <2>3, QuietSideKeeps
<1>4. CASE Client!Crash(w)
  <2>1. PICK b \in BOOLEAN : workers' = [workers EXCEPT ![w].error = TRUE, ![w].alive = b]
    BY <1>4 DEF Client!Crash
  <2> DEFINE side == [workers[w] EXCEPT !.error = TRUE, !.alive = b]
  <2>2. /\ side \in Client!Side /\ side.inbox = workers[w].inbox /\ side.outbox = workers[w].outbox
        /\ side.exports = workers[w].exports
        /\ workers' = [workers EXCEPT ![w] = side] /\ Client!WorkerOnly
    BY <1>1, <1>4, <2>1 DEF Client!Side, Client!Crash
  <2> HIDE DEF side
  <2> QED
    BY <1>1, <2>2, QuietSideKeeps
<1>5. CASE Client!Handle(w)
  <2> DEFINE m == Head(workers[w].inbox)
  <2>1. w = worker /\ workers[w].inbox # <<>> /\ Client!WorkerOnly
    BY <1>1, <1>5 DEF Client!Handle, Client!Handles
  <2>2. /\ m \in Client!Message /\ m \in Client!Inbox(w) /\ Tail(workers[w].inbox) \in Seq(Client!Message)
        /\ Client!Inbox(w) = {m} \cup Client!ToSet(Tail(workers[w].inbox))
    <3>1. Client!Inbox(w) \subseteq Client!Message
      BY <1>1, BoxTypes
    <3> QED
      BY <1>1, <2>1, <3>1, QueueContents DEF Client!Inbox
  <2>3. PICK st \in {"ok", "thrown", "init first"} :
          /\ Client!Reply(w, st)
          /\ st = "ok" => workers[w].exports = "ok"
          /\ st = "init first" => workers[w].exports = "none" /\ m.for # "init"
    BY <1>5 DEF Client!Handle, Client!Init_
  <2>4. PICK told \in Client!Answer : told = [id |-> m.id, of |-> m.for, status |-> st]
    BY <2>2, <2>3 DEF Client!Answer, Client!Message
  <2>5. told.id = m.id /\ told.of = m.for /\ told.status = st
    BY <2>4
  <2> DEFINE side == [workers[w] EXCEPT !.inbox = Tail(@), !.outbox = Append(@, told)]
  <2>9. workers' = [workers EXCEPT ![w] = side]
    BY <1>1, <2>3, <2>4 DEF Client!Reply, Client!Side
  <2>6. /\ side \in Client!Side /\ side.inbox = Tail(workers[w].inbox)
        /\ side.outbox = Append(workers[w].outbox, told) /\ side.exports = workers[w].exports
    <3>1. Append(workers[w].outbox, told) \in Seq(Client!Answer)
      BY <1>1, OutboxGrows
    <3> QED
      BY <1>1, <2>2, <3>1 DEF Client!Side
  <2> HIDE DEF side, m
  <2>7. /\ Client!ToSet(side.inbox) \subseteq Client!Inbox(w)
        /\ Client!ToSet(side.outbox) = Client!Outbox(w) \cup {told}
        /\ Client!Inbox(w) = {m} \cup Client!ToSet(side.inbox)
    <3>1. Client!ToSet(Append(workers[w].outbox, told)) = Client!ToSet(workers[w].outbox) \cup {told}
      BY <1>1, OutboxGrows
    <3> QED
      BY <2>2, <2>6, <3>1 DEF Client!Outbox
  <2>8. st = "init first" => told.of \in crossed
    <3>1. m.for \in Client!What
      BY <2>2 DEF Client!Message
    <3> QED
      BY <2>2, <2>3, <2>5, <3>1 DEF Client!ClientInv, Client!HandshakeFirst, Client!What,
         Client!Init_
  <2> QED
    BY <2>1, <2>2, <2>3, <2>5, <2>6, <2>7, <2>8, <2>9, SideKeeps
<1> QED
  BY <1>3, <1>4, <1>5 DEF Client!WorkerStep

\* The entries of the map that a reply answers.
Hit(m) == {e \in pending : e.id = m.id}

\* What onmessage does to the map and the queues: the reply is taken off, with the one
\* entry it is the answer of.
ReplyTaken(w, m) ==
  /\ worker' = worker /\ spawned' = spawned /\ nextId' = nextId /\ failure' = failure
  /\ crossed' = crossed /\ pending' = pending \ Hit(m)
  /\ m \in Client!Answer /\ \A e \in Hit(m) : e.for = m.of
  /\ \A r \in Request : call[r].at # "go"
  /\ m.status = "ok" => Client!Instantiated
  /\ m.status = "init first" => m.of \in crossed
  /\ workers' \in [Client!Workers -> Client!Side]
  /\ \A v \in Client!Workers :
       /\ workers'[v].exports = workers[v].exports /\ workers'[v].inbox = workers[v].inbox
       /\ Client!Inbox(v)' = Client!Inbox(v) /\ Client!Outbox(v)' \subseteq Client!Outbox(v)
  /\ Client!IdsAreUnique' /\ Client!OnlyOneWorks' /\ OnTheWay'
  /\ Client!Instantiated => Client!Instantiated'

\* onmessage takes one reply off the outbox of the worker in use.
LEMMA TakesReply ==
  ASSUME Client!ClientInv, NEW w \in Client!Workers, Client!OnMessage(w)
  PROVE  ReplyTaken(w, Head(workers[w].outbox))
<1> DEFINE m == Head(workers[w].outbox)
           rest == Tail(workers[w].outbox)
<1>0. /\ worker' = worker /\ spawned' = spawned /\ nextId' = nextId /\ failure' = failure
      /\ crossed' = crossed /\ pending' = pending \ Hit(m) /\ Client!Continuing = {}
      /\ workers[w].outbox # <<>>
      /\ workers' = [workers EXCEPT ![w].outbox = rest]
  BY DEF Client!OnMessage, Hit
<1>1. /\ workers[w].outbox \in Seq(Client!Answer) /\ workers \in [Client!Workers -> Client!Side]
      /\ worker = w /\ w # 0
  BY <1>0, CallFacts, BoxTypes DEF Client!ClientInv, Client!OnlyOneWorks, Client!Workers
<1>2. /\ m \in Client!Outbox(w) /\ rest \in Seq(Client!Answer)
      /\ Client!Outbox(w) = {m} \cup Client!ToSet(rest) /\ m \in Client!Answer
  <2>1. Client!Outbox(w) \subseteq Client!Answer
    BY <1>1, BoxTypes
  <2> QED
    BY <1>0, <1>1, <2>1, QueueContents DEF Client!Outbox
<1> HIDE DEF m, rest
<1>3. /\ workers' \in [Client!Workers -> Client!Side] /\ workers'[w].outbox = rest
      /\ \A v \in Client!Workers :
           /\ workers'[v].exports = workers[v].exports /\ workers'[v].inbox = workers[v].inbox
           /\ v # w => workers'[v].outbox = workers[v].outbox
  <2> DEFINE side == [workers[w] EXCEPT !.outbox = rest]
  <2>1. side \in Client!Side /\ side.outbox = rest /\ side.exports = workers[w].exports
        /\ side.inbox = workers[w].inbox /\ workers' = [workers EXCEPT ![w] = side]
    BY <1>0, <1>1, <1>2 DEF Client!Side
  <2> HIDE DEF side
  <2> QED
    BY <1>1, <2>1
<1>4. \A v \in Client!Workers :
        /\ Client!Inbox(v)' = Client!Inbox(v) /\ Client!Outbox(v)' \subseteq Client!Outbox(v)
        /\ v # w => Client!Outbox(v)' = Client!Outbox(v)
  BY <1>2, <1>3 DEF Client!Inbox, Client!Outbox
<1>5. Client!Outbox(w) = {m} \cup Client!Outbox(w)'
  BY <1>2, <1>3 DEF Client!Outbox
<1>6. \A e \in Hit(m) : e.for = m.of
  BY <1>2 DEF Client!ClientInv, Client!IdsAreUnique, Hit
<1>7. /\ m.status = "ok" => Client!Instantiated
      /\ m.status = "init first" => m.of \in crossed
  BY <1>1, <1>2 DEF Client!ClientInv, Client!HandshakeFirst, Client!Instantiated
<1>8. Client!IdsAreUnique'
  <2>1. /\ \A e \in pending : e.id < nextId
        /\ \A e, f \in pending : e.id = f.id => e = f
        /\ \A v \in Client!Workers :
             /\ \A n \in Client!Inbox(v) :
                  n.id < nextId /\ \A e \in pending : e.id = n.id => e.for = n.for
             /\ \A n \in Client!Outbox(v) :
                  n.id < nextId /\ \A e \in pending : e.id = n.id => e.for = n.of
    BY DEF Client!ClientInv, Client!IdsAreUnique
  <2>2. pending' \subseteq pending /\ nextId' = nextId
    BY <1>0
  <2> QED
    BY <1>4, <2>1, <2>2 DEF Client!IdsAreUnique
<1>9. Client!OnlyOneWorks'
  BY <1>0, <1>1, <1>3 DEF Client!ClientInv, Client!OnlyOneWorks
<1>10. OnTheWay'
  <2> SUFFICES ASSUME NEW e \in pending, e \notin Hit(m)
               PROVE  /\ worker # 0
                      /\ \/ e \in Client!Inbox(w)'
                         \/ \E n \in Client!Outbox(w)' : n.id = e.id /\ n.of = e.for
    BY <1>0, <1>1 DEF OnTheWay, Client!Inbox, Client!Outbox
  <2>1. \/ e \in Client!Inbox(w)
        \/ \E n \in Client!Outbox(w) : n.id = e.id /\ n.of = e.for
    BY <1>1, CallFacts DEF OnTheWay
  <2> QED
    BY <1>1, <1>4, <1>5, <2>1 DEF Hit
<1>11. Client!Instantiated => Client!Instantiated'
  BY <1>0, <1>1, <1>3 DEF Client!Instantiated
<1>12. \A r \in Request : call[r].at # "go"
  BY <1>0 DEF Client!Continuing
<1> QED
  BY <1>0, <1>2, <1>3, <1>4, <1>6, <1>7, <1>8, <1>9, <1>10, <1>11, <1>12 DEF ReplyTaken, m

\* The handshake's promise after a reply, for everyone who waits for it.
LEMMA ReplyHandshake ==
  ASSUME Client!ClientInv, NEW w \in Client!Workers, NEW m, ReplyTaken(w, m),
         initialized' \/ initPromise' = "resolved" =>
           initialized \/ initPromise = "resolved" \/ m.status = "ok",
         \A r \in Request : call'[r].at = "go" => m.status = "ok"
  PROVE  Client!HandshakeFirst'
<1>1. initialized \/ initPromise = "resolved" \/ m.status = "ok" => Client!Instantiated'
  BY DEF ReplyTaken, Client!ClientInv, Client!HandshakeFirst
<1>2. \A v \in Client!Workers :
        /\ \A n \in Client!Inbox(v) : n.for \in Request \ crossed => workers[v].exports = "ok"
        /\ \A n \in Client!Outbox(v) : /\ n.status = "ok" => workers[v].exports = "ok"
                                       /\ n.status = "init first" => n.of \in crossed
  BY DEF Client!ClientInv, Client!HandshakeFirst
<1>3. \A v \in Client!Workers :
        /\ \A n \in Client!Inbox(v)' : n.for \in Request \ crossed' => workers'[v].exports = "ok"
        /\ \A n \in Client!Outbox(v)' : /\ n.status = "ok" => workers'[v].exports = "ok"
                                        /\ n.status = "init first" => n.of \in crossed'
  BY <1>2 DEF ReplyTaken
<1>4. /\ initialized' \/ initPromise' = "resolved" => Client!Instantiated'
      /\ \A r \in Request \ crossed' : call'[r].at = "go" => Client!Instantiated'
  BY <1>1
<1> QED
  BY <1>3, <1>4, HandshakeParts

\* A reply arrives: whoever waited for it goes on, has its answer or is rejected.
LEMMA OnMessageKeeps ==
  ASSUME Client!ClientInv, NEW w \in Client!Workers, Client!OnMessage(w)
  PROVE  Client!ClientInv'
<1> DEFINE m == Head(workers[w].outbox)
<1>0. ReplyTaken(w, m)
  BY TakesReply
<1>1. \/ /\ \E e \in Hit(m) : e.for = "init"
         /\ initPromise' = IF m.status = "ok" THEN "resolved" ELSE "rejected"
         /\ initialized' = (initialized \/ m.status = "ok")
         /\ call' = [r \in Request |-> IF call[r].at # "init" THEN call[r]
              ELSE [call[r] EXCEPT !.at = IF m.status = "ok" THEN "go" ELSE "rejected"]]
      \/ /\ ~\E e \in Hit(m) : e.for = "init"
         /\ call' = [r \in Request |-> IF \E e \in Hit(m) : e.for = r
                        THEN [at |-> "answered", reply |-> m] ELSE call[r]]
         /\ UNCHANGED <<initPromise, initialized>>
  BY DEF Client!OnMessage, Client!Init_, Client!Settle, Hit
<1> HIDE DEF m
<1>2. /\ m \in Client!Answer /\ \A e \in Hit(m) : e.for = m.of
      /\ m.status = "init first" => m.of \in crossed
      /\ pending' = pending \ Hit(m) /\ crossed' = crossed /\ nextId' = nextId
  BY <1>0 DEF ReplyTaken
<1>3. /\ call' \in [Request -> [at : {"new", "init", "go", "sent", "answered", "rejected"},
                                  reply : Client!Answer \cup {None}]]
      /\ \A r \in Request : call'[r].at = "answered" =>
           call'[r] = call[r] \/ (call'[r].reply = m /\ m.of = r)
      /\ \A r \in Request : call'[r].at = "go" => m.status = "ok"
      /\ \A r \in Request : /\ call[r].at # "new" => call'[r].at # "new"
                            /\ call[r].at \in {"sent", "answered", "rejected"} =>
                                 call'[r].at \in {"sent", "answered", "rejected"}
  <2>1. \A r \in Request : call[r].at # "go"
    BY <1>0 DEF ReplyTaken
  <2>2. CASE call' = [r \in Request |-> IF call[r].at # "init" THEN call[r]
              ELSE [call[r] EXCEPT !.at = IF m.status = "ok" THEN "go" ELSE "rejected"]]
    BY <2>1, <2>2, CallFacts
  <2>3. CASE call' = [r \in Request |-> IF \E e \in Hit(m) : e.for = r
                        THEN [at |-> "answered", reply |-> m] ELSE call[r]]
    BY <1>2, <2>1, <2>3, CallFacts
  <2> QED
    BY <1>1, <2>2, <2>3
<1>4. Client!AnswersItsOwn' /\ Client!InitComesFirst'
  BY <1>2, <1>3 DEF Client!ClientInv, Client!AnswersItsOwn, Client!InitComesFirst
<1>5. Client!IdsAreCounted'
  <2>1. Client!Began \subseteq Client!Began' /\ Client!Over \subseteq Client!Over'
    BY <1>3 DEF Client!Began, Client!Over
  <2> QED
    BY <1>2, <2>1, CallFacts, CountKept
<1>6. Client!HandshakeFirst'
  <2>1. initialized' \/ initPromise' = "resolved" =>
           initialized \/ initPromise = "resolved" \/ m.status = "ok"
    BY <1>1
  <2> QED
    BY <1>0, <1>3, <2>1, ReplyHandshake
<1>7. \A x : m.of # x => Client!IdsFor(x)' = Client!IdsFor(x)
  <2> SUFFICES ASSUME NEW x, m.of # x
               PROVE  Client!IdsFor(x)' = Client!IdsFor(x)
    OBVIOUS
  <2>1. \A e \in pending : e.for = x => e \notin Hit(m)
    BY <1>2
  <2> QED
    BY <1>2, <2>1 DEF Client!IdsFor
<1>8. /\ Client!HandshakeIsAwaited'
      /\ \A q \in Request : /\ call'[q].at = "sent" => Client!IdsFor(q)' # {}
                            /\ call'[q].at = "init" => Client!IdsFor("init")' # {}
  <2>1. /\ \A r \in Request : /\ call[r].at = "sent" => Client!IdsFor(r) # {}
                              /\ call[r].at = "init" => Client!IdsFor("init") # {}
        /\ initPromise = "waiting" => Client!IdsFor("init") # {}
        /\ "init" \notin Request
    BY ClientAssumption DEF Client!ClientInv, Client!NobodyWaitsForNothing,
       Client!HandshakeIsAwaited, Client!Init_
  <2>2. \A x : Client!IdsFor(x)' = Client!IdsFor(x) \ Hit(m)
    BY <1>2 DEF Client!IdsFor
  <2>3. CASE Hit(m) = {}
    BY <1>1, <2>1, <2>2, <2>3, CallFacts DEF Client!HandshakeIsAwaited, Client!Init_
  <2>4. CASE \E e \in Hit(m) : e.for = "init"
    <3>1. /\ initPromise' # "waiting" /\ m.of = "init"
          /\ call' = [r \in Request |-> IF call[r].at # "init" THEN call[r]
              ELSE [call[r] EXCEPT !.at = IF m.status = "ok" THEN "go" ELSE "rejected"]]
      BY <1>1, <1>2, <2>4
    <3>2. \A q \in Request : call'[q].at # "init" /\ (call'[q].at = "sent" => call[q].at = "sent")
      BY <3>1, CallFacts
    <3> QED
      BY <1>7, <2>1, <3>1, <3>2 DEF Client!HandshakeIsAwaited
  <2>5. CASE Hit(m) # {} /\ ~\E e \in Hit(m) : e.for = "init"
    <3>1. /\ initPromise' = initPromise /\ m.of # "init"
          /\ call' = [r \in Request |-> IF \E e \in Hit(m) : e.for = r
                        THEN [at |-> "answered", reply |-> m] ELSE call[r]]
      BY <1>1, <1>2, <2>5
    <3>2. \A q \in Request : call'[q].at \in {"init", "sent"} => m.of # q /\ call'[q] = call[q]
      BY <1>2, <2>5, <3>1
    <3> QED
      BY <1>7, <2>1, <3>1, <3>2 DEF Client!HandshakeIsAwaited, Client!Init_
  <2> QED
    BY <2>3, <2>4, <2>5
<1>9. /\ initPromise' \in {"none", "waiting", "resolved", "rejected"} /\ initialized' \in BOOLEAN
  BY <1>1, CallFacts
<1>10. nextId' \in Client!Ids
  BY <1>2 DEF Client!ClientInv, Client!TypeOK
<1>11. /\ worker' \in 0..spawned' /\ spawned' \in 0..MaxWorkers /\ failure' \in BOOLEAN
       /\ crossed' \subseteq Request /\ pending' \subseteq Client!Message
       /\ workers' \in [Client!Workers -> Client!Side]
       /\ Client!IdsAreUnique' /\ Client!OnlyOneWorks' /\ OnTheWay'
  BY <1>0, CallFacts DEF ReplyTaken
<1> QED
  BY <1>3, <1>4, <1>5, <1>6, <1>8, <1>9, <1>10, <1>11, ClientParts

\* Everyone in the map, and whoever waits for the handshake, is told that the worker is
\* gone: nobody waits any more.
LEMMA AllAreTold ==
  ASSUME Client!ClientInv, call' = Client!Rejected, crossed \subseteq crossed',
         nextId' = nextId
  PROVE  /\ call' \in [Request -> [at : {"new", "init", "go", "sent", "answered", "rejected"},
                                   reply : Client!Answer \cup {None}]]
         /\ \A r \in Request : call'[r] = call[r] \/ call'[r].at = "rejected"
         /\ \A r \in Request : call'[r].at \notin {"sent", "init"}
         /\ Client!AnswersItsOwn' /\ Client!InitComesFirst' /\ Client!IdsAreCounted'
<1>1. /\ \A r \in Request : /\ call[r].at = "sent" => Client!IdsFor(r) # {}
                            /\ call[r].at = "init" => Client!IdsFor("init") # {}
      /\ call' = [r \in Request |->
           IF Client!IdsFor(r) # {} \/ (Client!IdsFor("init") # {} /\ call[r].at = "init")
             THEN [call[r] EXCEPT !.at = "rejected"] ELSE call[r]]
  BY DEF Client!ClientInv, Client!NobodyWaitsForNothing, Client!Init_, Client!Rejected,
     Client!Settle
<1>2. call' \in [Request -> [at : {"new", "init", "go", "sent", "answered", "rejected"},
                                 reply : Client!Answer \cup {None}]]
  BY <1>1, CallFacts
<1>3. \A r \in Request : call'[r] = call[r] \/ call'[r].at = "rejected"
  BY <1>1, CallFacts
<1>4. \A r \in Request : call'[r].at \notin {"sent", "init"}
  BY <1>1, CallFacts
<1>5. Client!AnswersItsOwn' /\ Client!InitComesFirst'
  BY <1>3 DEF Client!ClientInv, Client!AnswersItsOwn, Client!InitComesFirst
<1>6. Client!IdsAreCounted'
  <2>1. Client!Began \subseteq Client!Began' /\ Client!Over \subseteq Client!Over'
    BY <1>3 DEF Client!Began, Client!Over
  <2> QED
    BY <2>1, CallFacts, CountKept
<1> QED
  BY <1>2, <1>3, <1>4, <1>5, <1>6

\* A worker's side keeps all but its error event when that one is set or taken.
LEMMA ErrorSet ==
  ASSUME NEW side \in Client!Side, NEW b \in BOOLEAN
  PROVE  LET s == [side EXCEPT !.error = b]
         IN  /\ s \in Client!Side /\ s.inbox = side.inbox /\ s.outbox = side.outbox
             /\ s.exports = side.exports
BY DEF Client!Side

\* A crash is reported: the first one settles everybody, another one changes nothing.
LEMMA OnErrorKeeps ==
  ASSUME Client!ClientInv, NEW w \in Client!Workers, Client!OnError(w)
  PROVE  Client!ClientInv'
<1> DEFINE side == [workers[w] EXCEPT !.error = FALSE]
<1>1. /\ side \in Client!Side /\ side.inbox = workers[w].inbox /\ side.outbox = workers[w].outbox
      /\ side.exports = workers[w].exports /\ workers' = [workers EXCEPT ![w] = side]
  BY CallFacts DEF Client!OnError, Client!Side
<1> HIDE DEF side
<1>2. /\ worker' = worker /\ spawned' = spawned /\ nextId' = nextId
      /\ initialized' = initialized /\ crossed' = crossed /\ failure' = TRUE
  BY DEF Client!OnError
<1>3. CASE failure /\ UNCHANGED <<call, pending, initPromise>>
  <2>1. Client!WorkerOnly
    BY <1>2, <1>3, CallFacts DEF Client!WorkerOnly, Client!page
  <2>2. w # worker => side.exports = "none"
    BY <1>1 DEF Client!ClientInv, Client!OnlyOneWorks
  <2> QED
    BY <1>1, <2>1, <2>2, QuietSideKeeps
<1>4. CASE ~failure /\ Client!FailRejects
  <2>1. /\ call' = Client!Rejected /\ pending' = {}
        /\ initPromise' = IF Client!IdsFor("init") # {} THEN "rejected" ELSE initPromise
    BY <1>4 DEF Client!FailRejects, Client!Init_
  <2>2. /\ call' \in [Request -> [at : {"new", "init", "go", "sent", "answered", "rejected"},
                                   reply : Client!Answer \cup {None}]]
        /\ \A r \in Request : call'[r] = call[r] \/ call'[r].at = "rejected"
        /\ \A r \in Request : call'[r].at \notin {"sent", "init"}
        /\ Client!AnswersItsOwn' /\ Client!InitComesFirst' /\ Client!IdsAreCounted'
    BY <1>2, <2>1, AllAreTold
  <2>3. /\ workers' \in [Client!Workers -> Client!Side]
        /\ \A v \in Client!Workers : /\ workers'[v].inbox = workers[v].inbox
                                     /\ workers'[v].outbox = workers[v].outbox
                                     /\ workers'[v].exports = workers[v].exports
    BY <1>1, CallFacts
  <2>4. \A v \in Client!Workers : Client!Inbox(v)' = Client!Inbox(v) /\ Client!Outbox(v)' = Client!Outbox(v)
    BY <2>3 DEF Client!Inbox, Client!Outbox
  <2>5. Client!IdsAreUnique'
    BY <1>2, <2>1, <2>4 DEF Client!ClientInv, Client!IdsAreUnique
  <2>6. Client!OnlyOneWorks'
    BY <1>2, <2>3 DEF Client!ClientInv, Client!OnlyOneWorks
  <2>7. OnTheWay'
    BY <2>1 DEF OnTheWay
  <2>8. Client!Instantiated' = Client!Instantiated
    BY <1>2, <2>3, CallFacts DEF Client!Instantiated
  <2>9. Client!HandshakeFirst'
    <3>1. /\ initialized' \/ initPromise' = "resolved" => Client!Instantiated'
          /\ \A r \in Request \ crossed' : call'[r].at = "go" => Client!Instantiated'
      BY <1>2, <2>1, <2>2, <2>8 DEF Client!ClientInv, Client!HandshakeFirst
    <3>2. \A v \in Client!Workers :
            /\ \A n \in Client!Inbox(v)' : n.for \in Request \ crossed' => workers'[v].exports = "ok"
            /\ \A n \in Client!Outbox(v)' : /\ n.status = "ok" => workers'[v].exports = "ok"
                                            /\ n.status = "init first" => n.of \in crossed'
      BY <1>2, <2>3, <2>4 DEF Client!ClientInv, Client!HandshakeFirst
    <3> QED
      BY <3>1, <3>2, HandshakeParts
  <2>10. Client!HandshakeIsAwaited'
    BY <2>1 DEF Client!ClientInv, Client!HandshakeIsAwaited, Client!Init_
  <2>11. /\ worker' \in 0..spawned' /\ spawned' \in 0..MaxWorkers /\ nextId' \in Client!Ids
         /\ initPromise' \in {"none", "waiting", "resolved", "rejected"}
         /\ initialized' \in BOOLEAN /\ failure' \in BOOLEAN /\ crossed' \subseteq Request
         /\ pending' \subseteq Client!Message
    BY <1>2, <2>1, CallFacts DEF Client!ClientInv, Client!TypeOK
  <2> QED
    BY <2>2, <2>3, <2>5, <2>6, <2>7, <2>9, <2>10, <2>11, ClientParts
<1> QED
  BY <1>3, <1>4 DEF Client!OnError

\* dispose(): what was sent is forgotten with the worker it was sent to.
LEMMA DisposeKeeps ==
  ASSUME Client!ClientInv, Client!Dispose
  PROVE  Client!ClientInv'
<1>1. /\ call' = Client!Rejected /\ pending' = {} /\ worker' = 0 /\ initPromise' = "none"
      /\ initialized' = FALSE /\ failure' = FALSE /\ spawned' = spawned /\ nextId' = nextId
      /\ crossed' = crossed \cup {r \in Request : call[r].at \in {"init", "go", "sent"}}
      /\ spawned < MaxWorkers /\ worker \in Client!Workers
  BY CallFacts DEF Client!Dispose, Client!Forget
<1>2. /\ call' \in [Request -> [at : {"new", "init", "go", "sent", "answered", "rejected"},
                                 reply : Client!Answer \cup {None}]]
      /\ \A r \in Request : call'[r] = call[r] \/ call'[r].at = "rejected"
      /\ \A r \in Request : call'[r].at \notin {"sent", "init"}
      /\ Client!AnswersItsOwn' /\ Client!InitComesFirst' /\ Client!IdsAreCounted'
  BY <1>1, AllAreTold
<1>3. /\ workers' \in [Client!Workers -> Client!Side]
      /\ \A v \in Client!Workers : workers'[v].inbox = <<>> /\ workers'[v].outbox = <<>>
                                   /\ workers'[v].exports = "none"
  <2> DEFINE side == [Client!Idle EXCEPT !.error = workers[worker].error]
  <2>1. workers' = [workers EXCEPT ![worker] = side]
    BY DEF Client!Dispose
  <2>2. /\ side \in Client!Side /\ side.inbox = <<>> /\ side.outbox = <<>> /\ side.exports = "none"
    <3>1. PICK b \in BOOLEAN : b = workers[worker].error
      BY <1>1, CallFacts DEF Client!Side
    <3>2. /\ Client!Idle \in Client!Side /\ Client!Idle.inbox = <<>>
          /\ Client!Idle.outbox = <<>> /\ Client!Idle.exports = "none"
      BY DEF Client!Idle, Client!Side
    <3> QED
      BY <3>1, <3>2, ErrorSet
  <2>3. \A v \in Client!Workers \ {worker} :
          workers[v].inbox = <<>> /\ workers[v].outbox = <<>> /\ workers[v].exports = "none"
    BY DEF Client!ClientInv, Client!OnlyOneWorks
  <2> HIDE DEF side
  <2> QED
    BY <1>1, <2>1, <2>2, <2>3, CallFacts
<1>4. \A v \in Client!Workers : Client!Inbox(v)' = {} /\ Client!Outbox(v)' = {}
  BY <1>3 DEF Client!Inbox, Client!Outbox, Client!ToSet
<1>5. Client!IdsAreUnique'
  BY <1>1, <1>4 DEF Client!IdsAreUnique
<1>6. Client!OnlyOneWorks'
  BY <1>1, <1>3 DEF Client!OnlyOneWorks
<1>7. OnTheWay'
  BY <1>1 DEF OnTheWay
<1>8. Client!HandshakeFirst'
  <2>1. /\ initialized' \/ initPromise' = "resolved" => Client!Instantiated'
        /\ \A r \in Request \ crossed' : call'[r].at = "go" => Client!Instantiated'
    BY <1>1, <1>2
  <2> QED
    BY <1>4, <2>1, HandshakeParts
<1>9. Client!HandshakeIsAwaited'
  BY <1>1 DEF Client!HandshakeIsAwaited
<1>10. /\ worker' \in 0..spawned' /\ spawned' \in 0..MaxWorkers /\ nextId' \in Client!Ids
       /\ crossed' \subseteq Request /\ pending' \subseteq Client!Message
  BY <1>1, CallFacts DEF Client!ClientInv, Client!TypeOK
<1> QED
  BY <1>1, <1>2, <1>3, <1>5, <1>6, <1>7, <1>8, <1>9, <1>10, ClientParts

\* Before the first call: no worker, no id, nobody waiting.
LEMMA ClientStarts == Client!Init => Client!ClientInv
<1> SUFFICES ASSUME Client!Init PROVE Client!ClientInv
  OBVIOUS
<1>1. /\ worker = 0 /\ spawned = 0 /\ nextId = 1 /\ pending = {} /\ initPromise = "none"
      /\ initialized = FALSE /\ failure = FALSE /\ crossed = {}
      /\ workers = [w \in Client!Workers |-> [alive |-> FALSE, exports |-> "none",
                      inbox |-> <<>>, outbox |-> <<>>, error |-> FALSE]]
      /\ call = [r \in Request |-> [at |-> "new", reply |-> None]]
  BY DEF Client!Init, Client!Idle
<1>2. Cardinality(Request) \in Nat /\ Client!Cardinality(Request) \in Nat
  BY ClientAssumption, FS_CardinalityType, SameCount
<1>3. nextId \in Client!Ids
  BY <1>1, <1>2, ClientAssumption DEF Client!Ids
<1>4. /\ workers \in [Client!Workers -> Client!Side]
      /\ \A v \in Client!Workers : workers[v].inbox = <<>> /\ workers[v].outbox = <<>>
                                   /\ workers[v].exports = "none"
  BY <1>1 DEF Client!Side
<1>5. \A v \in Client!Workers : Client!Inbox(v) = {} /\ Client!Outbox(v) = {}
  BY <1>4 DEF Client!Inbox, Client!Outbox, Client!ToSet
<1>6. Client!TypeOK
  <2>1. call \in [Request -> [at : {"new", "init", "go", "sent", "answered", "rejected"},
                            reply : Client!Answer \cup {None}]]
    BY <1>1
  <2>2. worker \in 0..spawned /\ spawned \in 0..MaxWorkers
    BY <1>1, ClientAssumption
  <2> QED
    BY <1>1, <1>3, <1>4, <2>1, <2>2 DEF Client!TypeOK
<1>7. Client!IdsAreUnique
  BY <1>1, <1>5 DEF Client!IdsAreUnique
<1>8. Client!IdsAreCounted
  <2>1. Client!Began = {} /\ Client!Over = {}
    BY <1>1 DEF Client!Began, Client!Over
  <2>2. Client!Cardinality({}) = 0
    BY FS_EmptySet, SameCount
  <2> QED
    BY <1>1, <2>1, <2>2 DEF Client!IdsAreCounted
<1>9. Client!OnlyOneWorks
  BY <1>1, <1>4, ClientAssumption DEF Client!OnlyOneWorks
<1>10. Client!HandshakeFirst
  BY <1>1, <1>5 DEF Client!HandshakeFirst
<1>11. /\ Client!HandshakeIsAwaited /\ Client!AnswersItsOwn /\ Client!InitComesFirst
       /\ Client!NobodyWaitsForNothing
  BY <1>1 DEF Client!HandshakeIsAwaited, Client!AnswersItsOwn, Client!InitComesFirst,
     Client!NobodyWaitsForNothing
<1> QED
  BY <1>6, <1>7, <1>8, <1>9, <1>10, <1>11 DEF Client!ClientInv

\* A step in which the client takes no part.
LEMMA ClientRests == Client!ClientInv /\ UNCHANGED clientVars => Client!ClientInv'
<1> SUFFICES ASSUME Client!ClientInv, UNCHANGED clientVars PROVE Client!ClientInv'
  OBVIOUS
<1>1. /\ \A w : Client!Inbox(w)' = Client!Inbox(w) /\ Client!Outbox(w)' = Client!Outbox(w)
      /\ \A x : Client!IdsFor(x)' = Client!IdsFor(x)
      /\ Client!Instantiated' = Client!Instantiated
      /\ Client!Began' = Client!Began /\ Client!Over' = Client!Over
  BY DEF clientVars, Client!Inbox, Client!Outbox, Client!IdsFor, Client!Instantiated,
     Client!Began, Client!Over
<1>2. Client!TypeOK' /\ Client!OnlyOneWorks'
  BY DEF clientVars, Client!ClientInv, Client!TypeOK, Client!OnlyOneWorks
<1>3. Client!IdsAreUnique'
  BY <1>1 DEF clientVars, Client!ClientInv, Client!IdsAreUnique
<1>4. Client!IdsAreCounted' /\ Client!HandshakeIsAwaited'
  BY <1>1 DEF clientVars, Client!ClientInv, Client!IdsAreCounted, Client!HandshakeIsAwaited
<1>5. Client!HandshakeFirst'
  BY <1>1 DEF clientVars, Client!ClientInv, Client!HandshakeFirst
<1>6. Client!AnswersItsOwn' /\ Client!InitComesFirst'
  BY DEF clientVars, Client!ClientInv, Client!AnswersItsOwn, Client!InitComesFirst
<1>7. Client!NobodyWaitsForNothing'
  BY <1>1 DEF clientVars, Client!ClientInv, Client!NobodyWaitsForNothing, Client!Inbox,
     Client!Outbox
<1> QED
  BY <1>2, <1>3, <1>4, <1>5, <1>6, <1>7 DEF Client!ClientInv

\* In a page whose calls are the compiler's, the client's invariant holds.
ClientHolds == component = "client" => Client!ClientInv

\* The invariant of the client holds whenever the run is one of the client.
LEMMA ClientHoldsAlways == Spec => []ClientHolds
<1>1. Init => ClientHolds
  BY ClientStarts DEF Init, ClientHolds
<1>2. ClientHolds /\ [Next]_vars => ClientHolds'
  <2> SUFFICES ASSUME Client!ClientInv, [Next]_vars, component' = "client", component = "client"
               PROVE  Client!ClientInv'
    BY DEF ClientHolds, Next, vars
  <2>1. CASE UNCHANGED vars
    BY <2>1, ClientRests DEF vars
  <2>2. CASE Next
    <3>1. Client!Next
      BY <2>2 DEF Next
    <3> QED
      BY <3>1, CallKeeps, GoesOnKeeps, WorkerStepKeeps, OnMessageKeeps, OnErrorKeeps, DisposeKeeps
      DEF Client!Next
  <2> QED
    BY <2>1, <2>2
<1> QED
  BY <1>1, <1>2, PTL DEF Spec

\* However often the compiler's worker crashes or is disposed of, and whatever replies
\* are still under way then: a caller of libcirc-client.ts gets the reply to its own
\* request, after the handshake, 'available' is said only of a worker that is
\* instantiated, and nobody waits for a message that is not on its way.
THEOREM CallersFindTheirReply == Spec => []RepliesFindTheirCall
<1>1. ClientHolds => RepliesFindTheirCall
  <2> SUFFICES ASSUME Client!ClientInv PROVE Client!RepliesFindTheirCall
    BY DEF ClientHolds, RepliesFindTheirCall
  <2>1. Client!AvailableIsReady
    BY DEF Client!AvailableIsReady, Client!transportState, Client!ClientInv,
       Client!HandshakeFirst, Client!Instantiated
  <2> QED
    BY <2>1 DEF Client!RepliesFindTheirCall, Client!ClientInv
<1> QED
  BY <1>1, ClientHoldsAlways, PTL

-----------------------------------------------------------------------------
(* The adapter and the provider *)

\* What the invariant says of the tasks, with their types.
LEMMA ToolsTypes ==
  ASSUME Tools!ToolsInv
  PROVE  /\ generation \in Nat /\ generation >= 1 /\ generation <= MaxEvents /\ generation \in Tools!Gens
         /\ controller \in Nat /\ registrations \in Nat /\ aborted \subseteq Tools!Gens
         /\ MaxEvents \in Nat /\ NTools \in Nat /\ 1 \in Tools!Tools /\ Tools!Gens \subseteq Nat \ {0}
         /\ Tools!Tools \subseteq Nat /\ live \subseteq Tools!Offers
         /\ DOMAIN tasks = Tools!Gens
         /\ \A g \in Tools!Gens :
              /\ tasks[g].kind \in {"none", "start", "suspend", "dispose"}
              /\ tasks[g].stage \in {"clearing", "registering", "disposing", "failing", "done"}
              /\ tasks[g].tool \in Tools!Tools /\ tasks[g].linked \in BOOLEAN
BY ToolsAssumption DEF Tools!ToolsInv, Tools!TypeOK, Tools!Gens, Tools!Tools, Tools!TasksFollowPage

\* A call of the page: whatever was under way is overtaken by it.
LEMMA PageCallKeeps ==
  ASSUME Tools!ToolsInv, NEW kind \in {"start", "suspend", "dispose"}, Tools!Call(kind),
         page' \in {"active", "suspended", "disposed"}, kind = Tools!KindOf[page']
  PROVE  Tools!ToolsInv'
<1> DEFINE new == generation + 1
           t == [kind |-> kind, stage |-> "clearing", tool |-> 1, linked |-> TRUE]
<1>1. /\ new \in Tools!Gens /\ generation' = new /\ new > generation
      /\ aborted' = (IF controller = 0 THEN aborted ELSE aborted \cup {controller})
      /\ live' = {o \in live : ~(o.gen = controller /\ o.linked)}
      /\ registrations' = 0 /\ controller' = controller /\ status' = status
      /\ tasks' = [tasks EXCEPT ![new] = t]
  BY ToolsTypes DEF Tools!Call, Tools!Gens
<1>2. /\ t.kind = kind /\ t.stage = "clearing" /\ t.tool = 1 /\ t.linked = TRUE
      /\ t \in [kind : {"none", "start", "suspend", "dispose"},
                stage : {"clearing", "registering", "disposing", "failing", "done"},
                tool : Tools!Tools, linked : BOOLEAN]
  BY ToolsTypes
<1> HIDE DEF new, t
<1>3. tasks'[new] = t /\ \A g \in Tools!Gens \ {new} : tasks'[g] = tasks[g]
  BY <1>1, ToolsTypes
<1>4. Tools!TypeOK'
  BY <1>1, <1>2, ToolsTypes DEF Tools!ToolsInv, Tools!TypeOK, Tools!Gens
<1>5. Tools!TasksFollowPage'
  BY <1>1, <1>2, <1>3, ToolsTypes DEF Tools!ToolsInv, Tools!TasksFollowPage, Tools!Running, Tools!At
<1>6. Tools!OneChain'
  <2> SUFFICES ASSUME NEW e \in Tools!Gens, NEW g \in Tools!Gens, e < g, g <= new,
                      tasks'[e].stage = "clearing"
               PROVE  tasks'[g].stage = "clearing"
    BY <1>1 DEF Tools!OneChain, Tools!At
  <2>1. CASE g = new
    BY <1>2, <1>3, <2>1
  <2>2. CASE g # new
    <3>1. g <= generation /\ e # new
      BY <2>2, ToolsTypes DEF new
    <3> QED
      BY <1>3, <2>2, <3>1 DEF Tools!ToolsInv, Tools!OneChain, Tools!At
  <2> QED
    BY <2>1, <2>2
<1>7. Tools!ControllerIsNewest'
  BY <1>1, <1>2, <1>3, ToolsTypes DEF Tools!ToolsInv, Tools!ControllerIsNewest, Tools!Running, Tools!At
<1>8. Tools!OffersHaveOwner'
  <2>1. ASSUME NEW o \in live'
        PROVE  (Tools!Running(o.gen) \/ registrations = o.gen)' /\ (o.gen \notin aborted' => o.linked)
    <3>1. /\ o \in live /\ o.gen \in Tools!Gens /\ ~(o.gen = controller /\ o.linked)
          /\ Tools!Running(o.gen) \/ registrations = o.gen
          /\ o.gen \notin aborted => o.linked
      BY <1>1, <2>1, ToolsTypes DEF Tools!ToolsInv, Tools!OffersHaveOwner, Tools!Offers
    <3>2. o.gen # new
      <4>1. CASE Tools!Running(o.gen)
        <5>1. tasks[new].stage = "done"
          BY <1>1 DEF Tools!ToolsInv, Tools!TasksFollowPage, Tools!At
        <5> QED
          BY <4>1, <5>1 DEF Tools!Running
      <4>2. CASE registrations = o.gen
        BY <1>1, <3>1, <4>2, ToolsTypes DEF Tools!ToolsInv, Tools!HeldIsNewest
      <4> QED
        BY <3>1, <4>1, <4>2
    <3>3. registrations # o.gen
      BY <3>1, ToolsTypes DEF Tools!ToolsInv, Tools!HeldToolsAreWithdrawable
    <3>4. Tools!Running(o.gen)'
      BY <1>3, <3>1, <3>2, <3>3 DEF Tools!Running
    <3> QED
      BY <1>1, <3>1, <3>4
  <2>2. ASSUME NEW g \in Tools!Gens, g \notin aborted', tasks'[g].stage = "registering",
               NEW t0 \in Tools!Tools, t0 < tasks'[g].tool
        PROVE  [gen |-> g, tool |-> t0, linked |-> TRUE] \in live'
    <3>1. g # new /\ tasks'[g] = tasks[g] /\ g \notin aborted
      BY <1>1, <1>2, <1>3, <2>2
    <3>2. [gen |-> g, tool |-> t0, linked |-> TRUE] \in live
      BY <2>2, <3>1 DEF Tools!ToolsInv, Tools!OffersHaveOwner, Tools!At
    <3>3. g # controller
      BY <1>1, <2>2, ToolsTypes
    <3> QED
      BY <1>1, <3>2, <3>3
  <2> QED
    BY <2>1, <2>2 DEF Tools!OffersHaveOwner, Tools!At
<1>9. Tools!HeldIsNewest' /\ Tools!HeldToolsAreWithdrawable'
  BY <1>1 DEF Tools!HeldIsNewest, Tools!HeldToolsAreWithdrawable
<1>10. Tools!StatusIsNewest'
  BY <1>1, <1>2, <1>3 DEF Tools!StatusIsNewest, Tools!At
<1> QED
  BY <1>4, <1>5, <1>6, <1>7, <1>8, <1>9, <1>10 DEF Tools!ToolsInv

\* A task that goes on to another stage.
LEMMA StageSet ==
  ASSUME Tools!ToolsInv, NEW g \in Tools!Gens,
         NEW stage \in {"registering", "disposing", "failing", "done"},
         tasks' = [tasks EXCEPT ![g].stage = stage]
  PROVE  /\ tasks' \in [Tools!Gens -> [kind : {"none", "start", "suspend", "dispose"},
              stage : {"clearing", "registering", "disposing", "failing", "done"},
              tool : Tools!Tools, linked : BOOLEAN]]
         /\ tasks'[g].stage = stage /\ tasks'[g].kind = tasks[g].kind
         /\ tasks'[g].tool = tasks[g].tool /\ tasks'[g].linked = tasks[g].linked
         /\ \A e \in Tools!Gens \ {g} : tasks'[e] = tasks[e]
<1>1. tasks \in [Tools!Gens -> [kind : {"none", "start", "suspend", "dispose"},
              stage : {"clearing", "registering", "disposing", "failing", "done"},
              tool : Tools!Tools, linked : BOOLEAN]]
  BY DEF Tools!ToolsInv, Tools!TypeOK
<1> QED
  BY <1>1

\* A call that is through with its clearing: only the newest one has an effect, and then
\* nothing is registered yet.
LEMMA ClearedKeeps ==
  ASSUME Tools!ToolsInv, NEW g \in Tools!Gens,
         Tools!StartGoesOn(g) \/ Tools!SuspendGoesOn(g) \/ Tools!DisposeGoesOn(g)
  PROVE  Tools!ToolsInv'
<1>1. PICK stage \in {"registering", "done"} :
        /\ tasks' = [tasks EXCEPT ![g].stage = stage]
        /\ stage = "registering" => tasks[g].kind = "start" /\ g = generation /\ controller' = g
        /\ stage = "done" => controller' = controller
        /\ status' # status => stage = "registering" \/ tasks[g].kind = "suspend"
        /\ tasks[g].kind = "start" /\ stage = "done" => g # generation
        /\ tasks[g].kind = "suspend" => status' = "suspended" /\ stage = "done"
        /\ status' \in {status, "registering", "suspended"}
  BY DEF Tools!StartGoesOn, Tools!SuspendGoesOn, Tools!DisposeGoesOn
<1>2. /\ tasks[g].stage = "clearing" /\ \A e \in Tools!Gens : e < g => tasks[e].stage # "clearing"
      /\ page' = page /\ generation' = generation /\ aborted' = aborted
      /\ registrations' = registrations /\ live' = live
  BY DEF Tools!StartGoesOn, Tools!SuspendGoesOn, Tools!DisposeGoesOn, Tools!Cleared, Tools!At
<1>3. g <= generation
  BY <1>2, ToolsTypes DEF Tools!ToolsInv, Tools!TasksFollowPage, Tools!At
<1>4. /\ tasks' \in [Tools!Gens -> [kind : {"none", "start", "suspend", "dispose"},
              stage : {"clearing", "registering", "disposing", "failing", "done"},
              tool : Tools!Tools, linked : BOOLEAN]]
      /\ tasks'[g].stage = stage /\ tasks'[g].kind = tasks[g].kind
      /\ tasks'[g].tool = tasks[g].tool /\ tasks'[g].linked = tasks[g].linked
      /\ \A e \in Tools!Gens \ {g} : tasks'[e] = tasks[e]
  BY <1>1, StageSet
<1>5. registrations = 0 /\ (tasks[generation].stage = "done" => FALSE)
  BY <1>2, <1>3, ToolsTypes DEF Tools!ToolsInv, Tools!HeldIsNewest, Tools!OneChain, Tools!At
<1>6. tasks[g].tool = 1 /\ tasks[g].linked = TRUE /\ g # controller
  BY <1>2, ToolsTypes DEF Tools!ToolsInv, Tools!TasksFollowPage, Tools!At, Tools!ControllerIsNewest
<1>7. Tools!TypeOK'
  BY <1>1, <1>2, <1>4, ToolsTypes DEF Tools!ToolsInv, Tools!TypeOK
<1>8. Tools!TasksFollowPage'
  BY <1>1, <1>2, <1>3, <1>4, ToolsTypes DEF Tools!ToolsInv, Tools!TasksFollowPage, Tools!Running, Tools!At
<1>9. Tools!OneChain'
  <2> SUFFICES ASSUME NEW e \in Tools!Gens, NEW h \in Tools!Gens, e < h, h <= generation,
                      tasks'[e].stage = "clearing"
               PROVE  tasks'[h].stage = "clearing"
    BY <1>2 DEF Tools!OneChain, Tools!At
  <2>1. e # g /\ tasks[e].stage = "clearing"
    BY <1>4
  <2>2. h # g
    BY <1>2, <2>1
  <2> QED
    BY <1>4, <2>1, <2>2 DEF Tools!ToolsInv, Tools!OneChain, Tools!At
<1>10. Tools!ControllerIsNewest'
  <2>1. /\ \A h \in aborted : h < generation
        /\ controller <= generation
        /\ controller # 0 /\ controller # generation => controller \in aborted
        /\ \A h \in Tools!Gens :
             /\ Tools!Running(h) => h = controller \/ h \in aborted
             /\ Tools!Running(h) /\ ~tasks[h].linked => h \in aborted
             /\ tasks[h].stage = "clearing" => h # controller
             /\ tasks[h].stage = "disposing" => h # generation
    BY DEF Tools!ToolsInv, Tools!ControllerIsNewest, Tools!At
  <2>2. /\ controller' <= generation
        /\ controller' # 0 /\ controller' # generation => controller' \in aborted
    BY <1>1, <2>1, ToolsTypes
  <2>3. ASSUME NEW h \in Tools!Gens
        PROVE  /\ Tools!Running(h)' => h = controller' \/ h \in aborted
               /\ Tools!Running(h)' /\ ~tasks'[h].linked => h \in aborted
               /\ tasks'[h].stage = "clearing" => h # controller'
               /\ tasks'[h].stage = "disposing" => h # generation
    <3>1. CASE h = g
      BY <1>1, <1>4, <1>6, <3>1 DEF Tools!Running
    <3>2. CASE h # g
      <4>1. tasks'[h] = tasks[h] /\ (Tools!Running(h)' <=> Tools!Running(h))
        BY <1>4, <3>2 DEF Tools!Running
      <4>2. CASE controller' = controller
        BY <2>1, <4>1, <4>2
      <4>3. CASE controller' = g /\ g = generation
        <5>1. Tools!Running(h) => h \in aborted
          BY <1>6, <2>1, <4>3, ToolsTypes
        <5> QED
          BY <2>1, <3>2, <4>1, <4>3, <5>1
      <4> QED
        BY <1>1, <4>2, <4>3
    <3> QED
      BY <3>1, <3>2
  <2> QED
    BY <1>2, <2>1, <2>2, <2>3 DEF Tools!ControllerIsNewest, Tools!At
<1>11. Tools!OffersHaveOwner'
  <2>1. ASSUME NEW o \in live
        PROVE  (Tools!Running(o.gen) \/ registrations = o.gen)' /\ (o.gen \notin aborted => o.linked)
    <3>1. /\ o.gen \in Tools!Gens /\ Tools!Running(o.gen)
          /\ o.gen \notin aborted => o.linked
      BY <1>5, ToolsTypes DEF Tools!ToolsInv, Tools!OffersHaveOwner, Tools!Offers
    <3> QED
      BY <1>2, <1>4, <3>1 DEF Tools!Running
  <2>2. ASSUME NEW h \in Tools!Gens, h \notin aborted, tasks'[h].stage = "registering",
               NEW t0 \in Tools!Tools, t0 < tasks'[h].tool
        PROVE  [gen |-> h, tool |-> t0, linked |-> TRUE] \in live
    <3>1. h # g
      BY <1>4, <1>6, <2>2 DEF Tools!Tools
    <3> QED
      BY <1>4, <2>2, <3>1 DEF Tools!ToolsInv, Tools!OffersHaveOwner, Tools!At
  <2> QED
    BY <1>2, <2>1, <2>2 DEF Tools!OffersHaveOwner, Tools!At
<1>12. Tools!HeldIsNewest' /\ Tools!HeldToolsAreWithdrawable'
  BY <1>2, <1>5 DEF Tools!HeldIsNewest, Tools!HeldToolsAreWithdrawable
<1>13. Tools!StatusIsNewest'
  <2> SUFFICES ASSUME tasks'[generation].stage = "done"
               PROVE  page # "active" /\ (page = "suspended" => status' = "suspended")
    BY <1>2 DEF Tools!StatusIsNewest, Tools!At
  <2>1. g = generation /\ page \in {"active", "suspended", "disposed"}
    BY <1>4, <1>5, ToolsTypes DEF Tools!ToolsInv, Tools!TypeOK
  <2>2. tasks[generation].kind = Tools!KindOf[page]
    BY DEF Tools!ToolsInv, Tools!TasksFollowPage
  <2> QED
    BY <1>1, <1>4, <2>1, <2>2 DEF Tools!KindOf
<1> QED
  BY <1>7, <1>8, <1>9, <1>10, <1>11, <1>12, <1>13 DEF Tools!ToolsInv

\* The provider has taken a tool of a start, which registered it before it was overtaken,
\* or takes it back.
LEMMA Accepted ==
  ASSUME Tools!ToolsInv, NEW g \in Tools!Gens, Tools!Accept(g)
  PROVE  /\ tasks[g].stage = "registering" /\ tasks[g].kind = "start" /\ g <= generation
         /\ live \subseteq live' /\ live' \subseteq Tools!Offers
         /\ \A o \in live' : o \in live \/ (o.gen = g /\ (g \notin aborted => o.linked))
         /\ g \notin aborted => \A t \in Tools!Tools : t <= tasks[g].tool =>
                                 [gen |-> g, tool |-> t, linked |-> TRUE] \in live'
         /\ registrations = 0 \/ registrations # g
<1> DEFINE offer == [gen |-> g, tool |-> tasks[g].tool, linked |-> tasks[g].linked]
<1>1. /\ tasks[g].stage = "registering"
      /\ live' = IF g \in aborted /\ tasks[g].linked THEN live ELSE live \cup {offer}
  BY DEF Tools!Accept, Tools!At
<1>2. offer \in Tools!Offers /\ offer.gen = g /\ offer.linked = tasks[g].linked
  BY ToolsTypes DEF Tools!Offers
<1>3. /\ tasks[g].kind = "start" /\ g <= generation
      /\ ~tasks[g].linked => g \in aborted
  BY <1>1, ToolsTypes DEF Tools!ToolsInv, Tools!TasksFollowPage, Tools!ControllerIsNewest,
     Tools!Running, Tools!At
<1>4. g \notin aborted => offer = [gen |-> g, tool |-> tasks[g].tool, linked |-> TRUE]
  BY <1>3, ToolsTypes
<1>5. registrations = 0 \/ registrations # g
  BY <1>1 DEF Tools!ToolsInv, Tools!HeldIsNewest, Tools!At
<1> HIDE DEF offer
<1>6. ASSUME g \notin aborted, NEW t \in Tools!Tools, t <= tasks[g].tool
      PROVE  [gen |-> g, tool |-> t, linked |-> TRUE] \in live'
  <2>1. CASE t < tasks[g].tool
    BY <1>1, <1>6, <2>1 DEF Tools!ToolsInv, Tools!OffersHaveOwner, Tools!At
  <2>2. CASE t = tasks[g].tool
    BY <1>1, <1>4, <1>6, <2>2
  <2> QED
    BY <1>6, <2>1, <2>2, ToolsTypes
<1>7. /\ live \subseteq live' /\ live' \subseteq Tools!Offers
      /\ \A o \in live' : o \in live \/ (o.gen = g /\ (g \notin aborted => o.linked))
  BY <1>1, <1>2, <1>3, ToolsTypes
<1> QED
  BY <1>1, <1>3, <1>5, <1>6, <1>7

\* A start under way moves on: what was said of the calls and their controllers is so still.
LEMMA RunningMoves ==
  ASSUME Tools!ToolsInv, NEW g \in Tools!Gens, Tools!Running(g),
         page' = page, generation' = generation, controller' = controller, aborted' = aborted,
         \A e \in Tools!Gens \ {g} : tasks'[e] = tasks[e],
         tasks'[g].kind = tasks[g].kind,
         tasks'[g].stage \in {"registering", "disposing", "failing", "done"},
         tasks'[g].stage = "disposing" => g # generation,
         tasks'[g].linked \in BOOLEAN, ~tasks'[g].linked => g \in aborted
  PROVE  Tools!TasksFollowPage' /\ Tools!OneChain' /\ Tools!ControllerIsNewest'
<1>1. /\ \A h \in aborted : h < generation
      /\ controller <= generation
      /\ controller # 0 /\ controller # generation => controller \in aborted
      /\ \A h \in Tools!Gens :
           /\ Tools!Running(h) => h = controller \/ h \in aborted
           /\ Tools!Running(h) /\ ~tasks[h].linked => h \in aborted
           /\ tasks[h].stage = "clearing" => h # controller
           /\ tasks[h].stage = "disposing" => h # generation
  BY DEF Tools!ToolsInv, Tools!ControllerIsNewest, Tools!At
<1>2. /\ generation >= 1 /\ tasks[generation].kind = Tools!KindOf[page]
      /\ \A h \in Tools!Gens :
           /\ h > generation => tasks[h].kind = "none" /\ tasks[h].stage = "done"
           /\ tasks[h].stage = "clearing" => tasks[h].tool = 1 /\ tasks[h].linked
           /\ Tools!Running(h) => tasks[h].kind = "start"
  BY DEF Tools!ToolsInv, Tools!TasksFollowPage, Tools!At
<1>3. g <= generation
  BY <1>2, ToolsTypes DEF Tools!Running
<1>4. Tools!TasksFollowPage'
  <2>1. tasks'[generation].kind = Tools!KindOf[page]
    BY <1>2, ToolsTypes
  <2>2. ASSUME NEW h \in Tools!Gens
        PROVE  /\ h > generation => tasks'[h].kind = "none" /\ tasks'[h].stage = "done"
               /\ tasks'[h].stage = "clearing" => tasks'[h].tool = 1 /\ tasks'[h].linked
               /\ Tools!Running(h)' => tasks'[h].kind = "start"
    <3>1. CASE h = g
      BY <1>2, <1>3, <3>1, ToolsTypes
    <3>2. CASE h # g
      BY <1>2, <3>2 DEF Tools!Running
    <3> QED
      BY <3>1, <3>2
  <2> QED
    BY <1>2, <2>1, <2>2 DEF Tools!TasksFollowPage, Tools!At, Tools!KindOf
<1>5. Tools!OneChain'
  BY ToolsTypes DEF Tools!ToolsInv, Tools!OneChain, Tools!At, Tools!Running
<1>6. Tools!ControllerIsNewest'
  <2>1. ASSUME NEW h \in Tools!Gens
        PROVE  /\ Tools!Running(h)' => h = controller \/ h \in aborted
               /\ Tools!Running(h)' /\ ~tasks'[h].linked => h \in aborted
               /\ tasks'[h].stage = "clearing" => h # controller
               /\ tasks'[h].stage = "disposing" => h # generation
    <3>1. CASE h = g
      BY <1>1, <3>1
    <3>2. CASE h # g
      BY <1>1, <3>2 DEF Tools!Running
    <3> QED
      BY <3>1, <3>2
  <2> QED
    BY <1>1, <2>1 DEF Tools!ControllerIsNewest, Tools!At
<1> QED
  BY <1>4, <1>5, <1>6

\* The parts of the invariant that are about one call each, put together again.
LEMMA OffersKept ==
  ASSUME NEW g \in Tools!Gens, aborted' = aborted,
         \A e \in Tools!Gens \ {g} : tasks'[e] = tasks[e],
         \A o \in live' : /\ o.gen = g \/ o \in live
                          /\ o.gen = g => Tools!Running(g)' \/ registrations' = g
                          /\ o.gen \notin aborted => o.linked,
         \A o \in live : o.gen # g => o \in live',
         registrations = 0 \/ registrations' = registrations \/ registrations = g,
         g \notin aborted /\ tasks'[g].stage = "registering" =>
           \A t \in Tools!Tools : t < tasks'[g].tool =>
             [gen |-> g, tool |-> t, linked |-> TRUE] \in live',
         Tools!ToolsInv
  PROVE  Tools!OffersHaveOwner'
<1>1. ASSUME NEW o \in live'
      PROVE  /\ Tools!Running(o.gen)' \/ registrations' = o.gen
             /\ o.gen \notin aborted => o.linked
  <2>1. CASE o.gen = g
    BY <1>1, <2>1
  <2>2. CASE o.gen # g
    <3>1. o \in live /\ o.gen \in Tools!Gens /\ (Tools!Running(o.gen) \/ registrations = o.gen)
      BY <1>1, <2>2, ToolsTypes DEF Tools!Offers, Tools!ToolsInv, Tools!OffersHaveOwner
    <3>2. Tools!Running(o.gen) => Tools!Running(o.gen)'
      BY <2>2, <3>1 DEF Tools!Running
    <3> QED
      BY <1>1, <2>2, <3>1, <3>2, ToolsTypes
  <2> QED
    BY <2>1, <2>2
<1>2. ASSUME NEW h \in Tools!Gens, h \notin aborted, tasks'[h].stage = "registering",
             NEW t \in Tools!Tools, t < tasks'[h].tool
      PROVE  [gen |-> h, tool |-> t, linked |-> TRUE] \in live'
  <2>1. CASE h = g
    BY <1>2, <2>1
  <2>2. CASE h # g
    BY <1>2, <2>2 DEF Tools!ToolsInv, Tools!OffersHaveOwner, Tools!At
  <2> QED
    BY <2>1, <2>2
<1> QED
  BY <1>1, <1>2 DEF Tools!OffersHaveOwner, Tools!At

\* A start goes on to its next tool.
LEMMA NextToolKeeps ==
  ASSUME Tools!ToolsInv, NEW g \in Tools!Gens, Tools!NextTool(g)
  PROVE  Tools!ToolsInv'
<1>1. /\ Tools!Accept(g) /\ tasks[g].tool < NTools
      /\ tasks' = [tasks EXCEPT ![g].tool = @ + 1, ![g].linked = g \notin aborted]
      /\ page' = page /\ generation' = generation /\ controller' = controller
      /\ aborted' = aborted /\ registrations' = registrations /\ status' = status
  BY DEF Tools!NextTool
<1>2. /\ tasks[g].stage = "registering" /\ tasks[g].kind = "start" /\ g <= generation
      /\ live \subseteq live' /\ live' \subseteq Tools!Offers
      /\ \A o \in live' : o \in live \/ (o.gen = g /\ (g \notin aborted => o.linked))
      /\ g \notin aborted => \A t \in Tools!Tools : t <= tasks[g].tool =>
                              [gen |-> g, tool |-> t, linked |-> TRUE] \in live'
      /\ registrations = 0 \/ registrations # g
  BY <1>1, Accepted
<1>3. /\ tasks' \in [Tools!Gens -> [kind : {"none", "start", "suspend", "dispose"},
              stage : {"clearing", "registering", "disposing", "failing", "done"},
              tool : Tools!Tools, linked : BOOLEAN]]
      /\ tasks'[g].stage = "registering" /\ tasks'[g].kind = tasks[g].kind
      /\ tasks'[g].tool = tasks[g].tool + 1 /\ tasks'[g].linked = (g \notin aborted)
      /\ \A e \in Tools!Gens \ {g} : tasks'[e] = tasks[e]
  <2>1. tasks[g].tool + 1 \in Tools!Tools /\ (g \notin aborted) \in BOOLEAN
    BY <1>1, ToolsTypes, ToolsAssumption DEF Tools!Tools
  <2> DEFINE more == tasks[g].tool + 1
             free == g \notin aborted
             t == [tasks[g] EXCEPT !.tool = more, !.linked = free]
  <2>2. tasks' = [tasks EXCEPT ![g] = t] /\ more \in Tools!Tools /\ free \in BOOLEAN
    BY <1>1, <2>1
  <2>3. tasks \in [Tools!Gens -> [kind : {"none", "start", "suspend", "dispose"},
              stage : {"clearing", "registering", "disposing", "failing", "done"},
              tool : Tools!Tools, linked : BOOLEAN]]
    BY DEF Tools!ToolsInv, Tools!TypeOK
  <2> HIDE DEF more, free
  <2>4. /\ t \in [kind : {"none", "start", "suspend", "dispose"},
                  stage : {"clearing", "registering", "disposing", "failing", "done"},
                  tool : Tools!Tools, linked : BOOLEAN]
        /\ t.stage = tasks[g].stage /\ t.kind = tasks[g].kind /\ t.tool = more /\ t.linked = free
    BY <2>2, <2>3
  <2> HIDE DEF t
  <2>5. /\ tasks' \in [Tools!Gens -> [kind : {"none", "start", "suspend", "dispose"},
              stage : {"clearing", "registering", "disposing", "failing", "done"},
              tool : Tools!Tools, linked : BOOLEAN]]
        /\ tasks'[g] = t /\ \A e \in Tools!Gens \ {g} : tasks'[e] = tasks[e]
    BY <2>2, <2>3, <2>4
  <2> QED
    BY <1>2, <2>4, <2>5 DEF more, free
<1>4. Tools!TypeOK'
  BY <1>1, <1>2, <1>3, ToolsTypes DEF Tools!ToolsInv, Tools!TypeOK
<1>5. Tools!TasksFollowPage' /\ Tools!OneChain' /\ Tools!ControllerIsNewest'
  BY <1>1, <1>2, <1>3, RunningMoves DEF Tools!Running
<1>6. Tools!OffersHaveOwner'
  <2>1. ASSUME NEW o \in live'
        PROVE  /\ o.gen = g \/ o \in live
               /\ o.gen = g => Tools!Running(g)' \/ registrations' = g
               /\ o.gen \notin aborted => o.linked
    BY <1>2, <1>3, <2>1 DEF Tools!Running, Tools!ToolsInv, Tools!OffersHaveOwner
  <2>2. g \notin aborted /\ tasks'[g].stage = "registering" =>
           \A t \in Tools!Tools : t < tasks'[g].tool =>
             [gen |-> g, tool |-> t, linked |-> TRUE] \in live'
    BY <1>2, <1>3, ToolsTypes
  <2> QED
    BY <1>1, <1>2, <1>3, <2>1, <2>2, OffersKept
<1>7. \A h \in Tools!Gens : tasks'[h].stage = tasks[h].stage
  BY <1>2, <1>3
<1>8. Tools!HeldIsNewest' /\ Tools!StatusIsNewest'
  BY <1>1, <1>7, ToolsTypes DEF Tools!ToolsInv, Tools!HeldIsNewest, Tools!StatusIsNewest, Tools!At
<1>9. Tools!HeldToolsAreWithdrawable'
  BY <1>1, <1>2 DEF Tools!ToolsInv, Tools!HeldToolsAreWithdrawable
<1> QED
  BY <1>4, <1>5, <1>6, <1>8, <1>9 DEF Tools!ToolsInv

\* The offers of a start, one for each tool.
LEMMA AllOffered ==
  ASSUME NEW g, NEW S,
         \A t \in Tools!Tools : [gen |-> g, tool |-> t, linked |-> TRUE] \in S
  PROVE  [gen : {g}, tool : Tools!Tools, linked : {TRUE}] \subseteq S
<1> SUFFICES ASSUME NEW o \in [gen : {g}, tool : Tools!Tools, linked : {TRUE}]
             PROVE  o \in S
  OBVIOUS
<1>1. o = [gen |-> g, tool |-> o.tool, linked |-> TRUE]
  BY Zenon
<1>2. o.tool \in Tools!Tools
  OBVIOUS
<1> QED
  BY <1>1, <1>2, Zenon

\* The last tool: a start nobody overtook holds what it offered, and says so.
LEMMA LastToolKeeps ==
  ASSUME Tools!ToolsInv, NEW g \in Tools!Gens, Tools!LastTool(g)
  PROVE  Tools!ToolsInv'
<1>1. /\ Tools!Accept(g) /\ tasks[g].tool = NTools
      /\ page' = page /\ generation' = generation /\ controller' = controller
      /\ aborted' = aborted
  BY DEF Tools!LastTool
<1>2. /\ tasks[g].stage = "registering" /\ tasks[g].kind = "start" /\ g <= generation
      /\ live \subseteq live' /\ live' \subseteq Tools!Offers
      /\ \A o \in live' : o \in live \/ (o.gen = g /\ (g \notin aborted => o.linked))
      /\ g \notin aborted => \A t \in Tools!Tools : t <= tasks[g].tool =>
                              [gen |-> g, tool |-> t, linked |-> TRUE] \in live'
      /\ registrations = 0 \/ registrations # g
  BY <1>1, Accepted
<1>3. PICK stage \in {"disposing", "done"} :
        /\ tasks' = [tasks EXCEPT ![g].stage = stage]
        /\ stage = "disposing" => /\ g # generation \/ g \in aborted
                                  /\ registrations' = registrations /\ status' = status
        /\ stage = "done" => /\ g = generation /\ g \notin aborted
                             /\ registrations' = g /\ status' = "registered"
  BY DEF Tools!LastTool, Tools!Stale
<1>4. /\ tasks' \in [Tools!Gens -> [kind : {"none", "start", "suspend", "dispose"},
              stage : {"clearing", "registering", "disposing", "failing", "done"},
              tool : Tools!Tools, linked : BOOLEAN]]
      /\ tasks'[g].stage = stage /\ tasks'[g].kind = tasks[g].kind
      /\ tasks'[g].tool = tasks[g].tool /\ tasks'[g].linked = tasks[g].linked
      /\ \A e \in Tools!Gens \ {g} : tasks'[e] = tasks[e]
  BY <1>3, StageSet
<1>5. /\ \A h \in aborted : h < generation
      /\ g = controller \/ g \in aborted
      /\ ~tasks[g].linked => g \in aborted
  BY <1>2 DEF Tools!ToolsInv, Tools!ControllerIsNewest, Tools!Running
<1>6. Tools!TasksFollowPage' /\ Tools!OneChain' /\ Tools!ControllerIsNewest'
  <2>1. stage = "disposing" => g # generation
    BY <1>2, <1>3, <1>5, ToolsTypes
  <2>2. Tools!Running(g) /\ tasks'[g].linked \in BOOLEAN /\ (~tasks'[g].linked => g \in aborted)
    BY <1>2, <1>4, <1>5, ToolsTypes DEF Tools!Running
  <2> QED
    BY <1>1, <1>4, <2>1, <2>2, RunningMoves
<1>7. Tools!OffersHaveOwner'
  <2>1. ASSUME NEW o \in live'
        PROVE  /\ o.gen = g \/ o \in live
               /\ o.gen = g => Tools!Running(g)' \/ registrations' = g
               /\ o.gen \notin aborted => o.linked
    BY <1>2, <1>3, <1>4, <2>1 DEF Tools!Running, Tools!ToolsInv, Tools!OffersHaveOwner
  <2>2. registrations = 0 \/ registrations' = registrations \/ registrations = g
    BY <1>3 DEF Tools!ToolsInv, Tools!HeldIsNewest
  <2> QED
    BY <1>1, <1>2, <1>4, <2>1, <2>2, OffersKept
<1>8. CASE stage = "done"
  <2>1. page = "active"
    BY <1>2, <1>3, <1>8 DEF Tools!ToolsInv, Tools!TasksFollowPage, Tools!KindOf, Tools!TypeOK
  <2>2. Tools!TypeOK'
    BY <1>1, <1>2, <1>3, <1>4, <1>8, ToolsTypes DEF Tools!ToolsInv, Tools!TypeOK
  <2>3. Tools!HeldIsNewest' /\ Tools!StatusIsNewest'
    BY <1>1, <1>3, <1>4, <1>8, <2>1 DEF Tools!HeldIsNewest, Tools!StatusIsNewest, Tools!At
  <2>4. [gen : {g}, tool : Tools!Tools, linked : {TRUE}] \subseteq live'
    <3>1. \A t \in Tools!Tools : [gen |-> g, tool |-> t, linked |-> TRUE] \in live'
      BY <1>1, <1>2, <1>3, <1>8 DEF Tools!Tools
    <3> QED
      BY <3>1, AllOffered
  <2>5. Tools!HeldToolsAreWithdrawable'
    BY <1>1, <1>3, <1>5, <1>8, <2>4 DEF Tools!HeldToolsAreWithdrawable
  <2> QED
    BY <1>6, <1>7, <2>2, <2>3, <2>5 DEF Tools!ToolsInv
<1>9. CASE stage = "disposing"
  <2>1. g # generation
    BY <1>2, <1>3, <1>5, <1>9, ToolsTypes
  <2>2. Tools!TypeOK'
    BY <1>1, <1>2, <1>3, <1>4, <1>9, ToolsTypes DEF Tools!ToolsInv, Tools!TypeOK
  <2>3. Tools!HeldIsNewest' /\ Tools!StatusIsNewest'
    BY <1>1, <1>3, <1>4, <1>9, <2>1, ToolsTypes DEF Tools!ToolsInv, Tools!HeldIsNewest,
       Tools!StatusIsNewest, Tools!At
  <2>4. Tools!HeldToolsAreWithdrawable'
    BY <1>1, <1>2, <1>3, <1>9 DEF Tools!ToolsInv, Tools!HeldToolsAreWithdrawable
  <2> QED
    BY <1>6, <1>7, <2>2, <2>3, <2>4 DEF Tools!ToolsInv
<1> QED
  BY <1>3, <1>8, <1>9

\* The provider refuses: the start has failed, and what it offered is still there.
LEMMA RefusedKeeps ==
  ASSUME Tools!ToolsInv, NEW g \in Tools!Gens, Tools!Refused(g)
  PROVE  Tools!ToolsInv'
<1>1. /\ tasks[g].stage = "registering" /\ tasks' = [tasks EXCEPT ![g].stage = "failing"]
      /\ page' = page /\ generation' = generation /\ controller' = controller
      /\ aborted' = aborted /\ registrations' = registrations /\ status' = status /\ live' = live
  BY DEF Tools!Refused, Tools!At
<1>2. /\ tasks' \in [Tools!Gens -> [kind : {"none", "start", "suspend", "dispose"},
              stage : {"clearing", "registering", "disposing", "failing", "done"},
              tool : Tools!Tools, linked : BOOLEAN]]
      /\ tasks'[g].stage = "failing" /\ tasks'[g].kind = tasks[g].kind
      /\ tasks'[g].tool = tasks[g].tool /\ tasks'[g].linked = tasks[g].linked
      /\ \A e \in Tools!Gens \ {g} : tasks'[e] = tasks[e]
  BY <1>1, StageSet
<1>3. Tools!TasksFollowPage' /\ Tools!OneChain' /\ Tools!ControllerIsNewest'
  <2>1. Tools!Running(g) /\ tasks'[g].linked \in BOOLEAN /\ (~tasks'[g].linked => g \in aborted)
    BY <1>1, <1>2, ToolsTypes DEF Tools!Running, Tools!ToolsInv, Tools!ControllerIsNewest
  <2> QED
    BY <1>1, <1>2, <2>1, RunningMoves
<1>4. Tools!OffersHaveOwner'
  <2>1. ASSUME NEW o \in live'
        PROVE  /\ o.gen = g \/ o \in live
               /\ o.gen = g => Tools!Running(g)' \/ registrations' = g
               /\ o.gen \notin aborted => o.linked
    BY <1>1, <1>2, <2>1 DEF Tools!Running, Tools!ToolsInv, Tools!OffersHaveOwner
  <2> QED
    BY <1>1, <1>2, <2>1, OffersKept
<1>5. Tools!TypeOK'
  BY <1>1, <1>2, ToolsTypes DEF Tools!ToolsInv, Tools!TypeOK
<1>6. \A h \in Tools!Gens : tasks'[h].stage = "done" <=> tasks[h].stage = "done"
  BY <1>1, <1>2
<1>7. /\ Tools!HeldIsNewest' /\ Tools!StatusIsNewest' /\ Tools!HeldToolsAreWithdrawable'
  BY <1>1, <1>6, ToolsTypes DEF Tools!ToolsInv, Tools!HeldIsNewest, Tools!StatusIsNewest, Tools!At,
     Tools!HeldToolsAreWithdrawable
<1> QED
  BY <1>3, <1>4, <1>5, <1>7 DEF Tools!ToolsInv

\* A start that was overtaken, or failed, has taken its tools back.
LEMMA TakenBackKeeps ==
  ASSUME Tools!ToolsInv, NEW g \in Tools!Gens, Tools!TakenBack(g)
  PROVE  Tools!ToolsInv'
<1>1. /\ tasks[g].stage \in {"disposing", "failing"} /\ tasks' = [tasks EXCEPT ![g].stage = "done"]
      /\ live' = {o \in live : o.gen # g}
      /\ status' = IF tasks[g].stage = "failing" /\ ~(g # generation \/ g \in aborted)
                     THEN "failed" ELSE status
      /\ page' = page /\ generation' = generation /\ controller' = controller
      /\ aborted' = aborted /\ registrations' = registrations
  BY DEF Tools!TakenBack, Tools!At, Tools!Stale
<1>2. /\ tasks' \in [Tools!Gens -> [kind : {"none", "start", "suspend", "dispose"},
              stage : {"clearing", "registering", "disposing", "failing", "done"},
              tool : Tools!Tools, linked : BOOLEAN]]
      /\ tasks'[g].stage = "done" /\ tasks'[g].kind = tasks[g].kind
      /\ tasks'[g].tool = tasks[g].tool /\ tasks'[g].linked = tasks[g].linked
      /\ \A e \in Tools!Gens \ {g} : tasks'[e] = tasks[e]
  BY <1>1, StageSet
<1>3. Tools!TasksFollowPage' /\ Tools!OneChain' /\ Tools!ControllerIsNewest'
  <2>1. Tools!Running(g) /\ tasks'[g].linked \in BOOLEAN /\ (~tasks'[g].linked => g \in aborted)
    BY <1>1, <1>2, ToolsTypes DEF Tools!Running, Tools!ToolsInv, Tools!ControllerIsNewest
  <2> QED
    BY <1>1, <1>2, <2>1, RunningMoves
<1>4. Tools!OffersHaveOwner'
  <2>1. ASSUME NEW o \in live'
        PROVE  /\ o.gen = g \/ o \in live
               /\ o.gen = g => Tools!Running(g)' \/ registrations' = g
               /\ o.gen \notin aborted => o.linked
    BY <1>1, <2>1 DEF Tools!ToolsInv, Tools!OffersHaveOwner
  <2>2. \A o \in live : o.gen # g => o \in live'
    BY <1>1
  <2> QED
    BY <1>1, <1>2, <2>1, <2>2, OffersKept
<1>5. Tools!TypeOK'
  BY <1>1, <1>2, ToolsTypes DEF Tools!ToolsInv, Tools!TypeOK
<1>6. registrations # 0 => registrations = generation /\ g # generation
  BY <1>1 DEF Tools!ToolsInv, Tools!HeldIsNewest, Tools!At
<1>7. Tools!HeldIsNewest'
  BY <1>1, <1>2, <1>6, ToolsTypes DEF Tools!ToolsInv, Tools!HeldIsNewest, Tools!At
<1>8. Tools!HeldToolsAreWithdrawable'
  <2> SUFFICES ASSUME registrations # 0
               PROVE  [gen : {registrations}, tool : Tools!Tools, linked : {TRUE}] \subseteq live'
    BY <1>1 DEF Tools!ToolsInv, Tools!HeldToolsAreWithdrawable
  <2>1. [gen : {registrations}, tool : Tools!Tools, linked : {TRUE}] \subseteq live
    BY DEF Tools!ToolsInv, Tools!HeldToolsAreWithdrawable
  <2>2. \A o \in [gen : {registrations}, tool : Tools!Tools, linked : {TRUE}] : o.gen = registrations
    OBVIOUS
  <2> QED
    BY <1>1, <1>6, <2>1, <2>2
<1>9. Tools!StatusIsNewest'
  <2>1. CASE g # generation
    BY <1>1, <1>2, <2>1, ToolsTypes DEF Tools!ToolsInv, Tools!StatusIsNewest, Tools!At
  <2>2. CASE g = generation
    <3>1. tasks[g].stage = "failing" /\ g \notin aborted /\ tasks[g].kind = "start"
      BY <1>1, <2>2, ToolsTypes DEF Tools!ToolsInv, Tools!ControllerIsNewest, Tools!At,
         Tools!TasksFollowPage, Tools!Running
    <3>2. page = "active" /\ status' = "failed"
      BY <1>1, <2>2, <3>1 DEF Tools!ToolsInv, Tools!TasksFollowPage, Tools!KindOf, Tools!TypeOK
    <3> QED
      BY <1>1, <3>2 DEF Tools!StatusIsNewest
  <2> QED
    BY <2>1, <2>2
<1> QED
  BY <1>3, <1>4, <1>5, <1>7, <1>8, <1>9 DEF Tools!ToolsInv

\* The page is installed, and its first start has just been called.
LEMMA ToolsStart == Tools!Init => Tools!ToolsInv
<1> SUFFICES ASSUME Tools!Init PROVE Tools!ToolsInv
  OBVIOUS
<1> DEFINE idle == Tools!Idle
           first == [Tools!Idle EXCEPT !.kind = "start", !.stage = "clearing"]
           Type == [kind : {"none", "start", "suspend", "dispose"},
                    stage : {"clearing", "registering", "disposing", "failing", "done"},
                    tool : Tools!Tools, linked : BOOLEAN]
<1>1. /\ page = "active" /\ generation = 1 /\ controller = 0 /\ aborted = {}
      /\ registrations = 0 /\ status = "not-configured" /\ live = {}
      /\ tasks = [g \in Tools!Gens |-> IF g = 1 THEN first ELSE idle]
  BY DEF Tools!Init
<1>2. /\ 1 \in Tools!Gens /\ 1 \in Tools!Tools /\ Tools!Gens \subseteq Nat \ {0} /\ MaxEvents \in Nat
      /\ MaxEvents >= 1
  BY ToolsAssumption DEF Tools!Gens, Tools!Tools
<1>3. /\ idle \in Type /\ idle.kind = "none" /\ idle.stage = "done"
      /\ idle.tool = 1 /\ idle.linked = TRUE
  BY <1>2 DEF Tools!Idle
<1>4. /\ first \in Type /\ first.kind = "start" /\ first.tool = 1
      /\ first.stage = "clearing" /\ first.linked = TRUE
  BY <1>3
<1> HIDE DEF idle, first
<1>9. Tools!TypeOK
  <2>1. tasks \in [Tools!Gens -> Type]
    BY <1>1, <1>3, <1>4
  <2> QED
    BY <1>1, <1>2, <2>1 DEF Tools!TypeOK
<1>5. Tools!TasksFollowPage
  BY <1>1, <1>2, <1>3, <1>4 DEF Tools!TasksFollowPage, Tools!KindOf, Tools!At, Tools!Running
<1>6. Tools!OneChain
  BY <1>1, <1>2, <1>3, <1>4 DEF Tools!OneChain, Tools!At
<1>7. Tools!ControllerIsNewest /\ Tools!OffersHaveOwner
  BY <1>1, <1>2, <1>3, <1>4 DEF Tools!ControllerIsNewest, Tools!OffersHaveOwner, Tools!At, Tools!Running
<1>8. Tools!HeldIsNewest /\ Tools!HeldToolsAreWithdrawable /\ Tools!StatusIsNewest
  BY <1>1, <1>2, <1>3, <1>4 DEF Tools!HeldIsNewest, Tools!HeldToolsAreWithdrawable, Tools!StatusIsNewest,
     Tools!At
<1> QED
  BY <1>5, <1>6, <1>7, <1>8, <1>9 DEF Tools!ToolsInv

\* A step in which the adapter takes no part.
LEMMA ToolsRest == Tools!ToolsInv /\ UNCHANGED toolsVars => Tools!ToolsInv'
<1> SUFFICES ASSUME Tools!ToolsInv, UNCHANGED toolsVars PROVE Tools!ToolsInv'
  OBVIOUS
<1>1. Tools!TypeOK' /\ Tools!HeldToolsAreWithdrawable'
  BY DEF toolsVars, Tools!ToolsInv, Tools!TypeOK, Tools!HeldToolsAreWithdrawable
<1>2. Tools!TasksFollowPage' /\ Tools!OneChain'
  BY DEF toolsVars, Tools!ToolsInv, Tools!TasksFollowPage, Tools!OneChain, Tools!At, Tools!Running
<1>3. Tools!ControllerIsNewest' /\ Tools!OffersHaveOwner'
  BY DEF toolsVars, Tools!ToolsInv, Tools!ControllerIsNewest, Tools!OffersHaveOwner, Tools!At,
     Tools!Running
<1>4. Tools!HeldIsNewest' /\ Tools!StatusIsNewest'
  BY DEF toolsVars, Tools!ToolsInv, Tools!HeldIsNewest, Tools!StatusIsNewest, Tools!At
<1> QED
  BY <1>1, <1>2, <1>3, <1>4 DEF Tools!ToolsInv

\* Every step of the adapter, the page's calls among them.
LEMMA ToolsKeep == Tools!ToolsInv /\ Tools!Next => Tools!ToolsInv'
<1> SUFFICES ASSUME Tools!ToolsInv, Tools!Next PROVE Tools!ToolsInv'
  OBVIOUS
<1>1. CASE Tools!Hide \/ Tools!Show \/ Tools!Leave
  <2>1. PICK kind \in {"start", "suspend", "dispose"} :
          Tools!Call(kind) /\ page' \in {"active", "suspended", "disposed"} /\ kind = Tools!KindOf[page']
    BY <1>1 DEF Tools!Hide, Tools!Show, Tools!Leave, Tools!KindOf
  <2> QED
    BY <2>1, PageCallKeeps
<1>2. CASE \E g \in Tools!Gens : Tools!GoesOn(g)
  BY <1>2, ClearedKeeps, NextToolKeeps, LastToolKeeps, RefusedKeeps, TakenBackKeeps DEF Tools!GoesOn
<1> QED
  BY <1>1, <1>2 DEF Tools!Next

\* What the page promises of its tools when every call is through.
LEMMA ToolsInvSuffices == Tools!ToolsInv => Tools!ToolsMatchStatus
<1> SUFFICES ASSUME Tools!ToolsInv, Tools!Quiet
             PROVE  Tools!ExposureMatchesStatus /\ Tools!StatusFollowsPage
  BY DEF Tools!ToolsMatchStatus, Tools!ToolsInv, Tools!ExposureMatchesStatus, Tools!StatusFollowsPage
<1>1. \A g \in Tools!Gens : tasks[g].stage = "done"
  BY DEF Tools!Quiet, Tools!At
<1>2. /\ page = "active" => status = "failed" \/ (status = "registered" /\ registrations = generation)
      /\ page = "suspended" => status = "suspended"
  BY <1>1, ToolsTypes DEF Tools!ToolsInv, Tools!StatusIsNewest, Tools!At
<1>3. /\ registrations # 0 => /\ registrations = generation /\ page = "active" /\ status = "registered"
                              /\ registrations \notin aborted
                              /\ [gen : {registrations}, tool : Tools!Tools, linked : {TRUE}] \subseteq live
  BY DEF Tools!ToolsInv, Tools!HeldIsNewest, Tools!HeldToolsAreWithdrawable
<1>4. \A o \in live : /\ o \in Tools!Offers /\ o.gen = registrations /\ registrations # 0
                      /\ o.gen \notin aborted => o.linked
  <2> SUFFICES ASSUME NEW o \in live
               PROVE  /\ o \in Tools!Offers /\ o.gen = registrations /\ registrations # 0
                      /\ o.gen \notin aborted => o.linked
    OBVIOUS
  <2>1. o \in Tools!Offers /\ o.gen \in Tools!Gens
    BY ToolsTypes DEF Tools!Offers
  <2>2. /\ Tools!Running(o.gen) \/ registrations = o.gen
        /\ o.gen \notin aborted => o.linked
    BY DEF Tools!ToolsInv, Tools!OffersHaveOwner
  <2>3. ~Tools!Running(o.gen)
    BY <1>1, <2>1 DEF Tools!Running
  <2> QED
    BY <2>1, <2>2, <2>3, ToolsTypes
<1>5. page # "active" \/ status = "failed" => live = {}
  BY <1>3, <1>4
<1>6. ASSUME page = "active", status = "registered"
      PROVE  live = [gen : {generation}, tool : Tools!Tools, linked : {TRUE}]
  <2>1. registrations = generation /\ registrations # 0
    BY <1>2, <1>6, ToolsTypes
  <2>2. live \subseteq [gen : {generation}, tool : Tools!Tools, linked : {TRUE}]
    BY <1>3, <1>4, <2>1 DEF Tools!Offers
  <2> QED
    BY <1>3, <2>1, <2>2
<1> QED
  BY <1>2, <1>5, <1>6 DEF Tools!ExposureMatchesStatus, Tools!StatusFollowsPage

\* In a page whose calls are the adapter's, the adapter's invariant holds.
ToolsHold == component = "tools" => Tools!ToolsInv

\* The adapter keeps its invariant, and no other component touches its state.
LEMMA ToolsHoldAlways == Spec => []ToolsHold
<1>1. Init => ToolsHold
  BY ToolsStart DEF Init, ToolsHold
<1>2. ToolsHold /\ [Next]_vars => ToolsHold'
  BY ToolsRest, ToolsKeep DEF ToolsHold, Next, vars
<1> QED
  BY <1>1, <1>2, PTL DEF Spec

\* However start, suspend and dispose of webmcp-adapter.ts overtake each other, for any
\* number of tools and calls, with a provider that answers when it likes: once all calls
\* are through, what is on offer is what status() reports; the status is the last call's;
\* and what the adapter holds it can take back.
THEOREM ExposureIsReported == Spec => []ToolsMatchStatus
<1>1. ToolsHold => ToolsMatchStatus
  BY ToolsInvSuffices DEF ToolsHold, ToolsMatchStatus
<1> QED
  BY <1>1, ToolsHoldAlways, PTL

-----------------------------------------------------------------------------
(* The operations and the agents that wait for them *)

\* An instance counts like the module it is an instance in.
LEMMA SameCountOps == \A S : Ops!Cardinality(S) = Cardinality(S)
BY DEF Ops!Cardinality, Cardinality

\* A set of numbers has a least one.
LEMMA LeastNumber ==
  ASSUME NEW T \in SUBSET Nat, T # {}
  PROVE  \E m \in T : \A n \in T : m <= n
<1> DEFINE R == OpToRel(<, Nat)
<1>1. PICK m \in T : \A n \in T : <<n, m>> \notin R
  BY NatLessThanWellFounded, WFMin
<1>2. \A n \in T : n < m => <<n, m>> \in R
  BY DEF OpToRel
<1>3. \A n \in T : ~(n < m)
  BY <1>1, <1>2
<1> QED
  BY <1>3

\* The records of the store.
Records == [Ops!Ids -> [state : Ops!Live \cup Ops!Terminal \cup Ops!Gone, createdAt : Times \cup {0}]]

\* The ended operations among them.
EndedIn(r) == {i \in Ops!Ids : r[i].state \in Ops!Terminal}

\* The order of eviction is a total order on the operations.
LEMMA OlderIsTotal ==
  ASSUME NEW r \in Records
  PROVE  /\ Ops!Ids \subseteq Nat /\ \A i \in Ops!Ids : r[i].createdAt \in Nat
         /\ \A i, j \in Ops!Ids : i # j => (Ops!Older(r, i, j) <=> ~Ops!Older(r, j, i))
         /\ \A i \in Ops!Ids : ~Ops!Older(r, i, i)
         /\ \A i, j, k \in Ops!Ids : Ops!Older(r, i, j) /\ Ops!Older(r, j, k) => Ops!Older(r, i, k)
<1>1. Ops!Ids \subseteq Nat
  BY OperationsAssumption DEF Ops!Ids
<1>2. \A i \in Ops!Ids : r[i].createdAt \in Nat
  <2>1. Times \cup {0} \subseteq Nat
    BY OperationsAssumption
  <2>2. \A i \in Ops!Ids : r[i].createdAt \in Times \cup {0}
    BY DEF Records
  <2> QED
    BY <2>1, <2>2
<1> QED
  BY <1>1, <1>2 DEF Ops!Older

\* Whatever has ended, one of it was created before all the others.
LEMMA OldestExists ==
  ASSUME NEW r \in Records, NEW F \in SUBSET Ops!Ids, F # {}
  PROVE  \E m \in F : \A i \in F \ {m} : Ops!Older(r, m, i)
<1> DEFINE when == {r[i].createdAt : i \in F}
<1>1. PICK t \in when : \A u \in when : t <= u
  <2>1. when \in SUBSET Nat /\ when # {}
    BY OlderIsTotal
  <2> QED
    BY <2>1, LeastNumber
<1> DEFINE first == {i \in F : r[i].createdAt = t}
<1>2. PICK m \in first : \A i \in first : m <= i
  <2>1. first \in SUBSET Nat /\ first # {}
    BY <1>1, OlderIsTotal
  <2> QED
    BY <2>1, LeastNumber
<1>3. ASSUME NEW i \in F \ {m} PROVE Ops!Older(r, m, i)
  <2>1. m \in Nat /\ i \in Nat /\ t \in Nat /\ r[i].createdAt \in Nat /\ r[m].createdAt = t
    BY <1>2, OlderIsTotal
  <2>2. t <= r[i].createdAt
    BY <1>1
  <2>3. CASE r[i].createdAt = t
    BY <1>2, <2>1, <2>3 DEF Ops!Older
  <2>4. CASE r[i].createdAt # t
    BY <2>1, <2>2, <2>4 DEF Ops!Older
  <2> QED
    BY <2>3, <2>4
<1> QED
  BY <1>2, <1>3

\* Ids are few: whatever is counted of them is a number.
LEMMA IdsCount ==
  ASSUME NEW F \in SUBSET Ops!Ids
  PROVE  IsFiniteSet(F) /\ Cardinality(F) \in Nat
<1>1. IsFiniteSet(Ops!Ids)
  BY FS_Interval, OperationsAssumption DEF Ops!Ids
<1> QED
  BY <1>1, FS_Subset, FS_CardinalityType

\* What evict() does to one record.
LEMMA EvictTouches ==
  ASSUME NEW r \in Records
  PROVE  /\ Ops!Evict(r) \in Records
         /\ \A i \in Ops!Ids :
              /\ Ops!Evict(r)[i].createdAt = r[i].createdAt
              /\ Ops!Evict(r)[i].state \in {r[i].state, "evicted"}
              /\ r[i].state \notin Ops!Terminal => Ops!Evict(r)[i] = r[i]
<1> DEFINE drop(i) == /\ i \in EndedIn(r)
                      /\ Ops!Cardinality({j \in EndedIn(r) : Ops!Older(r, i, j)}) >= MaxRetained
<1>1. Ops!Evict(r) = [i \in Ops!Ids |-> IF drop(i) THEN [state |-> "evicted", createdAt |-> r[i].createdAt]
                                                  ELSE r[i]]
  BY DEF Ops!Evict, EndedIn
<1>2. \A i \in Ops!Ids : drop(i) => r[i].state \in Ops!Terminal
  BY DEF EndedIn
<1> HIDE DEF drop
<1>3. Ops!Evict(r) \in Records
  BY <1>1 DEF Records, Ops!Gone
<1>4. \A i \in Ops!Ids :
              /\ Ops!Evict(r)[i].createdAt = r[i].createdAt
              /\ Ops!Evict(r)[i].state \in {r[i].state, "evicted"}
              /\ r[i].state \notin Ops!Terminal => Ops!Evict(r)[i] = r[i]
  BY <1>1, <1>2
<1> QED
  BY <1>3, <1>4

\* With room for all of them evict() drops nothing; with one too many it drops the one
\* that was created first.
LEMMA EvictDropsOldest ==
  ASSUME NEW r \in Records, Cardinality(EndedIn(r)) <= MaxRetained + 1
  PROVE  \/ Cardinality(EndedIn(r)) <= MaxRetained /\ Ops!Evict(r) = r
         \/ /\ Cardinality(EndedIn(r)) = MaxRetained + 1
            /\ \E m \in EndedIn(r) :
                 /\ \A i \in EndedIn(r) \ {m} : Ops!Older(r, m, i)
                 /\ EndedIn(Ops!Evict(r)) = EndedIn(r) \ {m}
                 /\ Cardinality(EndedIn(Ops!Evict(r))) = MaxRetained
                 /\ \A i \in Ops!Ids : Ops!Evict(r)[i].state = "evicted" => i = m \/ r[i].state = "evicted"
<1> DEFINE F == EndedIn(r)
           newer(i) == {j \in F : Ops!Older(r, i, j)}
           drop(i) == i \in F /\ Cardinality(newer(i)) >= MaxRetained
<1>1. /\ F \in SUBSET Ops!Ids /\ IsFiniteSet(F) /\ Cardinality(F) \in Nat /\ MaxRetained \in Nat
  BY IdsCount, OperationsAssumption DEF EndedIn
<1>2. Ops!Evict(r) = [i \in Ops!Ids |-> IF drop(i) THEN [state |-> "evicted", createdAt |-> r[i].createdAt]
                                                  ELSE r[i]]
  BY SameCountOps DEF Ops!Evict, EndedIn
<1>3. \A i \in F : newer(i) \subseteq F \ {i}
  BY <1>1, OlderIsTotal
<1> HIDE DEF F, newer, drop
<1>4. \A i \in F : IsFiniteSet(newer(i)) /\ Cardinality(newer(i)) \in Nat
                   /\ Cardinality(newer(i)) <= Cardinality(F) - 1
  <2> SUFFICES ASSUME NEW i \in F
               PROVE  IsFiniteSet(newer(i)) /\ Cardinality(newer(i)) \in Nat
                      /\ Cardinality(newer(i)) <= Cardinality(F) - 1
    OBVIOUS
  <2>1. IsFiniteSet(F \ {i}) /\ Cardinality(F \ {i}) = Cardinality(F) - 1
    BY <1>1, FS_RemoveElement
  <2> QED
    BY <1>3, <2>1, FS_Subset, FS_CardinalityType
<1>5. CASE Cardinality(F) <= MaxRetained
  <2>1. \A i \in Ops!Ids : ~drop(i)
    BY <1>1, <1>4, <1>5 DEF drop
  <2>2. Ops!Evict(r) = [i \in Ops!Ids |-> r[i]]
    BY <1>2, <2>1
  <2> QED
    BY <1>5, <2>2 DEF Records, F
<1>6. CASE Cardinality(F) = MaxRetained + 1
  <2>1. PICK m \in F : \A i \in F \ {m} : Ops!Older(r, m, i)
    <3>1. F # {}
      BY <1>1, <1>6, FS_EmptySet
    <3> QED
      BY <1>1, <3>1, OldestExists
  <2>2. Cardinality(F \ {m}) = MaxRetained
    <3>1. Cardinality(F \ {m}) = Cardinality(F) - 1
      BY <1>1, <2>1, FS_RemoveElement
    <3> QED
      BY <1>1, <1>6, <3>1
  <2>3. drop(m)
    <3>1. newer(m) = F \ {m}
      BY <1>3, <2>1 DEF newer
    <3> QED
      BY <1>1, <2>1, <2>2, <3>1 DEF drop
  <2>4. ASSUME NEW i \in F, i # m PROVE ~drop(i)
    <3>1. newer(i) \subseteq (F \ {m}) \ {i}
      <4>1. Ops!Older(r, m, i) /\ m \in Ops!Ids /\ i \in Ops!Ids
        BY <1>1, <2>1, <2>4
      <4>2. m \notin newer(i)
        BY <2>4, <4>1, OlderIsTotal DEF newer
      <4> QED
        BY <1>3, <2>4, <4>2
    <3>2. IsFiniteSet(F \ {m}) /\ IsFiniteSet((F \ {m}) \ {i})
          /\ Cardinality((F \ {m}) \ {i}) = MaxRetained - 1
      BY <1>1, <2>2, <2>4, FS_RemoveElement
    <3>3. Cardinality(newer(i)) <= MaxRetained - 1 /\ Cardinality(newer(i)) \in Nat
      BY <1>4, <3>1, <3>2, FS_Subset
    <3> QED
      BY <1>1, <3>3 DEF drop
  <2>5. \A i \in Ops!Ids : drop(i) <=> i = m
    BY <1>1, <2>1, <2>3, <2>4 DEF drop
  <2>6. \A i \in Ops!Ids : Ops!Evict(r)[i] = IF i = m THEN [state |-> "evicted", createdAt |-> r[i].createdAt]
                                                      ELSE r[i]
    BY <1>2, <2>5
  <2>7. EndedIn(Ops!Evict(r)) = F \ {m}
    <3>1. "evicted" \notin Ops!Terminal
      BY DEF Ops!Terminal
    <3>2. Ops!Evict(r)[m].state = "evicted"
      <4>1. m \in Ops!Ids
        BY <1>1, <2>1
      <4>2. Ops!Evict(r)[m] = [state |-> "evicted", createdAt |-> r[m].createdAt]
        BY <2>6, <4>1
      <4> QED
        BY <4>2
    <3>3. \A i \in Ops!Ids \ {m} : Ops!Evict(r)[i] = r[i]
      BY <2>6
    <3>4. F = {i \in Ops!Ids : r[i].state \in Ops!Terminal}
      BY DEF F, EndedIn
    <3> QED
      BY <3>1, <3>2, <3>3, <3>4 DEF EndedIn
  <2>8. \A i \in Ops!Ids : Ops!Evict(r)[i].state = "evicted" => i = m \/ r[i].state = "evicted"
    BY <2>6
  <2> QED
    BY <1>6, <2>1, <2>2, <2>7, <2>8 DEF F
<1> QED
  BY <1>1, <1>5, <1>6 DEF F


\* The calls of an agent.
CallRecords ==
  [stage : {"idle", "pending", "settled", "answered"}, op : Ops!Ids \cup {0},
   signal : 1..MaxAborts, told : Ops!Told]

\* What the invariant says of the store and the calls, with their types.
LEMMA OpsTypes ==
  ASSUME Ops!OpsInv
  PROVE  /\ sequence \in 0..MaxOps /\ MaxOps \in Nat /\ MaxRetained \in Nat /\ MaxWaits \in Nat
         /\ records \in Records /\ listeners \in [Ops!Ids -> SUBSET Calls]
         /\ activeWaits \in Nat /\ activeRequests \in Nat
         /\ calls \in [Calls -> CallRecords] /\ signal \in 1..MaxAborts
         /\ reasons \in [1..MaxAborts -> Ops!Codes \cup {"none"}]
         /\ registry \in {"active", "suspended", "disposed"} /\ disposed \in BOOLEAN
         /\ 0 \notin Ops!Ids /\ MaxAborts \in Nat
         /\ IsFiniteSet(Ops!Pending) /\ activeWaits = Cardinality(Ops!Pending)
         /\ activeWaits <= MaxWaits
BY OperationsAssumption, FS_Subset, SameCountOps
DEF Ops!OpsInv, Ops!TypeOK, Ops!SlotsMatchWaits, Ops!Pending, Ops!Ids, Records, CallRecords

\* The calls in flight, which the registry counts.
InFlight == {w \in Calls : calls[w].stage \in {"pending", "settled"}}

\* A call that takes no slot: it is refused, told at once or answered, and only the
\* count of requests in flight goes with it.
LEMMA CallMovesKeeps ==
  ASSUME Ops!OpsInv, NEW w \in Calls, NEW c \in CallRecords,
         calls' = [calls EXCEPT ![w] = c],
         calls[w].stage \in {"idle", "settled"}, c.stage \in {"settled", "answered"},
         sequence' = sequence, records' = records, listeners' = listeners,
         activeWaits' = activeWaits, signal' = signal, reasons' = reasons,
         registry' = registry, disposed' = disposed,
         \/ calls[w].stage = "idle" /\ c.stage = "settled" /\ activeRequests' = activeRequests + 1
         \/ calls[w].stage = "idle" /\ c.stage = "answered" /\ activeRequests' = activeRequests
         \/ calls[w].stage = "settled" /\ c.stage = "answered" /\ activeRequests' = activeRequests - 1,
         c.told.kind = "terminal" => /\ c.op \in Ops!Ids /\ c.told.state \in Ops!Terminal
                                     /\ records[c.op].state \in {c.told.state, "evicted"},
         c.told.kind \in {"timed_out", "cancelled"} => c.told.state \in Ops!Live
  PROVE  Ops!OpsInv'
<1>1. calls' \in [Calls -> CallRecords] /\ calls'[w] = c /\ \A v \in Calls \ {w} : calls'[v] = calls[v]
  BY OpsTypes
<1>2. Ops!Pending' = Ops!Pending /\ w \notin Ops!Pending
  BY <1>1 DEF Ops!Pending
<1>3. activeRequests' = Cardinality(InFlight') /\ activeRequests' \in Nat
  <2>1. /\ IsFiniteSet(InFlight) /\ activeRequests = Cardinality(InFlight) /\ IsFiniteSet(InFlight')
        /\ Cardinality(InFlight') \in Nat
    BY OperationsAssumption, FS_Subset, FS_CardinalityType, SameCountOps
    DEF Ops!OpsInv, Ops!SlotsMatchWaits, InFlight
  <2>2. CASE calls[w].stage = "idle" /\ c.stage = "settled" /\ activeRequests' = activeRequests + 1
    <3>1. InFlight' = InFlight \cup {w} /\ w \notin InFlight
      BY <1>1, <2>2 DEF InFlight
    <3> QED
      BY <2>1, <2>2, <3>1, FS_AddElement
  <2>3. CASE calls[w].stage = "idle" /\ c.stage = "answered" /\ activeRequests' = activeRequests
    <3>1. InFlight' = InFlight
      BY <1>1, <2>3 DEF InFlight
    <3> QED
      BY <2>1, <2>3, <3>1
  <2>4. CASE calls[w].stage = "settled" /\ c.stage = "answered" /\ activeRequests' = activeRequests - 1
    <3>1. InFlight' = InFlight \ {w} /\ w \in InFlight
      BY <1>1, <2>4 DEF InFlight
    <3>2. Cardinality(InFlight \ {w}) = Cardinality(InFlight) - 1
      BY <2>1, <3>1, FS_RemoveElement
    <3> QED
      BY <2>1, <2>4, <3>1, <3>2
  <2> QED
    BY <2>2, <2>3, <2>4
<1>4. Ops!TypeOK'
  BY <1>1, <1>3, OpsTypes DEF Ops!TypeOK, Records, CallRecords
<1>5. /\ Ops!CreatedInOrder' /\ Ops!EvictedWhenFull' /\ Ops!OldestGoFirst'
  BY DEF Ops!OpsInv, Ops!CreatedInOrder, Ops!EvictedWhenFull, Ops!OldestGoFirst, Ops!Finished,
     Ops!Older
<1>6. Ops!SlotsMatchWaits'
  BY <1>2, <1>3, SameCountOps DEF Ops!OpsInv, Ops!SlotsMatchWaits, InFlight
<1>7. Ops!ListenersWait' /\ Ops!WaitsAreCurrent' /\ Ops!NoLostCompletion' /\ Ops!QuietWhenAway'
  <2>1. \A v \in Ops!Pending : calls'[v] = calls[v]
    BY <1>1, <1>2 DEF Ops!Pending
  <2> QED
    BY <1>2, <2>1 DEF Ops!OpsInv, Ops!ListenersWait, Ops!WaitsAreCurrent, Ops!NoLostCompletion,
       Ops!QuietWhenAway
<1>8. Ops!EndsAreTold' /\ Ops!AnswerIsTruth'
  <2>1. \A v \in Calls :
          /\ calls[v].told.kind = "terminal" =>
               /\ calls[v].op \in Ops!Ids /\ calls[v].told.state \in Ops!Terminal
               /\ records[calls[v].op].state \in {calls[v].told.state, "evicted"}
          /\ calls[v].told.kind \in {"timed_out", "cancelled"} => calls[v].told.state \in Ops!Live
    BY DEF Ops!OpsInv, Ops!EndsAreTold, Ops!AnswerIsTruth
  <2>2. \A v \in Calls :
          /\ calls'[v].told.kind = "terminal" =>
               /\ calls'[v].op \in Ops!Ids /\ calls'[v].told.state \in Ops!Terminal
               /\ records[calls'[v].op].state \in {calls'[v].told.state, "evicted"}
          /\ calls'[v].told.kind \in {"timed_out", "cancelled"} => calls'[v].told.state \in Ops!Live
    BY <1>1, <2>1
  <2> QED
    BY <2>2 DEF Ops!EndsAreTold, Ops!AnswerIsTruth
<1> QED
  BY <1>4, <1>5, <1>6, <1>7, <1>8 DEF Ops!OpsInv

\* A wait is over: its slot is free, and what it was told is the call's to keep.
Released(S, kind, state) ==
  /\ calls' \in [Calls -> CallRecords]
  /\ Ops!Pending' = Ops!Pending \ S /\ InFlight' = InFlight
  /\ activeWaits' \in Nat /\ activeWaits' = Cardinality(Ops!Pending') /\ activeWaits' <= MaxWaits
  /\ \A w \in Calls \ S : calls'[w] = calls[w]
  /\ \A w \in S : /\ calls'[w].op = calls[w].op
                  /\ calls'[w].told.kind = kind /\ calls'[w].told.state = state[w]

\* What a wait is told has two parts.
LEMMA ToldParts ==
  ASSUME NEW told, NEW kind, NEW state, told = [kind |-> kind, state |-> state]
  PROVE  told.kind = kind /\ told.state = state
OBVIOUS

\* complete() of any of the waits on record releases the ones that are not over.
LEMMA CompleteReleases ==
  ASSUME Ops!OpsInv, NEW ws \in SUBSET Calls, NEW kind \in {"terminal", "timed_out", "cancelled"},
         NEW state, Ops!Complete(ws, kind, state),
         \A w \in ws \cap Ops!Pending : state[w] \in Ops!Live \cup Ops!Terminal
  PROVE  Released(ws \cap Ops!Pending, kind, state)
<1> DEFINE S == ws \cap Ops!Pending
<1>0. {w \in ws : calls[w].stage = "pending"} = S
  BY DEF Ops!Pending
<1>1. /\ calls' = [w \in Calls |->
           IF w \in S THEN [calls[w] EXCEPT !.stage = "settled",
                                            !.told = [kind |-> kind, state |-> state[w]]]
           ELSE calls[w]]
      /\ activeWaits' = activeWaits - Cardinality(S)
  BY <1>0, SameCountOps DEF Ops!Complete
<1>2. \A w \in S : w \in Calls /\ calls[w] \in CallRecords /\ calls[w].stage = "pending"
                   /\ [kind |-> kind, state |-> state[w]] \in Ops!Told
  BY OpsTypes DEF Ops!Pending, Ops!Told
<1> HIDE DEF S
<1>3. \A w \in S : /\ calls'[w] \in CallRecords /\ calls'[w].stage = "settled"
                   /\ calls'[w].op = calls[w].op
                   /\ calls'[w].told = [kind |-> kind, state |-> state[w]]
  BY <1>1, <1>2 DEF CallRecords
<1>4. \A w \in Calls \ S : calls'[w] = calls[w]
  BY <1>1
<1>5. calls' \in [Calls -> CallRecords]
  <2>1. \A w \in Calls : calls'[w] \in CallRecords
    BY <1>3, <1>4, OpsTypes
  <2> QED
    BY <1>1, <2>1
<1>6. Ops!Pending' = Ops!Pending \ S /\ InFlight' = InFlight
  <2>1. \A w \in Calls : /\ calls'[w].stage = "pending" <=> calls[w].stage = "pending" /\ w \notin S
                         /\ calls'[w].stage \in {"pending", "settled"} <=>
                              calls[w].stage \in {"pending", "settled"}
    BY <1>2, <1>3, <1>4
  <2> QED
    BY <2>1 DEF Ops!Pending, InFlight
<1>7. activeWaits' \in Nat /\ activeWaits' = Cardinality(Ops!Pending') /\ activeWaits' <= MaxWaits
  <2>1. /\ IsFiniteSet(Ops!Pending) /\ activeWaits = Cardinality(Ops!Pending)
        /\ activeWaits \in Nat /\ activeWaits <= MaxWaits /\ MaxWaits \in Nat
    BY OpsTypes
  <2>2. Ops!Pending \cap S = S
    BY DEF S
  <2>3. IsFiniteSet(S) /\ Cardinality(S) \in Nat /\ Cardinality(S) <= Cardinality(Ops!Pending)
    BY <2>1, FS_Subset, FS_CardinalityType DEF S
  <2>4. Cardinality(Ops!Pending \ S) = Cardinality(Ops!Pending) - Cardinality(S)
    BY <2>1, <2>2, FS_Difference
  <2>5. activeWaits' = activeWaits - Cardinality(S)
    BY <1>1
  <2>6. Cardinality(Ops!Pending') = Cardinality(Ops!Pending \ S)
    BY <1>6
  <2> QED
    BY <2>1, <2>3, <2>4, <2>5, <2>6
<1>8. Released(S, kind, state)
  <2>1. \A w \in S : /\ calls'[w].op = calls[w].op
                     /\ calls'[w].told.kind = kind /\ calls'[w].told.state = state[w]
    <3> SUFFICES ASSUME NEW w \in S
                 PROVE  /\ calls'[w].op = calls[w].op
                        /\ calls'[w].told.kind = kind /\ calls'[w].told.state = state[w]
      OBVIOUS
    <3>1. calls'[w].op = calls[w].op /\ calls'[w].told = [kind |-> kind, state |-> state[w]]
      BY <1>3
    <3>2. calls'[w].told.kind = kind /\ calls'[w].told.state = state[w]
      BY <3>1, ToldParts, Zenon
    <3> QED
      BY <3>1, <3>2, Zenon
  <2> QED
    BY <1>4, <1>5, <1>6, <1>7, <2>1 DEF Released
<1> QED
  BY <1>8 DEF S

\* What the released waits leave of the invariant: everything that is not about the
\* records.
LEMMA ReleaseKeeps ==
  ASSUME Ops!OpsInv, NEW S \in SUBSET Ops!Pending, NEW kind, NEW state, Released(S, kind, state),
         listeners' \in [Ops!Ids -> SUBSET Calls],
         \A i \in Ops!Ids : listeners'[i] = listeners[i] \ S,
         signal' = signal \/ Ops!Pending \subseteq S,
         activeRequests' = activeRequests,
         registry' = "active" \/ Ops!Pending \subseteq S \/ registry' = registry
  PROVE  /\ Ops!SlotsMatchWaits' /\ Ops!ListenersWait' /\ Ops!WaitsAreCurrent' /\ Ops!QuietWhenAway'
         /\ \A w \in Ops!Pending' : /\ w \in Ops!Pending /\ calls'[w] = calls[w]
                                    /\ w \in listeners'[calls'[w].op]
<1>1. /\ Ops!Pending' = Ops!Pending \ S /\ InFlight' = InFlight
      /\ activeWaits' = Cardinality(Ops!Pending') /\ activeWaits' <= MaxWaits
      /\ \A w \in Calls \ S : calls'[w] = calls[w]
  BY DEF Released
<1>2. \A w \in Ops!Pending' : w \in Ops!Pending /\ calls'[w] = calls[w] /\ w \notin S /\ w \in Calls
  BY <1>1 DEF Ops!Pending
<1>3. Ops!SlotsMatchWaits'
  BY <1>1, SameCountOps DEF Ops!OpsInv, Ops!SlotsMatchWaits, InFlight
<1>4. Ops!ListenersWait'
  BY <1>1, <1>2 DEF Ops!OpsInv, Ops!ListenersWait
<1>5. Ops!WaitsAreCurrent'
  BY <1>1, <1>2 DEF Ops!OpsInv, Ops!WaitsAreCurrent
<1>6. Ops!QuietWhenAway'
  BY <1>1 DEF Ops!OpsInv, Ops!QuietWhenAway
<1>7. \A w \in Ops!Pending' : w \in listeners'[calls'[w].op]
  BY <1>2 DEF Ops!OpsInv, Ops!NoLostCompletion, Ops!WaitsAreCurrent
<1> QED
  BY <1>2, <1>3, <1>4, <1>5, <1>6, <1>7

\* What waits and answers say of the records, when some have been released and the
\* records have changed as finish and evict change them.
LEMMA TruthKept ==
  ASSUME Ops!OpsInv, NEW S \in SUBSET Ops!Pending, NEW kind, NEW state, Released(S, kind, state),
         records' \in Records,
         \A i \in Ops!Ids : records[i].state \in Ops!Terminal \cup Ops!Gone =>
           records'[i].state \in {records[i].state, "evicted"},
         \A w \in Ops!Pending \ S : records'[calls[w].op].state \in Ops!Live,
         \A w \in Ops!Pending' : w \in listeners'[calls'[w].op],
         kind = "terminal" => \A w \in S : /\ state[w] \in Ops!Terminal
                                           /\ records'[calls[w].op].state \in {state[w], "evicted"},
         kind \in {"timed_out", "cancelled"} => \A w \in S : state[w] \in Ops!Live
  PROVE  Ops!NoLostCompletion' /\ Ops!EndsAreTold' /\ Ops!AnswerIsTruth'
<1>1. /\ Ops!Pending' = Ops!Pending \ S
      /\ \A w \in Calls \ S : calls'[w] = calls[w]
      /\ \A w \in S : /\ calls'[w].op = calls[w].op
                      /\ calls'[w].told.kind = kind /\ calls'[w].told.state = state[w]
  BY DEF Released
<1>2. \A w \in Ops!Pending : w \in Calls /\ calls[w].op \in Ops!Ids
  BY DEF Ops!OpsInv, Ops!WaitsAreCurrent, Ops!Pending
<1>3. Ops!NoLostCompletion'
  BY <1>1, <1>2 DEF Ops!NoLostCompletion
<1>4. \A w \in Calls :
        /\ calls'[w].told.kind = "terminal" =>
             /\ calls'[w].op \in Ops!Ids /\ calls'[w].told.state \in Ops!Terminal
             /\ records'[calls'[w].op].state \in {calls'[w].told.state, "evicted"}
        /\ calls'[w].told.kind \in {"timed_out", "cancelled"} => calls'[w].told.state \in Ops!Live
  <2> SUFFICES ASSUME NEW w \in Calls
               PROVE  /\ calls'[w].told.kind = "terminal" =>
                           /\ calls'[w].op \in Ops!Ids /\ calls'[w].told.state \in Ops!Terminal
                           /\ records'[calls'[w].op].state \in {calls'[w].told.state, "evicted"}
                      /\ calls'[w].told.kind \in {"timed_out", "cancelled"} =>
                           calls'[w].told.state \in Ops!Live
    OBVIOUS
  <2>1. CASE w \in S
    BY <1>1, <1>2, <2>1
  <2>2. CASE w \notin S
    <3>1. calls'[w] = calls[w]
      BY <1>1, <2>2
    <3>2. calls[w].told.kind = "terminal" =>
             /\ calls[w].op \in Ops!Ids /\ calls[w].told.state \in Ops!Terminal
             /\ records[calls[w].op].state \in {calls[w].told.state, "evicted"}
      BY DEF Ops!OpsInv, Ops!EndsAreTold, Ops!AnswerIsTruth
    <3>3. calls[w].told.kind \in {"timed_out", "cancelled"} => calls[w].told.state \in Ops!Live
      BY DEF Ops!OpsInv, Ops!AnswerIsTruth
    <3>4. "evicted" \in Ops!Gone
      BY DEF Ops!Gone
    <3> QED
      BY <3>1, <3>2, <3>3, <3>4
  <2> QED
    BY <2>1, <2>2
<1>5. Ops!EndsAreTold' /\ Ops!AnswerIsTruth'
  BY <1>4 DEF Ops!EndsAreTold, Ops!AnswerIsTruth
<1> QED
  BY <1>3, <1>5

\* A wait whose operation is live finds its state on record.
LEMMA CurrentIsLive ==
  ASSUME Ops!OpsInv, NEW w \in Ops!Pending
  PROVE  /\ Ops!CurrentState(w) = records[calls[w].op].state
         /\ records[calls[w].op].state \in Ops!Live
BY DEF Ops!OpsInv, Ops!NoLostCompletion, Ops!WaitsAreCurrent, Ops!CurrentState, Ops!Lookup,
   Ops!Live, Ops!Gone

\* A step that leaves the records alone keeps what is said of retention.
LEMMA SameRecords ==
  ASSUME Ops!OpsInv, records' = records, sequence' = sequence
  PROVE  Ops!CreatedInOrder' /\ Ops!EvictedWhenFull' /\ Ops!OldestGoFirst'
BY DEF Ops!OpsInv, Ops!CreatedInOrder, Ops!EvictedWhenFull, Ops!OldestGoFirst, Ops!Finished,
   Ops!Older

\* The timer of a wait.
LEMMA WaitTimesOutKeeps ==
  ASSUME Ops!OpsInv, NEW w \in Calls, Ops!WaitTimesOut(w)
  PROVE  Ops!OpsInv'
<1> DEFINE state == Ops!CurrentStates
<1>1. /\ w \in Ops!Pending /\ {w} \cap Ops!Pending = {w}
      /\ Ops!Complete({w}, "timed_out", state)
      /\ listeners' = [listeners EXCEPT ![calls[w].op] = @ \ {w}]
      /\ sequence' = sequence /\ records' = records /\ activeRequests' = activeRequests
      /\ signal' = signal /\ reasons' = reasons /\ registry' = registry /\ disposed' = disposed
  <2>1. w \in Ops!Pending
    BY DEF Ops!WaitTimesOut, Ops!Pending
  <2>2. Ops!Complete({w}, "timed_out", state)
    BY DEF Ops!WaitTimesOut
  <2>3. /\ listeners' = [listeners EXCEPT ![calls[w].op] = @ \ {w}]
        /\ sequence' = sequence /\ records' = records /\ activeRequests' = activeRequests
        /\ signal' = signal /\ reasons' = reasons /\ registry' = registry /\ disposed' = disposed
    BY DEF Ops!WaitTimesOut, Ops!page
  <2> QED
    BY <2>1, <2>2, <2>3
<1>2. state[w] = records[calls[w].op].state /\ state[w] \in Ops!Live
  BY <1>1, CurrentIsLive DEF Ops!CurrentStates, Ops!Pending
<1> HIDE DEF state
<1>3. Released({w}, "timed_out", state)
  BY <1>1, <1>2, CompleteReleases
<1>4. /\ listeners' \in [Ops!Ids -> SUBSET Calls]
      /\ \A i \in Ops!Ids : listeners'[i] = listeners[i] \ {w}
  <2>1. calls[w].op \in Ops!Ids /\ \A i \in Ops!Ids : i # calls[w].op => w \notin listeners[i]
    BY <1>1 DEF Ops!OpsInv, Ops!WaitsAreCurrent, Ops!ListenersWait
  <2> QED
    BY <1>1, <2>1, OpsTypes
<1>5. /\ Ops!SlotsMatchWaits' /\ Ops!ListenersWait' /\ Ops!WaitsAreCurrent' /\ Ops!QuietWhenAway'
      /\ \A v \in Ops!Pending' : v \in listeners'[calls'[v].op]
  BY <1>1, <1>3, <1>4, ReleaseKeeps
<1>6. Ops!NoLostCompletion' /\ Ops!EndsAreTold' /\ Ops!AnswerIsTruth'
  <2>1. \A v \in Ops!Pending : records[calls[v].op].state \in Ops!Live
    BY CurrentIsLive
  <2> QED
    BY <1>1, <1>2, <1>3, <1>5, <2>1, OpsTypes, TruthKept
<1>7. Ops!TypeOK'
  BY <1>1, <1>3, <1>4, OpsTypes DEF Ops!TypeOK, Released, Records, CallRecords
<1> QED
  BY <1>1, <1>5, <1>6, <1>7, SameRecords DEF Ops!OpsInv

\* The page goes away: every wait is cancelled, and the next ones get a controller of
\* their own.
LEMMA PageAwayKeeps ==
  ASSUME Ops!OpsInv, Ops!PageHide \/ Ops!Dispose
  PROVE  Ops!OpsInv'
<1> DEFINE state == Ops!CurrentStates
<1>0. {w \in Calls : calls[w].stage = "pending" /\ calls[w].signal = signal} = Ops!Pending
  BY DEF Ops!OpsInv, Ops!WaitsAreCurrent, Ops!Pending
<1>1. PICK reason \in {"PAGE_SUSPENDED", "PAGE_DISPOSED"} :
        /\ signal < MaxAborts /\ reasons' = [reasons EXCEPT ![signal] = reason]
        /\ Ops!Complete(Ops!Pending, "cancelled", state)
        /\ listeners' = [i \in Ops!Ids |-> listeners[i] \ Ops!Pending]
        /\ signal' = signal + 1
        /\ sequence' = sequence /\ records' = records /\ activeRequests' = activeRequests
        /\ registry' \in {"suspended", "disposed"} /\ disposed' \in BOOLEAN
  BY <1>0, OpsTypes DEF Ops!PageHide, Ops!Dispose, Ops!CancelWaits
<1>2. \A w \in Ops!Pending : state[w] = records[calls[w].op].state /\ state[w] \in Ops!Live
  BY CurrentIsLive DEF Ops!CurrentStates, Ops!Pending
<1> HIDE DEF state
<1>3. Released(Ops!Pending, "cancelled", state)
  <2>1. Ops!Pending \in SUBSET Calls /\ Ops!Pending \cap Ops!Pending = Ops!Pending
    BY DEF Ops!Pending
  <2> QED
    BY <1>1, <1>2, <2>1, CompleteReleases
<1>4. /\ listeners' \in [Ops!Ids -> SUBSET Calls]
      /\ \A i \in Ops!Ids : listeners'[i] = listeners[i] \ Ops!Pending
  BY <1>1, OpsTypes
<1>5. /\ Ops!SlotsMatchWaits' /\ Ops!ListenersWait' /\ Ops!WaitsAreCurrent' /\ Ops!QuietWhenAway'
      /\ \A v \in Ops!Pending' : v \in listeners'[calls'[v].op]
  BY <1>1, <1>3, <1>4, ReleaseKeeps
<1>6. Ops!NoLostCompletion' /\ Ops!EndsAreTold' /\ Ops!AnswerIsTruth'
  BY <1>1, <1>2, <1>3, <1>5, OpsTypes, TruthKept
<1>7. Ops!TypeOK'
  <2>1. signal' \in 1..MaxAborts /\ reasons' \in [1..MaxAborts -> Ops!Codes \cup {"none"}]
    BY <1>1, OpsTypes DEF Ops!Codes
  <2> QED
    BY <1>1, <1>3, <1>4, <2>1, OpsTypes DEF Ops!TypeOK, Released, Records, CallRecords
<1> QED
  BY <1>1, <1>5, <1>6, <1>7, SameRecords DEF Ops!OpsInv

\* The page comes back: nothing waits, and nothing else has changed.
LEMMA PageShowKeeps ==
  ASSUME Ops!OpsInv, Ops!PageShow
  PROVE  Ops!OpsInv'
<1>1. /\ registry' = "active" /\ sequence' = sequence /\ records' = records /\ listeners' = listeners
      /\ activeWaits' = activeWaits /\ calls' = calls /\ signal' = signal /\ reasons' = reasons
      /\ disposed' = disposed /\ activeRequests' = activeRequests
  BY DEF Ops!PageShow
<1>2. Ops!Pending' = Ops!Pending
  BY <1>1 DEF Ops!Pending
<1>3. Ops!TypeOK' /\ Ops!QuietWhenAway'
  BY <1>1 DEF Ops!OpsInv, Ops!TypeOK, Ops!QuietWhenAway
<1>4. Ops!SlotsMatchWaits' /\ Ops!ListenersWait' /\ Ops!WaitsAreCurrent'
  BY <1>1, <1>2, SameCountOps
  DEF Ops!OpsInv, Ops!SlotsMatchWaits, Ops!ListenersWait, Ops!WaitsAreCurrent
<1>5. Ops!NoLostCompletion' /\ Ops!EndsAreTold' /\ Ops!AnswerIsTruth'
  BY <1>1, <1>2 DEF Ops!OpsInv, Ops!NoLostCompletion, Ops!EndsAreTold, Ops!AnswerIsTruth
<1> QED
  BY <1>1, <1>3, <1>4, <1>5, SameRecords DEF Ops!OpsInv

\* A step that leaves calls, waits and the page alone, and changes the records only by
\* creating an operation or starting one, keeps what is said of them.
LEMMA LiveRecordsKeep ==
  ASSUME Ops!OpsInv, NEW i \in Ops!Ids, NEW c, c \in [state : Ops!Live, createdAt : Times \cup {0}],
         records' = [records EXCEPT ![i] = c], sequence' \in 0..MaxOps, sequence' >= sequence,
         i <= sequence',
         records[i].state \in Ops!Live \cup {"none"},
         listeners' = listeners, activeWaits' = activeWaits, calls' = calls, signal' = signal,
         reasons' = reasons, registry' = registry, disposed' = disposed,
         activeRequests' = activeRequests
  PROVE  Ops!OpsInv'
<1>1. /\ records' \in Records /\ records'[i] = c /\ \A j \in Ops!Ids \ {i} : records'[j] = records[j]
  BY OpsTypes DEF Records
<1>2. /\ c.state \in Ops!Live /\ c.state \notin Ops!Terminal /\ c.state # "evicted" /\ c.state # "none"
      /\ records[i].state \notin Ops!Terminal /\ records[i].state # "evicted"
  BY DEF Ops!Live, Ops!Terminal
<1>3. Ops!Pending' = Ops!Pending
  BY DEF Ops!Pending
<1>4. Ops!TypeOK'
  BY <1>1 DEF Ops!OpsInv, Ops!TypeOK, Records
<1>5. Ops!CreatedInOrder'
  <2>1. \A j \in Ops!Ids : j > sequence' => j > sequence /\ j # i
    BY OpsTypes DEF Ops!Ids
  <2> QED
    BY <1>1, <2>1 DEF Ops!OpsInv, Ops!CreatedInOrder
<1>6. Ops!Finished' = Ops!Finished
  BY <1>1, <1>2 DEF Ops!Finished
<1>7. Ops!EvictedWhenFull'
  BY <1>1, <1>2, <1>6, SameCountOps DEF Ops!OpsInv, Ops!EvictedWhenFull
<1>8. Ops!OldestGoFirst'
  <2>1. Cardinality(Ops!Finished') <= MaxRetained
    BY <1>6, SameCountOps DEF Ops!OpsInv, Ops!OldestGoFirst, Ops!Finished
  <2>2. \A j, k \in Ops!Ids : records'[j].state = "evicted" /\ records'[k].state \in Ops!Terminal
          => Ops!Older(records', j, k)
    BY <1>1, <1>2 DEF Ops!OpsInv, Ops!OldestGoFirst, Ops!Older
  <2> QED
    BY <2>1, <2>2, SameCountOps DEF Ops!OldestGoFirst, Ops!Finished
<1>9. Ops!SlotsMatchWaits' /\ Ops!ListenersWait' /\ Ops!WaitsAreCurrent' /\ Ops!QuietWhenAway'
  BY <1>3, SameCountOps
  DEF Ops!OpsInv, Ops!SlotsMatchWaits, Ops!ListenersWait, Ops!WaitsAreCurrent, Ops!QuietWhenAway
<1>10. Ops!NoLostCompletion'
  BY <1>1, <1>2, <1>3 DEF Ops!OpsInv, Ops!NoLostCompletion, Ops!WaitsAreCurrent
<1>11. Ops!EndsAreTold' /\ Ops!AnswerIsTruth'
  <2>1. \A w \in Calls : calls[w].told.kind = "terminal" => calls[w].op # i
    <3>1. \A w \in Calls : calls[w].told.kind = "terminal" =>
            /\ calls[w].told.state \in Ops!Terminal
            /\ records[calls[w].op].state \in {calls[w].told.state, "evicted"}
      BY DEF Ops!OpsInv, Ops!EndsAreTold, Ops!AnswerIsTruth
    <3> QED
      BY <1>2, <3>1
  <2> QED
    BY <1>1, <2>1 DEF Ops!OpsInv, Ops!EndsAreTold, Ops!AnswerIsTruth
<1> QED
  BY <1>4, <1>5, <1>7, <1>8, <1>9, <1>10, <1>11 DEF Ops!OpsInv

\* create() and start().
LEMMA CreateKeeps ==
  ASSUME Ops!OpsInv, Ops!Create
  PROVE  Ops!OpsInv'
<1>1. PICK t \in Times : records' = [records EXCEPT ![sequence + 1] = [state |-> "queued", createdAt |-> t]]
  BY DEF Ops!Create
<1> DEFINE c == [state |-> "queued", createdAt |-> t]
<1>2. c \in [state : Ops!Live, createdAt : Times \cup {0}]
  BY DEF Ops!Live
<1>3. /\ sequence' = sequence + 1 /\ listeners' = listeners /\ activeWaits' = activeWaits
      /\ calls' = calls /\ signal' = signal /\ reasons' = reasons /\ registry' = registry
      /\ disposed' = disposed /\ activeRequests' = activeRequests /\ sequence < MaxOps
  BY DEF Ops!Create, Ops!page
<1>4. sequence + 1 \in Ops!Ids /\ records[sequence + 1].state = "none"
  BY <1>3, OpsTypes DEF Ops!OpsInv, Ops!CreatedInOrder, Ops!Ids
<1>5. sequence' \in 0..MaxOps /\ sequence' >= sequence /\ sequence + 1 <= sequence'
  BY <1>3, OpsTypes
<1>6. records' = [records EXCEPT ![sequence + 1] = c]
  BY <1>1
<1> HIDE DEF c
<1> QED
  BY <1>2, <1>3, <1>4, <1>5, <1>6, LiveRecordsKeep

\* A queued operation is started.
LEMMA StartKeeps ==
  ASSUME Ops!OpsInv, NEW i \in Ops!Ids, Ops!Start(i)
  PROVE  Ops!OpsInv'
<1> DEFINE c == [state |-> "running", createdAt |-> records[i].createdAt]
<1>1. /\ records[i].state = "queued" /\ records' = [records EXCEPT ![i].state = "running"]
      /\ sequence' = sequence /\ listeners' = listeners /\ activeWaits' = activeWaits
      /\ calls' = calls /\ signal' = signal /\ reasons' = reasons /\ registry' = registry
      /\ disposed' = disposed /\ activeRequests' = activeRequests
  BY DEF Ops!Start, Ops!page
<1>2. c \in [state : Ops!Live, createdAt : Times \cup {0}]
  BY OpsTypes DEF Ops!Live, Records
<1>3. records' = [records EXCEPT ![i] = c]
  <2>1. records[i] \in [state : Ops!Live \cup Ops!Terminal \cup Ops!Gone, createdAt : Times \cup {0}]
    BY OpsTypes DEF Records
  <2>2. [records[i] EXCEPT !.state = "running"] = c
    BY <2>1
  <2> QED
    BY <1>1, <2>2
<1>4. i <= sequence /\ records[i].state \in Ops!Live \cup {"none"}
  BY <1>1, OpsTypes DEF Ops!OpsInv, Ops!CreatedInOrder, Ops!Ids, Ops!Live
<1> HIDE DEF c
<1>5. sequence' \in 0..MaxOps /\ sequence' >= sequence /\ i <= sequence'
  BY <1>1, <1>4, OpsTypes
<1> QED
  BY <1>1, <1>2, <1>3, <1>4, <1>5, LiveRecordsKeep

\* An operation that ends is on record as ended, and the one created first makes room for
\* it when there is none.
LEMMA EndingEvicts ==
  ASSUME Ops!OpsInv, NEW i \in Ops!Ids, NEW s \in Ops!Terminal, records[i].state \in Ops!Live,
         NEW r \in Records, r[i].state = s, \A j \in Ops!Ids \ {i} : r[j] = records[j],
         r[i].createdAt = records[i].createdAt,
         records' = Ops!Evict(r)
  PROVE  Ops!EvictedWhenFull' /\ Ops!OldestGoFirst'
<1>1. /\ Ops!Finished \in SUBSET Ops!Ids /\ IsFiniteSet(Ops!Finished) /\ Cardinality(Ops!Finished) \in Nat
      /\ Cardinality(Ops!Finished) <= MaxRetained /\ MaxRetained \in Nat
  BY IdsCount, OpsTypes, SameCountOps DEF Ops!OpsInv, Ops!OldestGoFirst, Ops!Finished
<1>2. i \notin Ops!Finished /\ s # "evicted"
  BY DEF Ops!Finished, Ops!Live, Ops!Terminal
<1>3. EndedIn(r) = Ops!Finished \cup {i}
  BY DEF EndedIn, Ops!Finished
<1>4. Cardinality(EndedIn(r)) = Cardinality(Ops!Finished) + 1
  BY <1>1, <1>2, <1>3, FS_AddElement
<1>5. \A j, k \in Ops!Ids : /\ Ops!Older(r, j, k) <=> Ops!Older(records, j, k)
                            /\ Ops!Older(records', j, k) <=> Ops!Older(r, j, k)
  <2>1. \A j \in Ops!Ids : r[j].createdAt = records[j].createdAt /\ records'[j].createdAt = r[j].createdAt
    BY EvictTouches
  <2> QED
    BY <2>1 DEF Ops!Older
<1>6. \A j \in Ops!Ids : r[j].state = "evicted" => records[j].state = "evicted" /\ j # i
  BY <1>2
<1>7. CASE Cardinality(EndedIn(r)) <= MaxRetained /\ Ops!Evict(r) = r
  <2>1. \A j \in Ops!Ids : records'[j].state # "evicted"
    <3>1. Cardinality(Ops!Finished) # MaxRetained
      BY <1>1, <1>4, <1>7
    <3>2. \A j \in Ops!Ids : records[j].state # "evicted"
      BY <3>1, SameCountOps DEF Ops!OpsInv, Ops!EvictedWhenFull
    <3> QED
      BY <1>6, <1>7, <3>2
  <2>2. Cardinality(Ops!Finished') <= MaxRetained
    BY <1>7 DEF EndedIn, Ops!Finished
  <2> QED
    BY <2>1, <2>2, SameCountOps DEF Ops!EvictedWhenFull, Ops!OldestGoFirst, Ops!Finished
<1>8. ASSUME NEW m \in EndedIn(r),
             \A j \in EndedIn(r) \ {m} : Ops!Older(r, m, j),
             EndedIn(Ops!Evict(r)) = EndedIn(r) \ {m},
             Cardinality(EndedIn(Ops!Evict(r))) = MaxRetained,
             \A j \in Ops!Ids : Ops!Evict(r)[j].state = "evicted" => j = m \/ r[j].state = "evicted"
      PROVE  Ops!EvictedWhenFull' /\ Ops!OldestGoFirst'
  <2>1. Ops!Finished' = EndedIn(r) \ {m} /\ Cardinality(Ops!Finished') = MaxRetained
    <3>1. Ops!Finished' = EndedIn(Ops!Evict(r))
      BY DEF EndedIn, Ops!Finished
    <3> QED
      BY <1>8, <3>1
  <2>2. ASSUME NEW j \in Ops!Ids, NEW k \in Ops!Finished', records'[j].state = "evicted"
        PROVE  Ops!Older(records', j, k)
    <3>1. k \in EndedIn(r) \ {m} /\ k \in Ops!Ids /\ m \in Ops!Ids /\ Ops!Older(r, m, k)
      BY <1>8, <2>1, <2>2 DEF EndedIn
    <3>2. CASE j = m
      BY <1>5, <3>1, <3>2
    <3>3. CASE j # m
      <4>1. records[j].state = "evicted"
        BY <1>6, <1>8, <2>2, <3>3
      <4>2. \A l \in Ops!Finished : l \in Ops!Ids /\ Ops!Older(r, j, l)
        BY <1>5, <4>1 DEF Ops!OpsInv, Ops!OldestGoFirst, Ops!Finished
      <4>3. CASE k \in Ops!Finished
        BY <1>5, <3>1, <4>2, <4>3
      <4>4. CASE k = i
        <5>1. m \in Ops!Finished
          BY <1>3, <1>8, <3>1, <4>4
        <5>2. Ops!Older(r, j, m)
          BY <4>2, <5>1
        <5> QED
          BY <1>5, <2>2, <3>1, <5>2, OlderIsTotal
      <4> QED
        BY <1>3, <3>1, <4>3, <4>4
    <3> QED
      BY <3>2, <3>3
  <2>3. Ops!EvictedWhenFull'
    BY <2>1, SameCountOps DEF Ops!EvictedWhenFull
  <2>4. \A j, k \in Ops!Ids : records'[j].state = "evicted" /\ records'[k].state \in Ops!Terminal
          => Ops!Older(records', j, k)
    BY <2>2 DEF Ops!Finished
  <2>5. Cardinality({j \in Ops!Ids : records'[j].state \in Ops!Terminal}) <= MaxRetained
    BY <1>1, <2>1 DEF Ops!Finished
  <2>6. Ops!OldestGoFirst'
    BY <2>4, <2>5, SameCountOps DEF Ops!OldestGoFirst, Ops!Older
  <2> QED
    BY <2>3, <2>6
<1> QED
  <2>1. Cardinality(EndedIn(r)) <= MaxRetained + 1
    BY <1>1, <1>4
  <2>2. \/ Cardinality(EndedIn(r)) <= MaxRetained /\ Ops!Evict(r) = r
        \/ \E m \in EndedIn(r) :
             /\ \A j \in EndedIn(r) \ {m} : Ops!Older(r, m, j)
             /\ EndedIn(Ops!Evict(r)) = EndedIn(r) \ {m}
             /\ Cardinality(EndedIn(Ops!Evict(r))) = MaxRetained
             /\ \A j \in Ops!Ids : Ops!Evict(r)[j].state = "evicted" => j = m \/ r[j].state = "evicted"
    BY <2>1, EvictDropsOldest
  <2> QED
    BY <1>7, <1>8, <2>2, Zenon

\* update() to a terminal state: the waits hear of it, then the store evicts.
LEMMA FinishKeeps ==
  ASSUME Ops!OpsInv, NEW i \in Ops!Ids, NEW s \in Ops!Terminal, Ops!Finish(i, s)
  PROVE  Ops!OpsInv'
<1> DEFINE r == [records EXCEPT ![i].state = s]
           state == [w \in Calls |-> s]
           S == listeners[i]
<1>1. /\ records[i].state \in Ops!Live /\ Ops!Complete(listeners[i], "terminal", state)
      /\ listeners' = [listeners EXCEPT ![i] = {}]
      /\ records' = Ops!Evict(r) /\ sequence' = sequence /\ activeRequests' = activeRequests
      /\ signal' = signal /\ reasons' = reasons /\ registry' = registry /\ disposed' = disposed
  BY DEF Ops!Finish, Ops!Ended, Ops!page
<1>2. /\ r \in Records /\ r[i].state = s /\ r[i].createdAt = records[i].createdAt
      /\ \A j \in Ops!Ids \ {i} : r[j] = records[j]
  BY OpsTypes DEF Records
<1> HIDE DEF r
<1>3. /\ S \in SUBSET Calls /\ S \in SUBSET Ops!Pending /\ S \cap Ops!Pending = S
      /\ \A w \in Ops!Pending : w \in S <=> calls[w].op = i
      /\ \A j \in Ops!Ids \ {i} : listeners[j] = listeners[j] \ S
  <2>1. \A j \in Ops!Ids : \A w \in listeners[j] : w \in Ops!Pending /\ calls[w].op = j
    BY DEF Ops!OpsInv, Ops!ListenersWait
  <2>2. \A w \in Ops!Pending : w \in listeners[calls[w].op]
    BY DEF Ops!OpsInv, Ops!NoLostCompletion
  <2>3. S \in SUBSET Calls /\ S \in SUBSET Ops!Pending
    BY <2>1, OpsTypes
  <2>4. \A w \in Ops!Pending : w \in S <=> calls[w].op = i
    BY <2>1, <2>2
  <2>5. \A j \in Ops!Ids \ {i} : listeners[j] = listeners[j] \ S
    BY <2>1
  <2> QED
    BY <2>3, <2>4, <2>5
<1>4. \A w \in S : state[w] = s /\ s \in Ops!Live \cup Ops!Terminal
  BY <1>3
<1> HIDE DEF S, state
<1>5. Released(S, "terminal", state)
  BY <1>1, <1>3, <1>4, CompleteReleases DEF S
<1>6. /\ listeners' \in [Ops!Ids -> SUBSET Calls]
      /\ \A j \in Ops!Ids : listeners'[j] = listeners[j] \ S
  <2>1. \A j \in Ops!Ids : listeners'[j] = listeners[j] \ S
    BY <1>1, <1>3, OpsTypes DEF S
  <2> QED
    BY <1>1, <2>1, OpsTypes
<1>7. /\ Ops!SlotsMatchWaits' /\ Ops!ListenersWait' /\ Ops!WaitsAreCurrent' /\ Ops!QuietWhenAway'
      /\ \A w \in Ops!Pending' : w \in listeners'[calls'[w].op]
  BY <1>1, <1>3, <1>5, <1>6, ReleaseKeeps
<1>8. /\ records' \in Records
      /\ \A j \in Ops!Ids : /\ records'[j].state \in {r[j].state, "evicted"}
                            /\ r[j].state \notin Ops!Terminal => records'[j] = r[j]
  BY <1>1, <1>2, EvictTouches
<1>9. "none" \notin Ops!Terminal /\ \A x \in Ops!Live : x \notin Ops!Terminal \cup Ops!Gone
  BY DEF Ops!Terminal, Ops!Live, Ops!Gone
<1>10. Ops!NoLostCompletion' /\ Ops!EndsAreTold' /\ Ops!AnswerIsTruth'
  <2>1. \A j \in Ops!Ids : records[j].state \in Ops!Terminal \cup Ops!Gone =>
           records'[j].state \in {records[j].state, "evicted"}
    BY <1>1, <1>2, <1>8, <1>9
  <2>2. \A w \in Ops!Pending \ S : records'[calls[w].op].state \in Ops!Live
    <3>1. \A w \in Ops!Pending \ S : calls[w].op \in Ops!Ids \ {i} /\ records[calls[w].op].state \in Ops!Live
      BY <1>3 DEF Ops!OpsInv, Ops!NoLostCompletion, Ops!WaitsAreCurrent
    <3> QED
      BY <1>2, <1>8, <1>9, <3>1
  <2>3. \A w \in S : /\ state[w] \in Ops!Terminal
                     /\ records'[calls[w].op].state \in {state[w], "evicted"}
    BY <1>2, <1>3, <1>4, <1>8
  <2> QED
    BY <1>3, <1>5, <1>7, <1>8, <2>1, <2>2, <2>3, TruthKept
<1>11. Ops!CreatedInOrder'
  <2>1. \A j \in Ops!Ids : j > sequence => j # i /\ records[j].state = "none"
    BY <1>1, <1>9 DEF Ops!OpsInv, Ops!CreatedInOrder, Ops!Gone
  <2> QED
    BY <1>1, <1>2, <1>8, <1>9, <2>1 DEF Ops!CreatedInOrder
<1>12. Ops!TypeOK'
  BY <1>1, <1>5, <1>6, <1>8, OpsTypes DEF Ops!TypeOK, Released, Records, CallRecords
<1>13. Ops!EvictedWhenFull' /\ Ops!OldestGoFirst'
  BY <1>1, <1>2, EndingEvicts
<1> QED
  BY <1>7, <1>10, <1>11, <1>12, <1>13 DEF Ops!OpsInv

\* Two fields of a call, changed.
LEMMA TwoFields ==
  ASSUME NEW o \in CallRecords, NEW stage \in {"idle", "pending", "settled", "answered"},
         NEW told \in Ops!Told
  PROVE  [[o EXCEPT !.stage = stage] EXCEPT !.told = told] =
           [stage |-> stage, op |-> o.op, signal |-> o.signal, told |-> told]
<1> DEFINE Stages == {"idle", "pending", "settled", "answered"}
           Ends == Ops!Ids \cup {0}
           Signals == 1..MaxAborts
           R == [stage : Stages, op : Ends, signal : Signals, told : Ops!Told]
<1>0. o \in R /\ stage \in Stages
  BY DEF CallRecords
<1> HIDE DEF Stages, Ends, Signals
<1>1. [o EXCEPT !.stage = stage] \in R
  BY <1>0
<1>2. [[o EXCEPT !.stage = stage] EXCEPT !.told = told] \in R
  BY <1>1
<1>3. [stage |-> stage, op |-> o.op, signal |-> o.signal, told |-> told] \in R
  BY <1>0
<1>4. \A p, q \in R :
        p.stage = q.stage /\ p.op = q.op /\ p.signal = q.signal /\ p.told = q.told => p = q
  OBVIOUS
<1> QED
  BY <1>0, <1>1, <1>2, <1>3, <1>4

\* A call that is refused, in the turn that made it or through the awaits.
LEMMA RefuseKeeps ==
  ASSUME Ops!OpsInv, NEW w \in Calls, NEW code, calls[w].stage = "idle",
         [kind |-> "refused", state |-> code] \in Ops!Told,
         Ops!Refuse(w, code) \/ Ops!SettleRefused(w, code)
  PROVE  Ops!OpsInv'
<1> DEFINE told == [kind |-> "refused", state |-> code]
           c(stage) == [stage |-> stage, op |-> calls[w].op, signal |-> calls[w].signal, told |-> told]
<1>1. calls[w] \in CallRecords /\ told \in Ops!Told /\ told.kind = "refused"
  BY OpsTypes
<1>2. ASSUME NEW stage \in {"settled", "answered"},
             calls' = [calls EXCEPT ![w].stage = stage, ![w].told = told]
      PROVE  /\ calls' = [calls EXCEPT ![w] = c(stage)] /\ c(stage) \in CallRecords
             /\ c(stage).stage = stage /\ c(stage).told = told
  <2>1. [[calls[w] EXCEPT !.stage = stage] EXCEPT !.told = told] = c(stage)
    <3>1. stage \in {"idle", "pending", "settled", "answered"}
      OBVIOUS
    <3> QED
      BY <1>1, <3>1, TwoFields, Zenon DEF c
  <2>2. c(stage) \in CallRecords
    BY <1>1 DEF CallRecords
  <2> HIDE DEF told
  <2>3. calls' = [calls EXCEPT ![w] = [[calls[w] EXCEPT !.stage = stage] EXCEPT !.told = told]]
    BY <1>2, OpsTypes
  <2> QED
    BY <2>1, <2>2, <2>3
<1> HIDE DEF c, told
<1>3. CASE Ops!Refuse(w, code)
  <2>1. /\ calls' = [calls EXCEPT ![w].stage = "answered", ![w].told = told]
        /\ sequence' = sequence /\ records' = records /\ listeners' = listeners
        /\ activeWaits' = activeWaits /\ signal' = signal /\ reasons' = reasons
        /\ registry' = registry /\ disposed' = disposed /\ activeRequests' = activeRequests
    BY <1>3 DEF Ops!Refuse, Ops!page, told
  <2>2. /\ calls' = [calls EXCEPT ![w] = c("answered")] /\ c("answered") \in CallRecords
        /\ c("answered").stage = "answered" /\ c("answered").told.kind = "refused"
    BY <1>1, <1>2, <2>1
  <2> QED
    BY <2>1, <2>2, CallMovesKeeps
<1>4. CASE Ops!SettleRefused(w, code)
  <2>1. /\ calls' = [calls EXCEPT ![w].stage = "settled", ![w].told = told]
        /\ sequence' = sequence /\ records' = records /\ listeners' = listeners
        /\ activeWaits' = activeWaits /\ signal' = signal /\ reasons' = reasons
        /\ registry' = registry /\ disposed' = disposed /\ activeRequests' = activeRequests + 1
    BY <1>4 DEF Ops!SettleRefused, Ops!page, told
  <2>2. /\ calls' = [calls EXCEPT ![w] = c("settled")] /\ c("settled") \in CallRecords
        /\ c("settled").stage = "settled" /\ c("settled").told.kind = "refused"
    BY <1>1, <1>2, <2>1
  <2> QED
    BY <2>1, <2>2, CallMovesKeeps
<1> QED
  BY <1>3, <1>4

\* The refusals of the gate, the tools, the controller and the store.
LEMMA RefusalsKeep ==
  ASSUME Ops!OpsInv, NEW w \in Calls,
         \/ Ops!CallRefusedAtGate(w)
         \/ \E code \in {"UNKNOWN_TOOL", "INPUT_TOO_LARGE", "INVALID_ARGUMENT"} :
              Ops!CallRefusedForInput(w, code)
         \/ Ops!CallRefusedByController(w)
         \/ \E port \in Ops!AllPorts : Ops!CallPort(w, port)
         \/ \E i \in 1..(MaxOps + 1) : Ops!CallRefusedByStore(w, i)
         \/ \E i \in Ops!Ids : Ops!CallRefusedAtLimit(w, i)
  PROVE  Ops!OpsInv'
<1> DEFINE codes == {"PAGE_SUSPENDED", "PAGE_DISPOSED", "UNKNOWN_TOOL", "INPUT_TOO_LARGE",
                     "INVALID_ARGUMENT", "OPERATION_EXPIRED", "OPERATION_NOT_FOUND", "WAIT_LIMIT",
                     "PORT_ANSWER", "NOT_READY"}
<1>1. \A code \in codes : [kind |-> "refused", state |-> code] \in Ops!Told
  BY DEF Ops!Told, Ops!Codes
<1>2. calls[w].stage = "idle" /\ \E code \in codes : Ops!Refuse(w, code) \/ Ops!SettleRefused(w, code)
  <2>1. CASE Ops!CallRefusedAtGate(w)
    BY <2>1 DEF Ops!CallRefusedAtGate
  <2>2. CASE \E code \in {"UNKNOWN_TOOL", "INPUT_TOO_LARGE", "INVALID_ARGUMENT"} :
               Ops!CallRefusedForInput(w, code)
    BY <2>2 DEF Ops!CallRefusedForInput
  <2>3. CASE \E code \in codes : Ops!SettleRefused(w, code)
    BY <2>3 DEF Ops!SettleRefused
  <2>4. CASE Ops!CallRefusedByController(w)
    BY <2>3, <2>4 DEF Ops!CallRefusedByController
  <2>5. CASE \E port \in Ops!AllPorts : Ops!CallPort(w, port)
    BY <2>3, <2>5 DEF Ops!CallPort
  <2>6. CASE \E i \in 1..(MaxOps + 1) : Ops!CallRefusedByStore(w, i)
    BY <2>3, <2>6 DEF Ops!CallRefusedByStore
  <2>7. CASE \E i \in Ops!Ids : Ops!CallRefusedAtLimit(w, i)
    BY <2>3, <2>7 DEF Ops!CallRefusedAtLimit
  <2> QED
    BY <2>1, <2>2, <2>4, <2>5, <2>6, <2>7
<1> HIDE DEF codes
<1> QED
  BY <1>1, <1>2, RefuseKeeps

\* A wait that is over before it takes a slot.
LEMMA CallOverKeeps ==
  ASSUME Ops!OpsInv, NEW w \in Calls, NEW i \in Ops!Ids, NEW zero \in BOOLEAN, Ops!CallOver(w, i, zero)
  PROVE  Ops!OpsInv'
<1> DEFINE kind == IF records[i].state \in Ops!Terminal THEN "terminal" ELSE "timed_out"
           told == [kind |-> kind, state |-> records[i].state]
           c == [stage |-> "settled", op |-> i, signal |-> signal, told |-> told]
<1>1. /\ calls[w].stage = "idle" /\ calls' = [calls EXCEPT ![w] = c]
      /\ sequence' = sequence /\ records' = records /\ listeners' = listeners
      /\ activeWaits' = activeWaits /\ signal' = signal /\ reasons' = reasons
      /\ registry' = registry /\ disposed' = disposed /\ activeRequests' = activeRequests + 1
  BY DEF Ops!CallOver, Ops!page
<1>2. records[i].state \in Ops!Live \cup Ops!Terminal
  BY OpsTypes DEF Ops!CallOver, Ops!Lookup, Records
<1>3. told \in Ops!Told /\ told.kind = kind /\ told.state = records[i].state
  BY <1>2 DEF Ops!Told
<1>4. kind = "terminal" => records[i].state \in Ops!Terminal
  OBVIOUS
<1>5. kind \in {"timed_out", "cancelled"} => records[i].state \in Ops!Live
  BY <1>2
<1> HIDE DEF kind, told
<1>6. c \in CallRecords /\ c.stage = "settled" /\ c.op = i /\ c.told = told
  BY <1>3, OpsTypes DEF CallRecords
<1> HIDE DEF c
<1>7. c.told.kind = "terminal" => /\ c.op \in Ops!Ids /\ c.told.state \in Ops!Terminal
                                  /\ records[c.op].state \in {c.told.state, "evicted"}
  BY <1>3, <1>4, <1>6
<1>8. c.told.kind \in {"timed_out", "cancelled"} => c.told.state \in Ops!Live
  BY <1>3, <1>5, <1>6
<1> QED
  BY <1>1, <1>6, <1>7, <1>8, CallMovesKeeps

\* The continuation of a call.
LEMMA AnswerKeeps ==
  ASSUME Ops!OpsInv, NEW w \in Calls, Ops!Answer(w)
  PROVE  Ops!OpsInv'
<1> DEFINE code == [kind |-> "refused", state |-> reasons[calls[w].signal]]
           told == IF calls[w].told.kind = "cancelled" THEN code ELSE calls[w].told
           c == [stage |-> "answered", op |-> calls[w].op, signal |-> calls[w].signal, told |-> told]
<1>0. calls[w] \in CallRecords /\ calls[w].signal \in 1..MaxAborts /\ calls[w].told \in Ops!Told
  BY OpsTypes DEF CallRecords
<1>1. reasons[calls[w].signal] \in Ops!Codes \cup {"none"}
  BY <1>0, OpsTypes
<1>2. code \in Ops!Told /\ code.kind = "refused"
  BY <1>1 DEF Ops!Told, Ops!Codes
<1>3. /\ told \in Ops!Told
      /\ told = calls[w].told \/ told.kind = "refused"
      /\ told.kind # "cancelled"
  BY <1>0, <1>2
<1>4. /\ calls[w].stage = "settled"
      /\ calls' = [calls EXCEPT ![w].stage = "answered", ![w].told = told]
      /\ sequence' = sequence /\ records' = records /\ listeners' = listeners
      /\ activeWaits' = activeWaits /\ signal' = signal /\ reasons' = reasons
      /\ registry' = registry /\ disposed' = disposed /\ activeRequests' = activeRequests - 1
  <2>1. calls' = [calls EXCEPT ![w].stage = "answered",
          ![w].told = IF calls[w].told.kind = "cancelled" THEN code ELSE calls[w].told]
    BY <1>0, OpsTypes DEF Ops!Answer
  <2> QED
    BY <2>1 DEF Ops!Answer, Ops!page
<1> HIDE DEF code, told
<1>5. /\ calls' = [calls EXCEPT ![w] = c] /\ c \in CallRecords
      /\ c.stage = "answered" /\ c.told = told /\ c.op = calls[w].op
  <2>1. [[calls[w] EXCEPT !.stage = "answered"] EXCEPT !.told = told] = c
    BY <1>0, <1>3, TwoFields, Zenon
  <2>2. c \in CallRecords /\ c.stage = "answered" /\ c.told = told /\ c.op = calls[w].op
    BY <1>0, <1>3 DEF CallRecords
  <2>3. calls' = [calls EXCEPT ![w] = [[calls[w] EXCEPT !.stage = "answered"] EXCEPT !.told = told]]
    BY <1>4, OpsTypes
  <2> QED
    BY <2>1, <2>2, <2>3
<1> HIDE DEF c
<1>6. /\ calls[w].told.kind = "terminal" =>
           /\ calls[w].op \in Ops!Ids /\ calls[w].told.state \in Ops!Terminal
           /\ records[calls[w].op].state \in {calls[w].told.state, "evicted"}
      /\ calls[w].told.kind \in {"timed_out", "cancelled"} => calls[w].told.state \in Ops!Live
  BY DEF Ops!OpsInv, Ops!EndsAreTold, Ops!AnswerIsTruth
<1>7. c.told.kind = "terminal" => /\ c.op \in Ops!Ids /\ c.told.state \in Ops!Terminal
                                  /\ records[c.op].state \in {c.told.state, "evicted"}
  BY <1>3, <1>5, <1>6
<1>8. c.told.kind \in {"timed_out", "cancelled"} => c.told.state \in Ops!Live
  BY <1>3, <1>5, <1>6
<1> QED
  BY <1>4, <1>5, <1>7, <1>8, CallMovesKeeps

\* A wait that takes a slot.
LEMMA CallWaitsKeeps ==
  ASSUME Ops!OpsInv, NEW w \in Calls, NEW i \in Ops!Ids, Ops!CallWaits(w, i)
  PROVE  Ops!OpsInv'
<1> DEFINE told == [kind |-> "none", state |-> records[i].state]
           c == [stage |-> "pending", op |-> i, signal |-> signal, told |-> told]
<1>1. /\ calls[w].stage = "idle" /\ registry = "active" /\ records[i].state \in Ops!Live
      /\ activeWaits < MaxWaits /\ activeWaits' = activeWaits + 1
      /\ listeners' = [listeners EXCEPT ![i] = @ \cup {w}]
      /\ calls' = [calls EXCEPT ![w] = c] /\ activeRequests' = activeRequests + 1
      /\ sequence' = sequence /\ records' = records /\ signal' = signal /\ reasons' = reasons
      /\ registry' = registry /\ disposed' = disposed
  BY DEF Ops!CallWaits, Ops!page
<1>2. told \in Ops!Told /\ told.kind = "none"
  BY <1>1 DEF Ops!Told
<1> HIDE DEF told
<1>3. c \in CallRecords /\ c.stage = "pending" /\ c.op = i /\ c.signal = signal /\ c.told = told
  BY <1>2, OpsTypes DEF CallRecords
<1> HIDE DEF c
<1>4. /\ calls' \in [Calls -> CallRecords] /\ calls'[w] = c /\ \A v \in Calls \ {w} : calls'[v] = calls[v]
      /\ listeners' \in [Ops!Ids -> SUBSET Calls] /\ listeners'[i] = listeners[i] \cup {w}
      /\ \A j \in Ops!Ids \ {i} : listeners'[j] = listeners[j]
  BY <1>1, <1>3, OpsTypes
<1>5. /\ Ops!Pending' = Ops!Pending \cup {w} /\ w \notin Ops!Pending
      /\ \A v \in Ops!Pending : calls'[v] = calls[v] /\ v \in Calls
  BY <1>1, <1>3, <1>4 DEF Ops!Pending
<1>6. InFlight' = InFlight \cup {w} /\ w \notin InFlight
  BY <1>1, <1>3, <1>4 DEF InFlight
<1>7. /\ activeWaits' = Cardinality(Ops!Pending') /\ activeWaits' <= MaxWaits /\ activeWaits' \in Nat
      /\ activeRequests' = Cardinality(InFlight') /\ activeRequests' \in Nat
  <2>1. /\ IsFiniteSet(InFlight) /\ activeRequests = Cardinality(InFlight) /\ activeRequests \in Nat
        /\ IsFiniteSet(Ops!Pending) /\ activeWaits = Cardinality(Ops!Pending) /\ activeWaits \in Nat
    BY OperationsAssumption, FS_Subset, OpsTypes, SameCountOps
    DEF Ops!OpsInv, Ops!SlotsMatchWaits, InFlight
  <2>2. Cardinality(Ops!Pending \cup {w}) = Cardinality(Ops!Pending) + 1
    BY <1>5, <2>1, FS_AddElement
  <2>3. Cardinality(InFlight \cup {w}) = Cardinality(InFlight) + 1
    BY <1>6, <2>1, FS_AddElement
  <2>4. Cardinality(Ops!Pending') = Cardinality(Ops!Pending) + 1
    BY <1>5, <2>2
  <2>5. Cardinality(InFlight') = Cardinality(InFlight) + 1
    BY <1>6, <2>3
  <2> QED
    BY <1>1, <2>1, <2>4, <2>5, OpsTypes
<1>8. Ops!TypeOK'
  BY <1>1, <1>4, <1>7, OpsTypes DEF Ops!TypeOK, Records, CallRecords
<1>9. Ops!SlotsMatchWaits'
  BY <1>7, SameCountOps DEF Ops!SlotsMatchWaits, InFlight
<1>10. Ops!ListenersWait'
  BY <1>3, <1>4, <1>5 DEF Ops!OpsInv, Ops!ListenersWait
<1>11. Ops!WaitsAreCurrent'
  BY <1>1, <1>3, <1>4, <1>5 DEF Ops!OpsInv, Ops!WaitsAreCurrent
<1>12. Ops!NoLostCompletion'
  <2>1. \A v \in Ops!Pending : /\ calls[v].op \in Ops!Ids /\ records[calls[v].op].state \in Ops!Live
                               /\ v \in listeners[calls[v].op]
    BY DEF Ops!OpsInv, Ops!NoLostCompletion, Ops!WaitsAreCurrent
  <2>2. \A v \in Ops!Pending' : /\ records'[calls'[v].op].state \in Ops!Live
                                /\ v \in listeners'[calls'[v].op]
    BY <1>1, <1>3, <1>4, <1>5, <2>1
  <2> QED
    BY <2>2 DEF Ops!NoLostCompletion
<1>13. Ops!QuietWhenAway'
  BY <1>1 DEF Ops!QuietWhenAway
<1>14. Ops!EndsAreTold' /\ Ops!AnswerIsTruth'
  <2>1. \A v \in Calls : \/ calls'[v].told = calls[v].told /\ calls'[v].op = calls[v].op
                         \/ calls'[v].told.kind = "none"
    BY <1>2, <1>3, <1>4
  <2> QED
    BY <1>1, <2>1 DEF Ops!OpsInv, Ops!EndsAreTold, Ops!AnswerIsTruth
<1> QED
  BY <1>1, <1>8, <1>9, <1>10, <1>11, <1>12, <1>13, <1>14, SameRecords DEF Ops!OpsInv

\* A page that has just been opened.
LEMMA OpsBegin ==
  ASSUME Ops!Init
  PROVE  Ops!OpsInv
<1>1. /\ sequence = 0 /\ records = [i \in Ops!Ids |-> [state |-> "none", createdAt |-> 0]]
      /\ listeners = [i \in Ops!Ids |-> {}] /\ activeWaits = 0
      /\ calls = [w \in Calls |-> [stage |-> "idle", op |-> 0, signal |-> 1, told |-> Ops!NoReply]]
      /\ signal = 1 /\ reasons = [g \in 1..MaxAborts |-> "none"] /\ registry = "active"
      /\ disposed = FALSE /\ activeRequests = 0
  BY DEF Ops!Init
<1>2. /\ MaxOps \in Nat /\ MaxRetained \in Nat /\ MaxWaits \in Nat /\ MaxAborts \in Nat \ {0}
  BY OperationsAssumption
<1>3. Ops!NoReply \in Ops!Told /\ Ops!NoReply.kind = "none" /\ "none" \notin Ops!Terminal
  BY DEF Ops!NoReply, Ops!Told, Ops!Terminal
<1>4. Ops!Pending = {} /\ InFlight = {} /\ Ops!Finished = {}
  BY <1>1, <1>3 DEF Ops!Pending, InFlight, Ops!Finished
<1>5. Cardinality({}) = 0
  BY FS_EmptySet
<1>6. Ops!TypeOK
  <2>1. records \in Records
    BY <1>1 DEF Records, Ops!Gone
  <2>2. calls \in [Calls -> CallRecords]
    BY <1>1, <1>2, <1>3 DEF CallRecords
  <2>3. reasons \in [1..MaxAborts -> Ops!Codes \cup {"none"}]
    BY <1>1
  <2>4. /\ sequence \in 0..MaxOps /\ listeners \in [Ops!Ids -> SUBSET Calls] /\ activeWaits \in Nat
        /\ signal \in 1..MaxAborts /\ registry \in {"active", "suspended", "disposed"}
        /\ disposed \in BOOLEAN /\ activeRequests \in Nat
    <3>1. listeners \in [Ops!Ids -> SUBSET Calls]
      BY <1>1
    <3>2. sequence \in 0..MaxOps /\ activeWaits \in Nat /\ activeRequests \in Nat
      BY <1>1, <1>2
    <3>3. signal \in 1..MaxAborts
      BY <1>1, <1>2
    <3>4. registry \in {"active", "suspended", "disposed"} /\ disposed \in BOOLEAN
      BY <1>1
    <3> QED
      BY <3>1, <3>2, <3>3, <3>4
  <2> QED
    BY <2>1, <2>2, <2>3, <2>4 DEF Ops!TypeOK, Records, CallRecords
<1>7. Ops!SlotsMatchWaits
  <2>1. Cardinality(Ops!Pending) = 0 /\ Cardinality(InFlight) = 0
    BY <1>4, <1>5
  <2> QED
    BY <1>1, <1>2, <2>1, SameCountOps DEF Ops!SlotsMatchWaits, InFlight
<1>8. Ops!ListenersWait /\ Ops!WaitsAreCurrent /\ Ops!NoLostCompletion /\ Ops!QuietWhenAway
      /\ Ops!CreatedInOrder
  BY <1>1, <1>4
  DEF Ops!ListenersWait, Ops!WaitsAreCurrent, Ops!NoLostCompletion, Ops!QuietWhenAway,
      Ops!CreatedInOrder
<1>9. Ops!EndsAreTold /\ Ops!AnswerIsTruth
  BY <1>1, <1>3 DEF Ops!EndsAreTold, Ops!AnswerIsTruth
<1>10. Ops!EvictedWhenFull /\ Ops!OldestGoFirst
  <2>1. \A i \in Ops!Ids : records[i].state = "none"
    BY <1>1
  <2> QED
    BY <1>2, <1>3, <1>4, <1>5, <2>1, SameCountOps
    DEF Ops!EvictedWhenFull, Ops!OldestGoFirst, Ops!Finished
<1> QED
  BY <1>6, <1>7, <1>8, <1>9, <1>10 DEF Ops!OpsInv

\* A step of the other components is none of this one.
LEMMA OpsStutter ==
  ASSUME Ops!OpsInv, UNCHANGED opsVars
  PROVE  Ops!OpsInv'
<1>1. /\ sequence' = sequence /\ records' = records /\ listeners' = listeners
      /\ activeWaits' = activeWaits /\ calls' = calls /\ signal' = signal /\ reasons' = reasons
      /\ registry' = registry /\ disposed' = disposed /\ activeRequests' = activeRequests
  BY DEF opsVars
<1>2. Ops!Pending' = Ops!Pending
  BY <1>1 DEF Ops!Pending
<1>3. Ops!TypeOK' /\ Ops!QuietWhenAway'
  BY <1>1, <1>2 DEF Ops!OpsInv, Ops!TypeOK, Ops!QuietWhenAway
<1>4. Ops!SlotsMatchWaits' /\ Ops!ListenersWait' /\ Ops!WaitsAreCurrent'
  BY <1>1, <1>2, SameCountOps
  DEF Ops!OpsInv, Ops!SlotsMatchWaits, Ops!ListenersWait, Ops!WaitsAreCurrent
<1>5. Ops!NoLostCompletion' /\ Ops!EndsAreTold' /\ Ops!AnswerIsTruth'
  BY <1>1, <1>2 DEF Ops!OpsInv, Ops!NoLostCompletion, Ops!EndsAreTold, Ops!AnswerIsTruth
<1> QED
  BY <1>1, <1>3, <1>4, <1>5, SameRecords DEF Ops!OpsInv

\* Every turn of the event loop keeps the invariant.
LEMMA OpsKeep ==
  ASSUME Ops!OpsInv, Ops!Next
  PROVE  Ops!OpsInv'
<1>1. CASE Ops!Create
  BY <1>1, CreateKeeps
<1>2. ASSUME NEW i \in Ops!Ids, Ops!Start(i) PROVE Ops!OpsInv'
  BY <1>2, StartKeeps
<1>3. ASSUME NEW i \in Ops!Ids, NEW s \in Finals, Ops!Finish(i, s) PROVE Ops!OpsInv'
  <2>1. s \in Ops!Terminal
    BY OperationsAssumption DEF Ops!Terminal
  <2> QED
    BY <1>3, <2>1, FinishKeeps
<1>4. ASSUME NEW i \in Ops!Ids, Ops!Supersede(i) PROVE Ops!OpsInv'
  <2>1. "superseded" \in Ops!Terminal /\ Ops!Finish(i, "superseded")
    BY <1>4 DEF Ops!Terminal, Ops!Supersede
  <2> QED
    BY <2>1, FinishKeeps
<1>5. ASSUME NEW w \in Calls,
             \/ Ops!CallRefusedAtGate(w)
             \/ \E code \in {"UNKNOWN_TOOL", "INPUT_TOO_LARGE", "INVALID_ARGUMENT"} :
                  Ops!CallRefusedForInput(w, code)
             \/ Ops!CallRefusedByController(w)
             \/ \E port \in Ops!AllPorts : Ops!CallPort(w, port)
             \/ \E i \in 1..(MaxOps + 1) : Ops!CallRefusedByStore(w, i)
             \/ \E i \in Ops!Ids : Ops!CallRefusedAtLimit(w, i)
      PROVE  Ops!OpsInv'
  BY <1>5, RefusalsKeep
<1>6. ASSUME NEW w \in Calls, NEW i \in Ops!Ids, NEW zero \in BOOLEAN, Ops!CallOver(w, i, zero)
      PROVE  Ops!OpsInv'
  BY <1>6, CallOverKeeps
<1>7. ASSUME NEW w \in Calls, NEW i \in Ops!Ids, Ops!CallWaits(w, i) PROVE Ops!OpsInv'
  BY <1>7, CallWaitsKeeps
<1>8. ASSUME NEW w \in Calls, Ops!WaitTimesOut(w) PROVE Ops!OpsInv'
  BY <1>8, WaitTimesOutKeeps
<1>9. ASSUME NEW w \in Calls, Ops!Answer(w) PROVE Ops!OpsInv'
  BY <1>9, AnswerKeeps
<1>10. CASE Ops!PageHide \/ Ops!Dispose
  BY <1>10, PageAwayKeeps
<1>11. CASE Ops!PageShow
  BY <1>11, PageShowKeeps
<1> QED
  BY <1>1, <1>2, <1>3, <1>4, <1>5, <1>6, <1>7, <1>8, <1>9, <1>10, <1>11 DEF Ops!Next

\* The invariant holds whenever the run is one of the operations.
LEMMA OpsHoldAlways == Spec => [](component = "operations" => Ops!OpsInv)
<1> DEFINE Inv == component = "operations" => Ops!OpsInv
<1>1. Init => Inv
  BY OpsBegin DEF Init
<1>2. Inv /\ [Next]_vars => Inv'
  <2> SUFFICES ASSUME Inv, [Next]_vars PROVE Inv'
    OBVIOUS
  <2>1. CASE component = "operations" /\ Ops!Next /\ UNCHANGED component
    BY <2>1, OpsKeep
  <2>2. CASE UNCHANGED opsVars /\ UNCHANGED component
    BY <2>2, OpsStutter
  <2>3. CASE component # "operations" /\ UNCHANGED component
    BY <2>3
  <2> QED
    BY <2>1, <2>2, <2>3 DEF Next, vars
<1> QED
  BY <1>1, <1>2, PTL DEF Spec

\* However operations end, calls wait and the page comes and goes: the counters behind the
\* limits count the calls in flight, a wait hears of the end of its operation in the turn it
\* ends, a page that is away holds no wait, what an agent was told is what is on record, and
\* the operations dropped are the oldest (OperationStore, PlaygroundControllerImpl.wait).
THEOREM AgentsHearOfTheEnd == Spec => []WaitsAreKept
<1>1. (component = "operations" => Ops!OpsInv) => WaitsAreKept
  BY DEF Ops!OpsInv, WaitsAreKept, Ops!WaitsAreKept
<1> QED
  BY <1>1, OpsHoldAlways, PTL

=============================================================================
