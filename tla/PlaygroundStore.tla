-------------------------- MODULE PlaygroundStore --------------------------
(***************************************************************************)
(* What the playground remembers (utils/playground-store.ts): one envelope *)
(* in memory, written to one key of the origin's storage after a pause or  *)
(* when the page is hidden, and read again by the next load. The reader    *)
(* edits, forks, makes, copies and removes projects; the storage fills up, *)
(* fails, and is emptied or garbled by others.                             *)
(* A source and the images are their sizes; a project is created and       *)
(* edited at a time, and two edits may fall into the same millisecond.     *)
(***************************************************************************)
EXTENDS Naturals, Sequences, SequencesExt, FiniteSets

CONSTANTS
  MaxScratch,      \* MAX_SCRATCH
  MaxSource,       \* MAX_SOURCE_BYTES
  MaxEnvelope,     \* MAX_ENVELOPE_BYTES
  Rooms,           \* what the origin's quota may leave for the key
  Images,          \* bound: the sizes the images may have together, 0 among them
  MaxEdits         \* bound: edits

VARIABLES
  env,      \* scratch: projects in list order; active; images: their size
  over,     \* what the editor holds is over the cap, and not in memory's envelope
  dirty,    \* history: memory has what the key may not have
  timer,    \* a write is scheduled
  enabled,  \* persistence is on
  disk,     \* what the key holds: an envelope, "none" or "garbled"
  room, broken,  \* the storage: what fits, and whether it throws
  edits,    \* edits so far; the clock
  notes     \* what the reader was told by the last step

storage == <<room, broken>>
vars == <<env, over, dirty, timer, enabled, disk, storage, edits, notes>>

NoDisk  == [kind |-> "none"]
Garbled == [kind |-> "garbled"]
OnDisk(e) == [kind |-> "envelope", env |-> e]

Example == 0              \* a shipped circuit; projects of the reader's have ids above
now == edits \div 2

defaultEnvelope == [scratch |-> <<>>, active |-> Example, images |-> 0]

Ids(list) == {list[i].id : i \in DOMAIN list}
Project(id, size) == [id |-> id, size |-> size, updatedAt |-> now]

\* The bytes of the sources, each a project and a place in its source.
Places(list) == UNION {{i} \X (1..list[i].size) : i \in DOMAIN list}
Bytes(e) == e.images + Cardinality(Places(e.scratch))

\* The elements of the list at the places of I, in the order that R is.
Arranged(list, I, R) ==
  [k \in 1..Cardinality(I) |-> list[CHOOSE i \in I : Cardinality({j \in I : <<j, i>> \in R}) = k - 1]]

\* Those of a list that are there, as they are in it.
Picked(list, I) == Arranged(list, I, {p \in I \X I : p[1] < p[2]})

Init ==
  /\ env = defaultEnvelope /\ over = FALSE /\ dirty = FALSE /\ timer = FALSE /\ enabled = TRUE
  /\ disk = NoDisk /\ room \in Rooms /\ broken = FALSE /\ edits = 0 /\ notes = {}

-----------------------------------------------------------------------------
(* Eviction.                                                               *)

Others(list, keep) == {i \in DOMAIN list : list[i].id # keep}

\* The least recently updated goes first, and of several the first in the list.
GoesBefore(list, i, j) == list[i].updatedAt < list[j].updatedAt \/ (list[i].updatedAt = list[j].updatedAt /\ i < j)

\* The list after n evictions.
Without(list, keep, n) ==
  LET others == Others(list, keep)
      rank(i) == Cardinality({j \in others : GoesBefore(list, j, i)})
  IN Picked(list, {i \in DOMAIN list : i \notin others \/ rank(i) >= n})

evictOldest(e, keep) == [e EXCEPT !.scratch = Without(@, keep, 1)]

\* A list that grew by one project is trimmed by one.
trimToMax(list, keep) == IF Len(list) > MaxScratch THEN Without(list, keep, 1) ELSE list

Sources(e) == [e EXCEPT !.images = 0]

\* Projects go until the sources fit; the images are not counted.
TrimToFit(e) ==
  LET after(n) == [e EXCEPT !.scratch = Without(@, e.active, n)]
      enough   == {n \in 0..Len(e.scratch) : Bytes(Sources(after(n))) <= MaxEnvelope}
  IN after(CHOOSE n \in enough : \A m \in enough : n <= m)

\* Images that do not fit beside the sources are left out.
Serialize(e) == IF Bytes(e) > MaxEnvelope THEN Sources(e) ELSE e

-----------------------------------------------------------------------------
(* writeEnvelope(): the envelope left in memory, the key, and the note.    *)

Fits(e) == Bytes(Serialize(e)) <= room
Gone(before, after) == Ids(before.scratch) \ Ids(after.scratch)

Result(ok, e, d, note) == [ok |-> ok, env |-> e, disk |-> d, note |-> note]
Evicted(e) == IF Gone(env, e) = {} THEN {} ELSE {[kind |-> "evicted", names |-> Gone(env, e)]}
Disabled(reason) == {[kind |-> "disabled", reason |-> reason]}

\* Mutant: the images are named first.
SavedNoteImages(e) == IF Serialize(e) # e THEN {[kind |-> "images-skipped"]} ELSE Evicted(e)

SavedNote(e) ==
  IF Evicted(e) # {} THEN Evicted(e)
  ELSE IF Serialize(e) # e THEN {[kind |-> "images-skipped"]} ELSE {}

writeEnvelope ==
  LET trimmed == TrimToFit(env)
      again   == evictOldest(trimmed, env.active)
  IN IF broken THEN Result(FALSE, trimmed, disk, Disabled("unavailable"))
     ELSE IF Fits(trimmed) THEN Result(TRUE, trimmed, OnDisk(Serialize(trimmed)), SavedNote(trimmed))
     ELSE IF again = trimmed THEN Result(FALSE, trimmed, disk, Disabled("quota"))
     ELSE IF Fits(again) THEN Result(TRUE, again, OnDisk(Serialize(again)), Evicted(again))
     ELSE Result(FALSE, again, disk, Disabled("quota"))

DirtyAfter(result) == ~result.ok /\ (dirty \/ result.env # env)

EnabledAfter(result) == result.ok

Write ==
  /\ enabled
  /\ \E result \in {writeEnvelope} :
       /\ env' = result.env /\ disk' = result.disk /\ notes' = result.note
       /\ enabled' = EnabledAfter(result) /\ dirty' = DirtyAfter(result)
  /\ UNCHANGED <<over, storage, edits>>

Fire == timer /\ timer' = FALSE /\ Write

\* The page is hidden or about to go.
Flush == timer' = FALSE /\ Write

-----------------------------------------------------------------------------
(* The reader. update() takes effect in memory at once.                    *)

Update(e) ==
  /\ env' = e
  /\ dirty' = TRUE
  /\ timer' = enabled
  /\ UNCHANGED <<enabled, disk, storage>>

Edits == edits < MaxEdits /\ edits' = edits + 1
NextId == edits + 1

\* createScratch(), for a source that is not over the cap.
Added(size, keep) == trimToMax(Append(env.scratch, Project(NextId, size)), keep)

\* Images go with the project: those of a copy are copies.
Grown == {n \in Images : n >= env.images}

\* touchScratch(): the first project with the id.
Touched(id, size) ==
  [i \in DOMAIN env.scratch |-> IF env.scratch[i].id = id THEN [env.scratch[i] EXCEPT !.size = size, !.updatedAt = now]
                                                          ELSE env.scratch[i]]

Type(size) ==
  /\ env.active # Example /\ size <= MaxSource
  /\ Edits
  /\ Update([env EXCEPT !.scratch = Touched(env.active, size)])
  /\ over' = FALSE /\ notes' = {}

\* The source typed is over the cap: neither touchScratch() nor createScratch()
\* takes it.
TypeOver ==
  /\ Edits
  /\ Update(env)
  /\ over' = TRUE /\ notes' = {}

\* The first edit of a shipped circuit makes it the reader's.
Fork(size) ==
  /\ env.active = Example /\ size <= MaxSource
  /\ Edits
  /\ \E images \in Grown :
       Update([scratch |-> Added(size, Example), active |-> NextId, images |-> images])
  /\ over' = FALSE /\ notes' = {}

NewProject ==
  /\ Edits
  /\ Update([env EXCEPT !.scratch = Added(1, env.active), !.active = NextId])
  /\ over' = FALSE /\ notes' = {}

duplicateScratch(i) ==
  /\ Edits
  /\ \E images \in Grown :
       Update([scratch |-> Added(env.scratch[i].size, NextId), active |-> NextId, images |-> images])
  /\ over' = FALSE /\ notes' = {}

Open(id) ==
  /\ id # env.active
  /\ Update([env EXCEPT !.active = id])
  /\ over' = FALSE /\ notes' = {} /\ UNCHANGED edits

\* The active project's removal opens the default one.
deleteScratch(i) ==
  LET id == env.scratch[i].id IN
  /\ \E images \in {n \in Images : n <= env.images} :
       Update([scratch |-> Picked(env.scratch, DOMAIN env.scratch \ {i}), images |-> images,
               active |-> IF env.active = id THEN Example ELSE env.active])
  /\ over' = (over /\ env.active # id) /\ notes' = {} /\ UNCHANGED edits

SetImages(n) ==
  /\ n # env.images
  /\ Update([env EXCEPT !.images = n])
  /\ notes' = {} /\ UNCHANGED <<over, edits>>

-----------------------------------------------------------------------------
(* The next load: readEnvelope(), normalize() and resolveInitial().        *)

Newer(p, q) == p.updatedAt > q.updatedAt

\* Those of a list at the places of I, newest first; those of one millisecond keep
\* their order.
Sorted(list, I) ==
  Arranged(list, I, {p \in I \X I : \/ Newer(list[p[1]], list[p[2]])
                                    \/ list[p[1]].updatedAt = list[p[2]].updatedAt /\ p[1] < p[2]})

normalize(e) ==
  LET list == Sorted(e.scratch, {i \in DOMAIN e.scratch : e.scratch[i].size <= MaxSource})
      kept == SubSeq(list, 1, IF Len(list) < MaxScratch THEN Len(list) ELSE MaxScratch)
  IN [e EXCEPT !.scratch = kept, !.active = IF @ \in Ids(kept) THEN @ ELSE Example]

readEnvelope ==
  IF broken \/ disk.kind # "envelope" THEN defaultEnvelope ELSE normalize(disk.env)

ReadNote ==
  IF broken THEN Disabled("unavailable")
  ELSE IF disk.kind = "garbled" THEN {[kind |-> "reset"]} ELSE {}

\* Opening what was last open is an update of its own.
Reload ==
  /\ env' = readEnvelope /\ over' = FALSE /\ notes' = ReadNote
  /\ enabled' = ~broken /\ timer' = ~broken
  /\ dirty' = (broken \/ disk.kind # "envelope")
  /\ UNCHANGED <<disk, storage, edits>>

-----------------------------------------------------------------------------
(* The rest of the origin.                                                 *)

StorageChanges ==
  /\ \/ room' \in Rooms \ {room} /\ UNCHANGED <<broken, disk>>
     \/ broken' = ~broken /\ UNCHANGED <<room, disk>>
     \/ ~broken /\ disk' \in {NoDisk, Garbled} \ {disk} /\ UNCHANGED storage
  /\ notes' = {}
  /\ UNCHANGED <<env, over, dirty, timer, enabled, edits>>

Next ==
  \/ \E size \in 1..MaxSource : Type(size) \/ Fork(size)
  \/ TypeOver \/ NewProject
  \/ \E i \in DOMAIN env.scratch : duplicateScratch(i) \/ deleteScratch(i) \/ Open(env.scratch[i].id)
  \/ Open(Example)
  \/ \E n \in Images : SetImages(n)
  \/ Fire \/ Flush \/ Reload
  \/ StorageChanges

\* Timers fire: a write does not stay scheduled.
TimerGoes == timer /\ timer' = FALSE

Spec == Init /\ [][Next]_vars /\ WF_timer(TimerGoes)

-----------------------------------------------------------------------------

EnvelopeOK(e) ==
  /\ Len(e.scratch) <= MaxScratch /\ e.images \in Images
  /\ \A i \in DOMAIN e.scratch : e.scratch[i].size \in 1..MaxSource /\ e.scratch[i].updatedAt <= now
  /\ \A i, j \in DOMAIN e.scratch : e.scratch[i].id = e.scratch[j].id => i = j

TypeOK ==
  /\ EnvelopeOK(env)
  /\ disk.kind \in {"none", "garbled", "envelope"}
  /\ disk.kind = "envelope" => EnvelopeOK(disk.env)
  /\ over \in BOOLEAN /\ timer \in BOOLEAN /\ dirty \in BOOLEAN /\ enabled \in BOOLEAN /\ edits \in 0..MaxEdits

\* Whatever is evicted, to make room for a project or to fit the key, the
\* project the reader is in is there, in memory and on disk.
ActiveIsThere ==
  /\ env.active \in Ids(env.scratch) \cup {Example}
  /\ disk.kind = "envelope" => disk.env.active \in Ids(disk.env.scratch) \cup {Example}

\* What is written keeps to the budget.
DiskFits == disk.kind = "envelope" => Bytes(disk.env) <= MaxEnvelope

\* An eviction takes the project left alone the longest: none that stays was
\* updated before one that goes, but for the active one.
EvictsTheOldest ==
   \A p \in ToSet(env.scratch), q \in ToSet(env'.scratch) :
        /\ (Fire \/ Flush \/ NewProject)
        /\ p.id \notin Ids(env'.scratch)
        => p.updatedAt <= q.updatedAt \/ q.id = env.active

\* A project that had to go is named to the reader, while the session saves.
EvictionIsTold ==
   (Fire \/ Flush) /\ Gone(env, env') # {} /\ enabled' =>
        [kind |-> "evicted", names |-> Gone(env, env')] \in notes'

\* Once everything is written, a reload brings the same projects, and the one
\* that was open; images that did not fit are the only loss.
SavedIsReloaded ==
   Reload /\ ~dirty /\ ~broken /\ disk.kind = "envelope" =>
        /\ ToSet(env'.scratch) = ToSet(env.scratch) /\ env'.active = env.active
        /\ env'.images \in {env.images, 0}

\* Images must never evict source projects (playground-store.ts:436): a
\* project goes only when the sources alone do not fit.
ImagesEvictNothing ==
  [][(Fire \/ Flush) /\ Gone(env, env') # {} =>
       Bytes(Sources(env)) > MaxEnvelope \/ Bytes(Sources(env)) > room]_vars

\* Saving within a budget loses only what has to go, the oldest first and not in
\* silence; what was saved is what a reload shows.
SavingKeeps ==
  TypeOK' /\ ActiveIsThere' /\ DiskFits' /\ EvictsTheOldest /\ EvictionIsTold /\ SavedIsReloaded

-----------------------------------------------------------------------------
(* What makes it inductive.                                                *)

Projects == [id : Nat \ {Example}, size : 1..MaxSource, updatedAt : Nat]

\* A list of projects, each there once, made until t by edits up to the m-th.
Listed(list, t, m) ==
  /\ list \in Seq(Projects)
  /\ \A i \in 1..Len(list) : list[i].id <= m /\ list[i].updatedAt <= t
  /\ \A i, j \in 1..Len(list) : list[i].id = list[j].id => i = j

EnvelopeIs(e, t, m) ==
  /\ e \in [scratch : Seq(Projects), active : Nat, images : Images]
  /\ Listed(e.scratch, t, m) /\ Len(e.scratch) <= MaxScratch
  /\ e.active \in Ids(e.scratch) \cup {Example}

DiskIs(d, t, m) ==
  \/ d \in {NoDisk, Garbled}
  \/ d = OnDisk(d.env) /\ EnvelopeIs(d.env, t, m) /\ Bytes(d.env) <= MaxEnvelope

\* What memory has and the key may not have is known to be so.
CleanIsSaved ==
  ~dirty /\ disk.kind = "envelope" =>
     /\ ToSet(disk.env.scratch) = ToSet(env.scratch) /\ disk.env.active = env.active
     /\ disk.env.images \in {env.images, 0}

StoreInv ==
  /\ EnvelopeIs(env, now, edits) /\ DiskIs(disk, now, edits) /\ CleanIsSaved
  /\ over \in BOOLEAN /\ timer \in BOOLEAN /\ dirty \in BOOLEAN /\ enabled \in BOOLEAN
  /\ broken \in BOOLEAN /\ edits \in 0..MaxEdits
=============================================================================
