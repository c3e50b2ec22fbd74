------------------------------- MODULE Reads -------------------------------
(***************************************************************************)
(* Revisions and the reads that are bound to them: RevisionTracker         *)
(* (scripts/playground-revisions.ts) observes two projects of one file     *)
(* each whenever the page refreshes its snapshot, and an agent lists the   *)
(* projects and reads a file piece by piece (scripts/playground-reads.ts)  *)
(* while they are edited. A body is a sequence of code units.              *)
(***************************************************************************)
EXTENDS Naturals, Sequences, FiniteSets, SequencesExt

CONSTANTS
  Bodies,     \* the texts a file may have
  Sizes,      \* the units an agent may ask for at once
  MaxChanges  \* bound: edits, images set, projects renamed and opened

VARIABLES
  now,       \* project -> [name, body, image]
  order,     \* the projects in the order they are listed
  active,
  tracked,   \* the inputs the tracker compares with
  version,   \* project -> [revision, sourceRevision, imageRevision]
  target,    \* currentTarget: its project and source revision
  workspace, \* the workspace revision and what it was allocated for
  sequence,  \* RevisionAllocator: the last revision given
  history,   \* all revisions given, with what they stood for
  reading,   \* the read of a file: its text so far, the revision, where it goes on
  listing,   \* the list of projects so far
  changes, last

vars == <<now, order, active, tracked, version, target, workspace, sequence, history, reading, listing, changes, last>>

Projects == {"p", "q"}
Units == {"a", "b", "H", "L"}   \* a high and a low surrogate, and others
NoRead == [on |-> FALSE, project |-> "p", rev |-> 0, text |-> <<>>, at |-> 0, done |-> FALSE]
NoList == [on |-> FALSE, rev |-> 0, items |-> <<>>, done |-> FALSE]

sameSource(left, right) == left = right
sameImages(left, right) == left = right

\* observeProject(): the revisions that are new, allocated one after the other.
Observed(p, inputs, seq) ==
  LET old == tracked[p]
      src == ~sameSource(old.body, inputs.body)
      img == ~sameImages(old.image, inputs.image)
      rev1 == seq + 1
      rev2 == IF src THEN rev1 + 1 ELSE rev1
      rev3 == IF img THEN rev2 + 1 ELSE rev2
  IN IF ~src /\ ~img /\ old.name = inputs.name THEN [version |-> version[p], seq |-> seq, src |-> FALSE]
     ELSE [version |-> [revision |-> rev1, sourceRevision |-> IF src THEN rev2 ELSE version[p].sourceRevision,
                        imageRevision |-> IF img THEN rev3 ELSE version[p].imageRevision],
           seq |-> IF rev3 > seq THEN rev3 ELSE seq, src |-> src]

\* The target of the project follows its source.
Followed(p, to) == IF target.project = p THEN [target EXCEPT !.rev = to.sourceRevision] ELSE target

\* refreshWorkspaceSnapshot(), after a change of one project, the order or the
\* project that is open: the project is observed, and the workspace gets a
\* revision when its signature is another.
Signature(ord, act, names, vs) == <<ord, act, names, vs>>

refresh(p, state, ord, act) ==
  \E seen \in {Observed(p, state[p], sequence)} :
    LET vs == [version EXCEPT ![p] = seen.version]
        sig == Signature(ord, act, [x \in Projects |-> state[x].name], vs)
    IN /\ now' = state /\ order' = ord /\ active' = act
       /\ tracked' = [tracked EXCEPT ![p] = state[p]] /\ version' = vs
       /\ target' = IF seen.src THEN Followed(p, seen.version) ELSE target
       /\ workspace' = IF sig = workspace.of THEN workspace ELSE [rev |-> seen.seq + 1, of |-> sig]
       /\ sequence' = IF sig = workspace.of THEN seen.seq ELSE seen.seq + 1
       /\ history' = history \cup {[rev |-> seen.version.sourceRevision, of |-> <<"source", p, state[p].body>>],
                                   [rev |-> seen.version.imageRevision, of |-> <<"image", p, <<state[p].image>>>>]}

Change(what, p, state, ord, act) ==
  /\ changes < MaxChanges /\ changes' = changes + 1 /\ last' = what
  /\ refresh(p, state, ord, act)
  /\ UNCHANGED <<reading, listing>>

-----------------------------------------------------------------------------

Edit(p, body) == body # now[p].body /\ Change("edit", p, [now EXCEPT ![p].body = body], order, active)
SetImage(p) == Change("image", p, [now EXCEPT ![p].image = 1 - @], order, active)
Rename(p) == Change("rename", p, [now EXCEPT ![p].name = 1 - @], order, active)
\* A scratch project that is saved goes to the front of the list.
Reorder == Change("order", "p", now, Reverse(order), active)
Open(p) == p # active /\ Change("open", p, now, order, p)

\* selectTarget()
Select ==
  /\ target.project # active /\ last' = "select"
  /\ target' = [project |-> active, rev |-> version[active].sourceRevision]
  /\ UNCHANGED <<now, order, active, tracked, version, workspace, sequence, history, reading, listing, changes>>

State == <<now, order, active, tracked, version, target, workspace, sequence, history, changes>>

\* Mutant: a chunk that goes on is not asked for its revision.
ReadOkLoose(expected) == TRUE

\* A read that goes on names the revision it began with.
ReadOk(expected) == expected = version[reading.project].sourceRevision

ChunkEnd(body, offset, size) ==
  LET end == IF Len(body) < offset + size THEN Len(body) ELSE offset + size
  IN IF end < Len(body) /\ body[end + 1] = "L" THEN end - 1 ELSE end

\* readFile() from the start.
ReadFirst(p, size) ==
  LET body == now[p].body  end == ChunkEnd(body, 0, size)
  IN /\ ~reading.on /\ last' = "read"
     /\ reading' = [on |-> TRUE, project |-> p, rev |-> version[p].sourceRevision, text |-> SubSeq(body, 1, end), at |-> end, done |-> end = Len(body)]
     /\ UNCHANGED <<State, listing>>

\* readFile() from nextOffset, with the revision of the first piece: a piece
\* more, or a conflict that ends the read.
ReadNext(size) ==
  LET body == now[reading.project].body
      bad == reading.at > Len(body) \/ (reading.at < Len(body) /\ body[reading.at + 1] = "L")
      end == ChunkEnd(body, reading.at, size)
  IN /\ reading.on /\ ~reading.done /\ last' = "read"
     /\ IF bad \/ ~ReadOk(reading.rev) THEN reading' = NoRead
        ELSE reading' = [reading EXCEPT !.text = @ \o SubSeq(body, reading.at + 1, end), !.at = end, !.done = end = Len(body)]
     /\ UNCHANGED <<State, listing>>

ListOk == listing.rev = workspace.rev

\* listProjects() with a limit of one.
ListFirst ==
  /\ ~listing.on /\ last' = "list"
  /\ listing' = [on |-> TRUE, rev |-> workspace.rev, items |-> <<<<order[1], version[order[1]]>>>>, done |-> FALSE]
  /\ UNCHANGED <<State, reading>>

ListNext ==
  /\ listing.on /\ ~listing.done /\ last' = "list"
  /\ LET next == order[Len(listing.items) + 1]
     IN listing' = IF ListOk THEN [listing EXCEPT !.items = Append(@, <<next, version[next]>>), !.done = Len(listing.items) + 1 = Len(order)] ELSE NoList
  /\ UNCHANGED <<State, reading>>

Forget ==
  /\ reading.done \/ listing.done
  /\ reading' = (IF reading.done THEN NoRead ELSE reading) /\ listing' = (IF listing.done THEN NoList ELSE listing)
  /\ last' = "forget" /\ UNCHANGED State

First == CHOOSE b \in Bodies : TRUE
Init ==
  /\ now = [p \in Projects |-> [name |-> 0, body |-> First, image |-> 0]]
  /\ order = <<"p", "q">> /\ active = "p" /\ tracked = now
  /\ version = [p \in Projects |-> IF p = "p" THEN [revision |-> 1, sourceRevision |-> 2, imageRevision |-> 3]
                                   ELSE [revision |-> 4, sourceRevision |-> 5, imageRevision |-> 6]]
  /\ target = [project |-> "p", rev |-> 2]
  /\ workspace = [rev |-> 7, of |-> Signature(order, active, [p \in Projects |-> 0], version)]
  /\ sequence = 7
  /\ history = {[rev |-> version[p].sourceRevision, of |-> <<"source", p, First>>] : p \in Projects}
               \cup {[rev |-> version[p].imageRevision, of |-> <<"image", p, <<0>>>>] : p \in Projects}
  /\ reading = NoRead /\ listing = NoList /\ changes = 0 /\ last = "init"

Next ==
  \/ \E p \in Projects : \/ \E b \in Bodies : Edit(p, b)
                         \/ SetImage(p) \/ Rename(p) \/ Open(p)
  \/ Reorder \/ Select
  \/ \E size \in Sizes : ReadNext(size) \/ \E p \in Projects : ReadFirst(p, size)
  \/ ListFirst \/ ListNext \/ Forget

Spec == Init /\ [][Next]_vars

-----------------------------------------------------------------------------

Stamps == [revision : Nat, sourceRevision : Nat, imageRevision : Nat]

TypeOK ==
  /\ now \in [Projects -> [name : {0, 1}, body : Bodies, image : {0, 1}]] /\ tracked = now
  /\ order \in {<<"p", "q">>, <<"q", "p">>} /\ active \in Projects /\ sequence \in Nat
  /\ version \in [Projects -> [revision : 1..sequence, sourceRevision : 1..sequence, imageRevision : 1..sequence]]
  /\ workspace.rev \in 1..sequence /\ target \in [project : Projects, rev : Nat]
  /\ reading \in [on : BOOLEAN, project : Projects, rev : Nat, text : Seq(Units), at : Nat, done : BOOLEAN]
  /\ listing \in [on : BOOLEAN, rev : Nat, items : Seq(Projects \X Stamps), done : BOOLEAN]

\* A revision stands for one text of one file, or one set of images, for ever:
\* also when a text comes back it is told apart from what was there between.
RevisionsTell == \A g, h \in history : g.rev = h.rev => g.of = h.of

\* Work bound to the target is of the project's source as it is now.
TargetFollows == target.rev = version[target.project].sourceRevision

\* A file that was read to its end was this text at one moment, however it was
\* edited between two pieces, and no piece split a character.
ReadOfOneMoment == reading.done => [rev |-> reading.rev, of |-> <<"source", reading.project, reading.text>>] \in history
PiecesAreText == \A i \in DOMAIN reading.text : reading.text[i] = "H" => i < Len(reading.text)

\* A list that was read to its end has every project once, with versions that
\* were all current at one moment.
ListOfOneMoment ==
  listing.done => /\ {listing.items[i][1] : i \in DOMAIN listing.items} = Projects
                  /\ (listing.rev = workspace.rev => \A i \in DOMAIN listing.items : listing.items[i][2] = version[listing.items[i][1]])

\* What the tracker last saw is what it stamped: every revision in force is of the text
\* or the images there are, none was ever given to anything later than the last one.
StampsAreCurrent ==
  /\ \A p \in Projects :
       /\ [rev |-> version[p].sourceRevision, of |-> <<"source", p, now[p].body>>] \in history
       /\ [rev |-> version[p].imageRevision, of |-> <<"image", p, <<now[p].image>>>>] \in history
  /\ \A h \in history : h.rev \in 1..sequence
  /\ workspace.of = Signature(order, active, [p \in Projects |-> now[p].name], version)

\* A read under way has a text that had its revision up to where it goes on, and stands
\* between two characters of it.
ReadIsAPrefix ==
  /\ reading.text # <<>> => reading.on \/ reading.done
  /\ reading.on \/ reading.done => \E b \in Bodies :
       /\ [rev |-> reading.rev, of |-> <<"source", reading.project, b>>] \in history
       /\ reading.at \in 0..Len(b) /\ reading.text = SubSeq(b, 1, reading.at)
       /\ reading.at < Len(b) => b[reading.at + 1] # "L"
       /\ reading.done => reading.at = Len(b)

\* A list under way has what stands first in the order, as it is while its revision holds.
ListIsAPrefix ==
  /\ listing.done => Len(listing.items) = 2 /\ listing.items[1][1] # listing.items[2][1]
  /\ listing.on \/ listing.done =>
       /\ Len(listing.items) = (IF listing.done THEN 2 ELSE 1) /\ listing.rev <= workspace.rev
       /\ listing.rev = workspace.rev =>
            \A i \in 1..Len(listing.items) : listing.items[i] = <<order[i], version[order[i]]>>

\* The inductive invariant of ReadsAreOfOneMoment.
ReadsInv == TypeOK /\ RevisionsTell /\ StampsAreCurrent /\ TargetFollows /\ ReadIsAPrefix /\ ListIsAPrefix

\* What an agent read in pieces was there at one moment, and a revision stands for one
\* text for ever.
ReadsAreOfOneMoment ==
  TypeOK /\ RevisionsTell /\ TargetFollows /\ ReadOfOneMoment /\ PiecesAreText /\ ListOfOneMoment
=============================================================================
