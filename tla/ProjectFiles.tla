---------------------------- MODULE ProjectFiles ----------------------------
(***************************************************************************)
(* The files of the open project: the tabs (scripts/file-tabs.ts) with     *)
(* what the island does around each change, the batches of operations an   *)
(* agent sends (scripts/playground-mutations.ts), the images that belong   *)
(* to a file by its name, and the analysis whose counts the tabs show.     *)
(* Every file carries an identity, which the program does not have: it     *)
(* says which file a tab, an image or a count is about.                    *)
(***************************************************************************)
EXTENDS Naturals, Sequences, SequencesExt, FiniteSets

CONSTANTS
  Names,        \* the names files are given; "main" among them
  MaxFiles,     \* bound: files of a project
  MaxSteps,     \* bound: edits of the file list
  MaxBatch,     \* MAX_FILE_MUTATIONS
  BatchSteps    \* bound: the edits among the first of which a batch may be

VARIABLES
  tabs,         \* state.tabs.files, each with its identity
  active,       \* state.tabs.active
  stored,       \* the files of the project's source in the envelope
  activeFile,   \* the envelope's activeFile
  images,       \* name -> the identity of the file whose images these are
  given,        \* identities of the files that were given images
  circuitFile,  \* state.circuitFile
  renderedFiles,\* state.renderedFiles
  inflight,     \* the files an analysis is running on
  analysis,     \* the files state.analysis is about
  swapped,      \* a batch has renamed files and left the counts of before
  ids, steps,   \* identities and edits so far
  last,         \* what happened last
  mishap        \* the first thing that could cost a file its images

vars == <<tabs, active, stored, activeFile, images, given, circuitFile, renderedFiles, inflight, analysis, swapped, ids, steps, last, mishap>>

-----------------------------------------------------------------------------
(* The one text a project of several files is kept as                      *)
(* (utils/split-files.ts): a line `// name.circ` opens a file, unless the  *)
(* file before it is still blank. A text is a sequence of lines, and a     *)
(* line is <<"marker", name>>, Code or Blank.                              *)

Blank == <<"blank">>
Code  == <<"code">>
Marker(name) == <<"marker", name>>

IsMarker(line) == Len(line) = 2

HasContent(body) == \E k \in DOMAIN body : body[k] # Blank

\* The files so far, and one more line. A marker opens a file when there is
\* none, or when the last one has content; any other line belongs to the last.
Taken(files, line) ==
  IF IsMarker(line) /\ (files = <<>> \/ HasContent(Last(files).body))
    THEN Append(files, [name |-> line[2], body |-> <<>>])
  ELSE IF files = <<>> THEN <<[name |-> "main", body |-> <<line>>]>>
  ELSE [files EXCEPT ![Len(files)].body = Append(@, line)]

Read(text) ==
  LET upTo[k \in 0..Len(text)] == IF k = 0 THEN <<>> ELSE Taken(upTo[k - 1], text[k])
  IN upTo[Len(text)]

\* A body of no line and one of a blank line are the same text.
splitFiles(text) ==
  LET files == Read(text)
  IN [i \in DOMAIN files |-> IF files[i].body = <<>> THEN [files[i] EXCEPT !.body = <<Blank>>] ELSE files[i]]

\* Only a leading main file goes without its marker, and only when its own
\* first line would not be read as one.
omitsMarker(f, i) == i = 1 /\ f.name = "main" /\ ~IsMarker(f.body[1])

Block(f, i) == IF omitsMarker(f, i) THEN f.body ELSE <<Marker(f.name)>> \o f.body

joinFiles(files) == FlattenSeq([i \in DOMAIN files |-> Block(files[i], i)])

\* What the format cannot hold: a file that is blank and not the last, and a
\* marker after content. (That two files have one name is the request's
\* concern: it is keyed by name.)
BlankBody(files) == {i \in DOMAIN files : i < Len(files) /\ ~HasContent(files[i].body)}

MarkerInBody(files) ==
  {i \in DOMAIN files : \E k \in DOMAIN files[i].body :
     IsMarker(files[i].body[k]) /\ HasContent(SubSeq(files[i].body, 1, k - 1))}

DuplicateName(files) == {i \in DOMAIN files : \E j \in 1..(i - 1) : files[j].name = files[i].name}

joinConflicts(files) == BlankBody(files) \cup MarkerInBody(files) \cup DuplicateName(files)

-----------------------------------------------------------------------------
None == 0
NamesOf(files) == [i \in DOMAIN files |-> files[i].name]
IdsOf(files)   == {files[i].id : i \in DOMAIN files}
Unique(files) == DuplicateName(files) = {}
IndexOf(files, name) ==
  IF \E i \in DOMAIN files : files[i].name = name
    THEN CHOOSE i \in DOMAIN files : files[i].name = name /\ \A j \in 1..(i - 1) : files[j].name # name
    ELSE 0
Named(files) == [i \in DOMAIN files |-> [name |-> files[i].name, body |-> files[i].body]]

Bodies == {<<Code>>, <<Blank>>, <<Blank, Marker("b")>>, <<Code, Marker("a")>>}

Texts == {<<Code>>,
          <<Marker("a"), Code, Marker("main"), Code, Blank>>,
          <<Marker("main"), Marker("b"), Code, Blank>>,
          <<Marker("a"), Code, Marker("a"), Code>>}

-----------------------------------------------------------------------------
(* scripts/file-tabs.ts. Indices count from one.                           *)

seedBody(name) == <<Code, Blank>>

Smallest(S) == CHOOSE n \in S : \A m \in S : n <= m
Least(a, b) == IF a < b THEN a ELSE b

\* nextFileName() takes the first name that is free. There always is one; Order
\* bounds them.
Order == <<"a", "b", "c", "main">>
FreeNames(files) == {k \in DOMAIN Order : IndexOf(files, Order[k]) = 0}
nextFileName(files) == Order[Smallest(FreeNames(files))]

InsertBeforeRoot(files, f) == InsertAt(files, Len(files), f)

ActiveAfterDelete(act, index, n) == IF act > index THEN act - 1 ELSE Least(act, n)

ActiveAfterMove(act, src, dst) ==
  IF act = src THEN dst
  ELSE LET without == IF src < act THEN act - 1 ELSE act
       IN IF dst <= without THEN without + 1 ELSE without

moveFile(files, src, dst) == InsertAt(RemoveAt(files, src), dst, files[src])

canDelete(files) == Len(files) > 1

nameError(files, index, name) == \E i \in DOMAIN files : i # index /\ files[i].name = name

-----------------------------------------------------------------------------
(* planMutations(): the whole batch is planned before anything changes.    *)

Edit(n, b)   == [kind |-> "edit", name |-> n, body |-> b, to |-> n]
Create(n, w) == [kind |-> "create", name |-> n, body |-> seedBody(n), to |-> w]
Rename(n, m) == [kind |-> "rename", name |-> n, body |-> <<Blank>>, to |-> m]
Delete(n)    == [kind |-> "delete", name |-> n, body |-> <<Blank>>, to |-> n]

Operations ==
  {Edit(n, b) : n \in Names, b \in {<<Code>>, <<Blank>>}} \cup {Create(n, w) : n \in Names, w \in {"default", "null"} \cup Names}
  \cup {Rename(n, m) : n, m \in Names} \cup {Delete(n) : n \in Names}

\* bound: the operations a batch of three is made of, by which a file can be
\* given the name another file of the batch had.
Handovers == {Delete("main"), Rename("a", "main"), Create("a", "default"), Create("main", "null"), Rename("main", "c")}

Batches == (UNION {[1..k -> Operations] : k \in 1..MaxBatch}) \cup [1..3 -> Handovers]

Refused(p) == [p EXCEPT !.ok = FALSE]

PlannedEdit(p, op) ==
  LET i == IndexOf(p.files, op.name)
  IN IF i = 0 THEN Refused(p) ELSE [p EXCEPT !.files[i].body = op.body]

ActiveAfterCreate(act, before) == IF before <= act THEN act + 1 ELSE act

PlannedCreate(p, op) ==
  LET before == IF op.to = "default" THEN Len(p.files) ELSE IF op.to = "null" THEN Len(p.files) + 1 ELSE IndexOf(p.files, op.to)
  IN IF IndexOf(p.files, op.name) # 0 \/ before = 0 THEN Refused(p)
     ELSE [p EXCEPT !.files = InsertAt(@, before, [id |-> p.ids + 1, name |-> op.name, body |-> op.body]),
                    !.active = ActiveAfterCreate(@, before), !.ids = @ + 1, !.destructive = TRUE]

PlannedRename(p, op) ==
  LET i == IndexOf(p.files, op.name)
  IN IF i = 0 \/ nameError(p.files, i, op.to) THEN Refused(p)
     ELSE IF op.name = op.to THEN p
     ELSE [p EXCEPT !.files[i].name = op.to, !.renamed = Append(@, <<op.name, op.to>>),
                    !.reused = @ \/ {op.name, op.to} \cap p.deleted # {}]

PlannedDelete(p, op) ==
  LET i == IndexOf(p.files, op.name)
  IN IF i = 0 \/ ~canDelete(p.files) THEN Refused(p)
     ELSE [p EXCEPT !.files = RemoveAt(@, i), !.active = ActiveAfterDelete(@, i, Len(p.files) - 1),
                    !.deleted = @ \cup {op.name}, !.destructive = TRUE]

Planned(p, op) ==
  IF ~p.ok THEN p
  ELSE CASE op.kind = "edit" -> PlannedEdit(p, op) [] op.kind = "create" -> PlannedCreate(p, op)
         [] op.kind = "rename" -> PlannedRename(p, op) [] op.kind = "delete" -> PlannedDelete(p, op)

\* A batch is refused when its result cannot be kept, and when it deletes and
\* makes again what was there.
Accepts(p, files) ==
  /\ p.ok /\ joinConflicts(p.files) = {} /\ splitFiles(joinFiles(p.files)) = Named(p.files)
  /\ Named(p.files) = Named(files) => ~p.destructive

\* The open file goes by its name. `reused` is the model's: a file is renamed to
\* or from the name of one deleted before it.
planMutations(files, activeName, ops) ==
  LET none == [ok |-> TRUE, files |-> files, active |-> IndexOf(files, activeName), renamed |-> <<>>,
               deleted |-> {}, destructive |-> FALSE, ids |-> ids, reused |-> FALSE]
      upTo[k \in 0..Len(ops)] == IF k = 0 THEN none ELSE Planned(upTo[k - 1], ops[k])
  IN upTo[Len(ops)]

-----------------------------------------------------------------------------
(* The island. Every change of the files ends in schedule().               *)

outputsShouldClear(prev, next) == prev # next

schedule ==
  LET names == NamesOf(tabs')
      open  == tabs'[active'].name
      clear == circuitFile # open \/ outputsShouldClear(renderedFiles, names)
  IN /\ inflight' = tabs'
     /\ circuitFile' = open
     /\ renderedFiles' = IF clear THEN names ELSE renderedFiles
     /\ analysis' = IF clear THEN <<>> ELSE analysis

\* The counts stay, and what they are about may have changed its name.
Passed(renamed) == swapped' = (analysis' # <<>> /\ (swapped \/ renamed))

Counted(what) == steps < MaxSteps /\ steps' = steps + 1 /\ last' = what

\* images moved from one name to another, or dropped.
Moved(im, from, to) == [[im EXCEPT ![to] = IF im[from] # None THEN im[from] ELSE @] EXCEPT ![from] = IF from = to THEN @ ELSE None]
Dropped(im, name) == [im EXCEPT ![name] = None]

\* A tab is selected.
Select(i) ==
  /\ i # active /\ Counted("select")
  /\ active' = i /\ activeFile' = tabs[i].name /\ UNCHANGED tabs
  /\ schedule /\ Passed(FALSE)
  /\ UNCHANGED <<stored, images, given, ids, mishap>>

\* A keystroke: the one change of the island that writes the source back.
Type(b) ==
  /\ Counted("type")
  /\ tabs' = [tabs EXCEPT ![active].body = b] /\ UNCHANGED active
  /\ stored' = tabs' /\ activeFile' = tabs[active].name
  /\ schedule /\ Passed(FALSE)
  /\ UNCHANGED <<images, given, ids, mishap>>

addNewFile ==
  /\ Counted("add") /\ Len(tabs) < MaxFiles /\ FreeNames(tabs) # {}
  /\ LET name == nextFileName(tabs)
     IN tabs' = InsertBeforeRoot(tabs, [id |-> ids + 1, name |-> name, body |-> seedBody(name)])
  /\ active' = Len(tabs) /\ ids' = ids + 1
  /\ schedule /\ Passed(FALSE)
  /\ UNCHANGED <<stored, activeFile, images, given, mishap>>

\* Mutant: the images stay under the old name.
RenamedImagesStay(im, from, to) == im

RenamedImages(im, from, to) == Moved(im, from, to)

\* A rename that is committed; an illegal one is not.
RenameTab(i, name) ==
  /\ Counted("rename") /\ ~nameError(tabs, i, name) /\ tabs[i].name # name
  /\ tabs' = [tabs EXCEPT ![i].name = name] /\ UNCHANGED active
  /\ images' = RenamedImages(images, tabs[i].name, name)
  /\ schedule /\ Passed(FALSE)
  /\ UNCHANGED <<stored, activeFile, given, ids, mishap>>

\* The second press on delete.
DeleteTab(i) ==
  /\ Counted("delete") /\ canDelete(tabs)
  /\ tabs' = RemoveAt(tabs, i) /\ active' = ActiveAfterDelete(active, i, Len(tabs) - 1)
  /\ images' = Dropped(images, tabs[i].name) /\ given' = given \ {tabs[i].id}
  /\ schedule /\ Passed(FALSE)
  /\ UNCHANGED <<stored, activeFile, ids, mishap>>

reorder(src, dst) ==
  /\ src # dst /\ Counted("move")
  /\ tabs' = moveFile(tabs, src, dst) /\ active' = ActiveAfterMove(active, src, dst)
  /\ schedule /\ Passed(FALSE)
  /\ UNCHANGED <<stored, activeFile, images, given, ids, mishap>>

\* An image is given to a memory of the open file.
SetImages ==
  /\ tabs[active].id \notin given /\ Unique(tabs) /\ Counted("image")
  /\ given' = given \cup {tabs[active].id}
  /\ images' = [images EXCEPT ![tabs[active].name] = tabs[active].id]
  /\ UNCHANGED <<tabs, active, stored, activeFile, circuitFile, renderedFiles, inflight, analysis, swapped, ids, mishap>>

\* updateAgentProject(): first every rename, then every deletion, by name.
RenamedAll(im, renamed) ==
  LET upTo[k \in 0..Len(renamed)] == IF k = 0 THEN im ELSE Moved(upTo[k - 1], renamed[k][1], renamed[k][2])
  IN upTo[Len(renamed)]

BatchImages(im, p) == [n \in Names |-> IF n \in p.deleted THEN None ELSE RenamedAll(im, p.renamed)[n]]

updateAgentProject(ops) ==
  \E p \in {planMutations(tabs, tabs[active].name, ops)} :
    /\ Accepts(p, tabs) /\ Len(p.files) <= MaxFiles
    /\ Counted("batch")
    /\ IF Named(p.files) = Named(tabs)
         THEN UNCHANGED <<tabs, active, stored, activeFile, images, given, circuitFile, renderedFiles, inflight, analysis, swapped, ids, mishap>>
         ELSE /\ tabs' = p.files /\ active' = p.active
              /\ stored' = p.files /\ activeFile' = p.files[p.active].name
              /\ images' = BatchImages(images, p) /\ given' = given \cap IdsOf(p.files) /\ ids' = p.ids
              /\ mishap' = IF mishap = "none" /\ p.reused THEN "batch" ELSE mishap
              /\ schedule /\ Passed(p.renamed # <<>>)

\* The analysis of the latest request lands.
Analysed ==
  /\ inflight # <<>> /\ analysis' = inflight /\ inflight' = <<>> /\ swapped' = FALSE
  /\ last' = "analysed"
  /\ UNCHANGED <<tabs, active, stored, activeFile, images, given, circuitFile, renderedFiles, ids, steps, mishap>>

\* The page is loaded again, or another project was opened in between: the
\* files are what the envelope's source splits into. Where it splits as it was
\* joined, a file keeps its identity.
loadProject ==
  LET files == splitFiles(joinFiles(stored))
      kept  == files = Named(stored)
      new   == [i \in DOMAIN files |-> [id |-> IF kept THEN stored[i].id ELSE ids + i, name |-> files[i].name, body |-> files[i].body]]
      at    == IndexOf(new, activeFile)
  IN /\ Counted("load")
     /\ tabs' = new /\ active' = (IF at # 0 THEN at ELSE Len(new))
     /\ activeFile' = tabs'[active'].name
     /\ ids' = IF kept THEN ids ELSE ids + Len(files)
     /\ stored' = new
     /\ mishap' = IF ~kept THEN "resplit" ELSE IF mishap = "none" /\ {<<tabs[i].id, tabs[i].name>> : i \in DOMAIN tabs} # {<<new[i].id, new[i].name>> : i \in DOMAIN new} THEN "load" ELSE mishap
     /\ inflight' = tabs' /\ analysis' = <<>> /\ swapped' = FALSE /\ circuitFile' = activeFile' /\ renderedFiles' = NamesOf(tabs')
     /\ UNCHANGED <<images, given>>

Init ==
  \E text \in Texts : \E files \in {splitFiles(text)} :
    /\ tabs = [i \in DOMAIN files |-> [id |-> i, name |-> files[i].name, body |-> files[i].body]]
    /\ active = Len(files) /\ stored = tabs /\ activeFile = tabs[active].name
    /\ images = [n \in Names |-> None] /\ given = {}
    /\ circuitFile = activeFile /\ renderedFiles = NamesOf(tabs) /\ inflight = tabs /\ analysis = <<>> /\ swapped = FALSE
    /\ ids = Len(files) /\ steps = 0 /\ last = "load" /\ mishap = "none"

Next ==
  \/ \E i \in DOMAIN tabs : Select(i)
  \/ \E b \in Bodies : Type(b)
  \/ addNewFile
  \/ \E i \in DOMAIN tabs, n \in Names : RenameTab(i, n)
  \/ \E i \in DOMAIN tabs : DeleteTab(i)
  \/ \E i, j \in DOMAIN tabs : reorder(i, j)
  \/ SetImages
  \/ steps < BatchSteps /\ \E ops \in Batches : updateAgentProject(ops)
  \/ Analysed
  \/ loadProject

Spec == Init /\ [][Next]_vars

-----------------------------------------------------------------------------

TypeOK ==
  /\ tabs # <<>> /\ active \in DOMAIN tabs
  /\ \A i \in DOMAIN tabs : tabs[i].name \in Names /\ tabs[i].body # <<>>
  /\ Cardinality(IdsOf(tabs)) = Len(tabs)
  /\ DOMAIN images = Names /\ given \subseteq 1..ids

\* joinConflicts() names exactly the lists of files the format cannot hold:
\* with none of its reasons, splitting the joined text gives the files back,
\* and with one of the two about bodies it does not.
ConflictsAreExact ==
  (BlankBody(tabs) \cup MarkerInBody(tabs) = {}) <=> (splitFiles(joinFiles(tabs)) = Named(tabs))

\* Whatever was written, reading it back once settles it: what a load shows
\* is what the next load shows.
ReadingSettles == \E files \in {splitFiles(joinFiles(tabs))} : splitFiles(joinFiles(files)) = files

\* countsByFile(): the files of the analysis whose counts tab i shows, by name.
countsByFile(i) == {j \in DOMAIN analysis : IndexOf(tabs, analysis[j].name) = i}

\* The counts on a tab are never those of another file that is there, unless a
\* batch has passed the names on among the files and left the list of names.
CountsAreOwn ==
  Unique(tabs) /\ Unique(analysis) /\ ~swapped => \A i \in DOMAIN tabs : \A j \in countsByFile(i) :
    analysis[j].id \in {tabs[i].id} \cup (1..ids \ IdsOf(tabs))

\* The images of a file are under its name, and none of another's are.
ImagesInPlace ==
  \A i \in DOMAIN tabs : images[tabs[i].name] = IF tabs[i].id \in given THEN tabs[i].id ELSE None

\* "File renames move the images, file deletion removes them"
\* (DOCS/decisions/playground-bench.md): while nothing structural was left
\* unsaved at a load and no batch renames a file to or from the name of one it
\* deleted before.
ImagesFollow == mishap = "none" /\ Unique(tabs) => ImagesInPlace

\* What belongs to a file stays with it: its text through joining and splitting, its
\* counts, and its images through renames, deletions, moves and batches.
FilesKeepTheirOwn == TypeOK /\ ConflictsAreExact /\ ReadingSettles /\ CountsAreOwn /\ ImagesFollow

-----------------------------------------------------------------------------
(* What makes it inductive.                                                *)

Lines == {Blank, Code} \cup {Marker(n) : n \in Names}
File  == [id : Nat, name : Names, body : Seq(Lines)]

\* A list of files, each another one.
Held(files) ==
  /\ files \in Seq(File) /\ files # <<>>
  /\ \A i \in DOMAIN files : files[i].body # <<>> /\ files[i].id \in 1..ids
  /\ \A i, j \in DOMAIN files : files[i].id = files[j].id => i = j

\* What is analysed, or was, has the names of the tabs; and a tab's analysis is of
\* its file, or of one that is gone.
CountsInv ==
  /\ renderedFiles = NamesOf(tabs)
  /\ inflight # <<>> => inflight = tabs
  /\ analysis # <<>> =>
       /\ analysis \in Seq(File) /\ NamesOf(analysis) = NamesOf(tabs)
       /\ \A i \in DOMAIN analysis : analysis[i].id \in 1..ids
       /\ Unique(tabs) /\ ~swapped =>
            \A i \in DOMAIN tabs : analysis[i].id = tabs[i].id \/ analysis[i].id \notin IdsOf(tabs)

\* No image is kept under a name no file has, and two files of one name have none.
ImagesInv ==
  mishap = "none" =>
    /\ given \subseteq IdsOf(tabs) /\ (given # {} => Unique(tabs)) /\ ImagesInPlace
    /\ \A n \in Names : images[n] # None => \E i \in DOMAIN tabs : tabs[i].name = n

FilesInv ==
  /\ ids \in Nat /\ Held(tabs) /\ Held(stored) /\ active \in DOMAIN tabs
  /\ images \in [Names -> Nat] /\ given \subseteq 1..ids
  /\ CountsInv /\ ImagesInv
=============================================================================
