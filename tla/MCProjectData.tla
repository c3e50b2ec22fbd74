--------------------------- MODULE MCProjectData ----------------------------
(***************************************************************************)
(* What the page keeps of a reader's work: the projects in the browser's   *)
(* storage (PlaygroundStore) and the envelope they are read from           *)
(* (Envelope), the files of a project and their images (ProjectFiles), what*)
(* a link opens (Opening), what an agent reads in pieces (Reads) and the   *)
(* units its edits are counted in (TextUnits). Each is checked by itself: a*)
(* behaviour of the run is one of any one of them, `component` says which, *)
(* and the variables of the others stay Off.                               *)
(***************************************************************************)
EXTENDS Naturals, Sequences

CONSTANTS
  MaxScratch, MaxSource, MaxEnvelope, Rooms, Images, MaxEdits, MaxExpanded,
  MaxHandEdits, Names, MaxFiles, MaxSteps, MaxBatch, BatchSteps, Typeable,
  Wide, Bulky, Large, CutPicks, MaxVisits, FileTexts, PieceSizes, MaxChanges,
  MaxLen, MaxRanges

VARIABLES
  component,
  env, over, dirty, timer, enabled, disk, room, broken, edits, notes,
  raw, handEdits,
  tabs, active, stored, activeFile, images, given, circuitFile,
  renderedFiles, inflight, analysis, swapped, ids, steps, last, mishap,
  scratch, current, shown, ready, link, sent, whole, opened, visits,
  now, order, opens, tracked, version, target, workspace, sequence, history,
  reading, listing, changes, act,
  body, ranges, result, pieces, cursor, phase

Store == INSTANCE PlaygroundStore
Env == INSTANCE Envelope
Files == INSTANCE ProjectFiles
Page == INSTANCE Opening WITH
          active <- current, steps <- visits, MaxSteps <- MaxVisits, Texts <- Typeable
Agent == INSTANCE Reads WITH
          active <- opens, last <- act, Bodies <- FileTexts, Sizes <- PieceSizes
Units == INSTANCE TextUnits WITH
          edits <- ranges, MaxEdits <- MaxRanges

\* bound: the texts of a file that is read in pieces.
ReadTexts == {<<>>, <<"a", "H", "L">>, <<"H", "L", "H", "L">>, <<"a", "a", "b", "b">>}

\* A file is a text, and a piece has room for a character.
ASSUME ReadsAssumption ==
  /\ FileTexts # {} /\ PieceSizes \subseteq Nat \ {0, 1}
  /\ \A text \in FileTexts : text \in Seq(Agent!Units) /\ Units!isWellFormed(text)

\* There is room for a project beside the one the reader is in, and for any project alone.
ASSUME StoreAssumption ==
  /\ MaxScratch \in Nat \ {0, 1} /\ MaxSource \in Nat \ {0} /\ MaxEnvelope \in Nat
  /\ MaxSource <= MaxEnvelope /\ Images \subseteq Nat /\ 0 \in Images /\ MaxEdits \in Nat

ASSUME OpeningAssumption == MaxVisits \in Nat

\* The names new files are given, and the one a file without a marker has.
ASSUME FilesAssumption == {"a", "b", "c", "main"} \subseteq Names /\ MaxBatch \in Nat

storeVars == <<env, over, dirty, timer, enabled, disk, room, broken, edits,
               notes>>
envVars == <<raw, handEdits>>
filesVars == <<tabs, active, stored, activeFile, images, given, circuitFile,
               renderedFiles, inflight, analysis, swapped, ids, steps, last, mishap>>
pageVars == <<scratch, current, shown, ready, link, sent, whole, opened,
              visits>>
agentVars == <<now, order, opens, tracked, version, target, workspace,
               sequence, history, reading, listing, changes, act>>
unitsVars == <<body, ranges, result, pieces, cursor, phase>>
vars == <<component, storeVars, envVars, filesVars, pageVars, agentVars, unitsVars>>

Off == "off"

StoreOff ==
  /\ env = Off /\ over = Off /\ dirty = Off /\ timer = Off /\ enabled = Off
  /\ disk = Off /\ room = Off /\ broken = Off /\ edits = Off /\ notes = Off

EnvOff ==
  /\ raw = Off /\ handEdits = Off

FilesOff ==
  /\ tabs = Off /\ active = Off /\ stored = Off /\ activeFile = Off
  /\ images = Off /\ given = Off /\ circuitFile = Off /\ renderedFiles = Off
  /\ inflight = Off /\ analysis = Off /\ swapped = Off /\ ids = Off
  /\ steps = Off /\ last = Off /\ mishap = Off

PageOff ==
  /\ scratch = Off /\ current = Off /\ shown = Off /\ ready = Off
  /\ link = Off /\ sent = Off /\ whole = Off /\ opened = Off /\ visits = Off

AgentOff ==
  /\ now = Off /\ order = Off /\ opens = Off /\ tracked = Off
  /\ version = Off /\ target = Off /\ workspace = Off /\ sequence = Off
  /\ history = Off /\ reading = Off /\ listing = Off /\ changes = Off
  /\ act = Off

UnitsOff ==
  /\ body = Off /\ ranges = Off /\ result = Off /\ pieces = Off
  /\ cursor = Off /\ phase = Off

Init ==
  \/ component = "store" /\ Store!Init
     /\ EnvOff /\ FilesOff /\ PageOff /\ AgentOff /\ UnitsOff
  \/ component = "envelope" /\ Env!Init
     /\ StoreOff /\ FilesOff /\ PageOff /\ AgentOff /\ UnitsOff
  \/ component = "files" /\ Files!Init
     /\ StoreOff /\ EnvOff /\ PageOff /\ AgentOff /\ UnitsOff
  \/ component = "opening" /\ Page!Init
     /\ StoreOff /\ EnvOff /\ FilesOff /\ AgentOff /\ UnitsOff
  \/ component = "reads" /\ Agent!Init
     /\ StoreOff /\ EnvOff /\ FilesOff /\ PageOff /\ UnitsOff
  \/ component = "units" /\ Units!Init
     /\ StoreOff /\ EnvOff /\ FilesOff /\ PageOff /\ AgentOff

Next ==
  /\ UNCHANGED component
  /\ \/ component = "store" /\ Store!Next
        /\ UNCHANGED <<envVars, filesVars, pageVars, agentVars, unitsVars>>
     \/ component = "envelope" /\ Env!Next
        /\ UNCHANGED <<storeVars, filesVars, pageVars, agentVars, unitsVars>>
     \/ component = "files" /\ Files!Next
        /\ UNCHANGED <<storeVars, envVars, pageVars, agentVars, unitsVars>>
     \/ component = "opening" /\ Page!Next
        /\ UNCHANGED <<storeVars, envVars, filesVars, agentVars, unitsVars>>
     \/ component = "reads" /\ Agent!Next
        /\ UNCHANGED <<storeVars, envVars, filesVars, pageVars, unitsVars>>
     \/ component = "units" /\ Units!Next
        /\ UNCHANGED <<storeVars, envVars, filesVars, pageVars, agentVars>>

Spec == Init /\ [][Next]_vars

-----------------------------------------------------------------------------
\* Saving within a budget loses only what has to go, the oldest first and not in
\* silence; what was saved is what a reload shows.
SavingKeeps == [][component = "store" => Store!SavingKeeps]_storeVars

\* Whatever the key holds: a usable envelope is read from it, what it names is in it, a
\* second load reads the same, and version 1 loses nothing that both versions have.
EnvelopeIsUsable == component = "envelope" => Env!EnvelopeIsUsable

\* What belongs to a file stays with it: its text through joining and splitting, its
\* counts, and its images through renames, deletions, moves and batches.
FilesKeepTheirOwn == component = "files" => Files!FilesKeepTheirOwn

\* A link opens what it was made of, or the page says that it did not, and no project
\* of the reader's is touched on the way.
LinkOpensWhatWasSent == [][component = "opening" => Page!LinkOpensWhatWasSent]_pageVars

\* What an agent read in pieces was there at one moment, a revision stands for one text
\* for ever, and edits and pages counted in UTF-16 units mean the text there was.
ReadsAreOfOneMoment ==
  /\ component = "reads" => Agent!ReadsAreOfOneMoment
  /\ component = "units" => Units!UnitsMeanOneText
=============================================================================
