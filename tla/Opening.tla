------------------------------ MODULE Opening ------------------------------
(***************************************************************************)
(* What the playground opens (utils/share-link.ts, resolveInitial and its  *)
(* neighbours in utils/playground-store.ts, and the page's bootstrap): a   *)
(* text goes into a link, deflated where the browser can, the link is      *)
(* passed on, cut or written over, and opened by a reader whose browser    *)
(* may do less, who has projects of their own.                             *)
(* A text is a name, and which of the limits it is within. A payload is    *)
(* the text it was made of and what became of its characters.              *)
(***************************************************************************)
EXTENDS Naturals, Sequences, SequencesExt

CONSTANTS
  Texts,         \* what a reader may type
  Wide,          \* those that fit a link (SHARE_CAP) only deflated
  Bulky,         \* those that fit no link
  Large,         \* those over MAX_SOURCE_BYTES
  CutPicks,      \* whether a pick may be cut inside an escape
  MaxSteps       \* bound: steps

None == "none"

\* The shipped circuits: content/examples.ts in file order, and the tour.
Examples == << [slug |-> "alu", level |-> "advanced"], [slug |-> "gate", level |-> "intro"] >>
Tour == <<"first">>

GroupOfLevel == <<"intro", "medium", "advanced">>

\* An id tells its kind and has a slug or a number.
Id(kind, slug, number) == [kind |-> kind, slug |-> slug, number |-> number]

ExampleId(slug) == Id("example", slug, 0)

\* Every shipped circuit, the steps of the tour numbered.
buildCatalogue ==
  {[id |-> ExampleId(Examples[i].slug), text |-> Examples[i].slug] : i \in DOMAIN Examples}
    \cup {[id |-> Id("tour", None, i), text |-> Tour[i]] : i \in DOMAIN Tour}

\* The catalogue begins with the introductions whatever the order of the file, and ends
\* with the tour: what matters of its order is the first.
Tier(i) == CHOOSE k \in DOMAIN GroupOfLevel : GroupOfLevel[k] = Examples[i].level
First ==
  CHOOSE i \in DOMAIN Examples : \A j \in DOMAIN Examples : Tier(i) < Tier(j) \/ (Tier(i) = Tier(j) /\ i <= j)

DefaultId == ExampleId(Examples[First].slug)
NewText == "new"

VARIABLES
  scratch,   \* the reader's projects: [id, name, text]
  active,    \* the project the envelope calls active: a set of at most one id
  shown,     \* the text in the editor
  ready,     \* the page came to the end of its bootstrap
  link,      \* the link in hand: the parts of its fragment
  sent,      \* history: the text the link was made of, and by which key: a set of at most one
  whole,     \* history: nobody changed the link since it was made
  opened,    \* history: what the last opening opened: [kind, told]
  steps

vars == <<scratch, active, shown, ready, link, sent, whole, opened, steps>>

\* The server renders the first circuit into the text box.
Rendered == Examples[First].slug

Init ==
  /\ scratch = <<>> /\ active = {} /\ shown = Rendered /\ ready = FALSE
  /\ link = <<>> /\ sent = {} /\ whole = TRUE
  /\ opened = [kind |-> None, told |-> None] /\ steps = 0

Step == steps < MaxSteps /\ steps' = steps + 1

-----------------------------------------------------------------------------
(* The codec.                                                              *)

Payload(text, deflated) == [text |-> text, deflated |-> deflated, chars |-> "all"]

\* A deflate that fails is the same as none.
Keyed(codec) == IF codec = "works" THEN "src" ELSE "src0"

encodeShare(text, codec) ==
  [ok      |-> text \notin Bulky /\ (text \in Wide => codec = "works"),
   key     |-> Keyed(codec),
   payload |-> Payload(text, codec = "works")]

\* "odd": no length of base64; "stray": a character that is none of its alphabet.
fromBase64Url(payload) == payload.chars \notin {"odd", "stray"}

\* Mutant: what there is of the stream will do.
inflateRawPart(payload) == payload.deflated /\ payload.chars # "mid"

\* A stream that ends early is an error.
inflateRaw(payload) == payload.deflated /\ payload.chars = "all"

\* A text cut short is a text; one cut inside a character is not.
Decoded(payload) == IF payload.chars = "all" THEN payload.text ELSE "part"

\* The last of the parts of that name.
Named(hash, name) ==
  LET at == {i \in DOMAIN hash : hash[i].name = name}
  IN {hash[i].value : i \in {k \in at : \A m \in at : m <= k}}

\* Every key the fragment carries; src beats src0, and a pick beside them is kept.
readHash(hash) ==
  LET src  == Named(hash, "src")
      src0 == Named(hash, "src0")
  IN [src     |-> {[key |-> "src", payload |-> p] : p \in src}
                    \cup {[key |-> "src0", payload |-> p] : p \in {q \in src0 : src = {}}},
      pick    |-> Named(hash, "pick"),
      unknown |-> {hash[i].name : i \in DOMAIN hash} \ {"src", "src0", "pick"}]

\* decodeURIComponent: a pick cut inside an escape throws.
Malformed == Id("malformed", "%3", 0)
readHashThrows(hash) == \E i \in DOMAIN hash : hash[i].name = "pick" /\ hash[i].value = Malformed

\* The text the fragment carries: a set of at most one.
decodeShare(intent, codec) ==
  {[key |-> s.key, text |-> Decoded(s.payload)] : s \in
    {x \in intent.src : /\ fromBase64Url(x.payload)
                        /\ x.key = "src" => codec = "works" /\ inflateRaw(x.payload)
                        /\ x.payload.chars # "mid"}}

-----------------------------------------------------------------------------
(* Projects.                                                               *)

\* The text of the catalogue's, or of the reader's first, with the id: a set of at most one.
resolveSource(id, projects) ==
  LET item == {c.text : c \in {x \in buildCatalogue : x.id = id}}
      own  == {i \in DOMAIN projects : projects[i].id = id}
  IN IF item # {} THEN item ELSE {projects[i].text : i \in {k \in own : \A m \in own : k <= m}}

\* A name is its base and the numbers put behind it.
Name(base) == [base |-> base, numbers |-> <<>>]
NamesOf(projects) == {projects[i].name : i \in DOMAIN projects}

\* The name, or the first free number behind it.
uniqueName(name, taken) ==
  LET candidate(n) == [base |-> name.base, numbers |-> Append(name.numbers, n)]
      free == {n \in 2..MaxSteps + 2 : candidate(n) \notin taken}
  IN IF name \notin taken THEN name ELSE candidate(CHOOSE n \in free : \A m \in free : n <= m)

idKind(id) == IF id.kind \in {"example", "tour", "scratch"} THEN id.kind ELSE None

\* The number stands for the time and the salt of newScratchId.
newScratchId == Id("scratch", None, steps)

\* A set of at most one: a text over the cap makes no project.
createScratch(projects, name, text) ==
  IF text \in Large THEN {}
  ELSE {[id |-> newScratchId, name |-> uniqueName(name, NamesOf(projects)), text |-> text]}

\* A text over the cap is not kept.
touchScratch(projects, id, text) ==
  IF text \in Large THEN projects
  ELSE [i \in DOMAIN projects |-> IF projects[i].id = id THEN [projects[i] EXCEPT !.text = text] ELSE projects[i]]

renameScratch(projects, id, name) ==
  [i \in DOMAIN projects |-> IF projects[i].id = id THEN [projects[i] EXCEPT !.name = name] ELSE projects[i]]

-----------------------------------------------------------------------------
(* What to open.                                                           *)

Outcome(kind, id, text, told) == [kind |-> kind, id |-> id, text |-> text, told |-> told]

\* What the note names when the link asked for something else than what opened.
ToldOf(intent, failed) ==
  IF intent.src # {} THEN "share"
  ELSE IF failed \/ intent.unknown # {} THEN "id" ELSE None

The(set) == CHOOSE x \in set : TRUE

resolveInitial(intent, decoded) ==
  LET picked  == UNION {resolveSource(id, scratch) : id \in intent.pick}
      current == UNION {resolveSource(id, scratch) : id \in active}
      failedShare == intent.src # {}
      failedPick  == failedShare \/ intent.pick # {}
  IN IF decoded # {} THEN Outcome("share", DefaultId, The(decoded).text, None)
     ELSE IF picked # {}
       THEN Outcome("pick", The(intent.pick), The(picked), IF failedShare THEN "share" ELSE None)
     ELSE IF current # {}
       THEN Outcome("active", The(active), The(current), ToldOf(intent, failedPick))
     ELSE Outcome("default", DefaultId, The(resolveSource(DefaultId, scratch)),
                  IF intent.src = {} /\ intent.pick = {} /\ intent.unknown = {} THEN None
                  ELSE ToldOf(intent, TRUE))

\* loadProject().
Load(id, projects) ==
  \E text \in resolveSource(id, projects) : active' = {id} /\ shown' = text

\* A shared text becomes a project of the reader's own.
Adopt(text) ==
  \E p \in createScratch(scratch, Name("silly"), text) :
    scratch' = Append(scratch, p) /\ Load(p.id, scratch')

\* One too large to be a project is not opened, and nothing else is.
AdoptNothing(text) ==
  /\ createScratch(scratch, Name("silly"), text) = {}
  /\ UNCHANGED <<scratch, active, shown>>

\* A load of the page: the editor begins with what the server rendered.
Bootstrap(intent, codec) ==
  LET outcome == resolveInitial(intent, decodeShare(intent, codec))
  IN /\ ready' = TRUE
     /\ IF outcome.kind = "share"
        THEN \/ /\ Adopt(outcome.text)
                /\ opened' = [kind |-> "share", told |-> "opened"]
             \/ /\ AdoptNothing(outcome.text)
                /\ opened' = [kind |-> "share", told |-> "large"]
        ELSE /\ Load(outcome.id, scratch)
             /\ opened' = [kind |-> outcome.kind, told |-> outcome.told]
             /\ UNCHANGED scratch

BootstrapThrows ==
  ready' = FALSE /\ opened' = [kind |-> None, told |-> None] /\ UNCHANGED <<scratch, active, shown>>

Codecs == {"works", "fails", "absent"}

\* The page is left; another load begins with the text box as rendered.
Leave ==
  /\ Step /\ ready
  /\ ready' = FALSE /\ shown' = Rendered
  /\ UNCHANGED <<scratch, active, link, sent, whole, opened>>

Open ==
  /\ Step /\ ~ready
  /\ IF readHashThrows(link) THEN BootstrapThrows
     ELSE \E codec \in Codecs : Bootstrap(readHash(link), codec)
  /\ UNCHANGED <<link, sent, whole>>

-----------------------------------------------------------------------------
(* What the reader does on the page.                                       *)

Here == Step /\ ready /\ UNCHANGED <<ready, link, sent, whole, opened>>

\* persistSource(): a shipped circuit is forked by the first edit.
Persist(text) ==
  \/ \E id \in {i \in active : idKind(i) = "scratch"} :
       scratch' = touchScratch(scratch, id, text) /\ UNCHANGED active
  \/ /\ \A id \in active : idKind(id) # "scratch"
     /\ \/ \E p \in createScratch(scratch, Name("copy"), text) :
             scratch' = Append(scratch, p) /\ active' = {p.id}
        \/ createScratch(scratch, Name("copy"), text) = {} /\ UNCHANGED <<scratch, active>>

Type == Here /\ \E text \in Texts : text # shown /\ shown' = text /\ Persist(text)

newProject ==
  /\ Here
  /\ \E p \in createScratch(scratch, uniqueName(Name("Untitled"), NamesOf(scratch)), NewText) :
       scratch' = Append(scratch, p) /\ Load(p.id, scratch')

duplicateScratch ==
  /\ Here
  /\ \E i \in DOMAIN scratch : \E p \in createScratch(scratch, scratch[i].name, scratch[i].text) :
       scratch' = Append(scratch, p) /\ Load(p.id, scratch')

deleteProject ==
  /\ Here
  /\ \E i \in DOMAIN scratch :
       /\ scratch' = RemoveAt(scratch, i)
       /\ IF scratch[i].id \in active THEN Load(DefaultId, scratch') ELSE UNCHANGED <<active, shown>>

Rename ==
  /\ Here
  /\ \E i \in DOMAIN scratch : \E name \in NamesOf(scratch) \cup {Name("Untitled")} :
       name # scratch[i].name /\ scratch' = renameScratch(scratch, scratch[i].id, name)
  /\ UNCHANGED <<active, shown>>

Switch ==
  /\ Here /\ UNCHANGED scratch
  /\ \E id \in {scratch[i].id : i \in DOMAIN scratch} \cup {DefaultId} : id \notin active /\ Load(id, scratch)

-----------------------------------------------------------------------------
(* Links.                                                                  *)

Part(name, value) == [name |-> name, value |-> value]
Linked == {ExampleId("alu"), ExampleId("gone")}
Away == Step /\ UNCHANGED <<scratch, active, shown, ready, opened>>

\* shareUrl(): the fragment in front of nothing else.
Share ==
  /\ Away /\ ready
  /\ \E codec \in Codecs : LET result == encodeShare(shown, codec) IN
       /\ result.ok
       /\ link' = <<Part(result.key, result.payload)>>
       /\ sent' = {[key |-> result.key, text |-> shown]}
  /\ whole' = TRUE

\* A page of the documentation links to a circuit, an old one to a circuit that is gone,
\* and any page to a place in this one.
Pick ==
  /\ Away
  /\ \/ \E id \in Linked : link' = <<Part("pick", id)>>
     \/ link' = <<Part("other", Id(None, None, 0))>>
  /\ sent' = {} /\ whole' = TRUE

\* Somebody cuts the end off, puts a character in, or adds another part.
Meddle ==
  /\ Away /\ link # <<>> /\ Len(link) < 3
  /\ \/ \E chars \in {"cut", "mid", "odd", "stray"} :
          /\ Last(link).name \in {"src", "src0"} /\ Last(link).value.chars = "all"
          /\ link' = Front(link) \o <<Part(Last(link).name, [Last(link).value EXCEPT !.chars = chars])>>
     \/ \E id \in Linked :
          link' = Append(link, Part("pick", id))
     \/ link' = Append(link, Part("other", Id(None, None, 0)))
     \/ CutPicks /\ Last(link).name = "pick" /\ link' = Front(link) \o <<Part("pick", Malformed)>>
  /\ whole' = FALSE /\ UNCHANGED sent

Forget == Away /\ link # <<>> /\ link' = <<>> /\ sent' = {} /\ whole' = TRUE

Stop == steps = MaxSteps /\ UNCHANGED vars

Next ==
  \/ Open \/ Leave \/ Type \/ newProject \/ duplicateScratch \/ deleteProject \/ Rename \/ Switch
  \/ Share \/ Pick \/ Meddle \/ Forget \/ Stop

Spec == Init /\ [][Next]_vars

-----------------------------------------------------------------------------
(* Properties.                                                             *)

AllTexts == Texts \cup {"part", NewText, "alu", "gate", "first"}

\* Every value is of its kind, the active project exists, and ids are of one project each.
TypeOK ==
  /\ \A i \in DOMAIN scratch : scratch[i].text \in AllTexts /\ scratch[i].text \notin Large
  /\ \A i, j \in DOMAIN scratch : scratch[i].id = scratch[j].id => i = j
  /\ \A id \in active : resolveSource(id, scratch) # {}
  /\ shown \in AllTexts /\ ready \in BOOLEAN /\ whole \in BOOLEAN
  /\ \A i \in DOMAIN link : link[i].name \in {"src", "src0", "pick", "other"}
  /\ opened.told \in {None, "share", "id", "opened", "large"}
  /\ steps \in 0..MaxSteps

Opens == ~ready /\ ready'

\* A link nobody changed gives its reader the text it was made of, in a project of
\* its own that is the active one, provided that text fits a project; only a deflated
\* link may fail, in a browser that does not inflate, and then the page says so.
SharedComesBack ==
  Opens /\ whole /\ sent # {} => \A s \in sent :
       \/ s.text \in Large
       \/ opened'.kind = "share" /\ shown' = s.text /\ active' # active /\ Len(scratch') = Len(scratch) + 1
       \/ s.key = "src" /\ opened'.kind # "share" /\ opened'.told = "share"

\* A deflated link that opens as a share opens as the text that was sent, whatever
\* became of it on the way; a plain one opens as that text or as its beginning.
DamageIsNoticed ==
  Opens /\ opened'.kind = "share" /\ opened'.told = "opened" => \A s \in sent :
       shown' = s.text \/ (s.key = "src0" /\ shown' = "part")

\* A page that was asked for something and opened what nobody asked for says so.
SaysWhatItDidNotOpen ==
  Opens /\ link # <<>> /\ opened'.kind \in {"active", "default"} => opened'.told # None

\* The link asks for a share and a pick, and the share fails: the pick is what opens.
PickIsKept ==
  Opens /\ opened'.kind # "share" => \A id \in Named(link, "pick") :
       resolveSource(id, scratch) # {} => active' = {id} /\ shown' \in resolveSource(id, scratch)

\* What the editor shows is the text of the active project, or one too large to keep:
\* the next edit is written over the project its reader sees.
EditorShowsTheProject ==
  ready => shown \in Large \/ \A id \in active : shown \in resolveSource(id, scratch)

\* A project is made under a name no project has, whatever its reader called the others.
NewNamesAreFree ==
  \A i \in DOMAIN scratch' :
       (\A k \in DOMAIN scratch : scratch[k].id # scratch'[i].id) => scratch'[i].name \notin NamesOf(scratch)

\* A link opens what it was made of, or the page says that it did not, and no project
\* of the reader's is touched on the way.
LinkOpensWhatWasSent ==
  /\ SharedComesBack /\ DamageIsNoticed /\ SaysWhatItDidNotOpen /\ PickIsKept
  /\ NewNamesAreFree /\ EditorShowsTheProject' /\ TypeOK'

-----------------------------------------------------------------------------
(* What makes it inductive.                                                *)

Projects ==
  [id : [kind : {"scratch"}, slug : {None}, number : Nat], name : [base : {"silly", "copy", "Untitled"}, numbers : Seq(Nat)], text : AllTexts \ Large]
Payloads == [text : AllTexts, deflated : BOOLEAN, chars : {"all", "cut", "mid", "odd", "stray"}]
Parts    == [name : {"src", "src0", "pick", "other"},
             value : Payloads \cup Linked \cup {Malformed, Id(None, None, 0)}]

\* Projects made in the first n steps, each there once.
ListIs(list, n) ==
  /\ list \in Seq(Projects) /\ Len(list) <= n
  /\ \A i \in 1..Len(list) : list[i].id.number < n
  /\ \A i, j \in 1..Len(list) : list[i].id = list[j].id => i = j

\* No more than one project is active, and it exists.
ActiveIs(ids, list) ==
  /\ \A id, other \in ids : id = other
  /\ \A id \in ids : resolveSource(id, list) # {}

\* What became of a link: a text in it is the one that was sent, by its key, though
\* perhaps not all of its characters.
LinkIs ==
  /\ link \in Seq(Parts) /\ Len(link) <= 3
  /\ \A i \in 1..Len(link) : link[i].name \in {"src", "src0"} =>
       /\ link[i].value \in Payloads
       /\ \E s \in sent : /\ link[i].name = s.key /\ link[i].value.text = s.text
                          /\ link[i].value.deflated = (s.key = "src")
  /\ sent \subseteq [key : {"src", "src0"}, text : AllTexts \ Large]
  /\ \A s, t \in sent : s = t
  /\ whole => \A s \in sent : link = <<Part(s.key, Payload(s.text, s.key = "src"))>>

\* What a link carries, and what is left of it when it is cut, fits a project.
LinksFit == Large \subseteq Bulky /\ "part" \notin Large

PageInv ==
  /\ ListIs(scratch, steps) /\ ActiveIs(active, scratch) /\ EditorShowsTheProject
  /\ shown \in AllTexts /\ ready \in BOOLEAN /\ whole \in BOOLEAN /\ LinkIs
  /\ opened.told \in {None, "share", "id", "opened", "large"} /\ steps \in 0..MaxSteps
=============================================================================
