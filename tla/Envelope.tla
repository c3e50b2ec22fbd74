------------------------------ MODULE Envelope ------------------------------
(***************************************************************************)
(* Reading the playground's envelope (utils/playground-store.ts): whatever *)
(* the key holds becomes an envelope the page can use, field by field, and *)
(* an envelope of version 1 is reshaped first. The key is edited by hand,  *)
(* one field after another.                                                *)
(* A value of the parsed JSON is a record with one field, which names its  *)
(* type: [num |-> 3], [str |-> "x"], [bool |-> TRUE]; Junk is of no type   *)
(* the reader expects, and Absent is not there.                            *)
(***************************************************************************)
EXTENDS Integers, Sequences, SequencesExt, FiniteSets, TLC

CONSTANTS
  MaxScratch,    \* MAX_SCRATCH
  MaxExpanded,   \* MAX_EXPANDED
  MaxHandEdits   \* bound: fields edited by hand

VARIABLES raw, handEdits

vars == <<raw, handEdits>>

Absent == [absent |-> TRUE]
Junk   == [junk |-> TRUE]
Num(n) == [num |-> n]
Str(s) == [str |-> s]
Bool(b) == [bool |-> b]

IsNum(v)  == "num" \in DOMAIN v
IsBool(v) == "bool" \in DOMAIN v
IsOneOf(v, S) == "str" \in DOMAIN v /\ v.str \in S

Views == {"schematic", "live", "truth"}
FooterTabs == {"diagnostics", "settings"}
Formats == {"markdown", "csv", "json"}
Tiers == {"introduction", "building-blocks", "advanced"}
ScratchIds == {"scratch:a", "scratch:b", "scratch:c"}
ContentIds == {"example:x", "tour:1"}

-----------------------------------------------------------------------------
(* One field at a time.                                                    *)

FlagOr(v, default) == IF IsBool(v) THEN v.bool ELSE default
MemberOr(v, S, default) == IF IsOneOf(v, S) THEN v.str ELSE default

Clamp(n, low, high) == IF n < low THEN low ELSE IF n > high THEN high ELSE n
ClampOr(v, low, high, default) == IF IsNum(v) THEN Clamp(v.num, low, high) ELSE default

\* normalizeTruthTableCap(), and the editor's font size.
TruthTableCap(v) == ClampOr(v, 1, 24, 12)
FontSize(v) == ClampOr(v, 10, 24, 14)

normalizeSourceWidth(v) == IF IsNum(v) /\ v.num \in 320..8192 THEN v.num ELSE 480

drawerHeight(v) == IF IsNum(v) /\ v.num > 0 THEN v.num ELSE 320

\* The shares in percent; that of the drawer has no meaning any more.
normalizeRatios(v) ==
  IF "shares" \in DOMAIN v
    THEN LET kept == {k \in DOMAIN v.shares : k # "drawer" /\ IsNum(v.shares[k]) /\ v.shares[k].num \in 1..99}
         IN [k \in kept |-> v.shares[k].num]
    ELSE <<>>

Upgraded(id) == IF id \in Tiers THEN "examples" ELSE id

\* Mutant: an id is looked for before it is upgraded.
FirstSeenRaw(ids) == {i \in DOMAIN ids : ~\E j \in 1..(i - 1) : ids[j] = ids[i]}

FirstSeen(ids) == {i \in DOMAIN ids : ~\E j \in 1..(i - 1) : Upgraded(ids[j]) = Upgraded(ids[i])}

\* Ids only ("7" stands for a number), each once, in their order, up to the cap.
normalizeWorkspace(v) ==
  IF "ids" \in DOMAIN v
    THEN LET named == SelectSeq(v.ids, LAMBDA id : id \notin {"", "7"})
             seq   == SetToSortSeq(FirstSeen(named), <)
         IN [i \in 1..(IF Len(seq) < MaxExpanded THEN Len(seq) ELSE MaxExpanded) |-> Upgraded(named[seq[i]])]
    ELSE <<"tour", "examples", "yours">>

\* The list, newest first; those of one time keep their order.
ScratchOrder(list) ==
  LET Before(i, j) == list[i].updatedAt > list[j].updatedAt \/ (list[i].updatedAt = list[j].updatedAt /\ i < j)
      order == SetToSortSeq(DOMAIN list, Before)
  IN [k \in DOMAIN list |-> list[order[k]]]

\* Entries of the wrong shape, or over the cap of a source, are dropped whole.
normalizeScratch(v) ==
  IF "projects" \in DOMAIN v
    THEN LET list == ScratchOrder(SelectSeq(v.projects, LAMBDA p : p.fits))
         IN SubSeq(list, 1, IF Len(list) < MaxScratch THEN Len(list) ELSE MaxScratch)
    ELSE <<>>

IdsOf(list) == {list[i].id : i \in DOMAIN list}

activeId(v, ids) == IF "str" \in DOMAIN v /\ (v.str \notin ScratchIds \/ v.str \in ids) THEN v.str ELSE "null"

normalizeDataPanel(v, ids) ==
  IF "places" \in DOMAIN v
    THEN {id \in v.places : id \in ContentIds \/ (id \in ScratchIds /\ id \in ids)} ELSE {}

-----------------------------------------------------------------------------
(* The whole.                                                              *)

Fields == {"scratch", "activeId", "sourceWidth", "ratios", "format", "truthTableCap", "fontSize", "view", "dataOpen",
           "dataPanel", "drawerHeight", "footerOpen", "footerTab", "expanded", "tab", "dockOpen", "dockTab"}

footerOpen(r) == FlagOr(r["footerOpen"], FALSE)

WithoutMain(v) ==
  IF "shares" \in DOMAIN v THEN [shares |-> [k \in DOMAIN v.shares \ {"main"} |-> v.shares[k]]] ELSE v

\* A tab becomes a view, the dock the footer; the projects ride through.
migrateV1(r) ==
  [r EXCEPT !["view"] = Str(IF IsOneOf(r["tab"], {"truth"}) THEN "truth"
                            ELSE IF IsOneOf(r["tab"], {"simulate", "data"}) THEN "live" ELSE "schematic"),
            !["dataOpen"] = Bool(IsOneOf(r["tab"], {"data"})),
            !["footerOpen"] = r["dockOpen"], !["footerTab"] = r["dockTab"],
            !["sourceWidth"] = Num(480), !["ratios"] = WithoutMain(@),
            !["tab"] = Absent, !["dockOpen"] = Absent, !["dockTab"] = Absent]

Normal(r) ==
  LET scratch == normalizeScratch(r["scratch"])
      ids     == IdsOf(scratch)
  IN [scratch |-> scratch,
      activeId |-> activeId(r["activeId"], ids),
      sourceWidth |-> normalizeSourceWidth(r["sourceWidth"]),
      ratios |-> normalizeRatios(r["ratios"]),
      format |-> MemberOr(r["format"], Formats, "json"),
      truthTableCap |-> TruthTableCap(r["truthTableCap"]),
      fontSize |-> FontSize(r["fontSize"]),
      view |-> MemberOr(r["view"], Views, "live"),
      dataOpen |-> FlagOr(r["dataOpen"], FALSE),
      dataPanel |-> normalizeDataPanel(r["dataPanel"], ids),
      drawerHeight |-> drawerHeight(r["drawerHeight"]),
      footerOpen |-> footerOpen(r),
      footerTab |-> MemberOr(r["footerTab"], FooterTabs, "diagnostics"),
      expanded |-> normalizeWorkspace(r["expanded"])]

Empty == [f \in Fields |-> Absent]

normalize(r) ==
  IF r.version = 2 THEN [envelope |-> Normal(r.fields), note |-> "none"]
  ELSE IF r.version = 1 THEN [envelope |-> Normal(migrateV1(r.fields)), note |-> "none"]
  ELSE [envelope |-> Normal(Empty), note |-> "reset"]

-----------------------------------------------------------------------------
(* The key, edited by hand.                                                *)

P(id, at, fits) == [id |-> id, updatedAt |-> at, fits |-> fits]

Lists == {<<P("scratch:a", 1, TRUE), P("scratch:b", 2, TRUE), P("scratch:c", 2, TRUE)>>,
          <<P("scratch:b", 2, TRUE), P("scratch:a", 3, FALSE)>>,
          <<P("scratch:a", 2, TRUE)>>}

Domain(f) ==
  {Absent, Junk} \cup
  CASE f = "scratch" -> {[projects |-> list] : list \in Lists}
    [] f = "activeId" -> {Str("scratch:a"), Str("scratch:c"), Str("example:x")}
    [] f = "sourceWidth" -> {Num(-1), Num(319), Num(500), Num(9000)}
    [] f = "ratios" -> {[shares |-> s] : s \in {"main" :> Num(40), ("drawer" :> Num(30)) @@ ("cols" :> Num(60)) @@ ("main" :> Num(99)),
                                                ("cols" :> Num(100)) @@ ("rows" :> Junk)}}
    [] f = "format" -> {Str("csv"), Str("xml")}
    [] f \in {"truthTableCap", "fontSize"} -> {Num(0), Num(18), Num(99)}
    [] f = "view" -> {Str("truth"), Str("schematic"), Str("data")}
    [] f \in {"dataOpen", "footerOpen", "dockOpen"} -> {Bool(TRUE), Bool(FALSE)}
    [] f = "dataPanel" -> {[places |-> {"scratch:a", "scratch:c", "example:x", "nowhere"}]}
    [] f = "drawerHeight" -> {Num(0), Num(200)}
    [] f \in {"footerTab", "dockTab"} -> {Str("settings"), Str("data")}
    [] f = "expanded" -> {[ids |-> <<"advanced", "yours", "introduction", "", "tour", "scratch:a">>], [ids |-> <<"7", "tour", "scratch:a", "yours">>]}
    [] f = "tab" -> {Str("data"), Str("truth"), Str("preview")}

\* What the page writes: every field as it is normalized.
Written(e) ==
  [Empty EXCEPT !["scratch"] = [projects |-> e.scratch],
                !["activeId"] = IF e.activeId = "null" THEN Junk ELSE Str(e.activeId),
                !["sourceWidth"] = Num(e.sourceWidth),
                !["ratios"] = [shares |-> [k \in DOMAIN e.ratios |-> Num(e.ratios[k])]],
                !["format"] = Str(e.format), !["truthTableCap"] = Num(e.truthTableCap), !["fontSize"] = Num(e.fontSize),
                !["view"] = Str(e.view), !["dataOpen"] = Bool(e.dataOpen), !["dataPanel"] = [places |-> e.dataPanel],
                !["drawerHeight"] = Num(e.drawerHeight),
                !["footerOpen"] = Bool(e.footerOpen), !["footerTab"] = Str(e.footerTab),
                !["expanded"] = [ids |-> e.expanded]]

Init ==
  /\ handEdits = 0
  /\ \E v \in {1, 2, 9}, list \in Lists : raw = [version |-> v, fields |-> [Empty EXCEPT !["scratch"] = [projects |-> list]]]

HandEdit ==
  /\ handEdits < MaxHandEdits /\ handEdits' = handEdits + 1
  /\ \E f \in Fields : \E v \in Domain(f) : raw' = [raw EXCEPT !.fields[f] = v]

Next == HandEdit
Spec == Init /\ [][Next]_vars

-----------------------------------------------------------------------------

E == normalize(raw).envelope

\* Whatever the key holds, the page gets an envelope it can use.
TypeOK ==
  /\ E.sourceWidth \in 320..8192 /\ E.truthTableCap \in 1..24 /\ E.fontSize \in 10..24 /\ E.drawerHeight > 0
  /\ E.view \in Views /\ E.format \in Formats /\ E.footerTab \in FooterTabs
  /\ Len(E.scratch) <= MaxScratch /\ Len(E.expanded) <= MaxExpanded
  /\ \A k \in DOMAIN E.ratios : E.ratios[k] \in 1..99

\* What is read, written and read again is the same: a load changes nothing
\* that the next load would change again.
ReadingIsStable == normalize([version |-> 2, fields |-> Written(E)]) = [envelope |-> E, note |-> "none"]

\* What an envelope names is in it.
NamesAreThere ==
  /\ E.activeId \in ScratchIds => E.activeId \in IdsOf(E.scratch)
  /\ E.dataPanel \cap ScratchIds \subseteq IdsOf(E.scratch)

\* Version 1 is reshaped, not reset: what both versions have is read alike.
MigrationKeeps == raw.version = 1 =>
  LET same == normalize([raw EXCEPT !.version = 2]).envelope IN
  /\ \A f \in {"scratch", "activeId", "format", "truthTableCap", "fontSize", "dataPanel", "drawerHeight", "expanded"} : E[f] = same[f]
  /\ \A k \in DOMAIN same.ratios \ {"main"} : k \in DOMAIN E.ratios /\ E.ratios[k] = same.ratios[k]

\* Whatever the key holds: a usable envelope is read from it, what it names is in it, a
\* second load reads the same, and version 1 loses nothing that both versions have.
EnvelopeIsUsable == TypeOK /\ ReadingIsStable /\ NamesAreThere /\ MigrationKeeps
=============================================================================
