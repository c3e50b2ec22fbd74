------------------------------ MODULE Console ------------------------------
(***************************************************************************)
(* The console of the page: the log every face writes to, the history of   *)
(* the prompt, the closed line read off the log, and the script copied     *)
(* from it (scripts/console.ts, terminal-line.ts, and consoleSubmit() and  *)
(* the session's subscription in components/Playground.astro). A line that *)
(* resets the session awaits a new runtime, and the page does not stand    *)
(* still. The circuit has one pin of two bits and one memory     *)
(* word.                                                                   *)
(***************************************************************************)
EXTENDS Integers, Sequences, FiniteSets, SequencesExt

CONSTANTS
  Cap,         \* lines the log keeps, scaled down
  HistoryCap,  \* lines the prompt remembers, scaled down
  Typed,       \* the lines a reader types
  MaxSteps     \* bound: lines typed, things other faces do, sessions

VARIABLES
  log,         \* the transcript
  lines, cursor, \* HistoryRing
  said,        \* all lines ever submitted in this terminal
  shown,       \* what the prompt shows after a key
  busy,        \* a line is running: [n, line, session], or Idle
  rebuilt,     \* the session was rebuilt while it ran
  session,     \* [id, pin, word, alive, start]: start is its pin when it was announced
  count,       \* the lines submitted, which number them
  disturbed,   \* whether a line that waited was: "no", by the "page", or it "failed"
  steps

vars == <<log, lines, cursor, said, shown, busy, rebuilt, session, count, disturbed, steps>>

Idle == [n |-> 0, line |-> "none", session |-> 0]
Full == 3
Pins == {[v |-> 0, d |-> Full], [v |-> 2, d |-> Full], [v |-> 3, d |-> 2]}   \* known, and half known with a bit under it
Unknown == [v |-> 0, d |-> 0]
BootLow == [v |-> 0, d |-> Full]
Words == 0..1

\* A line of the log: what kind it is, the command it shows, the number of the
\* command it belongs to, and for a drive the value it was written from.
Line(k, c, n, x) == [k |-> k, c |-> c, n |-> n, x |-> x]
Echo(c, n, x) == Line("echo", c, n, x)
Reply(n) == Line("reply", "none", n, Unknown)
Note(c) == Line("note", c, 0, Unknown)
Handshake == Line("ready", "none", 0, Unknown)

LastOf(s, n) == IF Len(s) > n THEN SubSeq(s, Len(s) - n + 1, Len(s)) ELSE s

\* Transcript.append()
Appended(s, new) == LastOf(s \o new, Cap)

\* The bits of x that are under its mask.
Under(x) == [v |-> 2 * (IF x.d \div 2 = 1 THEN x.v \div 2 ELSE 0) + (IF x.d % 2 = 1 THEN x.v % 2 ELSE 0), d |-> x.d]

\* Mutant: the mask is never written.
valueWithMaskPlain(x) == [v |-> Under(x).v, d |-> Full]

\* A value as the command writes it: canonical, with its mask unless the pin is known.
valueWithMask(x) == IF x.d = Full THEN [v |-> Under(x).v, d |-> Full] ELSE Under(x)

\* commandFor(): what the console prints for something another face did.
commandFor(event, x, n) ==
  CASE event = "drive" -> <<Echo("set", n, valueWithMask(x)), Reply(n)>>
    [] event = "poke" -> <<Echo("poke", n, x), Reply(n)>>
    [] event = "clear" -> <<Echo("clear", n, Unknown), Reply(n)>>
    [] event = "image" -> <<Note("image")>>
    [] event = "reset" -> <<Echo("reset", n, Unknown), Reply(n), Handshake>>

\* The replies follow a rebuilt session before any other event is handled.
Step == ~rebuilt /\ steps < MaxSteps /\ steps' = steps + 1
\* The page moved while a line was running; or the line's runtime failed.
Disturb == disturbed' = IF busy # Idle /\ disturbed = "no" THEN "page" ELSE disturbed
Fail == disturbed' = IF rebuilt THEN disturbed ELSE IF session.alive /\ session.id = busy.session THEN "failed" ELSE disturbed

Ring == <<lines, cursor, said, shown>>

-----------------------------------------------------------------------------
\* The prompt.

\* HistoryRing.push(): not the empty line, and not the newest again.
Pushed(line) ==
  IF line = "empty" \/ (lines # <<>> /\ Last(lines) = line) THEN lines
  ELSE LastOf(Append(lines, line), HistoryCap)

Remember(line) ==
  /\ lines' = Pushed(line) /\ cursor' = Len(Pushed(line)) /\ shown' = "empty"
  /\ said' = Append(said, line)

Up ==
  /\ lines # <<>> /\ cursor' = (IF cursor > 0 THEN cursor - 1 ELSE 0)
  /\ shown' = lines[cursor' + 1]
  /\ UNCHANGED <<log, lines, said, busy, rebuilt, session, count, disturbed, steps>>

Down ==
  /\ lines # <<>> /\ cursor < Len(lines) /\ cursor' = cursor + 1
  /\ shown' = IF cursor' = Len(lines) THEN "empty" ELSE lines[cursor' + 1]
  /\ UNCHANGED <<log, lines, said, busy, rebuilt, session, count, disturbed, steps>>

\* The session after a line that is answered at once, and the lines it prints.
\* A `load` is refused here; `help` and a comment print nothing a script reads.
Ran(line, s) ==
  CASE line = "set" -> [s EXCEPT !.pin = BootLow]
    [] line = "poke" -> [s EXCEPT !.word = [v |-> 1, d |-> Full]]
    [] OTHER -> s

Answers(line, n) == IF line \in {"help", "empty"} THEN <<>> ELSE <<Reply(n)>>
Value(line) == IF line = "set" THEN BootLow ELSE IF line = "poke" THEN [v |-> 1, d |-> Full] ELSE Unknown

\* consoleSubmit(): the echo, then the replies; a reset awaits a runtime.
Submit(line) ==
  LET n == count + 1 IN
  /\ Step /\ session.alive /\ busy = Idle
  /\ Remember(line) /\ count' = n
  /\ IF line \in {"reset", "quit"}
     THEN /\ busy' = [n |-> n, line |-> line, session |-> session.id]
          /\ log' = Appended(log, <<Echo(line, n, Unknown)>>) /\ UNCHANGED session
     ELSE /\ log' = Appended(log, <<Echo(line, n, Value(line))>> \o Answers(line, n))
          /\ session' = Ran(line, session) /\ UNCHANGED busy
  /\ UNCHANGED <<rebuilt, disturbed>>

\* The runtime is there: nothing is known of the circuit, and the preloads are applied.
Reloaded ==
  /\ busy # Idle /\ session.id = busy.session /\ session.alive /\ ~rebuilt
  /\ session' = [session EXCEPT !.pin = Unknown, !.word = Unknown, !.start = Unknown]
  /\ rebuilt' = TRUE
  /\ UNCHANGED <<log, Ring, busy, count, disturbed, steps>>

\* The reply of a line that waited, then the handshake of the session. The
\* reset of a session that is gone, or whose runtime fails, ends without one.
Finish ==
  /\ busy # Idle
  /\ log' = IF rebuilt THEN Appended(log, <<Reply(busy.n), Handshake>>) ELSE log
  /\ Fail
  /\ busy' = Idle /\ rebuilt' = FALSE
  /\ UNCHANGED <<Ring, session, count, steps>>

\* What another face did is logged, unless a line is running.
Recorded(event, x, n) == IF busy = Idle THEN Appended(log, commandFor(event, x, n)) ELSE log

\* Another face drives the pin, writes or clears the word, applies an image, or
\* resets the session.
Face(event, x) ==
  /\ Step /\ session.alive /\ count' = count + 1
  /\ session' = CASE event = "drive" -> [session EXCEPT !.pin = Under(x)]
                  [] event = "poke" -> [session EXCEPT !.word = x]
                  [] event = "clear" -> [session EXCEPT !.word = Unknown]
                  [] event = "image" -> [session EXCEPT !.word = [v |-> 1, d |-> Full]]
                  [] event = "reset" -> [session EXCEPT !.pin = Unknown, !.word = Unknown, !.start = Unknown]
  /\ event = "reset" => busy = Idle
  /\ log' = Recorded(event, x, count + 1)
  /\ Disturb
  /\ UNCHANGED <<Ring, busy, rebuilt>>

\* buildSession(): the handshake, then the reader's pins again, which is silent.
Build(remembered) ==
  /\ Step /\ ~session.alive
  /\ session' = [id |-> session.id + 1, pin |-> remembered, word |-> Unknown, alive |-> TRUE, start |-> remembered]
  /\ log' = Appended(log, <<Handshake>>)
  /\ Disturb
  /\ UNCHANGED <<Ring, busy, rebuilt, count>>

\* An edit ends the session.
Drop ==
  /\ Step /\ session.alive
  /\ session' = [session EXCEPT !.alive = FALSE]
  /\ log' = Appended(log, <<Note("session ended")>>)
  /\ Disturb
  /\ UNCHANGED <<Ring, busy, rebuilt, count>>

\* consoleClear(), and consoleNewSession() when another project is opened.
Clear ==
  /\ Step /\ log' = <<>>
  /\ Disturb
  /\ UNCHANGED <<Ring, busy, rebuilt, session, count>>

OpenProject ==
  /\ Step /\ log' = <<>> /\ session' = [session EXCEPT !.alive = FALSE]
  /\ lines' = <<>> /\ cursor' = 0 /\ said' = <<>> /\ shown' = "empty"
  /\ Disturb
  /\ UNCHANGED <<busy, rebuilt, count>>

Init ==
  /\ log = <<Handshake>> /\ lines = <<>> /\ cursor = 0 /\ said = <<>> /\ shown = "empty"
  /\ busy = Idle /\ rebuilt = FALSE
  /\ session = [id |-> 1, pin |-> BootLow, word |-> Unknown, alive |-> TRUE, start |-> BootLow]
  /\ count = 0 /\ disturbed = "no" /\ steps = 0

Next ==
  \/ \E line \in Typed : Submit(line)
  \/ Up \/ Down \/ Reloaded \/ Finish \/ Drop \/ Clear \/ OpenProject
  \/ \E x \in Pins : Face("drive", x) \/ Build(Under(x))
  \/ \E w \in Words : Face("poke", [v |-> w, d |-> Full])
  \/ Face("clear", Unknown) \/ Face("image", Unknown) \/ Face("reset", Unknown)

\* A runtime that is awaited comes or fails.
Fairness == WF_vars(Finish)
Spec == Init /\ [][Next]_vars /\ Fairness

-----------------------------------------------------------------------------

Trits == [v : Nat, d : 0..Full]
Shows == {"set", "poke", "clear", "reset", "quit", "load", "help", "empty", "image", "session ended", "none"}
LogLine == [k : {"echo", "reply", "note", "ready"}, c : Shows, n : Nat, x : Trits]

TypeOK ==
  /\ log \in Seq(LogLine) /\ Len(log) <= Cap /\ \A i \in DOMAIN log : log[i].n <= count
  /\ lines \in Seq(Typed) /\ Len(lines) <= HistoryCap /\ cursor \in 0..Len(lines) /\ said \in Seq(Typed)
  /\ busy \in [n : 0..count, line : Typed \cup {"none"}, session : Nat] /\ rebuilt \in BOOLEAN
  /\ session \in [id : Nat, pin : Trits, word : Trits, alive : BOOLEAN, start : Trits]
  /\ count \in Nat /\ disturbed \in {"no", "page", "failed"} /\ steps \in 0..MaxSteps

\* scriptOf(): the echoes without their mark, and the notes.
InScript(l) == l.k \in {"echo", "note"}

\* What a script's line does to a session that begins as this one began.
Does(state, l) ==
  CASE l.c = "set" -> [state EXCEPT !.pin = l.x]
    [] l.c = "poke" -> [state EXCEPT !.word = l.x]
    [] l.c = "clear" -> [state EXCEPT !.word = Unknown]
    [] l.c = "reset" \/ l.c = "quit" -> [state EXCEPT !.pin = Unknown, !.word = Unknown]
    [] OTHER -> state

Then(state, l) == IF InScript(l) THEN Does(state, l) ELSE state

\* The state the script in s leads to, line after line.
Replay(state, s) ==
  LET at[i \in 0..Len(s)] == IF i = 0 THEN state ELSE Then(at[i - 1], s[i])
  IN at[Len(s)]

\* A log from its newest handshake on.
Announced(s) == {i \in DOMAIN s : s[i].k = "ready"}
Newest(s) == CHOOSE i \in Announced(s) : \A j \in Announced(s) : j <= i
Since(s) == SubSeq(s, Newest(s), Len(s))

RecordOf(state, s) ==
  /\ state.pin = session.pin
  /\ (\A i \in DOMAIN s : s[i].c # "image") => state.word = session.word

\* The script in the log since the last handshake, run on a session that began
\* as this one, leads to this session: also what other faces did.
LogIsTheRecord ==
  session.alive /\ busy = Idle /\ disturbed = "no" /\ Announced(log) # {} =>
    RecordOf(Replay([pin |-> session.start, word |-> Unknown], Since(log)), Since(log))

\* summaryOf(): the last command and the first line printed after it.
Echoes(s) == {i \in DOMAIN s : s[i].k = "echo"}
LastEcho(s) == CHOOSE i \in Echoes(s) : \A j \in Echoes(s) : j <= i
After(s) == {i \in DOMAIN s : i > LastEcho(s) /\ s[i].k # "note"}
FirstAfter(s) == s[CHOOSE i \in After(s) : \A j \in After(s) : i <= j]

Paired(s) ==
  Echoes(s) # {} /\ After(s) # {} => FirstAfter(s).k = "ready" \/ FirstAfter(s).n = s[LastEcho(s)].n

\* The closed line never shows a command with the reply to another.
SummaryPairs == disturbed = "no" => Paired(log)

RepliedFirst(s) ==
  \A i, j \in DOMAIN s :
    i < j /\ s[i].k = "echo" /\ s[j].k = "reply" /\ s[i].n = s[j].n => \A m \in i..j : s[m].k # "ready"

\* A handshake is announced once the reply that caused it is in the log.
RepliesFirst == disturbed = "no" => RepliedFirst(log)

\* The prompt remembers the lines of this terminal, no line twice in a row and
\* no empty one, and only so many.
Remembered(before, line) ==
  IF line = "empty" \/ (before # <<>> /\ Last(before) = line) THEN before ELSE Append(before, line)

Distinct(s) ==
  LET kept[i \in 0..Len(s)] == IF i = 0 THEN <<>> ELSE Remembered(kept[i - 1], s[i])
  IN kept[Len(s)]

HistoryIsTheTail == lines = LastOf(Distinct(said), HistoryCap)

\* The log is a record of the session: run as a script it leads to this session, and
\* replies stand with the commands they answer.
LogTellsTheSession ==
  TypeOK /\ LogIsTheRecord /\ SummaryPairs /\ RepliesFirst /\ HistoryIsTheTail

-----------------------------------------------------------------------------
(* What makes them inductive.                                              *)

\* While a line runs and nothing disturbs it, its echo is the last line of the log, the
\* lines before are of earlier commands, and its session is there.
EchoIsLast ==
  busy # Idle /\ disturbed = "no" =>
    /\ busy.n = count /\ session.alive /\ session.id = busy.session
    /\ log # <<>> /\ log[Len(log)].k = "echo" /\ log[Len(log)].n = busy.n
    /\ \A i \in 1..(Len(log) - 1) : log[i].n < busy.n

\* A runtime that came for a reset begins with nothing known, until the replies are out.
RebuiltIsFresh ==
  rebuilt => /\ busy # Idle /\ session.alive
             /\ session.pin = Unknown /\ session.word = Unknown /\ session.start = Unknown

ConsoleInv == LogTellsTheSession /\ EchoIsLast /\ RebuiltIsFresh
=============================================================================
