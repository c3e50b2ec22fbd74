------------------------------ MODULE SimLine ------------------------------
(***************************************************************************)
(* The request grammar of --sim as the console reads it                    *)
(* (scripts/sim-protocol.ts): a literal, character by character, and a     *)
(* line, token by token. Both are typed one element at a time, and what    *)
(* the code makes of them is compared with what they mean.                 *)
(***************************************************************************)
EXTENDS Naturals, Sequences, SequencesExt, TLC

CONSTANTS
  Limit,        \* stands for U64_MAX
  Chars,        \* what a literal is typed with
  MaxChars,     \* bound: characters of a literal
  Verbs, Words, \* what a line is typed with
  MaxTokens     \* bound: tokens of a line

VARIABLES text, line

vars == <<text, line>>

Init == text = <<>> /\ line = <<>>

TypeChar == /\ line = <<>> /\ Len(text) < MaxChars
            /\ \E c \in Chars : text' = Append(text, c)
            /\ UNCHANGED line

TypeToken == /\ text = <<>> /\ Len(line) < MaxTokens
             /\ \E t \in (IF line = <<>> THEN Verbs ELSE Words) : line' = Append(line, t)
             /\ UNCHANGED text

Next == TypeChar \/ TypeToken
Spec == Init /\ [][Next]_vars

-----------------------------------------------------------------------------
(* parseValue()                                                            *)

Digits == <<"0", "1", "2", "3", "4", "5", "6", "7", "8", "9", "a", "b", "c", "d", "e", "f", "g">>

\* 99 for what is no digit in any base.
digitOf(c) == IF c \in ToSet(Digits) THEN (CHOOSE i \in DOMAIN Digits : Digits[i] = c) - 1 ELSE 99

NoValue == [ok |-> FALSE]
Value(v) == [ok |-> TRUE, value |-> v]

Drop(s, n) == SubSeq(s, n + 1, Len(s))
Signed(s) == s # <<>> /\ s[1] \in {"+", "-"}

\* The base a prefix names; a prefix needs a digit after it.
BaseOf(s) == IF Len(s) > 2 /\ s[1] = "0"
               THEN CASE s[2] = "b" -> 2 [] s[2] = "o" -> 8 [] s[2] = "x" -> 16 [] OTHER -> 10 ELSE 10

\* One digit after another, up to the first that does not fit.
Accumulate(base, digits) ==
  FoldLeft(LAMBDA acc, c : IF ~acc.ok \/ c = "_" THEN acc
                           ELSE IF digitOf(c) >= base \/ acc.value * base + digitOf(c) > Limit THEN NoValue
                           ELSE Value(acc.value * base + digitOf(c)), Value(0), digits)

parseValue(s) ==
  LET buf    == IF Signed(s) THEN Tail(s) ELSE s
      base   == BaseOf(buf)
      digits == IF base = 10 THEN buf ELSE Drop(buf, 2)
      acc    == Accumulate(base, digits)
  IN IF buf = <<>> \/ Head(digits) = "_" \/ Last(digits) = "_" THEN NoValue
     ELSE IF acc.ok /\ s[1] = "-" /\ acc.value # 0 THEN NoValue ELSE acc

\* writeHex(): as many digits as the value has, one for 0.
writeHex(v) ==
  LET n == CHOOSE k \in 1..(v + 1) : 16^k > v /\ (k = 1 \/ 16^(k - 1) <= v)
  IN <<"0", "x">> \o [i \in 1..n |-> Digits[((v \div 16^(n - i)) % 16) + 1]]

-----------------------------------------------------------------------------
(* parseLine()                                                             *)

Shape(required, optional, strict) == [required |-> required, optional |-> optional, strict |-> strict]

\* What each verb wants; "strict" counts its tokens before it reads a literal.
Shapes ==
  [v \in {"mems"} |-> Shape(<<>>, <<>>, TRUE)] @@
  [v \in {"load", "save"} |-> Shape(<<"name", "name">>, <<>>, TRUE)] @@
  [v \in {"clear", "get"} |-> Shape(<<"name">>, <<>>, TRUE)] @@
  [v \in {"dump"} |-> Shape(<<"which">>, <<>>, TRUE)] @@
  [v \in {"peek"} |-> Shape(<<"name", "value">>, <<>>, TRUE)] @@
  [v \in {"poke"} |-> Shape(<<"name", "value", "value">>, <<"value">>, FALSE)] @@
  [v \in {"set"} |-> Shape(<<"name", "value">>, <<"value">>, FALSE)] @@
  [v \in {"mem"} |-> Shape(<<"name">>, <<"value", "value">>, FALSE)]

\* These four look at nothing after the verb.
Bare == {"pins", "run", "reset", "quit"}

\* The literals of a token that do not parse, by token.
IsLiteral(t) == t = "1"
Assignments == {"a=1", "a=n", "a=1/1", "a=1/n"}
BadAssignments == {"a=n", "a=1/n"}
Whichs == {"in", "out", "all"}

\* Mutant: peek reads its address before it counts.
CountsLate(shape, args) == FALSE

CountsFirst(shape, args) == shape.strict /\ Len(args) > Len(shape.required)

ParseShape(shape, args) ==
  LET all  == shape.required \o shape.optional
      seen == {i \in 1..Len(args) : i <= Len(all)}
  IN IF Len(args) < Len(shape.required) \/ CountsFirst(shape, args) THEN "malformed"
     ELSE IF \E i \in seen : all[i] = "value" /\ ~IsLiteral(args[i]) THEN "badval"
     ELSE IF Len(args) > Len(all) \/ \E i \in seen : all[i] = "which" /\ args[i] \notin Whichs THEN "malformed"
     ELSE "ok"

\* eval: assignments, one arrow, queries; the first fault decides.
EvalStep(state, t) ==
  IF state.fault # "none" THEN state
  ELSE IF t = "=>" THEN [state EXCEPT !.arrow = TRUE, !.fault = IF state.arrow THEN "malformed" ELSE "none"]
  ELSE IF state.arrow THEN state
  ELSE IF t \notin Assignments THEN [state EXCEPT !.fault = "malformed"]
  ELSE IF t \in BadAssignments THEN [state EXCEPT !.fault = "badval"] ELSE state

ParseEval(args) ==
  LET end == FoldLeft(EvalStep, [arrow |-> FALSE, fault |-> "none"], args)
  IN IF end.fault # "none" THEN end.fault ELSE IF end.arrow THEN "ok" ELSE "malformed"

parseLine(tokens) ==
  IF tokens = <<>> THEN "empty"
  ELSE IF tokens[1] \in Bare THEN "ok"
  ELSE IF tokens[1] = "eval" THEN ParseEval(Tail(tokens))
  ELSE IF tokens[1] \in DOMAIN Shapes THEN ParseShape(Shapes[tokens[1]], Tail(tokens))
  ELSE "malformed"

-----------------------------------------------------------------------------
(* What literals and lines mean.                                           *)

BasePrefixes == {<<>>, <<"0", "b">>, <<"0", "o">>, <<"0", "x">>}
Radix(prefix) == IF prefix = <<>> THEN 10 ELSE CASE prefix[2] = "b" -> 2 [] prefix[2] = "o" -> 8 [] OTHER -> 16

\* The positional value of digits; underscores hold no position.
Positional(base, ds) ==
  FoldLeft(+, 0, [i \in 1..Len(ds) |-> digitOf(ds[i]) * base^(Len(ds) - i)])

\* The literals: a sign, a prefix, digits of its base with underscores between.
IsReading(s, sign, prefix, v) ==
  \E n \in {Len(sign) + Len(prefix)} :
    /\ Len(s) > n /\ SubSeq(s, 1, n) = sign \o prefix
    /\ LET body == Drop(s, n)
           ds   == SelectSeq(body, LAMBDA c : c # "_")
       IN /\ Head(body) # "_" /\ Last(body) # "_"
          /\ \A c \in ToSet(ds) : digitOf(c) < Radix(prefix)
          /\ v = Positional(Radix(prefix), ds) /\ v <= Limit
          /\ sign = <<"-">> => v = 0

Readings(s) == {v \in 0..Limit : \E sign \in {<<>>, <<"+">>, <<"-">>}, prefix \in BasePrefixes : IsReading(s, sign, prefix, v)}

\* A literal is taken for its positional value, in the base its prefix names,
\* and refused when it has none or one beyond the limit.
ValueIsItsReading ==
  LET parsed == parseValue(text)
  IN IF parsed.ok THEN Readings(text) = {parsed.value} ELSE Readings(text) = {}

\* The console can be told what it printed: a value written is read again.
WrittenIsRead == text # <<>> /\ parseValue(text).ok =>
  LET v == parseValue(text).value IN parseValue(writeHex(v)) = Value(v)

-----------------------------------------------------------------------------
(* lib/sim/protocol.zig reads a line with one iterator: it takes tokens, asks  *)
(* for the end, and parses literals, in this order for each verb.              *)

Take == <<"take">>   \* the next token, or malformed
End  == <<"end">>    \* no token left, or malformed
Opt  == <<"opt">>    \* the next token and its literal, if there is one
Lit(i) == <<"lit", i>>  \* the literal of the i-th token taken

CliSteps ==
  [v \in {"mems"} |-> <<End>>] @@
  [v \in {"load", "save"} |-> <<Take, Take, End>>] @@
  [v \in {"clear", "get", "dump"} |-> <<Take, End>>] @@
  [v \in {"peek"} |-> <<Take, Take, End, Lit(2)>>] @@
  [v \in {"poke"} |-> <<Take, Take, Take, Lit(2), Lit(3), Opt, End>>] @@
  [v \in {"set"} |-> <<Take, Take, Lit(2), Opt, End>>] @@
  [v \in {"mem"} |-> <<Take, Opt, Opt, End>>]

CliStep(args, state, step) ==
  LET left == state.at < Len(args) IN
  IF state.outcome # "ok" THEN state
  ELSE IF step \notin {Take, End, Opt} THEN [state EXCEPT !.outcome = IF IsLiteral(args[step[2]]) THEN "ok" ELSE "badval"]
  ELSE IF step = End THEN [state EXCEPT !.outcome = IF left THEN "malformed" ELSE "ok"]
  ELSE IF step = Take THEN [at |-> state.at + 1, outcome |-> IF left THEN "ok" ELSE "malformed"]
  ELSE IF ~left THEN state
  ELSE [at |-> state.at + 1, outcome |-> IF IsLiteral(args[state.at + 1]) THEN "ok" ELSE "badval"]

\* eval is refused for the first token at fault, and without an arrow.
CliEval(args) ==
  LET Arrow(i)  == args[i] = "=>"
      Passed(i) == \E k \in 1..(i - 1) : Arrow(k)
      Fault(i)  == \/ Arrow(i) /\ Passed(i)
                   \/ ~Arrow(i) /\ ~Passed(i) /\ args[i] \notin Assignments \ BadAssignments
      faults    == {i \in DOMAIN args : Fault(i)}
      first     == CHOOSE i \in faults : \A k \in faults : i <= k
  IN IF faults # {} THEN (IF args[first] \in BadAssignments THEN "badval" ELSE "malformed")
     ELSE IF Passed(Len(args) + 1) THEN "ok" ELSE "malformed"

CliOutcome(tokens) ==
  IF tokens = <<>> THEN "empty"
  ELSE LET verb == tokens[1]
           args == Tail(tokens)
       IN IF verb \in Bare THEN "ok"
          ELSE IF verb = "eval" THEN CliEval(args)
          ELSE IF verb \notin DOMAIN CliSteps THEN "malformed"
          ELSE LET walk == FoldLeft(LAMBDA state, step : CliStep(args, state, step),
                                    [at |-> 0, outcome |-> "ok"], CliSteps[verb])
               IN IF verb = "dump" /\ walk.outcome = "ok" /\ args[1] \notin Whichs THEN "malformed" ELSE walk.outcome

\* What the console accepts is what the command line accepts, and it refuses a
\* line for the same reason: the one that comes first decides.
SameAsCli == parseLine(line) = CliOutcome(line)

\* What is typed stays within the bounds.
TypeOK ==
  /\ text \in Seq(Chars) /\ Len(text) <= MaxChars /\ Len(line) <= MaxTokens
  /\ parseValue(text).ok => parseValue(text).value \in 0..Limit
  /\ parseLine(line) \in {"empty", "ok", "malformed", "badval"}

\* A line means what it means to the command line: its literals their numbers, its
\* refusal the same fault.
LinesMeanTheSame == TypeOK /\ ValueIsItsReading /\ WrittenIsRead /\ SameAsCli
=============================================================================
