------------------------------ MODULE RomText -------------------------------
(***************************************************************************)
(* The text a reader types for an image (utils/rom-image.ts,               *)
(* parseRomImage): bytes of two digits, with spaces, commas, lines, 0x and *)
(* comments anywhere between them. A digit is half a byte, 0 or 1 here.    *)
(***************************************************************************)
EXTENDS RomImage

CONSTANTS MaxLen, Width, AddrWidth   \* bound: characters; the memory's shape

VARIABLE text   \* a sequence of characters

Mem    == [width |-> Width, addrWidth |-> AddrWidth]
Digits == {"0", "1"}
Chars  == Digits \cup {"x", "g", "/", "#", " ", "nl"}   \* a comma is a space, "g" any other character

Value(c) == IF c = "1" THEN 1 ELSE 0

\* A comment begins at // or # and ends with its line.
Commented(t, k) ==
  \E j \in 1..k :
    /\ t[j] = "#" \/ (j < Len(t) /\ t[j] = "/" /\ t[j + 1] = "/")
    /\ \A i \in j..k : t[i] # "nl"

Blank(t, k) == t[k] \in {" ", "nl"} \/ Commented(t, k)

\* A comment becomes one space before the tokens are looked for.
Stripped(t, k) == Cardinality({j \in 1..(k - 1) : ~Commented(t, j) \/ j = 1 \/ ~Commented(t, j - 1)})

Starts(t) == {k \in DOMAIN t : ~Blank(t, k) /\ (k = 1 \/ Blank(t, k - 1))}
Ends(t, k) == Min({j \in k..Len(t) : ~Blank(t, j) /\ (j = Len(t) \/ Blank(t, j + 1))})

\* Where a token's digits begin: after 0x.
Body(t, k) == IF k < Ends(t, k) /\ t[k] = "0" /\ t[k + 1] = "x" THEN k + 2 ELSE k

\* What a token says: bytes, or why not. The place counts from one.
Token(t, k) ==
  LET digits == SubSeq(t, Body(t, k), Ends(t, k))
      bad    == {j \in DOMAIN digits : digits[j] \notin Digits}
  IN IF bad # {} THEN [ok |-> FALSE, why |-> "bad_char", at |-> Stripped(t, k) + Min(bad), char |-> digits[Min(bad)], bytes |-> <<>>]
     ELSE IF Len(digits) % 2 # 0 THEN [ok |-> FALSE, why |-> "odd_token", at |-> Stripped(t, k) + 1, char |-> "", bytes |-> <<>>]
     ELSE [ok |-> TRUE, why |-> "", at |-> 0, char |-> "",
           bytes |-> [i \in 1..(Len(digits) \div 2) |-> 2 * Value(digits[2 * i - 1]) + Value(digits[2 * i])]]

\* The first token that says nothing is the answer; then the shape.
parseRomImage(t) ==
  LET tokens == FoldLeft(LAMBDA acc, k : IF ~acc.ok THEN acc ELSE [Token(t, k) EXCEPT !.bytes = acc.bytes \o @],
                         [ok |-> TRUE, why |-> "", at |-> 0, char |-> "", bytes |-> <<>>],
                         SetToSortSeq(Starts(t), <))
      why == validateImageBytes(tokens.bytes, Mem)
  IN IF ~tokens.ok \/ why = "ok" THEN tokens ELSE [tokens EXCEPT !.ok = FALSE, !.why = why]

\* The canonical text of bytes.
hex(bytes) == [j \in 1..(2 * Len(bytes)) |->
                 IF (IF j % 2 = 1 THEN bytes[(j + 1) \div 2] \div 2 ELSE bytes[j \div 2] % 2) = 1 THEN "1" ELSE "0"]

Init == text = <<>>

\* A character is typed.
Next == Len(text) < MaxLen /\ \E c \in Chars : text' = Append(text, c)

Spec == Init /\ [][Next]_text

-----------------------------------------------------------------------------

TypeOK ==
  \E r \in {parseRomImage(text)} :
    /\ r.ok => r.why = "" /\ \A k \in DOMAIN r.bytes : r.bytes[k] \in Byte
    /\ ~r.ok => r.why \in {"bad_char", "odd_token", "not_word_multiple", "too_many_words", "word_exceeds_width"}

\* The characters a reader means as digits: outside comments, without the 0 of a
\* prefix.
Meant == {k \in DOMAIN text : text[k] \in Digits /\ ~Commented(text, k)
                              /\ ~(k < Len(text) /\ text[k + 1] = "x")}

\* A text that is accepted is its digits in their order, two to a byte, and
\* every other character of it is a separator, a comment or a prefix.
DigitsAreTheBytes ==
  \E r \in {parseRomImage(text)} :
    r.ok => hex(r.bytes) = [i \in 1..Cardinality(Meant) |-> text[SetToSortSeq(Meant, <)[i]]]

\* What is accepted is kept as canonical text, and that is accepted as the same.
CanonicalReadsBack ==
  \E r \in {parseRomImage(text)} : r.ok => parseRomImage(hex(r.bytes)).ok /\ parseRomImage(hex(r.bytes)).bytes = r.bytes

\* A text that is accepted is the bytes its digits spell, and is kept as a text that
\* is accepted as the same.
TextIsItsDigits == TypeOK /\ DigitsAreTheBytes /\ CanonicalReadsBack
=============================================================================
