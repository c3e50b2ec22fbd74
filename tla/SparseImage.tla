---------------------------- MODULE SparseImage -----------------------------
(***************************************************************************)
(* What editing a rom promises its reader (scripts/rom-words.ts): some     *)
(* addresses hold a word the reader chose, and each act changes only the   *)
(* address it is about. That an image is a prefix does not show here.      *)
(***************************************************************************)
EXTENDS Naturals

CONSTANTS Cap, MaxWord

VARIABLES
  chosen,   \* address -> the word the reader chose for it
  act       \* what was done last

vars == <<chosen, act>>

Addr == 0..(Cap - 1)
Word == 0..MaxWord

Init == chosen = [a \in {} |-> 0] /\ act = "replace"

Put(a, w) ==
  /\ act' = "set"
  /\ chosen' = [b \in DOMAIN chosen \cup {a} |-> IF b = a THEN w ELSE chosen[b]]

Erase(a) ==
  /\ act' = "unset"
  /\ chosen' = [b \in DOMAIN chosen \ {a} |-> chosen[b]]

\* A text or a file is given, every word of it the reader's; it starts at zero.
Replace ==
  /\ act' = "replace"
  /\ \E n \in 0..Cap : chosen' \in [0..(n - 1) -> Word]

\* Nobody remembers any more which words were chosen and which are in
\* between: the zeros in between count as chosen from here on.
Reload ==
  /\ act' = "reload"
  /\ \E n \in 0..Cap :
       /\ DOMAIN chosen \subseteq 0..(n - 1) /\ (n > 0 => n - 1 \in DOMAIN chosen)
       /\ chosen' = [b \in 0..(n - 1) |-> IF b \in DOMAIN chosen THEN chosen[b] ELSE 0]

Next == (\E a \in Addr, w \in Word : Put(a, w)) \/ (\E a \in Addr : Erase(a)) \/ Replace \/ Reload

Spec == Init /\ [][Next]_vars
=============================================================================
