------------------------------ MODULE RomImage ------------------------------
(***************************************************************************)
(* A memory's image: little-endian words of a whole number of bytes each   *)
(* and nothing else. The site reads and writes it (utils/rom-image.ts,     *)
(* scripts/rom-words.ts), and so does the runtime (lib/memimage.zig). A    *)
(* byte is ByteBits bits wide, 8 in the program.                           *)
(***************************************************************************)
EXTENDS Integers, Sequences, FiniteSetsExt, SequencesExt

CONSTANT ByteBits

Byte == 0..(2^ByteBits - 1)
Unknown == -1   \* a cell with no known bit

bytesPerWord(mem) == (mem.width + ByteBits - 1) \div ByteBits
maxWords(mem) == 2^mem.addrWidth
mask(mem) == 2^mem.width - 1

readWord(bytes, index, bpw) ==
  MapThenSumSet(LAMBDA k : bytes[index * bpw + k + 1] * 2^(ByteBits * k), 0..(bpw - 1))

\* The first reason to refuse it, in the order the runtime has them too.
validateImageBytes(bytes, mem) ==
  LET bpw   == bytesPerWord(mem)
      words == Len(bytes) \div bpw
  IN IF Len(bytes) % bpw # 0 THEN "not_word_multiple"
     ELSE IF words > maxWords(mem) THEN "too_many_words"
     ELSE IF \E i \in 0..(words - 1) : readWord(bytes, i, bpw) > mask(mem) THEN "word_exceeds_width"
     ELSE "ok"

Readable(bytes, mem) == validateImageBytes(bytes, mem) = "ok"

wordsOf(bytes, mem) ==
  [i \in 1..(Len(bytes) \div bytesPerWord(mem)) |-> readWord(bytes, i - 1, bytesPerWord(mem)) % (mask(mem) + 1)]

imageOf(words, mem) ==
  LET bpw == bytesPerWord(mem)
  IN [j \in 1..(Len(words) * bpw) |->
        (words[(j - 1) \div bpw + 1] \div 2^(ByteBits * ((j - 1) % bpw))) % 2^ByteBits]

\* What the grid shows of an image that is not loaded yet.
imageCells(bytes, mem) ==
  LET words == wordsOf(bytes, mem)
  IN [a \in 0..(maxWords(mem) - 1) |-> IF a < Len(words) THEN words[a + 1] ELSE Unknown]

\* A binary file is taken.
imageFromBytes(bytes, mem) ==
  /\ Len(bytes) <= maxWords(mem) * bytesPerWord(mem)
  /\ Len(bytes) % bytesPerWord(mem) = 0
  /\ Readable(bytes, mem)

-----------------------------------------------------------------------------
(* lib/memimage.zig. A rejected image leaves the cells as they are.        *)

\* Mutant: the cells past the image keep what they held.
decodeOver(bytes, mem, cells) ==
  LET bpw == bytesPerWord(mem)
  IN [a \in DOMAIN cells |-> IF a < Len(bytes) \div bpw THEN readWord(bytes, a, bpw) ELSE cells[a]]

decode(bytes, mem, cells) ==
  LET bpw == bytesPerWord(mem)
  IN IF ~Readable(bytes, mem) THEN cells
     ELSE [a \in DOMAIN cells |-> IF a < Len(bytes) \div bpw THEN readWord(bytes, a, bpw) ELSE Unknown]

encode(cells, mem) == imageOf([i \in 1..maxWords(mem) |-> IF cells[i - 1] = Unknown THEN 0 ELSE cells[i - 1]], mem)
=============================================================================
