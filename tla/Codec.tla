-------------------------------- MODULE Codec --------------------------------
(***************************************************************************)
(* What ai-daemon-decode computes of a PNG: the canonical Huffman decoder, *)
(* the run-length code lengths of a dynamic block, the back-references of  *)
(* a block and the row filters, each beside the definition it must meet.   *)
(*                                                                         *)
(* A bit stream is a sequence of bits.  A result is [ok, seq]; a refusal   *)
(* has no bytes.                                                           *)
(***************************************************************************)
EXTENDS Integers, Sequences, SequencesExt, FiniteSetsExt

Decoded(seq) == [ok |-> TRUE, seq |-> seq]
Undecodable == [ok |-> FALSE, seq |-> << >>]

-----------------------------------------------------------------------------
(* Huffman.  lengths[s] is the length of symbol s's code, 0 for none.      *)

counts(lengths, n) == Cardinality({s \in DOMAIN lengths : lengths[s] = n})

symbols_unsorted(lengths) ==
  SetToSortSeq({s \in DOMAIN lengths : lengths[s] # 0}, LAMBDA s, t : s < t)

\* Huffman::new is a counting sort: by length, then by symbol.
symbols(lengths) ==
  SetToSortSeq({s \in DOMAIN lengths : lengths[s] # 0},
               LAMBDA s, t : lengths[s] < lengths[t] \/ (lengths[s] = lengths[t] /\ s < t))

\* Huffman::decode from the given loop state; 0 is a refusal.
RECURSIVE decode_from(_, _, _, _, _, _)
decode_from(lengths, bits, length, code, first, index) ==
  IF length > 15 \/ length > Len(bits) THEN 0
  ELSE LET c == code + bits[length]
           count == counts(lengths, length)
       IN  IF c - first < count THEN symbols(lengths)[index + c - first + 1]
           ELSE decode_from(lengths, bits, length + 1,
                            2 * c, 2 * (first + count), index + count)

huffman_decode(lengths, bits) == decode_from(lengths, bits, 1, 0, 0, 0)

\* The bits of 2^L are dealt out in order of length, then symbol: a symbol
\* is read when the bits fall in its share.
HuffmanExact(lengths, bits) ==
  LET L == Max({1} \cup {lengths[s] : s \in DOMAIN lengths})
      coded == {s \in DOMAIN lengths : lengths[s] # 0}
      share(s) == 2 ^ (L - lengths[s])
      before(s) == {t \in coded : \/ lengths[t] < lengths[s]
                                  \/ lengths[t] = lengths[s] /\ t < s}
      start(s) == MapThenSumSet(share, before(s))
      value(n) == MapThenSumSet(LAMBDA k : bits[k] * 2 ^ (L - k), 1..n)
      reads(s) == /\ lengths[s] <= Len(bits)
                  /\ value(lengths[s]) = start(s)
      got == huffman_decode(lengths, bits)
  IN  /\ got \in coded \cup {0}
      /\ MapThenSumSet(share, coded) <= 2 ^ L =>
           IF \E s \in coded : reads(s) THEN reads(got) ELSE got = 0

-----------------------------------------------------------------------------
(* The code lengths of a dynamic block.  A token is [sym, extra], the      *)
(* symbol the code-length code gave and the extra bits read after it.      *)

LengthsOverrun(tokens, n) ==
  LET RECURSIVE go(_, _)
      go(k, got) ==
        IF Len(got) >= n THEN Decoded(SubSeq(got, 1, n))
        ELSE IF k > Len(tokens) THEN Undecodable
        ELSE LET t == tokens[k]
                 run(len, times) == [j \in 1..times |-> len]
             IN  CASE t.sym <= 15 -> go(k + 1, Append(got, t.sym))
                   [] t.sym = 16 /\ got = << >> -> Undecodable
                   [] t.sym = 16 /\ got # << >> -> go(k + 1, got \o run(Last(got), 3 + t.extra))
                   [] t.sym = 17 -> go(k + 1, got \o run(0, 3 + t.extra))
                   [] t.sym = 18 -> go(k + 1, got \o run(0, 11 + t.extra))
  IN  go(1, << >>)

\* Overrunning the table is an error, at once for a repeat and after the
\* loop for a run of zeros.
code_lengths(tokens, n) ==
  LET RECURSIVE go(_, _)
      go(k, got) ==
        IF Len(got) > n THEN Undecodable
        ELSE IF Len(got) = n THEN Decoded(got)
        ELSE IF k > Len(tokens) THEN Undecodable
        ELSE LET t == tokens[k]
                 run(len, times) == [j \in 1..times |-> len]
             IN  CASE t.sym <= 15 -> go(k + 1, Append(got, t.sym))
                   [] t.sym = 16 /\ got = << >> -> Undecodable
                   [] t.sym = 16 /\ got # << >> -> go(k + 1, got \o run(Last(got), 3 + t.extra))
                   [] t.sym = 17 -> go(k + 1, got \o run(0, 3 + t.extra))
                   [] t.sym = 18 -> go(k + 1, got \o run(0, 11 + t.extra))
  IN  go(1, << >>)

\* A table is accepted only when the tokens read fill it exactly, and then
\* every place holds what the token covering it says.
LengthsExact(tokens, n) ==
  LET width(t) == CASE t.sym <= 15 -> 1
                    [] t.sym \in {16, 17} -> 3 + t.extra
                    [] t.sym = 18 -> 11 + t.extra
      upto(k) == FoldLeft(LAMBDA sum, t : sum + width(t), 0, SubSeq(tokens, 1, k))
      says(k) == CASE tokens[k].sym <= 15 -> tokens[k].sym
                   [] tokens[k].sym > 16 -> 0
                   [] tokens[k].sym = 16 ->
                        LET j == Max({i \in 1..k : tokens[i].sym # 16})
                        IN  IF tokens[j].sym <= 15 THEN tokens[j].sym ELSE 0
      fills == {k \in DOMAIN tokens : upto(k) = n}
      got == code_lengths(tokens, n)
  IN  /\ got.ok <=> fills # {} /\ tokens[1].sym # 16
      /\ got.ok => /\ Len(got.seq) = n
                   /\ \A k \in 1..Min(fills) : \A i \in (upto(k - 1) + 1)..upto(k) :
                        got.seq[i] = says(k)

-----------------------------------------------------------------------------
(* block.  A token is [len, dist, byte]: a literal has length 0 and the    *)
(* end of the block length -1.                                             *)

CopySnapshot(out, dist, len) ==
  LET start == Len(out) - dist
  IN  out \o SubSeq(out, start + 1, Min({Len(out), start + len}))

\* Byte by byte, so a copy may read what it wrote.
Copy(out, dist, len) ==
  LET start == Len(out) - dist
  IN  FoldLeft(LAMBDA o, k : Append(o, o[start + k]), out, [k \in 1..len |-> k])

RECURSIVE block(_, _, _)
block(tokens, out, max_output) ==
  IF Len(out) > max_output \/ tokens = << >> THEN Undecodable
  ELSE LET t == Head(tokens)
       IN  CASE t.len = -1 -> Decoded(out)
             [] t.len = 0 -> block(Tail(tokens), Append(out, t.byte), max_output)
             [] t.len > 0 /\ t.dist > Len(out) -> Undecodable
             [] t.len > 0 /\ t.dist <= Len(out) ->
                  block(Tail(tokens), Copy(out, t.dist, t.len), max_output)

\* A block that decodes gives every token its bytes - a copy the periodic
\* continuation of the last dist bytes - and no more than the limit.
BlockExact(tokens, max_output) ==
  LET got == block(tokens, << >>, max_output)
      ends == {k \in DOMAIN tokens : tokens[k].len = -1}
      width(t) == IF t.len = 0 THEN 1 ELSE t.len
      upto(k) == FoldLeft(LAMBDA sum, t : sum + width(t), 0, SubSeq(tokens, 1, k))
      last == Min(ends) - 1
  IN  /\ got.ok <=> /\ ends # {}
                    /\ upto(last) <= max_output
                    /\ \A k \in 1..last : tokens[k].dist <= upto(k - 1)
      /\ got.ok =>
           /\ Len(got.seq) = upto(last)
           /\ \A k \in 1..last : \A i \in 1..width(tokens[k]) :
                got.seq[upto(k - 1) + i] =
                  IF tokens[k].len = 0 THEN tokens[k].byte
                  ELSE got.seq[upto(k - 1) - tokens[k].dist + 1 + ((i - 1) % tokens[k].dist)]

-----------------------------------------------------------------------------
(* Row filters.  A row is a sequence of bytes; a filtered image is flat,   *)
(* each row behind the number of its filter.                               *)

paeth(a, b, c) ==
  LET dist(v) == LET d == a + b - c - v IN IF d < 0 THEN -d ELSE d
  IN  IF dist(a) <= dist(b) /\ dist(a) <= dist(c) THEN a
      ELSE IF dist(b) <= dist(c) THEN b ELSE c

Predict(filter, a, b, c) == CASE filter = 0 -> 0
                              [] filter = 1 -> a
                              [] filter = 2 -> b
                              [] filter = 3 -> (a + b) \div 2
                              [] filter = 4 -> paeth(a, b, c)

At(row, i) == IF i \in DOMAIN row THEN row[i] ELSE 0

UnfilterStale(filter, src, previous, channels) ==
  FoldLeft(LAMBDA current, i :
             Append(current, (src[i] + Predict(filter, At(src, i - channels), At(previous, i),
                                               At(previous, i - channels))) % 256),
           << >>, [i \in DOMAIN src |-> i])

UnfilterRow(filter, src, previous, channels) ==
  FoldLeft(LAMBDA current, i :
             Append(current, (src[i] + Predict(filter, At(current, i - channels), At(previous, i),
                                               At(previous, i - channels))) % 256),
           << >>, [i \in DOMAIN src |-> i])

unfilter(raw, width, height, channels) ==
  LET stride == width * channels
      at(row) == (row - 1) * (stride + 1) + 1
      RECURSIVE rows(_, _)
      rows(row, previous) ==
        IF row > height THEN Decoded(<< >>)
        ELSE IF raw[at(row)] \notin 0..4 THEN Undecodable
        ELSE LET here == UnfilterRow(raw[at(row)], SubSeq(raw, at(row) + 1, at(row) + stride),
                                     previous, channels)
                 rest == rows(row + 1, here)
             IN  IF rest.ok THEN Decoded(here \o rest.seq) ELSE Undecodable
  IN  IF Len(raw) < (stride + 1) * height THEN Undecodable ELSE rows(1, << >>)

\* Filtering an image row by row and reading it back gives the image, and a
\* stream that is cut short or names no filter is refused.
UnfilterExact(image, filters, width, channels, cut) ==
  LET height == Len(image)
      filtered(r) ==
        <<filters[r]>> \o [i \in DOMAIN image[r] |->
          IF filters[r] \notin 0..4 THEN 0
          ELSE LET above == IF r = 1 THEN << >> ELSE image[r - 1]
               IN  (256 + image[r][i] - Predict(filters[r], At(image[r], i - channels),
                                               At(above, i), At(above, i - channels))) % 256]
      raw == FlattenSeq([r \in 1..height |-> filtered(r)])
      got == unfilter(SubSeq(raw, 1, Len(raw) - cut), width, height, channels)
  IN  IF cut > 0 \/ \E r \in 1..height : filters[r] \notin 0..4 THEN got = Undecodable
      ELSE got = Decoded(FlattenSeq(image))
=============================================================================
