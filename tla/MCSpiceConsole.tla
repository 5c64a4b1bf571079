--------------------------- MODULE MCSpiceConsole ---------------------------
(* Three visits of the console page, one channel beside the main one.  Two     *)
(* surfaces, two boxes, one cached image with alpha and one stream.  Short     *)
(* words and keys: a key of seven bytes of four bits, numbers of six-bit       *)
(* digits, QUIC words of twelve bits with components of three.                 *)
EXTENDS SpiceConsole

CONSTANTS s1, s2, b1, b2, i1, t1
MCKinds       == {"display"}
MCIds         == {s1, s2}
MCBoxes       == {b1, b2}
MCImages      == {i1}
MCTransparent == {i1}
MCStreams     == {t1}
MCSymmetry    == Permutations(MCIds) \cup Permutations(MCBoxes)

ToyHash(s) == <<FoldLeft(LAMBDA a, b : (3 * a + b + 1) % 16, 7, s)>>

\* n is 16381 * 16369, e is 257; the public key is in a DER as the server's.
KeyNumber == 16381 * 16369
KeyDer == <<1, 2, 48, 9, 26, 48, 2, 0, 0, 3, 9, 20, 0, 48, 9, 15, 2, 9, 8, 0>>
          \o [i \in 1..7 |-> (KeyNumber \div 16 ^ (7 - i)) % 16] \o <<2, 3, 1, 0, 1>>
AKey == [der |-> KeyDer, keyAt |-> 2, n |-> KeyNumber, d |-> 261848513, bytes |-> 7]

SomePasswords == {<<0>>, <<5, 0>>, <<9, 15, 0>>, <<1, 2, 3, 0>>}
SomeRandoms ==
  {[random |-> [k \in 1..16 |-> (k * a + 3) % 16], time |-> <<1, a, 7, 2>>] : a \in {1, 5, 6, 11}}

\* Ends in each byte of a word, and around the ends of the first two blocks; 24
\* and 111 bytes are what MGF1 hashes of the server's key.
SomeTexts ==
  {<<97, 98, 99>>} \cup {[i \in 1..n |-> (37 * i + n) % 256] :
                          n \in {0, 1, 2, 4, 24, 55, 56, 59, 60, 63, 64, 111, 119, 120}}

Trigger == <<9, 12, 20, 30>>
Drawings == <<5, 2, 7, 0, 3, 6, 1, 4, 9>>
Colours == <<<<0, 0, 0, 0>>, <<5, 1, 0, 3>>, <<7, 7, 2, 6>>>>
Coloured(rows) == [y \in DOMAIN rows |-> [x \in DOMAIN rows[y] |-> Colours[rows[y][x]]]]
Pictures ==
  {Coloured(<<a, b, c>>) :
     a \in {<<1, 1, 1, 1, 1, 1, 1>>, <<1, 2, 2, 2, 2, 3, 3>>},
     b \in {<<1, 1, 1, 1, 1, 1, 1>>, <<2, 2, 2, 2, 2, 2, 1>>}, c \in [1..7 -> {1, 2}]}
  \cup {Coloured(<<a, a, a>>) : a \in [1..2 -> 1..3]}
  \cup {Coloured(<<[x \in 1..14 |-> 2], [x \in 1..14 |-> IF x < n THEN 2 ELSE 1]>>) : n \in 1..15}

Some(ps) == [ofs |-> 0, len |-> Len(ps), pixels |-> ps]
Again(len, ofs) == [ofs |-> ofs, len |-> len, pixels |-> <<>>]
Tokens == {Some(<<<<1, 2, 3>>>>), Some(<<<<4, 5, 6>>, <<7, 8, 9>>>>), Again(3, 1), Again(3, 2),
           Again(5, 1), Again(8, 2), Again(3, 7), Again(3, 8), Again(3, 9)}

\* Those whose matches lie in the picture.
Sound(ts) == \A k \in DOMAIN ts : ts[k].ofs <= Covers(SubSeq(ts, 1, k - 1))
TokenStreams == {ts \in UNION {[1..n -> Tokens] : n \in 1..3} : Sound(ts)}

\* Small ones, one whose length reads less the other way round (513 is 0x0201),
\* and one that is too long.
Sized(w, h, a) == [width |-> w, height |-> h, data |-> [k \in 1..(4 * w * h) |-> (a * k) % 256]]
SomeCursors == {Sized(w, h, a) : w \in 1..2, h \in 1..2, a \in {7, 63, 85}}
                 \cup {Sized(1, 128, 63), Sized(128, 128, 7)}
SomeNumbers == {-5, 0, 300, 70000}
SomeBodies  == {<<1, 2, 255>>, <<7, 0, 128, 9, 255, 3>>}
==============================================================================
