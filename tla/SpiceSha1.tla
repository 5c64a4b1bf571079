----------------------------- MODULE SpiceSha1 ------------------------------
(* SHA-1 as the ticket's padding computes it.  A 32-bit word is the pair of    *)
(* its halves, the way safe_add takes it apart; words past the end of a        *)
(* JavaScript array count as 0.                                                *)
EXTENDS SpiceBytes, Bitwise

Half == 65536
Word == (0..(Half - 1)) \X (0..(Half - 1))
Signed(n) == <<(n \div Half) % Half, n % Half>>     \* of a constant in the source

AndOf(x, y) == <<x[1] & y[1], x[2] & y[2]>>
OrOf(x, y)  == <<x[1] | y[1], x[2] | y[2]>>
XorOf(x, y) == <<x[1] ^^ y[1], x[2] ^^ y[2]>>
NotOf(x)    == <<Half - 1 - x[1], Half - 1 - x[2]>>

safe_add(x, y) ==
  LET lsw == x[2] + y[2]
  IN  <<(x[1] + y[1] + (lsw \div Half)) % Half, lsw % Half>>

bit_rol(num, cnt) ==
  LET w == IF cnt < 16 THEN num ELSE <<num[2], num[1]>>
      c == cnt % 16
  IN  <<((w[1] * 2 ^ c) % Half) + (w[2] \div 2 ^ (16 - c)), ((w[2] * 2 ^ c) % Half) + (w[1] \div 2 ^ (16 - c))>>

sha1_ft(t, b, c, d) ==
  CASE t < 20              -> OrOf(AndOf(b, c), AndOf(NotOf(b), d))
    [] t \in 40..59        -> OrOf(OrOf(AndOf(b, c), AndOf(b, d)), AndOf(c, d))
    [] OTHER               -> XorOf(XorOf(b, c), d)

sha1_kt(t) ==
  Signed(CASE t < 20 -> 1518500249 [] t \in 20..39 -> 1859775393
           [] t \in 40..59 -> -1894007588 [] OTHER -> -899497514)

-----------------------------------------------------------------------------
rstr2binb(s) ==
  [k \in 0..((Len(s) + 3) \div 4 - 1) |->
     <<256 * At(s, 4 * k) + At(s, 4 * k + 1), 256 * At(s, 4 * k + 2) + At(s, 4 * k + 3)>>]

binb2rstr(ws) ==
  [i \in 1..(4 * Len(ws)) |->
     LET h == ws[(i + 3) \div 4][(((i - 1) % 4) \div 2) + 1]
     IN  IF i % 2 = 1 THEN h \div 256 ELSE h % 256]

\* The padding: a bit 1 after the message, its length in bits in the last word.
EndBit(bytes) ==
  <<IF bytes % 4 = 0 THEN 32768 ELSE IF bytes % 4 = 1 THEN 128 ELSE 0,
    IF bytes % 4 = 2 THEN 32768 ELSE IF bytes % 4 = 3 THEN 128 ELSE 0>>

PaddedFrom(x, bytes, last) ==
  Tuple([k \in 1..(last + 1) |->
     LET w == IF k - 1 \in DOMAIN x THEN x[k - 1] ELSE <<0, 0>>
     IN  CASE k - 1 = last -> Signed(8 * bytes)
           [] k - 1 = bytes \div 4 /\ k - 1 # last -> OrOf(w, EndBit(bytes))
           [] OTHER -> w])

Padded(x, bytes) == PaddedFrom(x, bytes, ((8 * bytes + 64) \div 512) * 16 + 15)

\* Round j of the block whose words, and those derived from them, are w.
Rounds[w \in Seq(Word), v \in Word \X Word \X Word \X Word \X Word, j \in 0..80] ==
  LET ws == IF j < 16 THEN w
            ELSE Append(w, bit_rol(XorOf(XorOf(w[j - 2], w[j - 7]), XorOf(w[j - 13], w[j - 15])), 1))
      t  == safe_add(safe_add(bit_rol(v[1], 5), sha1_ft(j, v[2], v[3], v[4])),
                     safe_add(safe_add(v[5], ws[j + 1]), sha1_kt(j)))
  IN  IF j = 80 THEN v ELSE Rounds[ws, <<t, v[1], bit_rol(v[2], 30), v[3], v[4]>>, j + 1]

Blocks[x \in Seq(Word), v \in Word \X Word \X Word \X Word \X Word] ==
  LET r == Rounds[SubSeq(x, 1, 16), v, 0]
  IN  IF x = <<>> THEN v
      ELSE Blocks[SubSeq(x, 17, Len(x)), Tuple([k \in 1..5 |-> safe_add(r[k], v[k])])]

binb_sha1(x, bytes) ==
  Blocks[Padded(x, bytes),
         <<Signed(1732584193), Signed(-271733879), Signed(-1732584194), Signed(271733878), Signed(-1009589776)>>]

rstr_sha1(s) == binb2rstr(binb_sha1(rstr2binb(s), Len(s)))

-----------------------------------------------------------------------------
(* The standard's SHA-1 (external), on bits: a word is 32 of them.             *)

HexBitsOf(h) == FlattenSeq([k \in DOMAIN h |-> [i \in 1..4 |-> (h[k] \div 2 ^ (4 - i)) % 2]])
ByteBitsOf(s) == FlattenSeq([k \in DOMAIN s |-> [i \in 1..8 |-> (s[k] \div 2 ^ (8 - i)) % 2]])

\* The sum of the words whose bits from the k-th on are added, with its carry.
Sum32[a \in Seq({0, 1}), b \in Seq({0, 1}), k \in 1..33] ==
  LET r == Sum32[a, b, k + 1]
      n == a[k] + b[k] + r.carry
  IN  IF k = 33 THEN [carry |-> 0, bits |-> <<>>]
      ELSE [carry |-> n \div 2, bits |-> <<n % 2>> \o r.bits]
Plus(a, b) == Sum32[a, b, 1].bits
Rotated(a, n) == SubSeq(a, n + 1, 32) \o SubSeq(a, 1, n)

Choice(t, b, c, d) ==
  Tuple([i \in 1..32 |->
     CASE t < 20 -> IF b[i] = 1 THEN c[i] ELSE d[i]
       [] t \in 40..59 -> IF b[i] + c[i] + d[i] >= 2 THEN 1 ELSE 0
       [] OTHER -> (b[i] + c[i] + d[i]) % 2])

RoundConstant(t) ==
  HexBitsOf(CASE t < 20 -> <<5, 10, 8, 2, 7, 9, 9, 9>> [] t \in 20..39 -> <<6, 14, 13, 9, 14, 11, 10, 1>>
              [] t \in 40..59 -> <<8, 15, 1, 11, 11, 12, 13, 12>> [] OTHER -> <<12, 10, 6, 2, 12, 1, 13, 6>>)

Schedule[w \in Seq(Seq({0, 1}))] ==
  LET n == Len(w)
      next == Tuple([i \in 1..32 |-> (w[n - 2][i] + w[n - 7][i] + w[n - 13][i] + w[n - 15][i]) % 2])
  IN  IF n = 80 THEN w ELSE Schedule[Append(w, Rotated(next, 1))]

Steps[w \in Seq(Seq({0, 1})), v \in Seq(Seq({0, 1})), t \in 0..80] ==
  LET a == Plus(Plus(Plus(Rotated(v[1], 5), Choice(t, v[2], v[3], v[4])), Plus(v[5], w[t + 1])), RoundConstant(t))
  IN  IF t = 80 THEN v ELSE Steps[w, <<a, v[1], Rotated(v[2], 30), v[3], v[4]>>, t + 1]

Digest[bits \in Seq({0, 1}), v \in Seq(Seq({0, 1}))] ==
  LET w == Schedule[Tuple([k \in 1..16 |-> SubSeq(bits, 32 * k - 31, 32 * k)])]
      r == Steps[w, v, 0]
  IN  IF bits = <<>> THEN v
      ELSE Digest[SubSeq(bits, 513, Len(bits)), Tuple([k \in 1..5 |-> Plus(r[k], v[k])])]

SHA1(s) ==
  LET n == 8 * Len(s)
      zeros == CHOOSE z \in 0..511 : (n + 1 + z) % 512 = 448
      bits == ByteBitsOf(s) \o <<1>> \o [i \in 1..(zeros + 48) |-> 0] \o [i \in 1..16 |-> (n \div 2 ^ (16 - i)) % 2]
      out == Digest[bits, <<HexBitsOf(<<6, 7, 4, 5, 2, 3, 0, 1>>), HexBitsOf(<<14, 15, 12, 13, 10, 11, 8, 9>>),
                            HexBitsOf(<<9, 8, 11, 10, 13, 12, 15, 14>>), HexBitsOf(<<1, 0, 3, 2, 5, 4, 7, 6>>),
                            HexBitsOf(<<12, 3, 13, 2, 14, 1, 15, 0>>)>>]
  IN  [i \in 1..20 |-> FoldLeft(LAMBDA x, b : 2 * x + b, 0,
                         SubSeq(out[(i + 3) \div 4], 8 * ((i - 1) % 4) + 1, 8 * ((i - 1) % 4) + 8))]
==============================================================================
