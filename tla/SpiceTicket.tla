---------------------------- MODULE SpiceTicket ----------------------------
(* The ticket of a SPICE channel: the server's RSA key is read from its link   *)
(* reply, the password is padded (OAEP) with random bytes, encrypted, and sent *)
(* in a buffer of the key's length.  Bytes have ByteBits bits (the browser's   *)
(* 8), so that a short key has many of them; SHA-1 is the operator Hash.       *)
EXTENDS SpiceBigInteger, Bitwise

CONSTANTS
  Hash(_),   \* SHA-1 of a sequence of bytes
  HLen       \* the length of a hash

ASSUME HashAssumption == HLen \in 1..(2 ^ ByteBits) /\ Len(Hash(<<>>)) = HLen

ByteValue == 2 ^ ByteBits
HighBit   == 2 ^ (ByteBits - 1)          \* 0x80
Byte      == 0..(ByteValue - 1)
Xored(s, t) == [i \in 1..Len(s) |-> s[i] ^^ t[i]]

-----------------------------------------------------------------------------
(* Random bytes: Arcfour over a pool of ByteValue bytes that Math.random       *)
(* filled and the time was mixed into twice.                                   *)

Swap(S, i, j) == [S EXCEPT ![i] = S[j], ![j] = S[i]]

Mixed[key \in Seq(Byte), i \in 0..ByteValue] ==
  IF i = 0 THEN [S |-> [k \in Byte |-> k], j |-> 0]
  ELSE LET p == Mixed[key, i - 1]
           j == (p.j + p.S[i - 1] + key[((i - 1) % Len(key)) + 1]) % ByteValue
       IN  [S |-> Swap(p.S, i - 1, j), j |-> j]

ARC4init(key) == [S |-> Mixed[key, ByteValue].S, i |-> 0, j |-> 0]

ARC4next(a) ==
  LET i == (a.i + 1) % ByteValue
      j == (a.j + a.S[i]) % ByteValue
      S == Swap(a.S, i, j)
  IN  [S |-> S, i |-> i, j |-> j, out |-> S[(S[i] + S[j]) % ByteValue]]

Pool(random, time) ==
  [k \in 1..ByteValue |-> IF k <= 8 THEN random[k] ^^ time[((k - 1) % 4) + 1] ELSE random[k]]

Arcfour == [S : [Byte -> Byte], i : Byte, j : Byte]

\* The bytes after the first n that a page draws.
RandomBytes[a \in Arcfour, n \in Nat, count \in Nat] ==
  LET b == ARC4next(a)
      c == [S |-> b.S, i |-> b.i, j |-> b.j]
  IN  CASE n > 0 -> RandomBytes[c, n - 1, count]
        [] n = 0 /\ count > 0 -> <<b.out>> \o RandomBytes[c, 0, count - 1]
        [] OTHER -> <<>>

NextBytes(random, time, n) == RandomBytes[ARC4init(Pool(random, time)), n, HLen]

-----------------------------------------------------------------------------
(* OAEP.                                                                       *)

\* The first n bytes of the hashes of seed followed by a counter.
MGF1(n, seed) ==
  LET Block(i) == Hash(seed \o <<0, 0, Shr(i, ByteBits) % ByteValue, i % ByteValue>>)
  IN  [k \in 1..n |-> Block((k - 1) \div HLen)[((k - 1) % HLen) + 1]]

RSA_padding_add_PKCS1_OAEP(tolen, from, seed) ==
  LET dblen  == tolen - 1 - HLen
      padlen == dblen - Len(from) - 1
      db     == Hash(<<>>) \o Zeros(padlen - HLen) \o <<1>> \o from
      masked == Xored(db, MGF1(dblen, seed))
  IN  IF padlen < HLen THEN Null
      ELSE <<0>> \o Xored(seed, MGF1(HLen, masked)) \o masked

-----------------------------------------------------------------------------
(* The server's key: a sequence of a sequence (the algorithm, skipped) and a   *)
(* bit string, which holds a sequence of the integers n and e.                 *)

TagInteger == 2
TagBits    == 3
TagSequence == 48

asn_get_length(u8, at) ==
  LET len == At(u8, at)
  IN  CASE len <= HighBit -> [at |-> at + 1, len |-> len]
        [] len = HighBit + 1 -> [at |-> at + 2, len |-> At(u8, at + 1)]
        [] OTHER -> Null

find_sequence(u8, at) ==
  IF At(u8, at) = TagSequence THEN asn_get_length(u8, at + 1) ELSE Null

create_rsa_from_mb(u8, from) ==
  LET seq   == find_sequence(u8, from)
      alg   == find_sequence(u8, seq.at)
      bits  == asn_get_length(u8, alg.at + alg.len + 1)
      pair  == find_sequence(u8, bits.at + 1)
      n     == asn_get_length(u8, pair.at + 1)
      e     == asn_get_length(u8, n.at + n.len + 1)
      number[i \in Nat] == IF i = 0 THEN 0 ELSE Shl(number[i - 1], ByteBits) + At(u8, e.at + i - 1)
  IN  CASE seq = Null -> Null
        [] alg = Null -> Null
        [] At(u8, alg.at + alg.len) # TagBits -> Null
        [] bits = Null -> Null
        [] At(u8, bits.at) # 0 /\ At(u8, bits.at + 1) # TagSequence -> Null
        [] pair = Null -> Null
        [] At(u8, pair.at) # TagInteger -> Null
        [] n = Null -> Null
        [] At(u8, n.at + n.len) # TagInteger -> Null
        [] e = Null -> Null
        [] OTHER -> [n |-> FromBytes(SubSeq(u8, n.at + 1, n.at + n.len)), e |-> number[e.len]]

doPublic(rsa, x) == ModPowInt(x, rsa.e, rsa.n)

\* The bytes that the ciphertext's hex digits spell, two by two.
Spelled(hex) ==
  LET h == IF Len(hex) % 2 = 1 THEN <<0>> \o hex ELSE hex
  IN  [k \in 1..(Len(h) \div 2) |-> Shl(h[2 * k - 1], HexBits) + h[2 * k]]

rsa_encrypt(rsa, str, seed) ==
  LET Ciphered(oaep) == IF oaep = Null THEN Null ELSE Spelled(ToHex(doPublic(rsa, FromBytes(oaep))))
  IN  Ciphered(RSA_padding_add_PKCS1_OAEP((BitLength(rsa.n) + ByteBits - 1) \div ByteBits, str, seed))

\* Mutant: the last byte is left out.
TicketBytesShort(data, n) ==
  [i \in 1..n |-> IF data # Null /\ i < Len(data) THEN data[i] ELSE 0]

\* SpiceLinkAuthTicket.to_buffer, after the mechanism: n bytes.
TicketBytes(data, n) ==
  [i \in 1..n |-> IF data # Null /\ i <= Len(data) THEN data[i] ELSE 0]

-----------------------------------------------------------------------------
(* The server (external): it reads the ticket as one number of the key's       *)
(* length, applies the private exponent and undoes the padding.                *)

TimesMod[a \in Nat, b \in Nat, m \in Nat] ==
  LET h == TimesMod[(2 * a) % m, b \div 2, m]
  IN  IF b = 0 THEN 0 ELSE IF b % 2 = 1 THEN (h + a) % m ELSE h

PowerMod[a \in Nat, b \in Nat, m \in Nat] ==
  LET h == PowerMod[TimesMod[a, a, m], b \div 2, m]
  IN  IF b = 0 THEN 1 % m ELSE IF b % 2 = 1 THEN TimesMod[h, a, m] ELSE h

NumberOf[s \in Seq(Byte)] ==
  IF s = <<>> THEN 0 ELSE Shl(NumberOf[Front(s)], ByteBits) + Last(s)

\* The password in the ticket, or Null when it cannot be opened.
Opened(ticket, private, n) ==
  LET k    == Len(ticket)
      x    == PowerMod[NumberOf[ticket], private, n]
      em   == [i \in 1..k |-> Low(Shr(x, ByteBits * (k - i)), ByteBits)]
      mask == SubSeq(em, HLen + 2, k)
      seed == Xored(SubSeq(em, 2, HLen + 1), MGF1(HLen, mask))
      db   == Xored(mask, MGF1(k - 1 - HLen, seed))
      rest == SubSeq(db, HLen + 1, Len(db))
      ones == {i \in 1..Len(rest) : rest[i] # 0}
      one  == CHOOSE i \in ones : \A j \in ones : i <= j
  IN  IF NumberOf[ticket] >= n \/ em[1] # 0 \/ SubSeq(db, 1, HLen) # Hash(<<>>) \/ ones = {}
      THEN Null
      ELSE IF rest[one] # 1 THEN Null ELSE SubSeq(rest, one + 1, Len(rest))
=============================================================================
