-------------------------- MODULE SpiceBigInteger --------------------------
(* The BigInteger of the SPICE client (jsbn), as far as encrypting a ticket    *)
(* needs it: numbers as digits of DB bits, and x^e % m with the classic and    *)
(* the Montgomery reduction.  The digit width and the widths it is split at    *)
(* are constants, so that short numbers have many digits; the browser's are    *)
(* DB = 28, AmHalf = 14, MontHalf = 15, FP = 52, ByteBits = 8, HexBits = 4.    *)
EXTENDS SpiceBytes

CONSTANTS DB, AmHalf, MontHalf, FP, ByteBits, HexBits

ASSUME DigitAssumption ==
  /\ DB = 2 * AmHalf /\ MontHalf \in AmHalf..DB /\ FP \in DB..(2 * DB)
  /\ ByteBits = 2 * HexBits /\ DB % HexBits = 0 /\ DB > ByteBits

DV == 2 ^ DB
DM == DV - 1
F1 == FP - DB
F2 == 2 * DB - FP

Low(x, n) == x % 2 ^ n      \* x & ((1 << n) - 1), also for negative x
Shr(x, n) == x \div 2 ^ n   \* x >> n
Shl(x, n) == x * 2 ^ n

Zeros(n)   == [i \in 1..n |-> 0]
Nbits(x)   == CHOOSE n \in 1..30 : x < 2 ^ n /\ (n = 1 \/ 2 ^ (n - 1) <= x)

(* A number: the array's digits, lowest first, t of which count, and the sign  *)
(* s, 0 or -1.  Digits past t stay in the array.                               *)
Number    == [d : Seq(Int), t : Nat, s : {0, -1}]
Big(d, s) == [d |-> d, t |-> Len(d), s |-> s]
One       == Big(<<1>>, 0)
Digit(x, i) == IF i <= x.t THEN x.d[i] ELSE 0

Clamp(x) ==
  LET live == {i \in 1..x.t : x.d[i] # Low(x.s, DB)}
  IN  [x EXCEPT !.t = IF live = {} THEN 0 ELSE CHOOSE i \in live : \A k \in live : k <= i]

FromLast[s \in Seq(Int), d \in Seq(Int), sh \in Nat] ==
  LET n == Len(d)
      x == Last(s)
      e == CASE sh = 0 -> Append(d, x)
             [] sh + ByteBits > DB -> Append([d EXCEPT ![n] = @ + Shl(Low(x, DB - sh), sh)], Shr(x, DB - sh))
             [] OTHER -> [d EXCEPT ![n] = @ + Shl(x, sh)]
  IN  IF s = <<>> THEN [d |-> d, sh |-> sh] ELSE FromLast[Front(s), e, (sh + ByteBits) % DB]

\* A first byte with its high bit set makes the number negative.
FromBytes(s) ==
  LET r == FromLast[s, <<>>, 0]
      n == Len(r.d)
  IN  IF s = <<>> \/ Shr(s[1], ByteBits - 1) = 0 THEN Clamp(Big(r.d, 0))
      ELSE IF r.sh = 0 THEN Clamp(Big(r.d, -1))
      ELSE Clamp(Big([r.d EXCEPT ![n] = @ + Shl(2 ^ (DB - r.sh) - 1, r.sh)], -1))

\* toString(16) of a number that is not negative: the hex digits from the first
\* that is not 0.
ToHex(x) ==
  LET per  == DB \div HexBits
      all  == [k \in 1..(x.t * per) |->
                 Low(Shr(x.d[x.t - ((k - 1) \div per)], HexBits * (per - 1 - ((k - 1) % per))), HexBits)]
      sig  == {k \in 1..Len(all) : all[k] # 0}
  IN  IF sig = {} THEN <<0>> ELSE SubSeq(all, CHOOSE k \in sig : \A j \in sig : k <= j, Len(all))

Compare(x, y) ==
  LET differ == {i \in 1..x.t : x.d[i] # y.d[i]}
      top    == CHOOSE i \in differ : \A k \in differ : k <= i
  IN  IF x.s # y.s THEN x.s - y.s
      ELSE IF x.t # y.t THEN x.t - y.t
      ELSE IF differ = {} THEN 0
      ELSE x.d[top] - y.d[top]

BitLength(x) == IF x.t = 0 THEN 0 ELSE DB * (x.t - 1) + Nbits(x.d[x.t])

DLShift(x, n) == [d |-> Zeros(n) \o SubSeq(x.d, 1, x.t), t |-> x.t + n, s |-> x.s]
DRShift(x, n) == Big(SubSeq(x.d, n + 1, x.t), x.s)

\* lShiftTo and rShiftTo of a number that is not negative, by less than a digit.
LShift(x, bs) ==
  Clamp(Big([i \in 1..(x.t + 1) |->
     Shl(Low(Digit(x, i), DB - bs), bs) + (IF i = 1 THEN 0 ELSE Shr(x.d[i - 1], DB - bs))], 0))
RShift(x, bs) ==
  Clamp(Big([i \in 1..x.t |-> Shr(x.d[i], bs) + Shl(Low(Digit(x, i + 1), bs), DB - bs)], 0))

(* x - y.  The sign of the shorter one joins the carry where its digits end,    *)
(* that of the longer one at the end; what is left over is one more digit.     *)
Difference[x \in Number, y \in Number, d \in Seq(Int), c \in Int] ==
  LET n  == IF x.t < y.t THEN y.t ELSE x.t
      i  == Len(d) + 1
      c1 == c + (IF i = x.t + y.t - n + 1 THEN (IF y.t < x.t THEN -y.s ELSE x.s) ELSE 0)
      c2 == c1 + Digit(x, i) - Digit(y, i)
      c3 == c1 + (IF y.t < x.t THEN x.s ELSE -y.s)
      more == CASE c3 < -1 -> <<DV + c3>> [] c3 > 0 -> <<c3>> [] OTHER -> <<>>
  IN  IF i <= n THEN Difference[x, y, Append(d, Low(c2, DB)), Shr(c2, DB)]
      ELSE Clamp(Big(d \o more, IF c3 < 0 THEN -1 ELSE 0))

SubTo(x, y) == Difference[x, y, <<>>, 0]

(* am3: w from digit j on, plus x times n digits of y from digit i on, plus c; *)
(* the digits are multiplied in halves.  The result is w and the last carry.   *)
Am[y \in Number, i \in Nat, x \in Nat, w \in Seq(Int), j \in Nat, c \in Nat, n \in Nat] ==
  LET xl == Low(x, AmHalf)
      xh == Shr(x, AmHalf)
      l  == Low(Digit(y, i + 1), AmHalf)
      h  == Shr(Digit(y, i + 1), AmHalf)
      m  == xh * l + h * xl
      l2 == xl * l + Shl(Low(m, AmHalf), AmHalf) + w[j + 1] + c
  IN  IF n = 0 THEN [w |-> w, c |-> c]
      ELSE Am[y, i + 1, x, [w EXCEPT ![j + 1] = Low(l2, DB)], j + 1,
              Shr(l2, DB) + Shr(m, AmHalf) + xh * h, n - 1]

\* w[k] += a's carry, after a's digits.
Carried(a, k) == [a.w EXCEPT ![k] = @ + a.c]

MultiplyRows[x \in Number, y \in Number, r \in Seq(Int), i \in Nat] ==
  LET a == Am[x, 0, y.d[i], r, i - 1, 0, x.t]
  IN  IF i > y.t THEN r ELSE MultiplyRows[x, y, [a.w EXCEPT ![i + x.t] = a.c], i + 1]

Multiply(x, y) == Clamp(Big(MultiplyRows[x, y, Zeros(x.t + y.t), 1], 0))

SquareRows[x \in Number, r \in Seq(Int), i \in Nat] ==
  LET one  == Am[x, i - 1, x.d[i], r, 2 * i - 2, 0, 1]
      rest == Carried(Am[x, i, 2 * x.d[i], one.w, 2 * i - 1, one.c, x.t - i], i + x.t)
  IN  CASE i > x.t -> r
        [] i = x.t -> Carried(one, 2 * x.t)
        [] i < x.t /\ rest[i + x.t] < DV -> SquareRows[x, rest, i + 1]
        [] OTHER -> SquareRows[x, [rest EXCEPT ![i + x.t] = @ - DV, ![i + x.t + 1] = 1], i + 1]

Square(x) == Clamp(Big(SquareRows[x, Zeros(2 * x.t), 1], 0))

-----------------------------------------------------------------------------
(* The remainder of x by m (divRemTo with q null), x and m not negative.       *)

\* An array after x has been written to it.
Over(x, r) == [x EXCEPT !.d = @ \o SubSeq(r.d, Len(@) + 1, Len(r.d))]

\* The digit i of r must be qd at least: t is subtracted until it is.
TryFewer[r \in Number, t \in Number, i \in Nat, qd \in Int] ==
  IF r.d[i] < qd THEN TryFewer[Over(SubTo(r, t), r), t, i, qd - 1] ELSE r

\* r without the multiples of y * DV^j for j from j - 1 down; neg is DV^y.t - y.
Divide[r \in Number, j \in Nat, y \in Number, neg \in Number] ==
  LET y0 == y.d[y.t]
      yt == Shl(y0, F1) + (IF y.t > 1 THEN Shr(y.d[y.t - 1], F2) ELSE 0)
      i  == j + y.t
      qd == IF r.d[i] = y0 THEN DM
            ELSE (Shl(r.d[i], FP) + Shl((IF i = 1 THEN 0 ELSE r.d[i - 1]) + 2 ^ F2, F1)) \div yt
      w  == Carried(Am[neg, 0, qd, r.d, j - 1, 0, y.t], i)
  IN  IF j = 0 THEN r
      ELSE Divide[TryFewer[[r EXCEPT !.d = w], DLShift(neg, j - 1), i, qd], j - 1, y, neg]

Remainder(x, m) ==
  LET nsh == DB - Nbits(m.d[m.t])
      y   == LShift(m, nsh)
      r0  == LShift(x, nsh)
      top == DLShift(y, r0.t - y.t)
      r1  == IF Compare(r0, top) >= 0
             THEN Over(SubTo([r0 EXCEPT !.d = Append(SubSeq(@, 1, r0.t), 1), !.t = @ + 1], top), r0)
             ELSE r0
      z   == SubTo(DLShift(One, y.t), y)
      neg == Big(SubSeq(z.d, 1, z.t) \o Zeros(y.t - z.t), 0)
  IN  IF x.t < m.t THEN x
      ELSE RShift(Clamp([Divide[r1, r0.t - y.t, y, neg] EXCEPT !.t = y.t]), nsh)

-----------------------------------------------------------------------------
(* x^e % m: modPowInt with the Classic and the Montgomery reduction.           *)

\* -1/m % DV for an odd digit m, from the inverses modulo 4, 16, ... up to DV.
InvDigit(m) ==
  LET x == m.d[1]
      better(y, n) == Low(y * (2 - Low(x, n) * y), n)
      y4  == better(Low(x, 2), 4)
      y8  == IF DB > 8 THEN better(y4, 8) ELSE y4
      y16 == IF DB > 16 THEN better(y8, 16) ELSE y8
      inverse == Low(y16 * (2 - Low(x * y16, DB)), DB)
  IN  IF inverse > 0 THEN DV - inverse ELSE 0

Propagate[w \in Seq(Int), k \in Nat] ==
  IF w[k] < DV THEN w ELSE Propagate[[w EXCEPT ![k] = @ - DV, ![k + 1] = @ + 1], k + 1]

\* x / R % m, where R has one digit more than m.
MontRows[m \in Number, mp \in Int, w \in Seq(Int), i \in Nat] ==
  LET lo == Low(w[i], MontHalf)
      hi == Low(lo * Shr(mp, MontHalf) + Shr(w[i], MontHalf) * Low(mp, MontHalf), DB - MontHalf)
      u0 == Low(lo * Low(mp, MontHalf) + Shl(hi, MontHalf), DB)
      j  == i + m.t
  IN  IF i > m.t THEN w
      ELSE MontRows[m, mp, Propagate[Carried(Am[m, 0, u0, w, i - 1, 0, m.t], j), j], i + 1]

MontReduce(x, m) ==
  LET padded == SubSeq(x.d, 1, x.t) \o Zeros(2 * m.t + 1 - x.t)
      Below(r) == IF Compare(r, m) >= 0 THEN SubTo(r, m) ELSE r
  IN  Below(DRShift(Clamp(Big(MontRows[m, InvDigit(m), padded, 1], 0)), m.t))

IsEven(x) == x.t = 0 \/ x.d[1] % 2 = 0

Convert(mont, x, m) ==
  CASE mont -> Remainder(DLShift(x, m.t), m)
    [] ~mont /\ Compare(x, m) >= 0 -> Remainder(x, m)
    [] OTHER -> x
Reduce(mont, x, m) == IF mont THEN MontReduce(x, m) ELSE Remainder(x, m)

\* After the bits of e from i - 1 down.
Exp[mont \in BOOLEAN, r \in Number, i \in Nat, g \in Number, e \in Nat, m \in Number] ==
  LET Next(r2) == IF Shr(e, i - 1) % 2 = 1 THEN Reduce(mont, Multiply(r2, g), m) ELSE r2
  IN  IF i = 0 THEN r ELSE Exp[mont, Next(Reduce(mont, Square(r), m)), i - 1, g, e, m]

ModPowInt(x, e, m) ==
  LET mont == e >= 256 /\ ~IsEven(m)
      Reverted(r) == IF mont THEN MontReduce(r, m) ELSE r
      Power(g)    == Exp[mont, g, Nbits(e) - 1, g, e, m]
  IN  Reverted(Power(Convert(mont, x, m)))
=============================================================================
