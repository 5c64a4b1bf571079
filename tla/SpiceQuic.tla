----------------------------- MODULE SpiceQuic -----------------------------
(* The decoder of QUIC pictures.  A number in the stream is a Golomb-Rice      *)
(* code whose parameter the decoder learns from the numbers before it, as the  *)
(* encoder does: one step apart, and all that follows is noise.  Words have W  *)
(* bits, pixel components BPC; the browser's are 32 and 8.                     *)
EXTENDS SpiceBytes, TLC

CONSTANTS
  W, BPC,
  DEFmaxclen,   \* the longest code word
  wmimax,       \* the last of the learning phases
  wminext,      \* pixels of a phase
  LutBits,      \* the bits of zeroLUT's index; the browser's are 8
  WmTrigger,    \* besttrigtab: of each phase, the code length that halves the counters
  Chaos         \* tabrand_chaos: what is drawn after n draws

ASSUME QuicAssumption ==
  /\ DEFmaxclen \in (BPC + 1)..W /\ W \in 8..16 /\ LutBits \in 1..(W \div 2)
  /\ wmimax \in Nat /\ wminext \in Nat \ {0}

bppmask(n) == 2 ^ n - 1
Mask == bppmask(BPC)
ceil_log_2(n) == CHOOSE k \in 0..BPC : n <= 2 ^ k /\ (k = 0 \/ n > 2 ^ (k - 1))

\* family_8bpc, for the code parameter l.
PrefixLen(l) ==
  IF DEFmaxclen - BPC > bppmask(BPC - l) THEN bppmask(BPC - l) ELSE DEFmaxclen - BPC
nGRcodewords(l)   == PrefixLen(l) * 2 ^ l
notGRsuffixlen(l) == ceil_log_2(2 ^ BPC - nGRcodewords(l))
notGRcwlen(l)     == PrefixLen(l) + notGRsuffixlen(l)
notGRprefixmask(l) == bppmask(W - PrefixLen(l))
xlatU2L(n) == IF n <= Mask \div 2 THEN 2 * n ELSE 2 * (Mask - n) + 1
xlatL2U(n) == IF n % 2 = 1 THEN Mask - n \div 2 ELSE n \div 2

cnt_l_zeroes(bits) == CHOOSE n \in 0..W : bits < 2 ^ (W - n) /\ (n = W \/ bits >= 2 ^ (W - n - 1))

\* len bits of the word, after its first skip bits.
Bits(word, skip, len) == (word \div 2 ^ (W - skip - len)) % 2 ^ len

golomb_decoding(l, bits) ==
  LET zeroprefix == cnt_l_zeroes(bits)
  IN  IF bits > notGRprefixmask(l)
      THEN [len |-> zeroprefix + 1 + l, rc |-> zeroprefix * 2 ^ l + Bits(bits, zeroprefix + 1, l)]
      ELSE [len |-> notGRcwlen(l),
            rc  |-> nGRcodewords(l) + Bits(bits, PrefixLen(l), notGRsuffixlen(l))]

golomb_code_len(n, l) == IF n < nGRcodewords(l) THEN n \div 2 ^ l + 1 + l ELSE notGRcwlen(l)

-----------------------------------------------------------------------------
(* What a channel learns: for each bucket of codes, what every parameter would *)
(* have cost so far, and the cheapest.  Buckets have 1, 2, 4... codes, and the *)
(* last one what is left.                                                      *)

n_buckets == CHOOSE n \in 1..BPC : 2 ^ (n + 1) - 2 >= Mask
                                   /\ \A k \in 1..(n - 1) : 2 ^ (k + 1) - 2 < Mask
bucket_of(code) ==
  CHOOSE n \in 1..n_buckets : code >= 2 ^ (n - 1) - 1 /\ (n = n_buckets \/ code < 2 ^ n - 1)

QuicBucket == [bestcode |-> BPC - 1, counters |-> Tuple([l \in 1..BPC |-> 0])]

update_model(bucket, trigger, code) ==
  LET cost  == Tuple([l \in 1..BPC |-> bucket.counters[l] + golomb_code_len(code, l - 1)])
      least == {l \in 1..BPC : \A k \in 1..BPC : cost[l] <= cost[k]}
      best  == CHOOSE l \in least : \A k \in least : k <= l
  IN  [bestcode |-> best - 1,
       counters |-> IF cost[best] > trigger THEN Tuple([l \in 1..BPC |-> cost[l] \div 2]) ELSE cost]

CommonState == [waitcnt |-> 0, seed |-> 0, wmidx |-> 0, wmileft |-> wminext, melcstate |-> 0]
Drawn(state) == Chaos[(state.seed % Len(Chaos)) + 1] % 2 ^ state.wmidx

\* melclen: J of the state; J[32] is undefined, which counts as 0.
melclen(state) ==
  <<0, 0, 0, 0, 1, 1, 1, 1, 2, 2, 2, 2, 3, 3, 3, 3, 4, 4, 5, 5, 6, 6, 7, 7, 8, 9, 10, 11, 12, 13, 14, 15, 0>>[state.melcstate + 1]

(* The decoder: channels 0 to 2 share one CommonState, the alpha channel 3 has *)
(* its own.  prev is the row above, <<>> for the first, cur the one decoded.   *)
Rgb   == <<0, 1, 2>>
Alpha == <<3>>
Component(c) == IF c = 3 THEN 4 ELSE 3 - c     \* of a pixel: b, g, r, pad

Coder ==
  [words : Seq(Nat), at : Nat, word : Nat, next : Nat, avail : Nat,
   zero : Seq(Nat), row : Seq(Seq(Nat)), buckets : Seq(Seq([bestcode : Nat, counters : Seq(Nat)])),
   rgb : [waitcnt : Nat, seed : Nat, wmidx : Nat, wmileft : Nat, melcstate : Nat],
   four : [waitcnt : Nat, seed : Nat, wmidx : Nat, wmileft : Nat, melcstate : Nat],
   prev : Seq(Seq(Nat)), cur : Seq(Seq(Nat))]

State(q, cs) == IF cs = Alpha THEN q.four ELSE q.rgb
WithState(q, cs, state) == IF cs = Alpha THEN [q EXCEPT !.four = state] ELSE [q EXCEPT !.rgb = state]

\* Reading past the end is an exception; here the words there are 0 and at says so.
WordAt(q, k) == IF k <= Len(q.words) THEN q.words[k] ELSE 0
OutOfData(q) == q.at > Len(q.words)

\* Mutant: the bits of the next word are taken when the one after is read.
decode_eatbitsLate(q, len) ==
  LET word == (q.word % 2 ^ (W - len)) * 2 ^ len
      more == len - q.avail
      next == WordAt(q, q.at + 1)
  IN  IF more <= 0
      THEN [q EXCEPT !.word = word + Bits(q.next, W - q.avail, len), !.avail = @ - len]
      ELSE [q EXCEPT !.word = word + Bits(q.next, W - q.avail, q.avail) * 2 ^ more,
                     !.at = @ + 1, !.next = next, !.avail = W - more]

\* len bits leave the word and the next len of the stream enter it: the avail
\* ones left in the next word, then those of the word after it.
decode_eatbits(q, len) ==
  LET word == (q.word % 2 ^ (W - len)) * 2 ^ len
      more == len - q.avail
      next == WordAt(q, q.at + 1)
  IN  IF more <= 0
      THEN [q EXCEPT !.word = word + Bits(q.next, W - q.avail, len), !.avail = @ - len]
      ELSE [q EXCEPT !.word = word + Bits(q.next, W - q.avail, q.avail) * 2 ^ more + Bits(next, 0, more),
                     !.at = @ + 1, !.next = next, !.avail = W - more]

\* One learns from the code at i, in the bucket of the code before it.
Context(q, c, i) == IF i = 0 THEN q.zero[c + 1] ELSE q.row[c + 1][i]
Learnt(q, cs, i) ==
  LET Trigger == WmTrigger[State(q, cs).wmidx + 1]
  IN  [q EXCEPT !.buckets = Tuple([k \in 1..4 |->
         IF k - 1 \notin Range(cs) THEN @[k]
         ELSE [@[k] EXCEPT ![bucket_of(Context(q, k - 1, i))] = update_model(@, Trigger, q.row[k][i + 1])]])]

Drawing(q, cs) ==
  LET s == State(q, cs)
  IN  WithState(q, cs, [s EXCEPT !.waitcnt = Drawn(s), !.seed = @ + 1])

Predicted(q, i, p) ==
  CASE q.prev = <<>> /\ i = 0 -> 0
    [] q.prev = <<>> /\ i > 0 -> q.cur[i][p]
    [] q.prev # <<>> /\ i = 0 -> q.prev[1][p]
    [] OTHER -> (q.cur[i][p] + q.prev[i + 1][p]) \div 2

\* The components cs of the pixel i.
Pixel[q \in Coder, cs \in Seq(0..3), i \in Nat] ==
  LET c == Head(cs)
      p == Component(c)
      Value(rc) == (xlatL2U(rc) + Predicted(q, i, p)) % 2 ^ BPC
      Read(a) == [q EXCEPT !.row[c + 1][i + 1] = a.rc, !.cur[i + 1][p] = Value(a.rc)]
      After(a) == Pixel[decode_eatbits(Read(a), a.len), Tail(cs), i]
  IN  IF cs = <<>> THEN q
      ELSE After(golomb_decoding(q.buckets[c + 1][bucket_of(Context(q, c, i))].bestcode, q.word))

\* zeroLUT, as the module fills it: the zeros before the first one of LutBits
\* bits.  2^k entries in a row are alike, and after them one less, for twice as
\* many.
Filled[i \in Nat] ==
  LET p == Filled[i - 1]
  IN  CASE i = 0           -> [l |-> LutBits, k |-> 1, j |-> 1]
        [] i > 0 /\ p.k = 1 -> [l |-> p.l - 1, k |-> p.j, j |-> 2 * p.j]
        [] OTHER           -> [p EXCEPT !.k = @ - 1]
zeroLUT == Tuple([i \in 1..(2 ^ LutBits) |-> Filled[i - 1].l])

\* A run's length: ones, each for as many pixels as the state stands for, a
\* zero, and what is left.
Hit(state)  == IF state.melcstate < 32 THEN [state EXCEPT !.melcstate = @ + 1] ELSE state
Miss(state) == IF state.melcstate > 0 THEN [state EXCEPT !.melcstate = @ - 1] ELSE state

RunState == [waitcnt : Nat, seed : Nat, wmidx : Nat, wmileft : Nat, melcstate : Nat]

\* The lengths of h ones in a row, and the state after them.
Hits[state \in RunState, h \in Nat, n \in Nat] ==
  IF h = 0 THEN [state |-> state, n |-> n] ELSE Hits[Hit(state), h - 1, n + 2 ^ melclen(state)]

decode_run[q \in Coder, cs \in Seq(0..3), n \in Nat] ==
  LET Left(d, r) == [n |-> r.n + Bits(d.word, 0, melclen(r.state)),
                     q |-> WithState(decode_eatbits(d, melclen(r.state)), cs, Miss(r.state))]
      Counted(ones, r) ==
        IF ones = LutBits THEN decode_run[WithState(decode_eatbits(q, ones), cs, r.state), cs, r.n]
        ELSE Left(decode_eatbits(q, ones + 1), r)
      Ones(ones) == Counted(ones, Hits[State(q, cs), ones, n])
  IN  Ones(zeroLUT[2 ^ LutBits - Bits(q.word, 0, LutBits)])

\* The pixels from i to end; at stop, waitcnt of them have passed.
Waiting(q, cs, n) == WithState(q, cs, [State(q, cs) EXCEPT !.waitcnt = n])

row0_seg[q \in Coder, cs \in Seq(0..3), i \in Nat, stop \in Nat, end \in Nat] ==
  LET Drew(u) == row0_seg[u, cs, i + 1, i + 1 + State(u, cs).waitcnt, end]
      Read(d) == IF i = stop THEN Drew(Drawing(Learnt(d, cs, i), cs)) ELSE row0_seg[d, cs, i + 1, stop, end]
  IN  IF i >= end THEN Waiting(q, cs, stop - end) ELSE Read(Pixel[q, cs, i])

Same(row, i, cs) == \A k \in Range(cs) : row[i + 1][Component(k)] = row[i][Component(k)]

Copied(q, cs, i, n) ==
  [q EXCEPT !.cur = Tuple([k \in 1..Len(@) |->
     IF k \notin (i + 1)..(i + n) THEN @[k]
     ELSE Tuple([p \in 1..4 |-> IF \E c \in Range(cs) : Component(c) = p THEN @[i][p] ELSE @[k][p]])])]

row_seg[q \in Coder, cs \in Seq(0..3), i \in Nat, stop \in Nat, end \in Nat, run_index \in Nat] ==
  LET starts == run_index # i /\ i > 2 /\ Same(q.prev, i, cs) /\ Same(q.cur, i - 1, cs)
      Drew(u) == row_seg[u, cs, i + 1, i + 1 + State(u, cs).waitcnt, end, run_index]
      Read(d) == IF i = stop THEN Drew(Drawing(Learnt(d, cs, i), cs))
                 ELSE row_seg[d, cs, i + 1, stop, end, run_index]
      Over(c, n) == IF i + n = end THEN Waiting(c, cs, stop - i)
                    ELSE row_seg[c, cs, i + n, stop + n, end, i]
      Repeated(r) == Over(Copied(r.q, cs, i, r.n), r.n)
  IN  CASE i >= end -> Waiting(q, cs, stop - end)
        [] i < end /\ starts -> Repeated(decode_run[q, cs, 0])
        [] OTHER -> Read(Pixel[q, cs, i])

\* The first pixel of a row waits as the others do.
First(q, cs) ==
  LET Passed(d, w) == IF w > 0 THEN Waiting(d, cs, w - 1) ELSE Learnt(Drawing(d, cs), cs, 0)
  IN  Passed(Pixel[q, cs, 0], State(q, cs).waitcnt)

Segment(q, cs, pos, end) ==
  LET From(s, i) ==
        LET stop == i + State(s, cs).waitcnt
        IN  IF s.prev = <<>> THEN row0_seg[s, cs, i, stop, end] ELSE row_seg[s, cs, i, stop, end, 0]
  IN  From(IF pos = 0 THEN First(q, cs) ELSE q, IF pos = 0 THEN 1 ELSE pos)

\* Phases of wminext pixels each.
NextPhase(q, cs) == WithState(q, cs, [State(q, cs) EXCEPT !.wmidx = @ + 1, !.wmileft = wminext])
Spent(q, cs, width) ==
  IF wmimax > State(q, cs).wmidx THEN WithState(q, cs, [State(q, cs) EXCEPT !.wmileft = @ - width]) ELSE q

row[q \in Coder, cs \in Seq(0..3), pos \in Nat, width \in Nat] ==
  LET s == State(q, cs)
      ends == wmimax > s.wmidx /\ s.wmileft <= width
      n == IF ends THEN s.wmileft ELSE width
      After(d) == IF ends THEN row[NextPhase(d, cs), cs, pos + n, width - n] ELSE Spent(d, cs, width)
  IN  IF width = 0 THEN q ELSE After(Segment(q, cs, pos, pos + n))

quic_rgb32_uncompress_row(q) == row[q, Rgb, 0, Len(q.cur)]
quic_four_uncompress_row(q)  == row[q, Alpha, 0, Len(q.cur)]

GRAY  == 1
RGB16 == 2
RGB24 == 3
RGB32 == 4
RGBA  == 5
QUIC  == 17   \* the magic number

\* Bits of a component; 0 of a type that is none.
quic_image_bpc(type) ==
  CASE type = RGB16 -> BPC - 3
    [] type \in {GRAY, RGB24, RGB32, RGBA} -> BPC
    [] OTHER -> 0

BlankRow(width) == Tuple([i \in 1..width |-> <<0, 0, 0, 0>>])

\* The rows above are done; zero is what their first pixel's codes were.
RowDone(q) ==
  [q EXCEPT !.zero = Tuple([k \in 1..4 |-> q.row[k][1]]), !.prev = q.cur, !.cur = BlankRow(Len(q.cur))]

Rows[q \in Coder, rgba \in BOOLEAN, done \in Seq(Seq(Seq(Nat))), height \in Nat] ==
  LET Four(d) == IF rgba THEN quic_four_uncompress_row(d) ELSE d
      Next(d) == Rows[d, rgba, Append(done, d.prev), height]
  IN  IF Len(done) = height THEN [rows |-> done, q |-> q]
      ELSE Next(RowDone(Four(quic_rgb32_uncompress_row(q))))

\* QuicChannel.reste, of the four channels: nothing known of earlier pictures.
reste(width) ==
  [zero |-> <<0, 0, 0, 0>>, row |-> Tuple([k \in 1..4 |-> Tuple([i \in 1..width |-> 0])]),
   buckets |-> Tuple([k \in 1..4 |-> Tuple([n \in 1..n_buckets |-> QuicBucket])])]

\* quic_decode_begin: five words.
Begin(words) ==
  [words |-> words, at |-> 6, word |-> words[6], next |-> words[6], avail |-> 0,
   rgb |-> CommonState, four |-> CommonState, prev |-> <<>>, cur |-> BlankRow(words[4])] @@ reste(words[4])

simple_quic_decode(words) ==
  LET Out(r) == IF OutOfData(r.q) THEN Null ELSE r.rows
  IN  IF words[1] # QUIC \/ words[2] # 0 \/ quic_image_bpc(words[3]) = 0 \/ words[3] \in {GRAY, RGB16} THEN Null
      ELSE Out(Rows[Begin(words), words[3] = RGBA, <<>>, words[5]])

convert_spice_quic_to_web(rows, type) ==
  [y \in DOMAIN rows |-> [x \in DOMAIN rows[y] |->
     LET p == rows[y][x] IN <<p[3], p[2], p[1], IF type = RGBA THEN Mask - p[4] ELSE Mask>>]]

-----------------------------------------------------------------------------
(* The encoder (external): pixel by pixel, with the picture in cur and prev,   *)
(* the bits it writes in words.                                                *)

BitsOf(n, len) == [k \in 1..len |-> (n \div 2 ^ (len - k)) % 2]
Golomb(n, l) ==
  IF n < nGRcodewords(l)
  THEN [k \in 1..(n \div 2 ^ l) |-> 0] \o <<1>> \o BitsOf(n % 2 ^ l, l)
  ELSE [k \in 1..PrefixLen(l) |-> 0] \o BitsOf(n - nGRcodewords(l), notGRsuffixlen(l))

EncodePixel[q \in Coder, cs \in Seq(0..3), i \in Nat] ==
  LET c == Head(cs)
      p == Component(c)
      n == xlatU2L((q.cur[i + 1][p] - Predicted(q, i, p)) % 2 ^ BPC)
      l == q.buckets[c + 1][bucket_of(Context(q, c, i))].bestcode
  IN  IF cs = <<>> THEN q
      ELSE EncodePixel[[q EXCEPT !.words = @ \o Golomb(n, l), !.row[c + 1][i + 1] = n], Tail(cs), i]

EncodeRun[q \in Coder, cs \in Seq(0..3), n \in Nat] ==
  LET s == State(q, cs)
      order == 2 ^ melclen(s)
  IN  IF n >= order THEN EncodeRun[WithState([q EXCEPT !.words = Append(@, 1)], cs, Hit(s)), cs, n - order]
      ELSE WithState([q EXCEPT !.words = @ \o <<0>> \o BitsOf(n, melclen(s))], cs, Miss(s))

\* n pixels of the phase are over.
Ticked(q, cs, n) ==
  LET s == State(q, cs)
  IN  CASE s.wmidx >= wmimax -> q
        [] s.wmidx < wmimax /\ s.wmileft = n ->
             WithState(q, cs, [s EXCEPT !.wmidx = @ + 1, !.wmileft = wminext])
        [] OTHER -> WithState(q, cs, [s EXCEPT !.wmileft = @ - n])

EncodeRow[q \in Coder, cs \in Seq(0..3), i \in Nat, tried \in Nat] ==
  LET s      == State(q, cs)
      end    == IF s.wmidx < wmimax /\ i + s.wmileft < Len(q.cur) THEN i + s.wmileft ELSE Len(q.cur)
      repeat == q.prev # <<>> /\ tried # i /\ i > 2 /\ Same(q.prev, i, cs) /\ Same(q.cur, i - 1, cs)
      n      == CHOOSE k \in 0..(end - i) : (\A j \in i..(i + k - 1) : Same(q.cur, j, cs))
                                            /\ (i + k = end \/ ~Same(q.cur, i + k, cs))
      Waited(d) == IF s.waitcnt > 0 THEN Waiting(d, cs, s.waitcnt - 1) ELSE Drawing(Learnt(d, cs, i), cs)
  IN  CASE i = Len(q.cur) -> q
        [] i < Len(q.cur) /\ repeat -> EncodeRow[Ticked(EncodeRun[q, cs, n], cs, n), cs, i + n, i]
        [] OTHER -> EncodeRow[Ticked(Waited(EncodePixel[q, cs, i]), cs, 1), cs, i + 1, tried]

EncodeRows[q \in Coder, rgba \in BOOLEAN, rows \in Seq(Seq(Seq(Nat)))] ==
  LET Four(d) == IF rgba THEN EncodeRow[d, Alpha, 0, 0] ELSE d
  IN  IF rows = <<>> THEN q.words
      ELSE EncodeRows[RowDone(Four(EncodeRow[[q EXCEPT !.cur = Head(rows)], Rgb, 0, 0])), rgba, Tail(rows)]

\* The picture in words, the last ones filled up and followed by one of zeros.
Encoded(rows, type) ==
  LET head == <<QUIC, 0, type, Len(rows[1]), Len(rows)>>
      Words(bits) == [k \in 1..(Len(bits) \div W) |->
                        FoldLeft(LAMBDA a, b : 2 * a + b, 0, SubSeq(bits, W * (k - 1) + 1, W * k))]
      bits == EncodeRows[[Begin(head \o <<0>>) EXCEPT !.words = <<>>], type = RGBA, rows]
  IN  head \o Words(bits \o [k \in 1..(2 * W) |-> 0])
=============================================================================
