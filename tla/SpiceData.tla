----------------------------- MODULE SpiceData -----------------------------
(* The data of a console, end to end: what the server encodes (external) is    *)
(* decoded by the client, what the client encodes is decoded by the server.    *)
(* Each step is one piece of data; nothing is kept between them.               *)
EXTENDS SpiceSha1, SpiceTicket, SpiceQuic, SpiceCodecs, SpiceMessages, FiniteSets

CONSTANTS
  Key,          \* the server's key: der, the bytes it is sent in, keyAt, n, d
  Passwords, Randoms,
  Texts,        \* what is hashed: sequences of octets
  QuicPictures, \* sequences of rows of pixels <<b, g, r, pad>>
  LzStreams,    \* LZ pictures, and alpha planes: sequences of tokens
  Cursors,      \* records of width, height and data
  Numbers, Bodies   \* values of a message's numbers; the data of images

VARIABLE data   \* the piece of data: kind, what was given, what came out

Nothing == [kind |-> "none"]
DataInit == data = Nothing

Piece(kind, given, got) == data' = [kind |-> kind, given |-> given, got |-> got]

-----------------------------------------------------------------------------
(* send_ticket: the password under the key of the link reply.                  *)
SendTicket ==
  \E p \in Passwords, r \in Randoms, drawn \in 0..(ByteValue - 1) :   \* random bytes taken before
       LET seed == NextBytes(r.random, r.time, drawn)
           Sent(enc) == Piece("ticket", p, [enc |-> enc, ticket |-> TicketBytes(enc, Key.bytes)])
       IN  Sent(rsa_encrypt(create_rsa_from_mb(Key.der, Key.keyAt), p, seed))

(* The ticket opens with the password, unless the password is too long for the *)
(* key, or the cipher text starts with a byte 0, which ToHex drops: the others *)
(* are then sent one place too early (rsa_encrypt, SpiceLinkAuthTicket).       *)
TicketOpens ==
  data.kind = "ticket" =>
    \/ Opened(data.got.ticket, Key.d, Key.n) = data.given
    \/ data.got.enc = Null /\ Len(data.given) > Key.bytes - 2 * HLen - 2
    \/ data.got.enc # Null /\ Len(data.got.enc) < Key.bytes

-----------------------------------------------------------------------------
(* rstr_sha1, which the padding of a ticket calls with texts of any length.    *)
HashText == \E text \in Texts : Piece("hash", text, rstr_sha1(text))

(* The hash is the standard's, wherever the end of the text falls in a word    *)
(* and in a block, so that a server can open the ticket; and that of the text  *)
(* of sha1_vm_test is the one written there.                                   *)
HashStandard ==
  data.kind = "hash" =>
    /\ data.got = SHA1(data.given)
    /\ data.given = <<97, 98, 99>> =>
         data.got = <<169, 153, 62, 54, 71, 6, 129, 106, 186, 62, 37, 113, 120, 80, 194, 108, 156, 208, 216, 157>>

-----------------------------------------------------------------------------
(* A QUIC picture: quic_decode of what the server's encoder makes of it.       *)
DecodeQuic ==
  \E rows \in QuicPictures, type \in {RGB24, RGB32, RGBA} :
       LET Shown(out) == IF out = Null THEN Null ELSE convert_spice_quic_to_web(out, type)
       IN  Piece("quic", [rows |-> rows, type |-> type], Shown(simple_quic_decode(Encoded(rows, type))))

(* The decoder learns in step with the encoder: every picture comes out as it  *)
(* went in, its alpha turned round, and its data never run out.                *)
QuicExact ==
  data.kind = "quic" =>
    data.got = [y \in DOMAIN data.given.rows |-> [x \in DOMAIN data.given.rows[y] |->
                  LET p == data.given.rows[y][x]
                  IN  <<p[3], p[2], p[1], IF data.given.type = RGBA THEN Mask - p[4] ELSE Mask>>]]

-----------------------------------------------------------------------------
(* LZ pictures.  A token is a sequence of pixels <<r, g, b>>, or of alphas,    *)
(* or a match: len pixels that were there ofs pixels ago.                      *)

Covers(ts) == FoldLeft(LAMBDA n, t : n + t.len, 0, ts)

LzMatched(v, ofs) ==
  LET o     == ofs - 1
      top   == 2 ^ LenBits - 2
      high  == IF o >= FarAway THEN 2 ^ OfsBits - 1 ELSE o \div 2 ^ CodeBits
      more  == IF v < top THEN <<>>
               ELSE [k \in 1..((v - top) \div MaxCode) |-> MaxCode]
                    \o <<(v - top) % MaxCode>>
      far   == o - FarAway
  IN  <<(IF v < top THEN v + 1 ELSE top + 1) * 2 ^ OfsBits + high>> \o more
      \o (IF far < 0 THEN <<o % 2 ^ CodeBits>>
          ELSE <<MaxCode, far \div 2 ^ CodeBits, far % 2 ^ CodeBits>>)

LzToken(t, alpha) ==
  CASE t.ofs > 0 -> LzMatched(t.len - (IF alpha THEN 3 ELSE 1), t.ofs)
    [] t.ofs = 0 /\ alpha -> <<t.len - 1>> \o [k \in 1..t.len |-> t.pixels[k][3]]
    [] OTHER -> <<t.len - 1>> \o FlattenSeq([k \in 1..t.len |-> Reverse(t.pixels[k])])

LzBytes(ts, alpha) == FlattenSeq([k \in DOMAIN ts |-> LzToken(ts[k], alpha)])

\* The pixels the tokens stand for.
LzTokens == UNION {Range(ts) : ts \in LzStreams}
Expanded[ts \in Seq(LzTokens), done \in Seq(Seq(Nat))] ==
  LET t == Head(ts)
  IN  CASE ts = <<>> -> done
        [] ts # <<>> /\ t.ofs = 0 -> Expanded[Tail(ts), done \o t.pixels]
        [] OTHER -> Expanded[Tail(ts), done \o [k \in 1..t.len |->
                      done[Len(done) - t.ofs + ((k - 1) % t.ofs) + 1]]]

DecodeLz ==
  \E type \in {LzRGB32, LzRGBA, LzXXXA}, ts \in LzStreams, height \in 1..2, top_down \in 0..1 :
     \E as \in IF type = LzRGBA THEN {s \in LzStreams : Covers(s) = Covers(ts)} ELSE {ts} :
       /\ Covers(ts) % height = 0 /\ (height = 1 => top_down = 1)
       /\ \A k \in DOMAIN as : type # LzRGB32 /\ as[k].ofs > 0 => as[k].len >= 3
       /\ LET bytes == CASE type = LzRGB32 -> LzBytes(ts, FALSE)
                         [] type = LzRGBA -> LzBytes(ts, FALSE) \o LzBytes(as, TRUE)
                         [] type = LzXXXA -> LzBytes(as, TRUE)
              width == Covers(ts) \div height
          IN  Piece("lz", [type |-> type, rgb |-> ts, alpha |-> as,
                           width |-> width, height |-> height, top_down |-> top_down],
                    convert_spice_lz_to_web(
                      [type |-> type, width |-> width, height |-> height, top_down |-> top_down, data |-> bytes]))

\* The pixels in the order they are sent in.
LzSent(given) ==
  LET rgb   == Expanded[given.rgb, <<>>]
      alpha == Expanded[given.alpha, <<>>]
  IN  [k \in DOMAIN rgb |->
         CASE given.type = LzRGB32 -> Append(rgb[k], 255)
           [] given.type = LzRGBA  -> Append(rgb[k], alpha[k][3])
           [] given.type = LzXXXA  -> <<0, 0, 0, alpha[k][3]>>]

\* Rows come from the top down, or the lowest first.
Upright(pixels, width, height, top_down) ==
  [k \in DOMAIN pixels |->
     LET line == (k - 1) \div width
         from == IF top_down THEN line ELSE height - 1 - line
     IN  pixels[from * width + ((k - 1) % width) + 1]]

\* A bitmap, its rows one after the other from the top, or from the bottom where
\* SPICE_BITMAP_FLAGS_TOP_DOWN is not set.
TopDown(flags) == flags \div 4 = 1
DecodeBitmap ==
  \E f \in {Format32Bit, FormatRGBA}, flags \in {0, 4}, c \in Cursors :
       /\ Len(c.data) <= 64
       /\ Piece("bitmap", [format |-> f, flags |-> flags, x |-> c.width, y |-> c.height, data |-> c.data],
                convert_spice_bitmap_to_web(
                  [format |-> f, flags |-> flags, x |-> c.width, y |-> c.height, stride |-> 4 * c.width,
                   data |-> c.data]))

\* The alpha of an RGBA bitmap is its blue.
BitmapSent(given) ==
  [k \in 1..(given.x * given.y) |->
     LET o == 4 * (k - 1)
     IN  <<given.data[o + 3], given.data[o + 2], given.data[o + 1],
           IF given.format = Format32Bit THEN 255 ELSE given.data[o + 1]>>]

\* A cursor, and how a browser reads its PNG (external): chunk by chunk.
ShowCursor ==
  \E c \in Cursors : Piece("cursor", c, set_cursor(c))

NumberAt(s, at) == FoldLeft(LAMBDA a, b : 256 * a + b, 0, SubSeq(s, at, at + 3))

Chunks[s \in Seq(0..255)] ==
  LET n == NumberAt(s, 1)
      c == [name |-> SubSeq(s, 5, 8), data |-> SubSeq(s, 9, 8 + n),
            whole |-> SubSeq(s, 5, 8 + n), crc |-> SubSeq(s, 9 + n, 12 + n)]
  IN  IF s = <<>> THEN <<>> ELSE <<c>> \o Chunks[SubSeq(s, 13 + n, Len(s))]

\* The CRC of data followed by their own CRC, lowest byte first, is 0x2144df1c.
Residue == <<33, 68, 223, 28>>
RightCRC(c) == BitsB32(crc32(c.whole \o Reverse(c.crc))) = Residue

\* A browser fills the picture from the one stored block, whose length it takes
\* lowest byte first, and looks no further.  Each row is after a filter byte.
ChunksOf(png) == Chunks[SubSeq(png, 9, Len(png))]
CursorRead(cs) ==
  LET z    == cs[2].data
      w    == NumberAt(cs[1].data, 1)
      h    == NumberAt(cs[1].data, 5)
      need == h * (4 * w + 1)
      len  == z[4] + 256 * z[5]
      rows == SubSeq(z, 8, 7 + need)
      keep == SelectSeq([k \in 1..Len(rows) |-> <<k, rows[k]>>], LAMBDA p : (p[1] - 1) % (4 * w + 1) # 0)
  IN  [names |-> [k \in DOMAIN cs |-> cs[k].name],
       sound |-> /\ \A k \in DOMAIN cs : RightCRC(cs[k])
                 /\ (256 * z[1] + z[2]) % 31 = 0 /\ (z[3] \div 2) % 4 = 0
                 /\ len + z[6] + 256 * z[7] = 65535,
       short |-> len < need, last |-> z[3] % 2 = 1,
       width |-> w, height |-> h, data |-> [k \in DOMAIN keep |-> keep[k][2]]]

(* LZ pictures, bitmaps and cursors are what the server sent, but for these    *)
(* things, which hold in all other cases:                                      *)
(*   - an LZ picture or a bitmap of several rows that is not top down is upside *)
(*     down (the FIXME of DRAW_COPY; a bitmap's flag is not looked at);        *)
(*   - the alpha of an RGBA bitmap is its blue;                                *)
(*   - a cursor that is not square has its sides swapped (set_cursor);         *)
(*   - a cursor of more than 65535 bytes throws; the length of its one block   *)
(*     is written highest byte first, where a reader of it has the lowest      *)
(*     first, so the rows of some cursors are cut short; and the block never   *)
(*     says it is the last one, so a reader that looks past the picture finds  *)
(*     an error (the FIXME of PngIDAT).                                        *)
PicturesExact ==
  /\ data.kind = "lz" =>
       LET sent == LzSent(data.given)
           down == data.given.top_down = 1
       IN  \/ data.got = Upright(sent, data.given.width, data.given.height, down)
           \/ ~down /\ data.got = sent
  /\ data.kind = "bitmap" =>
       LET sent == BitmapSent(data.given)
           down == TopDown(data.given.flags)
       IN  \/ data.got = Upright(sent, data.given.x, data.given.y, down)
           \/ ~down /\ data.got = sent
  /\ data.kind = "cursor" =>
       IF TooLong(data.given.data) THEN data.got = Null
       ELSE \E cs \in {ChunksOf(data.got)} : \E r \in {CursorRead(cs)} :
            LET n == Len(data.given.data) + data.given.width
            IN  /\ r.names = <<IHDR, IDAT, IEND>> /\ r.sound /\ ~r.last
                /\ r.short => n % 256 < n \div 256
                /\ r.short \/ r.data = data.given.data
                /\ <<r.width, r.height>> = <<data.given.height, data.given.width>>

-----------------------------------------------------------------------------
(* A key pressed and released, and a second one in between.  The keyboard of   *)
(* the guest (external) takes the bytes up to a 0; 0xe0 goes with the next.    *)
PressKeys ==
  \E k \in common_scanmap, firefox \in BOOLEAN :
     \E l \in common_scanmap \cup firefox_scanmap \cup DOM_scanmap :
       Piece("keys", <<k[1], l[1], firefox>>,
             <<keycode_to_start_scan(k[1], firefox), keycode_to_start_scan(l[1], firefox),
               keycode_to_end_scan(k[1], firefox), keycode_to_end_scan(l[1], firefox)>>)

Pushed(held, bytes) ==
  LET used == {i \in 1..4 : \A j \in 1..i : bytes[j] # 0}
      code(i) == <<i > 1 /\ bytes[1] = 224 /\ i = 2, bytes[i] % 128>>
      keys == {i \in used : bytes[i] # 224}
  IN  (held \ {code(i) : i \in {j \in keys : bytes[j] >= 128}})
        \cup {code(i) : i \in {j \in keys : bytes[j] < 128}}

\* Keys the page knows no scan code for: nothing is sent for them.
Unknown(code, firefox) == get_scancode(code, firefox) = Null

(* Each key goes down by itself and comes up by itself, whatever is pressed    *)
(* in between: no two key codes share a scan code, and every release undoes    *)
(* its press.  The Print key is the exception: its code holds a second key,    *)
(* which stays down in the guest (keycode_to_end_scan).                        *)
KeysRelease ==
  data.kind = "keys" =>
    LET down1 == Pushed({}, data.got[1])
        down2 == Pushed(down1, data.got[2])
        up1   == Pushed(down2, data.got[3])
        quiet == Cardinality({i \in 1..2 : Unknown(data.given[i], data.given[3])})
    IN  \/ PrintCode \in {data.given[1], data.given[2]}
        \/ data.given[1] = data.given[2]
        \/ /\ Cardinality(down2) = 2 - quiet
           /\ Cardinality(up1) = IF Unknown(data.given[2], data.given[3]) THEN 0 ELSE 1
           /\ Pushed(up1, data.got[4]) = {}

-----------------------------------------------------------------------------
(* Messages of the server (external), each with its numbers and the parts they *)
(* point to, and what the client must find in them.                            *)

L8(n)  == <<n % 256>>
L16(n) == <<n % 256, (n \div 256) % 256>>
L32(n) == L16(n) \o L16(n \div 65536)
L32s(ns) == FlattenSeq([k \in DOMAIN ns |-> L32(ns[k])])
Rect(r)  == L32s(<<r[1], r[2], r[3], r[4]>>)
RectOf(r) == [top |-> r[1], left |-> r[2], bottom |-> r[3], right |-> r[4]]

Clip(rects) ==
  IF rects = <<>> THEN L8(0) ELSE L8(1) \o L32(Len(rects)) \o FlattenSeq([k \in DOMAIN rects |-> Rect(rects[k])])
ClipOf(rects) == IF rects = <<>> THEN Null ELSE [k \in DOMAIN rects |-> RectOf(rects[k])]

\* The id of an image is 64 bits: a low half and a high one.
Descriptor(type, n, high) == L32s(<<n, high>>) \o L8(type) \o L8(0) \o L32s(<<2, n>>)
Lz(body, n) == <<32, 32, 90, 76>> \o FlattenSeq([k \in 1..6 |-> B32(n + k)]) \o body
LzOf(body, n) ==
  [lz |-> [magic |-> <<76, 90, 32, 32>>,
           head |-> [version |-> n + 1, type |-> n + 2, width |-> n + 3, height |-> n + 4,
                     stride |-> n + 5, top_down |-> n + 6]], data |-> body]

\* The palette of a bitmap: none, its own, which palAt points to, or a cached one.
PaletteKinds    == {"none", "own", "cached"}
PaletteBytes(n) == L32s(<<n, 5>>) \o L16(2) \o L32s(<<7, n>>)
PalettePart(pal, n, palAt) ==
  CASE pal = "none" -> L32(0) [] pal = "own" -> L32(palAt) [] pal = "cached" -> L32s(<<n, 5>>)
BitmapHead(pal, n) ==
  [format |-> 8, flags |-> IF pal = "cached" THEN 6 ELSE 4, x |-> n, y |-> 1, stride |-> 4 * n]

\* The image types: the bytes after the descriptor, and what they say.
Image(type, body, n, high, pal, palAt) ==
  Descriptor(type, n, high) \o
  (CASE type = BitmapType  -> L8(8) \o L8(BitmapHead(pal, n).flags) \o L32s(<<n, 1, 4 * n>>)
                              \o PalettePart(pal, n, palAt) \o body
     [] type = LZRgbType   -> L32(28 + Len(body)) \o Lz(body, n)
     [] type = SurfaceType -> L32(n)
     [] type \in {JpegType, QuicType} -> L32(Len(body)) \o body
     [] type = JpegAlphaType ->
          L8(1) \o L32s(<<Len(body), 2 * Len(body) + 28>>) \o body \o Lz(Reverse(body), n))
ImageTypes == {BitmapType, LZRgbType, SurfaceType, JpegType, QuicType, JpegAlphaType}

ImageOf(type, body, n, high, pal) ==
  [descriptor |-> [id |-> <<n, high>>, type |-> type, flags |-> 0, width |-> 2, height |-> n],
   body |->
     CASE type = BitmapType  ->
            [head |-> BitmapHead(pal, n),
             palette_id |-> IF pal = "cached" THEN [unique0 |-> n, unique1 |-> 5] ELSE Null,
             palette |-> IF pal = "own" THEN [unique |-> <<n, 5>>, ents |-> <<7, n>>] ELSE Null, data |-> body]
       [] type = LZRgbType   -> LzOf(body, n)
       [] type = SurfaceType -> n
       [] type \in {JpegType, QuicType} -> [size |-> Len(body), data |-> body]
       [] type = JpegAlphaType -> [flags |-> 1, data |-> body, alpha |-> LzOf(Reverse(body), n)]]

\* Base and mask of a draw; ptr points to the bitmap of the mask, or is 0.
Base(s, r, rects)   == L32(s) \o Rect(r) \o Clip(rects)
BaseOf(s, r, rects) == [head |-> [surface_id |-> s] @@ RectOf(r), clip |-> ClipOf(rects)]
MaskBytes(x, y, ptr) == L8(1) \o L32s(<<x, y, ptr>>)
MaskHead(x, y) == [flags |-> 1, x |-> x, y |-> y]

\* A draw: its images and what comes after each in the message, and the rest.
Draw(kind, images, after, other, got) ==
  Piece(kind, [images |-> images, after |-> after, other |-> other], got)

CopyRead(got) ==
  [images |-> <<got.data.src_bitmap, got.data.mask.bitmap>>,
   other  |-> <<got.base, got.data.head, got.data.mask.head>>]

\* Of a brush there is the colour alone, or the pattern and where it begins.
FillRead(got, solid) ==
  LET b == got.data.brush
  IN  [images |-> <<IF solid THEN Null ELSE b.pat, got.data.mask.bitmap>>,
       other  |-> <<got.base, IF solid THEN <<b>> ELSE <<b.pos.x, b.pos.y>>, got.data.rop, got.data.mask.head>>]

\* The image, that of the mask and the palette follow one another.
ReceiveDrawCopy ==
  \E s, x, y \in Numbers, type \in ImageTypes, body \in Bodies, clips \in {0, 2}, masked \in BOOLEAN :
  \E high \in {0, x}, pal \in IF type = BitmapType THEN PaletteKinds ELSE {"none"} :
       LET r == <<x, y, s, 7>>
           rects == [k \in 1..clips |-> <<y, k, x, s>>]
           base  == Base(s, r, rects)
           src   == <<y, x, 1, s>>
           at    == Len(base) + 36
           mask  == IF masked THEN Image(BitmapType, Reverse(body), x, 0, "none", 0) ELSE <<>>
           maskAt == at + Len(Image(type, body, y, high, pal, 0))
           pals  == IF pal = "own" THEN PaletteBytes(y) ELSE <<>>
       IN  Draw("copy",
                <<ImageOf(type, body, y, high, pal),
                  IF masked THEN ImageOf(BitmapType, Reverse(body), x, 0, "none") ELSE Null>>,
                <<mask \o pals, pals>>,
                <<BaseOf(s, r, rects), RectOf(src) @@ [rop_descriptor |-> 8, scale_mode |-> 1], MaskHead(x, y)>>,
                SpiceMsgDisplayDrawCopy(
                  base \o L32(at) \o Rect(src) \o L16(8) \o L8(1) \o MaskBytes(x, y, IF masked THEN maskAt ELSE 0)
                  \o Image(type, body, y, high, pal, maskAt + Len(mask)) \o mask \o pals))

\* With a solid brush, or a pattern that is an image.
ReceiveDrawFill ==
  \E s, x, y \in Numbers, solid, masked \in BOOLEAN, body \in Bodies :
       LET type  == IF masked THEN BitmapType ELSE LZRgbType
           base  == Base(s, <<x, y, s, 7>>, <<>>)
           at    == Len(base) + (IF solid THEN 5 ELSE 13) + 2 + 13
           brush == IF solid THEN L8(1) \o L32(x) ELSE L8(2) \o L32s(<<at, x, y>>)
           pat   == IF solid THEN <<>> ELSE Image(type, body, s, 0, "none", 0)
           mask  == IF masked THEN Image(type, Reverse(body), y, x, "none", 0) ELSE <<>>
           ptr   == IF masked THEN at + Len(pat) ELSE 0
       IN  Draw("fill",
                <<IF solid THEN Null ELSE ImageOf(type, body, s, 0, "none"),
                  IF masked THEN ImageOf(type, Reverse(body), y, x, "none") ELSE Null>>,
                <<mask, <<>>>>,
                <<BaseOf(s, <<x, y, s, 7>>, <<>>), IF solid THEN <<x>> ELSE <<x, y>>, 8, MaskHead(y, x)>>,
                SpiceMsgDisplayDrawFill(base \o brush \o L16(8) \o MaskBytes(y, x, ptr) \o pat \o mask))

ReceiveCopyBits ==
  \E s, x, y \in Numbers :
       Piece("message", [base |-> BaseOf(s, <<x, y, 3, s>>, <<<<s, s, y, x>>>>), data |-> [x |-> x, y |-> y]],
             SpiceMsgDisplayCopyBits(Base(s, <<x, y, 3, s>>, <<<<s, s, y, x>>>>) \o L32s(<<x, y>>)))

\* The messages of a stream: created, clipped anew, given data.
ReceiveStream ==
  \E s, x, y \in Numbers, body \in Bodies :
       LET rects == <<<<x, y, s, y>>, <<s, s, x, y>>>>
       IN  Piece("message",
             <<[head |-> [surface_id |-> s, id |-> x, flags |-> 1, codec_type |-> 1],
                size |-> [stream_width |-> 4, stream_height |-> y, src_width |-> 5, src_height |-> x] @@ RectOf(rects[1]),
                clip |-> ClipOf(rects)],
               [id |-> x, clip |-> ClipOf(rects)],
               [head |-> [id |-> x, multi_media_time |-> y], data |-> body]>>,
             <<SpiceMsgDisplayStreamCreate(
                 L32s(<<s, x>>) \o <<1, 1>> \o L32s(<<0, 0>>) \o L32s(<<4, y, 5, x>>) \o Rect(rects[1]) \o Clip(rects)),
               SpiceMsgDisplayStreamClip(L32(x) \o Clip(rects)),
               SpiceMsgDisplayStreamData(L32s(<<x, y, Len(body)>>) \o body \o <<9, 9>>)>>)

Small(n) == n % 65536
CursorBytes(none, n, body) ==
  IF none THEN L16(1) ELSE L16(4) \o L32s(<<n, 5>>) \o L8(0) \o L16(n) \o L16(3) \o L16(1) \o L16(2) \o body
CursorOf(none, n, body) ==
  IF none THEN Null
  ELSE [header |-> [unique0 |-> n, unique1 |-> 5, type |-> 0, width |-> Small(n), height |-> 3,
                    hot_spot_x |-> 1, hot_spot_y |-> 2], data |-> body]

ReceiveCursor ==
  \E n, x \in Numbers, none \in BOOLEAN, body \in Bodies :
       Piece("message",
         <<[head |-> [x |-> Small(x), y |-> 1, trail_length |-> 2, trail_frequency |-> 3, visible |-> 1],
            cursor |-> CursorOf(none, n, body)],
           [head |-> [x |-> Small(x), y |-> 1, visible |-> 0], cursor |-> CursorOf(none, n, body)]>>,
         <<SpiceMsgCursorInit(L16(x) \o L16(1) \o L16(2) \o L16(3) \o L8(1) \o CursorBytes(none, n, body)),
           SpiceMsgCursorSet(L16(x) \o L16(1) \o L8(0) \o CursorBytes(none, n, body))>>)

\* Link reply, channel list, notification and the frame of a message.
ReceiveMain ==
  \E n, x \in Numbers, body \in Bodies : \E caps \in {<<>>, <<x>>} :
       Piece("message",
         <<[error |-> 0, common_caps |-> <<n>>, channel_caps |-> caps],
           <<[type |-> 2, id |-> 0], [type |-> 4, id |-> 1]>>,
           [head |-> [time_stamp0 |-> n, time_stamp1 |-> 0, severity |-> 1, visibility |-> 2, what |-> x,
                      message_len |-> Len(body)], message |-> body],
           [head |-> [type |-> 7, size |-> Len(body)], data |-> body]>>,
         <<SpiceLinkReply(L32(0) \o body \o L32s(<<1, Len(caps), 16 + Len(body), n>>) \o L32s(caps), Len(body)),
           SpiceMsgChannels(L32(2) \o <<2, 0, 4, 1>>),
           SpiceMsgNotify(L32s(<<n, 0, 1, 2, x, Len(body)>>) \o body \o <<0>>),
           SpiceMiniData(L16(7) \o L32(Len(body)) \o body)>>)

\* A message of numbers alone.
NumbersOf(layout, n) == [k \in DOMAIN layout |-> IF layout[k].width = 4 THEN n + k ELSE k]
Layouts == {SpiceMsgMainInit, SpiceMsgMainMouseMode, SpiceMsgSetAck, SpiceMsgSurfaceCreate,
            SpiceMsgSurfaceDestroy, SpiceMsgInputsInit, SpiceMsgInputsKeyModifiers, SpiceLinkAuthReply,
            SpiceMsgDisplayStreamDestroy}
ReceiveNumbers ==
  \E layout \in Layouts, n \in Numbers :
       LET vals == NumbersOf(layout, n)
           bytes == FlattenSeq([k \in DOMAIN layout |-> IF layout[k].width = 4 THEN L32(vals[k]) ELSE L16(vals[k])])
       IN  Piece("message", [name \in {f.name : f \in Range(layout)} |->
                              vals[CHOOSE k \in DOMAIN layout : layout[k].name = name]],
                 Plain(bytes, 0, layout).val)

-----------------------------------------------------------------------------
(* A message of the client: it fills the buffer made for it, and the server    *)
(* reads from it the numbers that were written.                                *)
SendMessage ==
  \E n, x \in Numbers, body \in Bodies, framed \in BOOLEAN :
     \E m \in {SpiceLinkHeader(n), SpiceLinkMess(n, 1, 0, <<x>>, <<n, x>>), SpiceLinkMess(n, 2, 1, <<>>, <<>>),
               SpiceLinkAuthTicket(body, Len(body)), SpiceMsgcAckSync(n), SpiceMsgcMainMouseModeRequest(2),
               SpiceMsgcDisplayInit, SpiceMsgcMousePosition(n, x, 4), SpiceMsgcMousePress(1, 2),
               SpiceMsgcMouseMotion(x, n, 1), SpiceMsgcMouseRelease(2), SpiceMsgcKeyDown(x), SpiceMsgcKeyUp(n)} :
       Piece("sent", m, IF framed THEN Framed(3, m).u8 ELSE <<3, 0>> \o L32(Len(m.u8)) \o m.u8)

\* What the client finds of an image after which the message goes on.
RunsOn == {BitmapType, JpegType, QuicType}
ImageRead(image, after) ==
  IF image = Null THEN Null
  ELSE [image EXCEPT !.descriptor.id = @[1] + @[2],
                     !.body = IF image.descriptor.type \in RunsOn THEN [@ EXCEPT !.data = @ \o after] ELSE @]

(* Whatever the server says, its signs, pointers, lists and slices included,   *)
(* is what the client reads; and what the client says fills its buffer and is  *)
(* what the server reads there, behind a header that announces its length.     *)
(* Two things of images are excepted, and are these and nothing else: the id   *)
(* is the sum of its two halves, which is the low one only where the high      *)
(* one is 0, so images of different ids may be taken for one another; and the  *)
(* data of a bitmap, a JPEG or a QUIC picture go on over whatever follows in   *)
(* the message, a mask's image or a palette (the FIXME of SpiceBitmap).        *)
MessagesRead ==
  /\ data.kind = "message" => data.got = data.given
  /\ data.kind \in {"copy", "fill"} =>
       LET got == IF data.kind = "copy" THEN CopyRead(data.got)
                  ELSE FillRead(data.got, data.given.images[1] = Null)
       IN  /\ got.other = data.given.other
           /\ got.images = [k \in 1..2 |-> ImageRead(data.given.images[k], data.given.after[k])]
  /\ data.kind = "sent" =>
       /\ Size(data.given.layout) = Len(data.given.u8)
       /\ Written(data.given, SubSeq(data.got, 7, Len(data.got))) = data.given.vals
       /\ SpiceMiniData(data.got).head = [type |-> 3, size |-> Len(data.given.u8)]

-----------------------------------------------------------------------------
Consumed == data # Nothing /\ data' = Nothing

DataNext ==
  \/ data = Nothing /\ (SendTicket \/ HashText \/ DecodeQuic \/ DecodeLz \/ DecodeBitmap \/ ShowCursor \/ PressKeys)
  \/ data = Nothing /\ (ReceiveDrawCopy \/ ReceiveDrawFill \/ ReceiveCopyBits \/ ReceiveStream
                        \/ ReceiveCursor \/ ReceiveMain \/ ReceiveNumbers \/ SendMessage)
  \/ Consumed

=============================================================================
