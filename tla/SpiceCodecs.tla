---------------------------- MODULE SpiceCodecs ----------------------------
(* What the SPICE client makes of data: LZ pictures and bitmaps, cursors (as   *)
(* PNG files) and the scan codes of keys.                                      *)
EXTENDS SpiceBytes

CONSTANTS
  LenBits, OfsBits,   \* of an LZ control byte: 3 and 5
  CodeBits            \* of the LZ bytes after it: 8

ASSUME CodecAssumption == LenBits \in Nat \ {0, 1} /\ OfsBits \in Nat \ {0} /\ CodeBits \in Nat \ {0}

createImageData(n) == Tuple([k \in 1..n |-> <<0, 0, 0, 0>>])

-----------------------------------------------------------------------------
(* LZ.  alpha: the bytes are of the alpha plane alone; opaque: the pictures    *)
(* have none (default_alpha).                                                  *)

MaxCode == 2 ^ CodeBits - 1
FarAway == 2 ^ (OfsBits + CodeBits) - 1

Literals(u8, at, op, n, out, alpha, opaque) ==
  Tuple([k \in 1..Len(out) |->
    LET i == k - op - 1
    IN  CASE i \notin 0..(n - 1) -> out[k]
          [] i \in 0..(n - 1) /\ alpha -> [out[k] EXCEPT ![4] = At(u8, at + i)]
          [] OTHER -> <<At(u8, at + 3 * i + 2), At(u8, at + 3 * i + 1), At(u8, at + 3 * i),
                        IF opaque THEN 255 ELSE out[k][4]>>])

\* Pixel by pixel: those copied may be copied again.  The pixel just before is
\* repeated in the same way.
Copies[out \in Seq(Seq(Nat)), op \in Nat, ref \in Int, n \in Nat, alpha \in BOOLEAN] ==
  IF n = 0 \/ op >= Len(out) THEN out
  ELSE Copies[[out EXCEPT ![op + 1] = IF alpha THEN [@ EXCEPT ![4] = out[ref + 1][4]] ELSE out[ref + 1]],
              op + 1, ref + 1, n - 1, alpha]

\* More of a length, while the code is the largest.
Longer[u8 \in Seq(Nat), at \in Nat, len \in Nat] ==
  IF At(u8, at) = MaxCode THEN Longer[u8, at + 1, len + MaxCode]
  ELSE [at |-> at + 1, len |-> len + At(u8, at)]

\* Mutant: a far match is not moved on by the window.
LzMatchNear(u8, at, alpha) ==
  LET ctrl  == At(u8, at)
      high  == ctrl % 2 ^ OfsBits
      short == ctrl \div 2 ^ OfsBits - 1
      l     == IF short = 2 ^ LenBits - 2 THEN Longer[u8, at + 1, short] ELSE [at |-> at + 1, len |-> short]
      code  == At(u8, l.at)
      far   == code = MaxCode /\ high = 2 ^ OfsBits - 1
  IN  [at  |-> IF far THEN l.at + 3 ELSE l.at + 1,
       len |-> l.len + 1 + (IF alpha THEN 2 ELSE 0),
       ofs |-> 1 + (IF far THEN At(u8, l.at + 1) * 2 ^ CodeBits + At(u8, l.at + 2)
                           ELSE high * 2 ^ CodeBits + code)]

LzMatch(u8, at, alpha) ==
  LET ctrl  == At(u8, at)
      high  == ctrl % 2 ^ OfsBits
      short == ctrl \div 2 ^ OfsBits - 1
      l     == IF short = 2 ^ LenBits - 2 THEN Longer[u8, at + 1, short] ELSE [at |-> at + 1, len |-> short]
      code  == At(u8, l.at)
      far   == code = MaxCode /\ high = 2 ^ OfsBits - 1
  IN  [at  |-> IF far THEN l.at + 3 ELSE l.at + 1,
       len |-> l.len + 1 + (IF alpha THEN 2 ELSE 0),
       ofs |-> 1 + (IF far THEN At(u8, l.at + 1) * 2 ^ CodeBits + At(u8, l.at + 2) + FarAway
                           ELSE high * 2 ^ CodeBits + code)]

lz_rgb32_decompress[u8 \in Seq(Nat), at \in Nat, op \in Nat, out \in Seq(Seq(Nat)), alpha \in BOOLEAN, opaque \in BOOLEAN] ==
  LET n == At(u8, at) + 1
      m == LzMatch(u8, at, alpha)
  IN  CASE op >= Len(out) -> [at |-> at, out |-> out]
        [] op < Len(out) /\ n <= 2 ^ OfsBits ->
             lz_rgb32_decompress[u8, at + 1 + n * (IF alpha THEN 1 ELSE 3), op + n,
                                 Literals(u8, at + 1, op, n, out, alpha, opaque), alpha, opaque]
        [] OTHER ->
             lz_rgb32_decompress[u8, m.at, op + m.len, Copies[out, op, op - m.ofs, m.len, alpha], alpha, opaque]

LzRGB32 == 8
LzRGBA  == 9
LzXXXA  == 10

\* Whatever top_down says, the first row read is put at the top.
convert_spice_lz_to_web(lz) ==
  LET out == createImageData(lz.width * lz.height)
      rgb == lz_rgb32_decompress[lz.data, 0, 0, out, FALSE, lz.type # LzRGBA]
  IN  CASE lz.type = LzRGB32 -> rgb.out
        [] lz.type = LzRGBA  -> lz_rgb32_decompress[lz.data, rgb.at, 0, rgb.out, TRUE, FALSE].out
        [] lz.type = LzXXXA  -> lz_rgb32_decompress[lz.data, 0, 0, out, TRUE, FALSE].out
        [] OTHER -> Null

Format32Bit == 8
FormatRGBA  == 9

\* One pixel after the other from the top, whatever the stride and the flags;
\* the alpha of an RGBA pixel is read from its first byte, the blue one.
convert_spice_bitmap_to_web(b) ==
  LET last == (b.y * b.stride + 4 * b.x - 1) \div (4 * b.x)    \* rows read
      read == Tuple([k \in 1..(last * b.x) |->
                LET o == 4 * (k - 1)
                IN  <<At(b.data, o + 2), At(b.data, o + 1), At(b.data, o),
                      IF b.format = Format32Bit THEN 255 ELSE At(b.data, o)>>])
  IN  IF b.format \notin {Format32Bit, FormatRGBA} THEN Null
      ELSE Tuple([k \in 1..(b.x * b.y) |-> IF k <= Len(read) THEN read[k] ELSE <<0, 0, 0, 0>>])

-----------------------------------------------------------------------------
(* A PNG file: chunks of a length, a name, data and a CRC.  The CRC's 32 bits  *)
(* are the set of those that are 1.                                            *)

Exclusive(c, d) == (c \ d) \cup (d \ c)
Shifted(c, n)   == {b - n : b \in {k \in c : k >= n}}
OctetBits(b)    == {k \in 0..7 : (b \div 2 ^ k) % 2 = 1}
Polynomial == {31, 30, 29, 27, 26, 24, 23, 21, 20, 19, 15, 9, 8, 5}   \* 0xedb88320

Remainders[c \in SUBSET (0..31), n \in 0..8] ==
  IF n = 0 THEN c
  ELSE Remainders[IF 0 \in c THEN Exclusive(Polynomial, Shifted(c, 1)) ELSE Shifted(c, 1), n - 1]
rfc2083_crc_table == [n \in Octet |-> Remainders[OctetBits(n), 8]]

NumberOfBits(c) == LET v[k \in 0..8] == IF k = 0 THEN 0 ELSE v[k - 1] + (IF k - 1 \in c THEN 2 ^ (k - 1) ELSE 0) IN v[8]

rfc2083_update_crc[c \in SUBSET (0..31), bytes \in Seq(Octet)] ==
  IF bytes = <<>> THEN c
  ELSE rfc2083_update_crc[
         Exclusive(rfc2083_crc_table[NumberOfBits(Exclusive(c, OctetBits(Head(bytes))) \cap 0..7)], Shifted(c, 8)),
         Tail(bytes)]
crc32(bytes) == (0..31) \ rfc2083_update_crc[0..31, bytes]

B16(n) == <<(n \div 256) % 256, n % 256>>
B32(n) == B16(n \div 65536) \o B16(n)
BitsB32(c) == [k \in 1..4 |-> NumberOfBits(Shifted(c, 8 * (4 - k)) \cap 0..7)]

Chunk(name, data) == B32(Len(data)) \o name \o data \o BitsB32(crc32(name \o data))

IHDR == <<73, 72, 68, 82>>
IDAT == <<73, 68, 65, 84>>
IEND == <<73, 69, 78, 68>>

PngIHDR(width, height) == Chunk(IHDR, B32(width) \o B32(height) \o <<8, 6, 0, 0, 0>>)

\* adler: s1 and s2.
Adler[s1 \in Nat, s2 \in Nat, bytes \in Seq(Octet)] ==
  LET s == (s1 + Head(bytes)) % 65521
  IN  IF bytes = <<>> THEN <<s1, s2>> ELSE Adler[s, (s2 + s) % 65521, Tail(bytes)]

\* The rows of the pixels, each after a filter byte, 0.
Filtered(width, height, bytes) ==
  FoldLeft(LAMBDA rows, y : rows \o <<0>> \o SubSeq(bytes, 4 * width * (y - 1) + 1, 4 * width * y),
           <<>>, [y \in 1..height |-> y])

PngIDAT(width, height, bytes) ==
  LET rows == Filtered(width, height, bytes)
      sum  == Adler[1, 0, rows]
      size == Len(bytes) + height
  IN  Chunk(IDAT, <<120, 1, 128>> \o B16(size) \o B16(65535 - size) \o rows \o B16(sum[2]) \o B16(sum[1]))

PngIEND == Chunk(IEND, <<>>)

\* More than fits in one block: PngIDAT throws.
TooLong(bytes) == Len(bytes) > 65535

create_rgba_png(width, height, bytes) ==
  IF TooLong(bytes) THEN Null
  ELSE <<137, 80, 78, 71, 13, 10, 26, 10>> \o PngIHDR(width, height) \o PngIDAT(width, height, bytes) \o PngIEND

\* set_cursor gives the height as the width, and the width as the height.
set_cursor(cursor) == create_rgba_png(cursor.height, cursor.width, cursor.data)

-----------------------------------------------------------------------------
(* Keys: the browser's key code, the scan code, and the bytes sent for it.     *)

\* KEY_Escape is 1, and so on.
KeyNames ==
  <<"Escape", "1", "2", "3", "4", "5", "6", "7", "8", "9", "0", "Minus", "Equal", "BackSpace", "Tab",
    "Q", "W", "E", "R", "T", "Y", "U", "I", "O", "P", "LBrace", "RBrace", "Enter", "LCtrl",
    "A", "S", "D", "F", "G", "H", "J", "K", "L", "SemiColon", "Quote", "Tilde", "ShiftL", "BSlash",
    "Z", "X", "C", "V", "B", "N", "M", "Comma", "Period", "Slash", "ShiftR", "KP_Multiply", "Alt", "Space",
    "CapsLock", "F1", "F2", "F3", "F4", "F5", "F6", "F7", "F8", "F9", "F10", "NumLock", "ScrollLock",
    "KP_7", "KP_8", "KP_9", "KP_Minus", "KP_4", "KP_5", "KP_6", "KP_Plus", "KP_1", "KP_2", "KP_3", "KP_0",
    "KP_Decimal", "SysReqest", "", "Less", "F11", "F12">>
KEY == [name \in Range(KeyNames) |-> CHOOSE k \in DOMAIN KeyNames : KeyNames[k] = name]

\* The key codes from first on are those of the named keys.
From(first, names) == [k \in 1..Len(names) |-> <<first + k - 1, KEY[names[k]]>>]

Extended == 57344      \* 0xE000
PrintCode == 44
PrintScan == 10807         \* 0x2A37
common_scanmap == Range(
     From(65, <<"A", "B", "C", "D", "E", "F", "G", "H", "I", "J", "K", "L", "M", "N", "O", "P", "Q", "R",
                "S", "T", "U", "V", "W", "X", "Y", "Z">>)
  \o From(48, <<"0", "1", "2", "3", "4", "5", "6", "7", "8", "9">>)
  \o From(112, <<"F1", "F2", "F3", "F4", "F5", "F6", "F7", "F8", "F9", "F10", "F11", "F12">>)
  \o From(96, <<"KP_0", "KP_1", "KP_2", "KP_3", "KP_4", "KP_5", "KP_6", "KP_7", "KP_8", "KP_9">>)
  \o From(107, <<"KP_Plus">>) \o From(110, <<"KP_Decimal">>) \o From(32, <<"Space">>)
  \o From(13, <<"Enter">>) \o From(27, <<"Escape">>) \o From(8, <<"BackSpace", "Tab">>)
  \o From(16, <<"ShiftL", "LCtrl", "Alt">>) \o From(20, <<"CapsLock">>) \o From(144, <<"NumLock", "ScrollLock">>)
  \o From(190, <<"Period", "Slash", "Tilde">>) \o From(188, <<"Comma">>)
  \o From(219, <<"LBrace", "BSlash", "RBrace", "Quote">>)
  \o <<<<42, 99>>, <<19, 101>>, <<PrintCode, PrintScan>>>>)
  \cup {<<k[1], Extended + k[2]>> : k \in
     {<<111, 53>>, <<106, 55>>, <<36, 71>>, <<38, 72>>, <<33, 73>>, <<37, 75>>, <<39, 77>>, <<35, 79>>,
      <<40, 80>>, <<34, 81>>, <<45, 82>>, <<46, 83>>, <<91, 91>>, <<92, 92>>, <<93, 93>>}}
firefox_scanmap == Range(From(109, <<"Minus">>) \o From(61, <<"Equal">>) \o From(59, <<"SemiColon">>))
DOM_scanmap     == Range(From(189, <<"Minus">>) \o From(187, <<"Equal">>) \o From(186, <<"SemiColon">>))

get_scancode(code, firefox) ==
  LET Of(map) == {k[2] : k \in {p \in map : p[1] = code}}
      own     == Of(IF firefox THEN firefox_scanmap ELSE DOM_scanmap)
  IN  CASE Of(common_scanmap) # {} -> CHOOSE s \in Of(common_scanmap) : TRUE
        [] Of(common_scanmap) = {} /\ own # {} -> CHOOSE s \in own : TRUE
        [] OTHER -> Null

\* The bytes of the number, lowest first: 0xe0 | (scancode - 0x100) << 8.
keycode_to_start_scan(code, firefox) ==
  LET s == get_scancode(code, firefox)
  IN  CASE s = Null -> <<0, 0, 0, 0>>
        [] s # Null /\ s < 256 -> <<s, 0, 0, 0>>
        [] OTHER -> <<224, s % 256, s \div 256 - 1, 0>>

\* scancode | 0x80, and 0x80e0 | (scancode - 0x100) << 8.
WithHighBit(b) == IF b < 128 THEN b + 128 ELSE b
\* Mutant: the first byte alone is marked.
keycode_to_end_scanFirst(code, firefox) ==
  LET start == keycode_to_start_scan(code, firefox)
  IN  IF get_scancode(code, firefox) = Null THEN start ELSE [start EXCEPT ![1] = WithHighBit(@)]

keycode_to_end_scan(code, firefox) ==
  LET start == keycode_to_start_scan(code, firefox)
  IN  CASE get_scancode(code, firefox) = Null -> start
        [] get_scancode(code, firefox) # Null /\ start[1] # 224 -> [start EXCEPT ![1] = WithHighBit(@)]
        [] OTHER -> [start EXCEPT ![2] = WithHighBit(@)]
=============================================================================
