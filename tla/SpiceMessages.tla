--------------------------- MODULE SpiceMessages ---------------------------
(* How the SPICE client reads the server's messages and writes its own: the    *)
(* layout of every message, the numbers' byte order and sign, the parts that   *)
(* others count or point to.  A buffer is a sequence of bytes, read from the   *)
(* offset 0; a layout is a sequence of fields.                                 *)
EXTENDS SpiceBytes, TLC

GetUint8(u8, at) == At(u8, at)

GetUint16(u8, at, little) ==
  IF little THEN 256 * GetUint8(u8, at + 1) + GetUint8(u8, at)
            ELSE 256 * GetUint8(u8, at) + GetUint8(u8, at + 1)

\* high << 16 | low has the sign of its bit 31.
GetUint32(u8, at, little) ==
  LET high == GetUint16(u8, IF little THEN at + 2 ELSE at, little)
      low  == GetUint16(u8, IF little THEN at ELSE at + 2, little)
  IN  65536 * (IF high >= 32768 THEN high - 65536 ELSE high) + low

Uint32(u8, at) == GetUint32(u8, at, TRUE)

SetUint8(u8, at, b) == IF at < Len(u8) THEN [u8 EXCEPT ![at + 1] = b % 256] ELSE u8

SetUint16(u8, at, i, little) ==
  SetUint8(SetUint8(u8, IF little THEN at + 1 ELSE at, i \div 256),
           IF little THEN at ELSE at + 1, i)

SetUint32(u8, at, w, little) ==
  SetUint16(SetUint16(u8, IF little THEN at + 2 ELSE at, w \div 65536, little),
            IF little THEN at ELSE at + 2, w, little)

-----------------------------------------------------------------------------
(* Layouts.  A field is its name, its width in bytes, and its byte order.      *)

Fields(names, width) == [k \in 1..Len(names) |-> [name |-> names[k], width |-> width, little |-> TRUE]]
U8(names)  == Fields(names, 1)
U16(names) == Fields(names, 2)
U32(names) == Fields(names, 4)
Swapped(layout) == [k \in DOMAIN layout |-> [layout[k] EXCEPT !.little = FALSE]]

Offset(layout, k) ==
  LET ends[i \in 0..Len(layout)] == IF i = 0 THEN 0 ELSE ends[i - 1] + layout[i].width
  IN  ends[k]
Size(layout) == Offset(layout, Len(layout))

Get(u8, at, f) ==
  CASE f.width = 1 -> GetUint8(u8, at)
    [] f.width = 2 -> GetUint16(u8, at, f.little)
    [] f.width = 4 -> GetUint32(u8, at, f.little)

\* The fields of a layout, read one after the other from at.
Read(u8, at, layout) ==
  LET Of(name) == CHOOSE k \in DOMAIN layout : layout[k].name = name
  IN  [name \in {layout[k].name : k \in DOMAIN layout} |->
         Get(u8, at + Offset(layout, Of(name) - 1), layout[Of(name)])]

\* What from_dv returns: the value and where it ends.
Part(val, at) == [val |-> val, at |-> at]
Plain(u8, at, layout) == Part(Read(u8, at, layout), at + Size(layout))

Set(u8, at, f, x) ==
  CASE f.width = 1 -> SetUint8(u8, at, x)
    [] f.width = 2 -> SetUint16(u8, at, x, TRUE)
    [] f.width = 4 -> SetUint32(u8, at, x, TRUE)

\* to_buffer: the values vals, written one after the other from at.
Write(u8, at, layout, vals) ==
  LET buffer[k \in 0..Len(layout)] ==
        IF k = 0 THEN u8 ELSE Set(buffer[k - 1], at + Offset(layout, k - 1), layout[k], vals[k])
  IN  buffer[Len(layout)]

-----------------------------------------------------------------------------
(* Types that messages share.                                                  *)

SpiceChannelId     == U8(<<"type", "id">>)
SpiceRect          == U32(<<"top", "left", "bottom", "right">>)
SpicePoint16       == U16(<<"x", "y">>)
SpicePoint         == U32(<<"x", "y">>)
SpiceSurface       == U32(<<"surface_id", "width", "height", "format", "flags">>)
SpiceCursorHeader  == U32(<<"unique0", "unique1">>) \o U8(<<"type">>)
                      \o U16(<<"width", "height", "hot_spot_x", "hot_spot_y">>)
LZHeader           == Swapped(U32(<<"version", "type", "width", "height", "stride", "top_down">>))

\* mb.slice(from, to), which ends where the buffer ends.
Slice(u8, from, to) == SubSeq(u8, from + 1, IF to < Len(u8) THEN to ELSE Len(u8))

Rects(u8, at, n) == [i \in 1..n |-> Read(u8, at + 16 * (i - 1), SpiceRect)]

SpiceClipRects(u8, at) ==
  LET n == Uint32(u8, at) IN Part(Rects(u8, at + 4, n), at + 4 + 16 * n)

ClipRects == 1
SpiceClip(u8, at) ==
  IF GetUint8(u8, at) = ClipRects THEN SpiceClipRects(u8, at + 1) ELSE Part(Null, at + 1)

\* The two halves of the id are added up: << 32 shifts by nothing.
SpiceImageDescriptor(u8, at) ==
  LET f == Read(u8, at, U32(<<"low", "high">>) \o U8(<<"type", "flags">>) \o U32(<<"width", "height">>))
  IN  Part([id |-> f.low + f.high, type |-> f.type, flags |-> f.flags, width |-> f.width, height |-> f.height],
           at + 18)

SpicePalette(u8, at) ==
  LET n == GetUint16(u8, at + 8, TRUE)
  IN  [unique |-> <<Uint32(u8, at), Uint32(u8, at + 4)>>,
       ents   |-> [i \in 1..n |-> Uint32(u8, at + 10 + 4 * (i - 1))]]

PalFromCache(flags) == (flags \div 2) % 2 = 1
\* The data go on to the end of the message, whatever comes after them.
SpiceBitmap(u8, at) ==
  LET f    == Read(u8, at, U8(<<"format", "flags">>) \o U32(<<"x", "y", "stride">>))
      ptr  == Uint32(u8, at + 14)
      data == at + (IF PalFromCache(f.flags) THEN 22 ELSE 18)
      ids  == Read(u8, at + 14, U32(<<"unique0", "unique1">>))
  IN  Part([head |-> f,
            palette_id |-> IF PalFromCache(f.flags) THEN ids ELSE Null,
            palette |-> IF PalFromCache(f.flags) \/ ptr = 0 THEN Null ELSE SpicePalette(u8, ptr),
            data |-> Slice(u8, data, Len(u8))], Len(u8))

LZHeaderAt(u8, at) ==
  [magic |-> Reverse([k \in 1..4 |-> GetUint8(u8, at + k - 1)]), head |-> Read(u8, at + 4, LZHeader)]

\* The data begin 28 bytes into the length they are said to have.
LZImage(u8, at, length) ==
  LET data == Slice(u8, at + 28, at + length)
  IN  Part([lz |-> LZHeaderAt(u8, at), data |-> data], at + 28 + Len(data))

SpiceLZ(u8, at)   == LZImage(u8, at + 4, Uint32(u8, at))
SpiceJpeg(u8, at) ==
  Part([size |-> Uint32(u8, at), data |-> Slice(u8, at + 4, Len(u8))], Len(u8))

\* The alpha channel after the picture is an LZ image of what is left of the size.
SpiceJpegAlpha(u8, at) ==
  LET f     == Read(u8, at, U8(<<"flags">>) \o U32(<<"jpeg_size", "data_size">>))
      alpha == LZImage(u8, at + 9 + f.jpeg_size, f.data_size - f.jpeg_size)
  IN  Part([flags |-> f.flags, data |-> Slice(u8, at + 9, at + 9 + f.jpeg_size), alpha |-> alpha.val], alpha.at)

BitmapType  == 0
QuicType    == 1
LZRgbType   == 101
SurfaceType == 104
JpegType    == 105
JpegAlphaType == 108

SpiceImage(u8, at) ==
  LET Body(type, from) ==
        CASE type = BitmapType -> SpiceBitmap(u8, from)
          [] type = LZRgbType -> SpiceLZ(u8, from)
          [] type = SurfaceType -> Part(Uint32(u8, from), from + 4)
          [] type \in {JpegType, QuicType} -> SpiceJpeg(u8, from)
          [] type = JpegAlphaType -> SpiceJpegAlpha(u8, from)
          [] OTHER -> Part(Null, from)
      Whole(d, body) == Part([descriptor |-> d.val, body |-> body.val], body.at)
      From(d) == Whole(d, Body(d.val.type, d.at))
  IN  From(SpiceImageDescriptor(u8, at))

\* The image that ptr points to; next is where to read on when it is none.
ImageAt(u8, ptr, next) == IF ptr = 0 THEN Part(Null, next) ELSE SpiceImage(u8, ptr)

SpiceQMask(u8, at) ==
  LET Of(image) == Part([head |-> Read(u8, at, U8(<<"flags">>) \o SpicePoint), bitmap |-> image.val], image.at)
  IN  Of(ImageAt(u8, Uint32(u8, at + 9), at + 13))

SpicePattern(u8, at) ==
  Part([pat |-> ImageAt(u8, Uint32(u8, at), at).val, pos |-> Read(u8, at + 4, SpicePoint)], at + 12)

BrushSolid   == 1
BrushPattern == 2
SpiceBrush(u8, at) ==
  CASE GetUint8(u8, at) = BrushSolid -> Part(Uint32(u8, at + 1), at + 5)
    [] GetUint8(u8, at) = BrushPattern -> SpicePattern(u8, at + 1)
    [] OTHER -> Part(Null, at + 1)

SpiceFill(u8, at) ==
  LET Of(brush, mask) ==
        Part([brush |-> brush.val, rop |-> GetUint16(u8, brush.at, TRUE), mask |-> mask.val], mask.at)
      Brushed(brush) == Of(brush, SpiceQMask(u8, brush.at + 2))
  IN  Brushed(SpiceBrush(u8, at))

SpiceCopy(u8, at) ==
  LET Of(mask) ==
        Part([src_bitmap |-> ImageAt(u8, Uint32(u8, at), at).val,
              head |-> Read(u8, at + 4, SpiceRect \o U16(<<"rop_descriptor">>) \o U8(<<"scale_mode">>)),
              mask |-> mask.val], mask.at)
  IN  Of(SpiceQMask(u8, at + 23))

CursorNone(flags) == flags % 2 = 1
SpiceCursor(u8, at) ==
  IF CursorNone(GetUint16(u8, at, TRUE)) THEN Part(Null, at + 2)
  ELSE Part([header |-> Read(u8, at + 2, SpiceCursorHeader), data |-> Slice(u8, at + 19, Len(u8))], Len(u8))

-----------------------------------------------------------------------------
(* The server's messages: every one is read from the start of its buffer.      *)

SpiceLinkReplyHead  == U32(<<"num_common_caps", "num_channel_caps", "caps_offset">>)
SpiceMsgMainInit    == U32(<<"session_id", "display_channels_hint", "supported_mouse_modes", "current_mouse_mode",
                             "agent_connected", "agent_tokens", "multi_media_time", "ram_hint">>)
SpiceMsgMainMouseMode  == U16(<<"supported_modes", "current_mode">>)
SpiceMsgSetAck         == U32(<<"generation", "window">>)
SpiceMsgSurfaceCreate  == SpiceSurface
SpiceMsgSurfaceDestroy == U32(<<"surface_id">>)
SpiceLinkAuthReply     == U32(<<"auth_code">>)
SpiceMsgInputsInit     == U16(<<"keyboard_modifiers">>)
SpiceMsgInputsKeyModifiers  == U16(<<"keyboard_modifiers">>)
SpiceStreamDataHeader       == U32(<<"id", "multi_media_time">>)
SpiceMsgDisplayStreamDestroy == U32(<<"id">>)

\* Capabilities are put in front of those read before: they come out reversed.
Caps(u8, at, n) == Reverse([k \in 1..n |-> Uint32(u8, at + 4 * (k - 1))])

SpiceLinkReply(u8, keyBytes) ==
  LET f    == Read(u8, 4 + keyBytes, SpiceLinkReplyHead)
  IN  [error |-> Uint32(u8, 0),
       common_caps  |-> Caps(u8, f.caps_offset, f.num_common_caps),
       channel_caps |-> Caps(u8, f.caps_offset + 4 * f.num_common_caps, f.num_channel_caps)]

SpiceMiniData(u8) ==
  [head |-> Read(u8, 0, U16(<<"type">>) \o U32(<<"size">>)), data |-> Slice(u8, 6, Len(u8))]

SpiceMsgChannels(u8) == [i \in 1..Uint32(u8, 0) |-> Read(u8, 4 + 2 * (i - 1), SpiceChannelId)]

SpiceMsgNotify(u8) ==
  LET f == Read(u8, 0, U32(<<"time_stamp0", "time_stamp1", "severity", "visibility", "what", "message_len">>))
  IN  [head |-> f, message |-> [i \in 1..f.message_len |-> GetUint8(u8, 23 + i)]]

SpiceMsgDisplayBase(u8) ==
  LET clip == SpiceClip(u8, 20)
  IN  Part([head |-> Read(u8, 0, U32(<<"surface_id">>) \o SpiceRect), clip |-> clip.val], clip.at)

BaseEnd(u8)         == SpiceMsgDisplayBase(u8).at
AfterBase(u8, data) == [base |-> SpiceMsgDisplayBase(u8).val, data |-> data.val]
SpiceMsgDisplayDrawCopy(u8) == AfterBase(u8, SpiceCopy(u8, BaseEnd(u8)))
SpiceMsgDisplayDrawFill(u8) == AfterBase(u8, SpiceFill(u8, BaseEnd(u8)))
SpiceMsgDisplayCopyBits(u8) == AfterBase(u8, Plain(u8, BaseEnd(u8), SpicePoint))

SpiceMsgCursorInit(u8) ==
  [head |-> Read(u8, 0, SpicePoint16 \o U16(<<"trail_length", "trail_frequency">>) \o U8(<<"visible">>)),
   cursor |-> SpiceCursor(u8, 9).val]
SpiceMsgCursorSet(u8) ==
  [head |-> Read(u8, 0, SpicePoint16 \o U8(<<"visible">>)), cursor |-> SpiceCursor(u8, 5).val]

SpiceMsgDisplayStreamCreate(u8) ==
  [head |-> Read(u8, 0, U32(<<"surface_id", "id">>) \o U8(<<"flags", "codec_type">>)),
   size |-> Read(u8, 18, U32(<<"stream_width", "stream_height", "src_width", "src_height">>) \o SpiceRect),
   clip |-> SpiceClip(u8, 50).val]
SpiceMsgDisplayStreamData(u8) ==
  [head |-> Read(u8, 0, SpiceStreamDataHeader), data |-> Slice(u8, 12, 12 + Uint32(u8, 8))]
SpiceMsgDisplayStreamClip(u8) == [id |-> Uint32(u8, 0), clip |-> SpiceClip(u8, 4).val]

-----------------------------------------------------------------------------
(* The client's messages: buffer_size bytes, written by to_buffer.             *)

ClientSays(layout, vals, buffer_size) ==
  [layout |-> layout, vals |-> vals, u8 |-> Write([i \in 1..buffer_size |-> 0], 0, layout, vals)]

\* The numbers that whoever gets the message m in the buffer from reads there.
Written(m, from) ==
  [k \in DOMAIN m.layout |-> Get(from, Offset(m.layout, k - 1), m.layout[k])]

Numbered(n) == [k \in 1..n |-> ToString(k)]

SpiceLinkHeader(size) ==
  ClientSays(U8(<<"R", "E", "D", "Q">>) \o U32(<<"major_version", "minor_version", "size">>),
       <<82, 69, 68, 81, 2, 2, size>>, 16)

SpiceLinkMess(id, type, channel, common, special) ==
  ClientSays(U32(<<"connection_id">>) \o U8(<<"channel_type", "channel_id">>)
         \o U32(<<"num_common_caps", "num_channel_caps", "caps_offset">>) \o U32(Numbered(Len(common \o special))),
       <<id, type, channel, Len(common), Len(special), 18>> \o common \o special,
       18 + 4 * Len(common) + 4 * Len(special))

SpiceLinkAuthTicket(data, n) ==
  ClientSays(U32(<<"auth_mechanism">>) \o U8(Numbered(n)),
       <<0>> \o [k \in 1..n |-> IF k <= Len(data) THEN data[k] ELSE 0], 4 + n)

SpiceMsgcAckSync(generation) == ClientSays(U32(<<"generation">>), <<generation>>, 4)
SpiceMsgcMainMouseModeRequest(mode) == ClientSays(U16(<<"mode">>), <<mode>>, 2)
SpiceMsgcDisplayInit ==
  ClientSays(U8(<<"pixmap_cache_id">>) \o U32(<<"high", "pixmap_cache_size">>) \o U8(<<"glz_dictionary_id">>)
         \o U32(<<"glz_dictionary_window_size">>),
       <<1, 0, 10 * 1024 * 1024, 0, 0>>, 14)
SpiceMsgcMousePosition(x, y, buttons) ==
  ClientSays(SpicePoint \o U16(<<"buttons_state">>) \o U8(<<"display_id">>), <<x, y, buttons, 0>>, 11)
SpiceMsgcMousePress(button, buttons) ==
  ClientSays(U8(<<"button">>) \o U16(<<"buttons_state">>), <<button, buttons>>, 3)
\* Motion, release and key up are written by the same functions.
SpiceMsgcMouseMotion(dx, dy, buttons) == SpiceMsgcMousePosition(dx, dy, buttons)
SpiceMsgcMouseRelease(button) == SpiceMsgcMousePress(button, 0)
SpiceMsgcKeyDown(code) == ClientSays(U32(<<"code">>), <<code>>, 4)
SpiceMsgcKeyUp(code)   == SpiceMsgcKeyDown(code)

\* build_msg and to_buffer of the frame around a message.
Framed(type, message) ==
  LET n == Len(message.u8)
  IN  ClientSays(U16(<<"type">>) \o U32(<<"size">>) \o U8(Numbered(n)), <<type, n>> \o message.u8, 6 + n)
=============================================================================
