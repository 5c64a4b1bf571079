---------------------------- MODULE SpiceDisplay ----------------------------
(* The display channel of a SPICE session: surfaces, the image cache, video    *)
(* streams, and pictures that the browser decodes in its own time.  Messages   *)
(* arrive in order (SpiceWire) and each is handled in one step, beside which   *)
(* want keeps what the server means the surfaces to show.  Only JPEGs take     *)
(* time: their onload runs later, in any order.                                *)
EXTENDS Naturals, FiniteSets

CONSTANTS
  Ids,           \* surface ids
  Boxes,         \* the parts of a surface that are drawn to; draws do not overlap
  Images,        \* images with an id of their own, which may be cached
  Transparent,   \* those with an alpha channel
  Streams,       \* video stream ids
  MaxSent,       \* bound: messages that draw or make a surface
  None

ASSUME DisplayAssumption ==
  /\ Transparent \subseteq Images /\ None \notin Images /\ MaxSent \in Nat
  /\ None \notin [pic : Images \cup {None} \cup 0..MaxSent, alpha : BOOLEAN]

Formats == {"xRGB", "ARGB"}

VARIABLES
  surfaces,  \* id -> None, or the surface's format and the picture each box shows
  cache,     \* image -> None, or the cached picture: its alpha may be gone
  loading,   \* images whose onload has not run
  streams,   \* stream -> None, or the surface and box it plays in, and how it is drawn
  stopped,   \* destroy_surfaces has run: surfaces is undefined
  sent,      \* messages so far
  want,      \* id -> box -> the picture it should show, and the message it is from
  told,      \* images the server told the client to cache
  changed,   \* images whose cached picture may differ from what was sent
  spoiled    \* boxes that may show something else, for a reason named below

displayVars == <<surfaces, cache, loading, streams, stopped, sent, want, told, changed, spoiled>>

-----------------------------------------------------------------------------
(* A picture is what was drawn and whether its alpha is there; 0 stands for    *)
(* parts of several.  stripAlpha changes the image data it is given, and with  *)
(* it the cache's entry, which is the same object.                             *)
Picture(p, a)  == [pic |-> p, alpha |-> a]
Blank          == Picture(None, TRUE)
Opaque(s)      == surfaces[s].format = "xRGB"
Stripped(s, p) == [p EXCEPT !.alpha = @ /\ ~Opaque(s)]
Existing       == {s \in Ids : surfaces[s] # None}
Original(i)    == Picture(i, i \in Transparent)

(* drawImage composites: what has alpha lets what was there show through.      *)
Veiled(q, p) == p.alpha /\ q # Blank
Blended(q, p) ==
  IF ~Veiled(q, p) THEN p ELSE IF p = Blank THEN q ELSE Picture(0, q.alpha)

(* A draw is plain, or is odd: clipped, masked, scaled, with another raster    *)
(* operation than PUT, or of a part of its image.  The client knows none of    *)
(* these and draws the whole image from the box's corner, over other boxes too *)
(* where it is larger.                                                         *)
AsMeant     == [odd |-> FALSE, over |-> {}]
Forms(b)    == {AsMeant} \cup [odd : {TRUE}, over : SUBSET (Boxes \ {b})]
LeftBy(p, f) == IF f.odd THEN Picture(0, p.alpha) ELSE p

Painted(s, b, p, f, blends) ==
  [surfaces EXCEPT ![s].shown =
     [c \in Boxes |-> IF c \notin {b} \cup f.over THEN @[c]
                      ELSE IF blends THEN Blended(@[c], LeftBy(p, f)) ELSE LeftBy(p, f)]]

\* Box b of s is drawn, and is right unless it is wrong or the draw is odd.
Marked(s, b, f, wrong) ==
  (IF wrong \/ f.odd THEN spoiled \cup {<<s, b>>} ELSE spoiled \ {<<s, b>>}) \cup ({s} \X f.over)

Message == ~stopped /\ sent < MaxSent /\ sent' = sent + 1 /\ UNCHANGED stopped

\* The server means box b of s to show p, or what an odd draw of p makes.
Wants(s, b, p, f) ==
  want' = [want EXCEPT ![s][b] =
             [shows |-> IF f.odd THEN Picture(sent + 1, p.alpha) ELSE p, at |-> sent + 1]]

\* draw_copy_helper: draw, and cache where the descriptor says so.
Helper(s, b, p, i, f) ==
  /\ surfaces' = Painted(s, b, p, f, TRUE)
  /\ cache' = IF i = None THEN cache ELSE [cache EXCEPT ![i] = p]

Pending(s, b) == \E j \in loading : j.surface = s /\ j.box = b

-----------------------------------------------------------------------------
(* Surfaces. *)
CreateSurface ==
  /\ Message
  /\ \E s \in Ids \ Existing, f \in Formats :
       /\ surfaces' = [surfaces EXCEPT ![s] = [format |-> f, shown |-> [b \in Boxes |-> Blank]]]
       /\ want' = [want EXCEPT ![s] = [b \in Boxes |-> [shows |-> Blank, at |-> sent + 1]]]
  /\ UNCHANGED <<cache, loading, streams, told, changed, spoiled>>

\* The server ends the streams of a surface first.
DestroySurface ==
  /\ ~stopped
  /\ \E s \in Existing :
       /\ {t \in Streams : streams[t] # None /\ streams[t].surface = s} = {}
       /\ surfaces' = [surfaces EXCEPT ![s] = None]
       /\ spoiled' = spoiled \ ({s} \X Boxes)
  /\ UNCHANGED <<cache, loading, streams, stopped, sent, want, told, changed>>

-----------------------------------------------------------------------------
(* DRAW_COPY, by the type of its image. *)

\* Decoded on the spot, and cached under i where that is an image.
Decoded(s, b, p, i, f) ==
  /\ Helper(s, b, Stripped(s, p), i, f)
  /\ Wants(s, b, Stripped(s, p), f)
  /\ told' = told \cup ({i} \cap Images)
  /\ changed' = IF Opaque(s) THEN changed \cup ({i} \cap Images) ELSE changed
  /\ spoiled' = Marked(s, b, f, Veiled(surfaces[s].shown[b], Stripped(s, p)))
  /\ UNCHANGED <<loading, streams>>

Sent(i, a) == IF i = None THEN Picture(sent + 1, a) ELSE Original(i)

\* QUIC, BITMAP and LZ_RGB, with alpha or without.
DrawDecoded ==
  /\ Message
  /\ \E s \in Existing, b \in Boxes, i \in Images \cup {None}, a \in BOOLEAN :
       \E f \in Forms(b) : Decoded(s, b, Sent(i, a), i, f)

\* DRAW_FILL with a solid brush, which fills the box whatever the mask and the
\* raster operation are.
DrawFill ==
  /\ Message
  /\ \E s \in Existing, b \in Boxes, odd \in BOOLEAN :
       Decoded(s, b, Picture(sent + 1, FALSE), None, [odd |-> odd, over |-> {}])

\* A format the client has no decoder for is logged and not drawn.
DrawUnhandled ==
  /\ Message
  /\ \E s \in Existing, b \in Boxes :
       /\ Wants(s, b, Picture(sent + 1, FALSE), AsMeant)
       /\ spoiled' = spoiled \cup {<<s, b>>}
  /\ UNCHANGED <<surfaces, cache, loading, streams, told, changed>>

\* FROM_CACHE, of an image the server sent before; the entry is stripped on the
\* way to an opaque surface, and the draw is dropped while the image is loading.
DrawCached ==
  /\ Message
  /\ \E s \in Existing, b \in Boxes, i \in told : \E f \in Forms(b) :
       /\ Wants(s, b, Stripped(s, Original(i)), f)
       /\ changed' = IF Opaque(s) THEN changed \cup {i} ELSE changed
       /\ IF cache[i] = None
          THEN UNCHANGED <<surfaces, cache>> /\ spoiled' = spoiled \cup {<<s, b>>}
          ELSE /\ Helper(s, b, Stripped(s, cache[i]), i, f)
               /\ spoiled' = Marked(s, b, f, \/ i \in changed \/ \E j \in loading : j.image = i
                                             \/ Veiled(surfaces[s].shown[b], Stripped(s, cache[i])))
  /\ UNCHANGED <<loading, streams, told>>

\* SURFACE, and COPY_BITS, which copies within one surface: what the source
\* shows now, whatever is still loading for it.  What an opaque surface holds is
\* put in the place of what was there, but by COPY_BITS.
CopyOf(from, to, p) == IF Opaque(from) THEN p ELSE Stripped(to, p)

CopyBox(from, b, to, c, f, blends) ==
  LET p == CopyOf(from, to, surfaces[from].shown[b])
  IN  /\ surfaces' = Painted(to, c, p, f, blends)
      /\ Wants(to, c, CopyOf(from, to, want[from][b].shows), f)
      /\ spoiled' = Marked(to, c, f, \/ <<from, b>> \in spoiled \/ Pending(from, b)
                                     \/ blends /\ Veiled(surfaces[to].shown[c], p))
      /\ UNCHANGED <<cache, loading, streams, told, changed>>

DrawSurface ==
  /\ Message
  /\ \E from \in Existing : \E to \in Existing \ {from}, b, c \in Boxes :
       \E f \in Forms(c) : CopyBox(from, b, to, c, f, ~Opaque(from))

CopyBits ==
  /\ Message
  /\ \E s \in Existing, b \in Boxes, odd \in BOOLEAN :
       \E c \in Boxes \ {b} : CopyBox(s, b, s, c, [odd |-> odd, over |-> {}], TRUE)

\* Mutant: one Image is shared by all draws.
LoadShared(s, b, p, i, f) ==
  loading' = {[surface |-> s, box |-> b, form |-> f, image |-> i, at |-> sent + 1, picture |-> p]}

\* JPEG and JPEG_ALPHA: an Image is told its source, and that is all for now.
\* The alpha of a JPEG_ALPHA is decoded for a surface that has one.
Load(s, b, p, i, f) ==
  loading' = loading \cup
    {[surface |-> s, box |-> b, form |-> f, image |-> i, at |-> sent + 1, picture |-> p]}

\* What is cached of it: a JPEG_ALPHA whole, of a JPEG what its box shows then.
Kept(p, f) == IF p.alpha THEN p ELSE LeftBy(p, f)

DrawJpeg ==
  /\ Message
  /\ \E s \in Existing, b \in Boxes, i \in Images \cup {None}, a \in BOOLEAN : \E f \in Forms(b) :
       LET p == Stripped(s, Sent(i, a))
       IN  /\ Load(s, b, p, i, f)
           /\ Wants(s, b, p, f)
           /\ told' = told \cup ({i} \cap Images)
           /\ changed' = IF Opaque(s) \/ (f.odd /\ ~p.alpha) THEN changed \cup ({i} \cap Images) ELSE changed
           /\ spoiled' = spoiled \ {<<s, b>>}
  /\ UNCHANGED <<surfaces, cache, streams>>

-----------------------------------------------------------------------------
(* Video streams, whose frames are JPEGs for the stream's box; how they are    *)
(* clipped is kept and not looked at, and they are not scaled.                 *)
StreamCreate ==
  /\ ~stopped
  /\ \E t \in Streams, s \in Existing, b \in Boxes : \E f \in Forms(b) :
       /\ streams[t] = None
       /\ streams' = [streams EXCEPT ![t] = [surface |-> s, box |-> b, form |-> f]]
  /\ UNCHANGED <<surfaces, cache, loading, stopped, sent, want, told, changed, spoiled>>

\* A clip comes or goes; frames of another size than the box stay odd.
StreamClip ==
  /\ ~stopped
  /\ \E t \in Streams, odd \in BOOLEAN :
       /\ streams[t] # None /\ streams[t].form.over = {}
       /\ streams' = [streams EXCEPT ![t].form.odd = odd]
  /\ UNCHANGED <<surfaces, cache, loading, stopped, sent, want, told, changed, spoiled>>

StreamData ==
  /\ Message
  /\ \E t \in Streams :
       /\ streams[t] # None
       /\ LET s == streams[t].surface
              b == streams[t].box
              f == streams[t].form
          IN  /\ Load(s, b, Picture(sent + 1, FALSE), None, f)
              /\ Wants(s, b, Picture(sent + 1, FALSE), f)
              /\ spoiled' = spoiled \ {<<s, b>>}
  /\ UNCHANGED <<surfaces, cache, streams, told, changed>>

StreamDestroy ==
  /\ ~stopped
  /\ \E t \in Streams : streams[t] # None /\ streams' = [streams EXCEPT ![t] = None]
  /\ UNCHANGED <<surfaces, cache, loading, stopped, sent, want, told, changed, spoiled>>

-----------------------------------------------------------------------------
(* handle_draw_jpeg_onload.  Where the surface is gone the picture is drawn    *)
(* aside, for the cache only; where its id has been given to another surface   *)
(* it is drawn there.  After a stop it throws.                                 *)
OnloadDraws(j) ==
  /\ cache' = IF j.image = None THEN cache ELSE [cache EXCEPT ![j.image] = Kept(j.picture, j.form)]
  /\ LET s == j.surface
         b == j.box
     IN  IF s \in Existing
         THEN /\ surfaces' = Painted(s, b, j.picture, j.form, TRUE)
              /\ spoiled' = IF j.form.odd \/ want[s][b].at # j.at \/ Veiled(surfaces[s].shown[b], j.picture)
                            THEN spoiled \cup ({s} \X ({b} \cup j.form.over)) ELSE spoiled
         ELSE UNCHANGED <<surfaces, spoiled>>

Onload(j) ==
  /\ loading' = loading \ {j}
  /\ IF stopped THEN UNCHANGED <<surfaces, cache, spoiled>> ELSE OnloadDraws(j)
  /\ UNCHANGED <<streams, stopped, sent, want, told, changed>>

\* destroy_surfaces, when the session stops.
DestroySurfaces ==
  /\ ~stopped /\ stopped' = TRUE
  /\ surfaces' = [s \in Ids |-> None]
  /\ UNCHANGED <<cache, loading, streams, sent, want, told, changed, spoiled>>

-----------------------------------------------------------------------------
DisplayInit ==
  /\ surfaces = [s \in Ids |-> None] /\ cache = [i \in Images |-> None]
  /\ loading = {} /\ streams = [t \in Streams |-> None] /\ stopped = FALSE /\ sent = 0
  /\ want = [s \in Ids |-> [b \in Boxes |-> [shows |-> Blank, at |-> 0]]]
  /\ told = {} /\ changed = {} /\ spoiled = {}

DisplayNext ==
  \/ CreateSurface \/ DestroySurface
  \/ DrawDecoded \/ DrawFill \/ DrawUnhandled
  \/ DrawCached \/ DrawSurface \/ CopyBits \/ DrawJpeg
  \/ StreamCreate \/ StreamClip \/ StreamData \/ StreamDestroy
  \/ \E j \in loading : Onload(j)
  \/ DestroySurfaces

DisplaySpec == DisplayInit /\ [][DisplayNext]_displayVars

-----------------------------------------------------------------------------
(* Every box shows what the server means it to show, or will when the JPEG     *)
(* that it is waiting for has loaded, except for these reasons, which last     *)
(* until the box is drawn again: a format the client cannot decode; a draw     *)
(* that is odd (clipped, masked, scaled, a part of its image, not PUT), over   *)
(* it or over a box beside it; a picture with alpha, or a part nothing was     *)
(* drawn on, drawn over something where the client composites and the server   *)
(* does not; a JPEG that loaded after a later draw, or after its surface's id  *)
(* was used again; a cached image that was still loading or is not as it was   *)
(* sent; and a copy of a box that was wrong or waiting.                        *)
ShowsWanted ==
  \A s \in Existing, b \in Boxes :
    \/ surfaces[s].shown[b] = want[s][b].shows
    \/ <<s, b>> \in spoiled
    \/ \E j \in loading : j.surface = s /\ j.box = b /\ j.at = want[s][b].at

(* The server draws from the client's cache without asking, so every image it  *)
(* told the client to keep is in the cache or still loading, whatever became   *)
(* of the surface it came with; and is as it was sent, unless it has been on   *)
(* an opaque surface, or came as a JPEG whose draw was odd.                    *)
CacheAgrees ==
  ~stopped => \A i \in told :
    /\ cache[i] # None \/ \E j \in loading : j.image = i
    /\ cache[i] \in {None, Original(i)} \/ i \in changed

(* Surfaces show what the server means them to, and the cache holds what the   *)
(* server told to be cached, but for what is named above.                      *)
DisplayAgrees == ShowsWanted /\ CacheAgrees
=============================================================================
