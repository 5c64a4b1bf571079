SPECIFICATION Spec
CONSTANTS
  Kinds <- MCKinds
  MaxVisits = 3
  None = None
  s1 = s1
  s2 = s2
  b1 = b1
  b2 = b2
  i1 = i1
  t1 = t1
  Ids <- MCIds
  Boxes <- MCBoxes
  Images <- MCImages
  Transparent <- MCTransparent
  Streams <- MCStreams
  MaxSent = 4
  DB = 6
  AmHalf = 3
  MontHalf = 4
  FP = 10
  ByteBits = 4
  HexBits = 2
  HLen = 1
  Hash <- ToyHash
  W = 12
  BPC = 3
  DEFmaxclen = 8
  wmimax = 3
  wminext = 4
  LutBits = 3
  WmTrigger <- Trigger
  Chaos <- Drawings
  LenBits = 2
  OfsBits = 1
  CodeBits = 2
  Null = Null
  Key <- AKey
  Passwords <- SomePasswords
  Randoms <- SomeRandoms
  Texts <- SomeTexts
  QuicPictures <- Pictures
  LzStreams <- TokenStreams
  Cursors <- SomeCursors
  Numbers <- SomeNumbers
  Bodies <- SomeBodies
SYMMETRY MCSymmetry
INVARIANTS
  OneSession
  
  TicketsOpen
  QuicExact
  PicturesExact
  MessagesAgree
PROPERTIES
  OwnEnd
CHECK_DEADLOCK FALSE
