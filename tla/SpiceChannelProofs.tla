------------------------- MODULE SpiceChannelProofs -------------------------
(* What holds of a ready channel for every set of windows, shapes and bounds:  *)
(* the account the two sides keep of what is acknowledged (AckLedger), and     *)
(* that the client follows the server's mouse mode and cursor (ClientAgrees).  *)
EXTENDS SpiceChannel, SequenceTheorems, FunctionTheorems, FiniteSetTheorems, TLAPS

-----------------------------------------------------------------------------
(* The messages, as far as they are told apart.                                *)

Modes  == {"client", "server"}
Plain  == {"PING", "NOTIFY", "UNKNOWN", "MARK", "INVAL_ALL_PALETTES", "INPUTS_INIT",
           "KEY_MODIFIERS", "CURSOR_MOVE", "DATA", "CURSOR_HIDE", "CURSOR_RESET"}

Message ==
  UNION {{"SET_ACK"} \X [generation : Nat, window : Windows],
         {"MAIN_INIT"} \X [current : Modes, supported : BOOLEAN],
         {"MOUSE_MODE"} \X Modes, {"CURSOR_INIT"} \X Forms,
         {"CURSOR_SET"} \X (Forms \cup {"cached"}),
         {"DRAW"} \X {"plain", "odd"}, Plain \X {0}}

Reply ==
  UNION {{"ACK_SYNC"} \X Nat, {"MOUSE_MODE_REQUEST"} \X {"client"},
         {"ACK", "PONG", "ATTACH_CHANNELS"} \X {0}}

TypeInv ==
  /\ kind \in Kinds /\ strict \in BOOLEAN
  /\ wire \in Seq(Message) /\ back \in Seq(Reply)
  /\ ack_window \in Windows \cup {Undefined} /\ msgs_until_ack \in Nat \cup {Undefined}
  /\ (ack_window = Undefined <=> msgs_until_ack = Undefined)
  /\ lost \in BOOLEAN /\ missed \in BOOLEAN /\ shown \in BOOLEAN
  /\ generation \in Nat /\ synced \in Nat /\ unasked \in Nat
  /\ window \in Windows \cup {0} /\ unacked \in Int
  /\ mode \in Modes \cup {Undefined}

\* Windows are set in the order of their generations, the last is the present
\* one, and as long as any is on its way the present one is.
Brings(msg, g) == Type(msg) = "SET_ACK" /\ msg[2].generation = g
Coming(w, g)   == \E i \in DOMAIN w : Brings(w[i], g)

Ordered(w, g, size) ==
  /\ \A i, j \in DOMAIN w :
       i < j /\ Type(w[i]) = "SET_ACK" /\ Type(w[j]) = "SET_ACK" => w[i][2].generation < w[j][2].generation
  /\ \A i \in DOMAIN w :
       Type(w[i]) = "SET_ACK" =>
         /\ w[i][2].generation <= g
         /\ w[i][2].generation = g => w[i][2].window = size
         /\ Coming(w, g)

\* The answers to them come in the same order, each after the one before it and
\* before those to the windows that are still on their way.
IsSync(msg) == Type(msg) = "ACK_SYNC"

SyncsOrdered(b, g, s) ==
  /\ \A i, j \in DOMAIN b : i < j /\ IsSync(b[i]) /\ IsSync(b[j]) => b[i][2] < b[j][2]
  /\ \A i \in DOMAIN b : IsSync(b[i]) => s < b[i][2] /\ b[i][2] <= g
  /\ s <= g

SyncsBefore(b, w, s) ==
  \A j \in DOMAIN w : Type(w[j]) = "SET_ACK" =>
    /\ s < w[j][2].generation
    /\ \A i \in DOMAIN b : IsSync(b[i]) => b[i][2] < w[j][2].generation

Answer(b, g) == \E i \in DOMAIN b : b[i] = <<"ACK_SYNC", g>>

Order ==
  /\ Ordered(wire, generation, window)
  /\ SyncsOrdered(back, generation, synced)
  /\ SyncsBefore(back, wire, synced)
  /\ Coming(wire, generation) \/ synced = generation \/ Answer(back, generation)

\* The sets of AckLedger, of any two queues.
CountsFor(full, msg) == Type(msg) # "SET_ACK" /\ (full \/ ~Common(msg))

Held(w, g, full) ==
  {i \in DOMAIN w : CountsFor(full, w[i]) /\ (Coming(w, g) => \E j \in 1..(i - 1) : Brings(w[j], g))}

Acks(b, g, s) ==
  {i \in DOMAIN b : Type(b[i]) = "ACK" /\ (s = g \/ \E j \in 1..(i - 1) : b[j] = <<"ACK_SYNC", g>>)}

\* The account, of any values: h messages and a acknowledgements under way.
Balanced(coming, h, a, una, win, aw, left, more) ==
  /\ coming => more = 0
  /\ win > 0 =>
       IF coming THEN una = h
       ELSE aw = win /\ left \in 1..win /\ una = h + (win - left) + win * a + more

Ledger ==
  Balanced(Coming(wire, generation), Cardinality(Held(wire, generation, strict)),
           Cardinality(Acks(back, generation, synced)), unacked, window, ack_window, msgs_until_ack, unasked)

LedgerInv == TypeInv /\ Order /\ Ledger

\* The last message of a set is one that says what holds now.
LastOf(w, set, good) ==
  \A i \in DOMAIN w : w[i] \in set /\ (\A j \in DOMAIN w : i < j => w[j] \notin set) => w[i] \in good
NoneOf(w, set) == \A i \in DOMAIN w : w[i] \notin set

ModeSet    == {m \in Message : Type(m) \in {"MAIN_INIT", "MOUSE_MODE"}}
ModeIs(v)  == {m \in ModeSet : IF Type(m) = "MAIN_INIT" THEN m[2].current = v ELSE m[2] = v}
ShapeSet   == {m \in Message : Type(m) \in CursorTypes}
ShapeIs(v) == {m \in ShapeSet : Taken(m) => IF Type(m) = "CURSOR_SET" THEN m[2] = v ELSE v = "none"}

Follows ==
  /\ LastOf(wire, ModeSet, ModeIs(mode))
  /\ NoneOf(wire, ModeSet) => lost \/ mouse_mode = mode
  /\ LastOf(wire, ShapeSet, ShapeIs(shape))
  /\ NoneOf(wire, ShapeSet) => lost \/ pointer = shape \/ missed

-----------------------------------------------------------------------------
(* Queues: what is at the end of one moves down when the first is taken.       *)

\* As many indexes one lower.
LEMMA ShiftCount ==
  ASSUME NEW S, NEW T, S \subseteq Nat \ {0}, T \subseteq Nat, IsFiniteSet(S),
         \A i \in Nat : i \in T <=> i + 1 \in S
  PROVE  IsFiniteSet(T) /\ Cardinality(T) = Cardinality(S)
<1> DEFINE F == [i \in S |-> i - 1]
<1>1. F \in [S -> T]
  <2>1. ASSUME NEW i \in S PROVE i - 1 \in T
    <3>1. i - 1 \in Nat /\ (i - 1) + 1 = i
      OBVIOUS
    <3> QED BY <3>1
  <2> QED BY <2>1
<1>2. \A a, b \in S : F[a] = F[b] => a = b
  OBVIOUS
<1>3. \A t \in T : \E i \in S : F[i] = t
  <2> SUFFICES ASSUME NEW t \in T PROVE \E i \in S : F[i] = t
    OBVIOUS
  <2>1. t + 1 \in S /\ F[t + 1] = t
    OBVIOUS
  <2> QED BY <2>1
<1>4. F \in Bijection(S, T)
  BY <1>1, <1>2, <1>3, Fun_IsBij
<1>5. ExistsBijection(S, T)
  BY <1>4, Fun_ExistsBij
<1> QED BY <1>5, FS_Bijection

\* Any set of places of a queue is finite.
LEMMA PlacesFinite ==
  ASSUME NEW D, NEW w \in Seq(D), NEW S \in SUBSET (DOMAIN w)
  PROVE  IsFiniteSet(S) /\ Cardinality(S) \in Nat /\ S \subseteq Nat \ {0}
<1>1. DOMAIN w = 1..Len(w) /\ Len(w) \in Nat
  BY LenProperties
<1>2. IsFiniteSet(1..Len(w))
  BY <1>1, FS_Interval
<1>3. IsFiniteSet(S)
  BY <1>1, <1>2, FS_Subset
<1> QED BY <1>1, <1>3, FS_CardinalityType

LEMMA TailPlaces ==
  ASSUME NEW D, NEW w \in Seq(D), w # <<>>
  PROVE  /\ Tail(w) \in Seq(D) /\ Head(w) \in D /\ Head(w) = w[1] /\ 1 \in DOMAIN w
         /\ \A i \in Nat \ {0} : i \in DOMAIN Tail(w) <=> i + 1 \in DOMAIN w
         /\ \A i \in DOMAIN Tail(w) : i \in Nat \ {0} /\ Tail(w)[i] = w[i + 1] /\ w[i + 1] \in D
         /\ \A i \in DOMAIN w : i \in Nat \ {0} /\ w[i] \in D /\ (i # 1 => i - 1 \in DOMAIN Tail(w) /\ Tail(w)[i - 1] = w[i])
<1>1. /\ Head(w) \in D /\ Tail(w) \in Seq(D) /\ Len(Tail(w)) = Len(w) - 1
      /\ \A i \in 1..Len(Tail(w)) : Tail(w)[i] = w[i + 1]
  BY HeadTailProperties
<1>2. DOMAIN w = 1..Len(w) /\ Len(w) \in Nat \ {0}
  BY LenProperties, EmptySeq
<1>3. DOMAIN Tail(w) = 1..Len(Tail(w)) /\ Len(Tail(w)) \in Nat
  BY <1>1, LenProperties
<1>4. Head(w) = w[1]
  OBVIOUS
<1>5. \A i \in 1..Len(w) : w[i] \in D
  BY ElementOfSeq
<1> QED BY <1>1, <1>2, <1>3, <1>4, <1>5

LEMMA AppendPlaces ==
  ASSUME NEW D, NEW w \in Seq(D), NEW m \in D
  PROVE  /\ Append(w, m) \in Seq(D) /\ Len(w) \in Nat
         /\ DOMAIN w = 1..Len(w) /\ DOMAIN Append(w, m) = 1..(Len(w) + 1)
         /\ \A i \in DOMAIN w : Append(w, m)[i] = w[i] /\ w[i] \in D
         /\ Append(w, m)[Len(w) + 1] = m
<1>1. Append(w, m) \in Seq(D) /\ Len(Append(w, m)) = Len(w) + 1
  BY AppendProperties
<1>2. DOMAIN Append(w, m) = 1..Len(Append(w, m))
  BY <1>1, LenProperties
<1>3. DOMAIN w = 1..Len(w) /\ Len(w) \in Nat
  BY LenProperties
<1>4. \A i \in 1..Len(w) : w[i] \in D
  BY ElementOfSeq
<1>5. \A i \in 1..Len(w) : Append(w, m)[i] = w[i]
  BY AppendProperties
<1>6. Append(w, m)[Len(w) + 1] = m
  BY AppendProperties
<1> QED BY <1>1, <1>2, <1>3, <1>4, <1>5, <1>6

-----------------------------------------------------------------------------
(* The queue to the client.                                                    *)

LEMMA MessageFields ==
  ASSUME NEW m \in Message
  PROVE  /\ Type(m) = m[1]
         /\ Type(m) = "SET_ACK" => m[2].generation \in Nat /\ m[2].window \in Windows
BY DEF Message, Type, Plain, Modes

LEMMA WireAppend ==
  ASSUME NEW w \in Seq(Message), NEW m \in Message, Type(m) # "SET_ACK",
         NEW g \in Nat, NEW full \in BOOLEAN
  PROVE  /\ Coming(Append(w, m), g) = Coming(w, g)
         /\ CountsFor(full, m) => Cardinality(Held(Append(w, m), g, full)) = Cardinality(Held(w, g, full)) + 1
         /\ ~CountsFor(full, m) => Held(Append(w, m), g, full) = Held(w, g, full)
<1> DEFINE v == Append(w, m)
           n == Len(w) + 1
<1>1. /\ v \in Seq(Message) /\ Len(w) \in Nat /\ DOMAIN w = 1..Len(w) /\ DOMAIN v = 1..n
      /\ \A i \in DOMAIN w : v[i] = w[i] /\ w[i] \in Message
      /\ v[n] = m
  BY AppendPlaces
<1> HIDE DEF v
<1>2. Coming(v, g) = Coming(w, g)
  <2>1. Coming(v, g) => Coming(w, g)
    BY <1>1 DEF Coming, Brings
  <2>2. Coming(w, g) => Coming(v, g)
    BY <1>1 DEF Coming, Brings
  <2>3. Coming(v, g) \in BOOLEAN /\ Coming(w, g) \in BOOLEAN
    BY DEF Coming
  <2> QED BY <2>1, <2>2, <2>3
<1>3. \A i \in 1..n : \A j \in 1..(i - 1) : j \in DOMAIN w /\ v[j] = w[j]
  BY <1>1
<1>4. \A i \in DOMAIN w : i \in Held(v, g, full) <=> i \in Held(w, g, full)
  <2> SUFFICES ASSUME NEW i \in DOMAIN w PROVE i \in Held(v, g, full) <=> i \in Held(w, g, full)
    OBVIOUS
  <2>1. i \in DOMAIN v /\ v[i] = w[i] /\ i \in 1..n
    BY <1>1
  <2>2. (\E j \in 1..(i - 1) : Brings(v[j], g)) <=> (\E j \in 1..(i - 1) : Brings(w[j], g))
    BY <2>1, <1>3
  <2> QED BY <2>1, <2>2, <1>2 DEF Held
<1>5. n \in Held(v, g, full) <=> CountsFor(full, m)
  <2>1. n \in DOMAIN v /\ n - 1 = Len(w)
    BY <1>1
  <2>2. Coming(v, g) => \E j \in 1..(n - 1) : Brings(v[j], g)
    BY <1>1, <1>2, <2>1 DEF Coming
  <2> QED BY <1>1, <2>1, <2>2 DEF Held
<1>6. n \notin Held(w, g, full) /\ Held(w, g, full) \subseteq DOMAIN w /\ Held(v, g, full) \subseteq DOMAIN w \cup {n}
  BY <1>1 DEF Held
<1>7. IsFiniteSet(Held(w, g, full))
  BY <1>6, PlacesFinite
<1>8. CASE CountsFor(full, m)
  <2>1. Held(v, g, full) = Held(w, g, full) \cup {n}
    BY <1>4, <1>5, <1>6, <1>8
  <2> QED BY <2>1, <1>2, <1>6, <1>7, <1>8, FS_AddElement DEF v
<1>9. CASE ~CountsFor(full, m)
  <2>1. Held(v, g, full) = Held(w, g, full)
    BY <1>4, <1>5, <1>6, <1>9
  <2> QED BY <2>1, <1>2, <1>9 DEF v
<1> QED BY <1>8, <1>9

LEMMA OrderAppend ==
  ASSUME NEW w \in Seq(Message), NEW m \in Message, Type(m) # "SET_ACK",
         NEW b, NEW g \in Nat, NEW size, NEW s,
         Ordered(w, g, size), SyncsBefore(b, w, s)
  PROVE  Ordered(Append(w, m), g, size) /\ SyncsBefore(b, Append(w, m), s)
<1> DEFINE v == Append(w, m)
           n == Len(w) + 1
<1>1. /\ v \in Seq(Message) /\ Len(w) \in Nat /\ DOMAIN w = 1..Len(w) /\ DOMAIN v = 1..n
      /\ \A i \in DOMAIN w : v[i] = w[i] /\ w[i] \in Message
      /\ v[n] = m
  BY AppendPlaces
<1> HIDE DEF v
<1>2. \A i \in DOMAIN v : Type(v[i]) = "SET_ACK" => i \in DOMAIN w /\ v[i] = w[i]
  BY <1>1
<1>3. Coming(w, g) => Coming(v, g)
  BY <1>1 DEF Coming, Brings
<1>4. Ordered(v, g, size)
  BY <1>2, <1>3 DEF Ordered
<1>5. SyncsBefore(b, v, s)
  BY <1>2 DEF SyncsBefore
<1> QED BY <1>4, <1>5 DEF v

LEMMA WireNew ==
  ASSUME NEW w \in Seq(Message), NEW b \in Seq(Reply), NEW g \in Nat, NEW old, NEW s \in Nat,
         NEW size \in Windows, NEW full \in BOOLEAN, NEW m,
         m = <<"SET_ACK", [generation |-> g + 1, window |-> size]>>,
         Ordered(w, g, old), SyncsOrdered(b, g, s), SyncsBefore(b, w, s)
  PROVE  /\ m \in Message /\ Append(w, m) \in Seq(Message)
         /\ Coming(Append(w, m), g + 1)
         /\ Held(Append(w, m), g + 1, full) = {}
         /\ Ordered(Append(w, m), g + 1, size)
         /\ SyncsOrdered(b, g + 1, s)
         /\ SyncsBefore(b, Append(w, m), s)
<1> DEFINE v == Append(w, m)
           n == Len(w) + 1
<1>1. /\ m \in Message /\ Type(m) = "SET_ACK" /\ m[2].generation = g + 1 /\ m[2].window = size
  BY DEF Message, Type
<1>2. /\ v \in Seq(Message) /\ Len(w) \in Nat /\ DOMAIN w = 1..Len(w) /\ DOMAIN v = 1..n
      /\ \A i \in DOMAIN w : v[i] = w[i] /\ w[i] \in Message
      /\ v[n] = m
  BY AppendPlaces, <1>1
<1> HIDE DEF v
<1>3. \A i \in DOMAIN w : Type(w[i]) = "SET_ACK" => w[i][2].generation \in Nat /\ w[i][2].generation <= g
  BY <1>2, MessageFields DEF Ordered
<1>4. \A i \in DOMAIN v : (i \in DOMAIN w /\ v[i] = w[i]) \/ i = n
  BY <1>2
<1>5. n \in DOMAIN v /\ Brings(v[n], g + 1)
  BY <1>1, <1>2 DEF Brings
<1>6. Coming(v, g + 1)
  BY <1>5 DEF Coming
<1>7. \A i \in DOMAIN w : ~Brings(w[i], g + 1)
  BY <1>3 DEF Brings
<1>8. Held(v, g + 1, full) = {}
  <2> SUFFICES ASSUME NEW i \in Held(v, g + 1, full) PROVE FALSE
    OBVIOUS
  <2>1. i \in DOMAIN v /\ CountsFor(full, v[i]) /\ \E j \in 1..(i - 1) : Brings(v[j], g + 1)
    BY <1>6 DEF Held
  <2>2. i # n
    BY <2>1, <1>1, <1>2 DEF CountsFor
  <2>3. PICK j \in 1..(i - 1) : Brings(v[j], g + 1)
    BY <2>1
  <2>4. j \in DOMAIN w /\ v[j] = w[j]
    BY <2>1, <2>2, <1>2
  <2> QED BY <2>3, <2>4, <1>7
<1>9. Ordered(v, g + 1, size)
  <2>1. \A i, j \in DOMAIN v :
          i < j /\ Type(v[i]) = "SET_ACK" /\ Type(v[j]) = "SET_ACK" => v[i][2].generation < v[j][2].generation
    <3> SUFFICES ASSUME NEW i \in DOMAIN v, NEW j \in DOMAIN v, i < j,
                        Type(v[i]) = "SET_ACK", Type(v[j]) = "SET_ACK"
                 PROVE  v[i][2].generation < v[j][2].generation
      OBVIOUS
    <3>1. i \in DOMAIN w /\ v[i] = w[i]
      BY <1>2
    <3>2. CASE j = n
      BY <3>1, <3>2, <1>1, <1>2, <1>3
    <3>3. CASE j \in DOMAIN w /\ v[j] = w[j]
      BY <3>1, <3>3 DEF Ordered
    <3> QED BY <3>2, <3>3, <1>4
  <2>2. ASSUME NEW i \in DOMAIN v, Type(v[i]) = "SET_ACK"
        PROVE  v[i][2].generation <= g + 1 /\ (v[i][2].generation = g + 1 => v[i][2].window = size)
    BY <2>2, <1>1, <1>2, <1>3, <1>4
  <2> QED BY <2>1, <2>2, <1>6 DEF Ordered
<1>10. SyncsOrdered(b, g + 1, s)
  <2>1. \A i \in DOMAIN b : IsSync(b[i]) => b[i][2] \in Nat
    BY ElementOfSeq, LenProperties DEF IsSync, Reply, Type
  <2> QED BY <2>1 DEF SyncsOrdered
<1>11. SyncsBefore(b, v, s)
  <2>1. \A i \in DOMAIN b : IsSync(b[i]) => b[i][2] \in Nat /\ b[i][2] < g + 1
    BY ElementOfSeq, LenProperties DEF IsSync, Reply, Type, SyncsOrdered
  <2>2. s < g + 1
    BY DEF SyncsOrdered
  <2>3. ASSUME NEW j \in DOMAIN v, Type(v[j]) = "SET_ACK"
        PROVE  s < v[j][2].generation /\ \A i \in DOMAIN b : IsSync(b[i]) => b[i][2] < v[j][2].generation
    <3>1. CASE j = n
      BY <3>1, <2>1, <2>2, <1>1, <1>2
    <3>2. CASE j \in DOMAIN w /\ v[j] = w[j]
      BY <3>2, <2>3 DEF SyncsBefore
    <3> QED BY <3>1, <3>2, <1>4
  <2> QED BY <2>3 DEF SyncsBefore
<1> QED BY <1>1, <1>2, <1>6, <1>8, <1>9, <1>10, <1>11 DEF v


LEMMA WireTail ==
  ASSUME NEW w \in Seq(Message), w # <<>>, NEW g \in Nat, NEW size, NEW full \in BOOLEAN,
         Ordered(w, g, size)
  PROVE  /\ Ordered(Tail(w), g, size)
         /\ Brings(Head(w), g) =>
              /\ Coming(w, g) /\ ~Coming(Tail(w), g) /\ Head(w)[2].window = size
              /\ Cardinality(Held(Tail(w), g, full)) = Cardinality(Held(w, g, full))
         /\ ~Brings(Head(w), g) =>
              /\ Coming(Tail(w), g) = Coming(w, g)
              /\ Cardinality(Held(Tail(w), g, full)) =
                   IF CountsFor(full, Head(w)) /\ ~Coming(w, g)
                   THEN Cardinality(Held(w, g, full)) - 1 ELSE Cardinality(Held(w, g, full))
<1> DEFINE t == Tail(w)
           m == Head(w)
<1>1. /\ t \in Seq(Message) /\ m \in Message /\ m = w[1] /\ 1 \in DOMAIN w
      /\ \A i \in Nat \ {0} : i \in DOMAIN t <=> i + 1 \in DOMAIN w
      /\ \A i \in DOMAIN t : i \in Nat \ {0} /\ t[i] = w[i + 1] /\ w[i + 1] \in Message
      /\ \A i \in DOMAIN w : i \in Nat \ {0} /\ w[i] \in Message /\ (i # 1 => i - 1 \in DOMAIN t /\ t[i - 1] = w[i])
  BY TailPlaces
<1> HIDE DEF t, m
<1>2. DOMAIN w = 1..Len(w) /\ DOMAIN t = 1..Len(t) /\ Len(w) \in Nat /\ Len(t) \in Nat
  BY <1>1, LenProperties
<1>3. \A i \in DOMAIN t : i + 1 \in DOMAIN w
  BY <1>1
<1>4. Brings(m, g) => ~Coming(t, g) /\ Coming(w, g) /\ m[2].window = size
  <2> SUFFICES ASSUME Brings(m, g) PROVE ~Coming(t, g) /\ Coming(w, g) /\ m[2].window = size
    OBVIOUS
  <2>1. ASSUME NEW i \in DOMAIN t, Brings(t[i], g) PROVE FALSE
    <3>1. i + 1 \in DOMAIN w /\ 1 < i + 1 /\ t[i] = w[i + 1]
      BY <1>1, <1>3
    <3>2. w[1][2].generation < w[i + 1][2].generation
      BY <3>1, <2>1, <1>1 DEF Ordered, Brings
    <3>3. w[1][2].generation = g /\ w[i + 1][2].generation = g
      BY <3>1, <2>1, <1>1 DEF Brings
    <3> QED BY <3>2, <3>3
  <2>2. Coming(w, g)
    BY <1>1 DEF Coming
  <2>3. m[2].window = size
    BY <1>1 DEF Ordered, Brings
  <2> QED BY <2>1, <2>2, <2>3 DEF Coming
<1>5. ~Brings(m, g) => Coming(t, g) = Coming(w, g)
  <2> SUFFICES ASSUME ~Brings(m, g) PROVE Coming(t, g) = Coming(w, g)
    OBVIOUS
  <2>1. Coming(t, g) => Coming(w, g)
    BY <1>1, <1>3 DEF Coming
  <2>2. ASSUME NEW i \in DOMAIN w, Brings(w[i], g) PROVE Coming(t, g)
    <3>1. i - 1 \in DOMAIN t /\ t[i - 1] = w[i]
      BY <2>2, <1>1
    <3> QED BY <3>1, <2>2 DEF Coming
  <2>3. Coming(t, g) \in BOOLEAN /\ Coming(w, g) \in BOOLEAN
    BY DEF Coming
  <2> QED BY <2>1, <2>2, <2>3 DEF Coming
<1>6. Ordered(t, g, size)
  <2>1. \A i, j \in DOMAIN t :
          i < j /\ Type(t[i]) = "SET_ACK" /\ Type(t[j]) = "SET_ACK" => t[i][2].generation < t[j][2].generation
    <3> SUFFICES ASSUME NEW i \in DOMAIN t, NEW j \in DOMAIN t, i < j,
                        Type(t[i]) = "SET_ACK", Type(t[j]) = "SET_ACK"
                 PROVE  t[i][2].generation < t[j][2].generation
      OBVIOUS
    <3>1. i + 1 \in DOMAIN w /\ j + 1 \in DOMAIN w /\ i + 1 < j + 1 /\ t[i] = w[i + 1] /\ t[j] = w[j + 1]
      BY <1>1, <1>3
    <3> QED BY <3>1 DEF Ordered
  <2>2. ASSUME NEW i \in DOMAIN t, Type(t[i]) = "SET_ACK"
        PROVE  /\ t[i][2].generation <= g
               /\ t[i][2].generation = g => t[i][2].window = size
               /\ Coming(t, g)
    <3>1. i + 1 \in DOMAIN w /\ t[i] = w[i + 1] /\ 1 < i + 1
      BY <1>1, <1>3
    <3>2. /\ t[i][2].generation <= g /\ Coming(w, g)
          /\ t[i][2].generation = g => t[i][2].window = size
      BY <3>1, <2>2 DEF Ordered
    <3>3. ~Brings(m, g)
      <4> SUFFICES ASSUME Brings(m, g) PROVE FALSE
        OBVIOUS
      <4>1. w[1][2].generation < w[i + 1][2].generation
        BY <3>1, <2>2, <1>1 DEF Ordered, Brings
      <4>2. w[1][2].generation = g /\ w[i + 1][2].generation <= g
        BY <3>1, <3>2, <1>1 DEF Brings
      <4>3. w[i + 1][2].generation \in Nat
        BY <3>1, <2>2, <1>1, MessageFields
      <4> QED BY <4>1, <4>2, <4>3
    <3> QED BY <3>2, <3>3, <1>5
  <2> QED BY <2>1, <2>2 DEF Ordered
<1>7. Held(w, g, full) \subseteq DOMAIN w /\ Held(t, g, full) \subseteq DOMAIN t
  BY DEF Held
<1>8. /\ IsFiniteSet(Held(w, g, full)) /\ Held(w, g, full) \subseteq Nat \ {0}
      /\ Held(t, g, full) \subseteq Nat \ {0}
  BY <1>1, <1>7, PlacesFinite
<1> DEFINE S == Held(w, g, full) \ {1}
<1>9. IsFiniteSet(S) /\ S \subseteq Nat \ {0}
  BY <1>8, FS_RemoveElement
<1>10. \A i \in Nat : i \in Held(t, g, full) <=> i + 1 \in S
  <2> SUFFICES ASSUME NEW i \in Nat PROVE i \in Held(t, g, full) <=> i + 1 \in S
    OBVIOUS
  <2>1. CASE i \notin DOMAIN t
    <3>1. i + 1 \notin S
      BY <2>1, <1>1, <1>7
    <3> QED BY <3>1, <2>1, <1>7
  <2>2. CASE i \in DOMAIN t
    <3>1. i \in Nat \ {0} /\ i + 1 \in DOMAIN w /\ t[i] = w[i + 1] /\ i + 1 # 1
      BY <2>2, <1>1, <1>3
    <3>2. CASE Brings(m, g)
      <4>1. \E j \in 1..((i + 1) - 1) : Brings(w[j], g)
        BY <3>1, <3>2, <1>1
      <4>2. ~Coming(t, g)
        BY <3>2, <1>4
      <4> QED BY <3>1, <4>1, <4>2, <2>2 DEF Held
    <3>3. CASE ~Brings(m, g)
      <4>1. ASSUME NEW j \in 1..(i - 1), Brings(t[j], g) PROVE \E l \in 1..((i + 1) - 1) : Brings(w[l], g)
        <5>1. j \in DOMAIN t /\ j + 1 \in 1..((i + 1) - 1)
          BY <2>2, <1>2
        <5>2. Brings(w[j + 1], g)
          BY <5>1, <4>1, <1>1
        <5> QED BY <5>1, <5>2
      <4>2. ASSUME NEW l \in 1..((i + 1) - 1), Brings(w[l], g) PROVE \E j \in 1..(i - 1) : Brings(t[j], g)
        <5>1. l # 1
          BY <4>2, <3>3, <1>1
        <5>2. l \in DOMAIN w /\ l - 1 \in 1..(i - 1)
          BY <5>1, <3>1, <1>2
        <5>3. Brings(t[l - 1], g)
          BY <5>1, <5>2, <4>2, <1>1
        <5> QED BY <5>2, <5>3
      <4>3. (\E j \in 1..(i - 1) : Brings(t[j], g)) <=> (\E l \in 1..((i + 1) - 1) : Brings(w[l], g))
        BY <4>1, <4>2
      <4>4. Coming(t, g) = Coming(w, g)
        BY <3>3, <1>5
      <4> QED BY <3>1, <4>3, <4>4, <2>2 DEF Held
    <3> QED BY <3>2, <3>3
  <2> QED BY <2>1, <2>2
<1>11. Cardinality(Held(t, g, full)) = Cardinality(S)
  <2>1. Held(t, g, full) \subseteq Nat
    BY <1>8
  <2> HIDE DEF S
  <2> QED BY <1>9, <1>10, <2>1, ShiftCount
<1>12. 1 \in Held(w, g, full) <=> CountsFor(full, m) /\ ~Coming(w, g)
  BY <1>1 DEF Held
<1>13. Cardinality(S) = IF 1 \in Held(w, g, full) THEN Cardinality(Held(w, g, full)) - 1 ELSE Cardinality(Held(w, g, full))
  BY <1>8, FS_RemoveElement
<1> QED BY <1>4, <1>5, <1>6, <1>11, <1>12, <1>13 DEF t, m

LEMMA BeforeTail ==
  ASSUME NEW w \in Seq(Message), w # <<>>, NEW b, NEW s, SyncsBefore(b, w, s)
  PROVE  SyncsBefore(b, Tail(w), s)
<1>1. \A i \in DOMAIN Tail(w) : i + 1 \in DOMAIN w /\ Tail(w)[i] = w[i + 1]
  BY TailPlaces
<1> QED BY <1>1 DEF SyncsBefore

-----------------------------------------------------------------------------
(* The queue to the server.                                                    *)

LEMMA ReplyFields ==
  ASSUME NEW x \in Reply
  PROVE  /\ IsSync(x) => x[2] \in Nat
         /\ \A g : x = <<"ACK_SYNC", g>> <=> IsSync(x) /\ x[2] = g
BY DEF Reply, IsSync, Type

\* What a handler answers is neither an acknowledgement nor the answer to a
\* window.
LEMMA BackGrow ==
  ASSUME NEW b \in Seq(Reply), NEW r \in Seq(Reply), NEW g \in Nat, NEW s, NEW w,
         \A i \in DOMAIN r : Type(r[i]) \notin {"ACK", "ACK_SYNC"}
  PROVE  /\ b \o r \in Seq(Reply)
         /\ Acks(b \o r, g, s) = Acks(b, g, s)
         /\ SyncsOrdered(b, g, s) => SyncsOrdered(b \o r, g, s)
         /\ SyncsBefore(b, w, s) => SyncsBefore(b \o r, w, s)
         /\ Answer(b, g) => Answer(b \o r, g)
<1> DEFINE c == b \o r
<1>1. /\ c \in Seq(Reply) /\ Len(c) = Len(b) + Len(r)
      /\ \A i \in 1..(Len(b) + Len(r)) : c[i] = IF i <= Len(b) THEN b[i] ELSE r[i - Len(b)]
  BY ConcatProperties
<1> HIDE DEF c
<1>2. /\ DOMAIN b = 1..Len(b) /\ Len(b) \in Nat /\ DOMAIN r = 1..Len(r) /\ Len(r) \in Nat
      /\ DOMAIN c = 1..Len(c)
  BY <1>1, LenProperties
<1>3. \A i \in DOMAIN b : i \in DOMAIN c /\ c[i] = b[i]
  BY <1>1, <1>2
<1>4. \A i \in DOMAIN c : Type(c[i]) \in {"ACK", "ACK_SYNC"} => i \in DOMAIN b
  <2> SUFFICES ASSUME NEW i \in DOMAIN c, i \notin DOMAIN b PROVE Type(c[i]) \notin {"ACK", "ACK_SYNC"}
    OBVIOUS
  <2>1. i - Len(b) \in DOMAIN r /\ c[i] = r[i - Len(b)]
    BY <1>1, <1>2
  <2> QED BY <2>1
<1>5. Acks(c, g, s) = Acks(b, g, s)
  <2>1. ASSUME NEW i \in DOMAIN b PROVE i \in Acks(c, g, s) <=> i \in Acks(b, g, s)
    <3>1. \A j \in 1..(i - 1) : c[j] = b[j]
      BY <1>2, <1>3
    <3> QED BY <3>1, <1>3 DEF Acks
  <2>2. Acks(c, g, s) \subseteq DOMAIN b /\ Acks(b, g, s) \subseteq DOMAIN b
    BY <1>4 DEF Acks
  <2> QED BY <2>1, <2>2
<1>6. SyncsOrdered(b, g, s) => SyncsOrdered(c, g, s)
  BY <1>3, <1>4 DEF SyncsOrdered, IsSync
<1>7. SyncsBefore(b, w, s) => SyncsBefore(c, w, s)
  BY <1>3, <1>4 DEF SyncsBefore, IsSync
<1>8. Answer(b, g) => Answer(c, g)
  BY <1>3 DEF Answer
<1> QED BY <1>1, <1>5, <1>6, <1>7, <1>8 DEF c

LEMMA BackAck ==
  ASSUME NEW b \in Seq(Reply), NEW g \in Nat, NEW s, NEW w, NEW x, x = <<"ACK", 0>>
  PROVE  /\ Append(b, x) \in Seq(Reply)
         /\ s = g \/ Answer(b, g) => Cardinality(Acks(Append(b, x), g, s)) = Cardinality(Acks(b, g, s)) + 1
         /\ SyncsOrdered(b, g, s) => SyncsOrdered(Append(b, x), g, s)
         /\ SyncsBefore(b, w, s) => SyncsBefore(Append(b, x), w, s)
         /\ Answer(b, g) => Answer(Append(b, x), g)
<1> DEFINE c == Append(b, x)
           n == Len(b) + 1
<1>1. x \in Reply /\ Type(x) = "ACK" /\ ~IsSync(x)
  BY DEF Reply, Type, IsSync
<1>2. /\ c \in Seq(Reply) /\ Len(b) \in Nat /\ DOMAIN b = 1..Len(b) /\ DOMAIN c = 1..n
      /\ \A i \in DOMAIN b : c[i] = b[i] /\ b[i] \in Reply
      /\ c[n] = x
  BY AppendPlaces, <1>1
<1> HIDE DEF c
<1>3. \A i \in DOMAIN c : IsSync(c[i]) => i \in DOMAIN b /\ c[i] = b[i]
  BY <1>1, <1>2
<1>4. Answer(b, g) => Answer(c, g)
  BY <1>2 DEF Answer
<1>5. SyncsOrdered(b, g, s) => SyncsOrdered(c, g, s)
  BY <1>3 DEF SyncsOrdered
<1>6. SyncsBefore(b, w, s) => SyncsBefore(c, w, s)
  BY <1>3 DEF SyncsBefore
<1>7. ASSUME s = g \/ Answer(b, g) PROVE Cardinality(Acks(c, g, s)) = Cardinality(Acks(b, g, s)) + 1
  <2>1. ASSUME NEW i \in DOMAIN b PROVE i \in Acks(c, g, s) <=> i \in Acks(b, g, s)
    <3>1. i \in DOMAIN c /\ c[i] = b[i] /\ \A j \in 1..(i - 1) : c[j] = b[j]
      BY <1>2
    <3>2. (\E j \in 1..(i - 1) : c[j] = <<"ACK_SYNC", g>>) <=> (\E j \in 1..(i - 1) : b[j] = <<"ACK_SYNC", g>>)
      BY <3>1
    <3> QED BY <3>1, <3>2 DEF Acks
  <2>2. n \in Acks(c, g, s)
    <3>1. n \in DOMAIN c /\ n - 1 = Len(b)
      BY <1>2
    <3>2. Answer(b, g) => \E j \in 1..(n - 1) : c[j] = <<"ACK_SYNC", g>>
      BY <3>1, <1>2 DEF Answer
    <3> QED BY <3>1, <3>2, <1>1, <1>2, <1>7 DEF Acks
  <2>3. Acks(c, g, s) \subseteq DOMAIN b \cup {n} /\ Acks(b, g, s) \subseteq DOMAIN b /\ n \notin DOMAIN b
    BY <1>2 DEF Acks
  <2>4. Acks(c, g, s) = Acks(b, g, s) \cup {n}
    BY <2>1, <2>2, <2>3
  <2>5. IsFiniteSet(Acks(b, g, s))
    BY <2>3, PlacesFinite
  <2> QED BY <2>3, <2>4, <2>5, FS_AddElement
<1> QED BY <1>2, <1>4, <1>5, <1>6, <1>7 DEF c

\* The answer to the window the client reads.
LEMMA BackSync ==
  ASSUME NEW b \in Seq(Reply), NEW w \in Seq(Message), w # <<>>, NEW g \in Nat, NEW s \in Nat, NEW size,
         Type(Head(w)) = "SET_ACK", NEW x, x = <<"ACK_SYNC", Head(w)[2].generation>>,
         Ordered(w, g, size), SyncsOrdered(b, g, s), SyncsBefore(b, w, s)
  PROVE  /\ Append(b, x) \in Seq(Reply)
         /\ SyncsOrdered(Append(b, x), g, s)
         /\ SyncsBefore(Append(b, x), Tail(w), s)
         /\ Head(w)[2].generation = g => Answer(Append(b, x), g) /\ Acks(Append(b, x), g, s) = {}
<1> DEFINE c == Append(b, x)
           n == Len(b) + 1
           k == Head(w)[2].generation
<1>1. /\ Head(w) \in Message /\ Head(w) = w[1] /\ 1 \in DOMAIN w
      /\ \A i \in DOMAIN Tail(w) : i \in Nat \ {0} /\ i + 1 \in DOMAIN w /\ Tail(w)[i] = w[i + 1]
  BY TailPlaces
<1>2. k \in Nat /\ k <= g /\ s < k /\ s <= g
  BY <1>1, MessageFields DEF Ordered, SyncsOrdered, SyncsBefore
<1>3. x \in Reply /\ IsSync(x) /\ x[2] = k /\ Type(x) # "ACK"
  BY <1>2 DEF Reply, Type, IsSync
<1>4. /\ c \in Seq(Reply) /\ Len(b) \in Nat /\ DOMAIN b = 1..Len(b) /\ DOMAIN c = 1..n
      /\ \A i \in DOMAIN b : c[i] = b[i] /\ b[i] \in Reply
      /\ c[n] = x
  BY AppendPlaces, <1>3
<1>5. \A i \in DOMAIN b : IsSync(b[i]) => s < b[i][2] /\ b[i][2] <= g /\ b[i][2] < k /\ b[i][2] \in Nat
  BY <1>1, <1>4, ReplyFields DEF SyncsOrdered, SyncsBefore
<1>6. \A i \in DOMAIN c : (i \in DOMAIN b /\ c[i] = b[i]) \/ (i = n /\ c[i] = x)
  BY <1>4
<1>x. x = <<"ACK_SYNC", k>>
  OBVIOUS
<1> HIDE DEF c, k
<1>7. SyncsOrdered(c, g, s)
  <2>1. ASSUME NEW i \in DOMAIN c, NEW j \in DOMAIN c, i < j, IsSync(c[i]), IsSync(c[j]) PROVE c[i][2] < c[j][2]
    <3>1. i \in DOMAIN b /\ c[i] = b[i]
      BY <2>1, <1>4
    <3>2. CASE j = n
      BY <3>1, <3>2, <2>1, <1>3, <1>4, <1>5
    <3>3. CASE j \in DOMAIN b /\ c[j] = b[j]
      BY <3>1, <3>3, <2>1 DEF SyncsOrdered
    <3> QED BY <3>2, <3>3, <1>6
  <2>2. ASSUME NEW i \in DOMAIN c, IsSync(c[i]) PROVE s < c[i][2] /\ c[i][2] <= g
    BY <2>2, <1>2, <1>3, <1>5, <1>6
  <2> QED BY <2>1, <2>2, <1>2 DEF SyncsOrdered
<1>8. SyncsBefore(c, Tail(w), s)
  <2> SUFFICES ASSUME NEW j \in DOMAIN Tail(w), Type(Tail(w)[j]) = "SET_ACK"
               PROVE  /\ s < Tail(w)[j][2].generation
                      /\ \A i \in DOMAIN c : IsSync(c[i]) => c[i][2] < Tail(w)[j][2].generation
    BY DEF SyncsBefore
  <2>1. j + 1 \in DOMAIN w /\ 1 < j + 1 /\ Tail(w)[j] = w[j + 1]
    BY <1>1
  <2>2. k < Tail(w)[j][2].generation
    BY <2>1, <1>1 DEF Ordered, k
  <2>3. s < Tail(w)[j][2].generation /\ \A i \in DOMAIN b : IsSync(b[i]) => b[i][2] < Tail(w)[j][2].generation
    BY <2>1 DEF SyncsBefore
  <2> QED BY <2>2, <2>3, <1>3, <1>6
<1>9. ASSUME k = g PROVE Answer(c, g) /\ Acks(c, g, s) = {}
  <2>1. n \in DOMAIN c /\ c[n] = <<"ACK_SYNC", g>>
    BY <1>4, <1>9, <1>x
  <2>2. ASSUME NEW i \in Acks(c, g, s) PROVE FALSE
    <3>1. i \in DOMAIN b
      BY <2>2, <1>3, <1>6 DEF Acks
    <3>2. PICK j \in 1..(i - 1) : c[j] = <<"ACK_SYNC", g>>
      BY <2>2, <1>2, <1>9 DEF Acks
    <3>3. j \in DOMAIN b /\ b[j] = <<"ACK_SYNC", g>>
      BY <3>1, <3>2, <1>4
    <3>4. IsSync(b[j]) /\ b[j][2] = g
      BY <3>3 DEF IsSync, Type
    <3>5. b[j][2] < k
      BY <3>3, <3>4, <1>5
    <3> QED BY <3>4, <3>5, <1>9
  <2> QED BY <2>1, <2>2 DEF Answer
<1> QED BY <1>4, <1>7, <1>8, <1>9 DEF c, k

LEMMA BackTail ==
  ASSUME NEW b \in Seq(Reply), b # <<>>, NEW g \in Nat, NEW s \in Nat, NEW w, NEW z,
         z = IF IsSync(Head(b)) THEN Head(b)[2] ELSE s,
         SyncsOrdered(b, g, s), SyncsBefore(b, w, s)
  PROVE  /\ z \in Nat
         /\ SyncsOrdered(Tail(b), g, z)
         /\ SyncsBefore(Tail(b), w, z)
         /\ s = g \/ Answer(b, g) => z = g \/ Answer(Tail(b), g)
         /\ Cardinality(Acks(Tail(b), g, z)) =
              IF Type(Head(b)) = "ACK" /\ s = g THEN Cardinality(Acks(b, g, s)) - 1 ELSE Cardinality(Acks(b, g, s))
<1> DEFINE t == Tail(b)
           x == Head(b)
<1>1. /\ t \in Seq(Reply) /\ x \in Reply /\ x = b[1] /\ 1 \in DOMAIN b
      /\ \A i \in Nat \ {0} : i \in DOMAIN t <=> i + 1 \in DOMAIN b
      /\ \A i \in DOMAIN t : i \in Nat \ {0} /\ t[i] = b[i + 1] /\ b[i + 1] \in Reply
      /\ \A i \in DOMAIN b : i \in Nat \ {0} /\ b[i] \in Reply /\ (i # 1 => i - 1 \in DOMAIN t /\ t[i - 1] = b[i])
  BY TailPlaces
<1>z. z = IF IsSync(x) THEN x[2] ELSE s
  OBVIOUS
<1> HIDE DEF t, x
<1>2. DOMAIN b = 1..Len(b) /\ DOMAIN t = 1..Len(t) /\ Len(b) \in Nat /\ Len(t) \in Nat
  BY <1>1, LenProperties
<1>3. \A i \in DOMAIN t : i + 1 \in DOMAIN b
  BY <1>1
<1>4. IsSync(x) => x[2] \in Nat /\ s < x[2] /\ x[2] <= g
  BY <1>1, ReplyFields DEF SyncsOrdered
<1>5. x = <<"ACK_SYNC", g>> <=> IsSync(x) /\ x[2] = g
  BY <1>1, ReplyFields
<1>6. z \in Nat /\ z <= g /\ (IsSync(x) => s < z)
  BY <1>z, <1>4 DEF SyncsOrdered
<1>7. SyncsOrdered(t, g, z)
  <2>1. ASSUME NEW i \in DOMAIN t, IsSync(t[i]) PROVE z < t[i][2] /\ t[i][2] <= g
    <3>1. i + 1 \in DOMAIN b /\ 1 < i + 1 /\ t[i] = b[i + 1]
      BY <1>1, <1>3
    <3>2. s < t[i][2] /\ t[i][2] <= g
      BY <3>1, <2>1 DEF SyncsOrdered
    <3>3. IsSync(x) => x[2] < t[i][2]
      BY <3>1, <2>1, <1>1 DEF SyncsOrdered
    <3> QED BY <3>2, <3>3, <1>z
  <2>2. ASSUME NEW i \in DOMAIN t, NEW j \in DOMAIN t, i < j, IsSync(t[i]), IsSync(t[j]) PROVE t[i][2] < t[j][2]
    <3>1. i + 1 \in DOMAIN b /\ j + 1 \in DOMAIN b /\ i + 1 < j + 1 /\ t[i] = b[i + 1] /\ t[j] = b[j + 1]
      BY <2>2, <1>1, <1>3
    <3> QED BY <3>1, <2>2 DEF SyncsOrdered
  <2> QED BY <2>1, <2>2, <1>6 DEF SyncsOrdered
<1>8. SyncsBefore(t, w, z)
  <2> SUFFICES ASSUME NEW j \in DOMAIN w, Type(w[j]) = "SET_ACK"
               PROVE  /\ z < w[j][2].generation
                      /\ \A i \in DOMAIN t : IsSync(t[i]) => t[i][2] < w[j][2].generation
    BY DEF SyncsBefore
  <2>1. s < w[j][2].generation /\ \A i \in DOMAIN b : IsSync(b[i]) => b[i][2] < w[j][2].generation
    BY DEF SyncsBefore
  <2>2. z < w[j][2].generation
    BY <2>1, <1>1, <1>z
  <2> QED BY <2>1, <2>2, <1>1, <1>3
<1>9. ASSUME s = g \/ Answer(b, g) PROVE z = g \/ Answer(t, g)
  <2>1. CASE s = g
    BY <2>1, <1>4, <1>z
  <2>2. CASE Answer(b, g)
    <3>1. PICK i \in DOMAIN b : b[i] = <<"ACK_SYNC", g>>
      BY <2>2 DEF Answer
    <3>2. CASE i = 1
      BY <3>1, <3>2, <1>1, <1>5, <1>z
    <3>3. CASE i # 1
      <4>1. i - 1 \in DOMAIN t /\ t[i - 1] = <<"ACK_SYNC", g>>
        BY <3>1, <3>3, <1>1
      <4> QED BY <4>1 DEF Answer
    <3> QED BY <3>2, <3>3
  <2> QED BY <2>1, <2>2, <1>9
<1>10. /\ Acks(b, g, s) \subseteq DOMAIN b /\ Acks(t, g, z) \subseteq DOMAIN t
  BY DEF Acks
<1>11. /\ IsFiniteSet(Acks(b, g, s)) /\ Acks(b, g, s) \subseteq Nat \ {0}
       /\ Acks(t, g, z) \subseteq Nat \ {0}
  BY <1>1, <1>10, PlacesFinite
<1> DEFINE S == Acks(b, g, s) \ {1}
<1>12. IsFiniteSet(S) /\ S \subseteq Nat \ {0}
  BY <1>11, FS_RemoveElement
<1>13. \A i \in Nat : i \in Acks(t, g, z) <=> i + 1 \in S
  <2> SUFFICES ASSUME NEW i \in Nat PROVE i \in Acks(t, g, z) <=> i + 1 \in S
    OBVIOUS
  <2>1. CASE i \notin DOMAIN t
    <3>1. i + 1 \notin S
      BY <2>1, <1>1, <1>10
    <3> QED BY <3>1, <2>1, <1>10
  <2>2. CASE i \in DOMAIN t
    <3>1. i \in Nat \ {0} /\ i + 1 \in DOMAIN b /\ t[i] = b[i + 1] /\ i + 1 # 1
      BY <2>2, <1>1, <1>3
    <3>2. CASE x = <<"ACK_SYNC", g>>
      <4>0. 1 \in 1..((i + 1) - 1) /\ b[1] = <<"ACK_SYNC", g>>
        BY <3>1, <3>2, <1>1
      <4>1. \E j \in 1..((i + 1) - 1) : b[j] = <<"ACK_SYNC", g>>
        BY <4>0
      <4>2. z = g
        BY <3>2, <1>5, <1>z
      <4> QED BY <3>1, <4>1, <4>2, <2>2 DEF Acks
    <3>3. CASE x # <<"ACK_SYNC", g>>
      <4>1. ASSUME NEW j \in 1..(i - 1), t[j] = <<"ACK_SYNC", g>>
            PROVE  \E l \in 1..((i + 1) - 1) : b[l] = <<"ACK_SYNC", g>>
        <5>1. j \in DOMAIN t /\ j + 1 \in 1..((i + 1) - 1)
          BY <2>2, <1>2
        <5>2. b[j + 1] = <<"ACK_SYNC", g>>
          BY <5>1, <4>1, <1>1
        <5> QED BY <5>1, <5>2
      <4>2. ASSUME NEW l \in 1..((i + 1) - 1), b[l] = <<"ACK_SYNC", g>>
            PROVE  \E j \in 1..(i - 1) : t[j] = <<"ACK_SYNC", g>>
        <5>1. l # 1
          BY <4>2, <3>3, <1>1
        <5>2. l \in DOMAIN b /\ l - 1 \in 1..(i - 1)
          BY <5>1, <3>1, <1>2
        <5>3. t[l - 1] = <<"ACK_SYNC", g>>
          BY <5>1, <5>2, <4>2, <1>1
        <5> QED BY <5>2, <5>3
      <4>3. (\E j \in 1..(i - 1) : t[j] = <<"ACK_SYNC", g>>) <=> (\E l \in 1..((i + 1) - 1) : b[l] = <<"ACK_SYNC", g>>)
        BY <4>1, <4>2
      <4>4. z = g <=> s = g
        BY <3>3, <1>4, <1>5, <1>z
      <4> QED BY <3>1, <4>3, <4>4, <2>2 DEF Acks
    <3> QED BY <3>2, <3>3
  <2> QED BY <2>1, <2>2
<1>14. Cardinality(Acks(t, g, z)) = Cardinality(S)
  <2>1. Acks(t, g, z) \subseteq Nat
    BY <1>11
  <2> HIDE DEF S
  <2> QED BY <1>12, <1>13, <2>1, ShiftCount
<1>15. 1 \in Acks(b, g, s) <=> Type(x) = "ACK" /\ s = g
  BY <1>1 DEF Acks
<1>16. Cardinality(S) = IF 1 \in Acks(b, g, s) THEN Cardinality(Acks(b, g, s)) - 1 ELSE Cardinality(Acks(b, g, s))
  BY <1>11, FS_RemoveElement
<1> QED BY <1>6, <1>7, <1>8, <1>9, <1>14, <1>15, <1>16 DEF t, x

-----------------------------------------------------------------------------
(* The account.                                                                *)

LEMMA SendBalances ==
  ASSUME NEW coming \in BOOLEAN, NEW h \in Nat, NEW a \in Nat, NEW una \in Int, NEW win \in Nat,
         NEW aw, NEW left, NEW more \in Nat,
         Balanced(coming, h, a, una, win, aw, left, more)
  PROVE  Balanced(coming, h + 1, a, una + 1, win, aw, left, more)
<1>1. win * a \in Int
  OBVIOUS
<1>2. CASE coming
  BY <1>2 DEF Balanced
<1>3. CASE ~coming /\ win > 0
  <2>1. aw = win /\ left \in 1..win /\ una = h + (win - left) + win * a + more
    BY <1>3 DEF Balanced
  <2>2. una + 1 = (h + 1) + (win - left) + win * a + more
    BY <1>1, <2>1
  <2> QED BY <2>1, <2>2, <1>3 DEF Balanced
<1>4. CASE ~coming /\ ~(win > 0)
  BY <1>4 DEF Balanced
<1> QED BY <1>2, <1>3, <1>4

LEMMA UncountedBalances ==
  ASSUME NEW h \in Nat, NEW a \in Nat, NEW una \in Int, NEW win \in Nat,
         NEW aw, NEW left, NEW more \in Nat,
         Balanced(FALSE, h, a, una, win, aw, left, more)
  PROVE  Balanced(FALSE, h - 1, a, una, win, aw, left, more + 1)
<1>1. win * a \in Int
  OBVIOUS
<1> QED BY <1>1 DEF Balanced

LEMMA CountedBalances ==
  ASSUME NEW h \in Nat, NEW a \in Nat, NEW una \in Int, NEW win \in Nat,
         NEW aw, NEW left \in Int, NEW more \in Nat, left > 1,
         Balanced(FALSE, h, a, una, win, aw, left, more)
  PROVE  Balanced(FALSE, h - 1, a, una, win, aw, left - 1, more)
<1>1. win * a \in Int
  OBVIOUS
<1> QED BY <1>1 DEF Balanced

LEMMA AckBalances ==
  ASSUME NEW h \in Nat, NEW a \in Nat, NEW una \in Int, NEW win \in Nat,
         NEW aw, NEW left \in Int, NEW more \in Nat, left <= 1,
         Balanced(FALSE, h, a, una, win, aw, left, more)
  PROVE  Balanced(FALSE, h - 1, a + 1, una, win, aw, aw, more)
<1>1. win * a \in Int /\ win * (a + 1) = win * a + win
  OBVIOUS
<1> QED BY <1>1 DEF Balanced

LEMMA GrantBalances ==
  ASSUME NEW h \in Nat, NEW a \in Nat, NEW una \in Int, NEW win \in Nat,
         NEW aw, NEW left \in Int, NEW more \in Nat,
         Balanced(FALSE, h, a, una, win, aw, left, more)
  PROVE  Balanced(FALSE, h, a - 1, una - win, win, aw, left, more)
<1>1. win * a \in Int /\ win * (a - 1) = win * a - win
  OBVIOUS
<1> QED BY <1>1 DEF Balanced

\* The queues' sets are AckLedger's.
LEMMA SameSets ==
  /\ Coming(wire, generation) <=> NewWindowComes
  /\ Held(wire, generation, strict) = CountsComing
  /\ Acks(back, generation, synced) = AcksComing
  /\ \A msg : CountsFor(strict, msg) <=> Counts(msg)
<1>1. \A msg : CountsFor(strict, msg) <=> Counts(msg)
  BY DEF CountsFor, Counts
<1>2. \A msg : Brings(msg, generation) <=> IsNewWindow(msg)
  BY DEF Brings, IsNewWindow
<1>3. Coming(wire, generation) <=> NewWindowComes
  BY <1>2 DEF Coming, NewWindowComes
<1>4. Held(wire, generation, strict) = CountsComing
  BY <1>1, <1>2, <1>3 DEF Held, CountsComing
<1>5. Acks(back, generation, synced) = AcksComing
  BY DEF Acks, AcksComing
<1> QED BY <1>1, <1>3, <1>4, <1>5

LEMMA LedgerHolds ==
  ASSUME LedgerInv
  PROVE  AckLedger
BY SameSets DEF LedgerInv, Ledger, Balanced, AckLedger

\* The numbers in it.
LEMMA Numbers ==
  ASSUME TypeInv
  PROVE  /\ Coming(wire, generation) \in BOOLEAN
         /\ Cardinality(Held(wire, generation, strict)) \in Nat
         /\ Cardinality(Acks(back, generation, synced)) \in Nat
         /\ window \in Nat /\ unacked \in Int /\ unasked \in Nat
         /\ generation \in Nat /\ synced \in Nat /\ strict \in BOOLEAN
         /\ wire \in Seq(Message) /\ back \in Seq(Reply)
<1>1. Held(wire, generation, strict) \in SUBSET DOMAIN wire /\ Acks(back, generation, synced) \in SUBSET DOMAIN back
  BY DEF Held, Acks
<1>2. wire \in Seq(Message) /\ back \in Seq(Reply)
  BY DEF TypeInv
<1>3. Cardinality(Held(wire, generation, strict)) \in Nat /\ Cardinality(Acks(back, generation, synced)) \in Nat
  BY <1>1, <1>2, PlacesFinite
<1>4. Coming(wire, generation) \in BOOLEAN
  BY DEF Coming
<1> QED BY <1>2, <1>3, <1>4, ChannelAssumption DEF TypeInv

LEMMA LedgerStarts == Init => LedgerInv
<1> SUFFICES ASSUME Init PROVE LedgerInv
  OBVIOUS
<1>1. wire = <<>> /\ back = <<>> /\ wire \in Seq(Message) /\ back \in Seq(Reply)
  BY DEF Init
<1>2. TypeInv
  <2>1. lost \in BOOLEAN /\ missed \in BOOLEAN /\ shown \in BOOLEAN /\ strict \in BOOLEAN /\ kind \in Kinds
    BY DEF Init
  <2>2. /\ ack_window = Undefined /\ msgs_until_ack = Undefined /\ mode = Undefined
        /\ generation = 0 /\ synced = 0 /\ unasked = 0 /\ window = 0 /\ unacked = 0
    BY DEF Init
  <2> QED BY <2>1, <2>2, <1>1 DEF TypeInv
<1>3. DOMAIN wire = {} /\ DOMAIN back = {}
  BY <1>1
<1>4. Order
  BY <1>3 DEF Init, Order, Ordered, SyncsOrdered, SyncsBefore
<1>5. Ledger
  BY <1>3 DEF Init, Ledger, Balanced, Coming
<1> QED BY <1>2, <1>4, <1>5 DEF LedgerInv

-----------------------------------------------------------------------------
(* The server's steps.                                                         *)

\* A message that is not a window: it is under way, and held against it.
LEMMA SendStep ==
  ASSUME LedgerInv, NEW msg \in Message, Type(msg) # "SET_ACK", Sends(msg),
         UNCHANGED <<kind, strict, shown, back, client, generation, window, synced, unasked>>,
         mode' \in Modes \cup {Undefined}
  PROVE  LedgerInv'
<1> DEFINE g == generation
           h == Cardinality(Held(wire, g, strict))
           a == Cardinality(Acks(back, g, synced))
<1>1. /\ Coming(wire, g) \in BOOLEAN /\ h \in Nat /\ a \in Nat
      /\ window \in Nat /\ unacked \in Int /\ unasked \in Nat /\ g \in Nat /\ strict \in BOOLEAN
      /\ wire \in Seq(Message) /\ back \in Seq(Reply)
  BY Numbers DEF LedgerInv
<1>2. /\ wire' = Append(wire, msg)
      /\ unacked' = IF CountsFor(strict, msg) THEN unacked + 1 ELSE unacked
  BY SameSets DEF Sends
<1>3. wire' \in Seq(Message) /\ unacked' \in Int
  BY <1>1, <1>2, AppendProperties
<1>4. TypeInv'
  BY <1>3 DEF LedgerInv, TypeInv, client
<1>5. /\ Coming(wire', g) = Coming(wire, g)
      /\ CountsFor(strict, msg) => Cardinality(Held(wire', g, strict)) = h + 1
      /\ ~CountsFor(strict, msg) => Held(wire', g, strict) = Held(wire, g, strict)
  BY <1>1, <1>2, WireAppend
<1>6. Ordered(wire', g, window) /\ SyncsBefore(back, wire', synced)
  <2>1. Ordered(wire, g, window) /\ SyncsBefore(back, wire, synced)
    BY DEF LedgerInv, Order
  <2> QED BY <2>1, <1>1, <1>2, OrderAppend
<1>7. Order'
  BY <1>5, <1>6 DEF LedgerInv, Order
<1>8. Balanced(Coming(wire, g), h, a, unacked, window, ack_window, msgs_until_ack, unasked)
  BY DEF LedgerInv, Ledger
<1>9. Balanced(Coming(wire', g), Cardinality(Held(wire', g, strict)), a, unacked', window, ack_window, msgs_until_ack, unasked)
  <2>1. CASE CountsFor(strict, msg)
    <3>1. Balanced(Coming(wire, g), h + 1, a, unacked + 1, window, ack_window, msgs_until_ack, unasked)
      <4> HIDE DEF h, a
      <4> QED BY <1>1, <1>8, SendBalances
    <3> QED BY <3>1, <2>1, <1>2, <1>5
  <2>2. CASE ~CountsFor(strict, msg)
    BY <2>2, <1>2, <1>5, <1>8
  <2> QED BY <2>1, <2>2
<1>10. Ledger'
  BY <1>9 DEF Ledger, client
<1> QED BY <1>4, <1>7, <1>10 DEF LedgerInv

\* The window is set: what comes before it is not held against it.
LEMMA SetsAckStep ==
  ASSUME LedgerInv, ServerSetsAck
  PROVE  LedgerInv'
<1> DEFINE g == generation
<1>1. /\ g \in Nat /\ synced \in Nat /\ strict \in BOOLEAN
      /\ wire \in Seq(Message) /\ back \in Seq(Reply)
  BY Numbers DEF LedgerInv
<1>2. PICK size \in Windows : window' = size /\ wire' = Append(wire, <<"SET_ACK", [generation |-> g + 1, window |-> size]>>)
  BY DEF ServerSetsAck
<1> DEFINE m == <<"SET_ACK", [generation |-> g + 1, window |-> size]>>
<1>3. /\ generation' = g + 1 /\ unacked' = 0 /\ unasked' = 0
      /\ UNCHANGED <<kind, strict, shown, back, client, synced, mode>>
  BY DEF ServerSetsAck
<1>4. Ordered(wire, g, window) /\ SyncsOrdered(back, g, synced) /\ SyncsBefore(back, wire, synced)
  BY DEF LedgerInv, Order
<1>5. /\ wire' \in Seq(Message)
      /\ Coming(wire', g + 1) /\ Held(wire', g + 1, strict) = {}
      /\ Ordered(wire', g + 1, size) /\ SyncsOrdered(back, g + 1, synced) /\ SyncsBefore(back, wire', synced)
  <2>1. m = <<"SET_ACK", [generation |-> g + 1, window |-> size]>> /\ wire' = Append(wire, m)
    BY <1>2
  <2> HIDE DEF m
  <2> QED BY <2>1, <1>1, <1>4, WireNew
<1>6. TypeInv'
  BY <1>2, <1>3, <1>5 DEF LedgerInv, TypeInv, client
<1>7. Order'
  BY <1>2, <1>3, <1>5 DEF Order
<1>8. Cardinality(Held(wire', g + 1, strict)) = 0
  BY <1>5, FS_EmptySet
<1>9. Ledger'
  BY <1>3, <1>5, <1>8 DEF Ledger, Balanced
<1> QED BY <1>6, <1>7, <1>9 DEF LedgerInv

\* The server reads an answer.  What it takes for an acknowledgement was one for
\* the window there is.
LEMMA ReadStep ==
  ASSUME LedgerInv, ServerReads
  PROVE  LedgerInv'
<1> DEFINE g == generation
           h == Cardinality(Held(wire, g, strict))
           a == Cardinality(Acks(back, g, synced))
           x == Head(back)
           z == IF IsSync(x) THEN x[2] ELSE synced
           grants == Type(x) = "MOUSE_MODE_REQUEST" /\ mode # "client"
           m == <<"MOUSE_MODE", "client">>
<1>1. /\ Coming(wire, g) \in BOOLEAN /\ h \in Nat /\ a \in Nat
      /\ window \in Nat /\ unacked \in Int /\ unasked \in Nat /\ g \in Nat /\ synced \in Nat /\ strict \in BOOLEAN
      /\ wire \in Seq(Message) /\ back \in Seq(Reply)
  BY Numbers DEF LedgerInv
<1>2. /\ back # <<>> /\ back' = Tail(back) /\ synced' = z
      /\ mode' = IF grants THEN "client" ELSE mode
      /\ wire' = IF grants THEN Append(wire, m) ELSE wire
      /\ UNCHANGED <<kind, strict, shown, client, generation, window, shape, messages, unasked>>
  BY DEF ServerReads, IsSync
<1>3. /\ grants => unacked' = unacked + 1
      /\ ~grants /\ Type(x) = "ACK" /\ synced = g => unacked' = unacked - window
      /\ ~grants /\ ~(Type(x) = "ACK" /\ synced = g) => unacked' = unacked
  BY Zenon DEF ServerReads
<1>4. /\ Ordered(wire, g, window) /\ SyncsOrdered(back, g, synced) /\ SyncsBefore(back, wire, synced)
      /\ Coming(wire, g) \/ synced = g \/ Answer(back, g)
  BY DEF LedgerInv, Order
<1>5. /\ z \in Nat /\ SyncsOrdered(Tail(back), g, z) /\ SyncsBefore(Tail(back), wire, z)
      /\ synced = g \/ Answer(back, g) => z = g \/ Answer(Tail(back), g)
      /\ Cardinality(Acks(Tail(back), g, z)) = IF Type(x) = "ACK" /\ synced = g THEN a - 1 ELSE a
  <2>1. z = IF IsSync(Head(back)) THEN Head(back)[2] ELSE synced
    OBVIOUS
  <2> HIDE DEF z
  <2> QED BY <2>1, <1>1, <1>2, <1>4, BackTail
<1>6. m \in Message /\ Type(m) # "SET_ACK" /\ CountsFor(strict, m)
  BY DEF Message, Modes, Type, CountsFor, Common
<1>7. Tail(back) \in Seq(Reply)
  BY <1>1, <1>2, HeadTailProperties
<1> HIDE DEF z, m
<1>8. /\ wire' \in Seq(Message) /\ Coming(wire', g) = Coming(wire, g)
      /\ Ordered(wire', g, window) /\ SyncsBefore(back', wire', z)
      /\ Cardinality(Held(wire', g, strict)) = IF grants THEN h + 1 ELSE h
  <2>1. CASE grants
    <3>1. wire' = Append(wire, m)
      BY <2>1, <1>2
    <3>2. Coming(wire', g) = Coming(wire, g) /\ Cardinality(Held(wire', g, strict)) = h + 1
      BY <3>1, <1>1, <1>6, WireAppend
    <3>3. Ordered(wire', g, window) /\ SyncsBefore(back', wire', z)
      BY <3>1, <1>1, <1>2, <1>4, <1>5, <1>6, OrderAppend
    <3>4. wire' \in Seq(Message)
      BY <3>1, <1>1, <1>6, AppendProperties
    <3> QED BY <3>2, <3>3, <3>4, <2>1
  <2>2. CASE ~grants
    BY <2>2, <1>1, <1>2, <1>4, <1>5
  <2> QED BY <2>1, <2>2
<1>9. unacked' \in Int
  BY <1>1, <1>3
<1>10. TypeInv'
  <2>1. mode' \in Modes \cup {Undefined}
    BY <1>2 DEF LedgerInv, TypeInv, Modes
  <2> QED BY <2>1, <1>2, <1>5, <1>7, <1>8, <1>9 DEF LedgerInv, TypeInv, client
<1>11. Order'
  BY <1>2, <1>4, <1>5, <1>8 DEF Order
<1>12. Balanced(Coming(wire, g), h, a, unacked, window, ack_window, msgs_until_ack, unasked)
  BY DEF LedgerInv, Ledger
<1>13. ack_window' = ack_window /\ msgs_until_ack' = msgs_until_ack /\ window' = window /\ unasked' = unasked
       /\ generation' = g /\ strict' = strict /\ synced' = z /\ back' = Tail(back)
  BY <1>2 DEF client
<1>14. Balanced(Coming(wire', g), Cardinality(Held(wire', g, strict)), Cardinality(Acks(Tail(back), g, z)), unacked',
                window, ack_window, msgs_until_ack, unasked)
  <2>1. CASE grants
    <3>1. Balanced(Coming(wire, g), h + 1, a, unacked + 1, window, ack_window, msgs_until_ack, unasked)
      <4> HIDE DEF h, a, grants
      <4> QED BY <1>1, <1>12, SendBalances
    <3>2. Type(x) # "ACK"
      BY <2>1
    <3>3. unacked' = unacked + 1 /\ Cardinality(Held(wire', g, strict)) = h + 1
      BY <2>1, <1>3, <1>8
    <3>4. Cardinality(Acks(Tail(back), g, z)) = a
      BY <3>2, <1>5
    <3> QED BY <3>1, <3>3, <3>4, <1>8
  <2>2. CASE Type(x) = "ACK" /\ synced = g
    <3>1. ~Coming(wire, g)
      <4> SUFFICES ASSUME Coming(wire, g) PROVE FALSE
        OBVIOUS
      <4>1. PICK i \in DOMAIN wire : Type(wire[i]) = "SET_ACK" /\ wire[i][2].generation = g
        BY DEF Coming, Brings
      <4>2. synced < wire[i][2].generation
        BY <4>1, <1>4 DEF SyncsBefore
      <4> QED BY <4>1, <4>2, <2>2, <1>1
    <3>2. ~grants
      BY <2>2
    <3>3. unacked' = unacked - window
      BY <3>2, <2>2, <1>3
    <3>4. Cardinality(Held(wire', g, strict)) = h /\ Cardinality(Acks(Tail(back), g, z)) = a - 1
      BY <3>2, <2>2, <1>5, <1>8
    <3>5. Balanced(FALSE, h, a - 1, unacked - window, window, ack_window, msgs_until_ack, unasked)
      <4>1. Balanced(FALSE, h, a, unacked, window, ack_window, msgs_until_ack, unasked)
        BY <3>1, <1>1, <1>12
      <4>2. CASE window > 0
        <5>1. msgs_until_ack \in Int
          BY <4>1, <4>2 DEF Balanced
        <5> HIDE DEF h, a
        <5> QED BY <4>1, <5>1, <1>1, GrantBalances
      <4>3. CASE ~(window > 0)
        BY <4>3 DEF Balanced
      <4> QED BY <4>2, <4>3
    <3>6. Coming(wire', g) = FALSE
      BY <3>1, <1>1, <1>8
    <3> QED BY <3>3, <3>4, <3>5, <3>6
  <2>3. CASE ~grants /\ ~(Type(x) = "ACK" /\ synced = g)
    <3>1. unacked' = unacked
      BY <2>3, <1>3
    <3>2. Cardinality(Held(wire', g, strict)) = h /\ Cardinality(Acks(Tail(back), g, z)) = a
      BY <2>3, <1>5, <1>8
    <3> QED BY <3>1, <3>2, <1>8, <1>12
  <2> QED BY <2>1, <2>2, <2>3
<1>15. Ledger'
  BY <1>13, <1>14 DEF Ledger
<1> QED BY <1>10, <1>11, <1>15 DEF LedgerInv

\* What the server may say of itself.
LEMMA OwnMessages ==
  ASSUME TypeInv, NEW msg \in Own
  PROVE  msg \in Message /\ Type(msg) \notin {"SET_ACK", "MAIN_INIT", "MOUSE_MODE"} \cup CursorTypes
<1>1. kind \in {"main", "display", "inputs", "cursor", "other"}
  BY ChannelAssumption DEF TypeInv
<1>2. msg \in Message /\ Type(msg) \in Plain \cup {"DRAW"}
      /\ Type(msg) \notin {"CURSOR_HIDE", "CURSOR_RESET"}
  BY <1>1 DEF Own, Message, Type, Plain
<1> QED BY <1>2 DEF Plain, CursorTypes

LEMMA ServerStep ==
  ASSUME LedgerInv, Server
  PROVE  LedgerInv'
<1>t. TypeInv /\ mode \in Modes \cup {Undefined}
  BY DEF LedgerInv, TypeInv
<1>1. CASE ServerSetsAck
  BY <1>1, SetsAckStep
<1>2. CASE ServerPings
  <2>1. <<"PING", 0>> \in Message /\ <<"NOTIFY", 0>> \in Message
        /\ Type(<<"PING", 0>>) # "SET_ACK" /\ Type(<<"NOTIFY", 0>>) # "SET_ACK"
    BY DEF Message, Plain, Type
  <2>2. PICK msg \in {<<"PING", 0>>, <<"NOTIFY", 0>>} : Sends(msg)
    BY <1>2 DEF ServerPings
  <2> QED BY <2>1, <2>2, <1>2, <1>t, SendStep DEF ServerPings
<1>3. CASE ServerSends
  <2>1. PICK msg \in Own : Sends(msg)
    BY <1>3 DEF ServerSends
  <2>2. msg \in Message /\ Type(msg) # "SET_ACK"
    BY <1>t, OwnMessages
  <2> QED BY <2>1, <2>2, <1>3, <1>t, SendStep DEF ServerSends
<1>4. CASE ServerInits
  <2>1. PICK current \in {"client", "server"}, supported \in BOOLEAN :
          Sends(<<"MAIN_INIT", [current |-> current, supported |-> supported]>>) /\ mode' = current
    BY <1>4 DEF ServerInits
  <2> DEFINE msg == <<"MAIN_INIT", [current |-> current, supported |-> supported]>>
  <2>2. msg \in Message /\ Type(msg) # "SET_ACK" /\ Sends(msg)
    BY <2>1 DEF Message, Type, Modes
  <2>3. mode' \in Modes \cup {Undefined}
    BY <2>1 DEF Modes
  <2> HIDE DEF msg
  <2> QED BY <2>2, <2>3, <1>4, SendStep DEF ServerInits
<1>5. CASE ServerSwitches
  <2>1. PICK m \in {"client", "server"} \ {mode} : mode' = m /\ Sends(<<"MOUSE_MODE", m>>)
    BY <1>5 DEF ServerSwitches
  <2> DEFINE msg == <<"MOUSE_MODE", m>>
  <2>2. msg \in Message /\ Type(msg) # "SET_ACK" /\ Sends(msg)
    BY <2>1 DEF Message, Type, Modes
  <2>3. mode' \in Modes \cup {Undefined}
    BY <2>1 DEF Modes
  <2> HIDE DEF msg
  <2> QED BY <2>2, <2>3, <1>5, SendStep DEF ServerSwitches
<1>6. CASE ServerShapes
  <2>1. PICK msg \in ({"CURSOR_INIT"} \X Forms) \cup ({"CURSOR_SET"} \X (Forms \cup {"cached"}))
                      \cup {<<"CURSOR_HIDE", 0>>, <<"CURSOR_RESET", 0>>} : Sends(msg)
    BY <1>6 DEF ServerShapes
  <2>2. msg \in Message /\ Type(msg) # "SET_ACK"
    BY DEF Message, Type, Plain
  <2> QED BY <2>1, <2>2, <1>6, <1>t, SendStep DEF ServerShapes
<1>7. CASE ServerReads
  BY <1>7, ReadStep
<1> QED BY <1>1, <1>2, <1>3, <1>4, <1>5, <1>6, <1>7 DEF Server

-----------------------------------------------------------------------------
(* The client's steps.                                                         *)

\* Nothing of what was to be acknowledged is, or undone.
BackKept ==
  /\ back' \in Seq(Reply)
  /\ Acks(back', generation, synced) = Acks(back, generation, synced)
  /\ SyncsOrdered(back', generation, synced) /\ SyncsBefore(back', wire, synced)
  /\ Answer(back, generation) => Answer(back', generation)

LEMMA SameBack ==
  ASSUME LedgerInv, back' = back
  PROVE  BackKept
BY DEF BackKept, LedgerInv, TypeInv, Order

LEMMA RepliedBack ==
  ASSUME LedgerInv, NEW r \in Seq(Reply), \A i \in DOMAIN r : Type(r[i]) \notin {"ACK", "ACK_SYNC"},
         back' = back \o r
  PROVE  BackKept
<1>1. back \in Seq(Reply) /\ generation \in Nat
  BY DEF LedgerInv, TypeInv
<1>2. SyncsOrdered(back, generation, synced) /\ SyncsBefore(back, wire, synced)
  BY DEF LedgerInv, Order
<1> QED BY <1>1, <1>2, BackGrow DEF BackKept

\* What a step that takes a message leaves of the types and the order.
LEMMA TakenOrder ==
  ASSUME LedgerInv, wire # <<>>, wire' = Tail(wire), Type(Head(wire)) # "SET_ACK",
         generation' = generation, window' = window, synced' = synced, strict' = strict,
         SyncsOrdered(back', generation, synced), SyncsBefore(back', wire, synced),
         Answer(back, generation) => Answer(back', generation)
  PROVE  /\ wire' \in Seq(Message) /\ Order' /\ Coming(wire', generation) = Coming(wire, generation)
         /\ Cardinality(Held(wire', generation, strict)) =
              IF Counts(Head(wire)) /\ ~Coming(wire, generation)
              THEN Cardinality(Held(wire, generation, strict)) - 1 ELSE Cardinality(Held(wire, generation, strict))
<1>1. generation \in Nat /\ strict \in BOOLEAN /\ wire \in Seq(Message)
  BY Numbers DEF LedgerInv
<1>2. /\ Ordered(wire, generation, window)
      /\ Coming(wire, generation) \/ synced = generation \/ Answer(back, generation)
  BY DEF LedgerInv, Order
<1>3. ~Brings(Head(wire), generation)
  BY DEF Brings
<1>4. /\ Ordered(wire', generation, window)
      /\ Coming(wire', generation) = Coming(wire, generation)
      /\ Cardinality(Held(wire', generation, strict)) =
              IF CountsFor(strict, Head(wire)) /\ ~Coming(wire, generation)
              THEN Cardinality(Held(wire, generation, strict)) - 1 ELSE Cardinality(Held(wire, generation, strict))
  BY <1>1, <1>2, <1>3, WireTail
<1>5. SyncsBefore(back', wire', synced)
  BY <1>1, BeforeTail
<1>6. Order'
  BY <1>2, <1>4, <1>5 DEF Order
<1>7. wire' \in Seq(Message)
  BY <1>1, HeadTailProperties
<1>8. CountsFor(strict, Head(wire)) <=> Counts(Head(wire))
  BY SameSets
<1> QED BY <1>4, <1>6, <1>7, <1>8

\* A message the client takes without counting it.
LEMMA UncountedStep ==
  ASSUME LedgerInv, wire # <<>>, wire' = Tail(wire), Type(Head(wire)) # "SET_ACK", Unasked(Head(wire)),
         UNCHANGED <<kind, strict, shown, server, ack_window, msgs_until_ack>>, BackKept,
         lost' \in BOOLEAN, missed' \in BOOLEAN
  PROVE  LedgerInv'
<1> DEFINE g == generation
           h == Cardinality(Held(wire, g, strict))
           a == Cardinality(Acks(back, g, synced))
           m == Head(wire)
<1>1. /\ Coming(wire, g) \in BOOLEAN /\ h \in Nat /\ a \in Nat
      /\ window \in Nat /\ unacked \in Int /\ unasked \in Nat /\ g \in Nat
  BY Numbers DEF LedgerInv
<1>2. /\ generation' = g /\ window' = window /\ synced' = synced /\ strict' = strict /\ unacked' = unacked
      /\ mode' = mode
  BY DEF server
<1>3. /\ wire' \in Seq(Message) /\ Order' /\ Coming(wire', g) = Coming(wire, g)
      /\ Cardinality(Held(wire', g, strict)) = IF Counts(m) /\ ~Coming(wire, g) THEN h - 1 ELSE h
  BY <1>2, TakenOrder DEF BackKept
<1>4. unasked' = IF Counts(m) /\ ~Coming(wire, g) THEN unasked + 1 ELSE unasked
  BY SameSets DEF Unasked
<1>5. Cardinality(Acks(back', g, synced)) = a
  BY DEF BackKept
<1>6. TypeInv'
  BY <1>1, <1>2, <1>3, <1>4 DEF LedgerInv, TypeInv, BackKept
<1>7. Balanced(Coming(wire, g), h, a, unacked, window, ack_window, msgs_until_ack, unasked)
  BY DEF LedgerInv, Ledger
<1>8. Balanced(Coming(wire', g), Cardinality(Held(wire', g, strict)), a, unacked, window, ack_window, msgs_until_ack, unasked')
  <2>1. CASE Counts(m) /\ ~Coming(wire, g)
    <3>1. Balanced(FALSE, h, a, unacked, window, ack_window, msgs_until_ack, unasked)
      BY <2>1, <1>1, <1>7
    <3>2. Balanced(FALSE, h - 1, a, unacked, window, ack_window, msgs_until_ack, unasked + 1)
      <4> HIDE DEF h, a
      <4> QED BY <3>1, <1>1, UncountedBalances
    <3>3. Coming(wire', g) = FALSE
      BY <2>1, <1>1, <1>3
    <3> QED BY <3>2, <3>3, <2>1, <1>3, <1>4
  <2>2. CASE ~(Counts(m) /\ ~Coming(wire, g))
    BY <2>2, <1>3, <1>4, <1>7
  <2> QED BY <2>1, <2>2
<1>9. Ledger'
  BY <1>2, <1>5, <1>8 DEF Ledger
<1> QED BY <1>3, <1>6, <1>9 DEF LedgerInv

\* The window is read: from here on the client's count is the server's.
LEMMA SetAckStep ==
  ASSUME LedgerInv, wire # <<>>, wire' = Tail(wire), SetAck(Head(wire)), UNCHANGED <<kind, strict, shown, server>>
  PROVE  LedgerInv'
<1> DEFINE g == generation
           h == Cardinality(Held(wire, g, strict))
           m == Head(wire)
           x == <<"ACK_SYNC", m[2].generation>>
<1>1. /\ Coming(wire, g) \in BOOLEAN /\ h \in Nat /\ strict \in BOOLEAN
      /\ window \in Nat /\ unacked \in Int /\ unasked \in Nat /\ g \in Nat /\ synced \in Nat
      /\ wire \in Seq(Message) /\ back \in Seq(Reply)
  BY Numbers DEF LedgerInv
<1>2. /\ generation' = g /\ window' = window /\ synced' = synced /\ strict' = strict /\ unacked' = unacked
      /\ mode' = mode
  BY DEF server
<1>3. /\ Type(m) = "SET_ACK" /\ back' = Append(back, x)
      /\ ack_window' = m[2].window /\ msgs_until_ack' = m[2].window
      /\ UNCHANGED <<lost, missed, warnings, mouse_mode, pointer, unasked>>
  BY DEF SetAck
<1>4. /\ Ordered(wire, g, window) /\ SyncsOrdered(back, g, synced) /\ SyncsBefore(back, wire, synced)
      /\ Coming(wire, g) \/ synced = g \/ Answer(back, g)
  BY DEF LedgerInv, Order
<1>5. /\ m \in Message /\ m = wire[1] /\ 1 \in DOMAIN wire /\ wire' \in Seq(Message)
      /\ m[2].generation \in Nat /\ m[2].window \in Windows
  BY <1>1, <1>3, TailPlaces, MessageFields
<1>6. Coming(wire, g)
  BY <1>3, <1>4, <1>5 DEF Ordered
<1>7. /\ back' \in Seq(Reply) /\ SyncsOrdered(back', g, synced) /\ SyncsBefore(back', wire', synced)
      /\ m[2].generation = g => Answer(back', g) /\ Acks(back', g, synced) = {}
  BY <1>1, <1>3, <1>4, BackSync
<1>8. /\ Ordered(wire', g, window)
      /\ Brings(m, g) => ~Coming(wire', g) /\ m[2].window = window /\ Cardinality(Held(wire', g, strict)) = h
      /\ ~Brings(m, g) => Coming(wire', g) /\ Cardinality(Held(wire', g, strict)) = h
  BY <1>1, <1>4, <1>6, WireTail
<1>9. Brings(m, g) <=> m[2].generation = g
  BY <1>3 DEF Brings
<1>10. TypeInv'
  <2>1. m[2].window \in Nat /\ m[2].window # Undefined
    BY <1>5, ChannelAssumption
  <2> HIDE DEF m
  <2> QED BY <2>1, <1>2, <1>3, <1>5, <1>7 DEF LedgerInv, TypeInv
<1>11. Order'
  <2>1. Coming(wire', g) \/ Answer(back', g)
    BY <1>7, <1>8, <1>9
  <2> QED BY <2>1, <1>2, <1>7, <1>8 DEF Order
<1>12. unasked = 0 /\ (window > 0 => unacked = h)
  BY <1>6 DEF LedgerInv, Ledger, Balanced
<1>13. Balanced(Coming(wire', g), Cardinality(Held(wire', g, strict)), Cardinality(Acks(back', g, synced)),
                unacked, window, m[2].window, m[2].window, unasked)
  <2>1. CASE Brings(m, g)
    <3>1. Cardinality(Acks(back', g, synced)) = 0
      BY <2>1, <1>7, <1>9, FS_EmptySet
    <3>2. m[2].window = window /\ Cardinality(Held(wire', g, strict)) = h /\ ~Coming(wire', g)
      BY <2>1, <1>8
    <3>3. window > 0 => window \in 1..window /\ unacked = h + (window - window) + window * 0 + unasked
      BY <1>1, <1>12
    <3> QED BY <3>1, <3>2, <3>3 DEF Balanced
  <2>2. CASE ~Brings(m, g)
    BY <2>2, <1>8, <1>12 DEF Balanced
  <2> QED BY <2>1, <2>2
<1>14. Ledger'
  BY <1>2, <1>3, <1>13 DEF Ledger
<1> QED BY <1>10, <1>11, <1>14 DEF LedgerInv

\* What a handler answers.
LEMMA Requests ==
  ASSUME NEW msg \in Message
  PROVE  /\ Request(msg) \in Seq(Reply)
         /\ \A i \in DOMAIN Request(msg) : Type(Request(msg)[i]) \notin {"ACK", "ACK_SYNC"}
<1>1. <<"MOUSE_MODE_REQUEST", "client">> \in Reply /\ <<"ATTACH_CHANNELS", 0>> \in Reply
  BY DEF Reply
<1> DEFINE x == <<"MOUSE_MODE_REQUEST", "client">>
           y == <<"ATTACH_CHANNELS", 0>>
<1>2. x \in Reply /\ y \in Reply /\ Type(x) \notin {"ACK", "ACK_SYNC"} /\ Type(y) \notin {"ACK", "ACK_SYNC"}
  BY <1>1 DEF Type
<1>3. Request(msg) \in {<<>>, <<>> \o <<y>>, <<x>> \o <<y>>}
  BY DEF Request
<1> HIDE DEF x, y
<1>4. <<x>> \in Seq(Reply) /\ <<y>> \in Seq(Reply) /\ Len(<<x>>) = 1 /\ Len(<<y>>) = 1 /\ <<x>>[1] = x /\ <<y>>[1] = y
  BY <1>2
<1>5. CASE Request(msg) = <<>>
  BY <1>5, EmptySeq
<1>6. CASE Request(msg) = <<>> \o <<y>>
  <2>1. Request(msg) = <<y>>
    BY <1>4, <1>6, ConcatEmptySeq
  <2>2. DOMAIN <<y>> = 1..1
    BY <1>4, LenProperties
  <2> QED BY <2>1, <2>2, <1>2, <1>4
<1>7. CASE Request(msg) = <<x>> \o <<y>>
  <2> DEFINE r == <<x>> \o <<y>>
  <2>1. r \in Seq(Reply) /\ Len(r) = 2 /\ \A i \in 1..2 : r[i] = IF i <= 1 THEN <<x>>[i] ELSE <<y>>[i - 1]
    BY <1>4, ConcatProperties
  <2> HIDE DEF r
  <2>2. DOMAIN r = 1..2
    BY <2>1, LenProperties
  <2>3. r[1] = x /\ r[2] = y
    BY <2>1, <1>4
  <2>4. Request(msg) = r
    BY <1>7 DEF r
  <2> QED BY <2>1, <2>2, <2>3, <2>4, <1>2
<1> QED BY <1>3, <1>5, <1>6, <1>7

\* A message of the channel is counted, and the window's last acknowledged.
LEMMA ChannelStep ==
  ASSUME LedgerInv, wire # <<>>, wire' = Tail(wire), ChannelMessage(Head(wire)),
         UNCHANGED <<kind, strict, shown, server>>
  PROVE  LedgerInv'
<1> DEFINE g == generation
           h == Cardinality(Held(wire, g, strict))
           a == Cardinality(Acks(back, g, synced))
           m == Head(wire)
           full == Counting /\ msgs_until_ack - 1 <= 0
<1>1. /\ Coming(wire, g) \in BOOLEAN /\ h \in Nat /\ a \in Nat
      /\ window \in Nat /\ unacked \in Int /\ unasked \in Nat /\ g \in Nat /\ synced \in Nat
      /\ wire \in Seq(Message) /\ back \in Seq(Reply)
  BY Numbers DEF LedgerInv
<1>2. /\ generation' = g /\ window' = window /\ synced' = synced /\ strict' = strict /\ unacked' = unacked
      /\ mode' = mode /\ UNCHANGED <<kind, shown>>
  BY DEF server
<1>3. /\ ~Common(m) /\ HandledBy(m) /\ AckCounted(m) /\ UNCHANGED <<ack_window, lost, unasked>>
  BY DEF ChannelMessage
<1>4. /\ SyncsOrdered(back, g, synced) /\ SyncsBefore(back, wire, synced)
      /\ Coming(wire, g) \/ synced = g \/ Answer(back, g)
  BY DEF LedgerInv, Order
<1>5. m \in Message
  BY <1>1, HeadTailProperties
<1>6. Type(m) # "SET_ACK" /\ Counts(m)
  BY <1>3 DEF Common, Counts
<1> DEFINE b == back \o Request(m)
<1>7. /\ b \in Seq(Reply) /\ Acks(b, g, synced) = Acks(back, g, synced)
      /\ SyncsOrdered(b, g, synced) /\ SyncsBefore(b, wire, synced)
      /\ Answer(back, g) => Answer(b, g)
  <2>1. Request(m) \in Seq(Reply) /\ \A i \in DOMAIN Request(m) : Type(Request(m)[i]) \notin {"ACK", "ACK_SYNC"}
    BY <1>5, Requests
  <2> QED BY <2>1, <1>1, <1>4, BackGrow
<1>8. IF full THEN back' = b \o << <<"ACK", 0>> >> /\ msgs_until_ack' = ack_window
              ELSE back' = b /\ msgs_until_ack' = IF Counting THEN msgs_until_ack - 1 ELSE msgs_until_ack
  BY <1>3 DEF AckCounted
<1> HIDE DEF b
<1>9. /\ back' \in Seq(Reply) /\ SyncsOrdered(back', g, synced) /\ SyncsBefore(back', wire, synced)
      /\ Answer(back, g) => Answer(back', g)
      /\ full /\ (synced = g \/ Answer(back, g)) => Cardinality(Acks(back', g, synced)) = a + 1
      /\ ~full => Cardinality(Acks(back', g, synced)) = a
  <2>1. CASE full
    <3> DEFINE x == <<"ACK", 0>>
    <3>1. x \in Reply
      BY DEF Reply
    <3>2. back' = Append(b, x)
      <4>1. back' = b \o <<x>>
        BY <2>1, <1>8
      <4>2. b \o <<x>> = Append(b, x)
        BY <3>1, <1>7, AppendIsConcat
      <4> QED BY <4>1, <4>2
    <3>3. x = <<"ACK", 0>>
      OBVIOUS
    <3> HIDE DEF x
    <3>4. /\ Append(b, x) \in Seq(Reply)
          /\ synced = g \/ Answer(b, g) => Cardinality(Acks(Append(b, x), g, synced)) = Cardinality(Acks(b, g, synced)) + 1
          /\ SyncsOrdered(Append(b, x), g, synced) /\ SyncsBefore(Append(b, x), wire, synced)
          /\ Answer(b, g) => Answer(Append(b, x), g)
      BY <3>3, <1>1, <1>7, BackAck
    <3> QED BY <3>2, <3>4, <2>1, <1>7
  <2>2. CASE ~full
    BY <2>2, <1>7, <1>8
  <2> QED BY <2>1, <2>2
<1>10. /\ wire' \in Seq(Message) /\ Order' /\ Coming(wire', g) = Coming(wire, g)
       /\ Cardinality(Held(wire', g, strict)) = IF ~Coming(wire, g) THEN h - 1 ELSE h
  BY <1>2, <1>6, <1>9, TakenOrder
<1>11. TypeInv'
  <2>1. missed' \in BOOLEAN
    <3>1. missed' = IF Type(m) \in CursorTypes THEN ~Taken(m) ELSE missed
      BY <1>3 DEF HandledBy
    <3>2. Taken(m) \in BOOLEAN /\ missed \in BOOLEAN
      BY DEF Taken, LedgerInv, TypeInv
    <3> QED BY <3>1, <3>2
  <2>2. ack_window \in Windows \cup {Undefined} /\ msgs_until_ack \in Nat \cup {Undefined}
        /\ (ack_window = Undefined <=> msgs_until_ack = Undefined)
    BY DEF LedgerInv, TypeInv
  <2>3. Counting => ack_window \in Nat \ {0} /\ msgs_until_ack \in Nat
    BY <2>2, ChannelAssumption DEF Counting
  <2>4. msgs_until_ack' \in Nat \cup {Undefined} /\ (ack_window' = Undefined <=> msgs_until_ack' = Undefined)
    BY <2>2, <2>3, <1>3, <1>8, ChannelAssumption
  <2> QED BY <2>1, <2>4, <1>2, <1>3, <1>9, <1>10 DEF LedgerInv, TypeInv
<1>12. Balanced(Coming(wire, g), h, a, unacked, window, ack_window, msgs_until_ack, unasked)
  BY DEF LedgerInv, Ledger
<1>13. Balanced(Coming(wire', g), Cardinality(Held(wire', g, strict)), Cardinality(Acks(back', g, synced)), unacked,
                window, ack_window, msgs_until_ack', unasked)
  <2>1. CASE Coming(wire, g)
    BY <2>1, <1>10, <1>12 DEF Balanced
  <2>2. CASE ~Coming(wire, g) /\ ~(window > 0)
    BY <2>2, <1>10, <1>12 DEF Balanced
  <2>3. CASE ~Coming(wire, g) /\ window > 0
    <3>1. Balanced(FALSE, h, a, unacked, window, ack_window, msgs_until_ack, unasked)
      BY <2>3, <1>1, <1>12
    <3>2. ack_window = window /\ msgs_until_ack \in 1..window
      BY <3>1, <2>3 DEF Balanced
    <3>3. Counting /\ msgs_until_ack \in Int
      BY <3>2, <2>3, <1>1, ChannelAssumption DEF Counting
    <3>4. Coming(wire', g) = FALSE /\ Cardinality(Held(wire', g, strict)) = h - 1
      BY <2>3, <1>1, <1>10
    <3>5. CASE full
      <4>1. Balanced(FALSE, h - 1, a + 1, unacked, window, ack_window, ack_window, unasked)
        <5>1. msgs_until_ack <= 1
          BY <3>5, <3>3
        <5> HIDE DEF h, a
        <5> QED BY <5>1, <3>1, <3>3, <1>1, AckBalances
      <4>2. Cardinality(Acks(back', g, synced)) = a + 1 /\ msgs_until_ack' = ack_window
        BY <3>5, <2>3, <1>4, <1>8, <1>9
      <4> QED BY <4>1, <4>2, <3>4
    <3>6. CASE ~full
      <4>1. Balanced(FALSE, h - 1, a, unacked, window, ack_window, msgs_until_ack - 1, unasked)
        <5>1. msgs_until_ack > 1
          BY <3>6, <3>3
        <5> HIDE DEF h, a
        <5> QED BY <5>1, <3>1, <3>3, <1>1, CountedBalances
      <4>2. Cardinality(Acks(back', g, synced)) = a /\ msgs_until_ack' = msgs_until_ack - 1
        BY <3>3, <3>6, <1>8, <1>9
      <4> QED BY <4>1, <4>2, <3>4
    <3> QED BY <3>5, <3>6
  <2> QED BY <2>1, <2>2, <2>3
<1>14. Ledger'
  BY <1>2, <1>3, <1>13 DEF Ledger
<1> QED BY <1>10, <1>11, <1>14 DEF LedgerInv

LEMMA ProcessStep ==
  ASSUME LedgerInv, Process
  PROVE  LedgerInv'
<1> DEFINE m == Head(wire)
<1>1. wire # <<>> /\ wire' = Tail(wire) /\ UNCHANGED <<kind, strict, shown, server>>
  BY DEF Process
<1>t. lost \in BOOLEAN /\ missed \in BOOLEAN
  BY DEF LedgerInv, TypeInv
<1>2. CASE HandlerThrows(m)
  <2>1. /\ Throws(m) /\ lost' = HasBody(m) /\ missed' = (missed \/ Type(m) \in CursorTypes)
        /\ Unasked(m) /\ UNCHANGED <<back, ack_window, msgs_until_ack>>
    BY <1>2 DEF HandlerThrows
  <2>2. Type(m) # "SET_ACK"
    BY <2>1 DEF Throws, Writes, Warns, Unknown, Type
  <2>3. lost' \in BOOLEAN
    <3>1. HasBody(m) \in BOOLEAN
      BY Zenon DEF HasBody
    <3> QED BY <3>1, <2>1
  <2>4. missed' \in BOOLEAN
    <3>1. (missed \/ Type(m) \in CursorTypes) \in BOOLEAN
      BY Zenon
    <3> QED BY <3>1, <2>1
  <2>5. BackKept
    BY <2>1, SameBack
  <2> QED BY <1>1, <2>1, <2>2, <2>3, <2>4, <2>5, UncountedStep
<1>3. CASE SetAck(m)
  BY <1>1, <1>3, SetAckStep
<1>4. CASE Ping(m)
  <2>1. Type(m) = "PING" /\ back' = Append(back, <<"PONG", 0>>) /\ Unasked(m) /\ UNCHANGED client
    BY <1>4 DEF Ping
  <2> DEFINE r == << <<"PONG", 0>> >>
  <2>2. <<"PONG", 0>> \in Reply /\ Type(<<"PONG", 0>>) = "PONG"
    BY DEF Reply, Type
  <2>3. r \in Seq(Reply) /\ \A i \in DOMAIN r : Type(r[i]) \notin {"ACK", "ACK_SYNC"}
    BY <2>2
  <2>4. back' = back \o r
    <3>1. back \in Seq(Reply)
      BY DEF LedgerInv, TypeInv
    <3>2. back \o << <<"PONG", 0>> >> = Append(back, <<"PONG", 0>>)
      BY <3>1, <2>2, AppendIsConcat
    <3> QED BY <3>2, <2>1
  <2>5. BackKept
    <3> HIDE DEF r
    <3> QED BY <2>3, <2>4, RepliedBack
  <2> QED BY <1>1, <1>t, <2>1, <2>5, UncountedStep DEF client
<1>5. CASE Notify(m) \/ NoHandler(m)
  <2>1. Type(m) # "SET_ACK" /\ Unasked(m) /\ UNCHANGED <<client, back>>
    BY <1>5 DEF Notify, NoHandler
  <2>2. BackKept
    BY <2>1, SameBack
  <2> QED BY <1>1, <1>t, <2>1, <2>2, UncountedStep DEF client
<1>6. CASE ChannelMessage(m)
  BY <1>1, <1>6, ChannelStep
<1> QED BY <1>2, <1>3, <1>4, <1>5, <1>6 DEF Process

LEMMA LedgerKept == LedgerInv /\ [Next]_vars => LedgerInv'
<1> SUFFICES ASSUME LedgerInv, [Next]_vars PROVE LedgerInv'
  OBVIOUS
<1>1. CASE Server
  BY <1>1, ServerStep
<1>2. CASE Process
  BY <1>2, ProcessStep
<1>3. CASE Turn
  <2>1. UNCHANGED <<kind, strict, wire, back, client, server, unasked>> /\ shown' = ~shown
    BY <1>3 DEF Turn
  <2>2. shown' \in BOOLEAN
    BY <2>1
  <2> QED BY <2>1, <2>2 DEF LedgerInv, TypeInv, Order, Ledger, client, server
<1>4. CASE UNCHANGED vars
  BY <1>4 DEF vars, LedgerInv, TypeInv, Order, Ledger, client, server
<1> QED BY <1>1, <1>2, <1>3, <1>4 DEF Next

\* The client and the server keep one account of what is acknowledged
\* (SpiceConn.process_message and its msgs_until_ack): a message is either
\* under way, counted, acknowledged, or one of those the client does not count,
\* whatever windows the server sets and however often.
THEOREM OneAccount == Spec => []AckLedger
<1>1. Init => LedgerInv
  BY LedgerStarts
<1>2. LedgerInv /\ [Next]_vars => LedgerInv'
  BY LedgerKept
<1>3. LedgerInv => AckLedger
  BY LedgerHolds
<1> QED BY <1>1, <1>2, <1>3, PTL DEF Spec

-----------------------------------------------------------------------------
(* The mode of the mouse and the shape of the cursor.                          *)

LEMMA LastAppend ==
  ASSUME NEW w \in Seq(Message), NEW m \in Message, NEW set, NEW good
  PROVE  /\ m \in set /\ m \in good => LastOf(Append(w, m), set, good)
         /\ m \notin set /\ LastOf(w, set, good) => LastOf(Append(w, m), set, good)
         /\ NoneOf(Append(w, m), set) => NoneOf(w, set) /\ m \notin set
<1> DEFINE v == Append(w, m)
           n == Len(w) + 1
<1>1. /\ Len(w) \in Nat /\ DOMAIN w = 1..Len(w) /\ DOMAIN v = 1..n
      /\ \A i \in DOMAIN w : v[i] = w[i]
      /\ v[n] = m
  BY AppendPlaces
<1> HIDE DEF v
<1>2. ASSUME m \in set, m \in good PROVE LastOf(v, set, good)
  <2> SUFFICES ASSUME NEW i \in DOMAIN v, \A j \in DOMAIN v : i < j => v[j] \notin set PROVE v[i] \in good
    BY DEF LastOf
  <2>1. n \in DOMAIN v /\ ~(i < n)
    BY <1>1, <1>2
  <2>2. i = n
    BY <2>1, <1>1
  <2> QED BY <2>2, <1>1, <1>2
<1>3. ASSUME m \notin set, LastOf(w, set, good) PROVE LastOf(v, set, good)
  <2> SUFFICES ASSUME NEW i \in DOMAIN v, v[i] \in set, \A j \in DOMAIN v : i < j => v[j] \notin set
               PROVE  v[i] \in good
    BY DEF LastOf
  <2>1. i \in DOMAIN w /\ v[i] = w[i]
    BY <1>1, <1>3
  <2>2. \A j \in DOMAIN w : i < j => w[j] \notin set
    BY <1>1
  <2> QED BY <2>1, <2>2, <1>3 DEF LastOf
<1>4. NoneOf(v, set) => NoneOf(w, set) /\ m \notin set
  <2>1. n \in DOMAIN v /\ \A i \in DOMAIN w : i \in DOMAIN v
    BY <1>1
  <2> QED BY <2>1, <1>1 DEF NoneOf
<1> QED BY <1>2, <1>3, <1>4 DEF v

LEMMA LastTail ==
  ASSUME NEW w \in Seq(Message), w # <<>>, NEW set, NEW good, LastOf(w, set, good)
  PROVE  /\ LastOf(Tail(w), set, good)
         /\ NoneOf(Tail(w), set) => IF Head(w) \in set THEN Head(w) \in good ELSE NoneOf(w, set)
<1> DEFINE t == Tail(w)
           m == Head(w)
<1>1. /\ m = w[1] /\ 1 \in DOMAIN w
      /\ \A i \in DOMAIN t : i \in Nat \ {0} /\ i + 1 \in DOMAIN w /\ t[i] = w[i + 1]
      /\ \A i \in DOMAIN w : i \in Nat \ {0} /\ (i # 1 => i - 1 \in DOMAIN t /\ t[i - 1] = w[i])
  BY TailPlaces
<1> HIDE DEF t, m
<1>2. LastOf(t, set, good)
  <2> SUFFICES ASSUME NEW i \in DOMAIN t, t[i] \in set, \A j \in DOMAIN t : i < j => t[j] \notin set
               PROVE  t[i] \in good
    BY DEF LastOf
  <2>1. i + 1 \in DOMAIN w /\ w[i + 1] = t[i]
    BY <1>1
  <2>2. ASSUME NEW j \in DOMAIN w, i + 1 < j PROVE w[j] \notin set
    <3>1. j - 1 \in DOMAIN t /\ i < j - 1 /\ t[j - 1] = w[j]
      BY <2>2, <1>1
    <3> QED BY <3>1
  <2> QED BY <2>1, <2>2 DEF LastOf
<1>3. ASSUME NoneOf(t, set) PROVE \A j \in DOMAIN w : j # 1 => w[j] \notin set
  <2> SUFFICES ASSUME NEW j \in DOMAIN w, j # 1 PROVE w[j] \notin set
    OBVIOUS
  <2>1. j - 1 \in DOMAIN t /\ t[j - 1] = w[j]
    BY <1>1
  <2> QED BY <2>1, <1>3 DEF NoneOf
<1>4. ASSUME NoneOf(t, set), m \in set PROVE m \in good
  <2>1. \A j \in DOMAIN w : 1 < j => w[j] \notin set
    BY <1>3, <1>4
  <2> QED BY <2>1, <1>1, <1>4 DEF LastOf
<1>5. ASSUME NoneOf(t, set), m \notin set PROVE NoneOf(w, set)
  BY <1>1, <1>3, <1>5 DEF NoneOf
<1> QED BY <1>2, <1>4, <1>5 DEF t, m

LEMMA OthersType ==
  ASSUME NEW msg \in Message
  PROVE  /\ msg \in ModeSet <=> Type(msg) \in {"MAIN_INIT", "MOUSE_MODE"}
         /\ msg \in ShapeSet <=> Type(msg) \in CursorTypes
         /\ ~(msg \in ModeSet /\ msg \in ShapeSet)
BY DEF ModeSet, ShapeSet, CursorTypes

\* A message is sent: of another kind, or the new mode, or the new shape.
LEMMA FollowSend ==
  ASSUME TypeInv, Follows, NEW msg \in Message, wire' = Append(wire, msg),
         IF msg \in ModeSet THEN msg \in ModeIs(mode') ELSE mode' = mode,
         IF msg \in ShapeSet THEN msg \in ShapeIs(shape') ELSE shape' = shape,
         UNCHANGED client
  PROVE  Follows'
<1>1. wire \in Seq(Message)
  BY DEF TypeInv
<1>2. LastOf(wire', ModeSet, ModeIs(mode'))
  <2>1. CASE msg \in ModeSet
    BY <2>1, <1>1, LastAppend
  <2>2. CASE msg \notin ModeSet
    <3>1. LastOf(wire, ModeSet, ModeIs(mode'))
      BY <2>2 DEF Follows
    <3> QED BY <3>1, <2>2, <1>1, LastAppend
  <2> QED BY <2>1, <2>2
<1>3. LastOf(wire', ShapeSet, ShapeIs(shape'))
  <2>1. CASE msg \in ShapeSet
    BY <2>1, <1>1, LastAppend
  <2>2. CASE msg \notin ShapeSet
    <3>1. LastOf(wire, ShapeSet, ShapeIs(shape'))
      BY <2>2 DEF Follows
    <3> QED BY <3>1, <2>2, <1>1, LastAppend
  <2> QED BY <2>1, <2>2
<1>4. /\ NoneOf(wire', ModeSet) => NoneOf(wire, ModeSet) /\ msg \notin ModeSet
      /\ NoneOf(wire', ShapeSet) => NoneOf(wire, ShapeSet) /\ msg \notin ShapeSet
  BY <1>1, LastAppend
<1>5. UNCHANGED <<lost, missed, mouse_mode, pointer>>
  BY DEF client
<1> QED BY <1>2, <1>3, <1>4, <1>5 DEF Follows

LEMMA FollowServer ==
  ASSUME TypeInv, Follows, Server
  PROVE  Follows'
<1>1. CASE ServerSetsAck
  <2>1. PICK size \in Windows : wire' = Append(wire, <<"SET_ACK", [generation |-> generation + 1, window |-> size]>>)
    BY <1>1 DEF ServerSetsAck
  <2> DEFINE msg == <<"SET_ACK", [generation |-> generation + 1, window |-> size]>>
  <2>2. msg \in Message /\ Type(msg) = "SET_ACK" /\ wire' = Append(wire, msg)
    BY <2>1 DEF Message, Type, TypeInv
  <2> HIDE DEF msg
  <2>3. msg \notin ModeSet /\ msg \notin ShapeSet
    BY <2>2, OthersType DEF CursorTypes
  <2>4. UNCHANGED <<client, mode, shape>>
    BY <1>1 DEF ServerSetsAck
  <2> QED BY <2>2, <2>3, <2>4, FollowSend
<1>2. CASE ServerPings
  <2>1. PICK msg \in {<<"PING", 0>>, <<"NOTIFY", 0>>} : Sends(msg)
    BY <1>2 DEF ServerPings
  <2>2. msg \in Message /\ Type(msg) \notin {"MAIN_INIT", "MOUSE_MODE"} \cup CursorTypes
    BY DEF Message, Plain, Type, CursorTypes
  <2>3. msg \notin ModeSet /\ msg \notin ShapeSet
    BY <2>2, OthersType
  <2>4. UNCHANGED <<client, mode, shape>> /\ wire' = Append(wire, msg)
    BY <2>1, <1>2 DEF ServerPings, Sends
  <2> QED BY <2>2, <2>3, <2>4, FollowSend
<1>3. CASE ServerSends
  <2>1. PICK msg \in Own : Sends(msg)
    BY <1>3 DEF ServerSends
  <2>2. msg \in Message /\ Type(msg) \notin {"MAIN_INIT", "MOUSE_MODE"} \cup CursorTypes
    BY OwnMessages
  <2>3. msg \notin ModeSet /\ msg \notin ShapeSet
    BY <2>2, OthersType
  <2>4. UNCHANGED <<client, mode, shape>> /\ wire' = Append(wire, msg)
    BY <2>1, <1>3 DEF ServerSends, Sends
  <2> QED BY <2>2, <2>3, <2>4, FollowSend
<1>4. CASE ServerInits
  <2>1. PICK current \in {"client", "server"}, supported \in BOOLEAN :
          Sends(<<"MAIN_INIT", [current |-> current, supported |-> supported]>>) /\ mode' = current
    BY <1>4 DEF ServerInits
  <2> DEFINE msg == <<"MAIN_INIT", [current |-> current, supported |-> supported]>>
  <2>2. msg \in Message /\ Type(msg) = "MAIN_INIT" /\ msg[2].current = current /\ Sends(msg)
    BY <2>1 DEF Message, Type, Modes
  <2> HIDE DEF msg
  <2>3. msg \in ModeSet /\ msg \notin ShapeSet
    BY <2>2, OthersType
  <2>4. msg \in ModeIs(mode')
    BY <2>1, <2>2, <2>3 DEF ModeIs
  <2>5. UNCHANGED <<client, shape>> /\ wire' = Append(wire, msg)
    BY <2>2, <1>4 DEF ServerInits, Sends
  <2> QED BY <2>2, <2>3, <2>4, <2>5, FollowSend
<1>5. CASE ServerSwitches
  <2>1. PICK m \in {"client", "server"} \ {mode} : mode' = m /\ Sends(<<"MOUSE_MODE", m>>)
    BY <1>5 DEF ServerSwitches
  <2> DEFINE msg == <<"MOUSE_MODE", m>>
  <2>2. msg \in Message /\ Type(msg) = "MOUSE_MODE" /\ msg[2] = m /\ Sends(msg)
    BY <2>1 DEF Message, Type, Modes
  <2> HIDE DEF msg
  <2>3. msg \in ModeSet /\ msg \notin ShapeSet
    BY <2>2, OthersType
  <2>4. msg \in ModeIs(mode')
    BY <2>1, <2>2, <2>3 DEF ModeIs
  <2>5. UNCHANGED <<client, shape>> /\ wire' = Append(wire, msg)
    BY <2>2, <1>5 DEF ServerSwitches, Sends
  <2> QED BY <2>2, <2>3, <2>4, <2>5, FollowSend
<1>6. CASE ServerShapes
  <2>1. UNCHANGED <<client, mode>>
    BY <1>6 DEF ServerShapes
  <2>2. PICK msg \in ({"CURSOR_INIT"} \X Forms) \cup ({"CURSOR_SET"} \X (Forms \cup {"cached"}))
                      \cup {<<"CURSOR_HIDE", 0>>, <<"CURSOR_RESET", 0>>} :
          /\ Sends(msg)
          /\ Type(msg) = "CURSOR_SET" => msg[2] = shape' \/ msg[2] = "cached"
          /\ Type(msg) = "CURSOR_HIDE" => shape' = "none"
    <3>1. CASE \E s \in Forms : shape' = s /\ Sends(<<"CURSOR_INIT", s>>)
      BY <3>1 DEF Type
    <3>2. CASE \E s \in Forms : shape' = s /\ Sends(<<"CURSOR_SET", s>>)
      BY <3>2 DEF Type
    <3>3. CASE Sends(<<"CURSOR_SET", "cached">>)
      BY <3>3 DEF Type
    <3>4. CASE shape' = "none" /\ (Sends(<<"CURSOR_HIDE", 0>>) \/ Sends(<<"CURSOR_RESET", 0>>))
      BY <3>4 DEF Type
    <3> QED BY <1>6, <3>1, <3>2, <3>3, <3>4 DEF ServerShapes
  <2>3. msg \in Message /\ Type(msg) \in CursorTypes
    BY DEF Message, Type, Plain, CursorTypes
  <2>4. msg \in ShapeSet /\ msg \notin ModeSet
    BY <2>3, OthersType
  <2>5. Taken(msg) => IF Type(msg) = "CURSOR_SET" THEN msg[2] = shape' ELSE shape' = "none"
    BY <2>2, ChannelAssumption DEF Taken
  <2>6. msg \in ShapeIs(shape') /\ wire' = Append(wire, msg)
    BY <2>2, <2>4, <2>5 DEF ShapeIs, Sends
  <2> QED BY <2>1, <2>3, <2>4, <2>6, FollowSend
<1>7. CASE ServerReads
  <2> DEFINE grants == Type(Head(back)) = "MOUSE_MODE_REQUEST" /\ mode # "client"
             msg == <<"MOUSE_MODE", "client">>
  <2>1. /\ mode' = IF grants THEN "client" ELSE mode
        /\ wire' = IF grants THEN Append(wire, msg) ELSE wire
        /\ UNCHANGED <<client, shape>>
    BY <1>7 DEF ServerReads
  <2>2. msg \in Message /\ Type(msg) = "MOUSE_MODE" /\ msg[2] = "client"
    BY DEF Message, Type, Modes
  <2> HIDE DEF msg, grants
  <2>3. CASE grants
    <3>1. msg \in ModeSet /\ msg \notin ShapeSet
      BY <2>2, OthersType
    <3>2. msg \in ModeIs(mode')
      BY <2>1, <2>2, <2>3, <3>1 DEF ModeIs
    <3>3. wire' = Append(wire, msg)
      BY <2>1, <2>3
    <3> QED BY <2>1, <2>2, <3>1, <3>2, <3>3, FollowSend
  <2>4. CASE ~grants
    BY <2>1, <2>4 DEF Follows, client
  <2> QED BY <2>3, <2>4
<1> QED BY <1>1, <1>2, <1>3, <1>4, <1>5, <1>6, <1>7 DEF Server

\* A message of another kind is taken, or the reader is lost.
LEMMA FollowOther ==
  ASSUME TypeInv, Follows, wire # <<>>, wire' = Tail(wire), UNCHANGED <<mode, shape>>,
         Head(wire) \in ModeSet \/ Head(wire) \in ShapeSet => lost',
         UNCHANGED <<mouse_mode, pointer>>, ~lost, missed => missed'
  PROVE  Follows'
<1>1. wire \in Seq(Message)
  BY DEF TypeInv
<1>2. /\ LastOf(wire', ModeSet, ModeIs(mode))
      /\ NoneOf(wire', ModeSet) => Head(wire) \in ModeSet \/ NoneOf(wire, ModeSet)
  <2>1. LastOf(wire, ModeSet, ModeIs(mode))
    BY DEF Follows
  <2> QED BY <2>1, <1>1, LastTail
<1>3. /\ LastOf(wire', ShapeSet, ShapeIs(shape))
      /\ NoneOf(wire', ShapeSet) => Head(wire) \in ShapeSet \/ NoneOf(wire, ShapeSet)
  <2>1. LastOf(wire, ShapeSet, ShapeIs(shape))
    BY DEF Follows
  <2> QED BY <2>1, <1>1, LastTail
<1> QED BY <1>2, <1>3 DEF Follows

\* A message of the channel is handled.
LEMMA FollowChannel ==
  ASSUME TypeInv, Follows, wire # <<>>, wire' = Tail(wire), UNCHANGED <<mode, shape, lost>>, ~lost,
         HandledBy(Head(wire))
  PROVE  Follows'
<1> DEFINE m == Head(wire)
<1>1. wire \in Seq(Message) /\ m \in Message
  BY HeadTailProperties DEF TypeInv
<1>2. /\ LastOf(wire', ModeSet, ModeIs(mode))
      /\ NoneOf(wire', ModeSet) => IF m \in ModeSet THEN m \in ModeIs(mode) ELSE NoneOf(wire, ModeSet)
  <2>1. LastOf(wire, ModeSet, ModeIs(mode))
    BY DEF Follows
  <2> QED BY <2>1, <1>1, LastTail
<1>3. /\ LastOf(wire', ShapeSet, ShapeIs(shape))
      /\ NoneOf(wire', ShapeSet) => IF m \in ShapeSet THEN m \in ShapeIs(shape) ELSE NoneOf(wire, ShapeSet)
  <2>1. LastOf(wire, ShapeSet, ShapeIs(shape))
    BY DEF Follows
  <2> QED BY <2>1, <1>1, LastTail
<1> HIDE DEF m
<1>4. /\ mouse_mode' = MouseMode(m) /\ pointer' = Pointer(m)
      /\ missed' = IF Type(m) \in CursorTypes THEN ~Taken(m) ELSE missed
  BY DEF HandledBy, m
<1>5. m \in ModeSet <=> Type(m) \in {"MAIN_INIT", "MOUSE_MODE"}
  BY <1>1, OthersType
<1>6. m \in ShapeSet <=> Type(m) \in CursorTypes
  BY <1>1, OthersType
<1>7. NoneOf(wire', ModeSet) => mouse_mode' = mode
  <2> SUFFICES ASSUME NoneOf(wire', ModeSet) PROVE mouse_mode' = mode
    OBVIOUS
  <2>1. CASE Type(m) = "MAIN_INIT"
    <3>1. m[2].current = mode
      BY <2>1, <1>2, <1>5 DEF ModeIs
    <3> QED BY <3>1, <2>1, <1>4, Zenon DEF MouseMode
  <2>2. CASE Type(m) = "MOUSE_MODE"
    <3>1. m[2] = mode /\ Type(m) # "MAIN_INIT"
      BY <2>2, <1>2, <1>5 DEF ModeIs
    <3> QED BY <3>1, <2>2, <1>4, Zenon DEF MouseMode
  <2>3. CASE Type(m) # "MAIN_INIT" /\ Type(m) # "MOUSE_MODE"
    <3>1. mouse_mode' = mouse_mode
      BY <2>3, <1>4, Zenon DEF MouseMode
    <3>2. mouse_mode = mode
      BY <2>3, <1>2, <1>5 DEF Follows
    <3> QED BY <3>1, <3>2
  <2> QED BY <2>1, <2>2, <2>3
<1>8. NoneOf(wire', ShapeSet) => pointer' = shape \/ missed'
  <2> SUFFICES ASSUME NoneOf(wire', ShapeSet), ~missed' PROVE pointer' = shape
    OBVIOUS
  <2>1. CASE Type(m) = "CURSOR_SET"
    <3>1. Taken(m) /\ Type(m) # "CURSOR_HIDE"
      BY <2>1, <1>4 DEF CursorTypes
    <3>2. m[2] \in Shapes
      BY <3>1 DEF Taken
    <3>3. m[2] = shape
      BY <2>1, <3>1, <1>3, <1>6 DEF ShapeIs, CursorTypes
    <3>4. m # <<"CURSOR_SET", "cached">>
      BY <3>2, ChannelAssumption
    <3> QED BY <3>1, <3>2, <3>3, <3>4, <2>1, <1>4, Zenon DEF Pointer
  <2>2. CASE Type(m) = "CURSOR_HIDE"
    <3>1. Taken(m) /\ Type(m) # "CURSOR_SET"
      BY <2>2 DEF Taken
    <3>2. shape = "none"
      BY <2>2, <3>1, <1>3, <1>6 DEF ShapeIs, CursorTypes
    <3>3. m # <<"CURSOR_SET", "cached">>
      BY <3>1 DEF Type
    <3> QED BY <3>1, <3>2, <3>3, <2>2, <1>4, Zenon DEF Pointer
  <2>3. CASE Type(m) # "CURSOR_SET" /\ Type(m) # "CURSOR_HIDE"
    <3>1. ~Taken(m)
      BY <2>3 DEF Taken
    <3>2. Type(m) \notin CursorTypes
      BY <3>1, <1>4
    <3>3. missed' = missed /\ pointer = shape
      BY <3>2, <1>3, <1>4, <1>6 DEF Follows
    <3>4. m # <<"CURSOR_SET", "cached">>
      BY <2>3 DEF Type
    <3>5. pointer' = pointer
      BY <2>3, <3>4, <1>4, Zenon DEF Pointer
    <3> QED BY <3>3, <3>5
  <2> QED BY <2>1, <2>2, <2>3
<1> QED BY <1>2, <1>3, <1>7, <1>8 DEF Follows

LEMMA FollowProcess ==
  ASSUME TypeInv, Follows, Process
  PROVE  Follows'
<1> DEFINE m == Head(wire)
<1>1. wire # <<>> /\ ~lost /\ wire' = Tail(wire) /\ UNCHANGED <<mode, shape>>
  BY DEF Process, server
<1>2. m \in Message
  BY <1>1, HeadTailProperties DEF TypeInv
<1>3. /\ m \in ModeSet <=> Type(m) \in {"MAIN_INIT", "MOUSE_MODE"}
      /\ m \in ShapeSet <=> Type(m) \in CursorTypes
  BY <1>2, OthersType
<1>4. CASE SetAck(m) \/ Ping(m) \/ Notify(m) \/ NoHandler(m)
  <2>1. Type(m) \in {"SET_ACK", "PING", "NOTIFY", "DATA"} /\ UNCHANGED <<lost, missed, mouse_mode, pointer>>
    BY <1>4 DEF SetAck, Ping, Notify, NoHandler, client
  <2>2. m \notin ModeSet /\ m \notin ShapeSet
    BY <2>1, <1>3 DEF CursorTypes
  <2> QED BY <2>1, <2>2, <1>1, FollowOther
<1>5. CASE ChannelMessage(m)
  BY <1>1, <1>5, FollowChannel DEF ChannelMessage
<1>6. CASE HandlerThrows(m)
  <2>1. /\ Throws(m) /\ lost' = HasBody(m) /\ missed' = (missed \/ Type(m) \in CursorTypes)
        /\ UNCHANGED <<mouse_mode, pointer>>
    BY <1>6 DEF HandlerThrows
  <2>2. CASE Type(m) \in CursorTypes
    <3>1. missed'
      BY <2>1, <2>2
    <3>2. wire \in Seq(Message) /\ LastOf(wire, ModeSet, ModeIs(mode)) /\ LastOf(wire, ShapeSet, ShapeIs(shape))
      BY DEF TypeInv, Follows
    <3>3. /\ LastOf(wire', ModeSet, ModeIs(mode)) /\ LastOf(wire', ShapeSet, ShapeIs(shape))
          /\ NoneOf(wire', ModeSet) => IF m \in ModeSet THEN m \in ModeIs(mode) ELSE NoneOf(wire, ModeSet)
      BY <3>2, <1>1, LastTail
    <3>4. m \notin ModeSet
      BY <2>2, <1>3 DEF CursorTypes
    <3> QED BY <3>1, <3>3, <3>4, <2>1, <1>1 DEF Follows
  <2>3. CASE Type(m) \notin CursorTypes
    <3>1. Type(m) \in {"MAIN_INIT", "MOUSE_MODE"} => lost'
      BY <2>1 DEF HasBody
    <3>2. missed => missed'
      BY <2>1
    <3> QED BY <3>1, <3>2, <2>1, <2>3, <1>1, <1>3, FollowOther
  <2> QED BY <2>2, <2>3
<1> QED BY <1>1, <1>4, <1>5, <1>6 DEF Process

LEMMA FollowKept == LedgerInv /\ Follows /\ [Next]_vars => Follows'
<1> SUFFICES ASSUME LedgerInv, Follows, [Next]_vars PROVE Follows'
  OBVIOUS
<1>1. TypeInv
  BY DEF LedgerInv
<1>2. CASE Server
  BY <1>1, <1>2, FollowServer
<1>3. CASE Process
  BY <1>1, <1>3, FollowProcess
<1>4. CASE Turn
  BY <1>4 DEF Turn, Follows, client, server
<1>5. CASE UNCHANGED vars
  BY <1>5 DEF vars, Follows, client, server
<1> QED BY <1>2, <1>3, <1>4, <1>5 DEF Next

LEMMA FollowStarts == Init => Follows
<1> SUFFICES ASSUME Init PROVE Follows
  OBVIOUS
<1>1. DOMAIN wire = {}
  BY DEF Init
<1>2. mouse_mode = mode /\ pointer = shape
  BY DEF Init
<1> QED BY <1>1, <1>2 DEF Follows, LastOf

\* What the client takes for the mouse's mode and shows as the cursor is what
\* the server last said, once that has arrived (SpiceMainConn.mouse_mode and
\* SpiceCursorConn.set_cursor), unless the reader is out of step or, for the
\* cursor, the last message was one that the client does not follow.
THEOREM ClientFollows == Spec => []ClientAgrees
<1>1. Init => LedgerInv /\ Follows
  BY LedgerStarts, FollowStarts
<1>2. LedgerInv /\ Follows /\ [Next]_vars => (LedgerInv /\ Follows)'
  BY LedgerKept, FollowKept
<1>3. LedgerInv /\ Follows => ClientAgrees
  <2> SUFFICES ASSUME LedgerInv, Follows PROVE ClientAgrees
    OBVIOUS
  <2>1. \A i \in DOMAIN wire : wire[i] \in Message
    BY ElementOfSeq, LenProperties DEF LedgerInv, TypeInv
  <2>2. NoneOf(wire, ModeSet) \/ Underway({"MAIN_INIT", "MOUSE_MODE"})
    BY <2>1, OthersType DEF NoneOf, Underway
  <2>3. NoneOf(wire, ShapeSet) \/ Underway(CursorTypes)
    BY <2>1, OthersType DEF NoneOf, Underway
  <2> QED BY <2>2, <2>3 DEF Follows, ClientAgrees
<1> QED BY <1>1, <1>2, <1>3, PTL DEF Spec

=============================================================================
