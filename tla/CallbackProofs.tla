---------------------------- MODULE CallbackProofs ----------------------------
(* jQuery's lists of callbacks and its deferreds (Deferreds), and its events   *)
(* (PageEvents): what their invariants are and that every step keeps them, for *)
(* every set of listeners and places, every depth of the page and any number   *)
(* of calls.  PageProofs states with them what holds of the page.              *)
EXTENDS Deferreds, PageEvents, ListLemmas

-----------------------------------------------------------------------------
(* jQuery's lists of callbacks: the loops under way, each on a list of its own, *)
(* and all but the innermost in a callback.                                     *)

Fn == Handlers \cup {"settle"}
ListNames == {"own", "done", "fail", "progress"}
CallbackLists ==
  [options : SUBSET Flags, list : Seq(Fn) \cup {Gone}, stack : Nat \cup {Gone}, memory : BOOLEAN, firing : BOOLEAN,
   fired : BOOLEAN, firingIndex : Int, firingLength : Nat, firingStart : {0}]
LoopFrames == [name : ListNames, at : {"loop", "running", "end"}, emptied : BOOLEAN, due : Seq(Fn)]

\* The loops fs on the list n: one, or none.
LoopsOn(fs, n) == {fs[i] : i \in {j \in DOMAIN fs : fs[j].name = n}}

StackFits(fs) ==
  /\ fs \in Seq(LoopFrames)
  /\ \A i, j \in DOMAIN fs : fs[i].name = fs[j].name => i = j
  /\ \A i \in DOMAIN fs : i # Len(fs) => fs[i].at = "running"

\* The innermost, if there is one, is in a callback; a change of what is owed.
InCallback(fs) == \A i \in DOMAIN fs : i = Len(fs) => fs[i].at = "running"
Owes(e) == \A f \in LoopFrames : e[f] \in LoopFrames /\ e[f].name = f.name /\ e[f].at = f.at

LEMMA StackTypes ==
  ASSUME NEW fs, StackFits(fs)
  PROVE  /\ fs \in Seq(LoopFrames) /\ Len(fs) \in Nat /\ DOMAIN fs = 1..Len(fs)
         /\ \A i \in DOMAIN fs : fs[i] \in LoopFrames
         /\ fs # <<>> => Len(fs) \in DOMAIN fs /\ Last(fs) = fs[Len(fs)] /\ Last(fs) \in LoopFrames
<1>1. fs \in Seq(LoopFrames) /\ Len(fs) \in Nat /\ DOMAIN fs = 1..Len(fs)
  BY LenProperties DEF StackFits
<1>2. \A i \in 1..Len(fs) : fs[i] \in LoopFrames
  BY <1>1, ElementOfSeq
<1>3. fs # <<>> => Len(fs) \in 1..Len(fs)
  BY <1>1, EmptySeq
<1> QED BY <1>1, <1>2, <1>3 DEF Last

\* A list starts to fire, from outside or from a callback.
Pushes(fs, f, gs) ==
  StackFits(fs) /\ f \in LoopFrames /\ LoopsOn(fs, f.name) = {} /\ InCallback(fs) /\ gs = Append(fs, f)

LEMMA PushLoop ==
  ASSUME NEW fs, NEW f, NEW gs, Pushes(fs, f, gs)
  PROVE  /\ StackFits(gs) /\ LoopsOn(gs, f.name) = {f}
         /\ \A m : m # f.name => LoopsOn(gs, m) = LoopsOn(fs, m)
<1> DEFINE n == Len(fs)
           k == f.name
<1>0. StackFits(fs) /\ f \in LoopFrames /\ LoopsOn(fs, k) = {} /\ InCallback(fs) /\ gs = Append(fs, f)
  BY DEF Pushes
<1>1. fs \in Seq(LoopFrames) /\ n \in Nat /\ DOMAIN fs = 1..n
  BY <1>0, StackTypes
<1>2. gs \in Seq(LoopFrames) /\ Len(gs) = n + 1 /\ (\A i \in 1..n : gs[i] = fs[i]) /\ gs[n + 1] = f
  BY <1>0, <1>1, AppendProperties
<1>3. DOMAIN gs = 1..(n + 1)
  BY <1>2, LenProperties
<1> HIDE DEF n, k
<1>k. f.name = k
  BY DEF k
<1>4. \A i \in 1..n : fs[i].name # k
  BY <1>0, <1>1 DEF LoopsOn
<1>5. \A i, j \in DOMAIN gs : gs[i].name = gs[j].name => i = j
  <2> SUFFICES ASSUME NEW i \in 1..(n + 1), NEW j \in 1..(n + 1), gs[i].name = gs[j].name PROVE i = j
    BY <1>3
  <2>1. CASE i \in 1..n /\ j \in 1..n
    BY <1>0, <1>1, <1>2, <2>1 DEF StackFits
  <2>2. CASE i = n + 1 /\ j \in 1..n
    BY <1>2, <1>k, <1>4, <2>2
  <2>3. CASE j = n + 1 /\ i \in 1..n
    BY <1>2, <1>k, <1>4, <2>3
  <2> QED BY <1>1, <2>1, <2>2, <2>3
<1>6. \A i \in DOMAIN gs : i # Len(gs) => gs[i].at = "running"
  <2> SUFFICES ASSUME NEW i \in 1..n PROVE gs[i].at = "running"
    BY <1>1, <1>2, <1>3
  <2>1. fs[i].at = "running"
    BY <1>0, <1>1 DEF StackFits, InCallback, n
  <2> QED BY <1>2, <2>1
<1>7. StackFits(gs)
  BY <1>2, <1>5, <1>6 DEF StackFits
<1>8. LoopsOn(gs, k) = {f}
  <2>1. {j \in DOMAIN gs : gs[j].name = k} = {n + 1}
    BY <1>1, <1>2, <1>3, <1>k, <1>4
  <2> QED BY <1>2, <2>1 DEF LoopsOn
<1>9. ASSUME NEW m, m # k PROVE LoopsOn(gs, m) = LoopsOn(fs, m)
  <2>1. {j \in DOMAIN gs : gs[j].name = m} = {j \in DOMAIN fs : fs[j].name = m}
    BY <1>1, <1>2, <1>3, <1>k, <1>9
  <2>2. \A j \in DOMAIN fs : gs[j] = fs[j]
    BY <1>1, <1>2
  <2> QED BY <2>1, <2>2 DEF LoopsOn
<1> USE DEF k
<1> QED BY <1>7, <1>8, <1>9

\* What the loop on a list owes changes.
LEMMA OweLoop ==
  ASSUME NEW fs, StackFits(fs), NEW n, NEW e, Owes(e),
         NEW gs, gs = [i \in DOMAIN fs |-> IF fs[i].name = n THEN e[fs[i]] ELSE fs[i]]
  PROVE  /\ StackFits(gs) /\ LoopsOn(gs, n) = {e[f] : f \in LoopsOn(fs, n)}
         /\ \A m : m # n => LoopsOn(gs, m) = LoopsOn(fs, m)
<1>1. /\ Len(fs) \in Nat /\ DOMAIN fs = 1..Len(fs) /\ \A i \in DOMAIN fs : fs[i] \in LoopFrames
  BY StackTypes
<1>2. DOMAIN gs = DOMAIN fs /\ \A i \in DOMAIN fs : gs[i] = IF fs[i].name = n THEN e[fs[i]] ELSE fs[i]
  OBVIOUS
<1>3. \A i \in DOMAIN fs : gs[i] \in LoopFrames /\ gs[i].name = fs[i].name /\ gs[i].at = fs[i].at
  BY <1>1, <1>2 DEF Owes
<1>4. gs \in Seq(LoopFrames) /\ Len(gs) = Len(fs)
  <2>1. gs = [i \in 1..Len(fs) |-> gs[i]]
    BY <1>1
  <2>2. \A i \in 1..Len(fs) : gs[i] \in LoopFrames
    BY <1>1, <1>3
  <2>3. gs \in [1..Len(fs) -> LoopFrames]
    BY <2>1, <2>2
  <2> QED BY <1>1, <2>3
<1>5. StackFits(gs)
  BY <1>2, <1>3, <1>4 DEF StackFits
<1>6. \A m : {j \in DOMAIN gs : gs[j].name = m} = {j \in DOMAIN fs : fs[j].name = m}
  BY <1>2, <1>3
<1>7. LoopsOn(gs, n) = {e[f] : f \in LoopsOn(fs, n)}
  <2> DEFINE J == {j \in DOMAIN fs : fs[j].name = n}
  <2>1. LoopsOn(gs, n) = {gs[i] : i \in J} /\ LoopsOn(fs, n) = {fs[i] : i \in J}
    BY <1>6 DEF LoopsOn
  <2>2. \A i \in J : gs[i] = e[fs[i]]
    BY <1>2
  <2> HIDE DEF J
  <2>3. {gs[i] : i \in J} = {e[f] : f \in {fs[i] : i \in J}}
    BY <2>2
  <2> QED BY <2>1, <2>3
<1>8. ASSUME NEW m, m # n PROVE LoopsOn(gs, m) = LoopsOn(fs, m)
  BY <1>2, <1>6, <1>8 DEF LoopsOn
<1> QED BY <1>5, <1>7, <1>8

LEMMA PopLoop ==
  ASSUME NEW fs, StackFits(fs), fs # <<>>, NEW gs, gs = SubSeq(fs, 1, Len(fs) - 1)
  PROVE  /\ StackFits(gs) /\ LoopsOn(fs, Last(fs).name) = {Last(fs)} /\ LoopsOn(gs, Last(fs).name) = {}
         /\ \A m : m # Last(fs).name => LoopsOn(gs, m) = LoopsOn(fs, m)
         /\ InCallback(gs)
<1> DEFINE n == Len(fs)
           f == fs[n]
<1>1. /\ fs \in Seq(LoopFrames) /\ n \in Nat /\ n > 0 /\ DOMAIN fs = 1..n /\ n \in 1..n /\ Last(fs) = f
      /\ \A i \in 1..n : fs[i] \in LoopFrames
  BY StackTypes
<1>2. gs \in Seq(LoopFrames) /\ Len(gs) = n - 1 /\ \A i \in 1..(n - 1) : gs[i] = fs[i]
  <2>1. 1 \in Int /\ n - 1 \in Int /\ \A i \in 1..(n - 1) : fs[i] \in LoopFrames
    BY <1>1
  <2>2. /\ gs \in Seq(LoopFrames) /\ Len(gs) = IF 1 <= n - 1 THEN (n - 1) - 1 + 1 ELSE 0
        /\ \A i \in 1..((n - 1) - 1 + 1) : gs[i] = fs[1 + i - 1]
    BY <2>1, SubSeqProperties
  <2> HIDE DEF n
  <2> QED BY <1>1, <2>2
<1>3. DOMAIN gs = 1..(n - 1)
  BY <1>2, LenProperties
<1>4. /\ \A i, j \in 1..n : fs[i].name = fs[j].name => i = j
      /\ \A i \in 1..(n - 1) : fs[i].at = "running"
  BY <1>1 DEF StackFits
<1> HIDE DEF n
<1>5. StackFits(gs)
  BY <1>1, <1>2, <1>3, <1>4 DEF StackFits
<1>6. \A i \in 1..(n - 1) : fs[i].name # f.name /\ i \in 1..n
  BY <1>1, <1>4
<1>7. LoopsOn(fs, f.name) = {f}
  <2>1. {j \in DOMAIN fs : fs[j].name = f.name} = {n}
    BY <1>1, <1>4
  <2> QED BY <2>1 DEF LoopsOn
<1>8. LoopsOn(gs, f.name) = {}
  BY <1>2, <1>3, <1>6 DEF LoopsOn
<1>9. ASSUME NEW m, m # f.name PROVE LoopsOn(gs, m) = LoopsOn(fs, m)
  <2>1. {j \in DOMAIN gs : gs[j].name = m} = {j \in DOMAIN fs : fs[j].name = m}
    <3>1. \A j \in 1..n : j \in 1..(n - 1) \/ j = n
      BY <1>1
    <3> QED BY <1>1, <1>2, <1>3, <1>6, <1>9, <3>1
  <2>2. \A j \in DOMAIN gs : gs[j] = fs[j]
    BY <1>2, <1>3
  <2> QED BY <2>1, <2>2 DEF LoopsOn
<1>10. InCallback(gs)
  BY <1>2, <1>3, <1>4 DEF InCallback
<1> QED BY <1>1, <1>5, <1>7, <1>8, <1>9, <1>10

LEMMA SwapLoop ==
  ASSUME NEW fs, StackFits(fs), fs # <<>>, NEW f \in LoopFrames, f.name = Last(fs).name,
         NEW gs, gs = Append(SubSeq(fs, 1, Len(fs) - 1), f)
  PROVE  /\ StackFits(gs) /\ LoopsOn(fs, f.name) = {Last(fs)} /\ LoopsOn(gs, f.name) = {f}
         /\ \A m : m # f.name => LoopsOn(gs, m) = LoopsOn(fs, m)
<1> DEFINE bs == SubSeq(fs, 1, Len(fs) - 1)
<1>1. /\ StackFits(bs) /\ LoopsOn(fs, Last(fs).name) = {Last(fs)} /\ LoopsOn(bs, Last(fs).name) = {}
      /\ \A m : m # Last(fs).name => LoopsOn(bs, m) = LoopsOn(fs, m)
      /\ InCallback(bs)
  BY PopLoop
<1> HIDE DEF bs
<1>2. gs = Append(bs, f) /\ LoopsOn(bs, f.name) = {}
  <2>1. gs = Append(bs, f)
    BY DEF bs
  <2> QED BY <1>1, <2>1
<1>3. /\ StackFits(gs) /\ LoopsOn(gs, f.name) = {f}
      /\ \A m : m # f.name => LoopsOn(gs, m) = LoopsOn(bs, m)
  <2>1. Pushes(bs, f, gs)
    BY <1>1, <1>2 DEF Pushes
  <2>2. StackFits(gs)
    BY <2>1, PushLoop
  <2>3. LoopsOn(gs, f.name) = {f}
    BY <2>1, PushLoop
  <2>4. \A m : m # f.name => LoopsOn(gs, m) = LoopsOn(bs, m)
    BY <2>1, PushLoop
  <2> QED BY <2>2, <2>3, <2>4
<1>4. f.name = Last(fs).name
  OBVIOUS
<1> QED BY <1>1, <1>3, <1>4, Zenon

LEMMA NoLoops == StackFits(<<>>) /\ \A n : LoopsOn(<<>>, n) = {}
<1>1. <<>> \in Seq(LoopFrames) /\ DOMAIN <<>> = {}
  BY EmptySeq
<1> QED BY <1>1 DEF StackFits, LoopsOn

-----------------------------------------------------------------------------
(* The rest of a list, from an element on.                                     *)

From(s, k) == SubSeq(s, k, Len(s))

LEMMA FromType ==
  ASSUME NEW T, NEW s \in Seq(T), NEW k \in Nat, k >= 1
  PROVE  From(s, k) \in Seq(T)
<1>1. Len(s) \in Int /\ k \in Int /\ \A i \in k..Len(s) : s[i] \in T
  BY LenProperties, ElementOfSeq
<1> QED BY <1>1, SubSeqProperties DEF From

LEMMA FromNext ==
  ASSUME NEW T, NEW s \in Seq(T), NEW k \in 1..Len(s)
  PROVE  /\ From(s, k) # <<>> /\ Head(From(s, k)) = s[k] /\ s[k] \in T
         /\ Tail(From(s, k)) = From(s, k + 1)
<1>1. Len(s) \in k..Len(s) /\ Len(s) \in Nat /\ k \in Int /\ k <= Len(s) /\ s[k] \in T
      /\ \A i \in k..Len(s) : s[i] \in T
  BY LenProperties, ElementOfSeq
<1>2. Head(From(s, k)) = s[k] /\ Tail(From(s, k)) = From(s, k + 1)
  BY <1>1, HeadTailOfSubSeq DEF From
<1>3. From(s, k) \in Seq(T) /\ Len(From(s, k)) = IF k <= Len(s) THEN Len(s) - k + 1 ELSE 0
  BY <1>1, SubSeqProperties DEF From
<1> DEFINE n == Len(s)
           m == Len(From(s, k))
<1>4. m = IF k <= n THEN n - k + 1 ELSE 0
  BY <1>3
<1>5. n \in Nat /\ k \in Int /\ k <= n
  BY <1>1
<1> HIDE DEF m, n
<1>6. m # 0
  BY <1>4, <1>5
<1>7. From(s, k) # <<>>
  BY <1>6, EmptySeq DEF m
<1> QED BY <1>1, <1>2, <1>7

LEMMA FromNone ==
  ASSUME NEW T, NEW s \in Seq(T), NEW k \in Nat, k > Len(s)
  PROVE  From(s, k) = <<>>
<1>1. Len(s) \in Int /\ k \in Int /\ Len(s) < k
  BY LenProperties
<1> QED BY <1>1, SubSeqEmpty DEF From

LEMMA FromAll == ASSUME NEW T, NEW s \in Seq(T) PROVE From(s, 1) = s
BY SubSeqFull DEF From

LEMMA FromMore ==
  ASSUME NEW T, NEW s \in Seq(T), NEW x \in T, NEW t, t = Append(s, x), NEW k \in 1..(Len(s) + 1)
  PROVE  From(t, k) = From(s, k) \o <<x>>
<1> DEFINE n == Len(s)
<1>1. n \in Nat /\ t \in Seq(T) /\ Len(t) = n + 1 /\ t[n + 1] = x /\ \A i \in 1..n : t[i] = s[i]
  BY AppendProperties, LenProperties
<1>2. k \in 1..Len(t) /\ Len(t) \in k..Len(t) /\ (n + 1) - 1 = n /\ k \in Int /\ n \in Int
  BY <1>1
<1>3. SubSeq(t, k, Len(t)) = SubSeq(t, k, Len(t) - 1) \o <<t[Len(t)]>>
  BY <1>1, <1>2, SubSeqRecursiveSecond
<1>4. SubSeq(t, k, n) = SubSeq(s, k, n)
  <2>1. [i \in 1..(n - k + 1) |-> t[k + i - 1]] = [i \in 1..(n - k + 1) |-> s[k + i - 1]]
    <3>1. \A i \in 1..(n - k + 1) : k + i - 1 \in 1..n
      BY <1>1
    <3> QED BY <1>1, <3>1
  <2>2. \A i \in k..n : s[i] \in T /\ t[i] = s[i] /\ t[i] \in T
    BY <1>1, ElementOfSeq
  <2>3. /\ SubSeq(s, k, n) \in Seq(T) /\ Len(SubSeq(s, k, n)) = IF k <= n THEN n - k + 1 ELSE 0
        /\ \A i \in 1..(n - k + 1) : SubSeq(s, k, n)[i] = s[k + i - 1]
    BY <1>2, <2>2, SubSeqProperties
  <2>4. /\ SubSeq(t, k, n) \in Seq(T) /\ Len(SubSeq(t, k, n)) = IF k <= n THEN n - k + 1 ELSE 0
        /\ \A i \in 1..(n - k + 1) : SubSeq(t, k, n)[i] = t[k + i - 1]
    BY <1>2, <2>2, SubSeqProperties
  <2> DEFINE a == SubSeq(s, k, n)
             b == SubSeq(t, k, n)
  <2>5. a \in Seq(T) /\ b \in Seq(T) /\ Len(a) = Len(b)
    BY <2>3, <2>4
  <2>6. \A i \in 1..Len(a) : i \in 1..(n - k + 1) /\ k + i - 1 \in 1..n
    <3> DEFINE m == Len(a)
    <3>1. m = IF k <= n THEN n - k + 1 ELSE 0
      BY <2>3
    <3> HIDE DEF m, n, a
    <3>2. \A i \in 1..m : i \in 1..(n - k + 1) /\ k + i - 1 \in 1..n
      BY <1>1, <1>2, <3>1
    <3> QED BY <3>2 DEF m
  <2>7. \A i \in 1..Len(a) : a[i] = b[i]
    BY <1>1, <2>3, <2>4, <2>6
  <2> HIDE DEF a, b
  <2>8. a = b
    BY <2>5, <2>7, SeqEqual
  <2> QED BY <2>8 DEF a, b
<1> HIDE DEF n
<1> QED BY <1>1, <1>2, <1>3, <1>4 DEF From, n

LEMMA FromLast ==
  ASSUME NEW T, NEW s \in Seq(T), NEW x \in T, NEW t, t = Append(s, x)
  PROVE  From(t, Len(s) + 1) = <<x>> /\ From(s, Len(s) + 1) = <<>>
<1>1. Len(s) \in Nat /\ Len(s) + 1 \in 1..(Len(s) + 1) /\ Len(s) + 1 \in Nat /\ Len(s) + 1 > Len(s)
  BY LenProperties
<1>2. From(s, Len(s) + 1) = <<>>
  BY <1>1, FromNone
<1>3. From(t, Len(s) + 1) = From(s, Len(s) + 1) \o <<x>>
  BY <1>1, FromMore
<1>4. <<>> \o <<x>> = <<x>>
  OBVIOUS
<1> QED BY <1>2, <1>3, <1>4

-----------------------------------------------------------------------------
(* A list and the loop on it.                                                  *)

\* How many of the list the loop has behind it, the callback that runs included.
Passed(f, l) == l.firingIndex + IF f.at = "running" THEN 1 ELSE 0

LoopFits(f, l) ==
  /\ l.firing
  /\ f.emptied => f.name = "own"
  /\ f.at # "end" =>
       /\ Passed(f, l) \in Nat
       /\ ~f.emptied /\ l.list = Gone => f.due = <<>>
       /\ ~f.emptied /\ l.list # Gone => f.due = From(l.list, Passed(f, l) + 1)
       /\ ~f.emptied /\ l.list # Gone /\ f.at = "running" => Passed(f, l) <= Len(l.list)

Account(l, F) ==
  /\ l \in CallbackLists /\ F \subseteq LoopFrames
  /\ l.firing => l.fired
  /\ l.firing /\ l.list # Gone => l.firingLength = Len(l.list)
  /\ \A f \in F : LoopFits(f, l)

AllInside(F) == \A f \in F : f.at = "running"

LEMMA ListFields ==
  ASSUME NEW l \in CallbackLists
  PROVE  /\ l.options \subseteq Flags /\ (l.list # Gone => l.list \in Seq(Fn) /\ Len(l.list) \in Nat)
         /\ (l.stack # Gone => l.stack \in Nat) /\ l.memory \in BOOLEAN /\ l.firing \in BOOLEAN /\ l.fired \in BOOLEAN
         /\ l.firingIndex \in Int /\ l.firingLength \in Nat /\ l.firingStart = 0
<1>1. /\ l.options \in SUBSET Flags /\ l.list \in Seq(Fn) \cup {Gone} /\ l.stack \in Nat \cup {Gone}
      /\ l.memory \in BOOLEAN /\ l.firing \in BOOLEAN /\ l.fired \in BOOLEAN
      /\ l.firingIndex \in Int /\ l.firingLength \in Nat /\ l.firingStart \in {0}
  BY DEF CallbackLists
<1>2. l.list # Gone => l.list \in Seq(Fn) /\ Len(l.list) \in Nat
  BY <1>1, LenProperties
<1> QED BY <1>1, <1>2

\* Nothing is on a list that is not firing.
LEMMA Quiet ==
  ASSUME NEW l, NEW F, Account(l, F), ~l.firing
  PROVE  F = {}
BY DEF Account, LoopFits

LEMMA NotGone == \A s \in Seq(Fn) : s # Gone
BY DeferredsAssumption DEF Fn

\* What add makes of a list.
LEMMA Grows ==
  ASSUME NEW l \in CallbackLists, l.list # Gone, NEW h \in Handlers, NEW g, g = PushedTo(l, h)
  PROVE  /\ g \in Seq(Fn) /\ g # Gone /\ Len(g) \in Nat /\ Len(l.list) <= Len(g)
         /\ g = l.list \/ g = Append(l.list, h)
         /\ "unique" \notin l.options => g = Append(l.list, h)
         /\ From(g, Len(l.list) + 1) \in Seq(Fn)
<1>1. l.list \in Seq(Fn) /\ Len(l.list) \in Nat /\ h \in Fn
  BY ListFields DEF Fn
<1>2. /\ g = l.list \/ g = Append(l.list, h)
      /\ "unique" \notin l.options => g = Append(l.list, h)
  BY DEF PushedTo
<1>3. Append(l.list, h) \in Seq(Fn) /\ Len(Append(l.list, h)) = Len(l.list) + 1
  BY <1>1, AppendProperties
<1>4. g \in Seq(Fn) /\ Len(l.list) <= Len(g)
  <2>1. CASE g = l.list
    BY <1>1, <2>1
  <2>2. CASE g = Append(l.list, h)
    BY <1>1, <1>3, <2>2
  <2> QED BY <1>2, <2>1, <2>2
<1>5. g # Gone /\ Len(g) \in Nat
  BY <1>4, NotGone, LenProperties
<1>6. From(g, Len(l.list) + 1) \in Seq(Fn)
  <2>1. Len(l.list) + 1 \in Nat /\ Len(l.list) + 1 >= 1
    BY <1>1
  <2> QED BY <1>4, <2>1, FromType
<1> QED BY <1>2, <1>4, <1>5, <1>6

LEMMA GrowsRest ==
  ASSUME NEW l \in CallbackLists, l.list # Gone, NEW h \in Handlers, NEW g, g = PushedTo(l, h),
         NEW k \in 1..(Len(l.list) + 1)
  PROVE  From(g, k) = From(l.list, k) \o From(g, Len(l.list) + 1)
<1>1. l.list \in Seq(Fn) /\ Len(l.list) \in Nat /\ h \in Fn /\ k \in Nat /\ k >= 1
  BY ListFields DEF Fn
<1>2. g = l.list \/ g = Append(l.list, h)
  BY Grows
<1>3. CASE g = l.list
  <2>1. Len(l.list) + 1 \in Nat /\ Len(l.list) + 1 > Len(l.list)
    BY <1>1
  <2>2. From(l.list, Len(l.list) + 1) = <<>>
    BY <1>1, <2>1, FromNone
  <2>3. From(l.list, k) \in Seq(Fn)
    BY <1>1, FromType
  <2>4. From(l.list, k) \o <<>> = From(l.list, k)
    BY <2>3, ConcatEmptySeq
  <2> QED BY <1>3, <2>2, <2>4
<1>4. CASE g = Append(l.list, h)
  <2>1. From(g, k) = From(l.list, k) \o <<h>>
    BY <1>1, <1>4, FromMore
  <2>2. From(g, Len(l.list) + 1) = <<h>>
    BY <1>1, <1>4, FromLast
  <2> QED BY <2>1, <2>2
<1> QED BY <1>2, <1>3, <1>4

\* add, with no loop begun by it.
Adds(l, F, h, g, m, e, G) ==
  /\ l.list # Gone /\ AllInside(F) /\ h \in Handlers /\ (l.firing \/ ~l.memory)
  /\ g = PushedTo(l, h)
  /\ m = IF l.firing THEN [l EXCEPT !.list = g, !.firingLength = Len(g)] ELSE [l EXCEPT !.list = g]
  /\ e = [f \in LoopFrames |-> [f EXCEPT !.due = @ \o From(g, Len(l.list) + 1)]]
  /\ G = {e[f] : f \in F}

LEMMA AccountAdd ==
  ASSUME NEW l, NEW F, Account(l, F), NEW h, NEW g, NEW m, NEW e, NEW G, Adds(l, F, h, g, m, e, G)
  PROVE  Owes(e) /\ Account(m, G)
<1> DEFINE d == From(g, Len(l.list) + 1)
<1>0. /\ l.list # Gone /\ AllInside(F) /\ h \in Handlers
      /\ g = PushedTo(l, h)
      /\ m = IF l.firing THEN [l EXCEPT !.list = g, !.firingLength = Len(g)] ELSE [l EXCEPT !.list = g]
      /\ e = [f \in LoopFrames |-> [f EXCEPT !.due = @ \o d]]
      /\ G = {e[f] : f \in F}
  BY DEF Adds
<1>1. l \in CallbackLists /\ F \subseteq LoopFrames
  BY DEF Account
<1>2. /\ g \in Seq(Fn) /\ g # Gone /\ Len(g) \in Nat /\ d \in Seq(Fn)
  BY <1>0, <1>1, Grows
<1>3. m \in CallbackLists /\ m.list = g /\ m.firing = l.firing /\ m.fired = l.fired /\ m.firingIndex = l.firingIndex
      /\ (m.firing => m.firingLength = Len(g))
  BY <1>0, <1>1, <1>2 DEF CallbackLists
<1> HIDE DEF d
<1>4. \A f \in LoopFrames : f.due \in Seq(Fn) /\ f.due \o d \in Seq(Fn)
  <2>1. ASSUME NEW f \in LoopFrames PROVE f.due \in Seq(Fn) /\ f.due \o d \in Seq(Fn)
    <3>1. f.due \in Seq(Fn)
      BY DEF LoopFrames
    <3> QED BY <1>2, <3>1, ConcatProperties
  <2> QED BY <2>1
<1>5. \A f \in LoopFrames : e[f] \in LoopFrames /\ e[f].name = f.name /\ e[f].at = f.at
                            /\ e[f].emptied = f.emptied /\ e[f].due = f.due \o d
  BY <1>0, <1>4 DEF LoopFrames
<1>6. Owes(e)
  BY <1>5 DEF Owes
<1>7. ASSUME NEW f \in F PROVE LoopFits(e[f], m)
  <2>1. f \in LoopFrames /\ f.at = "running" /\ LoopFits(f, l)
    BY <1>0, <1>1 DEF Account, AllInside
  <2>2. e[f].name = f.name /\ e[f].at = "running" /\ e[f].emptied = f.emptied /\ e[f].due = f.due \o d
    BY <1>5, <2>1
  <2>3. /\ l.firing /\ (f.emptied => f.name = "own") /\ Passed(f, l) \in Nat
        /\ ~f.emptied => f.due = From(l.list, Passed(f, l) + 1) /\ Passed(f, l) <= Len(l.list)
    BY <1>0, <2>1 DEF LoopFits
  <2>4. Passed(e[f], m) = Passed(f, l)
    BY <1>3, <2>1, <2>2 DEF Passed
  <2>5. ASSUME ~f.emptied PROVE e[f].due = From(g, Passed(f, l) + 1) /\ Passed(f, l) <= Len(g)
    <3>1. Len(l.list) \in Nat /\ Len(l.list) <= Len(g)
      BY <1>0, <1>1, ListFields, Grows
    <3>2. Passed(f, l) + 1 \in 1..(Len(l.list) + 1) /\ Passed(f, l) <= Len(g)
      BY <1>2, <2>3, <2>5, <3>1
    <3>3. From(g, Passed(f, l) + 1) = From(l.list, Passed(f, l) + 1) \o d
      BY <1>0, <1>1, <3>2, GrowsRest DEF d
    <3> QED BY <2>2, <2>3, <2>5, <3>2, <3>3
  <2> QED BY <1>2, <1>3, <2>2, <2>3, <2>4, <2>5 DEF LoopFits
<1>8. G \subseteq LoopFrames
  BY <1>0, <1>1, <1>5
<1>9. \A f \in G : LoopFits(f, m)
  BY <1>0, <1>7
<1>10. m.firing => m.fired
  BY <1>3 DEF Account
<1> QED BY <1>3, <1>6, <1>8, <1>9, <1>10 DEF Account

\* A firing begins: of a list whose loop has nothing behind it but what the
\* last firing of a list with a memory called.
ReadyLists ==
  [options : SUBSET Flags, list : Seq(Fn), stack : Nat \cup {Gone}, memory : BOOLEAN, firing : BOOLEAN,
   fired : BOOLEAN, firingIndex : Int, firingLength : Nat, firingStart : Nat]
Ready(b) == b \in ReadyLists /\ b.firingStart <= Len(b.list)
Begins(b, n, m, f) == Ready(b) /\ n \in ListNames /\ m = Firing(b) /\ f = Frame(n, b)

Begun(b, n, m, f) ==
  /\ Account(m, {f}) /\ f \in LoopFrames /\ f.name = n /\ f.at = "loop" /\ ~f.emptied
  /\ f.due = From(b.list, b.firingStart + 1)
  /\ m.list = b.list /\ m.options = b.options /\ m.stack = b.stack /\ m.firing /\ m.fired
  /\ (m.memory <=> "memory" \in b.options) /\ m.firingIndex = b.firingStart

LEMMA AccountFire ==
  ASSUME NEW b, NEW n, NEW m, NEW f, Begins(b, n, m, f)
  PROVE  Begun(b, n, m, f)
<1>0. Ready(b) /\ n \in ListNames /\ m = Firing(b) /\ f = Frame(n, b)
  BY DEF Begins
<1>1. b.list \in Seq(Fn) /\ b.firingStart \in Nat /\ b.firingStart <= Len(b.list) /\ Len(b.list) \in Nat
  <2>1. b.list \in Seq(Fn) /\ b.firingStart \in Nat /\ b.firingStart <= Len(b.list)
    BY <1>0 DEF Ready, ReadyLists
  <2> QED BY <2>1, LenProperties
<1>2. /\ m.list = b.list /\ m.options = b.options /\ m.stack = b.stack /\ m.firing /\ m.fired
      /\ (m.memory <=> "memory" \in b.options) /\ m.firingIndex = b.firingStart /\ m.firingLength = Len(b.list)
  BY <1>0 DEF Firing, Ready, ReadyLists
<1>3. m \in CallbackLists
  <2> DEFINE p == "memory" \in b.options
             k == Len(b.list)
  <2>1. m = [b EXCEPT !.memory = p, !.fired = TRUE, !.firing = TRUE, !.firingIndex = b.firingStart,
                      !.firingStart = 0, !.firingLength = k]
    BY <1>0 DEF Firing
  <2>2. p \in BOOLEAN /\ k \in Nat /\ b.firingStart \in Int
    BY <1>1
  <2> HIDE DEF p, k
  <2> QED BY <1>0, <2>1, <2>2 DEF Ready, ReadyLists, CallbackLists
<1>4. f.name = n /\ f.at = "loop" /\ f.emptied = FALSE /\ f.due = From(b.list, b.firingStart + 1)
  BY <1>0 DEF Frame, From
<1>5. From(b.list, b.firingStart + 1) \in Seq(Fn)
  <2>1. b.firingStart + 1 \in Nat /\ b.firingStart + 1 >= 1
    BY <1>1
  <2> QED BY <1>1, <2>1, FromType
<1>6. f \in LoopFrames
  BY <1>0, <1>5 DEF Frame, From, LoopFrames
<1>7. Passed(f, m) = b.firingStart
  BY <1>1, <1>2, <1>4 DEF Passed
<1>8. LoopFits(f, m)
  BY <1>1, <1>2, <1>4, <1>7, NotGone DEF LoopFits
<1>9. Account(m, {f})
  BY <1>2, <1>3, <1>6, <1>8 DEF Account
<1> QED BY <1>2, <1>4, <1>6, <1>9 DEF Begun

\* fire, while the list fires.
LEMMA AccountQueue ==
  ASSUME NEW l, NEW F, Account(l, F), l.stack # Gone, NEW m, m = [l EXCEPT !.stack = @ + 1]
  PROVE  Account(m, F)
<1>1. l \in CallbackLists /\ l.stack \in Nat
  BY ListFields DEF Account
<1>2. m \in CallbackLists
  BY <1>1 DEF CallbackLists
<1>3. /\ m.list = l.list /\ m.firing = l.firing /\ m.fired = l.fired /\ m.firingIndex = l.firingIndex
      /\ m.firingLength = l.firingLength
  BY <1>1 DEF CallbackLists
<1>4. \A f : Passed(f, m) = Passed(f, l)
  BY <1>3 DEF Passed
<1>5. \A f \in F : LoopFits(f, m)
  BY <1>3, <1>4 DEF Account, LoopFits
<1> QED BY <1>2, <1>3, <1>5 DEF Account

\* remove, of a list of handlers.
Removes(l, F, h, m, e, G) ==
  /\ l.list \in Seq(Handlers) /\ AllInside(F) /\ h \in Handlers /\ m = Removed(l, h)
  /\ e = [f \in LoopFrames |-> [f EXCEPT !.due = Only(@, Handlers \ {h})]]
  /\ G = {e[f] : f \in F}

LEMMA AccountRemove ==
  ASSUME NEW l, NEW F, Account(l, F), NEW h, NEW m, NEW e, NEW G, Removes(l, F, h, m, e, G)
  PROVE  Owes(e) /\ Account(m, G) /\ m.list \in Seq(Handlers)
<1> DEFINE S == Handlers \ {h}
           o == Only(l.list, S)
           gone == {i \in DOMAIN l.list : l.list[i] = h}
           called == {i \in gone : i - 1 <= l.firingIndex}
           n == Len(l.list)
           x == Cardinality(gone)
           c == Cardinality(called)
<1>r. /\ l.list \in Seq(Handlers) /\ AllInside(F) /\ h \in Handlers /\ m = Removed(l, h)
      /\ e = [f \in LoopFrames |-> [f EXCEPT !.due = Only(@, S)]]
      /\ G = {e[f] : f \in F}
  BY DEF Removes
<1>1. l \in CallbackLists /\ F \subseteq LoopFrames /\ l.firing \in BOOLEAN /\ l.firingIndex \in Int
  BY ListFields DEF Account
<1>2. n \in Nat /\ DOMAIN l.list = 1..n /\ \A i \in 1..n : l.list[i] \in Handlers
  BY <1>r, LenProperties, ElementOfSeq
<1>3. o \in Seq(Handlers) /\ Len(o) \in Nat
  BY <1>r, OnlyIn, LenProperties
<1>4. gone = TakenOut(l.list, S)
  BY <1>2 DEF TakenOut
<1>5. IsFiniteSet(gone) /\ Len(o) + x = n /\ x \in Nat
  <2> HIDE DEF S
  <2>1. IsFiniteSet(TakenOut(l.list, S)) /\ Len(Only(l.list, S)) + Cardinality(TakenOut(l.list, S)) = Len(l.list)
    BY <1>r, OnlyCounts
  <2>2. IsFiniteSet(gone) /\ Len(o) + x = n
    BY <1>4, <2>1, Zenon DEF o, x, n
  <2> QED BY <2>2, FS_CardinalityType
<1>6. c \in Nat
  <2>1. IsFiniteSet(called)
    BY <1>5, FS_Subset
  <2> QED BY <2>1, FS_CardinalityType
<1>7. m = [l EXCEPT !.list = o, !.firingLength = IF l.firing THEN @ - x ELSE @,
                    !.firingIndex = IF l.firing THEN @ - c ELSE @]
  BY <1>r DEF Removed
<1>0. l.list # Gone
  <2>1. Handlers \subseteq Fn
    BY DEF Fn
  <2>2. l.list \in Seq(Fn)
    BY <1>r, <2>1, SeqMonotonic
  <2> QED BY <2>2, NotGone
<1>8. l.firing => l.firingLength = n
  BY <1>0 DEF Account
<1>9. o \in Seq(Fn) /\ o # Gone
  <2>1. Handlers \subseteq Fn
    BY DEF Fn
  <2>2. o \in Seq(Fn)
    BY <1>3, <2>1, SeqMonotonic
  <2> QED BY <2>2, NotGone
<1> HIDE DEF o, x, c, n, gone, called
<1>10. /\ m \in CallbackLists /\ m.list = o /\ m.firing = l.firing /\ m.fired = l.fired
       /\ l.firing => m.firingIndex = l.firingIndex - c /\ m.firingLength = Len(o)
  <2> DEFINE fl == IF l.firing THEN l.firingLength - x ELSE l.firingLength
             fi == IF l.firing THEN l.firingIndex - c ELSE l.firingIndex
  <2>1. m = [l EXCEPT !.list = o, !.firingLength = fl, !.firingIndex = fi]
    BY <1>1, <1>7 DEF CallbackLists
  <2>2. fl \in Nat /\ fi \in Int
    BY <1>1, <1>2, <1>3, <1>5, <1>6, <1>8, ListFields
  <2>3. l.firing => fl = Len(o) /\ fi = l.firingIndex - c
    BY <1>2, <1>3, <1>5, <1>8
  <2> HIDE DEF fl, fi
  <2> QED BY <1>1, <1>9, <2>1, <2>2, <2>3 DEF CallbackLists
<1>11. \A f \in LoopFrames : f.due \in Seq(Fn) /\ Only(f.due, S) \in Seq(Fn)
  <2>1. ASSUME NEW f \in LoopFrames PROVE f.due \in Seq(Fn) /\ Only(f.due, S) \in Seq(Fn)
    <3>1. f.due \in Seq(Fn)
      BY DEF LoopFrames
    <3> QED BY <3>1, OnlyIn
  <2> QED BY <2>1
<1>12. \A f \in LoopFrames : e[f] \in LoopFrames /\ e[f].name = f.name /\ e[f].at = f.at
                             /\ e[f].emptied = f.emptied /\ e[f].due = Only(f.due, S)
  BY <1>r, <1>11 DEF LoopFrames
<1>13. Owes(e)
  BY <1>12 DEF Owes
<1>14. ASSUME NEW f \in F PROVE LoopFits(e[f], m)
  <2> DEFINE p == Passed(f, l)
  <2>1. f \in LoopFrames /\ f.at = "running" /\ LoopFits(f, l)
    BY <1>r, <1>1 DEF Account, AllInside
  <2>2. e[f].name = f.name /\ e[f].at = "running" /\ e[f].emptied = f.emptied /\ e[f].due = Only(f.due, S)
    BY <1>12, <2>1
  <2>3. /\ l.firing /\ (f.emptied => f.name = "own") /\ p \in Nat /\ p = l.firingIndex + 1
    BY <2>1 DEF LoopFits, Passed
  <2>4. Passed(e[f], m) = p - c
    <3>1. Passed(e[f], m) = (l.firingIndex - c) + 1
      BY <1>10, <2>2, <2>3 DEF Passed
    <3>2. (l.firingIndex - c) + 1 = p - c
      <4> HIDE DEF p
      <4> QED BY <1>1, <1>6, <2>3
    <3> QED BY <3>1, <3>2
  <2>5. called = {i \in TakenOut(l.list, S) : i <= p}
    <3>1. \A i \in Int : i - 1 <= l.firingIndex <=> i <= p
      BY <1>1, <2>3
    <3>2. gone \subseteq Int
      BY <1>2 DEF gone
    <3> HIDE DEF p
    <3> QED BY <1>4, <3>1, <3>2 DEF called
  <2>6. c = Cardinality({i \in TakenOut(l.list, S) : i <= p})
    BY <2>5 DEF c
  <2>7. CASE p <= n
    <3>1. p \in 0..Len(l.list)
      BY <1>2, <2>3, <2>7 DEF n
    <3> HIDE DEF p
    <3>2. c \in 0..p /\ p - c <= Len(o)
          /\ Only(SubSeq(l.list, p + 1, Len(l.list)), S) = SubSeq(o, p - c + 1, Len(o))
      BY <1>r, <2>6, <3>1, OnlyRest DEF o
    <3>3. Only(From(l.list, p + 1), S) = From(o, p - c + 1)
      BY <3>2 DEF From
    <3>4. p - c \in Nat
      BY <2>3, <3>2
    <3>5. ~f.emptied => f.due = From(l.list, p + 1)
      BY <1>0, <2>1 DEF LoopFits, p
    <3>6. ~f.emptied => e[f].due = From(o, p - c + 1)
      BY <2>2, <3>3, <3>5
    <3> QED BY <1>9, <1>10, <2>2, <2>3, <2>4, <3>2, <3>4, <3>6 DEF LoopFits
  <2>8. CASE ~(p <= n)
    <3>1. f.emptied
      BY <1>0, <2>1, <2>8 DEF LoopFits, n
    <3>2. p - c \in Nat
      <4>1. called = gone
        <5>1. \A i \in gone : i <= p
          BY <1>2, <2>3, <2>8 DEF gone
        <5> HIDE DEF p
        <5> QED BY <1>4, <2>5, <5>1
      <4>2. c = x
        BY <4>1 DEF c, x
      <4> HIDE DEF p
      <4> QED BY <1>2, <1>3, <1>5, <2>3, <2>8, <4>2
    <3> HIDE DEF p
    <3> QED BY <1>10, <2>2, <2>3, <2>4, <3>1, <3>2 DEF LoopFits
  <2> QED BY <2>7, <2>8
<1>15. G \subseteq LoopFrames /\ \A f \in G : LoopFits(f, m)
  BY <1>r, <1>1, <1>12, <1>14
<1>16. m.firing => m.fired
  BY <1>10 DEF Account
<1>17. m.firing /\ m.list # Gone => m.firingLength = Len(m.list)
  BY <1>10
<1> QED BY <1>3, <1>10, <1>13, <1>15, <1>16, <1>17 DEF Account

\* disable, of any list; a loop on it owes nothing any more.
Disables(l, F, m, e, G) ==
  m = Disabled(l) /\ e = [f \in LoopFrames |-> [f EXCEPT !.due = <<>>]] /\ G = {e[f] : f \in F}

LEMMA AccountDisable ==
  ASSUME NEW l, NEW F, Account(l, F), NEW m, NEW e, NEW G, Disables(l, F, m, e, G)
  PROVE  Owes(e) /\ Account(m, G)
<1>0. m = Disabled(l) /\ e = [f \in LoopFrames |-> [f EXCEPT !.due = <<>>]] /\ G = {e[f] : f \in F}
  BY DEF Disables
<1>1. l \in CallbackLists /\ F \subseteq LoopFrames
  BY DEF Account
<1>2. m \in CallbackLists /\ m.list = Gone /\ m.firing = l.firing /\ m.fired = l.fired /\ m.firingIndex = l.firingIndex
  BY <1>0, <1>1 DEF CallbackLists, Disabled
<1>3. <<>> \in Seq(Fn)
  BY EmptySeq
<1>4. \A f \in LoopFrames : e[f] \in LoopFrames /\ e[f].name = f.name /\ e[f].at = f.at
                            /\ e[f].emptied = f.emptied /\ e[f].due = <<>>
  BY <1>0, <1>3 DEF LoopFrames
<1>5. ASSUME NEW f \in F PROVE LoopFits(e[f], m)
  <2>1. f \in LoopFrames /\ LoopFits(f, l)
    BY <1>0, <1>1 DEF Account
  <2>2. e[f].name = f.name /\ e[f].at = f.at /\ e[f].emptied = f.emptied /\ e[f].due = <<>>
    BY <1>4, <2>1
  <2>3. Passed(e[f], m) = Passed(f, l)
    BY <1>2, <2>2 DEF Passed
  <2> QED BY <1>2, <2>1, <2>2, <2>3 DEF LoopFits
<1>6. G \subseteq LoopFrames /\ \A f \in G : LoopFits(f, m)
  BY <1>0, <1>1, <1>4, <1>5
<1> QED BY <1>2, <1>4, <1>6 DEF Owes, Account

\* lock, where something was fired and is remembered.
LEMMA AccountLock ==
  ASSUME NEW l, NEW F, Account(l, F), NEW m, m = [l EXCEPT !.stack = Gone]
  PROVE  Account(m, F)
<1>1. l \in CallbackLists
  BY DEF Account
<1>2. /\ m \in CallbackLists /\ m.list = l.list /\ m.firing = l.firing /\ m.fired = l.fired
      /\ m.firingIndex = l.firingIndex /\ m.firingLength = l.firingLength
  BY <1>1 DEF CallbackLists
<1>3. \A f : Passed(f, m) = Passed(f, l)
  BY <1>2 DEF Passed
<1>4. \A f \in F : LoopFits(f, m)
  BY <1>2, <1>3 DEF Account, LoopFits
<1> QED BY <1>2, <1>4 DEF Account

AllOwn(F) == \A f \in F : f.name = "own"
Empties(l, F, m, e, G) ==
  m = Emptied(l) /\ AllOwn(F) /\ e = [f \in LoopFrames |-> [f EXCEPT !.emptied = TRUE]] /\ G = {e[f] : f \in F}

LEMMA AccountEmpty ==
  ASSUME NEW l, NEW F, Account(l, F), NEW m, NEW e, NEW G, Empties(l, F, m, e, G)
  PROVE  Owes(e) /\ Account(m, G) /\ m.list = <<>>
<1>0. /\ m = Emptied(l) /\ (\A f \in F : f.name = "own") /\ e = [f \in LoopFrames |-> [f EXCEPT !.emptied = TRUE]]
      /\ G = {e[f] : f \in F}
  BY DEF Empties, AllOwn
<1>1. l \in CallbackLists /\ F \subseteq LoopFrames
  BY DEF Account
<1>2. <<>> \in Seq(Fn) /\ Len(<<>>) = 0
  BY EmptySeq
<1>3. m \in CallbackLists /\ m.list = <<>> /\ m.firing = l.firing /\ m.fired = l.fired
      /\ m.firingIndex = l.firingIndex /\ m.firingLength = 0
  BY <1>0, <1>1, <1>2 DEF CallbackLists, Emptied
<1>4. \A f \in LoopFrames : e[f] \in LoopFrames /\ e[f].name = f.name /\ e[f].at = f.at
                            /\ e[f].emptied = TRUE /\ e[f].due = f.due
  BY <1>0 DEF LoopFrames
<1>5. ASSUME NEW f \in F PROVE LoopFits(e[f], m)
  <2>1. f \in LoopFrames /\ LoopFits(f, l) /\ f.name = "own"
    BY <1>0, <1>1 DEF Account
  <2>2. e[f].name = f.name /\ e[f].at = f.at /\ e[f].emptied = TRUE
    BY <1>4, <2>1
  <2>3. Passed(e[f], m) = Passed(f, l)
    BY <1>3, <2>2 DEF Passed
  <2> QED BY <1>3, <2>1, <2>2, <2>3 DEF LoopFits
<1>6. G \subseteq LoopFrames /\ \A f \in G : LoopFits(f, m)
  BY <1>0, <1>1, <1>4, <1>5
<1>7. m.firing => m.fired
  BY <1>3 DEF Account
<1>8. m.firing /\ m.list # Gone => m.firingLength = Len(m.list)
  BY <1>2, <1>3
<1> QED BY <1>3, <1>4, <1>6, <1>7, <1>8 DEF Owes, Account

\* The loop takes its next callback, which the list still has; its own function
\* runs to its end, a handler may call the methods before it returns.
Takes(l, f) == Account(l, {f}) /\ f.at = "loop" /\ l.list # Gone /\ l.firingIndex < l.firingLength

LEMMA AccountCall ==
  ASSUME NEW l, NEW f, Takes(l, f), NEW k, k = l.firingIndex + 1, NEW d, d = Owed(f.due)
  PROVE  /\ k \in 1..Len(l.list) /\ l.list[k] \in Fn /\ d \in Seq(Fn)
         /\ ~f.emptied => f.due # <<>> /\ f.due = From(l.list, k) /\ l.list[k] = Head(f.due) /\ d = Tail(f.due)
                          /\ d = From(l.list, k + 1)
<1>0. Account(l, {f}) /\ f.at = "loop" /\ l.list # Gone /\ l.firingIndex < l.firingLength
  BY DEF Takes
<1>1. l \in CallbackLists /\ f \in LoopFrames /\ LoopFits(f, l)
  BY <1>0 DEF Account
<1>2. l.list \in Seq(Fn) /\ Len(l.list) \in Nat /\ l.firingIndex \in Int /\ l.firing /\ f.due \in Seq(Fn)
  <2>1. l.firing /\ f.due \in Seq(Fn)
    BY <1>1 DEF LoopFits, LoopFrames
  <2> QED BY <1>0, <1>1, <2>1, ListFields
<1>3. l.firingLength = Len(l.list)
  BY <1>0, <1>2 DEF Account
<1>4. Passed(f, l) = l.firingIndex
  BY <1>0, <1>2 DEF Passed
<1>5. l.firingIndex \in Nat
  BY <1>0, <1>1, <1>4 DEF LoopFits
<1>6. k \in 1..Len(l.list)
  BY <1>0, <1>2, <1>3, <1>5
<1>7. l.list[k] \in Fn /\ From(l.list, k) # <<>> /\ Head(From(l.list, k)) = l.list[k]
      /\ Tail(From(l.list, k)) = From(l.list, k + 1)
  BY <1>2, <1>6, FromNext
<1>8. ~f.emptied => f.due = From(l.list, k)
  BY <1>0, <1>1, <1>4 DEF LoopFits
<1>9. d \in Seq(Fn)
  BY <1>2, HeadTailProperties DEF Owed
<1> QED BY <1>6, <1>7, <1>8, <1>9 DEF Owed

TakesHandler(l, f, g) == Takes(l, f) /\ g = [f EXCEPT !.at = "running", !.due = Owed(@)]
Taken(l, f, g) == Account(l, {g}) /\ g.name = f.name /\ g.at = "running" /\ g.emptied = f.emptied /\ g.due = Owed(f.due)

LEMMA AccountRun ==
  ASSUME NEW l, NEW f, NEW g, TakesHandler(l, f, g)
  PROVE  Taken(l, f, g)
<1> DEFINE d == Owed(f.due)
           k == l.firingIndex + 1
<1>0. Account(l, {f}) /\ f.at = "loop" /\ l.list # Gone /\ l.firingIndex < l.firingLength
      /\ Takes(l, f) /\ g = [f EXCEPT !.at = "running", !.due = Owed(@)]
  BY DEF Takes, TakesHandler
<1>1. l \in CallbackLists /\ f \in LoopFrames /\ LoopFits(f, l)
  BY <1>0 DEF Account
<1>2. k \in 1..Len(l.list) /\ d \in Seq(Fn) /\ (~f.emptied => d = From(l.list, k + 1))
  <2>1. k = l.firingIndex + 1 /\ d = Owed(f.due)
    OBVIOUS
  <2> HIDE DEF k, d
  <2> QED BY <1>0, <2>1, AccountCall
<1>3. g = [f EXCEPT !.at = "running", !.due = d]
  BY <1>0, <1>1 DEF LoopFrames
<1> HIDE DEF d
<1>4. g \in LoopFrames /\ g.name = f.name /\ g.at = "running" /\ g.emptied = f.emptied /\ g.due = d
  BY <1>0, <1>1, <1>2, <1>3 DEF LoopFrames
<1>5. Passed(g, l) = k
  BY <1>4 DEF Passed
<1>6. l.list \in Seq(Fn) /\ Len(l.list) \in Nat
  BY <1>0, <1>1, ListFields
<1> HIDE DEF k
<1>7. k \in Nat /\ k <= Len(l.list)
  BY <1>2, <1>6
<1>8. LoopFits(g, l)
  BY <1>0, <1>1, <1>2, <1>4, <1>5, <1>7 DEF LoopFits
<1> QED BY <1>0, <1>4, <1>8 DEF Account, Taken, d

\* The deferred's own function goes by without a step of its own.
LEMMA AccountSettle ==
  ASSUME NEW l, NEW f, Takes(l, f), ~f.emptied,
         NEW g, g = [f EXCEPT !.due = Owed(@)], NEW m, m = [l EXCEPT !.firingIndex = @ + 1]
  PROVE  Account(m, {g}) /\ g.name = f.name /\ g.at = "loop" /\ ~g.emptied /\ g.due = Owed(f.due)
<1> DEFINE d == Owed(f.due)
           k == l.firingIndex + 1
<1>0. Account(l, {f}) /\ f.at = "loop" /\ l.list # Gone /\ l.firingIndex < l.firingLength
  BY DEF Takes
<1>1. l \in CallbackLists /\ f \in LoopFrames /\ LoopFits(f, l)
  BY <1>0 DEF Account
<1>2. k \in 1..Len(l.list) /\ d \in Seq(Fn) /\ d = From(l.list, k + 1)
  <2>1. k = l.firingIndex + 1 /\ d = Owed(f.due)
    OBVIOUS
  <2> HIDE DEF k, d
  <2> QED BY <2>1, AccountCall
<1>3. g = [f EXCEPT !.due = d]
  BY <1>1 DEF LoopFrames
<1> HIDE DEF d
<1>4. g \in LoopFrames /\ g.name = f.name /\ g.at = "loop" /\ ~g.emptied /\ g.due = d
  BY <1>0, <1>1, <1>2, <1>3 DEF LoopFrames
<1>5. l.list \in Seq(Fn) /\ Len(l.list) \in Nat /\ l.firingIndex \in Int
  BY <1>0, <1>1, ListFields
<1>6. m \in CallbackLists /\ m.list = l.list /\ m.firing = l.firing /\ m.fired = l.fired
      /\ m.firingLength = l.firingLength /\ m.firingIndex = k
  BY <1>1, <1>5 DEF CallbackLists
<1>7. Passed(g, m) = k /\ k \in Nat
  BY <1>2, <1>4, <1>6 DEF Passed
<1> HIDE DEF k
<1>8. LoopFits(g, m)
  BY <1>0, <1>1, <1>2, <1>4, <1>6, <1>7 DEF LoopFits
<1> QED BY <1>0, <1>4, <1>6, <1>8 DEF Account, d

\* A handler returns.
Returns(l, f, m, g) == f.at = "running" /\ m = [l EXCEPT !.firingIndex = @ + 1] /\ g = [f EXCEPT !.at = "loop"]
Returned(m, f, g) == Account(m, {g}) /\ g.name = f.name /\ g.at = "loop" /\ g.emptied = f.emptied /\ g.due = f.due

LEMMA AccountReturn ==
  ASSUME NEW l, NEW f, Account(l, {f}), NEW m, NEW g, Returns(l, f, m, g)
  PROVE  Returned(m, f, g)
<1>0. f.at = "running" /\ m = [l EXCEPT !.firingIndex = @ + 1] /\ g = [f EXCEPT !.at = "loop"]
  BY DEF Returns
<1>1. l \in CallbackLists /\ f \in LoopFrames /\ LoopFits(f, l)
  BY DEF Account
<1>2. l.firingIndex \in Int
  BY <1>1, ListFields
<1>3. m \in CallbackLists /\ m.list = l.list /\ m.firing = l.firing /\ m.fired = l.fired
      /\ m.firingLength = l.firingLength /\ m.firingIndex = l.firingIndex + 1
  BY <1>0, <1>1, <1>2 DEF CallbackLists
<1>4. g \in LoopFrames /\ g.name = f.name /\ g.at = "loop" /\ g.emptied = f.emptied /\ g.due = f.due
  BY <1>0, <1>1 DEF LoopFrames
<1>5. Passed(g, m) = Passed(f, l)
  BY <1>0, <1>2, <1>3, <1>4 DEF Passed
<1>6. LoopFits(g, m)
  BY <1>0, <1>1, <1>3, <1>4, <1>5 DEF LoopFits
<1> QED BY <1>3, <1>4, <1>6 DEF Account, Returned

Stops(l, f, m, g) == m = [l EXCEPT !.memory = FALSE] /\ g = [f EXCEPT !.at = "end"]

LEMMA AccountStop ==
  ASSUME NEW l, NEW f, Account(l, {f}), NEW m, NEW g, Stops(l, f, m, g)
  PROVE  Account(m, {g}) /\ g.name = f.name
<1>0. m = [l EXCEPT !.memory = FALSE] /\ g = [f EXCEPT !.at = "end"]
  BY DEF Stops
<1>1. l \in CallbackLists /\ f \in LoopFrames /\ LoopFits(f, l)
  BY DEF Account
<1>2. m \in CallbackLists /\ m.list = l.list /\ m.firing = l.firing /\ m.fired = l.fired
      /\ m.firingLength = l.firingLength
  BY <1>0, <1>1 DEF CallbackLists
<1>3. g \in LoopFrames /\ g.name = f.name /\ g.at = "end" /\ g.emptied = f.emptied
  BY <1>0, <1>1 DEF LoopFrames
<1>4. LoopFits(g, m)
  BY <1>1, <1>2, <1>3 DEF LoopFits
<1> QED BY <1>2, <1>3, <1>4 DEF Account

\* The end of a firing: the list fires again, for a fire that came meanwhile, is
\* as it was, is emptied, or is disabled.
Again(l) == l.list # Gone /\ l.stack # Gone /\ l.stack # 0

EndsLoop(l, m) ==
  /\ l.list = Gone \/ l.stack = 0 => m = l
  /\ Again(l) => m = Firing([l EXCEPT !.stack = @ - 1])
  /\ l.list # Gone /\ l.stack # 0 /\ ~Again(l) /\ l.memory => m = [l EXCEPT !.list = <<>>]
  /\ l.list # Gone /\ l.stack # 0 /\ ~Again(l) /\ ~l.memory => m = Disabled(l)

FinishesLoop(p, n, l, m, g) == n \in ListNames /\ l = [p EXCEPT !.firing = FALSE] /\ EndsLoop(l, m) /\ g = Frame(n, l)
Finished(p, n, l, m, g) ==
  /\ m.options = p.options /\ m.list \in {p.list, <<>>, Gone}
  /\ Again(l) => /\ Account(m, {g}) /\ g \in LoopFrames /\ g.name = n /\ g.at = "loop" /\ ~g.emptied
                 /\ m.firing /\ (m.memory <=> "memory" \in p.options)
  /\ ~Again(l) => Account(m, {}) /\ ~m.firing
  /\ p.list # Gone /\ p.stack = Gone /\ p.memory =>
       ~Again(l) /\ m.list = <<>> /\ m.stack = Gone /\ m.memory /\ m.fired = p.fired

LEMMA AccountEnd ==
  ASSUME NEW p, NEW f, Account(p, {f}), NEW n, NEW l, NEW m, NEW g, FinishesLoop(p, n, l, m, g)
  PROVE  Finished(p, n, l, m, g)
<1>0. n \in ListNames /\ l = [p EXCEPT !.firing = FALSE] /\ EndsLoop(l, m) /\ g = Frame(n, l)
  BY DEF FinishesLoop
<1>1. p \in CallbackLists
  BY DEF Account
<1>2. /\ l \in CallbackLists /\ l.list = p.list /\ l.options = p.options /\ l.stack = p.stack /\ l.memory = p.memory
      /\ l.fired = p.fired /\ l.firing = FALSE
  BY <1>0, <1>1 DEF CallbackLists
<1>3. <<>> \in Seq(Fn) /\ Gone # 0
  BY EmptySeq, DeferredsAssumption
<1>4. CASE l.list = Gone \/ l.stack = 0
  <2>1. m = l /\ ~Again(l)
    BY <1>0, <1>3, <1>4 DEF EndsLoop, Again
  <2>2. Account(m, {})
    BY <1>2, <2>1 DEF Account
  <2> QED BY <1>2, <1>3, <1>4, <2>1, <2>2 DEF Finished
<1>5. CASE Again(l)
  <2> DEFINE b == [l EXCEPT !.stack = @ - 1]
  <2>1. l.list \in Seq(Fn) /\ l.list # Gone /\ l.stack \in Nat /\ l.stack # 0 /\ l.firingStart = 0 /\ Len(l.list) \in Nat
    <3>1. l.list # Gone /\ l.stack # Gone /\ l.stack # 0
      BY <1>5 DEF Again
    <3> QED BY <1>2, <3>1, ListFields
  <2>2. m = Firing(b)
    BY <1>0, <1>5 DEF EndsLoop
  <2>3. l.stack - 1 \in Nat
    BY <2>1
  <2>4. b.list = l.list /\ b.firingStart = 0 /\ b.options = l.options
    BY <1>2, <2>1 DEF CallbackLists
  <2>5. Ready(b)
    <3>1. b \in ReadyLists
      <4> DEFINE k == l.stack - 1
      <4>1. b = [l EXCEPT !.stack = k]
        BY <1>2 DEF CallbackLists
      <4>2. k \in Nat /\ l \in ReadyLists
        BY <1>2, <2>1, <2>3 DEF CallbackLists, ReadyLists
      <4> HIDE DEF k, b
      <4> QED BY <4>1, <4>2 DEF ReadyLists
    <3> QED BY <2>1, <2>4, <3>1 DEF Ready
  <2>6. g = Frame(n, b)
    BY <1>0, <2>4 DEF Frame
  <2> HIDE DEF b
  <2>7. /\ Account(m, {g}) /\ g \in LoopFrames /\ g.name = n /\ g.at = "loop" /\ ~g.emptied
        /\ m.list = b.list /\ m.options = b.options /\ m.firing /\ (m.memory <=> "memory" \in b.options)
    <3>1. Begins(b, n, m, g)
      BY <1>0, <2>2, <2>5, <2>6 DEF Begins
    <3>2. Begun(b, n, m, g)
      BY <3>1, AccountFire
    <3> QED BY <3>2 DEF Begun
  <2>8. ~(p.stack = Gone)
    BY <1>2, <1>5 DEF Again
  <2>9. m.options = p.options /\ m.list = p.list /\ (m.memory <=> "memory" \in p.options)
    BY <1>2, <2>4, <2>7
  <2> QED BY <1>5, <2>7, <2>8, <2>9 DEF Finished
<1>6. CASE l.list # Gone /\ l.stack # 0 /\ ~Again(l) /\ l.memory
  <2>1. m = [l EXCEPT !.list = <<>>]
    BY <1>0, <1>6 DEF EndsLoop
  <2>2. /\ m \in CallbackLists /\ m.list = <<>> /\ m.options = l.options /\ m.stack = l.stack /\ m.memory = l.memory
        /\ m.fired = l.fired /\ m.firing = FALSE
    BY <1>2, <1>3, <2>1 DEF CallbackLists
  <2>3. Account(m, {})
    BY <2>2 DEF Account
  <2> QED BY <1>2, <1>6, <2>2, <2>3 DEF Finished
<1>7. CASE l.list # Gone /\ l.stack # 0 /\ ~Again(l) /\ ~l.memory
  <2>1. m = Disabled(l)
    BY <1>0, <1>7 DEF EndsLoop
  <2>2. m \in CallbackLists /\ m.list = Gone /\ m.options = l.options /\ m.firing = FALSE
    BY <1>2, <2>1 DEF CallbackLists, Disabled
  <2>3. Account(m, {})
    BY <2>2 DEF Account
  <2> QED BY <1>2, <1>7, <2>2, <2>3 DEF Finished
<1>8. l.memory \in BOOLEAN
  BY <1>2, ListFields
<1> QED BY <1>4, <1>5, <1>6, <1>7, <1>8

-----------------------------------------------------------------------------
(* A deferred's list for one outcome, its loop F, what was added and called:   *)
(* before it is settled, when the other is, as it begins, as it goes on, when  *)
(* it is done, and when a handler has thrown.                                  *)

Undisturbed(n, l, F, st, a, c) ==
  l.list = <<"settle">> \o a /\ c = <<>> /\ st = "pending" /\ ~l.fired /\ ~l.firing /\ ~l.memory /\ F = {}
Lost(n, l, F, st, c) == l.list = Gone /\ ~l.firing /\ c = <<>> /\ st = Final[Other[n]] /\ F = {}
Settling(n, l, F, st, a, c) ==
  /\ l.list = <<"settle">> \o a /\ c = <<>> /\ st = "pending" /\ l.memory /\ l.firing /\ l.firingIndex = 0
  /\ \E f \in F : F = {f} /\ f.at = "loop" /\ ~f.emptied
Paying(n, l, F, st, a, c) ==
  /\ st = Final[n] /\ l.firing /\ l.memory /\ l.list # Gone
  /\ \E f \in F : F = {f} /\ f.at # "end" /\ ~f.emptied /\ f.due \in Seq(Handlers) /\ a = c \o f.due
Paid(n, l, F, st, a, c) ==
  st = Final[n] /\ ~l.firing /\ l.fired /\ l.memory /\ l.list = <<>> /\ a = c /\ F = {}
Broken(n, l, F, st) == st = Final[n] /\ l.firing /\ l.list # Gone /\ F = {}

Promise(n, l, F, st, a, c, K) ==
  /\ l.options = {"once", "memory"} /\ l.stack = Gone
  /\ \/ n \notin K /\ (\/ Undisturbed(n, l, F, st, a, c) \/ Lost(n, l, F, st, c) \/ Settling(n, l, F, st, a, c)
                       \/ Paying(n, l, F, st, a, c) \/ Paid(n, l, F, st, a, c))
     \/ n \in K /\ Broken(n, l, F, st)

HandlersOf(a, c) == a \in Seq(Handlers) /\ c \in Seq(Handlers)

\* The list of a deferred with one more handler.
LEMMA PromisedMore ==
  ASSUME NEW a \in Seq(Handlers), NEW h \in Handlers
  PROVE  Append(<<"settle">> \o a, h) = <<"settle">> \o Append(a, h)
<1> DEFINE s == <<"settle">>
           x == <<h>>
<1>1. s \in Seq(Fn) /\ x \in Seq(Fn) /\ h \in Fn /\ x \in Seq(Handlers)
  BY DEF Fn
<1>2. a \in Seq(Fn)
  <2>1. Handlers \subseteq Fn
    BY DEF Fn
  <2> QED BY <2>1, SeqMonotonic
<1>3. Append(a, h) = a \o x
  BY AppendIsConcat
<1> HIDE DEF s
<1>4. s \o a \in Seq(Fn)
  BY <1>1, <1>2, ConcatProperties
<1>5. Append(s \o a, h) = (s \o a) \o x
  BY <1>1, <1>4, AppendIsConcat
<1> HIDE DEF x
<1>6. (s \o a) \o x = s \o (a \o x)
  BY <1>1, <1>2, ConcatAssociative
<1>7. Append(s \o a, h) = s \o Append(a, h)
  BY <1>3, <1>5, <1>6
<1> QED BY <1>7 DEF s

LEMMA AddedMore ==
  ASSUME NEW c \in Seq(Handlers), NEW d \in Seq(Handlers), NEW h \in Handlers
  PROVE  d \o <<h>> \in Seq(Handlers) /\ Append(c \o d, h) = c \o (d \o <<h>>)
<1> DEFINE x == <<h>>
           a == c \o d
<1>1. x \in Seq(Handlers) /\ a \in Seq(Handlers)
  BY ConcatProperties
<1>2. Append(a, h) = a \o x
  BY <1>1, AppendIsConcat
<1> HIDE DEF x, a
<1>3. (c \o d) \o x = c \o (d \o x) /\ d \o x \in Seq(Handlers)
  BY <1>1, ConcatAssociative, ConcatProperties
<1> QED BY <1>2, <1>3 DEF x, a

LEMMA CalledMore ==
  ASSUME NEW c \in Seq(Handlers), NEW d \in Seq(Handlers), d # <<>>
  PROVE  /\ Head(d) \in Handlers /\ Tail(d) \in Seq(Handlers) /\ Append(c, Head(d)) \in Seq(Handlers)
         /\ c \o d = Append(c, Head(d)) \o Tail(d)
<1> DEFINE h == Head(d)
           t == Tail(d)
           x == <<h>>
<1>1. h \in Handlers /\ t \in Seq(Handlers)
  BY HeadTailProperties
<1>2. x \in Seq(Handlers) /\ d = x \o t
  OBVIOUS
<1>3. Append(c, h) = c \o x /\ Append(c, h) \in Seq(Handlers)
  BY <1>1, AppendIsConcat, AppendProperties
<1> HIDE DEF h, t, x
<1>4. (c \o x) \o t = c \o (x \o t)
  BY <1>1, <1>2, ConcatAssociative
<1>5. c \o d = Append(c, h) \o t
  BY <1>2, <1>3, <1>4, Zenon
<1> QED BY <1>1, <1>3, <1>5 DEF h, t

ListFits(n, l, F, st, a, c, K) ==
  /\ Account(l, F)
  /\ \A f \in F : f.name = n
  /\ n \in {"own", "progress"} => l.list \in Seq(Handlers) \cup {Gone}
  /\ n = "progress" => l.options = {"memory"} /\ (l.firing => l.memory)
  /\ n \in {"done", "fail"} => HandlersOf(a, c) /\ Promise(n, l, F, st, a, c, K)

LEMMA HandlersAre == \A s \in Seq(Handlers) : s \in Seq(Fn) /\ s # Gone
<1>1. Handlers \subseteq Fn
  BY DEF Fn
<1>2. \A s \in Seq(Handlers) : s \in Seq(Fn)
  BY <1>1, SeqMonotonic
<1> QED BY <1>2, NotGone

\* add to a list that is no list any more.
LEMMA StepAddNothing ==
  ASSUME NEW n \in ListNames, NEW l, NEW F, NEW st, NEW a, NEW c, NEW K, ListFits(n, l, F, st, a, c, K), l.list = Gone,
         NEW h \in Handlers
  PROVE  ListFits(n, l, F, st, Append(a, h), c, K)
<1>1. l \in CallbackLists
  BY DEF ListFits, Account
<1>2. ASSUME n \in {"done", "fail"} PROVE HandlersOf(Append(a, h), c) /\ Promise(n, l, F, st, Append(a, h), c, K)
  <2>1. HandlersOf(a, c) /\ Promise(n, l, F, st, a, c, K)
    BY <1>2 DEF ListFits
  <2>2. HandlersOf(Append(a, h), c)
    BY <2>1, AppendProperties DEF HandlersOf
  <2>3. <<"settle">> \o a # Gone /\ <<>> # Gone
    <3>1. <<"settle">> \in Seq(Fn) /\ a \in Seq(Fn) /\ <<>> \in Seq(Fn)
      BY <2>1, HandlersAre, EmptySeq DEF Fn, HandlersOf
    <3>2. <<"settle">> \o a \in Seq(Fn)
      BY <3>1, ConcatProperties
    <3> QED BY <3>1, <3>2, NotGone
  <2>4. n \notin K /\ Lost(n, l, F, st, c)
    BY <2>1, <2>3 DEF Promise, Undisturbed, Settling, Paying, Paid, Broken
  <2> QED BY <2>1, <2>2, <2>4 DEF Promise
<1> QED BY <1>2 DEF ListFits

LEMMA StepAdd ==
  ASSUME NEW n \in ListNames, NEW l, NEW F, NEW st, NEW a, NEW c, NEW K, ListFits(n, l, F, st, a, c, K),
         NEW h, NEW g, NEW m, NEW e, NEW G, Adds(l, F, h, g, m, e, G)
  PROVE  Owes(e) /\ ListFits(n, m, G, st, Append(a, h), c, K)
<1> DEFINE d == From(g, Len(l.list) + 1)
           b == Append(a, h)
<1>0. /\ l.list # Gone /\ AllInside(F) /\ h \in Handlers /\ (l.firing \/ ~l.memory)
      /\ g = PushedTo(l, h)
      /\ m = IF l.firing THEN [l EXCEPT !.list = g, !.firingLength = Len(g)] ELSE [l EXCEPT !.list = g]
      /\ e = [f \in LoopFrames |-> [f EXCEPT !.due = @ \o d]]
      /\ G = {e[f] : f \in F}
  BY DEF Adds
<1>1. Account(l, F) /\ l \in CallbackLists /\ F \subseteq LoopFrames
  BY DEF ListFits, Account
<1>2. Owes(e) /\ Account(m, G)
  BY <1>1, AccountAdd
<1>3. g \in Seq(Fn) /\ g # Gone /\ (g = l.list \/ g = Append(l.list, h)) /\ ("unique" \notin l.options => g = Append(l.list, h))
  BY <1>0, <1>1, Grows
<1>4. /\ m.list = g /\ m.firing = l.firing /\ m.fired = l.fired /\ m.memory = l.memory /\ m.options = l.options
      /\ m.stack = l.stack /\ m.firingIndex = l.firingIndex
  BY <1>0, <1>1 DEF CallbackLists
<1>5. \A f \in G : f.name = n
  BY <1>0, <1>1, <1>2 DEF ListFits, Owes
<1>6. n \in {"own", "progress"} => m.list \in Seq(Handlers) \cup {Gone}
  <2> SUFFICES ASSUME n \in {"own", "progress"} PROVE g \in Seq(Handlers)
    BY <1>4
  <2>1. l.list \in Seq(Handlers)
    BY <1>0 DEF ListFits
  <2>2. Append(l.list, h) \in Seq(Handlers)
    BY <1>0, <2>1, AppendProperties
  <2> QED BY <1>3, <2>1, <2>2
<1>7. n = "progress" => m.options = {"memory"} /\ (m.firing => m.memory)
  BY <1>4 DEF ListFits
<1>8. ASSUME n \in {"done", "fail"} PROVE HandlersOf(b, c) /\ Promise(n, m, G, st, b, c, K)
  <2>1. HandlersOf(a, c) /\ Promise(n, l, F, st, a, c, K) /\ a \in Seq(Handlers) /\ c \in Seq(Handlers)
    BY <1>8 DEF ListFits, HandlersOf
  <2>2. HandlersOf(b, c)
    BY <1>0, <2>1, AppendProperties DEF HandlersOf
  <2>3. l.options = {"once", "memory"} /\ l.stack = Gone
    BY <2>1 DEF Promise
  <2>4. g = Append(l.list, h)
    BY <1>3, <2>3
  <2>5. CASE n \notin K /\ Undisturbed(n, l, F, st, a, c)
    <3>1. m.list = <<"settle">> \o b
      BY <1>0, <1>4, <2>1, <2>4, <2>5, PromisedMore DEF Undisturbed
    <3>2. F = {} /\ G = {}
      BY <1>0, <2>5 DEF Undisturbed
    <3>3. Undisturbed(n, m, G, st, b, c)
      BY <1>4, <2>5, <3>1, <3>2 DEF Undisturbed
    <3> QED BY <1>4, <2>2, <2>3, <2>5, <3>3 DEF Promise
  <2>6. CASE n \notin K /\ Paying(n, l, F, st, a, c)
    <3>1. PICK f \in F : F = {f} /\ f.at # "end" /\ ~f.emptied /\ f.due \in Seq(Handlers) /\ a = c \o f.due
      BY <2>6 DEF Paying
    <3>2. d = <<h>>
      <4>1. l.list \in Seq(Fn) /\ h \in Fn
        BY <1>0, <1>1, ListFields DEF Fn
      <4> QED BY <2>4, <4>1, FromLast
    <3> DEFINE z == e[f]
    <3>3. f \in LoopFrames
      BY <1>1
    <3>4. z.due = f.due \o d /\ z.at = f.at /\ z.emptied = f.emptied
      BY <1>0, <3>3 DEF LoopFrames
    <3>5. f.due \o <<h>> \in Seq(Handlers) /\ b = c \o (f.due \o <<h>>)
      <4> DEFINE u == f.due
      <4>1. u \in Seq(Handlers) /\ a = c \o u
        BY <3>1
      <4> HIDE DEF u
      <4>2. u \o <<h>> \in Seq(Handlers) /\ Append(a, h) = c \o (u \o <<h>>)
        <5>1. h \in Handlers /\ c \in Seq(Handlers)
          BY <1>0, <2>1
        <5>2. u \o <<h>> \in Seq(Handlers)
          BY <4>1, <5>1, AddedMore, Zenon
        <5>3. Append(c \o u, h) = c \o (u \o <<h>>)
          BY <4>1, <5>1, AddedMore, Zenon
        <5> QED BY <4>1, <5>2, <5>3
      <4> QED BY <4>2 DEF u
    <3>6. G = {z}
      BY <1>0, <3>1
    <3> HIDE DEF z, d
    <3>7. z \in G /\ G = {z} /\ z.at # "end" /\ ~z.emptied /\ z.due \in Seq(Handlers) /\ b = c \o z.due
      BY <3>1, <3>2, <3>4, <3>5, <3>6
    <3>8. Paying(n, m, G, st, b, c)
      BY <1>3, <1>4, <2>6, <3>7 DEF Paying
    <3> QED BY <1>4, <2>2, <2>3, <2>6, <3>8 DEF Promise
  <2>7. CASE n \in K /\ Broken(n, l, F, st)
    <3>1. Broken(n, m, G, st)
      BY <1>0, <1>3, <1>4, <2>7 DEF Broken
    <3> QED BY <1>4, <2>2, <2>3, <2>7, <3>1 DEF Promise
  <2>8. ~Lost(n, l, F, st, c)
    BY <1>0 DEF Lost
  <2>9. ~Settling(n, l, F, st, a, c)
    BY <1>0 DEF Settling, AllInside
  <2>10. ~Paid(n, l, F, st, a, c)
    BY <1>0 DEF Paid
  <2> QED BY <2>1, <2>5, <2>6, <2>7, <2>8, <2>9, <2>10 DEF Promise
<1> HIDE DEF b
<1>9. ListFits(n, m, G, st, b, c, K)
  BY <1>2, <1>5, <1>6, <1>7, <1>8 DEF ListFits
<1> QED BY <1>2, <1>9 DEF b

\* add, that begins a loop: the list remembers its last firing.
AddBegins(n, l, h, g, b, m, f) ==
  /\ l.list # Gone /\ ~l.firing /\ l.memory /\ h \in Handlers /\ g = PushedTo(l, h)
  /\ b = [l EXCEPT !.list = g, !.firingStart = Len(l.list)]
  /\ m = Firing(b) /\ f = Frame(n, b)

LEMMA StepAddBegins ==
  ASSUME NEW n \in ListNames, NEW l, NEW F, NEW st, NEW a, NEW c, NEW K, ListFits(n, l, F, st, a, c, K),
         NEW h, NEW g, NEW b, NEW m, NEW f, AddBegins(n, l, h, g, b, m, f)
  PROVE  /\ F = {} /\ f \in LoopFrames /\ f.name = n /\ f.at = "loop"
         /\ ListFits(n, m, {f}, st, Append(a, h), c, K)
<1> DEFINE ah == Append(a, h)
<1>0. /\ l.list # Gone /\ ~l.firing /\ l.memory /\ h \in Handlers /\ g = PushedTo(l, h)
      /\ b = [l EXCEPT !.list = g, !.firingStart = Len(l.list)]
      /\ m = Firing(b) /\ f = Frame(n, b)
  BY DEF AddBegins
<1>1. Account(l, F) /\ l \in CallbackLists
  BY DEF ListFits, Account
<1>2. F = {}
  BY <1>0, <1>1, Quiet
<1>3. /\ g \in Seq(Fn) /\ g # Gone /\ (g = l.list \/ g = Append(l.list, h))
      /\ ("unique" \notin l.options => g = Append(l.list, h)) /\ Len(l.list) <= Len(g)
  BY <1>0, <1>1, Grows
<1>4. Len(l.list) \in Nat
  BY <1>0, <1>1, ListFields
<1>5. b \in ReadyLists /\ b.list = g /\ b.options = l.options /\ b.firingStart = Len(l.list) /\ b.stack = l.stack
  BY <1>0, <1>1, <1>3, <1>4 DEF CallbackLists, ReadyLists
<1>6. Begins(b, n, m, f)
  BY <1>0, <1>3, <1>5 DEF Begins, Ready
<1>7. Begun(b, n, m, f)
  BY <1>6, AccountFire
<1>8. n \in {"own", "progress"} => m.list \in Seq(Handlers) \cup {Gone}
  <2> SUFFICES ASSUME n \in {"own", "progress"} PROVE g \in Seq(Handlers)
    BY <1>5, <1>7 DEF Begun
  <2>1. l.list \in Seq(Handlers)
    BY <1>0 DEF ListFits
  <2>2. Append(l.list, h) \in Seq(Handlers)
    BY <1>0, <2>1, AppendProperties
  <2> QED BY <1>3, <2>1, <2>2
<1>9. n = "progress" => m.options = {"memory"} /\ (m.firing => m.memory)
  BY <1>5, <1>7 DEF ListFits, Begun
<1>10. ASSUME n \in {"done", "fail"} PROVE HandlersOf(ah, c) /\ Promise(n, m, {f}, st, ah, c, K)
  <2>1. HandlersOf(a, c) /\ Promise(n, l, F, st, a, c, K) /\ a \in Seq(Handlers) /\ c \in Seq(Handlers)
    BY <1>10 DEF ListFits, HandlersOf
  <2>2. HandlersOf(ah, c)
    BY <1>0, <2>1, AppendProperties DEF HandlersOf
  <2>3. n \notin K /\ Paid(n, l, F, st, a, c) /\ l.options = {"once", "memory"} /\ l.stack = Gone
    BY <1>0, <2>1 DEF Promise, Undisturbed, Lost, Settling, Paying, Paid, Broken
  <2>4. l.list = <<>> /\ a = c /\ st = Final[n]
    BY <2>3 DEF Paid
  <2>5. f.due = <<h>>
    <3>1. g = Append(l.list, h) /\ l.list \in Seq(Fn) /\ h \in Fn
      BY <1>0, <1>1, <1>3, <2>3, ListFields DEF Fn
    <3>2. From(g, Len(l.list) + 1) = <<h>>
      BY <3>1, FromLast
    <3> QED BY <1>5, <1>7, <3>2 DEF Begun
  <2>6. <<h>> \in Seq(Handlers) /\ ah = c \o <<h>>
    BY <1>0, <2>1, <2>4, AppendIsConcat
  <2>7. Paying(n, m, {f}, st, ah, c)
    BY <1>3, <1>5, <1>7, <2>3, <2>4, <2>5, <2>6 DEF Begun, Paying
  <2> QED BY <1>5, <1>7, <2>2, <2>3, <2>7 DEF Promise, Begun
<1> HIDE DEF ah
<1>11. ListFits(n, m, {f}, st, ah, c, K)
  BY <1>7, <1>8, <1>9, <1>10 DEF ListFits, Begun
<1> QED BY <1>2, <1>7, <1>11 DEF Begun, ah

\* fire, of a list that may fire.
Fires(n, l, m, f) ==
  l.list # Gone /\ ~(l.fired /\ l.stack = Gone) /\ ~l.firing /\ m = Firing(l) /\ f = Frame(n, l)

LEMMA StepFire ==
  ASSUME NEW n \in ListNames, NEW l, NEW F, NEW st, NEW a, NEW c, NEW K, ListFits(n, l, F, st, a, c, K),
         NEW m, NEW f, Fires(n, l, m, f)
  PROVE  /\ F = {} /\ f \in LoopFrames /\ f.name = n /\ f.at = "loop"
         /\ ListFits(n, m, {f}, st, a, c, K)
<1>0. l.list # Gone /\ ~(l.fired /\ l.stack = Gone) /\ ~l.firing /\ m = Firing(l) /\ f = Frame(n, l)
  BY DEF Fires
<1>1. Account(l, F) /\ l \in CallbackLists
  BY DEF ListFits, Account
<1>2. F = {}
  BY <1>0, <1>1, Quiet
<1>3. l.list \in Seq(Fn) /\ Len(l.list) \in Nat /\ l.firingStart = 0
  BY <1>0, <1>1, ListFields
<1>4. l \in ReadyLists
  BY <1>1, <1>3 DEF CallbackLists, ReadyLists
<1>5. Begins(l, n, m, f)
  BY <1>0, <1>3, <1>4 DEF Begins, Ready
<1>6. Begun(l, n, m, f)
  BY <1>5, AccountFire
<1>7. n \in {"done", "fail"} => Promise(n, m, {f}, st, a, c, K)
  <2> SUFFICES ASSUME n \in {"done", "fail"} PROVE Promise(n, m, {f}, st, a, c, K)
    OBVIOUS
  <2>1. Promise(n, l, F, st, a, c, K)
    BY DEF ListFits
  <2>2. n \notin K /\ Undisturbed(n, l, F, st, a, c) /\ l.options = {"once", "memory"} /\ l.stack = Gone
    <3>1. l.stack = Gone /\ ~l.fired
      BY <1>0, <2>1 DEF Promise
    <3>2. ~Broken(n, l, F, st)
      BY <1>0 DEF Broken
    <3> QED BY <1>0, <2>1, <3>1, <3>2 DEF Promise, Lost, Settling, Paying, Paid
  <2>3. Settling(n, m, {f}, st, a, c)
    BY <1>3, <1>6, <2>2 DEF Begun, Undisturbed, Settling
  <2> QED BY <1>6, <2>2, <2>3 DEF Promise, Begun
<1> QED BY <1>2, <1>6, <1>7 DEF ListFits, Begun

\* fire, while the list fires.
LEMMA StepQueue ==
  ASSUME NEW n \in ListNames, NEW l, NEW F, NEW st, NEW a, NEW c, NEW K, ListFits(n, l, F, st, a, c, K),
         l.stack # Gone, NEW m, m = [l EXCEPT !.stack = @ + 1]
  PROVE  ListFits(n, m, F, st, a, c, K)
<1>1. Account(l, F) /\ l \in CallbackLists
  BY DEF ListFits, Account
<1>2. Account(m, F)
  BY <1>1, AccountQueue
<1>3. m.list = l.list /\ m.options = l.options /\ m.firing = l.firing /\ m.memory = l.memory
  BY <1>1 DEF CallbackLists
<1>4. n \notin {"done", "fail"}
  BY DEF ListFits, Promise
<1> QED BY <1>2, <1>3, <1>4 DEF ListFits

\* The list of its own: remove, disable, lock, empty.
OwnFits(l, F) == Account(l, F) /\ AllOwn(F) /\ l.list \in Seq(Handlers) \cup {Gone}

LEMMA OwnIs ==
  ASSUME NEW l, NEW F, NEW st, NEW a, NEW c, NEW K
  PROVE  ListFits("own", l, F, st, a, c, K) <=> OwnFits(l, F)
BY DEF ListFits, OwnFits, AllOwn

Turned(F, e, G) == F \subseteq LoopFrames /\ G = {e[f] : f \in F}

LEMMA OwesKeep ==
  ASSUME NEW F, NEW e, NEW G, Turned(F, e, G), Owes(e), AllOwn(F)
  PROVE  AllOwn(G)
BY DEF Turned, Owes, AllOwn

LEMMA StepRemove ==
  ASSUME NEW l, NEW F, OwnFits(l, F), NEW h, NEW m, NEW e, NEW G, Removes(l, F, h, m, e, G)
  PROVE  Owes(e) /\ OwnFits(m, G)
<1>1. Account(l, F) /\ AllOwn(F)
  BY DEF OwnFits
<1>2. Owes(e) /\ Account(m, G) /\ m.list \in Seq(Handlers)
  BY <1>1, AccountRemove
<1>3. Turned(F, e, G)
  BY <1>1 DEF Account, Removes, Turned
<1>4. AllOwn(G)
  BY <1>1, <1>2, <1>3, OwesKeep
<1> QED BY <1>2, <1>4 DEF OwnFits

\* disable or lock.
Ceases(l, F, m, e, G) ==
  /\ m = Disabled(l) \/ m = Locked(l)
  /\ e = [f \in LoopFrames |-> [f EXCEPT !.due = IF m.list = Gone THEN <<>> ELSE @]]
  /\ G = {e[f] : f \in F}

LEMMA StepDisable ==
  ASSUME NEW l, NEW F, OwnFits(l, F), NEW m, NEW e, NEW G, Ceases(l, F, m, e, G)
  PROVE  Owes(e) /\ OwnFits(m, G)
<1>0. /\ m = Disabled(l) \/ m = Locked(l)
      /\ e = [f \in LoopFrames |-> [f EXCEPT !.due = IF m.list = Gone THEN <<>> ELSE @]]
      /\ G = {e[f] : f \in F}
  BY DEF Ceases
<1>1. Account(l, F) /\ l \in CallbackLists /\ F \subseteq LoopFrames /\ AllOwn(F)
  BY DEF OwnFits, Account
<1>5. Turned(F, e, G)
  BY <1>0, <1>1 DEF Turned
<1>2. m.list = Gone \/ m.list = l.list
  BY <1>0, <1>1 DEF Disabled, Locked, CallbackLists
<1>3. CASE m = Disabled(l)
  <2>1. m.list = Gone
    BY <1>1, <1>3 DEF Disabled, CallbackLists
  <2>2. e = [f \in LoopFrames |-> [f EXCEPT !.due = <<>>]]
    BY <1>0, <2>1
  <2>3. Owes(e) /\ Account(m, G)
    <3>1. Disables(l, F, m, e, G)
      BY <1>0, <1>3, <2>2 DEF Disables
    <3> QED BY <1>1, <3>1, AccountDisable
  <2>4. AllOwn(G)
    BY <1>1, <1>5, <2>3, OwesKeep
  <2>5. OwnFits(m, G)
    BY <2>1, <2>3, <2>4 DEF OwnFits
  <2> QED BY <2>3, <2>5
<1>4. CASE m = [l EXCEPT !.stack = Gone]
  <2>1. Account(m, F)
    BY <1>1, <1>4, AccountLock
  <2>2. <<>> \in Seq(Fn)
    BY EmptySeq
  <2>3. \A f \in LoopFrames : e[f] \in LoopFrames /\ e[f].name = f.name /\ e[f].at = f.at /\ e[f].emptied = f.emptied
                              /\ e[f].due = IF m.list = Gone THEN <<>> ELSE f.due
    BY <1>0, <2>2 DEF LoopFrames
  <2>4. Owes(e)
    BY <2>3 DEF Owes
  <2>5. ASSUME NEW f \in F PROVE LoopFits(e[f], m)
    <3>1. f \in LoopFrames /\ LoopFits(f, m)
      BY <1>1, <2>1 DEF Account
    <3>2. /\ e[f].name = f.name /\ e[f].at = f.at /\ e[f].emptied = f.emptied
          /\ e[f].due = IF m.list = Gone THEN <<>> ELSE f.due
      BY <2>3, <3>1
    <3>3. Passed(e[f], m) = Passed(f, m)
      BY <3>2 DEF Passed
    <3> QED BY <3>1, <3>2, <3>3 DEF LoopFits
  <2>6. G \subseteq LoopFrames /\ \A f \in G : LoopFits(f, m)
    BY <1>0, <1>1, <2>3, <2>5
  <2>7. AllOwn(G)
    BY <1>1, <1>5, <2>4, OwesKeep
  <2>8. m.list \in Seq(Handlers) \cup {Gone}
    BY <1>2 DEF OwnFits
  <2>9. OwnFits(m, G)
    BY <2>1, <2>6, <2>7, <2>8 DEF OwnFits, Account
  <2> QED BY <2>4, <2>9
<1> QED BY <1>0, <1>3, <1>4 DEF Locked

LEMMA StepEmpty ==
  ASSUME NEW l, NEW F, OwnFits(l, F), NEW m, NEW e, NEW G, Empties(l, F, m, e, G)
  PROVE  Owes(e) /\ OwnFits(m, G)
<1>1. Account(l, F) /\ AllOwn(F)
  BY DEF OwnFits
<1>2. Owes(e) /\ Account(m, G) /\ m.list = <<>>
  BY <1>1, AccountEmpty
<1>3. Turned(F, e, G)
  BY <1>1 DEF Account, Empties, Turned
<1>4. AllOwn(G)
  BY <1>1, <1>2, <1>3, OwesKeep
<1>5. <<>> \in Seq(Handlers)
  BY EmptySeq
<1> QED BY <1>2, <1>4, <1>5 DEF OwnFits

\* The loop calls a handler.
Proceeds(n, l, f, h, g, c, d) ==
  /\ Takes(l, f) /\ h = l.list[l.firingIndex + 1] /\ h # "settle"
  /\ g = [f EXCEPT !.at = "running", !.due = Owed(@)]
  /\ d = IF n \in {"done", "fail"} THEN Append(c, h) ELSE c

LEMMA StepRun ==
  ASSUME NEW n \in ListNames, NEW l, NEW f, NEW st, NEW a, NEW c, NEW K, ListFits(n, l, {f}, st, a, c, K),
         NEW h, NEW g, NEW d, Proceeds(n, l, f, h, g, c, d)
  PROVE  g.name = n /\ g \in LoopFrames /\ ListFits(n, l, {g}, st, a, d, K)
<1> DEFINE k == l.firingIndex + 1
           o == Owed(f.due)
<1>0. /\ Takes(l, f) /\ h = l.list[k] /\ h # "settle"
      /\ g = [f EXCEPT !.at = "running", !.due = Owed(@)]
      /\ d = IF n \in {"done", "fail"} THEN Append(c, h) ELSE c
      /\ f.at = "loop"
  BY DEF Proceeds, Takes
<1>1. k = l.firingIndex + 1 /\ o = Owed(f.due) /\ f.name = n
  BY DEF ListFits
<1> HIDE DEF k, o
<1>2. /\ k \in 1..Len(l.list) /\ l.list[k] \in Fn
      /\ ~f.emptied => f.due # <<>> /\ l.list[k] = Head(f.due) /\ o = Tail(f.due)
  BY <1>0, <1>1, AccountCall
<1>3. Account(l, {g}) /\ g.name = f.name /\ g.at = "running" /\ g.emptied = f.emptied /\ g.due = o
  <2>1. Account(l, {g}) /\ g.name = f.name /\ g.at = "running" /\ g.emptied = f.emptied /\ g.due = Owed(f.due)
    <3>1. TakesHandler(l, f, g)
      BY <1>0 DEF TakesHandler
    <3>2. Taken(l, f, g)
      BY <3>1, AccountRun
    <3> QED BY <3>2 DEF Taken
  <2> QED BY <1>1, <2>1
<1>4. n \in {"done", "fail"} => HandlersOf(a, d) /\ Promise(n, l, {g}, st, a, d, K)
  <2> SUFFICES ASSUME n \in {"done", "fail"} PROVE HandlersOf(a, d) /\ Promise(n, l, {g}, st, a, d, K)
    OBVIOUS
  <2>1. HandlersOf(a, c) /\ Promise(n, l, {f}, st, a, c, K) /\ a \in Seq(Handlers) /\ c \in Seq(Handlers)
    BY DEF ListFits, HandlersOf
  <2>2. ~Settling(n, l, {f}, st, a, c)
    <3> SUFFICES ASSUME Settling(n, l, {f}, st, a, c) PROVE FALSE
      OBVIOUS
    <3>1. k = 1 /\ l.list = <<"settle">> \o a
      BY <1>1 DEF Settling
    <3>2. (<<"settle">> \o a)[1] = "settle"
      BY <2>1
    <3> QED BY <1>0, <3>1, <3>2
  <2>3. n \notin K /\ Paying(n, l, {f}, st, a, c) /\ l.options = {"once", "memory"} /\ l.stack = Gone
    BY <2>1, <2>2 DEF Promise, Undisturbed, Lost, Paid, Broken
  <2>4. ~f.emptied /\ f.due \in Seq(Handlers) /\ a = c \o f.due
    BY <2>3 DEF Paying
  <2> DEFINE u == f.due
             w == Append(c, h)
  <2>5. u \in Seq(Handlers) /\ u # <<>> /\ a = c \o u /\ h = Head(u) /\ o = Tail(u)
    BY <1>0, <1>2, <2>4
  <2> HIDE DEF u
  <2>6. h \in Handlers /\ o \in Seq(Handlers) /\ w \in Seq(Handlers) /\ c \o u = w \o o
    BY <2>1, <2>5, CalledMore
  <2>7. d = w
    BY <1>0
  <2> HIDE DEF w
  <2>8. Paying(n, l, {g}, st, a, d)
    BY <1>3, <2>3, <2>4, <2>5, <2>6, <2>7 DEF Paying
  <2> QED BY <2>1, <2>3, <2>6, <2>7, <2>8 DEF Promise, HandlersOf
<1>5. g \in LoopFrames
  BY <1>3 DEF Account
<1> QED BY <1>1, <1>3, <1>4, <1>5 DEF ListFits

\* The loop comes to the deferred's own function: it is settled.
SettlesCall(l, f, m, g) ==
  /\ Takes(l, f) /\ l.list[l.firingIndex + 1] = "settle"
  /\ m = [l EXCEPT !.firingIndex = @ + 1] /\ g = [f EXCEPT !.due = Owed(@)]

LEMMA StepSettle ==
  ASSUME NEW n \in ListNames, NEW l, NEW f, NEW st, NEW a, NEW c, NEW K, ListFits(n, l, {f}, st, a, c, K),
         NEW m, NEW g, SettlesCall(l, f, m, g)
  PROVE  n \in {"done", "fail"} /\ st = "pending" /\ g.name = n /\ g \in LoopFrames /\ ListFits(n, m, {g}, Final[n], a, c, K)
<1> DEFINE k == l.firingIndex + 1
           o == Owed(f.due)
<1>0. /\ Takes(l, f) /\ l.list[k] = "settle" /\ f.at = "loop" /\ l.list # Gone
      /\ m = [l EXCEPT !.firingIndex = @ + 1] /\ g = [f EXCEPT !.due = Owed(@)]
  BY DEF SettlesCall, Takes
<1>1. k = l.firingIndex + 1 /\ o = Owed(f.due) /\ f.name = n /\ l \in CallbackLists
  BY DEF ListFits, Account
<1> HIDE DEF k, o
<1>2. /\ k \in 1..Len(l.list)
      /\ ~f.emptied => f.due # <<>> /\ l.list[k] = Head(f.due) /\ o = Tail(f.due) /\ o = From(l.list, k + 1)
  BY <1>0, <1>1, AccountCall
<1>3. n \in {"done", "fail"}
  <2> SUFFICES ASSUME n \in {"own", "progress"} PROVE FALSE
    BY DEF ListNames
  <2>1. l.list \in Seq(Handlers)
    BY <1>0 DEF ListFits
  <2>2. l.list[k] \in Handlers
    BY <1>2, <2>1, ElementOfSeq
  <2> QED BY <1>0, <2>2, DeferredsAssumption
<1>4. HandlersOf(a, c) /\ Promise(n, l, {f}, st, a, c, K) /\ a \in Seq(Handlers)
  BY <1>3 DEF ListFits, HandlersOf
<1>5. ~Paying(n, l, {f}, st, a, c)
  <2> SUFFICES ASSUME Paying(n, l, {f}, st, a, c) PROVE FALSE
    OBVIOUS
  <2>1. ~f.emptied /\ f.due \in Seq(Handlers)
    BY DEF Paying
  <2> DEFINE u == f.due
  <2>2. u \in Seq(Handlers) /\ u # <<>> /\ Head(u) = "settle"
    BY <1>0, <1>2, <2>1
  <2> HIDE DEF u
  <2>3. Head(u) \in Handlers
    BY <2>2, HeadTailProperties
  <2> QED BY <2>2, <2>3, DeferredsAssumption
<1>6. n \notin K /\ Settling(n, l, {f}, st, a, c) /\ l.options = {"once", "memory"} /\ l.stack = Gone
  BY <1>4, <1>5 DEF Promise, Undisturbed, Lost, Paid, Broken
<1>7. /\ l.list = <<"settle">> \o a /\ c = <<>> /\ st = "pending" /\ l.memory /\ l.firing /\ l.firingIndex = 0 /\ ~f.emptied
  BY <1>6 DEF Settling
<1>8. Account(m, {g}) /\ g.name = f.name /\ g.at = "loop" /\ ~g.emptied /\ g.due = o
  <2>1. Account(l, {f}) /\ Takes(l, f) /\ ~f.emptied
    BY <1>0, <1>7 DEF ListFits
  <2>2. Account(m, {g}) /\ g.name = f.name /\ g.at = "loop" /\ ~g.emptied /\ g.due = Owed(f.due)
    BY <1>0, <2>1, AccountSettle
  <2> QED BY <1>1, <2>2
<1>9. o = a
  <2> DEFINE s == <<"settle">>
  <2>1. s \in Seq(Fn) /\ a \in Seq(Fn) /\ Len(s) = 1 /\ Len(a) \in Nat
    BY <1>4, HandlersAre, LenProperties DEF Fn
  <2>2. f.due = From(l.list, 1) /\ l.list = s \o a
    <3>1. k = 1
      BY <1>1, <1>7
    <3>2. l.firingIndex < l.firingLength /\ LoopFits(f, l)
      BY <1>0 DEF Takes, ListFits, Account
    <3>3. Passed(f, l) = 0
      BY <1>0, <1>7 DEF Passed
    <3> QED BY <1>0, <1>7, <3>2, <3>3 DEF LoopFits
  <2>3. o = Tail(f.due)
    BY <1>2, <1>7
  <2>4. From(s \o a, 1) = s \o a
    <3> HIDE DEF s
    <3>1. s \o a \in Seq(Fn)
      BY <2>1, ConcatProperties
    <3> QED BY <3>1, FromAll
  <2>5. Tail(s \o a) = a
    BY <1>4
  <2> QED BY <2>2, <2>3, <2>4, <2>5
<1>10. m.list = l.list /\ m.options = l.options /\ m.stack = l.stack /\ m.memory = l.memory /\ m.firing = l.firing
  BY <1>0, <1>1 DEF CallbackLists
<1>11. a = c \o a
  BY <1>4, <1>7, ConcatEmptySeq
<1>12. Paying(n, m, {g}, Final[n], a, c)
  BY <1>0, <1>4, <1>7, <1>8, <1>9, <1>10, <1>11 DEF Paying
<1>13. Promise(n, m, {g}, Final[n], a, c, K)
  BY <1>6, <1>10, <1>12 DEF Promise
<1>14. g \in LoopFrames
  BY <1>8 DEF Account
<1> QED BY <1>1, <1>3, <1>4, <1>7, <1>8, <1>13, <1>14 DEF ListFits

\* The other outcome's list, and progress, when the deferred is settled.
LEMMA StepLose ==
  ASSUME NEW n \in {"done", "fail"}, NEW l, NEW F, NEW a, NEW c, NEW K, ListFits(n, l, F, "pending", a, c, K), AllInside(F)
  PROVE  ListFits(n, Disabled(l), F, Final[Other[n]], a, c, K)
<1> DEFINE m == Disabled(l)
<1>1. Account(l, F) /\ l \in CallbackLists /\ HandlersOf(a, c) /\ Promise(n, l, F, "pending", a, c, K)
  BY DEF ListFits, Account
<1>2. "pending" # Final[n] /\ "pending" # Final[Other[n]]
  BY DEF Final, Other
<1>3. n \notin K /\ Undisturbed(n, l, F, "pending", a, c) /\ l.options = {"once", "memory"}
  BY <1>1, <1>2 DEF Promise, Lost, Settling, Paying, Paid, Broken, AllInside
<1>4. F = {} /\ c = <<>> /\ ~l.firing
  BY <1>3 DEF Undisturbed
<1>5. m \in CallbackLists /\ m.list = Gone /\ m.firing = l.firing /\ m.stack = Gone /\ m.options = l.options
  BY <1>1 DEF CallbackLists, Disabled
<1> HIDE DEF m
<1>6. Account(m, F)
  BY <1>4, <1>5 DEF Account
<1>7. Lost(n, m, F, Final[Other[n]], c)
  BY <1>4, <1>5 DEF Lost
<1>8. Promise(n, m, F, Final[Other[n]], a, c, K)
  BY <1>3, <1>5, <1>7 DEF Promise
<1>9. ListFits(n, m, F, Final[Other[n]], a, c, K)
  BY <1>1, <1>4, <1>6, <1>8 DEF ListFits
<1> QED BY <1>9 DEF m

LEMMA StepProgress ==
  ASSUME NEW l, NEW F, NEW st, NEW a, NEW c, NEW K, ListFits("progress", l, F, st, a, c, K)
  PROVE  \A s : ListFits("progress", Locked(l), F, s, a, c, K)
<1> DEFINE m == Locked(l)
<1>1. Account(l, F) /\ l \in CallbackLists /\ l.list \in Seq(Handlers) \cup {Gone}
      /\ l.options = {"memory"} /\ (l.firing => l.memory) /\ \A f \in F : f.name = "progress"
  BY DEF ListFits, Account
<1>2. CASE l.memory
  <2>1. m = [l EXCEPT !.stack = Gone]
    BY <1>2 DEF Locked
  <2>2. Account(m, F)
    BY <1>1, <2>1, AccountLock
  <2>3. m.list = l.list /\ m.options = l.options /\ m.memory = l.memory
    BY <1>1, <2>1 DEF CallbackLists
  <2> HIDE DEF m
  <2>4. \A s : ListFits("progress", m, F, s, a, c, K)
    BY <1>1, <1>2, <2>2, <2>3 DEF ListFits
  <2> QED BY <2>4 DEF m
<1>3. CASE ~l.memory
  <2>1. m = Disabled(l) /\ ~l.firing
    BY <1>1, <1>3 DEF Locked
  <2>2. F = {}
    BY <1>1, <2>1, Quiet
  <2>3. m \in CallbackLists /\ m.list = Gone /\ m.options = l.options /\ m.firing = l.firing
    BY <1>1, <2>1 DEF CallbackLists, Disabled
  <2> HIDE DEF m
  <2>4. Account(m, F)
    BY <2>1, <2>2, <2>3 DEF Account
  <2>5. \A s : ListFits("progress", m, F, s, a, c, K)
    BY <1>1, <2>1, <2>3, <2>4 DEF ListFits
  <2> QED BY <2>5 DEF m
<1> QED BY <1>2, <1>3

LEMMA StepReturn ==
  ASSUME NEW n \in ListNames, NEW l, NEW f, NEW st, NEW a, NEW c, NEW K, ListFits(n, l, {f}, st, a, c, K),
         NEW m, NEW g, Returns(l, f, m, g)
  PROVE  g.name = n /\ g \in LoopFrames /\ ListFits(n, m, {g}, st, a, c, K)
<1>0. f.at = "running" /\ m = [l EXCEPT !.firingIndex = @ + 1]
  BY DEF Returns
<1>1. Account(l, {f}) /\ l \in CallbackLists /\ f.name = n
  BY DEF ListFits, Account
<1>2. Account(m, {g}) /\ g.name = f.name /\ g.at = "loop" /\ g.emptied = f.emptied /\ g.due = f.due
  <2>1. Returned(m, f, g)
    BY <1>1, AccountReturn
  <2> QED BY <2>1 DEF Returned
<1>3. m.list = l.list /\ m.options = l.options /\ m.firing = l.firing /\ m.memory = l.memory /\ m.stack = l.stack
  BY <1>0, <1>1 DEF CallbackLists
<1>4. ASSUME n \in {"done", "fail"} PROVE HandlersOf(a, c) /\ Promise(n, m, {g}, st, a, c, K)
  <2>1. HandlersOf(a, c) /\ Promise(n, l, {f}, st, a, c, K)
    BY <1>4 DEF ListFits
  <2>2. n \notin K /\ Paying(n, l, {f}, st, a, c) /\ l.options = {"once", "memory"} /\ l.stack = Gone
    BY <1>0, <2>1 DEF Promise, Undisturbed, Lost, Settling, Paid, Broken
  <2>3. Paying(n, m, {g}, st, a, c)
    BY <1>2, <1>3, <2>2 DEF Paying
  <2> QED BY <1>3, <2>1, <2>2, <2>3 DEF Promise
<1>5. g \in LoopFrames
  BY <1>2 DEF Account
<1> QED BY <1>1, <1>2, <1>3, <1>4, <1>5 DEF ListFits

LEMMA StepStop ==
  ASSUME NEW n \in ListNames, NEW l, NEW f, NEW st, NEW a, NEW c, NEW K, ListFits(n, l, {f}, st, a, c, K),
         "stopOnFalse" \in l.options, NEW m, NEW g, Stops(l, f, m, g)
  PROVE  g.name = n /\ g \in LoopFrames /\ ListFits(n, m, {g}, st, a, c, K)
<1>1. Account(l, {f}) /\ l \in CallbackLists /\ f.name = n
  BY DEF ListFits, Account
<1>2. Account(m, {g}) /\ g.name = f.name
  BY <1>1, AccountStop
<1>3. m.list = l.list
  BY <1>1 DEF CallbackLists, Stops
<1>4. n = "own"
  BY DEF ListFits, Promise, ListNames
<1>5. g \in LoopFrames
  BY <1>2 DEF Account
<1> QED BY <1>1, <1>2, <1>3, <1>4, <1>5 DEF ListFits

LEMMA StepEnd ==
  ASSUME NEW n \in ListNames, NEW p, NEW f, NEW st, NEW a, NEW c, NEW K, ListFits(n, p, {f}, st, a, c, K),
         f.at = "end" \/ (f.at = "loop" /\ ~(p.list # Gone /\ p.firingIndex < p.firingLength)),
         NEW l, NEW m, NEW g, FinishesLoop(p, n, l, m, g)
  PROVE  /\ Again(l) => g.name = n /\ g \in LoopFrames /\ ListFits(n, m, {g}, st, a, c, K)
         /\ ~Again(l) => ListFits(n, m, {}, st, a, c, K)
<1>1. Account(p, {f}) /\ p \in CallbackLists /\ f.name = n /\ LoopFits(f, p) /\ f \in LoopFrames
  BY DEF ListFits, Account
<1>2. Finished(p, n, l, m, g)
  BY <1>1, AccountEnd
<1>3. n \in {"own", "progress"} => m.list \in Seq(Handlers) \cup {Gone}
  <2>1. <<>> \in Seq(Handlers)
    BY EmptySeq
  <2> QED BY <1>2, <2>1 DEF ListFits, Finished
<1>4. n = "progress" => m.options = {"memory"} /\ (m.firing => m.memory)
  BY <1>2 DEF ListFits, Finished
<1>5. ASSUME n \in {"done", "fail"} PROVE ~Again(l) /\ HandlersOf(a, c) /\ Promise(n, m, {}, st, a, c, K)
  <2>1. HandlersOf(a, c) /\ Promise(n, p, {f}, st, a, c, K) /\ a \in Seq(Handlers) /\ c \in Seq(Handlers)
    BY <1>5 DEF ListFits, HandlersOf
  <2>2. ~Settling(n, p, {f}, st, a, c)
    <3> SUFFICES ASSUME Settling(n, p, {f}, st, a, c) PROVE FALSE
      OBVIOUS
    <3>1. p.list = <<"settle">> \o a /\ p.firingIndex = 0 /\ p.firing /\ f.at = "loop"
      BY DEF Settling
    <3>2. p.list \in Seq(Fn) /\ Len(p.list) > 0
      <4> DEFINE s == <<"settle">>
      <4>1. s \in Seq(Fn) /\ a \in Seq(Fn) /\ Len(s) = 1 /\ Len(a) \in Nat
        BY <2>1, HandlersAre, LenProperties DEF Fn
      <4> HIDE DEF s
      <4>2. s \o a \in Seq(Fn) /\ Len(s \o a) = Len(s) + Len(a)
        BY <4>1, ConcatProperties
      <4>3. Len(s \o a) > 0
        BY <4>1, <4>2
      <4> QED BY <3>1, <4>2, <4>3 DEF s
    <3>3. p.list # Gone
      BY <3>2, NotGone
    <3>4. p.firingLength = Len(p.list)
      BY <1>1, <3>1, <3>3 DEF Account
    <3> QED BY <3>1, <3>2, <3>3, <3>4
  <2>3. n \notin K /\ Paying(n, p, {f}, st, a, c) /\ p.options = {"once", "memory"} /\ p.stack = Gone
    BY <2>1, <2>2 DEF Promise, Undisturbed, Lost, Paid, Broken
  <2>4. st = Final[n] /\ p.firing /\ p.memory /\ p.list # Gone /\ f.at = "loop" /\ ~f.emptied /\ a = c \o f.due
    BY <2>3 DEF Paying
  <2>5. ~Again(l) /\ m.list = <<>> /\ m.stack = Gone /\ m.memory /\ m.fired = p.fired /\ m.options = p.options /\ ~m.firing
    BY <1>2, <2>3, <2>4 DEF Finished
  <2>6. p.fired
    BY <1>1, <2>4 DEF Account
  <2>7. f.due = <<>>
    <3>1. p.firingLength = Len(p.list) /\ p.list \in Seq(Fn) /\ Len(p.list) \in Nat /\ p.firingIndex \in Int
      BY <1>1, <2>4, ListFields DEF Account
    <3>2. p.firingIndex \in Nat /\ f.due = From(p.list, p.firingIndex + 1)
      <4>1. Passed(f, p) = p.firingIndex
        BY <2>4, <3>1 DEF Passed
      <4> QED BY <1>1, <2>4, <4>1 DEF LoopFits
    <3>3. ~(p.firingIndex < Len(p.list))
      BY <2>4, <3>1
    <3>4. p.firingIndex + 1 \in Nat /\ p.firingIndex + 1 > Len(p.list)
      BY <3>1, <3>2, <3>3
    <3>5. From(p.list, p.firingIndex + 1) = <<>>
      BY <3>1, <3>4, FromNone
    <3> QED BY <3>2, <3>5
  <2>8. a = c
    BY <2>1, <2>4, <2>7, ConcatEmptySeq
  <2>9. Paid(n, m, {}, st, a, c)
    BY <2>4, <2>5, <2>6, <2>8 DEF Paid
  <2> QED BY <2>1, <2>3, <2>5, <2>9 DEF Promise
<1> QED BY <1>2, <1>3, <1>4, <1>5 DEF ListFits, Finished

\* A handler throws: no loop is left, and what was firing is stuck.
LEMMA StepThrow ==
  ASSUME NEW n \in ListNames, NEW l, NEW F, NEW st, NEW a, NEW c, NEW K, ListFits(n, l, F, st, a, c, K), AllInside(F),
         NEW J, n \in J <=> (n \in K \/ F # {})
  PROVE  ListFits(n, l, {}, st, a, c, J)
<1>1. Account(l, F)
  BY DEF ListFits
<1>2. Account(l, {})
  BY <1>1 DEF Account
<1>3. ASSUME n \in {"done", "fail"} PROVE HandlersOf(a, c) /\ Promise(n, l, {}, st, a, c, J)
  <2>1. HandlersOf(a, c) /\ Promise(n, l, F, st, a, c, K)
    BY <1>3 DEF ListFits
  <2>2. CASE n \notin K /\ Undisturbed(n, l, F, st, a, c)
    <3>1. F = {} /\ n \notin J
      BY <2>2 DEF Undisturbed
    <3> QED BY <2>1, <2>2, <3>1 DEF Promise
  <2>3. CASE n \notin K /\ Lost(n, l, F, st, c)
    <3>1. F = {} /\ n \notin J
      BY <2>3 DEF Lost
    <3> QED BY <2>1, <2>3, <3>1 DEF Promise
  <2>4. CASE n \notin K /\ Paid(n, l, F, st, a, c)
    <3>1. F = {} /\ n \notin J
      BY <2>4 DEF Paid
    <3> QED BY <2>1, <2>4, <3>1 DEF Promise
  <2>5. CASE n \notin K /\ Paying(n, l, F, st, a, c)
    <3>1. n \in J /\ Broken(n, l, {}, st)
      BY <2>5 DEF Paying, Broken
    <3> QED BY <2>1, <3>1 DEF Promise
  <2>6. CASE n \in K /\ Broken(n, l, F, st)
    <3>1. n \in J /\ Broken(n, l, {}, st)
      BY <2>6 DEF Broken
    <3> QED BY <2>1, <3>1 DEF Promise
  <2>7. ~Settling(n, l, F, st, a, c)
    BY DEF Settling, AllInside
  <2> QED BY <2>1, <2>2, <2>3, <2>4, <2>5, <2>6, <2>7 DEF Promise
<1> QED BY <1>2, <1>3 DEF ListFits

-----------------------------------------------------------------------------
(* The lists of callbacks and the deferred, all together.                      *)

OutcomeLists == {"done", "fail"}
Records(ad) == ad \in [OutcomeLists -> Seq(Handlers)]

AllFit(ls, fs, st, ad, ca, K) ==
  /\ StackFits(fs) /\ ls \in [ListNames -> CallbackLists] /\ Records(ad) /\ Records(ca)
  /\ \A n \in ListNames : ListFits(n, ls[n], LoopsOn(fs, n), st, ad[n], ca[n], K)

DeferredInv == AllFit(lists, frames, state, added, calls, stuck)

\* A step on the list n: the loops on the others are as they were.
Elsewhere(n, fs, gs) == StackFits(gs) /\ \A m : m # n => LoopsOn(gs, m) = LoopsOn(fs, m)
Alike(n, ad, bd) == Records(bd) /\ \A m \in ListNames \ {n} : bd[m] = ad[m]

LEMMA OneList ==
  ASSUME NEW ls, NEW fs, NEW st, NEW ad, NEW ca, NEW K, AllFit(ls, fs, st, ad, ca, K), NEW n \in ListNames,
         NEW l, NEW ms, ms = [ls EXCEPT ![n] = l], NEW gs, Elsewhere(n, fs, gs),
         NEW bd, Alike(n, ad, bd), NEW cb, Alike(n, ca, cb), ListFits(n, l, LoopsOn(gs, n), st, bd[n], cb[n], K)
  PROVE  AllFit(ms, gs, st, bd, cb, K)
<1>1. l \in CallbackLists
  BY DEF ListFits, Account
<1>2. ms \in [ListNames -> CallbackLists] /\ ms[n] = l /\ \A m \in ListNames \ {n} : ms[m] = ls[m]
  BY <1>1 DEF AllFit
<1>3. ASSUME NEW m \in ListNames PROVE ListFits(m, ms[m], LoopsOn(gs, m), st, bd[m], cb[m], K)
  <2>1. CASE m = n
    BY <1>2, <2>1
  <2>2. CASE m # n
    <3>1. ms[m] = ls[m] /\ LoopsOn(gs, m) = LoopsOn(fs, m) /\ bd[m] = ad[m] /\ cb[m] = ca[m]
      BY <1>2, <2>2 DEF Elsewhere, Alike
    <3>2. ListFits(m, ls[m], LoopsOn(fs, m), st, ad[m], ca[m], K)
      BY DEF AllFit
    <3> QED BY <3>1, <3>2
  <2> QED BY <2>1, <2>2
<1> QED BY <1>2, <1>3 DEF AllFit, Elsewhere, Alike

LEMMA AlikeSelf == ASSUME NEW ad, Records(ad), NEW n PROVE Alike(n, ad, ad)
BY DEF Alike

\* A list of the deferred takes note of a handler, another of nothing.
LEMMA AlikeMore ==
  ASSUME NEW ad, Records(ad), NEW n \in ListNames, NEW h \in Handlers,
         NEW bd, bd = IF n \in DOMAIN ad THEN [ad EXCEPT ![n] = Append(@, h)] ELSE ad
  PROVE  Alike(n, ad, bd) /\ (n \in OutcomeLists => bd[n] = Append(ad[n], h)) /\ (n \notin OutcomeLists => bd = ad)
<1>1. DOMAIN ad = OutcomeLists /\ \A m \in OutcomeLists : ad[m] \in Seq(Handlers)
  BY DEF Records
<1>2. CASE n \in OutcomeLists
  <2>1. Append(ad[n], h) \in Seq(Handlers)
    BY <1>1, <1>2, AppendProperties
  <2>2. bd = [ad EXCEPT ![n] = Append(ad[n], h)]
    BY <1>1, <1>2
  <2>3. bd \in [OutcomeLists -> Seq(Handlers)] /\ bd[n] = Append(ad[n], h)
    BY <1>2, <2>1, <2>2 DEF Records
  <2>4. \A m : m # n => bd[m] = ad[m]
    <3> SUFFICES ASSUME NEW m, m # n PROVE bd[m] = ad[m]
      OBVIOUS
    <3> QED BY <2>2
  <2> QED BY <1>2, <2>3, <2>4 DEF Alike, Records
<1>3. CASE n \notin OutcomeLists
  <2>1. bd = ad
    BY <1>1, <1>3
  <2> QED BY <1>3, <2>1 DEF Alike
<1> QED BY <1>2, <1>3

LEMMA Freely ==
  ASSUME NEW n \in {"own", "progress"}, NEW l, NEW F, NEW st, NEW a, NEW c, NEW K, ListFits(n, l, F, st, a, c, K)
  PROVE  \A s, x, y, J : ListFits(n, l, F, s, x, y, J)
BY DEF ListFits

\* All the loops below the innermost run a callback, and so may it.
LEMMA AllRun == ASSUME NEW fs, StackFits(fs), InCallback(fs) PROVE \A m : AllInside(LoopsOn(fs, m))
BY DEF StackFits, InCallback, AllInside, LoopsOn

LEMMA BelowRun ==
  ASSUME NEW fs, StackFits(fs), fs # <<>> PROVE \A m : m # Last(fs).name => AllInside(LoopsOn(fs, m))
BY DEF StackFits, AllInside, LoopsOn, Last

\* A step on the list n alone.
Puts(n, l, ls, ms) == ms = [ls EXCEPT ![n] = l]

LEMMA OnOne ==
  ASSUME DeferredInv, NEW n \in ListNames, NEW l, Puts(n, l, lists, lists'), Elsewhere(n, frames, frames'),
         Alike(n, added, added'), Alike(n, calls, calls'), state' = state, stuck' = stuck,
         ListFits(n, l, LoopsOn(frames', n), state, added'[n], calls'[n], stuck)
  PROVE  DeferredInv'
<1>1. AllFit(lists, frames, state, added, calls, stuck)
  BY DEF DeferredInv
<1>2. lists' = [lists EXCEPT ![n] = l]
  BY DEF Puts
<1>3. AllFit(lists', frames', state, added', calls', stuck)
  BY <1>1, <1>2, OneList
<1>4. AllFit(lists', frames', state', added', calls', stuck')
  BY <1>3
<1> QED BY <1>4 DEF DeferredInv

LEMMA ListIs ==
  ASSUME DeferredInv, NEW n \in ListNames
  PROVE  /\ ListFits(n, lists[n], LoopsOn(frames, n), state, added[n], calls[n], stuck)
         /\ lists[n] \in CallbackLists /\ LoopsOn(frames, n) \subseteq LoopFrames
         /\ DOMAIN lists = ListNames /\ StackFits(frames) /\ Records(added) /\ Records(calls)
<1>1. ListFits(n, lists[n], LoopsOn(frames, n), state, added[n], calls[n], stuck)
  BY DEF DeferredInv, AllFit
<1>2. lists[n] \in CallbackLists /\ LoopsOn(frames, n) \subseteq LoopFrames
  BY <1>1 DEF ListFits, Account
<1> QED BY <1>1, <1>2 DEF DeferredInv, AllFit

LEMMA OperationRuns ==
  ASSUME DeferredInv, Operation
  PROVE  /\ InCallback(frames) /\ state' = state /\ calls' = calls /\ stuck' = stuck
         /\ \A m : AllInside(LoopsOn(frames, m))
<1>1. InCallback(frames) /\ state' = state /\ calls' = calls /\ stuck' = stuck
  BY DEF Operation, InCallback
<1>2. StackFits(frames)
  BY DEF DeferredInv, AllFit
<1>3. \A m : AllInside(LoopsOn(frames, m))
  BY <1>1, <1>2, AllRun
<1> QED BY <1>1, <1>3

OwesOn(fs, n, e, gs) == gs = [i \in DOMAIN fs |-> IF fs[i].name = n THEN e[fs[i]] ELSE fs[i]]
Turns(F, e, G) == G = {e[f] : f \in F}

LEMMA OnLoops ==
  ASSUME NEW fs, StackFits(fs), NEW n, NEW e, Owes(e), NEW gs, OwesOn(fs, n, e, gs), NEW G, Turns(LoopsOn(fs, n), e, G)
  PROVE  Elsewhere(n, fs, gs) /\ LoopsOn(gs, n) = G
<1>1. StackFits(gs) /\ LoopsOn(gs, n) = {e[f] : f \in LoopsOn(fs, n)} /\ \A m : m # n => LoopsOn(gs, m) = LoopsOn(fs, m)
  BY OweLoop DEF OwesOn
<1> QED BY <1>1 DEF Elsewhere, Turns

\* A step on the list of its own, that changes what its loop owes.
LEMMA OnOwn ==
  ASSUME DeferredInv, NEW l, Puts("own", l, lists, lists'), NEW e, Owes(e), OwesOn(frames, "own", e, frames'),
         NEW G, Turns(LoopsOn(frames, "own"), e, G), OwnFits(l, G),
         state' = state, stuck' = stuck, calls' = calls, added' = added
  PROVE  DeferredInv'
<1>0. "own" \in ListNames
  BY DEF ListNames
<1>1. StackFits(frames) /\ Records(added) /\ Records(calls)
  BY <1>0, ListIs
<1>2. Elsewhere("own", frames, frames') /\ LoopsOn(frames', "own") = G
  BY <1>1, OnLoops
<1>3. ListFits("own", l, LoopsOn(frames', "own"), state, added'["own"], calls'["own"], stuck)
  BY <1>2, OwnIs
<1>4. Alike("own", added, added') /\ Alike("own", calls, calls')
  BY <1>1, AlikeSelf
<1> QED BY <1>0, <1>2, <1>3, <1>4, OnOne

LEMMA OwnList ==
  ASSUME DeferredInv
  PROVE  /\ OwnFits(lists.own, LoopsOn(frames, "own")) /\ StackFits(frames) /\ DOMAIN lists = ListNames
         /\ \A i \in DOMAIN frames : frames[i] \in LoopFrames
<1>0. "own" \in ListNames
  BY DEF ListNames
<1>1. ListFits("own", lists["own"], LoopsOn(frames, "own"), state, added["own"], calls["own"], stuck)
  BY <1>0, ListIs
<1>2. OwnFits(lists["own"], LoopsOn(frames, "own"))
  BY <1>1, OwnIs
<1> QED BY <1>0, <1>2, ListIs, StackTypes

LEMMA DeferredRemove ==
  ASSUME DeferredInv, remove
  PROVE  DeferredInv'
<1> DEFINE n == "own"
           F == LoopsOn(frames, n)
<1>1. PICK h \in Handlers : /\ lists' = [lists EXCEPT !.own = Removed(@, h)]
                            /\ frames' = Owing("own", LAMBDA f : [f EXCEPT !.due = Only(@, Handlers \ {h})])
  BY DEF remove
<1>2. Operation /\ lists.own.list # Gone /\ added' = added
  BY DEF remove
<1> DEFINE e == [f \in LoopFrames |-> [f EXCEPT !.due = Only(@, Handlers \ {h})]]
           m == Removed(lists.own, h)
           G == {e[f] : f \in F}
<1>3. OwnFits(lists.own, F) /\ \A i \in DOMAIN frames : frames[i] \in LoopFrames
  BY OwnList
<1>4. Puts("own", m, lists, lists')
  BY <1>1 DEF Puts
<1>5. OwesOn(frames, "own", e, frames')
  BY <1>1, <1>3 DEF OwesOn, Owing, Looping
<1>6. Turns(F, e, G)
  BY DEF Turns
<1>7. Removes(lists.own, F, h, m, e, G)
  <2>1. lists.own.list \in Seq(Handlers)
    BY <1>2, <1>3 DEF OwnFits
  <2>2. AllInside(F)
    BY <1>2, OperationRuns
  <2> QED BY <1>1, <2>1, <2>2 DEF Removes
<1> HIDE DEF e, m, G
<1>8. Owes(e) /\ OwnFits(m, G)
  BY <1>3, <1>7, StepRemove
<1>9. state' = state /\ stuck' = stuck /\ calls' = calls
  BY <1>2, OperationRuns
<1> HIDE DEF F
<1>10. Turns(LoopsOn(frames, "own"), e, G)
  BY <1>6 DEF F
<1> QED BY <1>2, <1>4, <1>5, <1>8, <1>9, <1>10, OnOwn

LEMMA DeferredDisable ==
  ASSUME DeferredInv, disableOrLock
  PROVE  DeferredInv'
<1> DEFINE F == LoopsOn(frames, "own")
           m == lists'.own
           e == [f \in LoopFrames |-> [f EXCEPT !.due = IF m.list = Gone THEN <<>> ELSE @]]
           G == {e[f] : f \in F}
<1>1. /\ Operation /\ added' = added
      /\ frames' = Owing("own", LAMBDA f : [f EXCEPT !.due = IF lists'.own.list = Gone THEN <<>> ELSE @])
  BY DEF disableOrLock
<1>2. (m = Disabled(lists.own) \/ m = Locked(lists.own)) /\ lists' = [lists EXCEPT !["own"] = m]
  <2>1. "own" \in DOMAIN lists
    BY OwnList DEF ListNames
  <2> QED BY <2>1 DEF disableOrLock
<1>3. OwnFits(lists.own, F) /\ \A i \in DOMAIN frames : frames[i] \in LoopFrames
  BY OwnList
<1>4. Puts("own", m, lists, lists')
  BY <1>2 DEF Puts
<1>5. OwesOn(frames, "own", e, frames')
  BY <1>1, <1>3 DEF OwesOn, Owing, Looping
<1>6. Turns(F, e, G)
  BY DEF Turns
<1>7. Ceases(lists.own, F, m, e, G)
  BY <1>2 DEF Ceases
<1> HIDE DEF e, m, G
<1>8. Owes(e) /\ OwnFits(m, G)
  BY <1>3, <1>7, StepDisable
<1>9. state' = state /\ stuck' = stuck /\ calls' = calls
  BY <1>1, OperationRuns
<1> HIDE DEF F
<1>10. Turns(LoopsOn(frames, "own"), e, G)
  BY <1>6 DEF F
<1> QED BY <1>1, <1>4, <1>5, <1>8, <1>9, <1>10, OnOwn

LEMMA DeferredEmpty ==
  ASSUME DeferredInv, empty
  PROVE  DeferredInv'
<1> DEFINE F == LoopsOn(frames, "own")
           m == Emptied(lists.own)
           e == [f \in LoopFrames |-> [f EXCEPT !.emptied = TRUE]]
           G == {e[f] : f \in F}
<1>1. /\ Operation /\ added' = added /\ lists' = [lists EXCEPT !.own = Emptied(@)]
      /\ frames' = Owing("own", LAMBDA f : [f EXCEPT !.emptied = TRUE])
  BY DEF empty
<1>3. OwnFits(lists.own, F) /\ \A i \in DOMAIN frames : frames[i] \in LoopFrames
  BY OwnList
<1>4. Puts("own", m, lists, lists')
  BY <1>1 DEF Puts
<1>5. OwesOn(frames, "own", e, frames')
  BY <1>1, <1>3 DEF OwesOn, Owing, Looping
<1>6. Turns(F, e, G)
  BY DEF Turns
<1>7. Empties(lists.own, F, m, e, G)
  BY <1>3 DEF Empties, OwnFits
<1> HIDE DEF e, m, G
<1>8. Owes(e) /\ OwnFits(m, G)
  BY <1>3, <1>7, StepEmpty
<1>9. state' = state /\ stuck' = stuck /\ calls' = calls
  BY <1>1, OperationRuns
<1> HIDE DEF F
<1>10. Turns(LoopsOn(frames, "own"), e, G)
  BY <1>6 DEF F
<1> QED BY <1>1, <1>4, <1>5, <1>8, <1>9, <1>10, OnOwn

\* A handler is noted if the list is one of a deferred's outcomes.
Notes(n, h, ad, bd) == bd = IF n \in DOMAIN ad THEN [ad EXCEPT ![n] = Append(@, h)] ELSE ad

LEMMA NotedFits ==
  ASSUME NEW n \in ListNames, NEW h \in Handlers, NEW ad, Records(ad), NEW bd, Notes(n, h, ad, bd),
         NEW l, NEW F, NEW st, NEW c, NEW K, ListFits(n, l, F, st, Append(ad[n], h), c, K)
  PROVE  Alike(n, ad, bd) /\ ListFits(n, l, F, st, bd[n], c, K)
<1>0. bd = IF n \in DOMAIN ad THEN [ad EXCEPT ![n] = Append(@, h)] ELSE ad
  BY DEF Notes
<1>1. Alike(n, ad, bd) /\ (n \in OutcomeLists => bd[n] = Append(ad[n], h))
  BY <1>0, AlikeMore
<1>2. CASE n \in OutcomeLists
  BY <1>1, <1>2
<1>3. CASE n \notin OutcomeLists
  <2>1. n \in {"own", "progress"}
    BY <1>3 DEF ListNames, OutcomeLists
  <2> QED BY <1>1, <2>1, Freely
<1> QED BY <1>2, <1>3

LEMMA StaysSame == ASSUME NEW fs, StackFits(fs), NEW n PROVE Elsewhere(n, fs, fs)
BY DEF Elsewhere

\* A list starts to fire.
LEMMA OnPush ==
  ASSUME NEW fs, NEW f, NEW gs, Pushes(fs, f, gs)
  PROVE  Elsewhere(f.name, fs, gs) /\ LoopsOn(gs, f.name) = {f}
<1>1. StackFits(gs)
  BY PushLoop
<1>2. LoopsOn(gs, f.name) = {f}
  BY PushLoop
<1>3. \A m : m # f.name => LoopsOn(gs, m) = LoopsOn(fs, m)
  BY PushLoop
<1> QED BY <1>1, <1>2, <1>3 DEF Elsewhere

LEMMA DeferredAdd ==
  ASSUME DeferredInv, NEW n \in ListNames, add(n)
  PROVE  DeferredInv'
<1> DEFINE F == LoopsOn(frames, n)
           l == lists[n]
<1>1. PICK h \in Handlers : /\ IF lists[n].list = Gone THEN UNCHANGED <<lists, frames>> ELSE AddTo(n, h)
                            /\ added' = IF n \in DOMAIN added THEN [added EXCEPT ![n] = Append(@, h)] ELSE added
  BY DEF add
<1>2. Operation
  BY DEF add
<1>3. state' = state /\ stuck' = stuck /\ calls' = calls /\ AllInside(F) /\ InCallback(frames)
  BY <1>2, OperationRuns
<1>4. /\ ListFits(n, l, F, state, added[n], calls[n], stuck)
      /\ l \in CallbackLists /\ F \subseteq LoopFrames
      /\ DOMAIN lists = ListNames /\ StackFits(frames) /\ Records(added) /\ Records(calls)
  BY ListIs
<1>5. Notes(n, h, added, added')
  BY <1>1 DEF Notes
<1>6. \A i \in DOMAIN frames : frames[i] \in LoopFrames
  BY OwnList
<1>7. Alike(n, calls, calls')
  BY <1>3, <1>4, AlikeSelf
<1>8. lists \in [ListNames -> CallbackLists]
  BY DEF DeferredInv, AllFit
<1>9. CASE l.list = Gone
  <2>1. lists' = lists /\ frames' = frames
    BY <1>1, <1>9
  <2>2. Puts(n, l, lists, lists')
    BY <1>8, <2>1 DEF Puts
  <2>3. Elsewhere(n, frames, frames')
    BY <1>4, <2>1, StaysSame
  <2> HIDE DEF l, F
  <2>4. ListFits(n, l, F, state, Append(added[n], h), calls[n], stuck)
    BY <1>4, <1>9, StepAddNothing
  <2>5. Alike(n, added, added') /\ ListFits(n, l, F, state, added'[n], calls[n], stuck)
    BY <1>4, <1>5, <2>4, NotedFits
  <2>6. LoopsOn(frames', n) = F
    BY <2>1 DEF F
  <2> QED BY <1>3, <1>7, <2>2, <2>3, <2>5, <2>6, OnOne
<1>10. CASE l.list # Gone /\ ~l.firing /\ l.memory
  <2> DEFINE g == PushedTo(l, h)
             b == [l EXCEPT !.list = g, !.firingStart = Len(l.list)]
             m == Firing(b)
             f == Frame(n, b)
  <2>1. AddTo(n, h)
    BY <1>1, <1>10
  <2>2. b = [[l EXCEPT !.list = PushedTo(l, h)] EXCEPT !.firingStart = Len(l.list)]
    OBVIOUS
  <2>3. lists' = [lists EXCEPT ![n] = m] /\ frames' = Append(frames, f)
    BY <1>10, <2>1, <2>2 DEF AddTo
  <2>4. AddBegins(n, l, h, g, b, m, f)
    BY <1>10 DEF AddBegins
  <2>5. Puts(n, m, lists, lists')
    BY <2>3 DEF Puts
  <2> HIDE DEF m, f, b, g, l, F
  <2>6. F = {} /\ f \in LoopFrames /\ f.name = n
    <3> DEFINE a == added[n]
               c == calls[n]
    <3>1. ListFits(n, l, F, state, a, c, stuck)
      BY <1>4
    <3> HIDE DEF a, c
    <3>2. F = {}
      BY <3>1, <2>4, StepAddBegins
    <3>3. f \in LoopFrames
      BY <3>1, <2>4, StepAddBegins
    <3>4. f.name = n
      BY DEF f, Frame
    <3> QED BY <3>2, <3>3, <3>4
  <2>7. ListFits(n, m, {f}, state, Append(added[n], h), calls[n], stuck)
    BY <1>4, <2>4, StepAddBegins
  <2>8. Pushes(frames, f, frames')
    BY <1>3, <1>4, <2>3, <2>6 DEF Pushes, F
  <2>9. Elsewhere(n, frames, frames') /\ LoopsOn(frames', n) = {f}
    BY <2>6, <2>8, OnPush
  <2>10. Alike(n, added, added') /\ ListFits(n, m, {f}, state, added'[n], calls[n], stuck)
    BY <1>4, <1>5, <2>7, NotedFits
  <2> QED BY <1>3, <1>7, <2>5, <2>9, <2>10, OnOne
<1>11. CASE l.list # Gone /\ (l.firing \/ ~l.memory)
  <2> DEFINE g == PushedTo(l, h)
             m == IF l.firing THEN [l EXCEPT !.list = g, !.firingLength = Len(g)] ELSE [l EXCEPT !.list = g]
             e == [f \in LoopFrames |-> [f EXCEPT !.due = @ \o From(g, Len(l.list) + 1)]]
             G == {e[f] : f \in F}
  <2>1. AddTo(n, h)
    BY <1>1, <1>11
  <2>2. /\ m = IF l.firing THEN [[l EXCEPT !.list = PushedTo(l, h)] EXCEPT !.firingLength = Len([l EXCEPT !.list = PushedTo(l, h)].list)]
               ELSE [l EXCEPT !.list = PushedTo(l, h)]
        /\ [l EXCEPT !.list = PushedTo(l, h)].list = g
    BY <1>4 DEF CallbackLists
  <2>3. lists' = [lists EXCEPT ![n] = m]
    BY <1>11, <2>1, <2>2 DEF AddTo
  <2>4. frames' = Owing(n, LAMBDA f : [f EXCEPT !.due = @ \o From(g, Len(l.list) + 1)])
    BY <1>11, <2>1, <2>2 DEF AddTo, From, Owing, Looping
  <2>5. Puts(n, m, lists, lists')
    BY <2>3 DEF Puts
  <2>6. OwesOn(frames, n, e, frames')
    BY <1>6, <2>4 DEF OwesOn, Owing, Looping
  <2>7. Turns(F, e, G)
    BY DEF Turns
  <2>8. Adds(l, F, h, g, m, e, G)
    BY <1>3, <1>11 DEF Adds
  <2> HIDE DEF g, m, e, G, l
  <2>9. Owes(e)
    BY <1>4, <2>8, StepAdd
  <2>10. ListFits(n, m, G, state, Append(added[n], h), calls[n], stuck)
    BY <1>4, <2>8, StepAdd
  <2>11. Elsewhere(n, frames, frames') /\ LoopsOn(frames', n) = G
    BY <1>4, <2>6, <2>7, <2>9, OnLoops
  <2> HIDE DEF F
  <2>12. Alike(n, added, added') /\ ListFits(n, m, G, state, added'[n], calls[n], stuck)
    BY <1>4, <1>5, <2>10, NotedFits
  <2> QED BY <1>3, <1>7, <2>5, <2>11, <2>12, OnOne
<1> QED
  <2>1. l.firing \in BOOLEAN /\ l.memory \in BOOLEAN
    BY <1>4, ListFields
  <2> QED BY <1>9, <1>10, <1>11, <2>1

LEMMA DeferredFire ==
  ASSUME DeferredInv, NEW n \in ListNames, fireWith(n)
  PROVE  DeferredInv'
<1> DEFINE F == LoopsOn(frames, n)
           l == lists[n]
           a == added[n]
           c == calls[n]
<1>1. /\ IF l.list = Gone \/ (l.fired /\ l.stack = Gone) THEN UNCHANGED <<lists, frames>>
         ELSE IF l.firing THEN lists' = [lists EXCEPT ![n].stack = @ + 1] /\ UNCHANGED frames
         ELSE lists' = [lists EXCEPT ![n] = Firing(l)] /\ frames' = Append(frames, Frame(n, l))
      /\ Operation /\ added' = added
  BY DEF fireWith
<1>3. state' = state /\ stuck' = stuck /\ calls' = calls /\ InCallback(frames)
  BY <1>1, OperationRuns
<1>4. /\ ListFits(n, l, F, state, a, c, stuck)
      /\ l \in CallbackLists
      /\ DOMAIN lists = ListNames /\ StackFits(frames) /\ Records(added) /\ Records(calls)
  BY ListIs
<1>7. Alike(n, calls, calls') /\ Alike(n, added, added')
  BY <1>1, <1>3, <1>4, AlikeSelf
<1>8. lists \in [ListNames -> CallbackLists]
  BY DEF DeferredInv, AllFit
<1>9. CASE l.list = Gone \/ (l.fired /\ l.stack = Gone)
  <2>1. lists' = lists /\ frames' = frames
    BY <1>1, <1>9
  <2> QED BY <1>1, <1>3, <2>1 DEF DeferredInv
<1>10. CASE ~(l.list = Gone \/ (l.fired /\ l.stack = Gone)) /\ l.firing
  <2> DEFINE m == [l EXCEPT !.stack = @ + 1]
  <2>1. lists' = [lists EXCEPT ![n] = m] /\ frames' = frames
    BY <1>1, <1>10
  <2>2. Puts(n, m, lists, lists')
    BY <2>1 DEF Puts
  <2>3. l.stack # Gone
    <3>1. l.fired
      BY <1>4, <1>10 DEF ListFits, Account
    <3> QED BY <1>10, <3>1
  <2>4. ListFits(n, m, F, state, a, c, stuck)
    <3> HIDE DEF l, F, a, c
    <3> QED BY <1>4, <2>3, StepQueue
  <2> HIDE DEF m
  <2>5. Elsewhere(n, frames, frames')
    BY <1>4, <2>1, StaysSame
  <2> QED BY <1>1, <1>3, <1>7, <2>1, <2>2, <2>4, <2>5, OnOne
<1>11. CASE ~(l.list = Gone \/ (l.fired /\ l.stack = Gone)) /\ ~l.firing
  <2> DEFINE m == Firing(l)
             f == Frame(n, l)
  <2>1. lists' = [lists EXCEPT ![n] = m] /\ frames' = Append(frames, f)
    BY <1>1, <1>11
  <2>2. Puts(n, m, lists, lists')
    BY <2>1 DEF Puts
  <2>3. Fires(n, l, m, f)
    BY <1>11 DEF Fires
  <2>4. f.name = n
    BY DEF Frame
  <2> HIDE DEF m, f, l, F, a, c
  <2>5. F = {}
    BY <1>4, <2>3, StepFire
  <2>6. f \in LoopFrames
    BY <1>4, <2>3, StepFire
  <2>7. ListFits(n, m, {f}, state, a, c, stuck)
    BY <1>4, <2>3, StepFire
  <2>8. Pushes(frames, f, frames')
    BY <1>3, <1>4, <2>1, <2>4, <2>5, <2>6 DEF Pushes, F
  <2>9. Elsewhere(n, frames, frames') /\ LoopsOn(frames', n) = {f}
    BY <2>4, <2>8, OnPush
  <2>10. ListFits(n, m, LoopsOn(frames', n), state, added'[n], calls'[n], stuck)
    BY <1>1, <1>3, <2>7, <2>9 DEF a, c
  <2> QED BY <1>1, <1>3, <1>7, <2>2, <2>9, <2>10, OnOne
<1> QED
  <2>1. l.firing \in BOOLEAN
    BY <1>4, ListFields
  <2> QED BY <1>9, <1>10, <1>11, <2>1

\* The innermost loop, its list, and what a step of it replaces it by.
LEMMA InnermostRuns ==
  ASSUME DeferredInv, frames # <<>>
  PROVE  /\ Loop \in LoopFrames /\ Loop.name \in ListNames /\ StackFits(frames) /\ LoopsOn(frames, Loop.name) = {Loop}
         /\ ListFits(Loop.name, lists[Loop.name], {Loop}, state, added[Loop.name], calls[Loop.name], stuck)
         /\ lists[Loop.name] \in CallbackLists /\ lists \in [ListNames -> CallbackLists]
         /\ Records(added) /\ Records(calls)
<1>1. StackFits(frames) /\ Records(added) /\ Records(calls) /\ lists \in [ListNames -> CallbackLists]
  BY DEF DeferredInv, AllFit
<1>2. Loop \in LoopFrames
  BY <1>1, StackTypes DEF Loop
<1>3. Loop.name \in ListNames
  BY <1>2 DEF LoopFrames
<1>4. LoopsOn(frames, Loop.name) = {Loop}
  <2> DEFINE gs == SubSeq(frames, 1, Len(frames) - 1)
  <2>1. gs = SubSeq(frames, 1, Len(frames) - 1)
    OBVIOUS
  <2> HIDE DEF gs
  <2> QED BY <1>1, <2>1, PopLoop DEF Loop
<1>5. ListFits(Loop.name, lists[Loop.name], LoopsOn(frames, Loop.name), state, added[Loop.name], calls[Loop.name], stuck)
  BY <1>3, ListIs
<1>6. ListFits(Loop.name, lists[Loop.name], {Loop}, state, added[Loop.name], calls[Loop.name], stuck)
  BY <1>4, <1>5
<1>7. lists[Loop.name] \in CallbackLists
  BY <1>1, <1>3
<1> QED BY <1>1, <1>2, <1>3, <1>4, <1>6, <1>7

Swaps(fs, f, gs) == f \in LoopFrames /\ fs # <<>> /\ f.name = Last(fs).name /\ gs = Append(SubSeq(fs, 1, Len(fs) - 1), f)

LEMMA OnSwap ==
  ASSUME NEW fs, StackFits(fs), NEW f, NEW gs, Swaps(fs, f, gs), NEW n, f.name = n
  PROVE  Elsewhere(n, fs, gs) /\ LoopsOn(gs, n) = {f}
<1>0. f \in LoopFrames /\ fs # <<>> /\ f.name = Last(fs).name /\ gs = Append(SubSeq(fs, 1, Len(fs) - 1), f)
  BY DEF Swaps
<1>1. StackFits(gs) /\ LoopsOn(gs, f.name) = {f}
  BY <1>0, SwapLoop
<1> DEFINE bs == SubSeq(fs, 1, Len(fs) - 1)
<1>2. /\ StackFits(bs) /\ LoopsOn(fs, Last(fs).name) = {Last(fs)} /\ LoopsOn(bs, Last(fs).name) = {}
      /\ \A m : m # Last(fs).name => LoopsOn(bs, m) = LoopsOn(fs, m)
      /\ InCallback(bs)
  BY <1>0, PopLoop
<1> HIDE DEF bs
<1>4. Pushes(bs, f, gs)
  BY <1>0, <1>2 DEF Pushes, bs
<1>5. \A m : m # f.name => LoopsOn(gs, m) = LoopsOn(bs, m)
  BY <1>4, PushLoop
<1>6. \A m : m # n => LoopsOn(gs, m) = LoopsOn(fs, m)
  BY <1>0, <1>2, <1>5, Zenon
<1> QED BY <1>1, <1>6, Zenon DEF Elsewhere

Swapped(n, fs, f, gs) == Elsewhere(n, fs, gs) /\ LoopsOn(gs, n) = {f}

LEMMA IsSwapped ==
  ASSUME NEW fs, StackFits(fs), NEW f, NEW gs, Swaps(fs, f, gs), NEW n, f.name = n
  PROVE  Swapped(n, fs, f, gs)
BY OnSwap DEF Swapped

\* The innermost loop and its list take a step.
InnerStep(m, g) ==
  /\ ListFits(Loop.name, m, {g}, state, added[Loop.name], calls'[Loop.name], stuck) /\ g \in LoopFrames
  /\ g.name = Loop.name /\ lists' = [lists EXCEPT ![Loop.name] = m] /\ frames' = Append(Below, g)

LEMMA OnInner ==
  ASSUME DeferredInv, frames # <<>>, NEW m, NEW g, InnerStep(m, g),
         state' = state, added' = added, stuck' = stuck, Alike(Loop.name, calls, calls')
  PROVE  DeferredInv'
<1> DEFINE n == Loop.name
<1>1. n \in ListNames /\ StackFits(frames) /\ Alike(n, added, added') /\ g.name = n
  BY InnermostRuns, AlikeSelf DEF InnerStep
<1>2. Puts(n, m, lists, lists')
  BY DEF Puts, InnerStep
<1>3. Swaps(frames, g, frames')
  BY DEF Swaps, Below, Loop, InnerStep
<1>a. Alike(n, calls, calls')
  OBVIOUS
<1>b. ListFits(n, m, {g}, state, added[n], calls'[n], stuck)
  BY DEF InnerStep
<1> HIDE DEF n
<1>4. Elsewhere(n, frames, frames')
  BY <1>1, <1>3, OnSwap, Zenon
<1>5. LoopsOn(frames', n) = {g}
  BY <1>1, <1>3, OnSwap
<1>6. ListFits(n, m, LoopsOn(frames', n), state, added'[n], calls'[n], stuck)
  BY <1>b, <1>5
<1> QED BY <1>1, <1>2, <1>4, <1>6, <1>a, OnOne

LEMMA DeferredReturn ==
  ASSUME DeferredInv, Return
  PROVE  DeferredInv'
<1> DEFINE f == Loop
           n == Loop.name
           l == lists[n]
           a == added[n]
           c == calls[n]
<1>1. /\ frames # <<>> /\ f.at = "running"
      /\ state' = state /\ added' = added /\ calls' = calls /\ stuck' = stuck
  BY DEF Return
<1>2. /\ f \in LoopFrames /\ n \in ListNames /\ StackFits(frames) /\ l \in CallbackLists
      /\ ListFits(n, l, {f}, state, a, c, stuck) /\ Records(added) /\ Records(calls)
  BY <1>1, InnermostRuns
<1>3. Alike(n, calls, calls') /\ Alike(n, added, added')
  BY <1>1, <1>2, AlikeSelf
<1>4. ASSUME NEW m, NEW g, ListFits(n, m, {g}, state, a, c, stuck), g \in LoopFrames, g.name = n,
             lists' = [lists EXCEPT ![n] = m], frames' = Append(Below, g)
      PROVE  DeferredInv'
  <2>1. InnerStep(m, g)
    BY <1>1, <1>4 DEF InnerStep
  <2> QED BY <1>1, <1>3, <2>1, OnInner
<1>5. CASE lists' = [lists EXCEPT ![Loop.name].firingIndex = @ + 1] /\ frames' = Append(Below, [Loop EXCEPT !.at = "loop"])
  <2> DEFINE m == [l EXCEPT !.firingIndex = @ + 1]
             g == [f EXCEPT !.at = "loop"]
  <2>1. Returns(l, f, m, g)
    BY <1>1 DEF Returns
  <2>2. lists' = [lists EXCEPT ![n] = m] /\ frames' = Append(Below, g)
    BY <1>5
  <2> HIDE DEF m, g, l, f, n, a, c
  <2>3. g.name = n
    BY <1>2, <2>1, StepReturn
  <2>4. g \in LoopFrames
    BY <1>2, <2>1, StepReturn
  <2>5. ListFits(n, m, {g}, state, a, c, stuck)
    BY <1>2, <2>1, StepReturn
  <2> QED BY <1>4, <2>2, <2>3, <2>4, <2>5
<1>6. CASE /\ "stopOnFalse" \in InLoop.options
           /\ lists' = [lists EXCEPT ![Loop.name].memory = FALSE]
           /\ frames' = Append(Below, [Loop EXCEPT !.at = "end"])
  <2> DEFINE m == [l EXCEPT !.memory = FALSE]
             g == [f EXCEPT !.at = "end"]
  <2>1. Stops(l, f, m, g)
    BY DEF Stops
  <2>2. lists' = [lists EXCEPT ![n] = m] /\ frames' = Append(Below, g) /\ "stopOnFalse" \in l.options
    BY <1>6 DEF InLoop
  <2> HIDE DEF m, g, l, f, n, a, c
  <2>3. g.name = n
    BY <1>2, <2>1, <2>2, StepStop
  <2>4. g \in LoopFrames
    BY <1>2, <2>1, <2>2, StepStop
  <2>5. ListFits(n, m, {g}, state, a, c, stuck)
    BY <1>2, <2>1, <2>2, StepStop
  <2> QED BY <1>4, <2>2, <2>3, <2>4, <2>5
<1> QED BY <1>5, <1>6 DEF Return

LEMMA DeferredEnd ==
  ASSUME DeferredInv, EndFire
  PROVE  DeferredInv'
<1> DEFINE f == Loop
           n == Loop.name
           p == lists[n]
           a == added[n]
           c == calls[n]
           l == [p EXCEPT !.firing = FALSE]
           m == IF l.list = Gone \/ l.stack = 0 THEN l
                ELSE IF Again(l) THEN Firing([l EXCEPT !.stack = @ - 1])
                ELSE IF l.memory THEN [l EXCEPT !.list = <<>>] ELSE Disabled(l)
           g == Frame(n, l)
<1>1. /\ frames # <<>> /\ (f.at = "end" \/ (f.at = "loop" /\ ~Goes))
      /\ lists' = [lists EXCEPT ![n] = m]
      /\ frames' = IF Again(l) THEN Append(Below, g) ELSE Below
      /\ state' = state /\ added' = added /\ calls' = calls /\ stuck' = stuck
  BY DEF EndFire, InLoop, Again
<1>2. /\ f \in LoopFrames /\ n \in ListNames /\ StackFits(frames) /\ p \in CallbackLists
      /\ ListFits(n, p, {f}, state, a, c, stuck) /\ Records(added) /\ Records(calls)
  BY <1>1, InnermostRuns
<1>3. Alike(n, calls, calls') /\ Alike(n, added, added')
  BY <1>1, <1>2, AlikeSelf
<1>4. f.at = "end" \/ (f.at = "loop" /\ ~(p.list # Gone /\ p.firingIndex < p.firingLength))
  BY <1>1 DEF Goes, InLoop
<1>5. FinishesLoop(p, n, l, m, g)
  <2>1. Again(l) => ~(l.list = Gone \/ l.stack = 0)
    BY DEF Again
  <2>a. l.memory \in BOOLEAN
    BY <1>2 DEF CallbackLists
  <2> HIDE DEF l
  <2>b. l.list = Gone \/ l.stack = 0 => m = l
    BY <2>1
  <2>c. Again(l) => m = Firing([l EXCEPT !.stack = @ - 1])
    BY <2>1
  <2>d. l.list # Gone /\ l.stack # 0 /\ ~Again(l) /\ l.memory => m = [l EXCEPT !.list = <<>>]
    BY <2>a
  <2>e. l.list # Gone /\ l.stack # 0 /\ ~Again(l) /\ ~l.memory => m = Disabled(l)
    BY <2>a
  <2> HIDE DEF m
  <2>2. EndsLoop(l, m)
    BY <2>b, <2>c, <2>d, <2>e DEF EndsLoop
  <2> QED BY <1>2, <2>2 DEF FinishesLoop, l
<1>6. g.name = n
  BY DEF Frame
<1> HIDE DEF l, m, g, p, a, c
<1>7. CASE Again(l)
  <2> HIDE DEF f, n
  <2>1. g \in LoopFrames
    BY <1>2, <1>4, <1>5, <1>7, StepEnd
  <2>2. ListFits(n, m, {g}, state, a, c, stuck)
    BY <1>2, <1>4, <1>5, <1>7, StepEnd
  <2>3. InnerStep(m, g)
    BY <1>1, <1>6, <1>7, <2>1, <2>2 DEF InnerStep, n, a, c
  <2> QED BY <1>1, <1>3, <2>3, OnInner DEF n
<1>8. CASE ~Again(l)
  <2> HIDE DEF f, n
  <2>1. ListFits(n, m, {}, state, a, c, stuck)
    BY <1>2, <1>4, <1>5, <1>8, StepEnd
  <2>2. Puts(n, m, lists, lists')
    BY <1>1 DEF Puts
  <2> DEFINE gs == SubSeq(frames, 1, Len(frames) - 1)
  <2>3. /\ StackFits(gs) /\ LoopsOn(frames, Last(frames).name) = {Last(frames)} /\ LoopsOn(gs, Last(frames).name) = {}
        /\ \A k : k # Last(frames).name => LoopsOn(gs, k) = LoopsOn(frames, k)
        /\ InCallback(gs)
    BY <1>1, <1>2, PopLoop
  <2>4. frames' = gs /\ n = Last(frames).name
    BY <1>1, <1>8 DEF Below, n, Loop
  <2> HIDE DEF gs
  <2>5. Elsewhere(n, frames, frames') /\ LoopsOn(frames', n) = {}
    BY <2>3, <2>4 DEF Elsewhere
  <2>6. ListFits(n, m, LoopsOn(frames', n), state, added'[n], calls'[n], stuck)
    BY <1>1, <2>1, <2>5 DEF a, c
  <2> QED BY <1>1, <1>2, <1>3, <2>2, <2>5, <2>6, OnOne
<1> QED BY <1>7, <1>8

LEMMA DeferredThrow ==
  ASSUME DeferredInv, Throw
  PROVE  DeferredInv'
<1>1. /\ frames # <<>> /\ Loop.at = "running" /\ frames' = <<>>
      /\ stuck' = stuck \cup {frames[i].name : i \in DOMAIN frames}
      /\ lists' = lists /\ state' = state /\ added' = added /\ calls' = calls
  BY DEF Throw
<1>2. AllFit(lists, frames, state, added, calls, stuck)
  BY DEF DeferredInv
<1>3. \A m : AllInside(LoopsOn(frames, m))
  <2>1. InCallback(frames)
    BY <1>1 DEF InCallback, Loop, Last
  <2> QED BY <1>2, <2>1, AllRun DEF AllFit
<1>4. ASSUME NEW n \in ListNames PROVE ListFits(n, lists[n], {}, state, added[n], calls[n], stuck')
  <2> DEFINE J == stuck'
             F == LoopsOn(frames, n)
             l == lists[n]
             a == added[n]
             c == calls[n]
  <2>1. n \in J <=> (n \in stuck \/ F # {})
    BY <1>1 DEF LoopsOn
  <2>2. ListFits(n, l, F, state, a, c, stuck) /\ AllInside(F)
    BY <1>2, <1>3 DEF AllFit
  <2> HIDE DEF J, F, l, a, c
  <2>3. ListFits(n, l, {}, state, a, c, J)
    BY <2>1, <2>2, StepThrow
  <2> QED BY <2>3 DEF J, l, a, c
<1>5. StackFits(frames') /\ \A n : LoopsOn(frames', n) = {}
  BY <1>1, NoLoops
<1>6. AllFit(lists', frames', state', added', calls', stuck')
  BY <1>1, <1>2, <1>4, <1>5 DEF AllFit
<1> QED BY <1>6 DEF DeferredInv

\* The first callback of done or of fail: three lists change at once.
LEMMA DeferredSettle ==
  ASSUME DeferredInv, frames # <<>>, Loop.at = "loop", Goes, InLoop.list[InLoop.firingIndex + 1] = "settle", settle,
         added' = added, stuck' = stuck
  PROVE  DeferredInv'
<1> DEFINE f == Loop
           n == Loop.name
           o == Other[n]
           l == lists[n]
           a == added[n]
           c == calls[n]
           m == [l EXCEPT !.firingIndex = @ + 1]
           g == [f EXCEPT !.due = Owed(@)]
<1>1. /\ f \in LoopFrames /\ n \in ListNames /\ StackFits(frames) /\ l \in CallbackLists
      /\ ListFits(n, l, {f}, state, a, c, stuck) /\ Records(added) /\ Records(calls)
      /\ lists \in [ListNames -> CallbackLists]
  BY InnermostRuns
<1>2. Account(l, {f})
  BY <1>1 DEF ListFits
<1>3. SettlesCall(l, f, m, g)
  <2>1. l = InLoop
    BY DEF InLoop
  <2>2. l.list # Gone /\ l.firingIndex < l.firingLength
    BY <2>1 DEF Goes
  <2>3. l.list[l.firingIndex + 1] = "settle"
    BY <2>1
  <2> HIDE DEF l, m, g
  <2>4. Takes(l, f)
    BY <1>2, <2>2 DEF Takes
  <2> QED BY <2>3, <2>4 DEF SettlesCall, m, g
<1>4. n \in {"done", "fail"} /\ state = "pending"
  <2> HIDE DEF f, n, l, a, c, m, g
  <2>1. n \in {"done", "fail"}
    BY <1>1, <1>3, StepSettle
  <2>2. state = "pending"
    BY <1>1, <1>3, StepSettle
  <2> QED BY <2>1, <2>2
<1>n. g.name = n
  <2>1. f.name = n /\ f \in LoopFrames
    BY <1>1
  <2> HIDE DEF f, n
  <2> QED BY <2>1 DEF LoopFrames
<1>5. g \in LoopFrames /\ ListFits(n, m, {g}, Final[n], a, c, stuck)
  <2> HIDE DEF f, n, l, a, c, m, g
  <2>1. g \in LoopFrames
    BY <1>1, <1>3, StepSettle
  <2>2. ListFits(n, m, {g}, Final[n], a, c, stuck)
    BY <1>1, <1>3, StepSettle
  <2> QED BY <2>1, <2>2
<1>6. frames' = Append(Below, g) /\ state' = Final[n] /\ calls' = calls
  BY DEF settle
<1>l. lists' = [lists EXCEPT ![n].firingIndex = @ + 1, ![o] = Disabled(@), !["progress"] = Locked(@)]
  BY DEF settle
<1>s. StackFits(frames) /\ g.name = n
  BY <1>1, <1>n
<1> HIDE DEF g, m, l, f
<1>7. Swaps(frames, g, frames')
  BY <1>4, <1>n, <1>5, <1>6 DEF Swaps, Below, Loop, n
<1>8. Swapped(n, frames, g, frames')
  <2> HIDE DEF n
  <2> QED BY <1>s, <1>7, IsSwapped
<1>9. Elsewhere(n, frames, frames') /\ LoopsOn(frames', n) = {g}
  BY <1>8 DEF Swapped
<1>10. o \in {"done", "fail"} /\ o # n /\ Other[o] = n
  <2> HIDE DEF n
  <2> QED BY <1>4 DEF Other
<1> HIDE DEF o
<1>p. /\ lists' = [k \in ListNames |-> lists'[k]] /\ lists'[n] = m /\ lists'[o] = Disabled(lists[o])
      /\ lists'["progress"] = Locked(lists["progress"]) /\ lists'["own"] = lists["own"]
  <2>1. {n, o, "progress", "own"} \subseteq ListNames /\ n # o /\ "progress" \notin {n, o} /\ "own" \notin {n, o}
    BY <1>4, <1>10 DEF ListNames
  <2>2. DOMAIN lists = ListNames
    BY <1>1
  <2> HIDE DEF n
  <2>3. lists'["progress"] = Locked(lists["progress"]) /\ lists'["own"] = lists["own"]
    BY <1>l, <2>1, <2>2
  <2>4. lists'[o] = Disabled(lists[o])
    BY <1>l, <2>1, <2>2
  <2>5. lists'[n] = m
    BY <1>l, <2>1, <2>2 DEF m, l
  <2>6. lists' = [k \in ListNames |-> lists'[k]]
    BY <1>l, <2>2
  <2> QED BY <2>3, <2>4, <2>5, <2>6
<1>11. ListFits(n, lists'[n], LoopsOn(frames', n), state', added'[n], calls'[n], stuck')
  <2>1. lists'[n] = m
    BY <1>p
  <2> QED BY <1>5, <1>6, <1>9, <2>1
<1>12. ListFits(o, lists'[o], LoopsOn(frames', o), state', added'[o], calls'[o], stuck')
  <2> DEFINE k == lists[o]
             x == added[o]
             y == calls[o]
             F == LoopsOn(frames, o)
  <2>1. lists'[o] = Disabled(k)
    BY <1>p
  <2>2. ListFits(o, k, F, "pending", x, y, stuck)
    BY <1>4, <1>10 DEF DeferredInv, AllFit, ListNames
  <2>3. AllInside(F)
    <3>1. o # Last(frames).name
      BY <1>10 DEF n, Loop
    <3> QED BY <1>1, <3>1, BelowRun
  <2>4. LoopsOn(frames', o) = F
    BY <1>9, <1>10 DEF Elsewhere
  <2>5. x = added'[o] /\ y = calls'[o] /\ state' = Final[Other[o]] /\ stuck' = stuck
    BY <1>6, <1>10
  <2> HIDE DEF k, x, y, F
  <2>6. ListFits(o, Disabled(k), F, Final[Other[o]], x, y, stuck)
    BY <1>10, <2>2, <2>3, StepLose
  <2> QED BY <2>1, <2>4, <2>5, <2>6
<1>13. ListFits("progress", lists'["progress"], LoopsOn(frames', "progress"), state', added'["progress"], calls'["progress"], stuck')
  <2> DEFINE p == "progress"
             k == lists[p]
             x == added[p]
             y == calls[p]
             F == LoopsOn(frames, p)
  <2>1. lists'[p] = Locked(k)
    BY <1>p
  <2>2. ListFits("progress", k, F, state, x, y, stuck)
    BY DEF DeferredInv, AllFit, ListNames
  <2>4. LoopsOn(frames', p) = F
    BY <1>4, <1>9 DEF Elsewhere
  <2>5. x = added'[p] /\ y = calls'[p] /\ stuck' = stuck
    BY <1>6
  <2> HIDE DEF k, x, y, F
  <2>6. ListFits("progress", Locked(k), F, state', x, y, stuck)
    BY <2>2, StepProgress
  <2> QED BY <2>1, <2>4, <2>5, <2>6
<1>14. ListFits("own", lists'["own"], LoopsOn(frames', "own"), state', added'["own"], calls'["own"], stuck')
  <2> DEFINE k == lists["own"]
             x == added["own"]
             y == calls["own"]
             F == LoopsOn(frames, "own")
  <2>1. lists'["own"] = k
    BY <1>p
  <2>2. ListFits("own", k, F, state, x, y, stuck)
    BY DEF DeferredInv, AllFit, ListNames
  <2>4. LoopsOn(frames', "own") = F
    BY <1>4, <1>9 DEF Elsewhere
  <2>5. x = added'["own"] /\ y = calls'["own"] /\ stuck' = stuck
    BY <1>6
  <2> HIDE DEF k, x, y, F
  <2>6. ListFits("own", k, F, state', x, y, stuck)
    BY <2>2, Freely
  <2> QED BY <2>1, <2>4, <2>5, <2>6
<1>15. ASSUME NEW k \in ListNames PROVE ListFits(k, lists'[k], LoopsOn(frames', k), state', added'[k], calls'[k], stuck')
  <2>1. k = n \/ k = o \/ k = "progress" \/ k = "own"
    BY <1>4, <1>10 DEF ListNames
  <2> HIDE DEF n
  <2> QED BY <1>11, <1>12, <1>13, <1>14, <2>1
<1>16. lists' \in [ListNames -> CallbackLists]
  <2>1. lists' = [k \in ListNames |-> lists'[k]]
    BY <1>p
  <2>2. \A k \in ListNames : lists'[k] \in CallbackLists
    BY <1>15 DEF ListFits, Account
  <2> QED BY <2>1, <2>2
<1>17. AllFit(lists', frames', state', added', calls', stuck')
  <2>1. StackFits(frames') /\ Records(added') /\ Records(calls')
    BY <1>1, <1>6, <1>9 DEF Elsewhere
  <2> QED BY <1>15, <1>16, <2>1 DEF AllFit
<1> QED BY <1>17 DEF DeferredInv

LEMMA DeferredCall ==
  ASSUME DeferredInv, Call
  PROVE  DeferredInv'
<1> DEFINE f == Loop
           n == Loop.name
           l == lists[n]
           a == added[n]
           c == calls[n]
           h == l.list[l.firingIndex + 1]
           g == [f EXCEPT !.at = "running", !.due = Owed(@)]
<1>1. /\ frames # <<>> /\ Loop.at = "loop" /\ Goes /\ added' = added /\ stuck' = stuck
      /\ IF h = "settle" THEN settle
         ELSE /\ frames' = Append(Below, g)
              /\ calls' = IF Loop.name \in DOMAIN calls THEN [calls EXCEPT ![Loop.name] = Append(@, h)] ELSE calls
              /\ UNCHANGED <<lists, state>>
  BY DEF Call, InLoop
<1>2. CASE h = "settle"
  BY <1>1, <1>2, DeferredSettle DEF InLoop
<1>3. CASE h # "settle"
  <2> DEFINE d == IF n \in {"done", "fail"} THEN Append(c, h) ELSE c
  <2>1. /\ f \in LoopFrames /\ n \in ListNames /\ StackFits(frames) /\ l \in CallbackLists
        /\ ListFits(n, l, {f}, state, a, c, stuck) /\ Records(added) /\ Records(calls)
        /\ lists \in [ListNames -> CallbackLists]
    BY <1>1, InnermostRuns
  <2>2. Takes(l, f)
    <3>1. Account(l, {f})
      BY <2>1 DEF ListFits
    <3>2. l.list # Gone /\ l.firingIndex < l.firingLength
      BY <1>1 DEF Goes, InLoop
    <3> QED BY <1>1, <3>1, <3>2 DEF Takes
  <2>3. Proceeds(n, l, f, h, g, c, d)
    <3> HIDE DEF l, f, c, n
    <3> QED BY <1>3, <2>2 DEF Proceeds
  <2>4. h \in Handlers
    <3> DEFINE k == l.firingIndex + 1
               z == Owed(f.due)
    <3>1. k = l.firingIndex + 1 /\ z = Owed(f.due)
      OBVIOUS
    <3>2. l.list[k] \in Fn
      <4> HIDE DEF k, z, l, f
      <4> QED BY <2>2, <3>1, AccountCall
    <3> QED BY <1>3, <3>2 DEF Fn
  <2>5. frames' = Append(Below, g) /\ Notes(n, h, calls, calls') /\ lists' = [lists EXCEPT ![n] = l] /\ state' = state
    BY <1>1, <1>3, <2>1 DEF Notes
  <2>6. Alike(n, calls, calls') /\ (n \in OutcomeLists => calls'[n] = Append(calls[n], h))
    <3> DEFINE x == calls'
    <3>1. x = IF n \in DOMAIN calls THEN [calls EXCEPT ![n] = Append(@, h)] ELSE calls
      BY <2>5 DEF Notes
    <3> HIDE DEF n, h
    <3> QED BY <2>1, <2>4, <3>1, AlikeMore
  <2> HIDE DEF f, l, a, g, h
  <2>7. ListFits(n, l, {g}, state, a, d, stuck)
    <3> HIDE DEF n, c, d
    <3> QED BY <2>1, <2>3, StepRun
  <2>8. g \in LoopFrames
    <3> HIDE DEF n, c, d
    <3> QED BY <2>1, <2>3, StepRun
  <2>9. g.name = n
    BY <2>1 DEF g, f, LoopFrames
  <2>10. ListFits(n, l, {g}, state, a, calls'[n], stuck)
    <3>1. CASE n \in OutcomeLists
      <4>1. calls'[n] = d
        BY <2>6, <3>1 DEF OutcomeLists
      <4> QED BY <2>7, <4>1
    <3>2. CASE n \notin OutcomeLists
      <4>1. n \in {"own", "progress"}
        BY <2>1, <3>2 DEF ListNames, OutcomeLists
      <4> HIDE DEF n, d
      <4> QED BY <2>7, <4>1, Freely
    <3> QED BY <3>1, <3>2
  <2>11. InnerStep(l, g)
    BY <2>5, <2>8, <2>9, <2>10 DEF InnerStep, a
  <2> QED BY <1>1, <2>5, <2>6, <2>11, OnInner
<1> QED BY <1>2, <1>3

LEMMA DeferredStarts == ASSUME DeferredsInit PROVE DeferredInv
<1>1. PICK options \in SUBSET Flags : 
           lists = [n \in {"own"} \cup DOMAIN tuples |-> IF n = "own" THEN Callbacks(options) ELSE tuples[n]]
  BY DEF DeferredsInit
<1>2. /\ frames = <<>> /\ state = "pending" /\ stuck = {}
      /\ added = [done |-> <<>>, fail |-> <<>>] /\ calls = [done |-> <<>>, fail |-> <<>>]
  BY DEF DeferredsInit
<1> DEFINE both == WithSettle(Callbacks({"once", "memory"}))
           own  == Callbacks(options)
           slow == Callbacks({"memory"})
<1>3. lists = [n \in ListNames |-> IF n = "own" THEN own ELSE IF n = "progress" THEN slow ELSE both]
  <2>1. DOMAIN tuples = {"done", "fail", "progress"} /\ tuples.done = both /\ tuples.fail = both /\ tuples.progress = slow
    BY DEF tuples
  <2>2. lists = [n \in {"own"} \cup DOMAIN tuples |-> IF n = "own" THEN own ELSE tuples[n]]
    BY <1>1
  <2> HIDE DEF own, both, slow
  <2>3. {"own"} \cup DOMAIN tuples = ListNames
    BY <2>1 DEF ListNames
  <2>4. \A n \in ListNames :
          (IF n = "own" THEN own ELSE tuples[n]) = IF n = "own" THEN own ELSE IF n = "progress" THEN slow ELSE both
    BY <2>1 DEF ListNames
  <2> QED BY <2>2, <2>3, <2>4
<1>4. <<>> \in Seq(Handlers) /\ <<>> \in Seq(Fn) /\ <<"settle">> \in Seq(Fn)
  BY EmptySeq DEF Fn
<1>5. \A o \in SUBSET Flags : /\ Callbacks(o) \in CallbackLists /\ Callbacks(o).options = o /\ Callbacks(o).list = <<>>
                              /\ ~Callbacks(o).firing /\ ~Callbacks(o).fired /\ ~Callbacks(o).memory
                              /\ ("once" \in o => Callbacks(o).stack = Gone)
  <2> SUFFICES ASSUME NEW o \in SUBSET Flags
               PROVE  /\ Callbacks(o) \in CallbackLists /\ Callbacks(o).options = o /\ Callbacks(o).list = <<>>
                      /\ ~Callbacks(o).firing /\ ~Callbacks(o).fired /\ ~Callbacks(o).memory
                      /\ ("once" \in o => Callbacks(o).stack = Gone)
    OBVIOUS
  <2>1. (IF "once" \in o THEN Gone ELSE 0) \in Nat \cup {Gone}
    OBVIOUS
  <2>2. Callbacks(o) \in CallbackLists
    BY <1>4, <2>1 DEF Callbacks, CallbackLists
  <2> QED BY <2>2 DEF Callbacks
<1>6. {"once", "memory"} \in SUBSET Flags /\ {"memory"} \in SUBSET Flags
  BY DEF Flags
<1>7. /\ both \in CallbackLists /\ both.options = {"once", "memory"} /\ both.list = <<"settle">>
      /\ ~both.firing /\ ~both.fired /\ ~both.memory /\ both.stack = Gone
  <2> DEFINE o == {"once", "memory"}
             l == Callbacks(o)
  <2>1. /\ l \in CallbackLists /\ l.options = o /\ ~l.firing /\ ~l.fired /\ ~l.memory /\ l.stack = Gone
    <3>1. o \in SUBSET Flags /\ "once" \in o
      BY <1>6
    <3> HIDE DEF o
    <3> QED BY <1>5, <3>1
  <2> HIDE DEF l
  <2>2. both = [l EXCEPT !.list = <<"settle">>]
    BY DEF WithSettle, l
  <2> HIDE DEF both, o
  <2>3. both \in CallbackLists /\ both.list = <<"settle">> /\ both.options = l.options /\ both.firing = l.firing
        /\ both.fired = l.fired /\ both.memory = l.memory /\ both.stack = l.stack
    BY <1>4, <2>1, <2>2 DEF CallbackLists
  <2> QED BY <2>1, <2>3 DEF o
<1>8. \A n : LoopsOn(frames, n) = {}
  BY <1>2, NoLoops
<1>9. ASSUME NEW l \in CallbackLists, ~l.firing PROVE Account(l, {})
  BY <1>9 DEF Account
<1>10. ASSUME NEW n \in ListNames PROVE ListFits(n, lists[n], {}, "pending", added[n], calls[n], {})
  <2>1. CASE n = "own"
    <3>1. lists[n] = own /\ own \in CallbackLists /\ own.list = <<>> /\ ~own.firing
      BY <1>3, <1>5, <2>1
    <3> HIDE DEF own
    <3> QED BY <1>4, <1>9, <2>1, <3>1 DEF ListFits
  <2>2. CASE n = "progress"
    <3>1. lists[n] = slow /\ slow \in CallbackLists /\ slow.list = <<>> /\ ~slow.firing /\ slow.options = {"memory"}
      BY <1>3, <1>5, <1>6, <2>2
    <3> HIDE DEF slow
    <3> QED BY <1>4, <1>9, <2>2, <3>1 DEF ListFits
  <2>3. CASE n \in {"done", "fail"}
    <3>1. lists[n] = both
      BY <1>3, <2>3
    <3>2. added[n] = <<>> /\ calls[n] = <<>>
      BY <1>2, <2>3
    <3> HIDE DEF both
    <3>3. <<"settle">> = <<"settle">> \o <<>>
      BY <1>4, ConcatEmptySeq
    <3>4. Undisturbed(n, both, {}, "pending", <<>>, <<>>)
      BY <1>7, <3>3 DEF Undisturbed
    <3>5. Promise(n, both, {}, "pending", <<>>, <<>>, {})
      BY <1>7, <3>4 DEF Promise
    <3>6. HandlersOf(<<>>, <<>>)
      BY <1>4 DEF HandlersOf
    <3>7. Account(both, {})
      BY <1>7, <1>9
    <3> QED BY <2>3, <3>1, <3>2, <3>5, <3>6, <3>7 DEF ListFits
  <2> QED BY <2>1, <2>2, <2>3 DEF ListNames
<1>11. lists \in [ListNames -> CallbackLists]
  <2>1. own \in CallbackLists /\ slow \in CallbackLists
    BY <1>5, <1>6
  <2> HIDE DEF own, slow, both
  <2> QED BY <1>3, <1>7, <2>1
<1>12. Records(added) /\ Records(calls)
  <2> DEFINE r == [done |-> <<>>, fail |-> <<>>]
  <2>1. r = [n \in OutcomeLists |-> r[n]] /\ r["done"] = <<>> /\ r["fail"] = <<>>
    BY DEF OutcomeLists
  <2>2. added = r /\ calls = r
    BY <1>2
  <2> HIDE DEF r
  <2>3. \A n \in OutcomeLists : r[n] \in Seq(Handlers)
    BY <1>4, <2>1 DEF OutcomeLists
  <2> QED BY <2>1, <2>2, <2>3 DEF Records
<1>13. AllFit(lists, frames, state, added, calls, stuck)
  BY <1>2, <1>8, <1>10, <1>11, <1>12, NoLoops DEF AllFit
<1> QED BY <1>13 DEF DeferredInv

LEMMA DeferredKept ==
  ASSUME DeferredInv, CallbacksNext \/ DeferredNext \/ UNCHANGED deferredVars
  PROVE  DeferredInv'
<1>1. CASE UNCHANGED deferredVars
  BY <1>1 DEF DeferredInv, deferredVars
<1>2. CASE Loops
  BY <1>2, DeferredCall, DeferredReturn, DeferredEnd, DeferredThrow DEF Loops
<1>3. CASE \E n \in ListNames : add(n) \/ fireWith(n)
  BY <1>3, DeferredAdd, DeferredFire
<1>4. CASE remove \/ disableOrLock \/ empty
  BY <1>4, DeferredRemove, DeferredDisable, DeferredEmpty
<1>5. DOMAIN tuples \subseteq ListNames /\ "own" \in ListNames
  BY DEF tuples, ListNames
<1> QED BY <1>1, <1>2, <1>3, <1>4, <1>5 DEF CallbacksNext, DeferredNext

LEMMA DeferredPromises == ASSUME DeferredInv PROVE FiringExact /\ PromiseKept
<1>1. FiringExact
  <2> SUFFICES ASSUME NEW i \in DOMAIN frames, frames[i].at # "end", ~frames[i].emptied
               PROVE  LET l == lists[frames[i].name]
                          next == l.firingIndex + (IF frames[i].at = "running" THEN 2 ELSE 1)
                      IN  frames[i].due = IF l.list = Gone THEN <<>> ELSE SubSeq(l.list, next, l.firingLength)
    BY DEF FiringExact
  <2> DEFINE f == frames[i]
             n == f.name
             l == lists[n]
  <2>1. f \in LoopFrames
    BY OwnList
  <2>2. n \in ListNames /\ f \in LoopsOn(frames, n)
    BY <2>1 DEF LoopsOn, LoopFrames
  <2>3. Account(l, LoopsOn(frames, n))
    BY <2>2, ListIs DEF ListFits
  <2>4. LoopFits(f, l) /\ (l.list # Gone => l.firingLength = Len(l.list)) /\ l \in CallbackLists
    BY <2>2, <2>3 DEF Account, LoopFits
  <2>5. l.firingIndex \in Int
    BY <2>4, ListFields
  <2> DEFINE next == l.firingIndex + (IF f.at = "running" THEN 2 ELSE 1)
  <2>6. Passed(f, l) + 1 = next
    <3> HIDE DEF l, f
    <3> QED BY <2>5 DEF Passed
  <2> HIDE DEF next
  <2>7. f.due = IF l.list = Gone THEN <<>> ELSE From(l.list, next)
    <3> HIDE DEF l
    <3> QED BY <2>4, <2>6 DEF LoopFits
  <2>8. f.due = IF l.list = Gone THEN <<>> ELSE SubSeq(l.list, next, l.firingLength)
    <3> HIDE DEF l, f
    <3> QED BY <2>4, <2>7 DEF From
  <2> QED BY <2>8 DEF next
<1>2. PromiseKept
  <2> SUFFICES ASSUME frames = <<>>, NEW n \in DOMAIN added \ stuck
               PROVE  calls[n] = IF state = Final[n] THEN added[n] ELSE <<>>
    BY DEF PromiseKept
  <2>1. n \in OutcomeLists /\ n \in ListNames
    BY DEF DeferredInv, AllFit, Records, OutcomeLists, ListNames
  <2> DEFINE l == lists[n]
             a == added[n]
             c == calls[n]
             F == LoopsOn(frames, n)
  <2>2. Promise(n, l, F, state, a, c, stuck) /\ n \notin stuck
    BY <2>1, ListIs DEF ListFits, OutcomeLists
  <2>3. F = {}
    BY NoLoops
  <2>4. "pending" # Final[n] /\ Final[Other[n]] # Final[n]
    BY <2>1 DEF OutcomeLists, Final, Other
  <2> HIDE DEF l, a, c, F
  <2>5. \/ Undisturbed(n, l, F, state, a, c) \/ Lost(n, l, F, state, c) \/ Settling(n, l, F, state, a, c)
        \/ Paying(n, l, F, state, a, c) \/ Paid(n, l, F, state, a, c)
    BY <2>2 DEF Promise
  <2>6. c = IF state = Final[n] THEN a ELSE <<>>
    BY <2>3, <2>4, <2>5 DEF Undisturbed, Lost, Settling, Paying, Paid
  <2> QED BY <2>6 DEF a, c
<1> QED BY <1>1, <1>2

-----------------------------------------------------------------------------
(* jQuery's events: what is bound on an element, its delegates A and the rest B. *)

hOf == [b \in Bound |-> b.h]
OnElem(e) == {b \in Bound : b.elem = e}
Delegates == {b \in Bound : Delegated(b.h)}
Owned     == {b \in Bound : ~Delegated(b.h)}
Ahead(bs, e)  == Only(Only(bs, OnElem(e)), Delegates)
Behind(bs, e) == Only(Only(bs, OnElem(e)), Owned)
TableOf(A, B) == [list |-> Mapped(A \o B, hOf), delegateCount |-> Len(A)]

LEMMA CatParts ==
  ASSUME NEW D, NEW x \in Seq(D), NEW y \in Seq(D)
  PROVE  SubSeq(x \o y, 1, Len(x)) = x /\ SubSeq(x \o y, Len(x) + 1, Len(x \o y)) = y
<1> DEFINE z == x \o y
           n == Len(x)
           m == Len(y)
<1>1. z \in Seq(D) /\ Len(z) = n + m /\ n \in Nat /\ m \in Nat
      /\ \A i \in 1..(n + m) : z[i] = IF i <= n THEN x[i] ELSE y[i - n]
  BY ConcatProperties, LenProperties
<1>2. \A i \in 1..(n + m) : z[i] \in D
  BY <1>1, ElementOfSeq
<1> HIDE DEF z
<1>3. SubSeq(z, 1, n) = x
  <2>1. /\ SubSeq(z, 1, n) \in Seq(D)
        /\ Len(SubSeq(z, 1, n)) = IF 1 <= n THEN n - 1 + 1 ELSE 0
        /\ \A i \in 1..(n - 1 + 1) : SubSeq(z, 1, n)[i] = z[1 + i - 1]
    <3>1. \A i \in 1..n : z[i] \in D
      BY <1>1, <1>2
    <3> HIDE DEF n
    <3> QED BY <1>1, <3>1, SubSeqProperties
  <2>2. Len(SubSeq(z, 1, n)) = n /\ \A i \in 1..n : SubSeq(z, 1, n)[i] = x[i]
    <3> HIDE DEF n
    <3> QED BY <1>1, <2>1
  <2> QED BY <2>1, <2>2, SeqEqual
<1>4. SubSeq(z, n + 1, Len(z)) = y
  <2> DEFINE w == SubSeq(z, n + 1, n + m)
  <2>1. /\ w \in Seq(D)
        /\ Len(w) = IF n + 1 <= n + m THEN n + m - (n + 1) + 1 ELSE 0
        /\ \A i \in 1..(n + m - (n + 1) + 1) : w[i] = z[n + 1 + i - 1]
    <3> DEFINE p == n + 1
               q == n + m
    <3>1. p \in Int /\ q \in Int /\ \A i \in p..q : z[i] \in D
      BY <1>1, <1>2
    <3>2. /\ SubSeq(z, p, q) \in Seq(D)
          /\ Len(SubSeq(z, p, q)) = IF p <= q THEN q - p + 1 ELSE 0
          /\ \A i \in 1..(q - p + 1) : SubSeq(z, p, q)[i] = z[p + i - 1]
      <4> HIDE DEF p, q
      <4> QED BY <3>1, SubSeqProperties
    <3> QED BY <3>2
  <2> HIDE DEF w
  <2>2. Len(w) = m /\ \A i \in 1..m : w[i] = y[i]
    <3> HIDE DEF n, m
    <3>1. Len(w) = m
      BY <1>1, <2>1
    <3>2. ASSUME NEW i \in 1..m PROVE w[i] = y[i]
      <4>1. w[i] = z[n + i] /\ n + i \in 1..(n + m) /\ ~(n + i <= n) /\ (n + i) - n = i
        BY <1>1, <2>1
      <4> QED BY <1>1, <4>1
    <3> QED BY <3>1, <3>2
  <2>3. w = y
    BY <2>1, <2>2, SeqEqual
  <2> QED BY <1>1, <2>3 DEF w
<1> QED BY <1>3, <1>4 DEF z

LEMMA HandlersHeld ==
  /\ Maps(hOf, Bound, handleObj)
  /\ \A A \in Seq(Bound) : Mapped(A, hOf) \in Seq(handleObj) /\ Len(Mapped(A, hOf)) = Len(A)
<1>1. Maps(hOf, Bound, handleObj)
  BY DEF Maps, hOf, Bound
<1> QED BY <1>1, MappedType

\* One more binding, delegated or not.
LEMMA BindDelegate ==
  ASSUME NEW A \in Seq(Bound), NEW B \in Seq(Bound), NEW b \in Bound, Delegated(b.h), NEW d, d = TableOf(A, B)
  PROVE  Bind(d, b.h) = TableOf(Append(A, b), B)
<1> DEFINE x == Mapped(A, hOf)
           y == Mapped(B, hOf)
           n == Len(A)
           h == b.h
           o == <<h>>
           l == d.list
<1>1. Maps(hOf, Bound, handleObj) /\ x \in Seq(handleObj) /\ y \in Seq(handleObj) /\ Len(x) = n
  BY HandlersHeld
<1>2. l = Mapped(A \o B, hOf) /\ d.delegateCount = n
  BY DEF TableOf
<1>3. l = x \o y
  <2>1. Mapped(A \o B, hOf) = Mapped(A, hOf) \o Mapped(B, hOf)
    BY <1>1, MappedCat
  <2> QED BY <1>2, <2>1
<1>4. n \in Nat /\ h \in handleObj /\ hOf[b] = h /\ o \in Seq(handleObj)
  BY LenProperties DEF Bound, hOf
<1>5. SubSeq(l, 1, n) = x /\ SubSeq(l, n + 1, Len(l)) = y
  <2> HIDE DEF x, y
  <2>1. SubSeq(x \o y, 1, Len(x)) = x /\ SubSeq(x \o y, Len(x) + 1, Len(x \o y)) = y
    BY <1>1, CatParts
  <2> QED BY <1>1, <1>3, <2>1
<1>6. InsertAt(l, n + 1, h) = x \o o \o y
  <2>1. (n + 1) - 1 = n
    BY <1>4
  <2> HIDE DEF x, y, n, l, h
  <2> QED BY <1>5, <2>1 DEF InsertAt
<1>7. Append(A, b) \in Seq(Bound) /\ Len(Append(A, b)) = n + 1
  BY AppendProperties
<1>8. Mapped(Append(A, b), hOf) = Append(x, h)
  <2>1. Mapped(Append(A, b), hOf) = Append(x, hOf[b])
    BY <1>1, MappedMore
  <2> QED BY <1>4, <2>1
<1>9. Append(x, h) = x \o o
  <2> HIDE DEF x, h
  <2> QED BY <1>1, <1>4, AppendIsConcat
<1>10. Mapped(Append(A, b) \o B, hOf) = x \o o \o y
  <2> DEFINE AA == Append(A, b)
  <2>a. AA \in Seq(Bound)
    BY <1>7
  <2>1. Mapped(AA, hOf) = x \o o
    BY <1>8, <1>9
  <2> HIDE DEF AA, x, o
  <2>2. Mapped(AA \o B, hOf) = Mapped(AA, hOf) \o y
    <3>1. Mapped(AA \o B, hOf) = Mapped(AA, hOf) \o Mapped(B, hOf)
      BY <1>1, <2>a, MappedCat
    <3> QED BY <3>1
  <2> QED BY <2>1, <2>2 DEF AA
<1>11. Bind(d, h) = [list |-> InsertAt(l, n + 1, h), delegateCount |-> n + 1]
  BY <1>2 DEF Bind
<1> QED BY <1>6, <1>7, <1>10, <1>11 DEF TableOf

LEMMA BindOwn ==
  ASSUME NEW A \in Seq(Bound), NEW B \in Seq(Bound), NEW b \in Bound, ~Delegated(b.h), NEW d, d = TableOf(A, B)
  PROVE  Bind(d, b.h) = TableOf(A, Append(B, b))
<1> DEFINE C == A \o B
           h == b.h
<1>1. Maps(hOf, Bound, handleObj) /\ h \in handleObj /\ hOf[b] = h /\ C \in Seq(Bound)
  BY HandlersHeld, ConcatProperties DEF Bound, hOf
<1>2. Bind(d, h) = [list |-> Append(Mapped(C, hOf), h), delegateCount |-> Len(A)]
  BY DEF Bind, TableOf
<1>3. Mapped(Append(C, b), hOf) = Append(Mapped(C, hOf), hOf[b])
  <2> HIDE DEF C
  <2> QED BY <1>1, MappedMore
<1>4. Append(C, b) = A \o Append(B, b)
  <2> DEFINE o == <<b>>
  <2>1. o \in Seq(Bound)
    OBVIOUS
  <2>2. Append(C, b) = C \o o /\ Append(B, b) = B \o o
    BY <1>1, AppendIsConcat
  <2> HIDE DEF o
  <2>3. (A \o B) \o o = A \o (B \o o)
    BY <2>1, ConcatAssociative
  <2> QED BY <2>2, <2>3
<1> QED BY <1>1, <1>2, <1>3, <1>4 DEF TableOf

\* The lists of a binding more, and of bindings fewer.
LEMMA HeldTypes ==
  ASSUME NEW bs \in Seq(Bound), NEW e
  PROVE  /\ Only(bs, OnElem(e)) \in Seq(Bound) /\ Ahead(bs, e) \in Seq(Bound) /\ Behind(bs, e) \in Seq(Bound)
         /\ Ahead(bs, e) \in Seq(Bound \cap Delegates) /\ Behind(bs, e) \in Seq(Bound \cap Owned)
<1> DEFINE m == Only(bs, OnElem(e))
<1>1. m \in Seq(Bound)
  BY OnlyIn
<1> HIDE DEF m
<1>2. Only(m, Delegates) \in Seq(Bound) /\ Only(m, Delegates) \in Seq(Bound \cap Delegates)
  BY <1>1, OnlyIn
<1>3. Only(m, Owned) \in Seq(Bound) /\ Only(m, Owned) \in Seq(Bound \cap Owned)
  BY <1>1, OnlyIn
<1> QED BY <1>1, <1>2, <1>3 DEF m, Ahead, Behind

LEMMA HeldMore ==
  ASSUME NEW bs \in Seq(Bound), NEW b \in Bound, NEW e
  PROVE  /\ b.elem # e => Ahead(Append(bs, b), e) = Ahead(bs, e) /\ Behind(Append(bs, b), e) = Behind(bs, e)
         /\ b.elem = e /\ Delegated(b.h) =>
              Ahead(Append(bs, b), e) = Append(Ahead(bs, e), b) /\ Behind(Append(bs, b), e) = Behind(bs, e)
         /\ b.elem = e /\ ~Delegated(b.h) =>
              Ahead(Append(bs, b), e) = Ahead(bs, e) /\ Behind(Append(bs, b), e) = Append(Behind(bs, e), b)
<1> DEFINE m == Only(bs, OnElem(e))
           x == Only(Append(bs, b), OnElem(e))
<1>1. m \in Seq(Bound)
  BY HeldTypes
<1>2. x = IF b \in OnElem(e) THEN Append(m, b) ELSE m
  BY OnlyMore
<1> HIDE DEF m, x
<1>3. Only(Append(m, b), Delegates) = IF b \in Delegates THEN Append(Only(m, Delegates), b) ELSE Only(m, Delegates)
  BY <1>1, OnlyMore
<1>4. Only(Append(m, b), Owned) = IF b \in Owned THEN Append(Only(m, Owned), b) ELSE Only(m, Owned)
  BY <1>1, OnlyMore
<1>5. (b \in OnElem(e) <=> b.elem = e) /\ (b \in Delegates <=> Delegated(b.h)) /\ (b \in Owned <=> ~Delegated(b.h))
  BY DEF OnElem, Delegates, Owned
<1>6. /\ Ahead(bs, e) = Only(m, Delegates) /\ Behind(bs, e) = Only(m, Owned)
      /\ Ahead(Append(bs, b), e) = Only(x, Delegates) /\ Behind(Append(bs, b), e) = Only(x, Owned)
  BY DEF Ahead, Behind, m, x
<1> QED BY <1>2, <1>3, <1>4, <1>5, <1>6

LEMMA HeldIs ==
  ASSUME NEW e
  PROVE  \A bs \in Seq(Bound) : /\ Ahead(bs, e) = Only(bs, OnElem(e) \cap Delegates)
                                /\ Behind(bs, e) = Only(bs, OnElem(e) \cap Owned)
<1>1. \A bs \in Seq(Bound) : Only(Only(bs, OnElem(e)), Delegates) = Only(bs, OnElem(e) \cap Delegates)
  BY OnlyTwice
<1>2. \A bs \in Seq(Bound) : Only(Only(bs, OnElem(e)), Owned) = Only(bs, OnElem(e) \cap Owned)
  BY OnlyTwice
<1> QED BY <1>1, <1>2 DEF Ahead, Behind

\* off: what it matches goes, from the element's list and from what is bound.
Unmatched(told) == {b \in Bound : ~Matching(b.h, told)}
Left(e, told) == {b \in Bound : b.elem # e \/ ~Matching(b.h, told)}

LEMMA HeldLess ==
  ASSUME NEW e, NEW told, NEW bs \in Seq(Bound), NEW cs, cs = Only(bs, Left(e, told))
  PROVE  /\ cs \in Seq(Bound)
         /\ Ahead(cs, e) = Only(Ahead(bs, e), Unmatched(told)) /\ Behind(cs, e) = Only(Behind(bs, e), Unmatched(told))
         /\ \A f : f # e => Ahead(cs, f) = Ahead(bs, f) /\ Behind(cs, f) = Behind(bs, f)
<1> DEFINE L == Left(e, told)
           K == Unmatched(told)
<1>1. cs \in Seq(Bound)
  BY OnlyIn
<1>2. ASSUME NEW f, NEW Z \in {Delegates, Owned}
      PROVE  /\ Only(cs, OnElem(f) \cap Z) = Only(bs, L \cap (OnElem(f) \cap Z))
             /\ f # e => Only(cs, OnElem(f) \cap Z) = Only(bs, OnElem(f) \cap Z)
             /\ f = e => Only(cs, OnElem(f) \cap Z) = Only(Only(bs, OnElem(f) \cap Z), K)
  <2> DEFINE E == OnElem(f) \cap Z
  <2>1. Only(Only(bs, L), E) = Only(bs, L \cap E)
    BY OnlyTwice
  <2>2. cs = Only(bs, L)
    OBVIOUS
  <2>3. f # e => Bound \cap (L \cap E) = Bound \cap E
    BY DEF Left, OnElem
  <2>4. f = e => Bound \cap (L \cap E) = Bound \cap (E \cap K)
    BY DEF Left, Unmatched, OnElem
  <2>5. Only(Only(bs, E), K) = Only(bs, E \cap K)
    BY OnlyTwice
  <2> HIDE DEF E, L, K
  <2>6. f # e => Only(bs, L \cap E) = Only(bs, E)
    <3> DEFINE R == L \cap E
    <3>1. f # e => Bound \cap R = Bound \cap E
      BY <2>3
    <3> HIDE DEF R
    <3>2. f # e => Only(bs, R) = Only(bs, E)
      BY <3>1, OnlySame
    <3> QED BY <3>2 DEF R
  <2>7. f = e => Only(bs, L \cap E) = Only(bs, E \cap K)
    <3> DEFINE R == L \cap E
               T == E \cap K
    <3>1. f = e => Bound \cap R = Bound \cap T
      BY <2>4
    <3> HIDE DEF R, T
    <3>2. f = e => Only(bs, R) = Only(bs, T)
      BY <3>1, OnlySame
    <3> QED BY <3>2 DEF R, T
  <2>8. Only(cs, E) = Only(bs, L \cap E) /\ (f # e => Only(cs, E) = Only(bs, E))
        /\ (f = e => Only(cs, E) = Only(Only(bs, E), K))
    BY <2>1, <2>2, <2>5, <2>6, <2>7
  <2> QED BY <2>8 DEF E
<1>3. \A f : /\ Ahead(cs, f) = Only(cs, OnElem(f) \cap Delegates) /\ Behind(cs, f) = Only(cs, OnElem(f) \cap Owned)
             /\ Ahead(bs, f) = Only(bs, OnElem(f) \cap Delegates) /\ Behind(bs, f) = Only(bs, OnElem(f) \cap Owned)
  BY <1>1, HeldIs
<1> HIDE DEF L, K
<1>4. ASSUME NEW f
      PROVE  /\ f # e => Ahead(cs, f) = Ahead(bs, f)
             /\ f = e => Ahead(cs, f) = Only(Ahead(bs, f), K)
  <2> DEFINE x == Only(cs, OnElem(f) \cap Delegates)
             y == Only(bs, OnElem(f) \cap Delegates)
  <2>1. (f # e => x = y) /\ (f = e => x = Only(y, K))
    BY <1>2
  <2>2. Ahead(cs, f) = x /\ Ahead(bs, f) = y
    BY <1>3
  <2> HIDE DEF x, y
  <2> QED BY <2>1, <2>2
<1>5. ASSUME NEW f
      PROVE  /\ f # e => Behind(cs, f) = Behind(bs, f)
             /\ f = e => Behind(cs, f) = Only(Behind(bs, f), K)
  <2> DEFINE x == Only(cs, OnElem(f) \cap Owned)
             y == Only(bs, OnElem(f) \cap Owned)
  <2>1. (f # e => x = y) /\ (f = e => x = Only(y, K))
    BY <1>2
  <2>2. Behind(cs, f) = x /\ Behind(bs, f) = y
    BY <1>3
  <2> HIDE DEF x, y
  <2> QED BY <2>1, <2>2
<1> QED BY <1>1, <1>4, <1>5 DEF K

LEMMA UnbindHeld ==
  ASSUME NEW A \in Seq(Bound \cap Delegates), NEW B \in Seq(Bound \cap Owned), NEW told, NEW d, d = TableOf(A, B)
  PROVE  Unbind(d, told) = TableOf(Only(A, Unmatched(told)), Only(B, Unmatched(told)))
<1> DEFINE K == Unmatched(told)
           R == {h \in handleObj : ~Matching(h, told)}
           C == A \o B
           n == Len(A)
           m == Len(B)
<1>1. A \in Seq(Bound) /\ B \in Seq(Bound)
  <2>1. Bound \cap Delegates \subseteq Bound /\ Bound \cap Owned \subseteq Bound
    OBVIOUS
  <2> QED BY <2>1, SeqMonotonic
<1>2. C \in Seq(Bound) /\ Len(C) = n + m /\ n \in Nat /\ m \in Nat
      /\ \A i \in 1..(n + m) : C[i] = IF i <= n THEN A[i] ELSE B[i - n]
  BY <1>1, ConcatProperties, LenProperties
<1>3. d.list = Mapped(C, hOf) /\ d.delegateCount = n
  BY DEF TableOf
<1>4. Only(Mapped(C, hOf), R) = Mapped(Only(C, K), hOf)
  <2>1. K = {b \in Bound : hOf[b] \in R}
    BY DEF Unmatched, hOf, Bound
  <2>2. Maps(hOf, Bound, handleObj)
    BY HandlersHeld
  <2> HIDE DEF K, R, C
  <2>3. \A s \in Seq(Bound) : Only(Mapped(s, hOf), R) = Mapped(Only(s, K), hOf)
    BY <2>1, <2>2, MappedOnly
  <2> QED BY <1>2, <2>3
<1>5. Only(C, K) = Only(A, K) \o Only(B, K)
  <2> HIDE DEF K
  <2> QED BY <1>1, OnlyCat
<1>6. {i \in DOMAIN d.list : Delegated(d.list[i]) /\ Matching(d.list[i], told)} = TakenOut(A, K)
  <2>1. Len(d.list) = n + m /\ DOMAIN d.list = 1..(n + m) /\ \A i \in 1..(n + m) : d.list[i] = C[i].h /\ C[i] \in Bound
    <3>1. DOMAIN C = 1..(n + m)
      BY <1>2, LenProperties
    <3>2. \A i \in 1..(n + m) : C[i] \in Bound
      BY <1>2, ElementOfSeq
    <3>3. \A i \in 1..(n + m) : Mapped(C, hOf)[i] = C[i].h
      BY <3>1, <3>2 DEF Mapped, hOf
    <3>4. Len(Mapped(C, hOf)) = n + m /\ DOMAIN Mapped(C, hOf) = 1..(n + m)
      BY <1>2, <3>1, HandlersHeld DEF Mapped
    <3> QED BY <1>3, <3>2, <3>3, <3>4
  <2>2. \A i \in 1..n : A[i] \in Bound \cap Delegates /\ C[i] = A[i]
    <3>1. \A i \in 1..n : A[i] \in Bound \cap Delegates
      BY ElementOfSeq
    <3> HIDE DEF n, C
    <3> QED BY <1>2, <3>1
  <2>3. \A i \in 1..m : B[i] \in Bound \cap Owned
    BY ElementOfSeq
  <2>4. \A i \in 1..(n + m) : i \notin 1..n => C[i] \in Owned
    <3> HIDE DEF n, m, C
    <3> SUFFICES ASSUME NEW i \in 1..(n + m), i \notin 1..n PROVE C[i] \in Owned
      OBVIOUS
    <3>1. i - n \in 1..m /\ ~(i <= n)
      BY <1>2
    <3> QED BY <1>2, <2>3, <3>1
  <2>5. DOMAIN A = 1..n
    BY LenProperties
  <2>6. \A i \in 1..n : Delegated(d.list[i]) /\ (Matching(d.list[i], told) <=> A[i] \notin K)
    <3> SUFFICES ASSUME NEW i \in 1..n PROVE Delegated(d.list[i]) /\ (Matching(d.list[i], told) <=> A[i] \notin K)
      OBVIOUS
    <3>1. i \in 1..(n + m)
      BY <1>2
    <3>2. d.list[i] = A[i].h /\ A[i] \in Bound /\ A[i] \in Delegates
      BY <2>1, <2>2, <3>1
    <3> QED BY <3>2 DEF Delegates, Unmatched
  <2>7. \A i \in 1..(n + m) : i \notin 1..n => ~Delegated(d.list[i])
    BY <2>1, <2>4 DEF Owned
  <2>8. 1..n \subseteq 1..(n + m)
    BY <1>2
  <2> HIDE DEF n, m, C, K
  <2> QED BY <2>1, <2>5, <2>6, <2>7, <2>8 DEF TakenOut
<1>7. n - Cardinality(TakenOut(A, K)) = Len(Only(A, K))
  <2> HIDE DEF K
  <2>1. /\ IsFiniteSet(TakenOut(A, K))
        /\ Len(Only(A, K)) + Cardinality(TakenOut(A, K)) = Len(A)
    BY <1>1, OnlyCounts
  <2>2. Cardinality(TakenOut(A, K)) \in Nat
    BY <2>1, FS_CardinalityType
  <2>3. Only(A, K) \in Seq(Bound)
    BY <1>1, OnlyIn
  <2>4. Len(Only(A, K)) \in Nat
    BY <2>3, LenProperties
  <2> QED BY <1>2, <2>1, <2>2, <2>4
<1>8. Unbind(d, told) = [list |-> Only(d.list, R),
                         delegateCount |-> n - Cardinality({i \in DOMAIN d.list : Delegated(d.list[i]) /\ Matching(d.list[i], told)})]
  BY <1>3 DEF Unbind
<1> HIDE DEF K, R, n, C
<1> QED BY <1>3, <1>4, <1>5, <1>6, <1>7, <1>8 DEF TableOf, K

-----------------------------------------------------------------------------
(* What is bound when the page is loaded, one after another.                   *)

IsTable(f, s, n) ==
  f = [k \in 0..n |-> IF k = 0 THEN [list |-> <<>>, delegateCount |-> 0] ELSE Bind(f[k - 1], s[k].h)]
Tabled(s) == CHOOSE f : IsTable(f, s, Len(s))

LEMMA TableIs == ASSUME NEW s PROVE Table(s) = Tabled(s)[Len(s)]
BY Zenon DEF Table, Tabled, IsTable

LEMMA TableStep ==
  ASSUME NEW f, NEW s, NEW n \in Nat, IsTable(f, s, n), NEW k \in 0..n
  PROVE  /\ k = 0 => f[k] = [list |-> <<>>, delegateCount |-> 0]
         /\ k # 0 => f[k] = Bind(f[k - 1], s[k].h)
<1> DEFINE z == [list |-> <<>>, delegateCount |-> 0]
           g == [i \in 0..n |-> IF i = 0 THEN z ELSE Bind(f[i - 1], s[i].h)]
<1>1. f = g
  BY DEF IsTable
<1>2. g[k] = IF k = 0 THEN z ELSE Bind(f[k - 1], s[k].h)
  OBVIOUS
<1> HIDE DEF g, z
<1> QED BY <1>1, <1>2 DEF z

LEMMA TableExists ==
  ASSUME NEW s
  PROVE  \A n \in Nat : \E f : IsTable(f, s, n)
<1> DEFINE S == {n \in Nat : \E f : IsTable(f, s, n)}
           z == [list |-> <<>>, delegateCount |-> 0]
<1>1. 0 \in S
  <2> DEFINE f == [k \in 0..0 |-> z]
  <2>1. f = [k \in 0..0 |-> IF k = 0 THEN z ELSE Bind(f[k - 1], s[k].h)]
    OBVIOUS
  <2>2. IsTable(f, s, 0)
    BY <2>1 DEF IsTable
  <2> QED BY <2>2
<1>2. ASSUME NEW n \in Nat, n \in S PROVE n + 1 \in S
  <2>1. PICK f : IsTable(f, s, n)
    BY <1>2
  <2> DEFINE g == [k \in 0..(n + 1) |-> IF k \in 0..n THEN f[k] ELSE Bind(f[k - 1], s[k].h)]
  <2>2. \A k \in 0..n : g[k] = f[k]
    OBVIOUS
  <2>3. ASSUME NEW k \in 0..(n + 1)
        PROVE  g[k] = IF k = 0 THEN z ELSE Bind(g[k - 1], s[k].h)
    <3>1. k # 0 => k - 1 \in 0..n
      OBVIOUS
    <3>2. k # 0 => g[k - 1] = f[k - 1]
      BY <2>2, <3>1
    <3>3. CASE k \in 0..n
      <4>1. g[k] = f[k]
        BY <3>3, <2>2
      <4>2. /\ k = 0 => f[k] = z
            /\ k # 0 => f[k] = Bind(f[k - 1], s[k].h)
        BY <2>1, <3>3, TableStep
      <4> HIDE DEF g, z
      <4> QED BY <4>1, <4>2, <3>2
    <3>4. CASE k \notin 0..n
      <4>1. k # 0
        BY <3>4
      <4>2. g[k] = Bind(f[k - 1], s[k].h)
        BY <3>4
      <4> HIDE DEF g, z
      <4> QED BY <4>1, <4>2, <3>2
    <3> QED BY <3>3, <3>4
  <2>4. g = [k \in 0..(n + 1) |-> g[k]]
    OBVIOUS
  <2> HIDE DEF g
  <2>5. IsTable(g, s, n + 1)
    BY <2>3, <2>4 DEF IsTable
  <2> QED BY <2>5
<1> HIDE DEF S
<1>3. \A n \in Nat : n \in S
  BY <1>1, <1>2, Steps
<1> QED BY <1>3 DEF S

LEMMA TableHolds ==
  ASSUME NEW s \in Seq(Bound)
  PROVE  Table(s) = TableOf(Only(s, Delegates), Only(s, Owned))
<1> DEFINE n == Len(s)
           f == Tabled(s)
           z == [list |-> <<>>, delegateCount |-> 0]
           t == [k \in Nat |-> SubSeq(s, 1, k)]
           T(k) == TableOf(Only(t[k], Delegates), Only(t[k], Owned))
           S == {k \in Nat : k <= n => f[k] = T(k)}
<1>1. n \in Nat /\ \A k \in 1..n : s[k] \in Bound
  BY LenProperties, ElementOfSeq
<1>2. IsTable(f, s, n)
  BY <1>1, TableExists DEF Tabled
<1>3. t[0] = <<>> /\ t[n] = s
  <2>1. SubSeq(s, 1, 0) = <<>>
    BY SubSeqEmpty
  <2>2. SubSeq(s, 1, Len(s)) = s
    BY SubSeqFull
  <2> QED BY <1>1, <2>1, <2>2
<1>4. \A k \in 0..n : t[k] \in Seq(Bound)
  <2> SUFFICES ASSUME NEW k \in 0..n PROVE SubSeq(s, 1, k) \in Seq(Bound)
    BY <1>1
  <2>1. k \in Int /\ 1 \in Int /\ \A i \in 1..k : s[i] \in Bound
    BY <1>1
  <2> HIDE DEF n
  <2> QED BY <2>1, SubSeqProperties
<1>5. \A k \in Nat : k + 1 <= n => t[k + 1] = Append(t[k], s[k + 1])
  <2> SUFFICES ASSUME NEW k \in Nat, k + 1 <= n PROVE SubSeq(s, 1, k + 1) = Append(SubSeq(s, 1, k), s[k + 1])
    OBVIOUS
  <2> DEFINE j == k + 1
  <2>1. 1 \in 1..Len(s) /\ j \in 1..Len(s) /\ j - 1 = k
    BY <1>1
  <2>2. SubSeq(s, 1, j) = SubSeq(s, 1, j - 1) \o <<s[j]>>
    <3>1. 1 \in 1..Len(s) /\ j \in 1..Len(s)
      BY <2>1
    <3> HIDE DEF j
    <3> QED BY <3>1, SubSeqRecursiveSecond
  <2>3. SubSeq(s, 1, k) \in Seq(Bound) /\ s[j] \in Bound
    BY <1>1, <1>4, <2>1
  <2>4. Append(SubSeq(s, 1, k), s[j]) = SubSeq(s, 1, k) \o <<s[j]>>
    <3> DEFINE x == SubSeq(s, 1, k)
               y == s[j]
    <3>1. x \in Seq(Bound) /\ y \in Bound
      BY <2>3
    <3> HIDE DEF x, y
    <3>2. Append(x, y) = x \o <<y>>
      BY <3>1, AppendIsConcat
    <3> QED BY <3>2 DEF x, y
  <2> QED BY <2>1, <2>2, <2>4
<1>6. 0 \in S
  <2>1. f[0] = z
    BY <1>1, <1>2, TableStep
  <2>2. Only(<<>>, Delegates) = <<>> /\ Only(<<>>, Owned) = <<>>
    BY OnlyNone
  <2>3. <<>> \o <<>> = <<>> /\ Len(<<>>) = 0
    OBVIOUS
  <2>4. Mapped(<<>>, hOf) = <<>>
    BY MappedNone
  <2>5. TableOf(<<>>, <<>>) = z
    BY <2>3, <2>4 DEF TableOf
  <2> QED BY <1>3, <2>1, <2>2, <2>5
<1>7. ASSUME NEW k \in Nat, k \in S PROVE k + 1 \in S
  <2> SUFFICES ASSUME k + 1 <= n PROVE f[k + 1] = T(k + 1)
    OBVIOUS
  <2> DEFINE A == Only(t[k], Delegates)
             B == Only(t[k], Owned)
             b == s[k + 1]
             d == f[k]
  <2>1. k \in 0..n /\ k + 1 \in 1..n /\ k + 1 \in 0..n /\ k + 1 # 0 /\ (k + 1) - 1 = k
    BY <1>1
  <2>2. f[k + 1] = Bind(d, b.h)
    BY <1>1, <1>2, <2>1, TableStep
  <2>3. d = TableOf(A, B) /\ b \in Bound /\ t[k] \in Seq(Bound)
    BY <1>1, <1>4, <1>7, <2>1
  <2>4. A \in Seq(Bound) /\ B \in Seq(Bound)
    BY <2>3, OnlyIn
  <2>5. t[k + 1] = Append(t[k], b)
    BY <1>5
  <2>6. Only(Append(t[k], b), Delegates) = IF b \in Delegates THEN Append(A, b) ELSE A
    <3> DEFINE x == t[k]
    <3>1. x \in Seq(Bound)
      BY <2>3
    <3> HIDE DEF x, b
    <3>2. Only(Append(x, b), Delegates) = IF b \in Delegates THEN Append(Only(x, Delegates), b) ELSE Only(x, Delegates)
      BY <2>3, <3>1, OnlyMore
    <3> QED BY <3>2 DEF x
  <2>7. Only(Append(t[k], b), Owned) = IF b \in Owned THEN Append(B, b) ELSE B
    <3> DEFINE x == t[k]
    <3>1. x \in Seq(Bound)
      BY <2>3
    <3> HIDE DEF x, b
    <3>2. Only(Append(x, b), Owned) = IF b \in Owned THEN Append(Only(x, Owned), b) ELSE Only(x, Owned)
      BY <2>3, <3>1, OnlyMore
    <3> QED BY <3>2 DEF x
  <2>8. (b \in Delegates <=> Delegated(b.h)) /\ (b \in Owned <=> ~Delegated(b.h))
    BY <2>3 DEF Delegates, Owned
  <2>9. T(k + 1) = TableOf(Only(Append(t[k], b), Delegates), Only(Append(t[k], b), Owned))
    BY <2>5
  <2> HIDE DEF A, B, b, d, T, t
  <2>10. CASE Delegated(b.h)
    <3>1. Bind(d, b.h) = TableOf(Append(A, b), B)
      BY <2>3, <2>4, <2>10, BindDelegate
    <3> QED BY <2>2, <2>6, <2>7, <2>8, <2>9, <2>10, <3>1
  <2>11. CASE ~Delegated(b.h)
    <3>1. Bind(d, b.h) = TableOf(A, Append(B, b))
      BY <2>3, <2>4, <2>11, BindOwn
    <3> QED BY <2>2, <2>6, <2>7, <2>8, <2>9, <2>11, <3>1
  <2> QED BY <2>10, <2>11
<1>8. \A k \in Nat : k \in S
  <2> HIDE DEF S
  <2> QED BY <1>6, <1>7, Steps
<1>9. f[n] = T(n)
  <2> HIDE DEF T, t, f, n
  <2>1. n <= n
    BY <1>1
  <2> QED BY <1>1, <1>8, <2>1
<1>10. f[n] = Table(s)
  BY TableIs
<1> HIDE DEF t, f, n
<1> QED BY <1>3, <1>9, <1>10

-----------------------------------------------------------------------------
(* What dispatch queues on an element, and what is due there.                  *)

Placed(i)  == [b \in Bound |-> [elem |-> i, h |-> b.h]]
Chosen(i)  == {b \in Bound : b.h.selector = i /\ ~(i = 1 /\ disabled)}
Named(ns)  == {q \in Bound : ns \subseteq q.h.namespace}
Bindings   == {b \in Bound : b.h.selector \in (1..(b.elem - 1)) \cup {NoSelector}}

LEMMA Replaced ==
  ASSUME NEW m \in Seq(Bound), NEW i
  PROVE  /\ [k \in DOMAIN Mapped(m, hOf) |-> [elem |-> i, h |-> Mapped(m, hOf)[k]]] = Mapped(m, Placed(i))
         /\ [k \in DOMAIN m |-> [elem |-> i, h |-> m[k].h]] = Mapped(m, Placed(i))
<1>1. \A k \in DOMAIN m : m[k] \in Bound
  <2>1. DOMAIN m = 1..Len(m)
    BY LenProperties
  <2> QED BY <2>1, ElementOfSeq
<1>2. DOMAIN Mapped(m, hOf) = DOMAIN m /\ \A k \in DOMAIN m : Mapped(m, hOf)[k] = m[k].h
  BY <1>1 DEF Mapped, hOf
<1>3. \A k \in DOMAIN m : Placed(i)[m[k]] = [elem |-> i, h |-> m[k].h]
  BY <1>1 DEF Placed
<1> QED BY <1>2, <1>3 DEF Mapped

LEMMA PlacedIn ==
  ASSUME NEW i \in Branch
  PROVE  /\ Maps(Placed(i), Bound, Bound)
         /\ \A m \in Seq(Bound) : Mapped(m, Placed(i)) \in Seq(Bound)
         /\ \A ns : \A m \in Seq(Bound) : Only(Mapped(m, Placed(i)), Named(ns)) = Mapped(Only(m, Named(ns)), Placed(i))
<1>1. Maps(Placed(i), Bound, Bound)
  BY DEF Maps, Placed, Bound
<1>2. \A m \in Seq(Bound) : Mapped(m, Placed(i)) \in Seq(Bound)
  BY <1>1, MappedType
<1>3. ASSUME NEW ns PROVE \A m \in Seq(Bound) : Only(Mapped(m, Placed(i)), Named(ns)) = Mapped(Only(m, Named(ns)), Placed(i))
  <2> DEFINE p == Placed(i)
             S == Named(ns)
             R == {b \in Bound : p[b] \in S}
  <2>1. S = R
    BY DEF Named, Placed, Bound
  <2>2. Maps(p, Bound, Bound)
    BY <1>1
  <2>3. R = {b \in Bound : p[b] \in S}
    OBVIOUS
  <2> HIDE DEF p, S, R
  <2>4. \A m \in Seq(Bound) : Only(Mapped(m, p), S) = Mapped(Only(m, R), p)
    BY <2>2, <2>3, MappedOnly
  <2>5. \A m \in Seq(Bound) : Only(Mapped(m, p), S) = Mapped(Only(m, S), p)
    BY <2>1, <2>4
  <2> QED BY <2>5 DEF p, S
<1> QED BY <1>1, <1>2, <1>3

\* The element's table, taken apart again.
LEMMA TableParts ==
  ASSUME NEW A \in Seq(Bound), NEW B \in Seq(Bound), NEW d, d = TableOf(A, B)
  PROVE  /\ SubSeq(d.list, 1, d.delegateCount) = Mapped(A, hOf)
         /\ SubSeq(d.list, d.delegateCount + 1, Len(d.list)) = Mapped(B, hOf)
<1> DEFINE x == Mapped(A, hOf)
           y == Mapped(B, hOf)
           l == d.list
           n == d.delegateCount
<1>1. Maps(hOf, Bound, handleObj) /\ x \in Seq(handleObj) /\ y \in Seq(handleObj) /\ Len(x) = Len(A)
  BY HandlersHeld
<1>2. Mapped(A \o B, hOf) = Mapped(A, hOf) \o Mapped(B, hOf)
  BY <1>1, MappedCat
<1>3. l = x \o y /\ n = Len(x)
  BY <1>1, <1>2 DEF TableOf
<1> HIDE DEF x, y, l, n
<1>4. SubSeq(x \o y, 1, Len(x)) = x /\ SubSeq(x \o y, Len(x) + 1, Len(x \o y)) = y
  BY <1>1, CatParts
<1>5. SubSeq(l, 1, n) = x /\ SubSeq(l, n + 1, Len(l)) = y
  BY <1>3, <1>4
<1> QED BY <1>5 DEF x, y, l, n

LEMMA OnElementIs ==
  ASSUME NEW A \in Seq(Bound), NEW B \in Seq(Bound), NEW d, d = TableOf(A, B), NEW cur
  PROVE  OnElement(cur, d) = Mapped(Only(A, Chosen(cur)), Placed(cur))
<1> DEFINE l == SubSeq(d.list, 1, d.delegateCount)
           H == {h \in handleObj : h.selector = cur}
           m == Only(A, Chosen(cur))
<1>1. l = Mapped(A, hOf)
  BY TableParts
<1>2. CASE cur = 1 /\ disabled
  <2>1. Bound \cap Chosen(cur) = {}
    BY <1>2 DEF Chosen
  <2> DEFINE C == Chosen(cur)
  <2>2. Only(A, C) = <<>>
    <3>1. Bound \cap C = {}
      BY <2>1
    <3> HIDE DEF C
    <3> QED BY <3>1, OnlyNothing
  <2>3. Mapped(<<>>, Placed(cur)) = <<>>
    BY MappedNone
  <2>4. OnElement(cur, d) = [k \in DOMAIN <<>> |-> [elem |-> cur, h |-> <<>>[k]]]
    BY <1>2 DEF OnElement
  <2>5. [k \in DOMAIN <<>> |-> [elem |-> cur, h |-> <<>>[k]]] = <<>>
    OBVIOUS
  <2> QED BY <2>2, <2>3, <2>4, <2>5
<1>3. CASE ~(cur = 1 /\ disabled)
  <2> DEFINE C == Chosen(cur)
             q == Only(Mapped(A, hOf), H)
  <2>1. C = {b \in Bound : hOf[b] \in H}
    BY <1>3 DEF Chosen, hOf, Bound
  <2>2. Maps(hOf, Bound, handleObj)
    BY HandlersHeld
  <2>3. Only(Mapped(A, hOf), H) = Mapped(Only(A, C), hOf)
    <3> HIDE DEF C, H
    <3>1. \A s \in Seq(Bound) : Only(Mapped(s, hOf), H) = Mapped(Only(s, C), hOf)
      BY <2>1, <2>2, MappedOnly
    <3> QED BY <3>1
  <2>4. m \in Seq(Bound)
    BY OnlyIn
  <2>5. OnElement(cur, d) = [k \in DOMAIN Only(l, H) |-> [elem |-> cur, h |-> Only(l, H)[k]]]
    BY <1>3 DEF OnElement
  <2>6. Only(l, H) = Mapped(m, hOf)
    BY <1>1, <2>3
  <2> HIDE DEF m, l, H, C
  <2>7. [k \in DOMAIN Mapped(m, hOf) |-> [elem |-> cur, h |-> Mapped(m, hOf)[k]]] = Mapped(m, Placed(cur))
    BY <2>4, Replaced
  <2>8. OnElement(cur, d) = Mapped(m, Placed(cur))
    BY <2>5, <2>6, <2>7
  <2> QED BY <2>8 DEF m
<1> QED BY <1>2, <1>3

-----------------------------------------------------------------------------
(* Two ways to queue: the sequences w one after the other, of which the first  *)
(* t - 1 are empty, and what N leaves of the sequences v and of z behind them. *)
Pieces(D, N, t, e, w, v, z) ==
  /\ t \in Nat /\ e \in Nat /\ 1 <= t /\ t <= e
  /\ \A i \in 1..e : w[i] \in Seq(D)
  /\ \A k \in 1..(e - t) : v[k] \in Seq(D)
  /\ z \in Seq(D)
  /\ \A i \in 1..(t - 1) : w[i] = <<>>
  /\ \A k \in 1..(e - t) : w[t + k - 1] = Only(v[k], N)
  /\ w[e] = Only(z, N)

LEMMA PiecesNone ==
  ASSUME NEW D, NEW N, NEW t, NEW e, NEW w, NEW v, NEW z, Pieces(D, N, t, e, w, v, z)
  PROVE  FirstOf(w, t - 1) = <<>>
<1> DEFINE S == {k \in Nat : k <= t - 1 => FirstOf(w, k) = <<>>}
<1>1. t \in Nat /\ e \in Nat /\ 1 <= t /\ t <= e /\ (\A i \in 1..(t - 1) : w[i] = <<>>)
  BY DEF Pieces
<1>2. \A j \in 1..(t - 1) : w[j] \in Seq(D)
  BY <1>1, EmptySeq
<1>3. t - 1 \in Nat
  BY <1>1
<1>4. \A k \in Nat : k <= t - 1 => (k > 0 => FirstOf(w, k) = FirstOf(w, k - 1) \o w[k])
  BY <1>2, <1>3, FirstMore
<1>5. 0 \in S
  BY FirstNone
<1>6. ASSUME NEW n \in Nat, n \in S PROVE n + 1 \in S
  <2>1. SUFFICES ASSUME n + 1 <= t - 1 PROVE FirstOf(w, n + 1) = <<>>
    OBVIOUS
  <2>2. FirstOf(w, n) = <<>>
    BY <1>6, <2>1, <1>1
  <2>3. n + 1 \in Nat /\ n + 1 > 0 /\ (n + 1) - 1 = n /\ n + 1 \in 1..(t - 1)
    BY <2>1, <1>1
  <2>4. FirstOf(w, n + 1) = FirstOf(w, n) \o w[n + 1]
    BY <1>4, <2>1, <2>3
  <2>5. w[n + 1] = <<>>
    BY <1>1, <2>3
  <2>6. <<>> \o <<>> = <<>>
    OBVIOUS
  <2> QED BY <2>2, <2>4, <2>5, <2>6
<1> HIDE DEF S
<1>7. \A n \in Nat : n \in S
  BY <1>5, <1>6, Steps
<1> QED BY <1>3, <1>7 DEF S

LEMMA PiecesBetween ==
  ASSUME NEW D, NEW N, NEW t, NEW e, NEW w, NEW v, NEW z, Pieces(D, N, t, e, w, v, z)
  PROVE  FirstOf(w, e - 1) = Only(FirstOf(v, e - t), N) /\ FirstOf(v, e - t) \in Seq(D)
<1> DEFINE S == {k \in Nat : k <= e - t => FirstOf(w, t - 1 + k) = Only(FirstOf(v, k), N)}
<1>1. t \in Nat /\ e \in Nat /\ 1 <= t /\ t <= e /\ e - t \in Nat
  BY DEF Pieces
<1>2. (\A j \in 1..e : w[j] \in Seq(D)) /\ (\A k \in 1..(e - t) : v[k] \in Seq(D))
  BY DEF Pieces
<1>3. \A k \in 1..(e - t) : w[t + k - 1] = Only(v[k], N)
  BY DEF Pieces
<1>4. \A k \in Nat : k <= e => (k > 0 => FirstOf(w, k) = FirstOf(w, k - 1) \o w[k])
  BY <1>1, <1>2, FirstMore
<1>5. \A k \in Nat : k <= e - t => FirstOf(v, k) \in Seq(D)
  BY <1>1, <1>2, FirstMore
<1>6. \A k \in Nat : k <= e - t => (k > 0 => FirstOf(v, k) = FirstOf(v, k - 1) \o v[k])
  BY <1>1, <1>2, FirstMore
<1>7. 0 \in S
  <2>1. t - 1 + 0 = t - 1
    BY <1>1
  <2>2. FirstOf(v, 0) = <<>> /\ Only(<<>>, N) = <<>> /\ FirstOf(w, t - 1) = <<>>
    BY FirstNone, OnlyNone, PiecesNone
  <2> QED BY <2>1, <2>2
<1>8. ASSUME NEW n \in Nat, n \in S PROVE n + 1 \in S
  <2>1. SUFFICES ASSUME n + 1 <= e - t PROVE FirstOf(w, t - 1 + (n + 1)) = Only(FirstOf(v, n + 1), N)
    OBVIOUS
  <2>2. FirstOf(w, t - 1 + n) = Only(FirstOf(v, n), N)
    BY <1>8, <2>1, <1>1
  <2> DEFINE m == t - 1 + (n + 1)
  <2>3. m \in Nat /\ m <= e /\ m > 0 /\ m - 1 = t - 1 + n /\ n + 1 \in 1..(e - t) /\ t + (n + 1) - 1 = m
    BY <1>1, <2>1
  <2>4. FirstOf(w, m) = FirstOf(w, t - 1 + n) \o w[m]
    BY <1>4, <2>3
  <2>5. w[m] = Only(v[n + 1], N)
    BY <1>3, <2>3
  <2>6. n + 1 \in Nat /\ n + 1 > 0 /\ (n + 1) - 1 = n /\ n <= e - t
    BY <1>1, <2>1
  <2>7. FirstOf(v, n + 1) = FirstOf(v, n) \o v[n + 1]
    BY <1>6, <2>1, <2>6
  <2>8. FirstOf(v, n) \in Seq(D)
    BY <1>5, <2>6
  <2>9. v[n + 1] \in Seq(D)
    BY <1>2, <2>3
  <2>10. Only(FirstOf(v, n) \o v[n + 1], N) = Only(FirstOf(v, n), N) \o Only(v[n + 1], N)
    BY <2>8, <2>9, OnlyCat
  <2> HIDE DEF m
  <2>11. FirstOf(w, m) = Only(FirstOf(v, n + 1), N)
    BY <2>2, <2>4, <2>5, <2>7, <2>10
  <2> QED BY <2>11 DEF m
<1> HIDE DEF S
<1>9. \A n \in Nat : n \in S
  BY <1>7, <1>8, Steps
<1>10. t - 1 + (e - t) = e - 1
  BY <1>1
<1>11. FirstOf(w, t - 1 + (e - t)) = Only(FirstOf(v, e - t), N)
  BY <1>1, <1>9 DEF S
<1>12. FirstOf(v, e - t) \in Seq(D)
  BY <1>1, <1>5
<1> QED BY <1>10, <1>11, <1>12

LEMMA PiecesAll ==
  ASSUME NEW D, NEW N, NEW t, NEW e, NEW w, NEW v, NEW z, Pieces(D, N, t, e, w, v, z)
  PROVE  FirstOf(w, e) = Only(FirstOf(v, e - t) \o z, N)
<1>1. e \in Nat /\ e > 0 /\ e <= e /\ z \in Seq(D) /\ w[e] = Only(z, N)
  BY DEF Pieces
<1>2. \A j \in 1..e : w[j] \in Seq(D)
  BY DEF Pieces
<1>3. FirstOf(w, e) = FirstOf(w, e - 1) \o w[e]
  BY <1>1, <1>2, FirstMore
<1>4. FirstOf(w, e - 1) = Only(FirstOf(v, e - t), N)
  BY PiecesBetween
<1>5. FirstOf(v, e - t) \in Seq(D)
  BY PiecesBetween
<1>6. Only(FirstOf(v, e - t) \o z, N) = Only(FirstOf(v, e - t), N) \o Only(z, N)
  BY <1>1, <1>5, OnlyCat
<1> QED BY <1>1, <1>3, <1>4, <1>6

\* What is due on i of what is bound to e, for an event that is target's.
Wants(ns, target, e, i) ==
  {b \in Bound : (b.elem = e /\ ns \subseteq b.h.namespace
                  /\ (Delegated(b.h) => b.h.selector >= target /\ ~(b.h.selector = 1 /\ disabled)))
                 /\ (IF Delegated(b.h) THEN b.h.selector ELSE e) = i}

LEMMA BindingsAre ==
  /\ Bindings \subseteq Bound
  /\ \A b \in Bindings : Delegated(b.h) => b.h.selector \in 1..(b.elem - 1)
  /\ \A b \in Bound : /\ b.elem \in Branch /\ b.h.namespace \subseteq {"bs"}
                      /\ b.h.selector \in Nat \cup {NoSelector}
  /\ NoSelector \notin Nat /\ Depth \in Nat
<1>1. \A b \in Bound : b.elem \in Branch /\ b.h.namespace \subseteq {"bs"} /\ b.h.selector \in {p[2] : p \in Places}
  BY DEF Bound, handleObj
<1>2. \A p \in Places : p[1] \in Branch /\ p[2] \in (1..(p[1] - 1)) \cup {NoSelector}
  BY EventAssumption
<1>3. NoSelector \notin Nat /\ Depth \in Nat
  BY EventAssumption
<1>4. \A p \in Places : p[2] \in Nat \cup {NoSelector}
  <2> SUFFICES ASSUME NEW p \in Places PROVE p[2] \in Nat \cup {NoSelector}
    OBVIOUS
  <2>1. p[1] \in Nat
    BY <1>2, <1>3 DEF Branch
  <2> QED BY <1>2, <2>1
<1>5. ASSUME NEW b \in Bindings, Delegated(b.h) PROVE b.h.selector \in 1..(b.elem - 1)
  <2>1. b.h.selector \in (1..(b.elem - 1)) \cup {NoSelector}
    BY DEF Bindings
  <2>2. b.h.selector # NoSelector
    BY <1>5 DEF Delegated
  <2> QED BY <2>1, <2>2
<1>6. Bindings \subseteq Bound
  BY DEF Bindings
<1>7. \A b \in Bound : b.h.selector \in Nat \cup {NoSelector}
  BY <1>1, <1>4
<1> QED BY <1>1, <1>3, <1>5, <1>6, <1>7

SameIn(T, S, R) == T \cap S = T \cap R

LEMMA WantsBefore ==
  ASSUME NEW ns, NEW target \in Nat, NEW e \in Nat, target <= e, NEW i \in 1..(target - 1)
  PROVE  Bound \cap Wants(ns, target, e, i) = {}
<1> SUFFICES ASSUME NEW b \in Bound, b \in Wants(ns, target, e, i) PROVE FALSE
  OBVIOUS
<1>1. /\ Delegated(b.h) => b.h.selector >= target
      /\ (IF Delegated(b.h) THEN b.h.selector ELSE e) = i
  BY DEF Wants
<1> QED BY <1>1

LEMMA WantsBelow ==
  ASSUME NEW ns, NEW target \in Nat, NEW e \in Nat, NEW i \in target..(e - 1)
  PROVE  SameIn(Bound, Wants(ns, target, e, i), ((OnElem(e) \cap Delegates) \cap Chosen(i)) \cap Named(ns))
<1> SUFFICES ASSUME NEW b \in Bound
             PROVE  b \in Wants(ns, target, e, i) <=>
                    b \in OnElem(e) /\ b \in Delegates /\ b \in Chosen(i) /\ b \in Named(ns)
  BY DEF SameIn
<1>1. NoSelector \notin Nat
  BY BindingsAre
<1>2. i \in Nat /\ i # e /\ i >= target
  OBVIOUS
<1>3. b \in Wants(ns, target, e, i) <=>
        /\ b.elem = e /\ ns \subseteq b.h.namespace
        /\ Delegated(b.h) => b.h.selector >= target /\ ~(b.h.selector = 1 /\ disabled)
        /\ (IF Delegated(b.h) THEN b.h.selector ELSE e) = i
  BY DEF Wants
<1>4. /\ b \in OnElem(e) <=> b.elem = e
      /\ b \in Delegates <=> Delegated(b.h)
      /\ b \in Chosen(i) <=> b.h.selector = i /\ ~(i = 1 /\ disabled)
      /\ b \in Named(ns) <=> ns \subseteq b.h.namespace
  BY DEF OnElem, Delegates, Chosen, Named
<1>5. CASE Delegated(b.h)
  BY <1>2, <1>3, <1>4, <1>5
<1>6. CASE ~Delegated(b.h)
  BY <1>2, <1>3, <1>4, <1>6
<1> QED BY <1>5, <1>6

LEMMA WantsOwn ==
  ASSUME NEW ns, NEW target \in Nat, NEW e \in Nat
  PROVE  Bindings \cap Wants(ns, target, e, e) = Bindings \cap ((OnElem(e) \cap Owned) \cap Named(ns))
<1> SUFFICES ASSUME NEW b \in Bindings
             PROVE  b \in Wants(ns, target, e, e) <=> b \in OnElem(e) /\ b \in Owned /\ b \in Named(ns)
  OBVIOUS
<1>1. b \in Bound /\ (Delegated(b.h) => b.h.selector \in 1..(b.elem - 1))
  BY BindingsAre
<1>2. b \in Wants(ns, target, e, e) <=>
        /\ b.elem = e /\ ns \subseteq b.h.namespace
        /\ Delegated(b.h) => b.h.selector >= target /\ ~(b.h.selector = 1 /\ disabled)
        /\ (IF Delegated(b.h) THEN b.h.selector ELSE e) = e
  BY <1>1 DEF Wants
<1>3. /\ b \in OnElem(e) <=> b.elem = e
      /\ b \in Owned <=> ~Delegated(b.h)
      /\ b \in Named(ns) <=> ns \subseteq b.h.namespace
  BY <1>1 DEF OnElem, Owned, Named
<1>4. CASE Delegated(b.h)
  <2>1. b.elem = e => b.h.selector # e
    BY <1>1, <1>4
  <2> QED BY <1>2, <1>3, <1>4, <2>1
<1>5. CASE ~Delegated(b.h)
  BY <1>2, <1>3, <1>5
<1> QED BY <1>4, <1>5

\* What dispatch finds on e, which the event of ev has reached.
Reached(ev, e) ==
  /\ bound \in Seq(Bindings) /\ e \in Branch /\ ev.target \in Branch /\ ev.target <= e
  /\ ~ev.again
  /\ handlers[e] = TableOf(Ahead(bound, e), Behind(bound, e))

DueOn(ev, e, i) == Mapped(Only(bound, Wants(ev.namespace, ev.target, e, i)), Placed(i))
DueOns(ev, e)   == [i \in 1..e |-> DueOn(ev, e, i)]
QueuedOns(ev, e) == [k \in 1..(e - ev.target) |-> OnElement(ev.target + k - 1, handlers[e])]
QueuedOwn(e)    == Mapped(Behind(bound, e), Placed(e))

LEMMA ReachedTypes ==
  ASSUME NEW ev, NEW e, Reached(ev, e)
  PROVE  /\ bound \in Seq(Bound) /\ bound \in Seq(Bindings)
         /\ Ahead(bound, e) \in Seq(Bound) /\ Behind(bound, e) \in Seq(Bound)
         /\ e \in Nat /\ ev.target \in Nat /\ 1 <= ev.target /\ ev.target <= e /\ 1..e \subseteq Branch
<1>1. bound \in Seq(Bindings) /\ e \in Branch /\ ev.target \in Branch /\ ev.target <= e
  BY DEF Reached
<1>2. bound \in Seq(Bound)
  <2>1. Bindings \subseteq Bound
    BY BindingsAre
  <2> QED BY <1>1, <2>1
<1>3. Ahead(bound, e) \in Seq(Bound) /\ Behind(bound, e) \in Seq(Bound)
  BY <1>2, HeldTypes
<1>4. Depth \in Nat
  BY BindingsAre
<1> QED BY <1>1, <1>2, <1>3, <1>4 DEF Branch

LEMMA DueIs ==
  ASSUME NEW ev, NEW e, Reached(ev, e)
  PROVE  Due(ev, e) = FirstOf(DueOns(ev, e), e)
<1>1. ~ev.again
  BY DEF Reached
<1> DEFINE here(i) == Only(bound, Wants(ev.namespace, ev.target, e, i))
<1>2. Due(ev, e) = FlattenSeq([i \in 1..e |-> [k \in DOMAIN here(i) |-> [elem |-> i, h |-> here(i)[k].h]]])
  BY <1>1 DEF Due, Wants
<1>3. ASSUME NEW i \in 1..e
      PROVE  [k \in DOMAIN here(i) |-> [elem |-> i, h |-> here(i)[k].h]] = DueOns(ev, e)[i]
  <2> DEFINE m == here(i)
  <2>1. bound \in Seq(Bound)
    BY ReachedTypes
  <2>2. m \in Seq(Bound)
    BY <2>1, OnlyIn
  <2> HIDE DEF m
  <2>3. [k \in DOMAIN m |-> [elem |-> i, h |-> m[k].h]] = Mapped(m, Placed(i))
    BY <2>2, Replaced
  <2>4. DueOns(ev, e)[i] = Mapped(m, Placed(i))
    BY DEF DueOns, DueOn, m
  <2> QED BY <2>3, <2>4 DEF m
<1> HIDE DEF here
<1>4. [i \in 1..e |-> [k \in DOMAIN here(i) |-> [elem |-> i, h |-> here(i)[k].h]]] = [i \in 1..e |-> DueOns(ev, e)[i]]
  BY <1>3
<1> QED BY <1>2, <1>4 DEF FirstOf

LEMMA QueueIs ==
  ASSUME NEW ev, NEW e, Reached(ev, e)
  PROVE  handlerQueue(ev, e) = Only(FirstOf(QueuedOns(ev, e), e - ev.target) \o QueuedOwn(e), Named(ev.namespace))
<1> DEFINE d == handlers[e]
           own == SubSeq(d.list, d.delegateCount + 1, Len(d.list))
           B == Behind(bound, e)
           o == [k \in DOMAIN own |-> [elem |-> e, h |-> own[k]]]
           D == FlattenSeq([k \in 1..(e - ev.target) |-> OnElement(ev.target + k - 1, d)])
<1>1. handlerQueue(ev, e) = Only(D \o o, Named(ev.namespace))
  BY DEF handlerQueue, Named
<1>2. Ahead(bound, e) \in Seq(Bound) /\ B \in Seq(Bound)
  BY ReachedTypes
<1>3. d = TableOf(Ahead(bound, e), B)
  BY DEF Reached
<1>4. own = Mapped(B, hOf)
  <2> HIDE DEF d, B
  <2> QED BY <1>2, <1>3, TableParts
<1>5. o = Mapped(B, Placed(e))
  <2> HIDE DEF own, B
  <2>1. [k \in DOMAIN Mapped(B, hOf) |-> [elem |-> e, h |-> Mapped(B, hOf)[k]]] = Mapped(B, Placed(e))
    BY <1>2, Replaced
  <2> QED BY <1>4, <2>1
<1>6. D = FirstOf(QueuedOns(ev, e), e - ev.target)
  <2>1. [k \in 1..(e - ev.target) |-> OnElement(ev.target + k - 1, d)]
          = [j \in 1..(e - ev.target) |-> QueuedOns(ev, e)[j]]
    BY DEF QueuedOns
  <2> QED BY <2>1 DEF FirstOf
<1> HIDE DEF D, o
<1> QED BY <1>1, <1>5, <1>6 DEF QueuedOwn

LEMMA DueTypes ==
  ASSUME NEW ev, NEW e, Reached(ev, e)
  PROVE  /\ \A i \in 1..e : DueOns(ev, e)[i] \in Seq(Bound)
         /\ QueuedOwn(e) \in Seq(Bound)
<1>1. bound \in Seq(Bound) /\ Behind(bound, e) \in Seq(Bound) /\ 1..e \subseteq Branch
  BY ReachedTypes
<1>2. ASSUME NEW i \in 1..e PROVE DueOns(ev, e)[i] \in Seq(Bound)
  <2> DEFINE m == Only(bound, Wants(ev.namespace, ev.target, e, i))
  <2>1. m \in Seq(Bound)
    BY <1>1, OnlyIn
  <2>2. DueOns(ev, e)[i] = Mapped(m, Placed(i))
    BY DEF DueOns, DueOn
  <2> HIDE DEF m
  <2>3. i \in Branch
    BY <1>1
  <2>4. Mapped(m, Placed(i)) \in Seq(Bound)
    BY <2>1, <2>3, PlacedIn
  <2> QED BY <2>2, <2>4
<1>3. QueuedOwn(e) \in Seq(Bound)
  <2>1. e \in Branch
    BY DEF Reached
  <2> QED BY <1>1, <2>1, PlacedIn DEF QueuedOwn
<1> QED BY <1>2, <1>3

LEMMA DueBefore ==
  ASSUME NEW ev, NEW e, Reached(ev, e), NEW i \in 1..(ev.target - 1)
  PROVE  DueOns(ev, e)[i] = <<>>
<1> DEFINE W == Wants(ev.namespace, ev.target, e, i)
<1>1. bound \in Seq(Bound) /\ e \in Nat /\ ev.target \in Nat /\ ev.target <= e
  BY ReachedTypes
<1>2. Bound \cap W = {}
  BY <1>1, WantsBefore
<1>3. DueOns(ev, e)[i] = Mapped(Only(bound, W), Placed(i))
  BY <1>1 DEF DueOns, DueOn
<1> HIDE DEF W
<1>4. Only(bound, W) = <<>>
  BY <1>1, <1>2, OnlyNothing
<1> QED BY <1>3, <1>4, MappedNone

LEMMA DueBelow ==
  ASSUME NEW ev, NEW e, Reached(ev, e), NEW k \in 1..(e - ev.target)
  PROVE  /\ QueuedOns(ev, e)[k] \in Seq(Bound)
         /\ DueOns(ev, e)[ev.target + k - 1] = Only(QueuedOns(ev, e)[k], Named(ev.namespace))
<1> DEFINE i == ev.target + k - 1
           A == Ahead(bound, e)
           N == Named(ev.namespace)
           C == Chosen(i)
           E == OnElem(e) \cap Delegates
           W == Wants(ev.namespace, ev.target, e, i)
           m == Only(A, C)
           p == Placed(i)
           d == handlers[e]
<1>1. bound \in Seq(Bound) /\ A \in Seq(Bound) /\ Behind(bound, e) \in Seq(Bound)
  BY ReachedTypes
<1>2. e \in Nat /\ ev.target \in Nat /\ 1 <= ev.target /\ ev.target <= e /\ 1..e \subseteq Branch
  BY ReachedTypes
<1>3. i \in ev.target..(e - 1) /\ i \in 1..e
  BY <1>2
<1>4. i \in Branch
  BY <1>2, <1>3
<1>5. d = TableOf(A, Behind(bound, e))
  BY DEF Reached
<1>6. QueuedOns(ev, e)[k] = OnElement(i, d)
  BY DEF QueuedOns
<1>7. DueOns(ev, e)[i] = Mapped(Only(bound, W), p)
  BY <1>3 DEF DueOns, DueOn
<1>8. Bound \cap W = Bound \cap ((E \cap C) \cap N)
  <2>1. SameIn(Bound, Wants(ev.namespace, ev.target, e, i),
              ((OnElem(e) \cap Delegates) \cap Chosen(i)) \cap Named(ev.namespace))
    <3> HIDE DEF i
    <3>1. ev.target \in Nat /\ e \in Nat /\ i \in ev.target..(e - 1)
      BY <1>2, <1>3
    <3> QED BY <3>1, WantsBelow
  <2> QED BY <2>1 DEF SameIn
<1>9. A = Only(bound, E)
  BY <1>1, HeldIs
<1> HIDE DEF i, A, N, C, E, W, p, d
<1>10. OnElement(i, d) = Mapped(m, p)
  BY <1>1, <1>5, OnElementIs DEF C, p
<1>11. m \in Seq(Bound)
  BY <1>1, OnlyIn
<1>12. Only(bound, W) = Only(bound, (E \cap C) \cap N)
  BY <1>1, <1>8, OnlySame
<1>13. Only(Only(bound, E), C) = Only(bound, E \cap C)
  BY <1>1, OnlyTwice
<1>14. Only(Only(bound, E \cap C), N) = Only(bound, (E \cap C) \cap N)
  BY <1>1, OnlyTwice
<1>15. Only(bound, W) = Only(m, N)
  BY <1>9, <1>12, <1>13, <1>14
<1> HIDE DEF m
<1>16. Mapped(m, p) \in Seq(Bound)
  BY <1>4, <1>11, PlacedIn DEF p
<1>17. Only(Mapped(m, p), N) = Mapped(Only(m, N), p)
  BY <1>4, <1>11, PlacedIn DEF p, N
<1>18. QueuedOns(ev, e)[k] \in Seq(Bound) /\ DueOns(ev, e)[i] = Only(QueuedOns(ev, e)[k], N)
  BY <1>6, <1>7, <1>10, <1>15, <1>16, <1>17
<1> QED BY <1>18 DEF i, N

LEMMA DueOwn ==
  ASSUME NEW ev, NEW e, Reached(ev, e)
  PROVE  DueOns(ev, e)[e] = Only(QueuedOwn(e), Named(ev.namespace))
<1> DEFINE B == Behind(bound, e)
           N == Named(ev.namespace)
           E == OnElem(e) \cap Owned
           W == Wants(ev.namespace, ev.target, e, e)
           p == Placed(e)
<1>1. bound \in Seq(Bound) /\ bound \in Seq(Bindings) /\ B \in Seq(Bound)
  BY ReachedTypes
<1>2. e \in Nat /\ ev.target \in Nat /\ 1 <= ev.target /\ ev.target <= e
  BY ReachedTypes
<1>3. e \in 1..e
  BY <1>2
<1>4. e \in Branch
  BY DEF Reached
<1>5. DueOns(ev, e)[e] = Mapped(Only(bound, W), p)
  BY <1>3 DEF DueOns, DueOn
<1>6. Bindings \cap W = Bindings \cap (E \cap N)
  BY <1>2, WantsOwn
<1>7. B = Only(bound, E)
  BY <1>1, HeldIs
<1>8. QueuedOwn(e) = Mapped(B, p)
  BY DEF QueuedOwn
<1> HIDE DEF B, N, E, W, p
<1>9. Only(bound, W) = Only(bound, E \cap N)
  BY <1>1, <1>6, OnlySame
<1>10. Only(Only(bound, E), N) = Only(bound, E \cap N)
  BY <1>1, OnlyTwice
<1>11. Only(bound, W) = Only(B, N)
  BY <1>7, <1>9, <1>10
<1>12. Only(Mapped(B, p), N) = Mapped(Only(B, N), p)
  BY <1>1, <1>4, PlacedIn DEF p, N
<1>13. DueOns(ev, e)[e] = Only(QueuedOwn(e), N)
  BY <1>5, <1>8, <1>11, <1>12
<1> QED BY <1>13 DEF N

\* dispatch has before it exactly what is due.
LEMMA QueueDue ==
  ASSUME NEW ev, NEW e, Reached(ev, e)
  PROVE  handlerQueue(ev, e) = Due(ev, e) /\ Due(ev, e) \in Seq(Bound)
<1> DEFINE D == Bound
           N == Named(ev.namespace)
           t == ev.target
           w == DueOns(ev, e)
           v == QueuedOns(ev, e)
           z == QueuedOwn(e)
<1>1. t \in Nat /\ e \in Nat /\ 1 <= t /\ t <= e
  BY ReachedTypes
<1>2. \A i \in 1..e : w[i] \in Seq(D)
  BY DueTypes
<1>3. \A k \in 1..(e - t) : v[k] \in Seq(D)
  BY DueBelow
<1>4. z \in Seq(D)
  BY DueTypes
<1>5. \A i \in 1..(t - 1) : w[i] = <<>>
  BY DueBefore
<1>6. \A k \in 1..(e - t) : w[t + k - 1] = Only(v[k], N)
  BY DueBelow
<1>7. w[e] = Only(z, N)
  BY DueOwn
<1>8. Due(ev, e) = FirstOf(w, e)
  BY DueIs
<1>9. handlerQueue(ev, e) = Only(FirstOf(v, e - t) \o z, N)
  BY QueueIs
<1> HIDE DEF D, N, t, w, v, z
<1>10. Pieces(D, N, t, e, w, v, z)
  BY <1>1, <1>2, <1>3, <1>4, <1>5, <1>6, <1>7 DEF Pieces
<1>11. FirstOf(w, e) = Only(FirstOf(v, e - t) \o z, N)
  BY <1>10, PiecesAll
<1>12. FirstOf(w, e) \in Seq(D)
  <2>1. e \in Nat
    BY <1>1
  <2>2. \A k \in Nat : k <= e => FirstOf(w, k) \in Seq(D)
    BY <1>2, <2>1, FirstMore
  <2> QED BY <1>1, <2>2
<1> QED BY <1>8, <1>9, <1>11, <1>12 DEF D

-----------------------------------------------------------------------------
(* The invariant.  Each element's table is that of what is bound to it; each   *)
(* event under way has what is due before it, all but the innermost run a      *)
(* handler, and the type is triggered while the innermost is the second event  *)
(* of a trigger, which calls nobody.                                           *)
EventStates ==
  [target : Branch, at : 0..Depth, byUser : BOOLEAN, onlyHandlers : BOOLEAN,
   namespace : SUBSET {"bs"}, again : BOOLEAN, queue : Seq(Bound), due : Seq(Bound),
   running : BOOLEAN, stopped : BOOLEAN, prevented : BOOLEAN]

EventFits(ev) ==
  /\ ev \in EventStates
  /\ ev.target <= ev.at + 1 /\ ev.queue = ev.due
  /\ ev.running => ev.queue # <<>>
  /\ ev.queue # <<>> => ev.at # 0
  /\ ev.again => ~ev.running /\ ev.queue = <<>>

Stack(us, again) ==
  /\ us \in Seq(EventStates)
  /\ \A i \in 1..Len(us) : EventFits(us[i]) /\ (i # Len(us) => us[i].running)
  /\ again <=> (us # <<>> /\ us[Len(us)].again)

Held(hs, bs) == hs = [e \in Branch |-> TableOf(Ahead(bs, e), Behind(bs, e))]

EventInv ==
  /\ bound \in Seq(Bindings) /\ Held(handlers, bound)
  /\ Stack(under, triggered)

LEMMA OnTop ==
  ASSUME NEW us, NEW tr, Stack(us, tr), us # <<>>
  PROVE  /\ Last(us) = us[Len(us)] /\ EventFits(Last(us)) /\ (tr <=> Last(us).again)
         /\ Len(us) \in Nat /\ Len(us) > 0
<1>1. us \in Seq(EventStates) /\ (\A i \in 1..Len(us) : EventFits(us[i])) /\ (tr <=> us[Len(us)].again)
  BY DEF Stack
<1>2. Len(us) \in Nat /\ Len(us) # 0
  BY <1>1, EmptySeq, LenProperties
<1>3. Last(us) = us[Len(us)]
  BY DEF Last
<1>4. EventFits(us[Len(us)])
  BY <1>1, <1>2
<1> QED BY <1>1, <1>2, <1>3, <1>4

LEMMA StackBeneath ==
  ASSUME NEW us, NEW tr, Stack(us, tr), us # <<>>, NEW bs, bs = SubSeq(us, 1, Len(us) - 1)
  PROVE  /\ bs \in Seq(EventStates) /\ Len(bs) = Len(us) - 1
         /\ \A i \in 1..Len(bs) : EventFits(bs[i]) /\ bs[i].running
<1> DEFINE m == Len(us) - 1
           p == 1
<1>1. us \in Seq(EventStates) /\ (\A i \in 1..Len(us) : EventFits(us[i]) /\ (i # Len(us) => us[i].running))
  BY DEF Stack
<1>2. Len(us) \in Nat /\ Len(us) # 0 /\ m \in Nat /\ p \in 1..(Len(us) + 1) /\ m \in 0..Len(us) /\ p <= m + 1
  BY <1>1, EmptySeq, LenProperties
<1> HIDE DEF m
<1>3. /\ SubSeq(us, 1, m) \in Seq(EventStates)
      /\ Len(SubSeq(us, 1, m)) = m
      /\ \A i \in 1..m : SubSeq(us, 1, m)[i] = us[i]
  BY <1>1, <1>2, SubSeqProperties
<1>4. \A i \in 1..m : EventFits(us[i]) /\ us[i].running
  BY <1>1, <1>2 DEF m
<1> QED BY <1>3, <1>4 DEF m

LEMMA StackPush ==
  ASSUME NEW us, us \in Seq(EventStates), \A i \in 1..Len(us) : EventFits(us[i]) /\ us[i].running,
         NEW x, EventFits(x), NEW again, again <=> x.again
  PROVE  Stack(Append(us, x), again)
<1> DEFINE vs == Append(us, x)
           n == Len(us)
<1>1. x \in EventStates
  BY DEF EventFits
<1>2. vs \in Seq(EventStates) /\ Len(vs) = n + 1 /\ vs[n + 1] = x /\ (\A i \in 1..n : vs[i] = us[i]) /\ n \in Nat
  BY <1>1, AppendProperties, LenProperties
<1> HIDE DEF vs
<1>3. vs # <<>>
  <2>1. Len(<<>>) = 0
    OBVIOUS
  <2> QED BY <1>2, <2>1
<1>4. ASSUME NEW i \in 1..Len(vs) PROVE EventFits(vs[i]) /\ (i # Len(vs) => vs[i].running)
  <2>1. CASE i = n + 1
    BY <1>2, <2>1
  <2>2. CASE i # n + 1
    BY <1>2, <2>2
  <2> QED BY <2>1, <2>2
<1>5. vs[Len(vs)].again <=> again
  BY <1>2
<1>6. Stack(vs, again)
  BY <1>2, <1>3, <1>4, <1>5 DEF Stack
<1> QED BY <1>6 DEF vs

LEMMA StackPop ==
  ASSUME NEW us, NEW tr, Stack(us, tr), us # <<>>
  PROVE  Stack(SubSeq(us, 1, Len(us) - 1), FALSE)
<1> DEFINE bs == SubSeq(us, 1, Len(us) - 1)
<1>1. /\ bs \in Seq(EventStates)
      /\ \A i \in 1..Len(bs) : EventFits(bs[i]) /\ bs[i].running
  BY StackBeneath
<1> HIDE DEF bs
<1>2. bs # <<>> => ~bs[Len(bs)].again
  <2>1. SUFFICES ASSUME bs # <<>> PROVE ~bs[Len(bs)].again
    OBVIOUS
  <2>2. Len(bs) \in 1..Len(bs)
    BY <1>1, <2>1, EmptySeq, LenProperties
  <2> QED BY <1>1, <2>2 DEF EventFits
<1>3. Stack(bs, FALSE)
  BY <1>1, <1>2 DEF Stack
<1> QED BY <1>3 DEF bs

LEMMA StackOnto ==
  ASSUME NEW us, NEW tr, Stack(us, tr), us # <<>> => us[Len(us)].running
  PROVE  us \in Seq(EventStates) /\ (\A i \in 1..Len(us) : EventFits(us[i]) /\ us[i].running)
<1>1. us \in Seq(EventStates) /\ (\A i \in 1..Len(us) : EventFits(us[i]) /\ (i # Len(us) => us[i].running))
  BY DEF Stack
<1>2. ASSUME NEW i \in 1..Len(us) PROVE us # <<>>
  <2>1. Len(<<>>) = 0 /\ i # 0
    BY LenProperties, <1>1
  <2> QED BY <2>1
<1> QED BY <1>1, <1>2

\* on and off, for the tables of all elements.
LEMMA HeldOn ==
  ASSUME NEW hs, NEW bs \in Seq(Bound), Held(hs, bs), NEW b \in Bound, NEW e, e = b.elem
  PROVE  Held([hs EXCEPT ![e] = Bind(@, b.h)], Append(bs, b))
<1> DEFINE cs == Append(bs, b)
           gs == [hs EXCEPT ![e] = Bind(@, b.h)]
           T(f) == TableOf(Ahead(cs, f), Behind(cs, f))
<1>1. e \in Branch
  BY DEF Bound
<1>2. DOMAIN hs = Branch /\ \A f \in Branch : hs[f] = TableOf(Ahead(bs, f), Behind(bs, f))
  BY DEF Held
<1>3. Ahead(bs, e) \in Seq(Bound) /\ Behind(bs, e) \in Seq(Bound)
  BY HeldTypes
<1>4. Bind(hs[e], b.h) = T(e)
  <2>1. CASE Delegated(b.h)
    <3>1. Ahead(cs, e) = Append(Ahead(bs, e), b) /\ Behind(cs, e) = Behind(bs, e)
      BY <2>1, HeldMore
    <3> HIDE DEF cs
    <3>2. hs[e] = TableOf(Ahead(bs, e), Behind(bs, e))
      BY <1>1, <1>2
    <3>3. Bind(hs[e], b.h) = TableOf(Append(Ahead(bs, e), b), Behind(bs, e))
      BY <1>3, <2>1, <3>2, BindDelegate
    <3> QED BY <3>1, <3>3
  <2>2. CASE ~Delegated(b.h)
    <3>1. Ahead(cs, e) = Ahead(bs, e) /\ Behind(cs, e) = Append(Behind(bs, e), b)
      BY <2>2, HeldMore
    <3> HIDE DEF cs
    <3>2. hs[e] = TableOf(Ahead(bs, e), Behind(bs, e))
      BY <1>1, <1>2
    <3>3. Bind(hs[e], b.h) = TableOf(Ahead(bs, e), Append(Behind(bs, e), b))
      BY <1>3, <2>2, <3>2, BindOwn
    <3> QED BY <3>1, <3>3
  <2> QED BY <2>1, <2>2
<1>5. ASSUME NEW f \in Branch, f # e PROVE hs[f] = T(f)
  <2>1. Ahead(cs, f) = Ahead(bs, f) /\ Behind(cs, f) = Behind(bs, f)
    BY <1>5, HeldMore
  <2> QED BY <1>2, <2>1
<1>6. DOMAIN gs = Branch /\ gs[e] = Bind(hs[e], b.h) /\ \A f \in Branch : f # e => gs[f] = hs[f]
  BY <1>1, <1>2
<1>7. gs = [f \in DOMAIN gs |-> gs[f]]
  OBVIOUS
<1> HIDE DEF gs, T
<1>8. \A f \in Branch : gs[f] = T(f)
  BY <1>4, <1>5, <1>6
<1>9. gs = [f \in Branch |-> T(f)]
  BY <1>6, <1>7, <1>8
<1> QED BY <1>9 DEF Held, gs, T

LEMMA HeldOff ==
  ASSUME NEW hs, NEW bs \in Seq(Bound), Held(hs, bs), NEW e \in Branch, NEW told
  PROVE  Held([hs EXCEPT ![e] = Unbind(@, told)], Only(bs, Left(e, told)))
<1> DEFINE cs == Only(bs, Left(e, told))
           gs == [hs EXCEPT ![e] = Unbind(@, told)]
           T(f) == TableOf(Ahead(cs, f), Behind(cs, f))
<1>2. DOMAIN hs = Branch /\ \A f \in Branch : hs[f] = TableOf(Ahead(bs, f), Behind(bs, f))
  BY DEF Held
<1>3. Ahead(bs, e) \in Seq(Bound \cap Delegates) /\ Behind(bs, e) \in Seq(Bound \cap Owned)
  BY HeldTypes
<1>4. /\ Ahead(cs, e) = Only(Ahead(bs, e), Unmatched(told)) /\ Behind(cs, e) = Only(Behind(bs, e), Unmatched(told))
      /\ \A f : f # e => Ahead(cs, f) = Ahead(bs, f) /\ Behind(cs, f) = Behind(bs, f)
  BY HeldLess
<1>5. Unbind(hs[e], told) = TableOf(Only(Ahead(bs, e), Unmatched(told)), Only(Behind(bs, e), Unmatched(told)))
  <2>1. hs[e] = TableOf(Ahead(bs, e), Behind(bs, e))
    BY <1>2
  <2> QED BY <1>3, <2>1, UnbindHeld
<1>6. DOMAIN gs = Branch /\ gs[e] = Unbind(hs[e], told) /\ \A f \in Branch : f # e => gs[f] = hs[f]
  BY <1>2
<1>7. gs = [f \in DOMAIN gs |-> gs[f]]
  OBVIOUS
<1> HIDE DEF gs, cs
<1>8. gs[e] = T(e)
  BY <1>4, <1>5, <1>6
<1>9. \A f \in Branch : f # e => gs[f] = T(f)
  BY <1>2, <1>4, <1>6
<1> HIDE DEF T
<1>10. \A f \in Branch : gs[f] = T(f)
  BY <1>8, <1>9
<1>11. gs = [f \in Branch |-> T(f)]
  BY <1>6, <1>7, <1>10
<1> QED BY <1>11 DEF Held, gs, cs, T

LEMMA EventsForget ==
  ASSUME bound \in Seq(Bindings), Held(handlers, bound), NEW e \in Branch, NEW told, Forget(e, told)
  PROVE  bound' \in Seq(Bindings) /\ Held(handlers', bound')
<1>1. handlers' = [handlers EXCEPT ![e] = Unbind(@, told)] /\ bound' = Only(bound, Left(e, told))
  BY DEF Forget, Left
<1>2. Bindings \subseteq Bound
  BY BindingsAre
<1>3. bound \in Seq(Bound)
  BY <1>2
<1>4. Only(bound, Left(e, told)) \in Seq(Bindings)
  BY OnlyIn
<1>5. Held([handlers EXCEPT ![e] = Unbind(@, told)], Only(bound, Left(e, told)))
  BY <1>3, HeldOff
<1> QED BY <1>1, <1>4, <1>5

LEMMA EventsOn ==
  ASSUME EventInv, on
  PROVE  EventInv'
<1>1. bound \in Seq(Bindings) /\ Held(handlers, bound) /\ Stack(under, triggered)
  BY DEF EventInv
<1>2. PICK p \in Places, h \in handleObj :
        /\ h.selector = p[2]
        /\ handlers' = [handlers EXCEPT ![p[1]] = Bind(@, h)]
        /\ bound' = Append(bound, [elem |-> p[1], h |-> h])
  BY DEF on
<1> DEFINE b == [elem |-> p[1], h |-> h]
<1>3. p[1] \in Branch /\ p[2] \in (1..(p[1] - 1)) \cup {NoSelector}
  BY EventAssumption
<1>4. b \in Bound /\ b \in Bindings
  BY <1>2, <1>3 DEF Bindings, Bound
<1>5. bound \in Seq(Bound)
  <2>1. Bindings \subseteq Bound
    BY BindingsAre
  <2> QED BY <1>1, <2>1
<1>6. b.elem = p[1] /\ b.h = h
  OBVIOUS
<1> HIDE DEF b
<1>7. Held([handlers EXCEPT ![p[1]] = Bind(@, b.h)], Append(bound, b))
  BY <1>1, <1>4, <1>5, <1>6, HeldOn
<1>8. Append(bound, b) \in Seq(Bindings)
  BY <1>1, <1>4, AppendProperties
<1>9. handlers' = [handlers EXCEPT ![p[1]] = Bind(@, b.h)] /\ bound' = Append(bound, b)
  BY <1>2, <1>6 DEF b
<1>10. bound' \in Seq(Bindings) /\ Held(handlers', bound')
  BY <1>7, <1>8, <1>9
<1>11. under' = under /\ triggered' = triggered
  BY DEF on
<1>12. Stack(under', triggered')
  BY <1>1, <1>11
<1> QED BY <1>10, <1>12 DEF EventInv

LEMMA EventsOff ==
  ASSUME EventInv, off
  PROVE  EventInv'
<1>1. bound \in Seq(Bindings) /\ Held(handlers, bound) /\ Stack(under, triggered)
  BY DEF EventInv
<1>2. PICK e \in Branch, f \in Listeners \cup {AnyFunction}, ns \in {{}, {"bs"}}, s \in {p[2] : p \in Places} :
        Forget(e, [guid |-> f, namespace |-> ns, selector |-> s])
  BY DEF off
<1>3. bound' \in Seq(Bindings) /\ Held(handlers', bound')
  BY <1>1, <1>2, EventsForget
<1>4. under' = under /\ triggered' = triggered
  BY DEF off
<1>5. Stack(under', triggered')
  BY <1>1, <1>4
<1> QED BY <1>3, <1>5 DEF EventInv

\* An event that begins, for its target, calls nobody yet.
LEMMA EventNew ==
  ASSUME NEW t \in Branch, NEW byUser \in BOOLEAN, NEW only \in BOOLEAN, NEW ns \in SUBSET {"bs"},
         NEW again \in BOOLEAN, NEW x, x = Event(t, byUser, only, ns, again)
  PROVE  EventFits(x) /\ (x.again <=> again)
<1>1. Depth \in Nat /\ Depth # 0
  BY EventAssumption
<1>2. t \in Branch /\ t - 1 \in 0..Depth /\ t \in Nat
  BY <1>1 DEF Branch
<1>3. <<>> \in Seq(Bound)
  BY EmptySeq
<1>4. x \in EventStates
  BY <1>2, <1>3 DEF EventStates, Event
<1>5. x.target = t /\ x.at = t - 1 /\ x.queue = <<>> /\ x.due = <<>> /\ x.running = FALSE /\ x.again = again
  BY DEF Event
<1>6. x.target <= x.at + 1
  BY <1>2, <1>5
<1> QED BY <1>4, <1>5, <1>6 DEF EventFits

LEMMA EventsClick ==
  ASSUME EventInv, click
  PROVE  EventInv'
<1>1. bound \in Seq(Bindings) /\ Held(handlers, bound) /\ Stack(under, triggered)
  BY DEF EventInv
<1> DEFINE x == Event(1, TRUE, FALSE, {}, FALSE)
<1>2. under = <<>> /\ under' = <<x>>
  BY DEF click
<1>3. EventFits(x) /\ (x.again <=> FALSE)
  <2>1. 1 \in Branch /\ Depth \in Branch
    BY EventAssumption DEF Branch
  <2> QED BY <2>1, EventNew
<1>4. triggered <=> FALSE
  BY <1>1, <1>2 DEF Stack
<1>5. under \in Seq(EventStates) /\ (\A i \in 1..Len(under) : EventFits(under[i]) /\ under[i].running)
  <2>1. under # <<>> => under[Len(under)].running
    BY <1>2
  <2> QED BY <1>1, <2>1, StackOnto
<1>6. <<x>> = Append(under, x)
  BY <1>2
<1> HIDE DEF x
<1>7. Stack(Append(under, x), triggered)
  BY <1>3, <1>4, <1>5, StackPush
<1>8. triggered' = triggered /\ handlers' = handlers /\ bound' = bound
  BY DEF click
<1>9. Stack(under', triggered')
  BY <1>2, <1>6, <1>7, <1>8
<1>10. bound' \in Seq(Bindings) /\ Held(handlers', bound')
  BY <1>1, <1>8
<1> QED BY <1>9, <1>10 DEF EventInv

LEMMA EventsTrigger ==
  ASSUME EventInv, trigger
  PROVE  EventInv'
<1>1. bound \in Seq(Bindings) /\ Held(handlers, bound) /\ Stack(under, triggered)
  BY DEF EventInv
<1>2. PICK e \in {1, Depth}, only \in BOOLEAN, ns \in {{}, {"bs"}} :
        under' = Append(under, Event(e, FALSE, only, ns, FALSE))
  BY DEF trigger
<1> DEFINE x == Event(e, FALSE, only, ns, FALSE)
<1>3. EventFits(x) /\ (x.again <=> FALSE)
  <2>1. 1 \in Branch /\ Depth \in Branch
    BY EventAssumption DEF Branch
  <2> QED BY <2>1, EventNew
<1>4. under # <<>> => under[Len(under)].running
  BY DEF trigger, Calling, Last
<1>5. under \in Seq(EventStates) /\ (\A i \in 1..Len(under) : EventFits(under[i]) /\ under[i].running)
  BY <1>1, <1>4, StackOnto
<1>6. triggered <=> FALSE
  <2>1. CASE under = <<>>
    BY <1>1, <2>1 DEF Stack
  <2>2. CASE under # <<>>
    <3>1. EventFits(Last(under)) /\ (triggered <=> Last(under).again) /\ Last(under) = under[Len(under)]
      BY <1>1, <2>2, OnTop
    <3> QED BY <1>4, <2>2, <3>1 DEF EventFits
  <2> QED BY <2>1, <2>2
<1>7. under' = Append(under, x)
  BY <1>2
<1> HIDE DEF x
<1>8. Stack(Append(under, x), triggered)
  BY <1>3, <1>5, <1>6, StackPush
<1>9. triggered' = triggered /\ handlers' = handlers /\ bound' = bound
  BY DEF trigger
<1>10. Stack(under', triggered')
  BY <1>7, <1>8, <1>9
<1>11. bound' \in Seq(Bindings) /\ Held(handlers', bound')
  BY <1>1, <1>9
<1> QED BY <1>10, <1>11 DEF EventInv

\* The innermost event goes on, to what has its again.
LEMMA EventGoesOn ==
  ASSUME Stack(under, triggered), under # <<>>, NEW x, EventFits(x), x.again <=> Last(under).again
  PROVE  Stack(Append(Beneath, x), triggered)
<1> DEFINE bs == SubSeq(under, 1, Len(under) - 1)
<1>1. bs \in Seq(EventStates) /\ (\A i \in 1..Len(bs) : EventFits(bs[i]) /\ bs[i].running)
  BY StackBeneath
<1>2. triggered <=> Last(under).again
  BY OnTop
<1> HIDE DEF bs
<1>3. Stack(Append(bs, x), triggered)
  BY <1>1, <1>2, StackPush
<1> QED BY <1>3 DEF bs, Beneath

LEMMA EventsDispatch ==
  ASSUME EventInv, dispatch
  PROVE  EventInv'
<1>1. bound \in Seq(Bindings) /\ Held(handlers, bound) /\ Stack(under, triggered)
  BY DEF EventInv
<1> DEFINE v == Last(under)
           e == CHOOSE n \in Onward(v) : \A m \in Onward(v) : n <= m
           q == IF Discarded(v) THEN <<>> ELSE handlerQueue(v, e)
           x == [v EXCEPT !.at = e, !.queue = q, !.due = Due(v, e)]
<1>2. under # <<>> /\ Onward(v) # {} /\ ~v.running
  BY DEF dispatch, Innermost
<1>3. under' = Append(Beneath, x)
  BY DEF dispatch, Innermost
<1>4. EventFits(v) /\ (triggered <=> v.again)
  BY <1>1, <1>2, OnTop
<1>5. v \in EventStates /\ v.target \in Branch /\ v.at \in 0..Depth /\ v.target <= v.at + 1
  BY <1>4 DEF EventFits, EventStates
<1>6. e \in Onward(v)
  <2>1. Onward(v) \subseteq Nat
    <3>1. Onward(v) \subseteq (v.at + 1)..Depth
      BY DEF Onward
    <3>2. Depth \in Nat
      BY EventAssumption
    <3> QED BY <1>5, <3>1, <3>2
  <2>2. \E n \in Onward(v) : \A m \in Onward(v) : n <= m
    BY <1>2, <2>1, Least
  <2> QED BY <2>2
<1>7. e \in Branch /\ v.target <= e
  <2>1. e \in (v.at + 1)..Depth
    BY <1>6 DEF Onward
  <2>2. Depth \in Nat
    BY EventAssumption
  <2> HIDE DEF e, v
  <2> QED BY <1>5, <2>1, <2>2 DEF Branch
<1> HIDE DEF e, v
<1>8. q = Due(v, e) /\ q \in Seq(Bound) /\ (v.again => q = <<>>)
  <2>1. CASE v.again
    <3>1. Discarded(v)
      BY <1>4, <2>1 DEF Discarded
    <3>2. Due(v, e) = <<>>
      BY <2>1 DEF Due
    <3> QED BY <3>1, <3>2, EmptySeq
  <2>2. CASE ~v.again
    <3>1. ~Discarded(v)
      BY <1>4, <2>2 DEF Discarded
    <3>2. handlers[e] = TableOf(Ahead(bound, e), Behind(bound, e))
      BY <1>1, <1>7 DEF Held
    <3>3. Reached(v, e)
      BY <1>1, <1>5, <1>7, <2>2, <3>2 DEF Reached
    <3>4. handlerQueue(v, e) = Due(v, e) /\ Due(v, e) \in Seq(Bound)
      BY <3>3, QueueDue
    <3> QED BY <2>2, <3>1, <3>4
  <2> QED BY <2>1, <2>2
<1> HIDE DEF q
<1>9. e \in 0..Depth /\ e # 0
  BY <1>7 DEF Branch
<1>10. Due(v, e) \in Seq(Bound)
  BY <1>8
<1>11. /\ x \in EventStates
       /\ x.target = v.target /\ x.at = e /\ x.queue = q /\ x.due = Due(v, e)
       /\ x.running = v.running /\ x.again = v.again
  BY <1>5, <1>8, <1>9, <1>10 DEF EventStates
<1> HIDE DEF x
<1>12. x.target <= x.at + 1
  <2>1. Depth \in Nat
    BY EventAssumption
  <2> QED BY <1>5, <1>7, <1>11, <2>1 DEF Branch
<1>13. EventFits(x) /\ (x.again <=> v.again)
  BY <1>2, <1>8, <1>9, <1>11, <1>12 DEF EventFits
<1>14. Stack(Append(Beneath, x), triggered)
  BY <1>1, <1>2, <1>13, EventGoesOn DEF v
<1>15. triggered' = triggered /\ handlers' = handlers /\ bound' = bound
  BY DEF dispatch
<1>16. Stack(under', triggered')
  BY <1>3, <1>14, <1>15
<1>17. bound' \in Seq(Bindings) /\ Held(handlers', bound')
  BY <1>1, <1>15
<1> QED BY <1>16, <1>17 DEF EventInv

LEMMA EventsCall ==
  ASSUME EventInv, CallHandler
  PROVE  EventInv'
<1>1. bound \in Seq(Bindings) /\ Held(handlers, bound) /\ Stack(under, triggered)
  BY DEF EventInv
<1> DEFINE v == Last(under)
           x == [v EXCEPT !.running = TRUE]
           h == Head(v.queue).h
<1>2. under # <<>> /\ v.queue # <<>>
  BY DEF CallHandler, Innermost
<1>3. under' = Append(Beneath, x) /\ triggered' = triggered
  BY DEF CallHandler, Innermost
<1>4. EventFits(v)
  BY <1>1, <1>2, OnTop
<1> HIDE DEF v
<1>5. v \in EventStates /\ v.target <= v.at + 1 /\ v.queue = v.due /\ ~v.again /\ v.at # 0
  BY <1>2, <1>4 DEF EventFits
<1>6. /\ x \in EventStates
      /\ x.target = v.target /\ x.at = v.at /\ x.queue = v.queue /\ x.due = v.due
      /\ x.running = TRUE /\ x.again = v.again
  BY <1>5 DEF EventStates
<1> HIDE DEF x
<1>7. EventFits(x) /\ (x.again <=> v.again)
  BY <1>2, <1>5, <1>6 DEF EventFits
<1>8. Stack(Append(Beneath, x), triggered)
  BY <1>1, <1>2, <1>7, EventGoesOn DEF v
<1>9. Stack(under', triggered')
  BY <1>3, <1>8
<1>10. bound' \in Seq(Bindings) /\ Held(handlers', bound')
  <2>1. CASE Head(v.queue).h.once
    <3>1. Forget(v.at, Itself(h))
      BY <2>1 DEF CallHandler, Innermost, v
    <3>2. v.at \in Branch
      <4>1. v.at # 0
        BY <1>2, <1>4 DEF EventFits
      <4>2. v.at \in 0..Depth
        BY <1>5 DEF EventStates
      <4> QED BY <4>1, <4>2, EventAssumption DEF Branch
    <3> HIDE DEF h
    <3> QED BY <1>1, <3>1, <3>2, EventsForget
  <2>2. CASE ~Head(v.queue).h.once
    <3>1. handlers' = handlers /\ bound' = bound
      BY <2>2 DEF CallHandler, Innermost, v
    <3> QED BY <1>1, <3>1
  <2> QED BY <2>1, <2>2
<1> QED BY <1>9, <1>10 DEF EventInv

LEMMA EventsEnd ==
  ASSUME EventInv, EventEnds
  PROVE  EventInv'
<1>1. bound \in Seq(Bindings) /\ Held(handlers, bound) /\ Stack(under, triggered)
  BY DEF EventInv
<1>2. under # <<>> /\ handlers' = handlers /\ bound' = bound
  BY DEF EventEnds
<1>3. Stack(under', triggered')
  <2> DEFINE v == Last(under)
             bs == SubSeq(under, 1, Len(under) - 1)
             x == Event(v.target, TRUE, FALSE, {}, TRUE)
  <2>1. CASE v.byUser \/ v.onlyHandlers \/ v.prevented \/ v.target = Depth
    <3>1. under' = bs /\ triggered' = FALSE
      BY <2>1 DEF EventEnds, Innermost, Beneath
    <3>2. Stack(bs, FALSE)
      BY <1>1, <1>2, StackPop
    <3> QED BY <3>1, <3>2
  <2>2. CASE ~(v.byUser \/ v.onlyHandlers \/ v.prevented \/ v.target = Depth)
    <3>1. under' = Append(bs, x) /\ triggered' = TRUE
      BY <2>2 DEF EventEnds, Innermost, Beneath
    <3>2. EventFits(x) /\ (x.again <=> TRUE)
      <4>1. EventFits(v)
        BY <1>1, <1>2, OnTop
      <4>2. v.target \in Branch
        BY <4>1 DEF EventFits, EventStates
      <4> HIDE DEF v
      <4> QED BY <4>2, EventNew
    <3>3. bs \in Seq(EventStates) /\ (\A i \in 1..Len(bs) : EventFits(bs[i]) /\ bs[i].running)
      BY <1>1, <1>2, StackBeneath
    <3> HIDE DEF x, bs
    <3>4. Stack(Append(bs, x), TRUE)
      BY <3>2, <3>3, StackPush
    <3> QED BY <3>1, <3>4
  <2> QED BY <2>1, <2>2
<1>4. bound' \in Seq(Bindings) /\ Held(handlers', bound')
  BY <1>1, <1>2
<1> QED BY <1>3, <1>4 DEF EventInv

\* What is left after a handler is what is due after it.
Staying(how, queue) ==
  {q \in Bound : how = "goes on" \/ (how # "immediate" /\ q.elem = Head(queue).elem)}

LEMMA RestDue ==
  ASSUME NEW queue \in Seq(Bound), queue # <<>>, NEW how \in {"goes on", "false", "stop", "immediate"}
  PROVE  RestAfter(how, queue) = Only(Tail(queue), Staying(how, queue)) /\ RestAfter(how, queue) \in Seq(Bound)
<1> DEFINE t == Tail(queue)
           S == Staying(how, queue)
<1>1. t \in Seq(Bound)
  BY HeadTailProperties
<1>2. CASE how = "goes on"
  <2>1. RestAfter(how, queue) = t
    BY <1>2 DEF RestAfter
  <2>2. Bound \subseteq S
    BY <1>2 DEF Staying
  <2> HIDE DEF t, S
  <2>3. Only(t, S) = t
    BY <1>1, <2>2, OnlyAll
  <2> QED BY <1>1, <2>1, <2>3 DEF t, S
<1>3. CASE how = "immediate"
  <2>1. RestAfter(how, queue) = <<>>
    BY <1>3 DEF RestAfter
  <2>2. Bound \cap S = {}
    BY <1>3 DEF Staying
  <2> HIDE DEF t, S
  <2>3. Only(t, S) = <<>>
    BY <1>1, <2>2, OnlyNothing
  <2>4. <<>> \in Seq(Bound)
    BY EmptySeq
  <2> QED BY <2>1, <2>3, <2>4 DEF t, S
<1>4. CASE how \in {"false", "stop"}
  <2> DEFINE R == {q \in Bound : q.elem = Head(queue).elem}
  <2>1. RestAfter(how, queue) = Only(t, R)
    BY <1>4 DEF RestAfter
  <2>2. S = R
    BY <1>4 DEF Staying
  <2> HIDE DEF t, R, S
  <2>3. Only(t, R) \in Seq(Bound)
    BY <1>1, OnlyIn
  <2> QED BY <2>1, <2>2, <2>3 DEF t, S
<1> QED BY <1>2, <1>3, <1>4

LEMMA EventsReturn ==
  ASSUME EventInv, HandlerReturned
  PROVE  EventInv'
<1>1. bound \in Seq(Bindings) /\ Held(handlers, bound) /\ Stack(under, triggered)
  BY DEF EventInv
<1> DEFINE v == Last(under)
<1>2. under # <<>> /\ v.running
  BY DEF HandlerReturned, Innermost
<1>3. PICK how \in {"goes on", "false", "stop", "immediate"} :
        under' = Append(Beneath, [v EXCEPT !.running = FALSE,
                                           !.queue = RestAfter(how, @),
                                           !.due = Only(Tail(@), Staying(how, v.due)),
                                           !.stopped = @ \/ how # "goes on",
                                           !.prevented = @ \/ how = "false"])
  BY DEF HandlerReturned, Innermost, Staying
<1> DEFINE q == RestAfter(how, v.queue)
           d == Only(Tail(v.due), Staying(how, v.due))
           st == v.stopped \/ how # "goes on"
           pr == v.prevented \/ how = "false"
           x == [v EXCEPT !.running = FALSE, !.queue = q, !.due = d, !.stopped = st, !.prevented = pr]
<1>4. EventFits(v)
  BY <1>1, <1>2, OnTop
<1>5. under' = Append(Beneath, x)
  BY <1>3
<1> HIDE DEF v
<1>6. v \in EventStates /\ v.target <= v.at + 1 /\ v.queue = v.due /\ v.queue # <<>> /\ ~v.again /\ v.at # 0
  BY <1>2, <1>4 DEF EventFits
<1>7. v.queue \in Seq(Bound)
  BY <1>6 DEF EventStates
<1>8. q = d /\ q \in Seq(Bound)
  <2>1. q = Only(Tail(v.queue), Staying(how, v.queue)) /\ q \in Seq(Bound)
    BY <1>6, <1>7, RestDue
  <2>2. v.queue = v.due
    BY <1>6
  <2> QED BY <2>1, <2>2
<1>9. st \in BOOLEAN /\ pr \in BOOLEAN
  OBVIOUS
<1>10. d \in Seq(Bound)
  BY <1>8
<1> HIDE DEF q, d, st, pr
<1>11. /\ x \in EventStates
       /\ x.target = v.target /\ x.at = v.at /\ x.queue = q /\ x.due = d
       /\ x.running = FALSE /\ x.again = v.again
  BY <1>6, <1>8, <1>9, <1>10 DEF EventStates
<1> HIDE DEF x
<1>12. EventFits(x) /\ (x.again <=> v.again)
  BY <1>6, <1>8, <1>11 DEF EventFits
<1>13. Stack(Append(Beneath, x), triggered)
  BY <1>1, <1>2, <1>12, EventGoesOn DEF v
<1>14. triggered' = triggered /\ handlers' = handlers /\ bound' = bound
  BY DEF HandlerReturned
<1>15. Stack(under', triggered')
  BY <1>5, <1>13, <1>14
<1>16. bound' \in Seq(Bindings) /\ Held(handlers', bound')
  BY <1>1, <1>14
<1> QED BY <1>15, <1>16 DEF EventInv

LEMMA EventsStart ==
  ASSUME EventsInit
  PROVE  EventInv
<1>1. /\ bound \in AtLoad
      /\ handlers = [e \in Branch |-> Table(Only(bound, OnElem(e)))]
      /\ triggered = FALSE /\ under = <<>>
  BY DEF EventsInit, OnElem
<1>2. bound \in Seq(Bindings)
  <2> DEFINE P == {b \in Bound : <<b.elem, b.h.selector>> \in Places}
  <2>1. AtLoad \subseteq Seq(P)
    BY EventAssumption
  <2>2. P \subseteq Bindings
    <3> SUFFICES ASSUME NEW b \in Bound, <<b.elem, b.h.selector>> \in Places PROVE b \in Bindings
      OBVIOUS
    <3>1. <<b.elem, b.h.selector>>[1] = b.elem /\ <<b.elem, b.h.selector>>[2] = b.h.selector
      OBVIOUS
    <3>2. \A p \in Places : p[2] \in (1..(p[1] - 1)) \cup {NoSelector}
      BY EventAssumption
    <3>3. b.h.selector \in (1..(b.elem - 1)) \cup {NoSelector}
      BY <3>1, <3>2
    <3> QED BY <3>3 DEF Bindings
  <2> HIDE DEF P
  <2>3. bound \in Seq(P)
    BY <1>1, <2>1
  <2> QED BY <2>2, <2>3
<1>3. bound \in Seq(Bound)
  <2>1. Bindings \subseteq Bound
    BY BindingsAre
  <2> QED BY <1>2, <2>1
<1>4. ASSUME NEW e \in Branch PROVE Table(Only(bound, OnElem(e))) = TableOf(Ahead(bound, e), Behind(bound, e))
  <2>1. Only(bound, OnElem(e)) \in Seq(Bound)
    BY <1>3, OnlyIn
  <2> QED BY <2>1, TableHolds DEF Ahead, Behind
<1>5. [e \in Branch |-> Table(Only(bound, OnElem(e)))] = [e \in Branch |-> TableOf(Ahead(bound, e), Behind(bound, e))]
  BY <1>4
<1>6. Held(handlers, bound)
  BY <1>1, <1>5 DEF Held
<1>7. Stack(under, triggered)
  <2>1. <<>> \in Seq(EventStates) /\ Len(<<>>) = 0
    BY EmptySeq
  <2>2. Stack(<<>>, FALSE)
    BY <2>1 DEF Stack
  <2> QED BY <1>1, <2>2
<1> QED BY <1>2, <1>6, <1>7 DEF EventInv

LEMMA EventsKept ==
  ASSUME EventInv, EventsNext \/ UNCHANGED eventVars
  PROVE  EventInv'
<1>1. CASE EventsNext
  BY <1>1, EventsOn, EventsOff, EventsClick, EventsTrigger, EventsDispatch, EventsCall, EventsReturn, EventsEnd
  DEF EventsNext
<1>2. CASE UNCHANGED eventVars
  <2>1. bound' = bound /\ handlers' = handlers /\ under' = under /\ triggered' = triggered
    BY <1>2 DEF eventVars
  <2> QED BY <2>1 DEF EventInv
<1> QED BY <1>1, <1>2

LEMMA EventsAgree ==
  ASSUME EventInv
  PROVE  EventsExact
<1>1. bound \in Seq(Bindings) /\ Held(handlers, bound) /\ Stack(under, triggered)
  BY DEF EventInv
<1>2. bound \in Seq(Bound)
  <2>1. Bindings \subseteq Bound
    BY BindingsAre
  <2> QED BY <1>1, <2>1
<1>3. ASSUME NEW e \in Branch
      PROVE  LET mine == Only(bound, {b \in Bound : b.elem = e})
                 delegates == Only(mine, {b \in Bound : Delegated(b.h)})
                 kept == delegates \o Only(mine, {b \in Bound : ~Delegated(b.h)})
             IN  /\ handlers[e].list = [k \in DOMAIN kept |-> kept[k].h]
                 /\ handlers[e].delegateCount = Len(delegates)
  <2> DEFINE A == Ahead(bound, e)
             B == Behind(bound, e)
             kept == A \o B
  <2>1. A \in Seq(Bound) /\ B \in Seq(Bound)
    BY <1>2, HeldTypes
  <2>2. handlers[e] = TableOf(A, B)
    BY <1>1 DEF Held
  <2>3. handlers[e].list = Mapped(kept, hOf) /\ handlers[e].delegateCount = Len(A)
    BY <2>2 DEF TableOf
  <2>4. kept \in Seq(Bound)
    BY <2>1, ConcatProperties
  <2> HIDE DEF kept
  <2>5. Mapped(kept, hOf) = [k \in DOMAIN kept |-> kept[k].h]
    <3>1. \A k \in DOMAIN kept : kept[k] \in Bound
      <4>1. DOMAIN kept = 1..Len(kept)
        BY <2>4, LenProperties
      <4> QED BY <2>4, <4>1, ElementOfSeq
    <3> QED BY <3>1 DEF Mapped, hOf
  <2>6. /\ A = Only(Only(bound, {b \in Bound : b.elem = e}), {b \in Bound : Delegated(b.h)})
        /\ B = Only(Only(bound, {b \in Bound : b.elem = e}), {b \in Bound : ~Delegated(b.h)})
    BY DEF Ahead, Behind, OnElem, Delegates, Owned
  <2> QED BY <2>3, <2>5, <2>6 DEF kept
<1>4. ASSUME NEW i \in DOMAIN under PROVE under[i].queue = under[i].due
  <2>1. i \in 1..Len(under)
    <3>1. under \in Seq(EventStates)
      BY <1>1 DEF Stack
    <3> QED BY <3>1, LenProperties
  <2>2. EventFits(under[i])
    BY <1>1, <2>1 DEF Stack
  <2> QED BY <2>2 DEF EventFits
<1> QED BY <1>3, <1>4 DEF EventsExact
=============================================================================
