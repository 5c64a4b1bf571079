----------------------------- MODULE PageProofs -----------------------------
(* What holds of a portal page for all addresses, redirections, sizes of the   *)
(* cache and numbers of moves: the pages shown and kept (PagesInPlace), its    *)
(* links and forms (LinksComeBack), its widgets (WidgetsAgree), and jQuery's   *)
(* lists of callbacks, promises, requests and events (CallbacksKept), for the  *)
(* first two and the last of which CallbackProofs has the invariants.          *)
EXTENDS Page, CallbackProofs, FunctionTheorems, NaturalsInduction

-----------------------------------------------------------------------------
(* Turbolinks: the inductive invariant.                                        *)

Addresses == [url : Urls, hash : BOOLEAN]
Entries   == [state : Addresses \cup {NoState}, shown : Addresses, doc : Nat]
Kept      == [of : Urls, cachedAt : Nat]

VisitTypes ==
  /\ entries \in Seq(Entries) /\ at \in DOMAIN entries
  /\ body \in Urls /\ currentState \in Addresses \cup {NoState}
  /\ DOMAIN pageCache \subseteq Addresses /\ pageCache \in [DOMAIN pageCache -> Kept]
  /\ xhr \in Addresses \cup {NoRequest}
  /\ clock \in Nat

CacheBounded == IsFiniteSet(DOMAIN pageCache) /\ Cardinality(DOMAIN pageCache) <= CacheSize

\* Of the entries es, at the i-th of them: the page b, under the state c, is where
\* it belongs, or what is requested is; what is kept is; and so are the states of
\* this document's entries, which later moves rely on.
InPlace(es, i, b, c, cache, x) ==
  /\ x = NoRequest => b = Page(es[i].shown.url)
  /\ x # NoRequest => x.url = es[i].shown.url
  /\ c # NoState => b = Page(c.url)
  /\ \A a \in DOMAIN cache : cache[a].of = Page(a.url)
  /\ ~Mislabelled(es, i)

VisitInv ==
  /\ VisitTypes /\ CacheBounded
  /\ ~astray => InPlace(entries, at, body, currentState, pageCache, xhr)

LEMMA VisitsHold == VisitInv => PagesInPlace
BY DEF VisitInv, CacheBounded, InPlace, PagesInPlace, Here

-----------------------------------------------------------------------------
(* Addresses and the history.                                                  *)

LEMMA Redirects ==
  ASSUME NEW u \in Urls
  PROVE  Page(u) \in Urls /\ Page(Page(u)) = Page(u)
BY VisitsAssumption DEF Page

LEMMA Nulls == NoState \notin Addresses /\ NoRequest \notin Addresses
BY VisitsAssumption DEF Addresses

LEMMA AddressType ==
  ASSUME NEW u \in Urls, NEW h \in BOOLEAN
  PROVE  Address(u, h) \in Addresses /\ Address(u, h).url = u /\ Plain(u) \in Addresses /\ Plain(u).url = u
BY DEF Address, Plain, Addresses

LEMMA EntryType ==
  ASSUME NEW s \in Addresses \cup {NoState}, NEW a \in Addresses, NEW d \in Nat
  PROVE  /\ Entry(s, a, d) \in Entries
         /\ Entry(s, a, d).state = s /\ Entry(s, a, d).shown = a /\ Entry(s, a, d).doc = d
BY DEF Entry, Entries

LEMMA HereType ==
  ASSUME VisitTypes
  PROVE  /\ Here \in Entries /\ Here.state \in Addresses \cup {NoState} /\ Here.shown \in Addresses /\ Here.doc \in Nat
         /\ Here.shown.url \in Urls
<1>1. Here \in Entries
  BY ElementOfSeq, LenProperties DEF VisitTypes, Here
<1> QED BY <1>1 DEF Entries, Addresses

\* A push: the entries after this one are gone.
LEMMA PushPlaces ==
  ASSUME VisitTypes, NEW e \in Entries, Pushed(e)
  PROVE  /\ entries' \in Seq(Entries) /\ at' \in DOMAIN entries' /\ entries'[at'] = e
         /\ \A i \in DOMAIN entries' : i = at' \/ (i \in DOMAIN entries /\ entries'[i] = entries[i])
<1> DEFINE s == SubSeq(entries, 1, at)
<1>1. entries \in Seq(Entries) /\ at \in 1..Len(entries) /\ Len(entries) \in Nat
  BY LenProperties DEF VisitTypes
<1>2. s \in Seq(Entries) /\ Len(s) = at /\ \A i \in 1..at : s[i] = entries[i]
  <2>1. 1 \in 1..Len(entries) + 1 /\ at \in 0..Len(entries) /\ at \in Nat
    BY <1>1
  <2> QED BY <1>1, <2>1, SubSeqProperties
<1> HIDE DEF s
<1>3. entries' = Append(s, e) /\ at' = at + 1
  BY DEF Pushed, s
<1>4. /\ Append(s, e) \in Seq(Entries) /\ Len(Append(s, e)) = at + 1
      /\ \A i \in 1..at : Append(s, e)[i] = s[i]
      /\ Append(s, e)[at + 1] = e
  BY <1>2, AppendProperties
<1>5. DOMAIN entries' = 1..(at + 1) /\ DOMAIN entries = 1..Len(entries)
  BY <1>1, <1>3, <1>4, LenProperties
<1> QED BY <1>1, <1>2, <1>3, <1>4, <1>5

\* A change of one entry.
LEMMA ChangePlaces ==
  ASSUME VisitTypes, NEW i \in DOMAIN entries, NEW e \in Entries, entries' = [entries EXCEPT ![i] = e]
  PROVE  /\ entries' \in Seq(Entries) /\ DOMAIN entries' = DOMAIN entries /\ entries'[i] = e
         /\ \A j \in DOMAIN entries : j # i => entries'[j] = entries[j]
<1>1. entries \in Seq(Entries)
  BY DEF VisitTypes
<1> QED BY <1>1

-----------------------------------------------------------------------------
(* The cache.                                                                  *)

\* Of what is kept at most cacheSize stays: all of that is as new as the oldest.
LEMMA Constrained ==
  ASSUME NEW cache, cache \in [DOMAIN cache -> Kept], IsFiniteSet(DOMAIN cache)
  PROVE  /\ DOMAIN constrainPageCacheTo(cache) \subseteq DOMAIN cache
         /\ \A a \in DOMAIN constrainPageCacheTo(cache) : constrainPageCacheTo(cache)[a] = cache[a]
         /\ constrainPageCacheTo(cache) \in [DOMAIN constrainPageCacheTo(cache) -> Kept]
         /\ IsFiniteSet(DOMAIN constrainPageCacheTo(cache))
         /\ Cardinality(DOMAIN constrainPageCacheTo(cache)) <= CacheSize
<1> DEFINE asNew(u) == {v \in DOMAIN cache : cache[v].cachedAt >= cache[u].cachedAt}
           K == {v \in DOMAIN cache : Cardinality(asNew(v)) <= CacheSize}
           f == [u \in K |-> cache[u]]
<1>1. constrainPageCacheTo(cache) = f
  BY DEF constrainPageCacheTo
<1>2. DOMAIN f = K /\ K \subseteq DOMAIN cache /\ \A a \in K : f[a] = cache[a]
  OBVIOUS
<1>3. \A a \in DOMAIN cache : cache[a] \in Kept /\ cache[a].cachedAt \in Nat
  BY DEF Kept
<1>4. f \in [K -> Kept]
  <2>1. \A a \in K : cache[a] \in Kept
    BY <1>2, <1>3
  <2> HIDE DEF K
  <2> QED BY <2>1
<1>5. IsFiniteSet(K)
  BY <1>2, FS_Subset
<1>6. Cardinality(K) <= CacheSize
  <2>1. CASE K = {}
    <3> HIDE DEF K
    <3> QED BY <2>1, FS_EmptySet, VisitsAssumption
  <2>2. CASE K # {}
    <3> DEFINE T == {cache[v].cachedAt : v \in K}
    <3>1. T \in SUBSET Nat /\ T # {}
      BY <2>2, <1>2, <1>3
    <3> HIDE DEF T, K
    <3>2. PICK t \in T : \A y \in T : t <= y
      BY <3>1, Least
    <3> USE DEF T
    <3>3. PICK u \in K : t = cache[u].cachedAt
      BY <3>2
    <3>4. \A v \in K : cache[v].cachedAt >= cache[u].cachedAt
      <4> SUFFICES ASSUME NEW v \in K PROVE cache[v].cachedAt >= cache[u].cachedAt
        OBVIOUS
      <4>1. cache[v].cachedAt \in T
        OBVIOUS
      <4>2. t <= cache[v].cachedAt
        BY <4>1, <3>2
      <4>3. cache[v].cachedAt \in Nat /\ cache[u].cachedAt \in Nat
        BY <1>2, <1>3
      <4> QED BY <4>2, <4>3, <3>3
    <3>5. K \subseteq asNew(u)
      BY <3>4, <1>2
    <3>6. asNew(u) \subseteq DOMAIN cache
      OBVIOUS
    <3> HIDE DEF asNew
    <3>7. IsFiniteSet(asNew(u))
      BY <3>6, FS_Subset
    <3>8. Cardinality(K) <= Cardinality(asNew(u))
      BY <3>5, <3>7, FS_Subset
    <3>9. Cardinality(asNew(u)) <= CacheSize
      BY <3>3 DEF K
    <3>10. Cardinality(K) \in Nat /\ Cardinality(asNew(u)) \in Nat
      BY <1>5, <3>7, FS_CardinalityType
    <3> QED BY <3>8, <3>9, <3>10, VisitsAssumption
  <2> QED BY <2>1, <2>2
<1> HIDE DEF K
<1> QED BY <1>1, <1>2, <1>4, <1>5, <1>6

LEMMA Cached ==
  ASSUME VisitTypes, CacheBounded, currentState # NoState, cacheCurrentPage
  PROVE  /\ DOMAIN pageCache' \subseteq Addresses /\ pageCache' \in [DOMAIN pageCache' -> Kept]
         /\ CacheBounded' /\ clock' \in Nat
         /\ (body = Page(currentState.url) /\ \A a \in DOMAIN pageCache : pageCache[a].of = Page(a.url))
              => \A a \in DOMAIN pageCache' : pageCache'[a].of = Page(a.url)
<1>1. PICK now \in {clock, clock + 1} :
        /\ clock' = now
        /\ pageCache' = constrainPageCacheTo(
             [u \in DOMAIN pageCache \cup {currentState} |->
                IF u = currentState THEN [of |-> body, cachedAt |-> now] ELSE pageCache[u]])
  BY DEF cacheCurrentPage
<1> DEFINE c == [u \in DOMAIN pageCache \cup {currentState} |->
                  IF u = currentState THEN [of |-> body, cachedAt |-> now] ELSE pageCache[u]]
<1>2. now \in Nat /\ currentState \in Addresses /\ body \in Urls
  BY DEF VisitTypes
<1>3. /\ DOMAIN c = DOMAIN pageCache \cup {currentState} /\ DOMAIN c \subseteq Addresses
      /\ \A u \in DOMAIN c : c[u] = IF u = currentState THEN [of |-> body, cachedAt |-> now] ELSE pageCache[u]
  BY <1>2 DEF VisitTypes
<1>4. IsFiniteSet(DOMAIN c)
  BY <1>3, FS_AddElement DEF CacheBounded
<1>5. \A u \in DOMAIN c : c[u] \in Kept
  <2>1. [of |-> body, cachedAt |-> now] \in Kept
    BY <1>2 DEF Kept
  <2>2. \A u \in DOMAIN pageCache : pageCache[u] \in Kept
    BY DEF VisitTypes
  <2> HIDE DEF c
  <2> QED BY <2>1, <2>2, <1>3
<1>6. c \in [DOMAIN c -> Kept]
  <2>1. c = [u \in DOMAIN c |-> c[u]]
    OBVIOUS
  <2> HIDE DEF c
  <2> QED BY <2>1, <1>5
<1>7. pageCache' = constrainPageCacheTo(c)
  BY <1>1
<1> HIDE DEF c
<1>8. /\ DOMAIN pageCache' \subseteq DOMAIN c
      /\ \A a \in DOMAIN pageCache' : pageCache'[a] = c[a]
      /\ pageCache' \in [DOMAIN pageCache' -> Kept]
      /\ IsFiniteSet(DOMAIN pageCache') /\ Cardinality(DOMAIN pageCache') <= CacheSize
  BY <1>4, <1>6, <1>7, Constrained
<1>9. ASSUME body = Page(currentState.url), \A a \in DOMAIN pageCache : pageCache[a].of = Page(a.url),
             NEW a \in DOMAIN pageCache'
      PROVE  pageCache'[a].of = Page(a.url)
  BY <1>3, <1>8, <1>9
<1> QED BY <1>1, <1>2, <1>3, <1>8, <1>9 DEF CacheBounded

-----------------------------------------------------------------------------
(* The moves.                                                                  *)

LEMMA VisitsStart == VisitsInit => VisitInv
<1> SUFFICES ASSUME VisitsInit PROVE VisitInv
  OBVIOUS
<1> DEFINE p == Plain(Home)
           e == Entry(p, p, 0)
<1>1. p \in Addresses /\ p.url = Home /\ Home \in Urls
  BY VisitsAssumption, AddressType
<1>2. /\ entries = <<e>> /\ at = 1 /\ body = Home /\ currentState = p /\ pageCache = <<>>
      /\ xhr = NoRequest /\ clock = 0
  BY DEF VisitsInit
<1>3. e \in Entries /\ e.state = p /\ e.shown = p
  <2> HIDE DEF p
  <2> QED BY <1>1, EntryType
<1> HIDE DEF e, p
<1>4. entries \in Seq(Entries) /\ at \in DOMAIN entries /\ entries[1] = e /\ DOMAIN entries = {1}
  BY <1>2, <1>3
<1>5. DOMAIN pageCache = {} /\ pageCache \in [DOMAIN pageCache -> Kept]
  BY <1>2
<1>6. CacheBounded
  BY <1>5, FS_EmptySet, VisitsAssumption DEF CacheBounded
<1>7. VisitTypes
  BY <1>1, <1>2, <1>4, <1>5 DEF VisitTypes
<1>8. Page(Home) = Home
  BY VisitsAssumption DEF Page
<1>9. ~Mislabelled(entries, at)
  BY <1>2, <1>3, <1>4 DEF Mislabelled
<1>10. InPlace(entries, at, body, currentState, pageCache, xhr)
  BY <1>1, <1>2, <1>3, <1>4, <1>5, <1>8, <1>9 DEF InPlace
<1> QED BY <1>6, <1>7, <1>10 DEF VisitInv

\* A document is loaded into the entry there is.
LEMMA InitializedHolds ==
  ASSUME VisitTypes, NEW a \in Addresses, Initialized(a),
         entries' \in Seq(Entries), at' \in DOMAIN entries', entries'[at'].shown.url = a.url
  PROVE  VisitInv'
<1>1. /\ body' = Page(a.url) /\ currentState' = a /\ pageCache' = <<>> /\ xhr' = NoRequest
      /\ astray' = Mislabelled(entries', at') /\ clock' = clock
  BY DEF Initialized
<1>2. a.url \in Urls
  BY DEF Addresses
<1>3. body' \in Urls
  BY <1>1, <1>2, Redirects
<1>4. DOMAIN pageCache' = {} /\ pageCache' \in [DOMAIN pageCache' -> Kept]
  BY <1>1
<1>5. CacheBounded'
  BY <1>4, FS_EmptySet, VisitsAssumption DEF CacheBounded
<1>6. VisitTypes'
  BY <1>1, <1>3, <1>4 DEF VisitTypes
<1>7. InPlace(entries', at', body', currentState', pageCache', xhr') \/ astray'
  BY <1>1, <1>4 DEF InPlace
<1> QED BY <1>5, <1>6, <1>7 DEF VisitInv

LEMMA NewDocType ==
  ASSUME VisitTypes
  PROVE  NewDoc \in Nat
<1> DEFINE D == {entries[i].doc : i \in DOMAIN entries}
           n == Len(entries)
<1>1. entries \in Seq(Entries) /\ DOMAIN entries = 1..n /\ n \in Nat
  BY LenProperties DEF VisitTypes
<1> DEFINE f == [i \in 1..n |-> entries[i].doc]
<1>2. f \in Surjection(1..n, D)
  <2>1. f \in [1..n -> D]
    BY <1>1
  <2>2. \A d \in D : \E i \in 1..n : f[i] = d
    BY <1>1
  <2> HIDE DEF f, D
  <2> QED BY <2>1, <2>2, Fun_IsSurj
<1>3. IsFiniteSet(1..n) /\ Cardinality(1..n) = n /\ IsFiniteSet(0..n) /\ Cardinality(0..n) = n + 1
  BY <1>1, FS_Interval
<1>4. IsFiniteSet(D) /\ Cardinality(D) <= n
  <2> HIDE DEF f, D
  <2> QED BY <1>2, <1>3, FS_Surjection
<1>5. ~(0..n \subseteq D)
  <2> SUFFICES ASSUME 0..n \subseteq D PROVE FALSE
    OBVIOUS
  <2> HIDE DEF D
  <2>1. Cardinality(0..n) <= Cardinality(D)
    BY <1>4, FS_Subset
  <2>2. Cardinality(D) \in Nat
    BY <1>4, FS_CardinalityType
  <2> QED BY <1>1, <1>3, <1>4, <2>1, <2>2
<1>6. \E d \in 0..n : \A i \in DOMAIN entries : entries[i].doc # d
  BY <1>5
<1> HIDE DEF n
<1>7. NewDoc \in 0..n
  BY <1>6, Zenon DEF NewDoc, n
<1> QED BY <1>1, <1>7

LEMMA LoadHolds ==
  ASSUME VisitInv, NEW url \in Urls, Load(url)
  PROVE  VisitInv'
<1> DEFINE to == Plain(Page(url))
           e  == Entry(to, to, NewDoc)
<1>1. VisitTypes
  BY DEF VisitInv
<1>2. Page(url) \in Urls /\ to \in Addresses /\ to.url = Page(url)
  BY Redirects, AddressType
<1>3. e \in Entries /\ e.shown = to
  <2>1. NewDoc \in Nat
    BY <1>1, NewDocType
  <2> HIDE DEF to
  <2> QED BY <1>2, <2>1, EntryType
<1>4. /\ IF Here.shown = Plain(url) THEN entries' = [entries EXCEPT ![at] = e] /\ UNCHANGED at ELSE Pushed(e)
      /\ Initialized(to)
  BY DEF Load
<1> HIDE DEF e, to
<1>5. entries' \in Seq(Entries) /\ at' \in DOMAIN entries' /\ entries'[at'] = e
  <2>1. CASE Here.shown = Plain(url)
    <3>1. at \in DOMAIN entries /\ entries' = [entries EXCEPT ![at] = e] /\ at' = at
      BY <2>1, <1>1, <1>4 DEF VisitTypes
    <3> QED BY <3>1, <1>1, <1>3, ChangePlaces
  <2>2. CASE Here.shown # Plain(url)
    BY <2>2, <1>1, <1>3, <1>4, PushPlaces
  <2> QED BY <2>1, <2>2
<1> QED BY <1>1, <1>2, <1>3, <1>4, <1>5, InitializedHolds

\* A page kept for the address is shown meanwhile; its entry is e.
LEMMA ReplacementHolds ==
  ASSUME VisitTypes, ~Throws, NEW a \in Addresses, NEW e \in Entries, cacheCurrentPage, CacheBounded,
         fetchReplacement(a, e),
         entries' \in Seq(Entries), at' \in DOMAIN entries', entries'[at'] = e, e.shown.url = a.url,
         ~astray => /\ body = Page(currentState.url) /\ \A u \in DOMAIN pageCache : pageCache[u].of = Page(u.url)
                    /\ ~Mislabelled(entries', at')
  PROVE  VisitInv'
<1>1. currentState # NoState
  BY DEF Throws
<1>2. /\ DOMAIN pageCache' \subseteq Addresses /\ pageCache' \in [DOMAIN pageCache' -> Kept]
      /\ CacheBounded' /\ clock' \in Nat
      /\ ~astray => \A u \in DOMAIN pageCache' : pageCache'[u].of = Page(u.url)
  BY <1>1, Cached
<1>3. xhr' = a /\ astray' = astray
  BY DEF fetchReplacement
<1>4. \/ body' = body /\ currentState' = currentState
      \/ a \in DOMAIN pageCache' /\ body' = pageCache'[a].of /\ currentState' = e.state
  BY DEF fetchReplacement, transitionCacheFor, changePage
<1>5. e.state \in Addresses \cup {NoState}
  BY DEF Entries
<1>6. VisitTypes'
  <2>1. body' \in Urls /\ currentState' \in Addresses \cup {NoState}
    <3>1. \A u \in DOMAIN pageCache' : pageCache'[u].of \in Urls
      BY <1>2 DEF Kept
    <3> QED BY <3>1, <1>4, <1>5 DEF VisitTypes
  <2> QED BY <2>1, <1>2, <1>3 DEF VisitTypes
<1>7. ASSUME ~astray' PROVE InPlace(entries', at', body', currentState', pageCache', xhr')
  <2>1. a # NoRequest
    BY Nulls
  <2>2. currentState' # NoState => body' = Page(currentState'.url)
    <3>1. CASE body' = body /\ currentState' = currentState
      BY <3>1, <1>3, <1>7
    <3>2. CASE a \in DOMAIN pageCache' /\ body' = pageCache'[a].of /\ currentState' = e.state
      <4>1. body' = Page(a.url)
        BY <3>2, <1>2, <1>3, <1>7
      <4>2. e.state # NoState => Page(e.state.url) = Page(e.shown.url)
        BY <1>3, <1>7 DEF Mislabelled
      <4> QED BY <3>2, <4>1, <4>2
    <3> QED BY <3>1, <3>2, <1>4
  <2> QED BY <2>1, <2>2, <1>2, <1>3, <1>7 DEF InPlace
<1> QED BY <1>2, <1>6, <1>7 DEF VisitInv

LEMMA FetchHolds ==
  ASSUME VisitInv, ~Throws, NEW url \in Urls, fetch(Plain(url))
  PROVE  VisitInv'
<1> DEFINE a == Plain(url)
           e == Entry(a, a, Here.doc)
<1>1. VisitTypes /\ CacheBounded
  BY DEF VisitInv
<1>2. a \in Addresses /\ a.url = url /\ Here \in Entries /\ Here.doc \in Nat /\ Here = entries[at] /\ at \in DOMAIN entries
  BY <1>1, AddressType, HereType DEF VisitTypes, Here
<1>3. e \in Entries /\ e.state = a /\ e.shown = a /\ e.doc = Here.doc
  <2> HIDE DEF a
  <2> QED BY <1>2, EntryType
<1>4. /\ cacheCurrentPage
      /\ IF a = Here.shown THEN UNCHANGED <<entries, at>> ELSE Pushed(e)
      /\ fetchReplacement(a, entries'[at'])
  BY DEF fetch
<1>5. ~astray => /\ body = Page(currentState.url) /\ \A u \in DOMAIN pageCache : pageCache[u].of = Page(u.url)
                 /\ ~Mislabelled(entries, at)
  BY DEF VisitInv, InPlace, Throws
<1> HIDE DEF a, e
<1>6. CASE a = Here.shown
  <2>1. entries' = entries /\ at' = at
    BY <1>4, <1>6
  <2>2. entries' \in Seq(Entries) /\ at' \in DOMAIN entries' /\ entries'[at'] = Here
    BY <2>1, <1>1, <1>2 DEF VisitTypes
  <2>3. fetchReplacement(a, Here)
    BY <2>2, <1>4
  <2>4. Here.shown.url = a.url
    BY <1>6
  <2> QED BY <2>1, <2>2, <2>3, <2>4, <1>1, <1>2, <1>4, <1>5, ReplacementHolds
<1>7. CASE a # Here.shown
  <2>1. /\ entries' \in Seq(Entries) /\ at' \in DOMAIN entries' /\ entries'[at'] = e
        /\ \A i \in DOMAIN entries' : i = at' \/ (i \in DOMAIN entries /\ entries'[i] = entries[i])
    BY <1>1, <1>3, <1>4, <1>7, PushPlaces
  <2>2. fetchReplacement(a, e)
    BY <2>1, <1>4
  <2>3. ~astray => ~Mislabelled(entries', at')
    BY <2>1, <1>2, <1>3, <1>5 DEF Mislabelled
  <2> QED BY <2>1, <2>2, <2>3, <1>1, <1>2, <1>3, <1>4, <1>5, ReplacementHolds
<1> QED BY <1>6, <1>7

LEMMA AnchorHolds ==
  ASSUME VisitInv, FollowAnchor
  PROVE  VisitInv'
<1> DEFINE a == Address(Here.shown.url, TRUE)
           e == Entry(NoState, a, Here.doc)
<1>1. VisitTypes /\ CacheBounded
  BY DEF VisitInv
<1>2. /\ a \in Addresses /\ a.url = Here.shown.url /\ Here \in Entries /\ Here.doc \in Nat
      /\ Here = entries[at] /\ at \in DOMAIN entries
  BY <1>1, AddressType, HereType DEF VisitTypes, Here
<1>3. e \in Entries /\ e.state = NoState /\ e.shown = a /\ e.doc = Here.doc
  <2> HIDE DEF a
  <2> QED BY <1>2, EntryType
<1>4. Pushed(e) /\ UNCHANGED <<body, currentState, pageCache, xhr, clock, astray>>
  BY DEF FollowAnchor
<1> HIDE DEF a, e
<1>5. /\ entries' \in Seq(Entries) /\ at' \in DOMAIN entries' /\ entries'[at'] = e
      /\ \A i \in DOMAIN entries' : i = at' \/ (i \in DOMAIN entries /\ entries'[i] = entries[i])
  BY <1>1, <1>3, <1>4, PushPlaces
<1>6. VisitTypes' /\ CacheBounded'
  BY <1>1, <1>4, <1>5 DEF VisitTypes, CacheBounded
<1>7. ASSUME ~astray PROVE InPlace(entries', at', body', currentState', pageCache', xhr')
  <2>1. InPlace(entries, at, body, currentState, pageCache, xhr)
    BY <1>7 DEF VisitInv
  <2>2. ~Mislabelled(entries', at')
    BY <2>1, <1>2, <1>3, <1>5 DEF Mislabelled, InPlace
  <2> QED BY <2>1, <2>2, <1>2, <1>3, <1>4, <1>5 DEF InPlace
<1> QED BY <1>4, <1>6, <1>7 DEF VisitInv

LEMMA ReplaceHolds ==
  ASSUME VisitInv, Replace
  PROVE  VisitInv'
<1>1. VisitTypes /\ CacheBounded
  BY DEF VisitInv
<1>2. /\ Here \in Entries /\ Here.state \in Addresses \cup {NoState} /\ Here.shown \in Addresses
      /\ Here = entries[at] /\ at \in DOMAIN entries /\ entries \in Seq(Entries)
  BY <1>1, HereType DEF VisitTypes, Here
<1>3. /\ xhr # NoRequest /\ xhr \in Addresses /\ xhr.url \in Urls /\ Page(xhr.url) \in Urls
      /\ Page(Page(xhr.url)) = Page(xhr.url)
  BY <1>1, Redirects DEF Replace, VisitTypes, Addresses
<1>4. /\ body' = Page(xhr.url) /\ currentState' = Here.state /\ xhr' = NoRequest
      /\ UNCHANGED <<at, pageCache, clock, astray>>
      /\ IF xhr.url \in DOMAIN Moved
         THEN entries' = [entries EXCEPT ![at].shown.url = Moved[xhr.url], ![at].state = currentState']
         ELSE entries' = entries
  BY DEF Replace, changePage
<1>5. /\ entries' \in Seq(Entries) /\ at \in DOMAIN entries' /\ DOMAIN entries' = DOMAIN entries
      /\ entries'[at].state = Here.state /\ entries'[at].doc = Here.doc
      /\ entries'[at].shown.url = IF xhr.url \in DOMAIN Moved THEN Page(xhr.url) ELSE Here.shown.url
      /\ \A i \in DOMAIN entries : i # at => entries'[i] = entries[i]
  <2>1. CASE xhr.url \in DOMAIN Moved
    <3> DEFINE s == [Here.shown EXCEPT !.url = Moved[xhr.url]]
               e == [[Here EXCEPT !.shown = s] EXCEPT !.state = Here.state]
    <3>1. Moved[xhr.url] = Page(xhr.url) /\ Moved[xhr.url] \in Urls
      BY <2>1, <1>3 DEF Page
    <3>2. s \in Addresses /\ s.url = Page(xhr.url)
      BY <3>1, <1>2 DEF Addresses
    <3>3. e \in Entries /\ e.shown = s /\ e.state = Here.state /\ e.doc = Here.doc
      <4> HIDE DEF s
      <4> QED BY <3>2, <1>2 DEF Entries
    <3>4. entries' = [entries EXCEPT ![at] = e]
      <4>1. entries' = [entries EXCEPT ![at].shown.url = Moved[xhr.url], ![at].state = Here.state]
        BY <2>1, <1>4
      <4> QED BY <4>1, <1>2
    <3> HIDE DEF e, s
    <3>5. entries' \in Seq(Entries) /\ DOMAIN entries' = DOMAIN entries /\ entries'[at] = e
          /\ \A j \in DOMAIN entries : j # at => entries'[j] = entries[j]
      BY <3>3, <3>4, <1>1, <1>2, ChangePlaces
    <3> QED BY <3>2, <3>3, <3>5, <2>1, <1>2
  <2>2. CASE xhr.url \notin DOMAIN Moved
    BY <2>2, <1>2, <1>4
  <2> QED BY <2>1, <2>2
<1>6. VisitTypes' /\ CacheBounded'
  BY <1>1, <1>2, <1>3, <1>4, <1>5 DEF VisitTypes, CacheBounded
<1>7. ASSUME ~astray PROVE InPlace(entries', at', body', currentState', pageCache', xhr')
  <2>1. InPlace(entries, at, body, currentState, pageCache, xhr)
    BY <1>7 DEF VisitInv
  <2>2. xhr.url = Here.shown.url
    BY <2>1, <1>2, <1>3 DEF InPlace
  <2>3. Page(entries'[at].shown.url) = Page(xhr.url)
    BY <2>2, <1>3, <1>5
  <2>4. \A i \in DOMAIN entries : entries[i].doc = Here.doc /\ entries[i].state # NoState =>
          Page(entries[i].state.url) = Page(entries[i].shown.url)
    BY <2>1, <1>2 DEF InPlace, Mislabelled
  <2>5. Here.state # NoState => Page(Here.state.url) = Page(xhr.url)
    BY <2>2, <2>4, <1>2
  <2>6. ~Mislabelled(entries', at)
    <3> SUFFICES ASSUME NEW i \in DOMAIN entries', entries'[i].doc = entries'[at].doc, entries'[i].state # NoState
                 PROVE  Page(entries'[i].state.url) = Page(entries'[i].shown.url)
      BY DEF Mislabelled
    <3>1. CASE i = at
      BY <3>1, <2>3, <2>5, <1>5
    <3>2. CASE i # at
      BY <3>2, <2>4, <1>5
    <3> QED BY <3>1, <3>2
  <2> QED BY <2>1, <2>3, <2>5, <2>6, <1>4 DEF InPlace
<1> QED BY <1>4, <1>6, <1>7 DEF VisitInv

LEMMA GiveUpHolds ==
  ASSUME VisitInv, GiveUp
  PROVE  VisitInv'
<1>1. VisitTypes
  BY DEF VisitInv
<1>2. xhr # NoRequest /\ xhr \in Addresses /\ xhr.url \in Urls
  BY <1>1 DEF GiveUp, VisitTypes, Addresses
<1>3. CASE xhr.hash /\ Here.shown = xhr
  <2>1. /\ xhr' = NoRequest /\ astray' = (astray \/ body # Page(xhr.url))
        /\ UNCHANGED <<entries, at, body, currentState, pageCache, clock>>
    BY <1>3 DEF GiveUp
  <2>2. VisitTypes' /\ CacheBounded'
    BY <2>1 DEF VisitInv, VisitTypes, CacheBounded
  <2>3. ASSUME ~astray' PROVE InPlace(entries', at', body', currentState', pageCache', xhr')
    <3>1. ~astray /\ body = Page(xhr.url)
      BY <2>1, <2>3
    <3> QED BY <3>1, <2>1, <1>3 DEF VisitInv, InPlace, Here
  <2> QED BY <2>2, <2>3 DEF VisitInv
<1>4. CASE ~(xhr.hash /\ Here.shown = xhr)
  BY <1>2, <1>4, LoadHolds DEF GiveUp
<1> QED BY <1>3, <1>4

LEMMA TraverseHolds ==
  ASSUME VisitInv, Traverse
  PROVE  VisitInv'
<1>1. VisitTypes /\ CacheBounded
  BY DEF VisitInv
<1>2. PICK to \in {at - 1, at + 1} \cap DOMAIN entries :
        LET e == entries[to]
            a == Address(Page(e.shown.url), e.shown.hash)
        IN  /\ Move /\ at' = to
            /\ IF e.doc = Here.doc THEN installHistoryChangeHandler(e)
               ELSE entries' = [entries EXCEPT ![to] = Entry(a, a, e.doc)] /\ Initialized(a)
  BY DEF Traverse
<1> DEFINE e == entries[to]
           a == Address(Page(e.shown.url), e.shown.hash)
<1>3. /\ to \in DOMAIN entries /\ e \in Entries /\ e.shown \in Addresses /\ e.shown.url \in Urls
      /\ e.shown.hash \in BOOLEAN /\ e.doc \in Nat /\ e.state \in Addresses \cup {NoState}
  <2>1. e \in Entries
    BY <1>1, ElementOfSeq, LenProperties DEF VisitTypes
  <2> QED BY <2>1 DEF Entries, Addresses
<1>4. CASE e.doc # Here.doc
  <2>1. a \in Addresses
    BY <1>3, Redirects, AddressType
  <2>2. Entry(a, a, e.doc) \in Entries /\ Entry(a, a, e.doc).shown = a
    <3> HIDE DEF a
    <3> QED BY <2>1, <1>3, EntryType
  <2>3. entries' = [entries EXCEPT ![to] = Entry(a, a, e.doc)] /\ Initialized(a) /\ at' = to
    BY <1>2, <1>4
  <2>4. entries' \in Seq(Entries) /\ at' \in DOMAIN entries' /\ entries'[at'] = Entry(a, a, e.doc)
    <3> HIDE DEF a, e
    <3> QED BY <2>2, <2>3, <1>1, <1>3, ChangePlaces
  <2> HIDE DEF a
  <2> QED BY <2>1, <2>2, <2>3, <2>4, <1>1, InitializedHolds
<1>5. CASE e.doc = Here.doc
  <2>1. at' = to /\ entries' = entries /\ installHistoryChangeHandler(e)
    BY <1>2, <1>5 DEF installHistoryChangeHandler
  <2>2. entries' \in Seq(Entries) /\ at' \in DOMAIN entries' /\ entries'[at'] = e
    BY <2>1, <1>1, <1>3 DEF VisitTypes
  <2>3. ~astray => ~Mislabelled(entries', at')
    <3>1. ~astray => ~Mislabelled(entries, at)
      BY DEF VisitInv, InPlace
    <3> QED BY <3>1, <2>1, <1>5 DEF Mislabelled, Here
  <2>4. CASE Unheard(e)
    <3>1. /\ astray' = (astray \/ body # Page(e.shown.url) \/ xhr \notin {NoRequest, e.shown})
          /\ UNCHANGED <<body, currentState, pageCache, xhr, clock>>
      BY <2>1, <2>4, Zenon DEF installHistoryChangeHandler
    <3>2. VisitTypes' /\ CacheBounded'
      BY <3>1, <2>2, <1>1 DEF VisitTypes, CacheBounded
    <3>3. ASSUME ~astray' PROVE InPlace(entries', at', body', currentState', pageCache', xhr')
      <4>1. ~astray /\ body = Page(e.shown.url) /\ xhr \in {NoRequest, e.shown}
        BY <3>1, <3>3
      <4>2. InPlace(entries, at, body, currentState, pageCache, xhr)
        BY <4>1 DEF VisitInv
      <4> QED BY <4>1, <4>2, <3>1, <2>2, <2>3 DEF InPlace
    <3> QED BY <3>2, <3>3 DEF VisitInv
  <2>5. CASE ~Unheard(e)
    <3>1. e.state # NoState /\ ~Throws /\ currentState # NoState
      BY <2>5 DEF Unheard, Throws
    <3>2. ~astray => /\ body = Page(currentState.url) /\ \A u \in DOMAIN pageCache : pageCache[u].of = Page(u.url)
                     /\ ~Mislabelled(entries', at')
      BY <3>1, <2>3 DEF VisitInv, InPlace
    <3>3. CASE e.state \in DOMAIN pageCache
      <4>1. fetchHistory(e)
        BY <2>1, <2>5, <3>3, Zenon DEF installHistoryChangeHandler
      <4>2. /\ cacheCurrentPage /\ body' = pageCache[e.state].of /\ currentState' = e.state
            /\ xhr' = NoRequest /\ astray' = astray
        BY <4>1 DEF fetchHistory, changePage
      <4>3. /\ DOMAIN pageCache' \subseteq Addresses /\ pageCache' \in [DOMAIN pageCache' -> Kept]
            /\ CacheBounded' /\ clock' \in Nat
            /\ ~astray => \A u \in DOMAIN pageCache' : pageCache'[u].of = Page(u.url)
        BY <4>2, <3>1, <3>2, <1>1, Cached
      <4>4. pageCache[e.state].of \in Urls
        BY <3>3, <1>1 DEF VisitTypes, Kept
      <4>5. VisitTypes'
        BY <4>2, <4>3, <4>4, <2>2, <1>3 DEF VisitTypes
      <4>6. ASSUME ~astray' PROVE InPlace(entries', at', body', currentState', pageCache', xhr')
        <5>1. ~astray
          BY <4>2, <4>6
        <5>2. body' = Page(e.state.url)
          BY <5>1, <4>2, <3>2, <3>3
        <5>3. Page(e.state.url) = Page(e.shown.url)
          BY <5>1, <3>1, <3>2, <2>2 DEF Mislabelled
        <5> QED BY <5>1, <5>2, <5>3, <4>2, <4>3, <3>2, <2>2 DEF InPlace
      <4> QED BY <4>3, <4>5, <4>6 DEF VisitInv
    <3>4. CASE e.state \notin DOMAIN pageCache
      <4>1. cacheCurrentPage /\ fetchReplacement(e.shown, e)
        BY <2>1, <2>5, <3>4, Zenon DEF installHistoryChangeHandler
      <4> HIDE DEF e
      <4> QED BY <4>1, <3>1, <3>2, <2>2, <1>1, <1>3, ReplacementHolds
    <3> QED BY <3>3, <3>4
  <2> QED BY <2>4, <2>5
<1> QED BY <1>4, <1>5

LEMMA VisitsKept ==
  ASSUME VisitInv, VisitsNext
  PROVE  VisitInv'
<1>1. CASE Visit
  <2>1. PICK url \in Urls : IF Throws THEN Load(url) ELSE fetch(Plain(url))
    BY <1>1 DEF Visit
  <2> QED BY <2>1, LoadHolds, FetchHolds
<1>2. CASE FollowIgnored
  <2>1. PICK url \in Urls : Load(url)
    BY <1>2 DEF FollowIgnored
  <2> QED BY <2>1, LoadHolds
<1>3. CASE FollowAnchor
  BY <1>3, AnchorHolds
<1>4. CASE Traverse
  BY <1>4, TraverseHolds
<1>5. CASE Replace
  BY <1>5, ReplaceHolds
<1>6. CASE GiveUp
  BY <1>6, GiveUpHolds
<1>7. CASE bypassOnLoadPopstate
  BY <1>7 DEF bypassOnLoadPopstate, VisitInv, VisitTypes, CacheBounded
<1> QED BY <1>1, <1>2, <1>3, <1>4, <1>5, <1>6, <1>7 DEF VisitsNext

LEMMA VisitsStay ==
  ASSUME VisitInv, UNCHANGED visitVars
  PROVE  VisitInv'
BY DEF visitVars, VisitInv, VisitTypes, CacheBounded

\* Every step of the page is one of the history, or leaves it alone.
LEMMA PartsOfVisits ==
  ASSUME [Next]_vars
  PROVE  VisitsNext \/ UNCHANGED visitVars
BY DEF Next, Visits, Links, Widgets, Calls, vars

\* What is shown and what is kept are the pages of their addresses (Turbolinks'
\* changePage and cacheCurrentPage), whatever is visited, redirected, given up
\* and gone back to, until a move goes by the handlers; and no more is kept than
\* cacheSize (constrainPageCacheTo).
THEOREM PagesStayInPlace == Spec => []PagesInPlace
<1>1. Init => VisitInv
  BY VisitsStart DEF Init
<1>2. VisitInv /\ [Next]_vars => VisitInv'
  BY PartsOfVisits, VisitsKept, VisitsStay
<1> QED BY <1>1, <1>2, VisitsHold, PTL DEF Spec
-----------------------------------------------------------------------------
(* jquery_ujs: the inductive invariant.                                        *)

Texts == {"own", "wait", NoText}
Looks == [text : Texts, enableWith : Texts, disabled : BOOLEAN]
Pressed == {"commit", NoButton}

LinkTypes ==
  /\ element \in [kind : Kinds, has : Attributes]
  /\ look \in Looks /\ button \in Pressed /\ requests \in Seq(Pressed)
  /\ timers \in Seq({"disable", "enable"}) /\ posts \in Nat
  /\ inPage \in BOOLEAN /\ missed \in BOOLEAN /\ twice \in BOOLEAN

\* The text an element will have back is its own, unless it was disabled twice.
OwnText(l, tw) ==
  /\ l.text # NoText
  /\ l.disabled => l.enableWith # NoText
  /\ ~tw => /\ l.enableWith \in {NoText, "own"}
            /\ IF l.disabled THEN l.enableWith = "own" ELSE l.text = "own"

\* What is disabled is a link or a form, and a link says so.
MayBe(l) ==
  /\ element.kind = "link" /\ l.disabled => element.has.disableWith
  /\ element.kind \in {"button", "input"} => l = Fresh

\* The timers are a form's; and without a form posted, the last one enables it.
LastEnables(ts, n) ==
  ts # <<>> => element.kind = "form" /\ (n = 0 => ts[Len(ts)] = "enable")

\* A disabled element has something to come.
WillBe(l, rs, ts, n, m) ==
  l.disabled /\ element.has.remote => rs # <<>> \/ ts # <<>> \/ m \/ n > 0

LinkInv ==
  /\ LinkTypes /\ OwnText(look, twice) /\ MayBe(look)
  /\ LastEnables(timers, posts) /\ WillBe(look, requests, timers, posts, missed)

LEMMA LinksHold == LinkInv => LinksComeBack
<1> SUFFICES ASSUME LinkInv PROVE LinksComeBack
  OBVIOUS
<1> QED BY DEF LinkInv, OwnText, MayBe, WillBe, LinksComeBack

\* What the handlers make of a look.
LEMMA LookChanges ==
  ASSUME NEW l \in Looks
  PROVE  /\ disableElement(l) \in Looks /\ enableElement(l) \in Looks /\ disableFormElements(l) \in Looks
         /\ enableFormElements(l) \in Looks /\ Fresh \in Looks
         /\ disableElement(l).disabled /\ ~enableElement(l).disabled /\ ~enableFormElements(l).disabled
         /\ ~Fresh.disabled
         /\ \A tw \in BOOLEAN : OwnText(l, tw) => OwnText(enableElement(l), tw) /\ OwnText(enableFormElements(l), tw)
         /\ \A tw \in BOOLEAN : OwnText(l, tw) /\ ~l.disabled => OwnText(disableElement(l), tw)
         /\ \A tw \in BOOLEAN : OwnText(Fresh, tw)
<1>1. /\ disableElement(l) \in Looks /\ disableElement(l).text = "wait" /\ disableElement(l).enableWith = l.text
      /\ disableElement(l).disabled
  BY DEF Looks, Texts, disableElement
<1>2. /\ enableElement(l) \in Looks /\ ~enableElement(l).disabled /\ enableElement(l).enableWith = NoText
      /\ enableElement(l).text = IF l.enableWith = NoText THEN l.text ELSE l.enableWith
  BY DEF Looks, Texts, enableElement
<1>3. /\ enableFormElements(l) \in Looks /\ ~enableFormElements(l).disabled
      /\ enableFormElements(l).enableWith = l.enableWith
      /\ enableFormElements(l).text = IF l.disabled THEN l.enableWith ELSE l.text
  BY DEF Looks, Texts, enableFormElements
<1>4. Fresh \in Looks /\ Fresh.text = "own" /\ Fresh.enableWith = NoText /\ ~Fresh.disabled
  BY DEF Looks, Texts, Fresh
<1>5. disableFormElements(l) \in Looks
  BY <1>1 DEF disableFormElements
<1>6. ASSUME NEW tw \in BOOLEAN, OwnText(l, tw)
      PROVE  OwnText(enableElement(l), tw) /\ OwnText(enableFormElements(l), tw)
  <2>1. OwnText(enableElement(l), tw)
    BY <1>2, <1>6, LinksAssumption DEF OwnText, Looks
  <2>2. OwnText(enableFormElements(l), tw)
    BY <1>3, <1>6, LinksAssumption DEF OwnText, Looks
  <2> QED BY <2>1, <2>2
<1>7. ASSUME NEW tw \in BOOLEAN, OwnText(l, tw), ~l.disabled
      PROVE  OwnText(disableElement(l), tw)
  BY <1>1, <1>7, LinksAssumption DEF OwnText, Looks
<1>8. ASSUME NEW tw \in BOOLEAN PROVE OwnText(Fresh, tw)
  BY <1>4, LinksAssumption DEF OwnText
<1> QED BY <1>1, <1>2, <1>3, <1>4, <1>5, <1>6, <1>7, <1>8

\* Disabling a form that is disabled counts.
LEMMA FormDisabled ==
  ASSUME LinkInv, DisableForm
  PROVE  look' \in Looks /\ twice' \in BOOLEAN /\ OwnText(look', twice')
<1>1. look \in Looks /\ twice \in BOOLEAN /\ OwnText(look, twice)
  BY DEF LinkInv, LinkTypes
<1>2. look' = disableFormElements(look) /\ (twice' <=> twice \/ look.disabled) /\ twice' \in BOOLEAN
  BY <1>1 DEF DisableForm, Looks
<1>3. look' \in Looks
  BY <1>1, <1>2, LookChanges
<1>4. CASE look.disabled
  <2>1. look' = look \/ (look'.enableWith = look.text /\ look'.text = "wait" /\ look'.disabled)
    BY <1>2 DEF disableFormElements, disableElement
  <2>2. twice' = TRUE
    BY <1>2, <1>4
  <2> QED BY <2>1, <2>2, <1>1, <1>2, <1>3, <1>4, LinksAssumption DEF OwnText, Looks
<1>5. CASE ~look.disabled
  <2>1. look' = look \/ look' = disableElement(look)
    BY <1>2 DEF disableFormElements
  <2>2. OwnText(look', twice)
    BY <2>1, <1>1, <1>5, LookChanges
  <2>3. twice' = twice
    <3>1. CASE twice
      BY <3>1, <1>1, <1>2
    <3>2. CASE ~twice
      BY <3>2, <1>1, <1>2, <1>5
    <3> QED BY <3>1, <3>2
  <2> QED BY <2>2, <2>3, <1>2, <1>3
<1> QED BY <1>2, <1>3, <1>4, <1>5

LEMMA Sent ==
  ASSUME NEW end, NEW b \in Pressed, LinkTypes, send(end, b)
  PROVE  requests' \in Seq(Pressed) /\ (end = "sent" => requests' # <<>>) /\ (end # "sent" => requests' = requests)
BY AppendProperties, EmptySeq DEF send, LinkTypes

LEMMA LinksStart == LinksInit => LinkInv
<1> SUFFICES ASSUME LinksInit PROVE LinkInv
  OBVIOUS
<1>1. look = Fresh /\ twice = FALSE
  BY DEF LinksInit
<1>2. Fresh \in Looks
  BY DEF Fresh, Looks, Texts
<1>3. ~Fresh.disabled /\ OwnText(Fresh, FALSE)
  BY <1>2, LookChanges
<1>4. element \in [kind : Kinds, has : Attributes]
  BY DEF LinksInit
<1>5. LinkTypes
  BY <1>1, <1>4, <1>2, EmptySeq DEF LinksInit, LinkTypes, Pressed
<1> QED BY <1>1, <1>5, <1>3 DEF LinksInit, LinkInv, MayBe, LastEnables, WillBe

LEMMA ClickLinkKeeps ==
  ASSUME LinkInv, ClickLink
  PROVE  LinkInv'
<1>1. PICK metaClick \in BOOLEAN :
        LET has == element.has
            clicked == IF has.disableWith /\ ~metaClick THEN disableElement(look) ELSE look
        IN  /\ element.kind = "link" /\ inPage /\ ~look.disabled
            /\ CASE has.remote -> /\ metaClick => has.method = "delete" \/ has.params
                                  /\ handleRemoteLink(clicked)
                 [] ~has.remote /\ has.method # "none" -> handleMethod(clicked)
                 [] OTHER -> ~metaClick /\ followed(clicked)
            /\ UNCHANGED <<element, button, timers, missed, twice>>
  BY DEF ClickLink
<1> DEFINE clicked == IF element.has.disableWith /\ ~metaClick THEN disableElement(look) ELSE look
<1>2. /\ element.kind = "link" /\ inPage /\ ~look.disabled
      /\ UNCHANGED <<element, button, timers, missed, twice>>
  BY <1>1
<1>3. /\ look \in Looks /\ OwnText(look, twice) /\ timers = <<>> /\ element.has.remote \in BOOLEAN
      /\ element.has.disableWith \in BOOLEAN /\ posts \in Nat /\ requests \in Seq(Pressed)
      /\ twice \in BOOLEAN /\ inPage \in BOOLEAN
  BY <1>2 DEF LinkInv, LinkTypes, LastEnables, Attributes
<1>4. clicked \in Looks /\ OwnText(clicked, twice) /\ (clicked.disabled => element.has.disableWith)
  <2>1. CASE element.has.disableWith /\ ~metaClick
    <3>1. disableElement(look) \in Looks /\ OwnText(disableElement(look), twice)
      BY <1>2, <1>3, LookChanges
    <3> QED BY <3>1, <2>1
  <2>2. CASE ~(element.has.disableWith /\ ~metaClick)
    BY <2>2, <1>2, <1>3
  <2> QED BY <2>1, <2>2
<1>5. \/ element.has.remote /\ handleRemoteLink(clicked)
      \/ ~element.has.remote /\ (handleMethod(clicked) \/ followed(clicked))
  <2>1. CASE element.has.remote
    BY <2>1, <1>1, Zenon
  <2>2. CASE ~element.has.remote /\ element.has.method # "none"
    BY <2>2, <1>1, Zenon
  <2>3. CASE ~element.has.remote /\ ~(element.has.method # "none")
    BY <2>3, <1>1, Zenon
  <2> QED BY <2>1, <2>2, <2>3
<1> HIDE DEF clicked
<1>6. /\ look' \in Looks /\ OwnText(look', twice) /\ (look'.disabled => element.has.disableWith)
      /\ requests' \in Seq(Pressed) /\ posts' \in Nat /\ inPage' \in BOOLEAN
      /\ element.has.remote => (look'.disabled => requests' # <<>>)
  <2>1. CASE element.has.remote /\ handleRemoteLink(clicked)
    <3>1. PICK end \in Ends :
            /\ send(end, NoButton)
            /\ look' = IF end = "sent" THEN clicked ELSE enableElement(clicked)
            /\ UNCHANGED <<posts, inPage>>
      BY <2>1 DEF handleRemoteLink
    <3>2. requests' \in Seq(Pressed) /\ (end = "sent" => requests' # <<>>)
      BY <3>1, Sent DEF LinkInv, Pressed
    <3>3. look' \in Looks /\ OwnText(look', twice) /\ (look'.disabled => look' = clicked /\ end = "sent")
      <4>1. /\ enableElement(clicked) \in Looks /\ OwnText(enableElement(clicked), twice)
            /\ ~enableElement(clicked).disabled
        BY <1>3, <1>4, LookChanges
      <4> QED BY <4>1, <3>1, <1>4
    <3> QED BY <3>1, <3>2, <3>3, <1>3, <1>4
  <2>2. CASE ~element.has.remote /\ handleMethod(clicked)
    BY <2>2, <1>2, <1>3, <1>4 DEF handleMethod, post
  <2>3. CASE ~element.has.remote /\ followed(clicked)
    BY <2>3, <1>2, <1>3, <1>4 DEF followed
  <2> QED BY <2>1, <2>2, <2>3, <1>5
<1>7. LinkTypes'
  BY <1>2, <1>6 DEF LinkInv, LinkTypes
<1> QED BY <1>2, <1>3, <1>6, <1>7 DEF LinkInv, MayBe, LastEnables, WillBe

LEMMA SubmitKeeps ==
  ASSUME LinkInv, NEW pressed \in Pressed, formSubmit(pressed)
  PROVE  LinkInv'
<1>1. element.kind = "form" /\ UNCHANGED <<element, inPage, missed>>
  BY DEF formSubmit, Untouched
<1>2. LinkTypes /\ OwnText(look, twice) /\ LastEnables(timers, posts) /\ WillBe(look, requests, timers, posts, missed)
  BY DEF LinkInv
<1> DEFINE T == {"disable", "enable"}
<1>3. timers \in Seq(T) /\ posts \in Nat
  BY <1>2 DEF LinkTypes
<1>4. CASE stopEverything(pressed)
  BY <1>1, <1>2, <1>4 DEF stopEverything, LinkInv, LinkTypes, MayBe, LastEnables, WillBe
<1>5. CASE handleRemoteForm(pressed)
  <2>1. PICK end \in Ends :
          /\ send(end, pressed)
          /\ button' = IF end = "before" THEN pressed ELSE NoButton
          /\ IF end = "sent" THEN DisableForm ELSE UNCHANGED <<look, twice>>
          /\ UNCHANGED <<timers, posts>>
    BY <1>5 DEF handleRemoteForm
  <2>2. requests' \in Seq(Pressed) /\ (end = "sent" => requests' # <<>>) /\ (end # "sent" => requests' = requests)
    BY <2>1, <1>2, Sent
  <2>3. button' \in Pressed
    BY <2>1 DEF Pressed
  <2>4. look' \in Looks /\ twice' \in BOOLEAN /\ OwnText(look', twice')
    BY <2>1, <1>2, FormDisabled DEF LinkTypes
  <2>5. LinkTypes' /\ timers' = timers /\ posts' = posts
    BY <2>1, <2>2, <2>3, <2>4, <1>1, <1>2 DEF LinkTypes
  <2>6. WillBe(look, requests, timers, posts, missed)'
    BY <2>1, <2>2, <2>5, <1>1, <1>2 DEF WillBe
  <2> QED BY <2>4, <2>5, <2>6, <1>1, <1>2 DEF LinkInv, MayBe, LastEnables
<1>6. CASE abortForFiles(pressed)
  <2>1. button' = pressed /\ UNCHANGED <<look, requests, twice>>
    BY <1>6 DEF abortForFiles
  <2>2. CASE timers' = timers \o <<"disable", "enable">> /\ UNCHANGED posts
    <3> DEFINE two == <<"disable", "enable">>
    <3>1. two \in Seq(T) /\ Len(two) = 2 /\ two[2] = "enable"
      OBVIOUS
    <3>2. timers' = timers \o two /\ posts' = posts
      BY <2>2
    <3> HIDE DEF T, two
    <3>3. timers' \in Seq(T) /\ timers'[Len(timers')] = "enable" /\ timers' # <<>>
      <4>1. two \in Seq(T) /\ timers \in Seq(T) /\ Len(timers) \in Nat
        BY <3>1, <1>3, LenProperties
      <4>2. timers \o two \in Seq(T) /\ Len(timers \o two) = Len(timers) + Len(two)
        BY <4>1, ConcatProperties
      <4>3. (timers \o two)[Len(timers) + 2] = two[2]
        BY <4>1, <3>1, ConcatProperties
      <4> QED BY <4>1, <4>2, <4>3, <3>1, <3>2, EmptySeq
    <3>4. LinkTypes'
      BY <3>2, <3>3, <2>1, <1>1, <1>2 DEF LinkTypes, T
    <3> QED BY <3>2, <3>3, <3>4, <2>1, <1>1, <1>2 DEF LinkInv, MayBe, LastEnables, WillBe
  <2>3. CASE timers' = Append(timers, "disable") /\ post
    <3>1. timers' \in Seq(T) /\ posts' \in Nat /\ posts' > 0
      BY <2>3, <1>3, AppendProperties DEF post
    <3>2. LinkTypes'
      BY <3>1, <2>1, <1>1, <1>2 DEF LinkTypes
    <3> QED BY <3>1, <3>2, <2>1, <1>1, <1>2 DEF LinkInv, MayBe, LastEnables, WillBe
  <2> QED BY <2>2, <2>3, <1>6 DEF abortForFiles
<1>7. CASE postForm(pressed)
  <2>1. button' = pressed /\ UNCHANGED <<look, requests, twice>>
    BY <1>7 DEF postForm
  <2>2. timers' \in Seq(T) /\ posts' \in Nat /\ posts' > 0
    BY <1>3, <1>7, AppendProperties DEF postForm, post
  <2>3. LinkTypes'
    BY <2>1, <2>2, <1>1, <1>2 DEF LinkTypes
  <2> QED BY <2>1, <2>2, <2>3, <1>1, <1>2 DEF LinkInv, MayBe, LastEnables, WillBe
<1> QED BY <1>4, <1>5, <1>6, <1>7 DEF formSubmit

LEMMA TimerKeeps ==
  ASSUME LinkInv, FormTimer
  PROVE  LinkInv'
<1> DEFINE T == {"disable", "enable"}
<1>1. LinkTypes /\ OwnText(look, twice) /\ LastEnables(timers, posts) /\ WillBe(look, requests, timers, posts, missed)
  BY DEF LinkInv
<1>2. /\ timers # <<>> /\ timers' = Tail(timers) /\ UNCHANGED <<element, inPage, missed, button, requests, posts>>
      /\ IF Head(timers) = "disable" THEN DisableForm ELSE look' = enableFormElements(look) /\ UNCHANGED twice
  BY DEF FormTimer, Untouched
<1>3. timers \in Seq(T) /\ posts \in Nat /\ element.kind = "form"
  BY <1>1, <1>2 DEF LinkTypes, LastEnables
<1>4. /\ timers' \in Seq(T)
      /\ timers' # <<>> => timers'[Len(timers')] = timers[Len(timers)]
      /\ timers' = <<>> => Head(timers) = timers[Len(timers)]
  <2> HIDE DEF T
  <2>1. /\ Tail(timers) \in Seq(T) /\ Len(Tail(timers)) = Len(timers) - 1 /\ Len(timers) \in Nat \ {0}
        /\ \A i \in 1..Len(Tail(timers)) : Tail(timers)[i] = timers[i + 1]
        /\ Head(timers) = timers[1]
    BY <1>2, <1>3, HeadTailProperties, LenProperties, EmptySeq
  <2>2. Tail(timers) # <<>> => Len(Tail(timers)) \in 1..Len(Tail(timers))
    BY <2>1, EmptySeq, LenProperties
  <2> QED BY <2>1, <2>2, <1>2, EmptySeq
<1>5. look' \in Looks /\ twice' \in BOOLEAN /\ OwnText(look', twice')
  BY <1>1, <1>2, FormDisabled, LookChanges DEF LinkTypes
<1>6. LinkTypes'
  BY <1>1, <1>2, <1>4, <1>5 DEF LinkTypes
<1>7. LastEnables(timers, posts)'
  BY <1>1, <1>2, <1>4 DEF LastEnables
<1>8. WillBe(look, requests, timers, posts, missed)'
  <2>1. CASE Head(timers) = "disable"
    <3>1. timers' = <<>> => posts > 0
      BY <2>1, <1>1, <1>2, <1>3, <1>4 DEF LastEnables
    <3> QED BY <3>1, <1>2 DEF WillBe
  <2>2. CASE Head(timers) # "disable"
    <3>1. ~look'.disabled
      BY <2>2, <1>1, <1>2, LookChanges DEF LinkTypes
    <3> QED BY <3>1 DEF WillBe
  <2> QED BY <2>1, <2>2
<1> QED BY <1>2, <1>3, <1>5, <1>6, <1>7, <1>8 DEF LinkInv, MayBe

LEMMA AnswerKeeps ==
  ASSUME LinkInv, Answer
  PROVE  LinkInv'
<1>1. PICK i \in DOMAIN requests, error \in BOOLEAN :
        /\ requests' = RemoveAt(requests, i)
        /\ look' = completed(error)
        /\ missed' = (missed \/ (look'.disabled /\ ~inPage))
        /\ UNCHANGED <<element, button, timers, posts, inPage, twice>>
  BY DEF Answer
<1>2. LinkTypes /\ OwnText(look, twice) /\ MayBe(look) /\ LastEnables(timers, posts)
  BY DEF LinkInv
<1>3. requests' \in Seq(Pressed)
  <2>1. requests \in Seq(Pressed) /\ DOMAIN requests = 1..Len(requests) /\ Len(requests) \in Nat
    BY <1>2, LenProperties DEF LinkTypes
  <2>2. \A j \in 1..Len(requests) : requests[j] \in Pressed
    BY <2>1, ElementOfSeq
  <2>3. SubSeq(requests, 1, i - 1) \in Seq(Pressed) /\ SubSeq(requests, i + 1, Len(requests)) \in Seq(Pressed)
    BY <2>1, <2>2, SubSeqProperties
  <2> QED BY <1>1, <2>3, ConcatProperties DEF RemoveAt
<1>4. \/ look' = enableElement(look) \/ look' = enableFormElements(look)
      \/ /\ look' = look /\ ~(element.kind = "link" /\ inPage /\ element.has.disableWith)
         /\ ~(element.kind = "form" /\ inPage)
  <2>1. CASE element.kind = "link" /\ (error \/ (inPage /\ element.has.disableWith))
    BY <2>1, <1>1, Zenon DEF completed
  <2>2. CASE element.kind = "form" /\ inPage
    <3>1. ~(element.kind = "link" /\ (error \/ (inPage /\ element.has.disableWith)))
      BY <2>2
    <3> QED BY <2>2, <3>1, <1>1, Zenon DEF completed
  <2>3. CASE /\ ~(element.kind = "link" /\ (error \/ (inPage /\ element.has.disableWith)))
             /\ ~(element.kind = "form" /\ inPage)
    BY <2>3, <1>1, Zenon DEF completed
  <2> QED BY <2>1, <2>2, <2>3
<1>5. look' \in Looks /\ OwnText(look', twice)
  BY <1>2, <1>4, LookChanges DEF LinkTypes
<1>6. look'.disabled => look' = look
  BY <1>2, <1>4, LookChanges DEF LinkTypes
<1>7. MayBe(look')
  <2>1. element.kind \in {"button", "input"} => look' = look \/ look' = Fresh
    BY <1>2, <1>4, LinksAssumption DEF MayBe, enableElement, enableFormElements, Fresh
  <2> QED BY <2>1, <1>2, <1>6 DEF MayBe
<1>8. look'.disabled => missed'
  <2>1. ASSUME look'.disabled, inPage PROVE FALSE
    <3>1. look' = look /\ look.disabled
      BY <2>1, <1>6
    <3>2. element.kind \notin {"link", "form"}
      BY <2>1, <3>1, <1>2, <1>4, LookChanges DEF MayBe, LinkTypes
    <3>3. element.kind \in {"button", "input"}
      BY <3>2, <1>2 DEF LinkTypes, Kinds
    <3> QED BY <3>1, <3>3, <1>2 DEF MayBe, Fresh
  <2> QED BY <2>1, <1>1
<1>9. missed' \in BOOLEAN
  BY <1>1
<1>10. LinkTypes'
  BY <1>1, <1>2, <1>3, <1>5, <1>9 DEF LinkTypes
<1> QED BY <1>1, <1>2, <1>5, <1>7, <1>8, <1>10 DEF LinkInv, MayBe, LastEnables, WillBe

LEMMA LinksKept ==
  ASSUME LinkInv, LinksNext
  PROVE  LinkInv'
<1>1. CASE ClickLink
  BY <1>1, ClickLinkKeeps
<1>2. CASE ClickOrChange
  <2>1. PICK end \in Ends : send(end, NoButton)
    BY <1>2 DEF ClickOrChange
  <2>2. requests' \in Seq(Pressed)
    BY <2>1, Sent DEF LinkInv, Pressed
  <2>3. /\ UNCHANGED <<element, look, button, timers, posts, inPage, missed, twice>>
        /\ element.kind \in {"button", "input"}
    BY <1>2 DEF ClickOrChange
  <2>4. LinkTypes' /\ ~look.disabled
    BY <2>2, <2>3 DEF LinkInv, LinkTypes, MayBe, Fresh
  <2> QED BY <2>3, <2>4 DEF LinkInv, MayBe, LastEnables, WillBe
<1>3. CASE formInputClick
  BY <1>3, SubmitKeeps DEF formInputClick, Pressed
<1>4. CASE SubmitByScript
  BY <1>4, SubmitKeeps DEF SubmitByScript, LinkInv, LinkTypes
<1>5. CASE FormTimer
  BY <1>5, TimerKeeps
<1>6. CASE Answer
  BY <1>6, AnswerKeeps
<1>7. CASE PutAside
  <2>1. inPage' \in BOOLEAN /\ UNCHANGED <<element, look, button, requests, timers, posts, missed, twice>>
    BY <1>7 DEF PutAside
  <2>2. LinkTypes'
    BY <2>1 DEF LinkInv, LinkTypes
  <2> QED BY <2>1, <2>2 DEF LinkInv, MayBe, LastEnables, WillBe
<1>8. CASE Unload
  <2>1. /\ look' = Fresh /\ button' = NoButton /\ requests' = <<>> /\ timers' = <<>> /\ posts' = 0
        /\ inPage' = TRUE /\ missed' = FALSE /\ twice' = FALSE /\ element' = element
    BY <1>8 DEF Unload, Loaded
  <2>2. Fresh \in Looks /\ ~Fresh.disabled /\ OwnText(Fresh, FALSE)
    BY LookChanges DEF LinkInv, LinkTypes
  <2>3. LinkTypes'
    BY <2>1, <2>2, EmptySeq DEF LinkInv, LinkTypes, Pressed
  <2> QED BY <2>1, <2>2, <2>3 DEF LinkInv, MayBe, LastEnables, WillBe
<1> QED BY <1>1, <1>2, <1>3, <1>4, <1>5, <1>6, <1>7, <1>8 DEF LinksNext

LEMMA LinksStay ==
  ASSUME LinkInv, UNCHANGED linkVars
  PROVE  LinkInv'
BY DEF linkVars, LinkInv, LinkTypes, OwnText, MayBe, LastEnables, WillBe

LEMMA PartsOfLinks ==
  ASSUME [Next]_vars
  PROVE  LinksNext \/ UNCHANGED linkVars
BY DEF Next, Visits, Links, Widgets, Calls, vars

\* A disabled remote link or form has a request or a timer under way, unless an
\* answer found it put aside or the browser is posting a form; and what is
\* enabled has its own text, unless a form was disabled twice: whatever the
\* bound on requests is (jquery_ujs disableElement, enableElement and the forms'
\* ones).
THEOREM LinksComeBackAlways == Spec => []LinksComeBack
<1>1. Init => LinkInv
  BY LinksStart DEF Init
<1>2. LinkInv /\ [Next]_vars => LinkInv'
  BY PartsOfLinks, LinksKept, LinksStay
<1> QED BY <1>1, <1>2, LinksHold, PTL DEF Spec
-----------------------------------------------------------------------------
(* The widgets: the inductive invariants, each of one widget's state.          *)

MenusInv(d) ==
  /\ d \in [open : SUBSET Toggles, backdrop : BOOLEAN, touch : BOOLEAN]
  /\ d.open = {} \/ \E t \in Toggles : d.open = {t}
  /\ d.backdrop => d.open # {}

RadiosInv(r) ==
  /\ r \in [active : SUBSET Radios, checked : SUBSET Radios]
  /\ r.active = {} \/ \E b \in Radios : r.active = {b}
  /\ r.checked \subseteq r.active

Slides == [items : Nat \ {0}, transitions : BOOLEAN, active : Nat, toward : Nat \cup {NoItem}, sliding : BOOLEAN,
           interval : BOOLEAN, paused : BOOLEAN, made : BOOLEAN, over : BOOLEAN]

\* Nothing goes on by itself before a click has made the carousel.
SlidesInv(s) ==
  /\ s \in Slides /\ s.active \in 1..s.items /\ s.toward \in 1..s.items \cup {NoItem}
  /\ s.toward # NoItem => s.sliding /\ s.toward # s.active
  /\ s.sliding => s.toward # NoItem \/ s.items = 1
  /\ s.over => ~s.interval
  /\ s.interval => s.made

Tips == [in : BOOLEAN, there : BOOLEAN, faded : BOOLEAN, ending : BOOLEAN, hoverState : {"none", "in", "out"},
         delay : BOOLEAN, timeout : {"none", "show", "hide"}, open : BOOLEAN, again : BOOLEAN]

\* What is due is what the mouse did last; what has been there has faded in.
TipInv(t) ==
  /\ t \in Tips
  /\ t.there => t.faded
  /\ t.timeout = "show" => t.hoverState = "in"
  /\ t.timeout = "hide" => t.hoverState = "out"
  /\ t.timeout = "none" => /\ t.in <=> t.hoverState = "in"
                           /\ t.in => t.there
                           /\ t.in \/ t.ending \/ ~t.there

\* One shown while it was going is marked as long as it goes on.
OverInv(t) ==
  /\ t \in Tips /\ t.hoverState = "none"
  /\ t.there => t.faded
  /\ t.in => t.there \/ t.again
  /\ t.in /\ t.ending => t.again
  /\ ~t.in /\ ~t.ending => ~t.there
  /\ t.open <=> t.in

OversInv(os) ==
  /\ os \in [Clickovers -> Tips]
  /\ \A c \in Clickovers : OverInv(os[c])
  /\ \A c, d \in Clickovers : os[c].open /\ os[d].open => c = d

AltChoices == {Alt[o] : o \in DOMAIN Alt}

\* What does not show is wrapped, with or without a choice.
GroupInv(g) ==
  /\ g \in [choice : AltChoices \cup {NoChoice}, wrapped : SUBSET (DOMAIN Options), show : SUBSET (DOMAIN Options),
            disabled : BOOLEAN, value : Nat]
  /\ g.wrapped = DOMAIN Options \ g.show
  /\ g.choice # NoChoice => /\ g.show = {o \in DOMAIN Options : Alt[Options[o]] = g.choice}
                            /\ g.value \in g.show

\* A set of at most one.
LEMMA AtMostOne ==
  ASSUME NEW S, \A x, y \in S : x = y
  PROVE  Cardinality(S) <= 1
<1>1. CASE S = {}
  BY <1>1, FS_EmptySet
<1>2. CASE S # {}
  <2>1. PICK x : x \in S
    BY <1>2
  <2>2. S = {x}
    BY <2>1
  <2> QED BY <2>2, FS_Singleton
<1> QED BY <1>1, <1>2

LEMMA MenusHold == MenusInv(menus) => MenusAgree
<1> SUFFICES ASSUME MenusInv(menus) PROVE MenusAgree
  OBVIOUS
<1>1. \A x, y \in menus.open : x = y
  BY DEF MenusInv
<1>2. Cardinality(menus.open) <= 1
  BY <1>1, AtMostOne
<1> QED BY <1>2 DEF MenusInv, MenusAgree

LEMMA RadiosHold == RadiosInv(radios) => RadiosAgree
<1> SUFFICES ASSUME RadiosInv(radios) PROVE RadiosAgree
  OBVIOUS
<1>1. \A x, y \in radios.active : x = y
  BY DEF RadiosInv
<1>2. Cardinality(radios.active) <= 1
  BY <1>1, AtMostOne
<1> QED BY <1>2 DEF RadiosInv, RadiosAgree

LEMMA OversHold == OversInv(overs) => OversAgree
<1> SUFFICES ASSUME OversInv(overs) PROVE OversAgree
  OBVIOUS
<1> DEFINE O == {c \in Clickovers : overs[c].open}
<1>1. \A x, y \in O : x = y
  BY DEF OversInv
<1>2. Cardinality(O) <= 1
  <2> HIDE DEF O
  <2> QED BY <1>1, AtMostOne
<1>3. \A c \in Clickovers : /\ overs[c].in => overs[c].there \/ overs[c].again
                            /\ ~overs[c].in /\ ~overs[c].ending => ~overs[c].there
                            /\ overs[c].open <=> overs[c].in
  BY DEF OversInv, OverInv
<1> QED BY <1>2, <1>3 DEF OversAgree

WidgetInv ==
  /\ MenusInv(menus) /\ RadiosInv(radios) /\ SlidesInv(slides) /\ TipInv(tip) /\ OversInv(overs) /\ GroupInv(group)

LEMMA WidgetsHold == WidgetInv => WidgetsAgree
<1> SUFFICES ASSUME WidgetInv PROVE WidgetsAgree
  OBVIOUS
<1>1. SlidesAgree
  BY DEF WidgetInv, SlidesInv, SlidesAgree
<1>2. TipAgrees
  BY DEF WidgetInv, TipInv, TipAgrees
<1>3. GroupAgrees
  BY DEF WidgetInv, GroupInv, GroupAgrees
<1> QED BY <1>1, <1>2, <1>3, MenusHold, RadiosHold, OversHold DEF WidgetInv, WidgetsAgree

-----------------------------------------------------------------------------
(* What each widget's handlers keep.                                           *)

\* Each copy of the dropdown's handler leaves one menu open at most.
LEMMA MenusKept ==
  ASSUME MenusInv(menus), MenusNext
  PROVE  MenusInv(menus')
<1>1. ASSUME NEW d, MenusInv(d) PROVE MenusInv(clearMenus(d))
  BY <1>1 DEF MenusInv, clearMenus
<1>2. ASSUME NEW d, MenusInv(d), NEW t \in Toggles PROVE MenusInv(toggleMenu(d, t)) /\ MenusInv(toggleMenuEarlier(d, t))
  <2>1. CASE t \in d.open
    BY <2>1, <1>1, <1>2 DEF toggleMenu, toggleMenuEarlier
  <2>2. CASE t \notin d.open
    <3>1. toggleMenu(d, t) = [clearMenus(d) EXCEPT !.open = {t}, !.backdrop = d.touch /\ t \notin Navbar]
      BY <2>2 DEF toggleMenu
    <3>2. toggleMenuEarlier(d, t) = [clearMenus(d) EXCEPT !.open = {t}, !.backdrop = d.touch]
      BY <2>2 DEF toggleMenuEarlier
    <3>3. ASSUME NEW b \in BOOLEAN
          PROVE  MenusInv([clearMenus(d) EXCEPT !.open = {t}, !.backdrop = b])
      <4> DEFINE c == clearMenus(d)
                 e == [c EXCEPT !.open = {t}, !.backdrop = b]
      <4>1. c \in [open : SUBSET Toggles, backdrop : BOOLEAN, touch : BOOLEAN]
        BY <1>1, <1>2 DEF MenusInv
      <4> HIDE DEF c
      <4>2. e.open = {t} /\ e \in [open : SUBSET Toggles, backdrop : BOOLEAN, touch : BOOLEAN]
        BY <4>1
      <4> HIDE DEF e
      <4>3. MenusInv(e)
        BY <4>2 DEF MenusInv
      <4> QED BY <4>3 DEF e, c
    <3>4. d.touch \in BOOLEAN /\ (d.touch /\ t \notin Navbar) \in BOOLEAN
      BY <1>2 DEF MenusInv
    <3> QED BY <3>1, <3>2, <3>3, <3>4, Zenon
  <2> QED BY <2>1, <2>2
<1>3. CASE ClickToggle
  <2>1. PICK t \in Toggles : menus' = toggleMenuEarlier(toggleMenu(toggleMenu(menus, t), t), t)
    BY <1>3 DEF ClickToggle
  <2>2. MenusInv(toggleMenu(menus, t))
    BY <1>2
  <2>3. MenusInv(toggleMenu(toggleMenu(menus, t), t))
    BY <2>2, <1>2
  <2> QED BY <2>1, <2>3, <1>2
<1>4. CASE ClickElsewhere
  BY <1>1, <1>4 DEF ClickElsewhere
<1> QED BY <1>3, <1>4 DEF MenusNext

LEMMA RadiosKept ==
  ASSUME RadiosInv(radios), ClickRadio
  PROVE  RadiosInv(radios')
<1>1. ASSUME NEW r, RadiosInv(r), NEW b \in Radios PROVE RadiosInv(toggleRadio(r, b))
  BY <1>1 DEF RadiosInv, toggleRadio
<1>2. PICK b \in Radios : radios' = toggleRadio(toggleRadio(radios, b), b)
  BY DEF ClickRadio
<1>3. RadiosInv(toggleRadio(radios, b))
  BY <1>1
<1> QED BY <1>1, <1>2, <1>3

\* The carousel goes to another of its items, if it has another.
LEMMA Neighbours ==
  ASSUME NEW s \in Slides, s.active \in 1..s.items, NEW type
  PROVE  /\ neighbour(s, type) \in 1..s.items
         /\ neighbour(s, type) = s.active => s.items = 1
<1> DEFINE n == s.items
           a == s.active
<1>1. n \in Nat \ {0} /\ a \in 1..n
  BY DEF Slides
<1>2. (a % n) + 1 \in 1..n /\ ((a % n) + 1 = a => n = 1)
  <2> HIDE DEF n, a
  <2>1. CASE a = n
    <3>1. a % n = 0
      BY <2>1, <1>1
    <3> QED BY <3>1, <2>1, <1>1
  <2>2. CASE a < n
    <3>1. a % n = a
      BY <2>2, <1>1
    <3> QED BY <3>1, <2>2, <1>1
  <2> QED BY <2>1, <2>2, <1>1
<1>3. ((a + n - 2) % n) + 1 \in 1..n /\ (((a + n - 2) % n) + 1 = a => n = 1)
  <2> HIDE DEF n, a
  <2>1. CASE a = 1
    <3>1. CASE n = 1
      BY <2>1, <3>1
    <3>2. CASE n # 1
      <4>1. n - 1 \in Nat /\ n - 1 < n /\ a + n - 2 = n - 1
        BY <2>1, <3>2, <1>1
      <4>2. (n - 1) % n = n - 1
        BY <4>1, <1>1
      <4> QED BY <4>1, <4>2, <2>1, <3>2, <1>1
    <3> QED BY <3>1, <3>2
  <2>2. CASE a # 1
    <3>1. a - 2 \in Nat /\ a - 2 < n /\ a + n - 2 = n + (a - 2)
      BY <2>2, <1>1
    <3>2. (n + (a - 2)) % n = a - 2
      BY <3>1, <1>1
    <3> QED BY <3>1, <3>2, <2>2, <1>1
  <2> QED BY <2>1, <2>2
<1> QED BY <1>2, <1>3 DEF neighbour

\* What goes on by itself goes on, and the mouse over it goes on keeping it from it.
LEMMA SlideKept ==
  ASSUME NEW s, SlidesInv(s), ~s.sliding, NEW type
  PROVE  SlidesInv(slide(s, type)) /\ slide(s, type).over = s.over /\ slide(s, type).made = s.made
<1> DEFINE to == neighbour(s, type)
           begun == IF s.interval THEN pause([s EXCEPT !.sliding = TRUE], FALSE) ELSE [s EXCEPT !.sliding = TRUE]
           moving == IF s.transitions THEN [begun EXCEPT !.toward = to]
                     ELSE [begun EXCEPT !.active = to, !.sliding = FALSE]
<1>1. /\ s \in Slides /\ to \in 1..s.items /\ (to = s.active => s.items = 1)
      /\ s.active \in 1..s.items /\ s.toward \in 1..s.items \cup {NoItem} /\ to # NoItem /\ to \in Nat
      /\ s.toward = NoItem
      /\ s.over => ~s.interval
      /\ s.interval => s.made
  BY Neighbours, WidgetsAssumption DEF SlidesInv, Slides
<1>2. slide(s, type) = IF to = s.active THEN begun ELSE IF s.interval THEN cycle(moving, FALSE) ELSE moving
  BY DEF slide
<1> HIDE DEF to
<1>3. /\ begun \in Slides /\ begun.items = s.items /\ begun.transitions = s.transitions /\ begun.active = s.active
      /\ begun.toward = s.toward /\ begun.sliding /\ begun.made = s.made /\ begun.over = s.over /\ ~begun.interval
  <2>1. CASE s.interval
    <3>1. begun = pause([s EXCEPT !.sliding = TRUE], FALSE)
      BY <2>1
    <3> HIDE DEF begun
    <3> QED BY <3>1, <1>1 DEF pause, Slides
  <2>2. CASE ~s.interval
    <3>1. begun = [s EXCEPT !.sliding = TRUE]
      BY <2>2
    <3> HIDE DEF begun
    <3> QED BY <3>1, <2>2, <1>1 DEF Slides
  <2> QED BY <2>1, <2>2
<1> HIDE DEF begun
<1>4. CASE to = s.active
  BY <1>1, <1>2, <1>3, <1>4 DEF SlidesInv
<1>5. CASE to # s.active
  <2>1. /\ moving \in Slides /\ moving.items = s.items /\ moving.made = s.made /\ moving.over = s.over /\ ~moving.interval
        /\ \/ s.transitions /\ moving.active = s.active /\ moving.toward = to /\ moving.sliding
           \/ ~s.transitions /\ moving.active = to /\ moving.toward = s.toward /\ ~moving.sliding
    <3>1. CASE s.transitions
      <4>1. moving = [begun EXCEPT !.toward = to]
        BY <3>1
      <4> HIDE DEF moving
      <4> QED BY <4>1, <3>1, <1>1, <1>3 DEF Slides
    <3>2. CASE ~s.transitions
      <4>1. moving = [begun EXCEPT !.active = to, !.sliding = FALSE]
        BY <3>2
      <4> HIDE DEF moving
      <4> QED BY <4>1, <3>2, <1>1, <1>3 DEF Slides
    <3> QED BY <3>1, <3>2
  <2> HIDE DEF moving
  <2>2. CASE s.interval
    <3>1. slide(s, type) = cycle(moving, FALSE)
      BY <1>2, <1>5, <2>2
    <3>2. /\ cycle(moving, FALSE) \in Slides /\ cycle(moving, FALSE).items = s.items
          /\ cycle(moving, FALSE).made = s.made /\ cycle(moving, FALSE).over = s.over
          /\ cycle(moving, FALSE).active = moving.active /\ cycle(moving, FALSE).toward = moving.toward
          /\ cycle(moving, FALSE).sliding = moving.sliding
      BY <2>1 DEF cycle, Slides
    <3> QED BY <3>1, <3>2, <2>1, <2>2, <1>1, <1>5 DEF SlidesInv
  <2>3. CASE ~s.interval
    BY <2>1, <2>3, <1>1, <1>2, <1>5 DEF SlidesInv
  <2> QED BY <2>2, <2>3
<1> QED BY <1>4, <1>5

LEMMA NextOrPrevKept ==
  ASSUME NEW s, SlidesInv(s), NEW type
  PROVE  SlidesInv(nextOrPrev(s, type)) /\ nextOrPrev(s, type).over = s.over /\ nextOrPrev(s, type).made = s.made
BY SlideKept DEF nextOrPrev

LEMMA SlidesKept ==
  ASSUME SlidesInv(slides), SlidesNext
  PROVE  SlidesInv(slides')
<1>1. CASE ClickControl
  <2>1. PICK type \in {"next", "prev"} :
          slides.over /\ slides' = nextOrPrev(nextOrPrev([slides EXCEPT !.made = TRUE], type), type)
    BY <1>1 DEF ClickControl
  <2> DEFINE s == [slides EXCEPT !.made = TRUE]
  <2>2. SlidesInv(s)
    BY <2>1 DEF SlidesInv, Slides
  <2> HIDE DEF s
  <2>3. SlidesInv(nextOrPrev(s, type))
    BY <2>2, NextOrPrevKept
  <2> QED BY <2>1, <2>3, NextOrPrevKept DEF s
<1>2. CASE MouseEnter
  <2>1. ~slides.over /\ slides \in Slides
    BY <1>2 DEF MouseEnter, SlidesInv
  <2> DEFINE s == IF slides.made THEN pause(slides, TRUE) ELSE slides
  <2>2. slides' = [s EXCEPT !.over = TRUE]
    BY <1>2 DEF MouseEnter
  <2>3. /\ s \in Slides /\ s.items = slides.items /\ s.active = slides.active /\ s.toward = slides.toward
        /\ s.sliding = slides.sliding /\ s.made = slides.made /\ ~s.interval
    <3>1. CASE slides.made
      <4>1. s = pause(slides, TRUE)
        BY <3>1
      <4> HIDE DEF s
      <4> QED BY <4>1, <2>1 DEF pause, Slides
    <3>2. CASE ~slides.made
      BY <3>2, <2>1 DEF SlidesInv
    <3> QED BY <3>1, <3>2
  <2> HIDE DEF s
  <2>4. /\ slides' \in Slides /\ slides'.items = slides.items /\ slides'.active = slides.active
        /\ slides'.toward = slides.toward /\ slides'.sliding = slides.sliding /\ ~slides'.interval
    BY <2>2, <2>3 DEF Slides
  <2> QED BY <2>4 DEF SlidesInv
<1>3. CASE MouseLeave
  <2>1. slides.over /\ slides \in Slides
    BY <1>3 DEF MouseLeave, SlidesInv
  <2> DEFINE s == IF slides.made THEN cycle(slides, TRUE) ELSE slides
  <2>2. slides' = [s EXCEPT !.over = FALSE]
    BY <1>3 DEF MouseLeave
  <2>3. /\ s \in Slides /\ s.items = slides.items /\ s.active = slides.active /\ s.toward = slides.toward
        /\ s.sliding = slides.sliding /\ s.made = slides.made /\ (s.interval => s.made)
    <3>1. CASE slides.made
      <4>1. s = cycle(slides, TRUE)
        BY <3>1
      <4> HIDE DEF s
      <4> QED BY <3>1, <4>1, <2>1 DEF cycle, Slides
    <3>2. CASE ~slides.made
      BY <3>2, <2>1 DEF SlidesInv
    <3> QED BY <3>1, <3>2
  <2> HIDE DEF s
  <2>4. /\ slides' \in Slides /\ slides'.items = slides.items /\ slides'.active = slides.active
        /\ slides'.toward = slides.toward /\ slides'.sliding = slides.sliding /\ ~slides'.over
        /\ slides'.interval => slides'.made
    BY <2>2, <2>3 DEF Slides
  <2> QED BY <2>4 DEF SlidesInv
<1>4. CASE Interval
  BY <1>4, NextOrPrevKept DEF Interval
<1>5. CASE SlideEnd
  <2>1. /\ slides.toward # NoItem
        /\ slides' = [slides EXCEPT !.active = slides.toward, !.toward = NoItem, !.sliding = FALSE]
    BY <1>5 DEF SlideEnd
  <2>2. slides \in Slides /\ slides.toward \in 1..slides.items
    BY <2>1 DEF SlidesInv
  <2>3. /\ slides' \in Slides /\ slides'.items = slides.items /\ slides'.active = slides.toward
        /\ slides'.toward = NoItem /\ ~slides'.sliding /\ slides'.over = slides.over
        /\ slides'.interval = slides.interval /\ slides'.made = slides.made
    BY <2>1, <2>2 DEF Slides
  <2> QED BY <2>2, <2>3 DEF SlidesInv
<1> QED BY <1>1, <1>2, <1>3, <1>4, <1>5 DEF SlidesNext

\* What showing and hiding make of a tip.
LEMMA TipChanges ==
  ASSUME NEW t \in Tips
  PROVE  /\ showTip(t) \in Tips /\ showTip(t).in /\ showTip(t).there /\ showTip(t).faded
         /\ (showTip(t).ending <=> t.ending) /\ (showTip(t).again <=> t.ending)
         /\ showTip(t).hoverState = t.hoverState /\ showTip(t).timeout = t.timeout /\ showTip(t).delay = t.delay
         /\ completeHide(t) \in Tips /\ ~completeHide(t).ending
         /\ (completeHide(t).there <=> t.there /\ t.hoverState = "in")
         /\ (completeHide(t).in <=> t.in) /\ (completeHide(t).faded <=> t.faded) /\ (completeHide(t).again <=> t.again)
         /\ (completeHide(t).open <=> t.open)
         /\ completeHide(t).hoverState = t.hoverState /\ completeHide(t).timeout = t.timeout
         /\ hideTip(t) \in Tips /\ ~hideTip(t).in /\ (hideTip(t).faded <=> t.faded)
         /\ hideTip(t).hoverState = t.hoverState /\ hideTip(t).timeout = t.timeout
         /\ IF t.faded THEN hideTip(t).ending /\ ~hideTip(t).again /\ (hideTip(t).there <=> t.there)
            ELSE hideTip(t).there <=> t.there /\ t.hoverState = "in"
<1>1. /\ showTip(t) \in Tips /\ showTip(t).in /\ showTip(t).there /\ showTip(t).faded
      /\ (showTip(t).ending <=> t.ending) /\ (showTip(t).again <=> t.ending)
      /\ showTip(t).hoverState = t.hoverState /\ showTip(t).timeout = t.timeout /\ showTip(t).delay = t.delay
  BY DEF showTip, Tips
<1>2. ASSUME NEW u \in Tips
      PROVE  /\ completeHide(u) \in Tips /\ ~completeHide(u).ending
             /\ (completeHide(u).there <=> u.there /\ u.hoverState = "in")
             /\ (completeHide(u).in <=> u.in) /\ (completeHide(u).faded <=> u.faded)
             /\ (completeHide(u).again <=> u.again) /\ (completeHide(u).open <=> u.open)
             /\ completeHide(u).hoverState = u.hoverState /\ completeHide(u).timeout = u.timeout
  <2> DEFINE b == u.there /\ u.hoverState = "in"
             e == [u EXCEPT !.ending = FALSE, !.there = b]
  <2>1. b \in BOOLEAN
    BY DEF Tips
  <2>2. completeHide(u) = e
    BY DEF completeHide
  <2> HIDE DEF b
  <2>3. /\ e \in Tips /\ ~e.ending /\ (e.there <=> b) /\ (e.in <=> u.in) /\ (e.faded <=> u.faded)
        /\ (e.again <=> u.again) /\ (e.open <=> u.open) /\ e.hoverState = u.hoverState /\ e.timeout = u.timeout
    BY <2>1 DEF Tips
  <2> HIDE DEF e
  <2> QED BY <2>2, <2>3 DEF b
<1>3. /\ hideTip(t) \in Tips /\ ~hideTip(t).in /\ (hideTip(t).faded <=> t.faded)
      /\ hideTip(t).hoverState = t.hoverState /\ hideTip(t).timeout = t.timeout
      /\ IF t.faded THEN hideTip(t).ending /\ ~hideTip(t).again /\ (hideTip(t).there <=> t.there)
         ELSE hideTip(t).there <=> t.there /\ t.hoverState = "in"
  <2>1. CASE t.faded
    <3>1. hideTip(t) = [t EXCEPT !.in = FALSE, !.ending = TRUE, !.again = FALSE]
      BY <2>1 DEF hideTip
    <3> QED BY <3>1, <2>1 DEF Tips
  <2>2. CASE ~t.faded
    <3> DEFINE u == [t EXCEPT !.in = FALSE]
    <3>1. hideTip(t) = completeHide(u)
      BY <2>2 DEF hideTip
    <3>2. /\ u \in Tips /\ ~u.in /\ (u.there <=> t.there) /\ (u.faded <=> t.faded)
          /\ u.hoverState = t.hoverState /\ u.timeout = t.timeout
      BY DEF Tips
    <3> HIDE DEF u
    <3> QED BY <3>1, <3>2, <2>2, <1>2
  <2> QED BY <2>1, <2>2
<1> QED BY <1>1, <1>2, <1>3

LEMMA TipKept ==
  ASSUME TipInv(tip), TipNext
  PROVE  TipInv(tip')
<1>1. tip \in Tips
  BY DEF TipInv
<1>2. TipInv(enter(tip))
  <2> DEFINE in == [tip EXCEPT !.hoverState = "in", !.timeout = "none"]
             due == [in EXCEPT !.timeout = "show"]
  <2>1. in \in Tips /\ in.hoverState = "in" /\ in.timeout = "none" /\ (in.there => in.faded) /\ in.delay = tip.delay
    BY DEF TipInv, Tips
  <2>2. enter(tip) = IF tip.delay THEN due ELSE showTip(in)
    BY DEF enter
  <2>3. due \in Tips /\ due.hoverState = "in" /\ due.timeout = "show" /\ (due.there => due.faded)
    <3> HIDE DEF in
    <3> QED BY <2>1 DEF Tips
  <2> HIDE DEF in, due
  <2>4. TipInv(due)
    BY <2>3 DEF TipInv
  <2>5. TipInv(showTip(in))
    BY <2>1, TipChanges DEF TipInv
  <2> QED BY <2>2, <2>4, <2>5
<1>3. TipInv(leave(tip))
  <2> DEFINE out == [tip EXCEPT !.hoverState = "out", !.timeout = "none"]
             due == [out EXCEPT !.timeout = "hide"]
  <2>1. out \in Tips /\ out.hoverState = "out" /\ out.timeout = "none" /\ (out.there => out.faded)
    BY DEF TipInv, Tips
  <2>2. leave(tip) = IF tip.delay THEN due ELSE hideTip(out)
    BY DEF leave
  <2>3. due \in Tips /\ due.hoverState = "out" /\ due.timeout = "hide" /\ (due.there => due.faded)
    <3> HIDE DEF out
    <3> QED BY <2>1 DEF Tips
  <2> HIDE DEF out, due
  <2>4. TipInv(due)
    BY <2>3 DEF TipInv
  <2>5. TipInv(hideTip(out))
    BY <2>1, TipChanges DEF TipInv
  <2> QED BY <2>2, <2>4, <2>5
<1>4. CASE Hover
  BY <1>2, <1>3, <1>4 DEF Hover
<1>5. CASE ToggleTip
  BY <1>2, <1>3, <1>5 DEF ToggleTip
<1>6. CASE TipTimer
  <2> DEFINE t == [tip EXCEPT !.timeout = "none"]
  <2>1. /\ tip.timeout # "none"
        /\ tip' = IF tip.timeout = "show" THEN IF t.hoverState = "in" THEN showTip(t) ELSE t
                  ELSE IF t.hoverState = "out" THEN hideTip(t) ELSE t
    BY <1>6 DEF TipTimer
  <2>2. t \in Tips /\ t.timeout = "none" /\ t.hoverState = tip.hoverState /\ (t.there => t.faded)
    BY DEF TipInv, Tips
  <2> HIDE DEF t
  <2>3. CASE tip.timeout = "show"
    <3>1. t.hoverState = "in" /\ tip' = showTip(t)
      BY <2>1, <2>2, <2>3 DEF TipInv
    <3>2. TipInv(showTip(t))
      BY <3>1, <2>2, TipChanges DEF TipInv
    <3> QED BY <3>1, <3>2
  <2>4. CASE tip.timeout = "hide"
    <3>1. t.hoverState = "out" /\ tip' = hideTip(t)
      BY <2>1, <2>2, <2>4 DEF TipInv
    <3>2. TipInv(hideTip(t))
      BY <3>1, <2>2, TipChanges DEF TipInv
    <3> QED BY <3>1, <3>2
  <2> QED BY <2>1, <2>3, <2>4, <1>1 DEF Tips
<1>7. CASE TipEnd
  <2>1. tip' = completeHide(tip)
    BY <1>7 DEF TipEnd
  <2>2. TipInv(completeHide(tip))
    BY <1>1, TipChanges DEF TipInv
  <2> QED BY <2>1, <2>2
<1> QED BY <1>4, <1>5, <1>6, <1>7 DEF TipNext

LEMMA OversKept ==
  ASSUME OversInv(overs), OversNext
  PROVE  OversInv(overs')
<1>1. overs \in [Clickovers -> Tips] /\ \A c \in Clickovers : overs[c] \in Tips /\ OverInv(overs[c])
  BY DEF OversInv
<1>2. ASSUME NEW t, OverInv(t)
      PROVE  /\ ~t.in => OverInv([showTip(t) EXCEPT !.open = TRUE])
             /\ [showTip(t) EXCEPT !.open = TRUE].open
             /\ OverInv([hideTip(t) EXCEPT !.open = FALSE])
             /\ ~[hideTip(t) EXCEPT !.open = FALSE].open
             /\ (t.ending => OverInv(completeHide(t))) /\ (completeHide(t).open <=> t.open)
  <2>1. t \in Tips
    BY <1>2 DEF OverInv
  <2> DEFINE s == showTip(t)
             h == hideTip(t)
             s1 == [s EXCEPT !.open = TRUE]
             h1 == [h EXCEPT !.open = FALSE]
  <2>2. /\ s \in Tips /\ s.in /\ s.there /\ s.faded /\ (s.again <=> t.ending) /\ (s.ending <=> t.ending)
        /\ s.hoverState = "none"
    BY <1>2, <2>1, TipChanges DEF OverInv
  <2>3. /\ h \in Tips /\ ~h.in /\ (h.faded <=> t.faded) /\ h.hoverState = "none"
        /\ IF t.faded THEN h.ending /\ (h.there <=> t.there) ELSE ~h.there
    BY <1>2, <2>1, TipChanges DEF OverInv
  <2> HIDE DEF s, h
  <2>4. /\ s1 \in Tips /\ s1.in /\ s1.there /\ s1.faded /\ (s1.again <=> t.ending) /\ (s1.ending <=> t.ending)
        /\ s1.hoverState = "none" /\ s1.open
    BY <2>2 DEF Tips
  <2>5. /\ h1 \in Tips /\ ~h1.in /\ (h1.faded <=> t.faded) /\ h1.hoverState = "none" /\ ~h1.open
        /\ IF t.faded THEN h1.ending /\ (h1.there <=> t.there) ELSE ~h1.there
    BY <2>3 DEF Tips
  <2> HIDE DEF s1, h1
  <2>6. OverInv(s1)
    BY <2>4 DEF OverInv
  <2>7. OverInv(h1)
    BY <2>5, <1>2 DEF OverInv
  <2>8. (t.ending => OverInv(completeHide(t))) /\ (completeHide(t).open <=> t.open)
    BY <1>2, <2>1, TipChanges DEF OverInv
  <2> QED BY <2>4, <2>5, <2>6, <2>7, <2>8, Zenon DEF s1, h1, s, h
<1>3. CASE ClickOver
  <2>1. PICK c \in Clickovers : overs' = clickery(overs, c)
    BY <1>3 DEF ClickOver
  <2> DEFINE shown(o) == [showTip(overs[o]) EXCEPT !.open = TRUE]
             hidden(o) == [hideTip(overs[o]) EXCEPT !.open = FALSE]
  <2>2. ASSUME NEW o \in Clickovers
        PROVE  /\ o = c /\ overs[c].in => overs'[o] = hidden(o)
               /\ o = c /\ ~overs[c].in => overs'[o] = shown(o)
               /\ o # c /\ ~overs[c].in /\ overs[o].open => overs'[o] = hidden(o)
               /\ o # c /\ ~(~overs[c].in /\ overs[o].open) => overs'[o] = overs[o]
    <3>1. overs'[o] = CASE o = c /\ overs[c].in -> [hideTip(overs[c]) EXCEPT !.open = FALSE]
                        [] o = c /\ ~overs[c].in -> [showTip(overs[c]) EXCEPT !.open = TRUE]
                        [] o # c /\ ~overs[c].in /\ overs[o].open -> [hideTip(overs[o]) EXCEPT !.open = FALSE]
                        [] OTHER -> overs[o]
      BY <2>1 DEF clickery
    <3>2. CASE o = c /\ overs[c].in
      <4>1. overs'[o] = hidden(c)
        BY <3>1, <3>2, Zenon
      <4> QED BY <4>1, <3>2, Zenon
    <3>3. CASE o = c /\ ~overs[c].in
      <4>1. overs'[o] = shown(c)
        BY <3>1, <3>3, Zenon
      <4> QED BY <4>1, <3>3, Zenon
    <3>4. CASE o # c /\ ~overs[c].in /\ overs[o].open
      BY <3>1, <3>4, Zenon
    <3>5. CASE o # c /\ ~(~overs[c].in /\ overs[o].open)
      BY <3>1, <3>5, Zenon
    <3> QED BY <3>2, <3>3, <3>4, <3>5
  <2>3. ASSUME NEW o \in Clickovers
        PROVE  /\ OverInv(hidden(o)) /\ ~hidden(o).open
               /\ (~overs[o].in => OverInv(shown(o))) /\ shown(o).open
    BY <1>1, <1>2
  <2> HIDE DEF shown, hidden
  <2>4. ASSUME NEW o \in Clickovers PROVE OverInv(overs'[o])
    <3>1. CASE o = c
      BY <3>1, <2>2, <2>3, <1>1
    <3>2. CASE o # c
      BY <3>2, <2>2, <2>3, <1>1
    <3> QED BY <3>1, <3>2
  <2>5. \A o \in Clickovers : o # c => ~overs'[o].open \/ (overs[c].in /\ overs'[o] = overs[o])
    BY <2>2, <2>3
  <2>6. overs[c].in => ~overs'[c].open /\ overs[c].open
    BY <2>2, <2>3, <1>1 DEF OverInv
  <2>7. \A o \in Clickovers : overs'[o].open => o = c
    BY <2>5, <2>6 DEF OversInv
  <2>8. overs' \in [Clickovers -> Tips]
    <3>1. DOMAIN overs' = Clickovers /\ overs' = [o \in Clickovers |-> overs'[o]]
      BY <2>1 DEF clickery
    <3>2. \A o \in Clickovers : overs'[o] \in Tips
      BY <2>4 DEF OverInv
    <3> QED BY <3>1, <3>2
  <2> QED BY <2>4, <2>7, <2>8 DEF OversInv
<1>4. CASE OverEnd
  <2>1. PICK c \in Clickovers : overs[c].ending /\ overs' = [overs EXCEPT ![c] = completeHide(overs[c])]
    BY <1>4 DEF OverEnd
  <2>2. OverInv(completeHide(overs[c])) /\ completeHide(overs[c]) \in Tips /\ (completeHide(overs[c]).open <=> overs[c].open)
    BY <2>1, <1>1, <1>2 DEF OverInv
  <2>3. /\ overs' \in [Clickovers -> Tips] /\ overs'[c] = completeHide(overs[c])
        /\ \A o \in Clickovers : o # c => overs'[o] = overs[o]
    BY <2>1, <2>2, <1>1
  <2>4. \A o \in Clickovers : OverInv(overs'[o]) /\ (overs'[o].open <=> overs[o].open)
    BY <2>2, <2>3, <1>1
  <2> QED BY <2>3, <2>4 DEF OversInv
<1> QED BY <1>3, <1>4 DEF OversNext

\* The first of the options that show.
LEMMA FirstShown ==
  ASSUME NEW S \in SUBSET Nat, S # {}
  PROVE  (CHOOSE o \in S : \A p \in S : o <= p) \in S
<1> DEFINE R == OpToRel(<, Nat)
<1>1. IsWellFoundedOn(R, Nat)
  BY NatLessThanWellFounded, Zenon
<1>2. \A x, y \in Nat : <<x, y>> \in R <=> x < y
  BY DEF OpToRel
<1> HIDE DEF R
<1>3. PICK o \in S : \A p \in S : <<p, o>> \notin R
  BY <1>1, WFMin
<1>4. ASSUME NEW p \in S PROVE o <= p
  <2>1. p \in Nat /\ o \in Nat /\ <<p, o>> \notin R
    BY <1>3
  <2>2. ~(p < o)
    BY <1>2, <2>1
  <2> QED BY <2>1, <2>2
<1> QED BY <1>4

\* groupSelect's change: what it wraps and unwraps is what the choice asks.
LEMMA Changed ==
  ASSUME NEW g, NEW sel \in AltChoices \cup {NoChoice},
         g.wrapped = DOMAIN Options \ g.show, g.show \subseteq DOMAIN Options, sel # NoChoice
  PROVE  GroupInv(change(g, sel))
<1> DEFINE away == {o \in DOMAIN Options : Alt[Options[o]] # sel} \ g.wrapped
           back == {o \in g.wrapped \cup away : Alt[Options[o]] = sel}
           show == Toggled(Toggled(g.show, away), back)
           mine == {o \in DOMAIN Options : Alt[Options[o]] = sel}
           wrapped == (g.wrapped \cup away) \ back
           value == IF show = {} THEN 0 ELSE CHOOSE o \in show : \A p \in show : o <= p
<1>1. change(g, sel) = [choice |-> sel, wrapped |-> wrapped, show |-> show, disabled |-> FALSE, value |-> value]
  BY DEF change
<1>2. show = mine
  BY DEF Toggled
<1>3. wrapped = DOMAIN Options \ mine
  OBVIOUS
<1>4. mine # {} /\ mine \in SUBSET Nat /\ mine \subseteq DOMAIN Options
  <2>1. DOMAIN Options = 1..Len(Options) /\ Len(Options) \in Nat
    BY WidgetsAssumption, LenProperties
  <2>2. PICK a \in DOMAIN Alt : sel = Alt[a]
    BY DEF AltChoices
  <2>3. PICK i \in DOMAIN Options : Alt[Options[i]] = Alt[a]
    BY <2>2, WidgetsAssumption
  <2>4. i \in mine
    BY <2>2, <2>3
  <2> QED BY <2>1, <2>4
<1> HIDE DEF mine, wrapped, show
<1>5. value \in show /\ value \in Nat
  <2>1. show \in SUBSET Nat /\ show # {}
    BY <1>2, <1>4
  <2>2. value = CHOOSE o \in show : \A p \in show : o <= p
    BY <2>1
  <2>3. (CHOOSE o \in show : \A p \in show : o <= p) \in show
    BY <2>1, FirstShown
  <2> QED BY <2>1, <2>2, <2>3, Zenon
<1> HIDE DEF value
<1> DEFINE n == change(g, sel)
<1>6. n.choice = sel /\ n.wrapped = wrapped /\ n.show = mine /\ n.value = value
      /\ n \in [choice : AltChoices \cup {NoChoice}, wrapped : SUBSET (DOMAIN Options), show : SUBSET (DOMAIN Options),
                disabled : BOOLEAN, value : Nat]
  BY <1>1, <1>2, <1>3, <1>4, <1>5
<1> HIDE DEF n
<1>7. GroupInv(n)
  BY <1>2, <1>3, <1>5, <1>6 DEF GroupInv, mine
<1> QED BY <1>7 DEF n

LEMMA GroupStart == GroupInit => GroupInv(group)
<1> SUFFICES ASSUME GroupInit PROVE GroupInv(group)
  OBVIOUS
<1>1. PICK c \in AltChoices \cup {NoChoice} :
        group = change([choice |-> c, wrapped |-> {}, show |-> DOMAIN Options, disabled |-> TRUE, value |-> 1], c)
  BY DEF GroupInit, AltChoices
<1> DEFINE g == [choice |-> c, wrapped |-> {}, show |-> DOMAIN Options, disabled |-> TRUE, value |-> 1]
<1>2. g.wrapped = DOMAIN Options \ g.show /\ g.show \subseteq DOMAIN Options
  OBVIOUS
<1>3. CASE c # NoChoice
  BY <1>1, <1>2, <1>3, Changed
<1>4. CASE c = NoChoice
  <2>1. group = [g EXCEPT !.choice = NoChoice]
    BY <1>1, <1>4 DEF change
  <2>2. /\ group.choice = NoChoice /\ group.wrapped = {} /\ group.show = DOMAIN Options
        /\ group \in [choice : AltChoices \cup {NoChoice}, wrapped : SUBSET (DOMAIN Options),
                      show : SUBSET (DOMAIN Options), disabled : BOOLEAN, value : Nat]
    BY <2>1
  <2> QED BY <2>2 DEF GroupInv
<1> QED BY <1>3, <1>4

LEMMA GroupKept ==
  ASSUME GroupInv(group), Choose
  PROVE  GroupInv(group')
<1>1. PICK sel \in AltChoices \cup {NoChoice} : group' = change(group, sel)
  BY DEF Choose, AltChoices
<1>2. CASE sel # NoChoice
  <2>1. group.wrapped = DOMAIN Options \ group.show /\ group.show \subseteq DOMAIN Options
    BY DEF GroupInv
  <2> QED BY <2>1, <1>1, <1>2, Changed
<1>3. CASE sel = NoChoice
  <2>1. group' = [group EXCEPT !.choice = NoChoice]
    BY <1>1, <1>3 DEF change
  <2> QED BY <2>1 DEF GroupInv
<1> QED BY <1>2, <1>3

LEMMA WidgetsStart ==
  ASSUME MenusInit, RadiosInit, SlidesInit, TipInit, OversInit, GroupInit
  PROVE  WidgetInv
<1>1. MenusInv(menus)
  <2>1. PICK b \in BOOLEAN : menus = [open |-> {}, backdrop |-> FALSE, touch |-> b]
    BY DEF MenusInit
  <2>2. menus \in [open : SUBSET Toggles, backdrop : BOOLEAN, touch : BOOLEAN] /\ menus.open = {} /\ ~menus.backdrop
    BY <2>1
  <2> QED BY <2>2 DEF MenusInv
<1>2. RadiosInv(radios)
  BY DEF RadiosInit, RadiosInv
<1>3. SlidesInv(slides)
  <2>1. PICK n \in 1..MaxItems, b \in BOOLEAN : slides = Carousel(n, b)
    BY DEF SlidesInit
  <2> QED BY <2>1, WidgetsAssumption DEF Carousel, SlidesInv, Slides
<1>4. \A b \in BOOLEAN : Tip(b) \in Tips /\ TipInv(Tip(b)) /\ OverInv(Tip(b)) /\ ~Tip(b).open
  BY DEF Tip, Tips, TipInv, OverInv
<1>5. TipInv(tip)
  BY <1>4 DEF TipInit
<1>6. OversInv(overs)
  <2>1. overs = [c \in Clickovers |-> Tip(FALSE)]
    BY DEF OversInit
  <2>2. Tip(FALSE) \in Tips /\ OverInv(Tip(FALSE)) /\ ~Tip(FALSE).open
    BY <1>4, Zenon
  <2> QED BY <2>1, <2>2 DEF OversInv
<1> QED BY <1>1, <1>2, <1>3, <1>5, <1>6, GroupStart DEF WidgetInv

LEMMA PartsOfWidgets ==
  ASSUME [Next]_vars
  PROVE  /\ MenusNext \/ UNCHANGED menus
         /\ ClickRadio \/ UNCHANGED radios
         /\ SlidesNext \/ UNCHANGED slides
         /\ TipNext \/ UNCHANGED tip
         /\ OversNext \/ UNCHANGED overs
         /\ Choose \/ UNCHANGED group
<1>1. CASE Widgets
  BY <1>1 DEF Widgets
<1>2. CASE UNCHANGED widgetVars
  BY <1>2 DEF widgetVars
<1> QED BY <1>1, <1>2 DEF Next, Visits, Links, Calls, vars

\* One menu, one disk and one clickover at a time; the carousel goes where there
\* is an item and waits for the mouse; a tip is there where the mouse is; and the
\* second list has the options of the choice: for any number of them.
THEOREM WidgetsAlwaysAgree == Spec => []WidgetsAgree
<1>1. Init => WidgetInv
  BY WidgetsStart DEF Init
<1>2. WidgetInv /\ [Next]_vars => WidgetInv'
  <2> SUFFICES ASSUME WidgetInv, [Next]_vars PROVE WidgetInv'
    OBVIOUS
  <2>1. MenusInv(menus') /\ RadiosInv(radios') /\ SlidesInv(slides')
    BY PartsOfWidgets, MenusKept, RadiosKept, SlidesKept DEF WidgetInv
  <2>2. TipInv(tip') /\ OversInv(overs') /\ GroupInv(group')
    BY PartsOfWidgets, TipKept, OversKept, GroupKept DEF WidgetInv
  <2> QED BY <2>1, <2>2 DEF WidgetInv
<1> QED BY <1>1, <1>2, WidgetsHold, PTL DEF Spec
-----------------------------------------------------------------------------
(* jQuery.ajax: the inductive invariant.                                       *)

Requests == [made : BOOLEAN, installed : BOOLEAN, state : 0..2, transport : BOOLEAN, callback : BOOLEAN]
Before   == {"beforeSend", "ajaxSend"}
After    == {"settled", "completed"}
Running  == [of : Xhrs, at : Before \cup After]
Outcomes == {"success", "error"}
Told     == {<<>>} \cup {<<o>> : o \in Outcomes} \cup {<<o, "complete">> : o \in Outcomes}

AjaxTypes ==
  /\ jqXHR \in [Xhrs -> Requests] /\ active \in Int /\ spinning \in BOOLEAN
  /\ running \in Seq(Running) /\ told \in [Xhrs -> Told]
  /\ lapses \in [left : SUBSET Xhrs, twice : SUBSET Xhrs]

\* A request that is done has no transport, and only one that is sent is listened for.
OneRequest(r) ==
  /\ ~r.made => r.state = 0 /\ ~r.installed
  /\ r.transport => r.state # 2
  /\ r.callback => r.state = 1
  /\ r.transport \/ r.state = 1 => r.installed

\* Handlers run for requests that were made, and each is sent by one at most.
SentOnce(q, rs) ==
  /\ \A i \in DOMAIN rs : q[rs[i].of].made /\ (rs[i].at \in Before => q[rs[i].of].state # 1)
  /\ \A i, j \in DOMAIN rs : rs[i].at \in Before /\ rs[j].at \in Before /\ rs[i].of = rs[j].of => i = j

\* The caller is told of the end when it comes, and that it is complete by the
\* handlers still running, unless one of them fails.
TellsCaller(q, rs, td, gone) ==
  \A x \in Xhrs :
    /\ q[x].state # 2 \/ ~q[x].installed => td[x] = <<>>
    /\ q[x].state = 2 /\ q[x].installed => td[x] # <<>>
    /\ x \notin gone /\ Len(td[x]) = 1 => \E i \in DOMAIN rs : rs[i].of = x /\ rs[i].at = "settled"

UnderWay(q) == {x \in Xhrs : q[x].made /\ q[x].state # 2}
Ending(rs)   == {i \in DOMAIN rs : rs[i].at \in After}

\* A request counts until its completion has been heard.
Counts(q, rs, n, spins, lost) ==
  lost.left = {} /\ lost.twice = {} =>
    /\ n = Cardinality(UnderWay(q)) + Cardinality(Ending(rs))
    /\ spins <=> n # 0

AjaxInv ==
  /\ AjaxTypes /\ \A x \in Xhrs : OneRequest(jqXHR[x])
  /\ SentOnce(jqXHR, running) /\ TellsCaller(jqXHR, running, told, lapses.left)
  /\ Counts(jqXHR, running, active, spinning, lapses)

LEMMA AjaxHolds == AjaxInv => RequestsEnd
<1> SUFFICES ASSUME AjaxInv PROVE RequestsEnd
  OBVIOUS
<1> DEFINE way == {x \in Xhrs : jqXHR[x].made /\ jqXHR[x].state # 2}
<1>1. way = UnderWay(jqXHR) /\ told \in [Xhrs -> Told]
  BY DEF UnderWay, AjaxInv, AjaxTypes
<1>2. \A x \in Xhrs : told[x] = <<>> \/ told[x] \in {<<o>> : o \in {"success", "error"}}
                                              \cup {<<o, "complete">> : o \in {"success", "error"}}
  BY <1>1 DEF Told, Outcomes
<1>3. ASSUME running = <<>>, NEW x \in Xhrs \ lapses.left, jqXHR[x].installed, jqXHR[x].state = 2
      PROVE  Len(told[x]) = 2
  <2>1. told[x] # <<>> /\ Len(told[x]) # 1
    BY <1>3 DEF AjaxInv, TellsCaller
  <2>2. told[x] \in Told
    BY <1>1
  <2> QED BY <2>1, <2>2 DEF Told
<1>4. ASSUME running = <<>>, lapses.left = {}, lapses.twice = {}
      PROVE  active = Cardinality(way) /\ spinning = (way # {})
  <2>1. Ending(running) = {}
    BY <1>4 DEF Ending
  <2>2. IsFiniteSet(way)
    BY AjaxAssumption, FS_Subset
  <2>3. Cardinality(way) \in Nat /\ (Cardinality(way) = 0 <=> way = {})
    BY <2>2, FS_CardinalityType, FS_EmptySet
  <2>4. active = Cardinality(way) + 0 /\ (spinning <=> active # 0)
    BY <1>1, <1>4, <2>1, FS_EmptySet DEF AjaxInv, Counts
  <2>5. spinning \in BOOLEAN
    BY DEF AjaxInv, AjaxTypes
  <2> HIDE DEF way
  <2>6. spinning <=> way # {}
    BY <2>3, <2>4
  <2>7. spinning = (way # {})
    BY <2>5, <2>6, Zenon
  <2> QED BY <2>3, <2>4, <2>7
<1> QED BY <1>2, <1>3, <1>4 DEF RequestsEnd

\* The handlers running, with another and without the last.
LEMMA PutOn ==
  ASSUME NEW rs \in Seq(Running), NEW e \in Running, IsFiniteSet(Ending(rs))
  PROVE  /\ Append(rs, e) \in Seq(Running) /\ Append(rs, e) # <<>> /\ Len(rs) \in Nat
         /\ Len(Append(rs, e)) = Len(rs) + 1
         /\ DOMAIN Append(rs, e) = DOMAIN rs \cup {Len(rs) + 1} /\ Len(rs) + 1 \notin DOMAIN rs
         /\ Append(rs, e)[Len(rs) + 1] = e
         /\ \A i \in DOMAIN rs : Append(rs, e)[i] = rs[i]
         /\ IsFiniteSet(Ending(Append(rs, e)))
         /\ Cardinality(Ending(Append(rs, e))) = Cardinality(Ending(rs)) + (IF e.at \in After THEN 1 ELSE 0)
<1> DEFINE t == Append(rs, e)
           n == Len(rs) + 1
<1>1. /\ t \in Seq(Running) /\ t # <<>> /\ Len(t) = Len(rs) + 1 /\ Len(rs) \in Nat
      /\ \A i \in 1..Len(rs) : t[i] = rs[i]
      /\ t[n] = e /\ DOMAIN rs = 1..Len(rs)
  BY AppendProperties, LenProperties
<1> HIDE DEF t
<1>2. DOMAIN t = DOMAIN rs \cup {n} /\ n \notin DOMAIN rs
  <2>1. DOMAIN t = 1..Len(t)
    BY <1>1, LenProperties
  <2> QED BY <1>1, <2>1
<1>3. Cardinality(Ending(rs)) \in Nat
  BY FS_CardinalityType
<1>4. CASE e.at \in After
  <2>1. Ending(t) = Ending(rs) \cup {n} /\ n \notin Ending(rs)
    BY <1>1, <1>2, <1>4 DEF Ending
  <2> QED BY <1>1, <1>2, <1>4, <2>1, FS_AddElement DEF t
<1>5. CASE e.at \notin After
  <2>1. Ending(t) = Ending(rs)
    BY <1>1, <1>2, <1>5 DEF Ending
  <2> QED BY <1>1, <1>2, <1>3, <1>5, <2>1 DEF t
<1> QED BY <1>4, <1>5

LEMMA TakenOff ==
  ASSUME NEW rs \in Seq(Running), rs # <<>>, IsFiniteSet(Ending(rs)),
         NEW out, out = SubSeq(rs, 1, Len(rs) - 1)
  PROVE  /\ out \in Seq(Running) /\ Last(rs) \in Running /\ Len(rs) \in DOMAIN rs /\ Last(rs) = rs[Len(rs)]
         /\ \A i \in DOMAIN out : i \in DOMAIN rs /\ i # Len(rs) /\ out[i] = rs[i]
         /\ \A i \in DOMAIN rs : i = Len(rs) \/ i \in DOMAIN out
         /\ IsFiniteSet(Ending(out))
         /\ Cardinality(Ending(rs)) = Cardinality(Ending(out)) + (IF Last(rs).at \in After THEN 1 ELSE 0)
<1> DEFINE n == Len(rs)
<1>1. n \in Nat \ {0} /\ DOMAIN rs = 1..n /\ \A i \in 1..n : rs[i] \in Running
  BY LenProperties, EmptySeq, ElementOfSeq
<1>2. /\ out \in Seq(Running) /\ Len(out) = n - 1
      /\ \A i \in 1..(n - 1) : out[i] = rs[i]
  <2>1. \A i \in 1..(n - 1) : rs[i] \in Running
    BY <1>1
  <2>2. n - 1 \in Int /\ 1 \in Int
    BY <1>1
  <2> QED BY <1>1, <2>1, <2>2, SubSeqProperties
<1>3. DOMAIN out = 1..(n - 1)
  BY <1>2, LenProperties
<1>4. Last(rs) = rs[n] /\ rs[n] \in Running
  BY <1>1 DEF Last
<1>5. Ending(out) = Ending(rs) \ {n}
  BY <1>1, <1>2, <1>3 DEF Ending
<1>6. IsFiniteSet(Ending(out))
      /\ Cardinality(Ending(out)) = IF n \in Ending(rs) THEN Cardinality(Ending(rs)) - 1 ELSE Cardinality(Ending(rs))
  BY <1>5, FS_RemoveElement
<1>7. n \in Ending(rs) <=> Last(rs).at \in After
  BY <1>1, <1>4 DEF Ending
<1>8. Cardinality(Ending(rs)) \in Nat
  BY FS_CardinalityType
<1> QED BY <1>1, <1>2, <1>3, <1>4, <1>6, <1>7, <1>8

\* One request changes.
LEMMA WayChanges ==
  ASSUME NEW q, NEW p, NEW x \in Xhrs, \A y \in Xhrs : y # x => p[y] = q[y]
  PROVE  /\ IsFiniteSet(UnderWay(q)) /\ Cardinality(UnderWay(q)) \in Nat /\ Cardinality(UnderWay(p)) \in Nat
         /\ Cardinality(UnderWay(p)) + (IF x \in UnderWay(q) THEN 1 ELSE 0)
              = Cardinality(UnderWay(q)) + (IF x \in UnderWay(p) THEN 1 ELSE 0)
<1>1. IsFiniteSet(UnderWay(q)) /\ IsFiniteSet(UnderWay(p))
  BY AjaxAssumption, FS_Subset DEF UnderWay
<1>2. Cardinality(UnderWay(q)) \in Nat /\ Cardinality(UnderWay(p)) \in Nat
  BY <1>1, FS_CardinalityType
<1>3. UnderWay(q) \ {x} = UnderWay(p) \ {x}
  BY DEF UnderWay
<1>4. /\ Cardinality(UnderWay(q) \ {x}) = IF x \in UnderWay(q) THEN Cardinality(UnderWay(q)) - 1 ELSE Cardinality(UnderWay(q))
      /\ Cardinality(UnderWay(p) \ {x}) = IF x \in UnderWay(p) THEN Cardinality(UnderWay(p)) - 1 ELSE Cardinality(UnderWay(p))
  BY <1>1, FS_RemoveElement
<1> QED BY <1>1, <1>2, <1>3, <1>4

\* Handlers put on and taken off keep each request sent once.
LEMMA SentStays ==
  ASSUME NEW q, NEW rs \in Seq(Running), IsFiniteSet(Ending(rs)), SentOnce(q, rs)
  PROVE  /\ \A e \in Running :
              q[e.of].made /\ (e.at \in Before => /\ q[e.of].state # 1
                                                 /\ \A i \in DOMAIN rs : ~(rs[i].at \in Before /\ rs[i].of = e.of))
                => SentOnce(q, Append(rs, e))
         /\ rs # <<>> => SentOnce(q, SubSeq(rs, 1, Len(rs) - 1))
<1>1. ASSUME NEW e \in Running, q[e.of].made,
             e.at \in Before => /\ q[e.of].state # 1
                                /\ \A i \in DOMAIN rs : ~(rs[i].at \in Before /\ rs[i].of = e.of)
      PROVE  SentOnce(q, Append(rs, e))
  <2> DEFINE t == Append(rs, e)
             n == Len(rs) + 1
  <2>1. DOMAIN t = DOMAIN rs \cup {n} /\ t[n] = e /\ \A i \in DOMAIN rs : t[i] = rs[i]
    BY PutOn
  <2> HIDE DEF t, n
  <2>2. SentOnce(q, t)
    BY <2>1, <1>1 DEF SentOnce
  <2> QED BY <2>2 DEF t
<1>2. ASSUME rs # <<>> PROVE SentOnce(q, SubSeq(rs, 1, Len(rs) - 1))
  <2> DEFINE out == SubSeq(rs, 1, Len(rs) - 1)
  <2>1. \A i \in DOMAIN out : i \in DOMAIN rs /\ out[i] = rs[i]
    BY <1>2, TakenOff
  <2> HIDE DEF out
  <2>2. SentOnce(q, out)
    BY <2>1 DEF SentOnce
  <2> QED BY <2>2 DEF out
<1> QED BY <1>1, <1>2

\* They keep what the caller is told, as long as what has settled is completed.
LEMMA TellsStays ==
  ASSUME NEW q, NEW rs \in Seq(Running), NEW td, NEW gone, IsFiniteSet(Ending(rs)), TellsCaller(q, rs, td, gone)
  PROVE  /\ \A e \in Running : TellsCaller(q, Append(rs, e), td, gone)
         /\ rs # <<>> /\ (Last(rs).at = "settled" => Len(td[Last(rs).of]) # 1)
              => TellsCaller(q, SubSeq(rs, 1, Len(rs) - 1), td, gone)
<1>1. ASSUME NEW e \in Running PROVE TellsCaller(q, Append(rs, e), td, gone)
  <2> DEFINE t == Append(rs, e)
  <2>1. \A i \in DOMAIN rs : i \in DOMAIN t /\ t[i] = rs[i]
    BY PutOn
  <2> HIDE DEF t
  <2>2. TellsCaller(q, t, td, gone)
    BY <2>1 DEF TellsCaller
  <2> QED BY <2>2 DEF t
<1>2. ASSUME rs # <<>>, Last(rs).at = "settled" => Len(td[Last(rs).of]) # 1
      PROVE  TellsCaller(q, SubSeq(rs, 1, Len(rs) - 1), td, gone)
  <2> DEFINE out == SubSeq(rs, 1, Len(rs) - 1)
  <2>1. out = SubSeq(rs, 1, Len(rs) - 1)
    OBVIOUS
  <2> HIDE DEF out
  <2>2. /\ \A i \in DOMAIN out : i \in DOMAIN rs /\ out[i] = rs[i]
        /\ \A i \in DOMAIN rs : i = Len(rs) \/ i \in DOMAIN out
        /\ Last(rs) = rs[Len(rs)]
    BY <1>2, <2>1, TakenOff
  <2>3. TellsCaller(q, out, td, gone)
    BY <2>2, <1>2 DEF TellsCaller
  <2> QED BY <2>1, <2>3
<1> QED BY <1>1, <1>2

-----------------------------------------------------------------------------
(* The steps of a request.  x is the request of the handler that runs.         *)

\* What holds of the handler that runs: its request, and the others without it.
LEMMA RunningHandler ==
  ASSUME AjaxInv, running # <<>>
  PROVE  /\ Handler \in Running /\ Handler.of \in Xhrs /\ Outer \in Seq(Running)
         /\ jqXHR[Handler.of].made
         /\ IsFiniteSet(Ending(running)) /\ IsFiniteSet(Ending(Outer))
         /\ SentOnce(jqXHR, Outer)
         /\ Handler.at # "settled" => TellsCaller(jqXHR, Outer, told, lapses.left)
         /\ Handler.at \in Before => /\ jqXHR[Handler.of].state # 1
                                     /\ \A i \in DOMAIN Outer : ~(Outer[i].at \in Before /\ Outer[i].of = Handler.of)
         /\ Cardinality(Ending(running)) = Cardinality(Ending(Outer)) + (IF Handler.at \in After THEN 1 ELSE 0)
         /\ Cardinality(Ending(Outer)) \in Nat
<1>1. running \in Seq(Running)
  BY DEF AjaxInv, AjaxTypes
<1>2. IsFiniteSet(Ending(running))
  <2>1. DOMAIN running = 1..Len(running) /\ Len(running) \in Nat
    BY <1>1, LenProperties
  <2>2. Ending(running) \in SUBSET (1..Len(running))
    BY <2>1 DEF Ending
  <2>3. IsFiniteSet(1..Len(running))
    BY <2>1, FS_Interval
  <2> QED BY <2>2, <2>3, FS_Subset
<1> DEFINE out == Outer
           h == Handler
<1>3. out = SubSeq(running, 1, Len(running) - 1) /\ h = Last(running)
  BY DEF Outer, Handler
<1> HIDE DEF out, h
<1>4. /\ out \in Seq(Running) /\ h \in Running /\ Len(running) \in DOMAIN running /\ h = running[Len(running)]
      /\ \A i \in DOMAIN out : i \in DOMAIN running /\ i # Len(running) /\ out[i] = running[i]
      /\ IsFiniteSet(Ending(out))
      /\ Cardinality(Ending(running)) = Cardinality(Ending(out)) + (IF h.at \in After THEN 1 ELSE 0)
  <2>1. /\ out \in Seq(Running) /\ Last(running) \in Running /\ Len(running) \in DOMAIN running
        /\ Last(running) = running[Len(running)]
        /\ \A i \in DOMAIN out : i \in DOMAIN running /\ i # Len(running) /\ out[i] = running[i]
        /\ IsFiniteSet(Ending(out))
        /\ Cardinality(Ending(running)) = Cardinality(Ending(out)) + (IF Last(running).at \in After THEN 1 ELSE 0)
    <3> DEFINE rs == running
    <3>1. rs \in Seq(Running) /\ rs # <<>> /\ IsFiniteSet(Ending(rs)) /\ out = SubSeq(rs, 1, Len(rs) - 1)
      BY <1>1, <1>2, <1>3
    <3> HIDE DEF rs
    <3>2. out \in Seq(Running) /\ Last(rs) \in Running /\ Len(rs) \in DOMAIN rs /\ Last(rs) = rs[Len(rs)]
      BY <3>1, TakenOff
    <3>3. \A i \in DOMAIN out : i \in DOMAIN rs /\ i # Len(rs) /\ out[i] = rs[i]
      BY <3>1, TakenOff
    <3>4. /\ IsFiniteSet(Ending(out))
          /\ Cardinality(Ending(rs)) = Cardinality(Ending(out)) + (IF Last(rs).at \in After THEN 1 ELSE 0)
      BY <3>1, TakenOff
    <3> QED BY <3>2, <3>3, <3>4 DEF rs
  <2> QED BY <2>1, <1>3
<1>5. SentOnce(jqXHR, running) /\ TellsCaller(jqXHR, running, told, lapses.left)
  BY DEF AjaxInv
<1>6. SentOnce(jqXHR, out)
  BY <1>1, <1>2, <1>3, <1>5, SentStays
<1>7. h.at # "settled" => TellsCaller(jqXHR, out, told, lapses.left)
  BY <1>1, <1>2, <1>3, <1>5, TellsStays
<1>8. h.of \in Xhrs /\ jqXHR[h.of].made
  BY <1>4, <1>5 DEF SentOnce, Running
<1>9. h.at \in Before => /\ jqXHR[h.of].state # 1
                         /\ \A i \in DOMAIN out : ~(out[i].at \in Before /\ out[i].of = h.of)
  BY <1>4, <1>5 DEF SentOnce
<1>10. Cardinality(Ending(out)) \in Nat
  BY <1>4, FS_CardinalityType
<1> QED BY <1>2, <1>4, <1>6, <1>7, <1>8, <1>9, <1>10 DEF out, h

\* A request that is done: its caller's own are called, and it has settled.
LEMMA Settles ==
  ASSUME AjaxInv, NEW x \in Xhrs, jqXHR[x].made, jqXHR[x].state # 2,
         NEW rs \in Seq(Running), IsFiniteSet(Ending(rs)), SentOnce(jqXHR, rs),
         TellsCaller(jqXHR, rs, told, lapses.left),
         jqXHR' \in [Xhrs -> Requests], \A y \in Xhrs : y # x => jqXHR'[y] = jqXHR[y],
         jqXHR'[x].state = 2, jqXHR'[x].made, jqXHR'[x].installed <=> jqXHR[x].installed, ~jqXHR'[x].transport,
         ~jqXHR'[x].callback,
         told' \in [Xhrs -> Told], \A y \in Xhrs : y # x => told'[y] = told[y],
         told'[x] # <<>> <=> jqXHR[x].installed,
         running' = Append(rs, In(x, "settled")), UNCHANGED <<active, spinning, lapses>>,
         Cardinality(Ending(rs)) = Cardinality(Ending(running))
  PROVE  AjaxInv'
<1>1. AjaxTypes
  BY DEF AjaxInv
<1> DEFINE e == In(x, "settled")
<1>2. e \in Running /\ e.of = x /\ e.at = "settled" /\ e.at \in After /\ e.at \notin Before
  BY DEF In, Running, Before, After
<1> HIDE DEF e
<1>3. /\ running' \in Seq(Running) /\ DOMAIN running' = DOMAIN rs \cup {Len(rs) + 1} /\ running'[Len(rs) + 1] = e
      /\ \A i \in DOMAIN rs : running'[i] = rs[i]
      /\ Cardinality(Ending(running')) = Cardinality(Ending(rs)) + 1
  BY <1>2, PutOn DEF e
<1>4. AjaxTypes'
  BY <1>1, <1>3 DEF AjaxTypes
<1>5. \A y \in Xhrs : OneRequest(jqXHR'[y])
  <2>1. \A y \in Xhrs : OneRequest(jqXHR[y])
    BY DEF AjaxInv
  <2>2. OneRequest(jqXHR'[x])
    BY DEF OneRequest
  <2> QED BY <2>1, <2>2
<1>6. SentOnce(jqXHR', running')
  <2>1. \A y \in Xhrs : (jqXHR[y].made => jqXHR'[y].made) /\ (jqXHR[y].state # 1 => jqXHR'[y].state # 1)
    OBVIOUS
  <2>2. \A i \in DOMAIN rs : rs[i].of \in Xhrs
    <3>1. \A i \in DOMAIN rs : rs[i] \in Running
      BY ElementOfSeq, LenProperties
    <3> QED BY <3>1 DEF Running
  <2> QED BY <2>1, <2>2, <1>2, <1>3 DEF SentOnce
<1>7. TellsCaller(jqXHR', running', told', lapses.left)
  <2> SUFFICES ASSUME NEW y \in Xhrs
               PROVE  /\ jqXHR'[y].state # 2 \/ ~jqXHR'[y].installed => told'[y] = <<>>
                      /\ jqXHR'[y].state = 2 /\ jqXHR'[y].installed => told'[y] # <<>>
                      /\ y \notin lapses.left /\ Len(told'[y]) = 1
                           => \E i \in DOMAIN running' : running'[i].of = y /\ running'[i].at = "settled"
    BY DEF TellsCaller
  <2>1. CASE y = x
    BY <2>1, <1>2, <1>3
  <2>2. CASE y # x
    <3>1. /\ jqXHR[y].state # 2 \/ ~jqXHR[y].installed => told[y] = <<>>
          /\ jqXHR[y].state = 2 /\ jqXHR[y].installed => told[y] # <<>>
          /\ y \notin lapses.left /\ Len(told[y]) = 1 => \E i \in DOMAIN rs : rs[i].of = y /\ rs[i].at = "settled"
      BY DEF TellsCaller
    <3> QED BY <3>1, <2>2, <1>3
  <2> QED BY <2>1, <2>2
<1>8. Counts(jqXHR', running', active', spinning', lapses)
  <2>1. x \in UnderWay(jqXHR) /\ x \notin UnderWay(jqXHR')
    BY DEF UnderWay
  <2>2. /\ Cardinality(UnderWay(jqXHR)) \in Nat /\ Cardinality(UnderWay(jqXHR')) \in Nat
        /\ Cardinality(UnderWay(jqXHR')) + 1 = Cardinality(UnderWay(jqXHR))
    <3> DEFINE q == jqXHR
               p == jqXHR'
    <3>1. x \in UnderWay(q) /\ x \notin UnderWay(p) /\ \A y \in Xhrs : y # x => p[y] = q[y]
      BY <2>1
    <3> HIDE DEF q, p
    <3>2. /\ Cardinality(UnderWay(q)) \in Nat /\ Cardinality(UnderWay(p)) \in Nat
          /\ Cardinality(UnderWay(p)) + 1 = Cardinality(UnderWay(q))
      BY <3>1, WayChanges
    <3> QED BY <3>2 DEF q, p
  <2>3. Counts(jqXHR, running, active, spinning, lapses) /\ Cardinality(Ending(rs)) \in Nat
    BY FS_CardinalityType DEF AjaxInv
  <2> QED BY <2>2, <2>3, <1>3 DEF Counts
<1> QED BY <1>4, <1>5, <1>6, <1>7, <1>8 DEF AjaxInv

LEMMA AjaxStart == AjaxInit => AjaxInv
<1> SUFFICES ASSUME AjaxInit PROVE AjaxInv
  OBVIOUS
<1> DEFINE none == [made |-> FALSE, installed |-> FALSE, state |-> 0, transport |-> FALSE, callback |-> FALSE]
<1>1. /\ jqXHR = [r \in Xhrs |-> none] /\ active = 0 /\ spinning = FALSE /\ running = <<>>
      /\ told = [r \in Xhrs |-> <<>>] /\ lapses = [left |-> {}, twice |-> {}]
  BY DEF AjaxInit
<1>2. none \in Requests /\ ~none.made /\ none.state = 0 /\ ~none.installed /\ ~none.transport /\ ~none.callback
  BY DEF Requests
<1> HIDE DEF none
<1>3. AjaxTypes
  <2>1. <<>> \in Told
    BY DEF Told
  <2>2. <<>> \in Seq(Running)
    BY EmptySeq
  <2>3. jqXHR \in [Xhrs -> Requests] /\ told \in [Xhrs -> Told]
    BY <1>1, <1>2, <2>1
  <2>4. active \in Int /\ spinning \in BOOLEAN
    <3>1. active \in Int
      BY <1>1
    <3>2. spinning \in BOOLEAN
      BY <1>1, Zenon
    <3> QED BY <3>1, <3>2
  <2>5. lapses \in [left : SUBSET Xhrs, twice : SUBSET Xhrs]
    BY <1>1, Zenon
  <2> QED BY <1>1, <2>2, <2>3, <2>4, <2>5 DEF AjaxTypes
<1>4. \A x \in Xhrs : OneRequest(jqXHR[x])
  BY <1>1, <1>2 DEF OneRequest
<1>5. SentOnce(jqXHR, running) /\ Ending(running) = {}
  BY <1>1 DEF SentOnce, Ending
<1>6. TellsCaller(jqXHR, running, told, lapses.left)
  <2>1. Len(<<>>) = 0
    BY EmptySeq
  <2> QED BY <1>1, <1>2, <2>1 DEF TellsCaller
<1>7. UnderWay(jqXHR) = {}
  BY <1>1, <1>2 DEF UnderWay
<1>8. Counts(jqXHR, running, active, spinning, lapses)
  <2>1. Cardinality({}) = 0
    BY FS_EmptySet
  <2>2. active = 0 /\ ~spinning
    BY <1>1
  <2> QED BY <1>5, <1>7, <2>1, <2>2 DEF Counts
<1> QED BY <1>3, <1>4, <1>5, <1>6, <1>8 DEF AjaxInv

\* The handler before the sending ends the request, unless it is done.
LEMMA DoneKeeps ==
  ASSUME AjaxInv, running # <<>>, Handler.at \in Before, NEW outcome \in Outcomes,
         done(Handler.of, outcome, Outer), UNCHANGED <<active, spinning, lapses>>
  PROVE  AjaxInv'
<1> DEFINE x == Handler.of
           out == Outer
<1>1. /\ x \in Xhrs /\ out \in Seq(Running) /\ jqXHR[x].made /\ IsFiniteSet(Ending(out)) /\ SentOnce(jqXHR, out)
      /\ TellsCaller(jqXHR, out, told, lapses.left) /\ jqXHR[x].state # 1
      /\ Cardinality(Ending(running)) = Cardinality(Ending(out)) /\ Cardinality(Ending(out)) \in Nat
  <2>1. Handler.at # "settled" /\ Handler.at \notin After
    BY DEF Before, After
  <2> QED BY <2>1, RunningHandler
<1>2. AjaxTypes /\ jqXHR \in [Xhrs -> Requests] /\ told \in [Xhrs -> Told] /\ OneRequest(jqXHR[x])
  BY <1>1 DEF AjaxInv, AjaxTypes
<1>3. IF jqXHR[x].state = 2 THEN running' = out /\ UNCHANGED <<jqXHR, told>>
      ELSE /\ jqXHR' = [jqXHR EXCEPT ![x].state = 2, ![x].transport = FALSE]
           /\ told' = IF jqXHR[x].installed /\ told[x] = <<>> THEN [told EXCEPT ![x] = <<outcome>>] ELSE told
           /\ running' = Append(out, In(x, "settled"))
  BY DEF done
<1> HIDE DEF x, out
<1>4. CASE jqXHR[x].state = 2
  <2>1. running' = out /\ jqXHR' = jqXHR /\ told' = told
    BY <1>3, <1>4
  <2>2. AjaxTypes'
    BY <1>1, <1>2, <2>1 DEF AjaxTypes
  <2>3. Counts(jqXHR, out, active, spinning, lapses)
    BY <1>1 DEF AjaxInv, Counts
  <2> QED BY <1>1, <2>1, <2>2, <2>3 DEF AjaxInv
<1>5. CASE jqXHR[x].state # 2
  <2> DEFINE o == jqXHR[x]
             r == [o EXCEPT !.state = 2, !.transport = FALSE]
  <2>1. /\ jqXHR' = [jqXHR EXCEPT ![x].state = 2, ![x].transport = FALSE]
        /\ told' = IF jqXHR[x].installed /\ told[x] = <<>> THEN [told EXCEPT ![x] = <<outcome>>] ELSE told
        /\ running' = Append(out, In(x, "settled"))
    BY <1>3, <1>5
  <2>2. jqXHR' = [jqXHR EXCEPT ![x] = r]
    BY <2>1, <1>1, <1>2
  <2>3. o \in Requests
    BY <1>1, <1>2
  <2> HIDE DEF o
  <2>4. /\ r \in Requests /\ r.state = 2 /\ (r.made <=> o.made) /\ (r.installed <=> o.installed)
        /\ ~r.transport /\ (r.callback <=> o.callback)
    <3>1. r.state = 2 /\ ~r.transport
      BY <2>3 DEF Requests
    <3>2. (r.made <=> o.made) /\ (r.installed <=> o.installed) /\ (r.callback <=> o.callback)
      BY <2>3 DEF Requests
    <3>3. r \in Requests
      <4> DEFINE s == [o EXCEPT !.state = 2]
      <4>1. s \in Requests
        BY <2>3 DEF Requests
      <4>2. r = [s EXCEPT !.transport = FALSE]
        OBVIOUS
      <4> HIDE DEF r, s
      <4> QED BY <4>1, <4>2 DEF Requests
    <3> QED BY <3>1, <3>2, <3>3
  <2> HIDE DEF r
  <2> USE DEF o
  <2>5. /\ jqXHR' \in [Xhrs -> Requests] /\ jqXHR'[x] = r /\ \A y \in Xhrs : y # x => jqXHR'[y] = jqXHR[y]
    BY <2>2, <2>4, <1>1, <1>2
  <2>6. ~jqXHR[x].callback
    BY <1>1, <1>2 DEF OneRequest
  <2>7. <<outcome>> \in Told /\ <<outcome>> # <<>>
    BY DEF Told
  <2>8. told' \in [Xhrs -> Told] /\ \A y \in Xhrs : y # x => told'[y] = told[y]
    BY <2>1, <2>7, <1>1, <1>2
  <2>9. told'[x] # <<>> <=> jqXHR[x].installed
    <3>1. ~jqXHR[x].installed => told[x] = <<>>
      BY <1>1 DEF TellsCaller
    <3> QED BY <3>1, <2>1, <2>7, <1>1, <1>2
  <2> QED BY <1>1, <1>5, <2>1, <2>4, <2>5, <2>6, <2>8, <2>9, Settles
<1> QED BY <1>4, <1>5

LEMMA AjaxKeeps ==
  ASSUME AjaxInv, ajax
  PROVE  AjaxInv'
<1>1. PICK x \in {y \in Xhrs : ~jqXHR[y].made} :
        /\ jqXHR' = [jqXHR EXCEPT ![x].made = TRUE]
        /\ running' = Append(running, In(x, "beforeSend"))
  BY DEF ajax
<1>2. active' = active + 1 /\ spinning' = (spinning \/ active = 0) /\ UNCHANGED <<told, lapses>>
  BY DEF ajax
<1>3. x \in Xhrs /\ ~jqXHR[x].made
  OBVIOUS
<1>4. /\ AjaxTypes /\ jqXHR \in [Xhrs -> Requests] /\ jqXHR[x] \in Requests /\ running \in Seq(Running)
      /\ \A y \in Xhrs : OneRequest(jqXHR[y])
      /\ SentOnce(jqXHR, running) /\ TellsCaller(jqXHR, running, told, lapses.left)
  BY <1>3 DEF AjaxInv, AjaxTypes
<1> DEFINE r == [jqXHR[x] EXCEPT !.made = TRUE]
<1>5. /\ r \in Requests /\ r.made /\ r.state = 0 /\ r.installed = jqXHR[x].installed /\ r.transport = jqXHR[x].transport
      /\ r.callback = jqXHR[x].callback /\ jqXHR[x].state = 0 /\ ~jqXHR[x].installed
  BY <1>3, <1>4 DEF Requests, OneRequest
<1>6. /\ jqXHR' \in [Xhrs -> Requests] /\ jqXHR'[x] = r /\ \A y \in Xhrs : y # x => jqXHR'[y] = jqXHR[y]
  BY <1>1, <1>3, <1>4, <1>5
<1> HIDE DEF r
<1> DEFINE e == In(x, "beforeSend")
<1>7. e \in Running /\ e.of = x /\ e.at = "beforeSend" /\ e.at \notin After
  BY <1>3 DEF In, Running, Before, After
<1> HIDE DEF e
<1>8. IsFiniteSet(Ending(running)) /\ Cardinality(Ending(running)) \in Nat
  <2>1. DOMAIN running = 1..Len(running) /\ Len(running) \in Nat
    BY <1>4, LenProperties
  <2>2. Ending(running) \in SUBSET (1..Len(running))
    BY <2>1 DEF Ending
  <2>3. IsFiniteSet(1..Len(running))
    BY <2>1, FS_Interval
  <2> QED BY <2>2, <2>3, FS_Subset, FS_CardinalityType
<1>9. /\ running' \in Seq(Running) /\ DOMAIN running' = DOMAIN running \cup {Len(running) + 1}
      /\ running'[Len(running) + 1] = e /\ \A i \in DOMAIN running : running'[i] = running[i]
      /\ Cardinality(Ending(running')) = Cardinality(Ending(running))
  <2> DEFINE rs == running
  <2>1. running' = Append(rs, e) /\ rs \in Seq(Running) /\ IsFiniteSet(Ending(rs)) /\ Cardinality(Ending(rs)) \in Nat
    BY <1>1, <1>4, <1>8 DEF e
  <2> HIDE DEF rs
  <2>2. /\ running' \in Seq(Running) /\ DOMAIN running' = DOMAIN rs \cup {Len(rs) + 1}
        /\ running'[Len(rs) + 1] = e /\ \A i \in DOMAIN rs : running'[i] = rs[i]
    BY <2>1, <1>7, PutOn
  <2>3. Cardinality(Ending(running')) = Cardinality(Ending(rs))
    BY <2>1, <1>7, PutOn
  <2> QED BY <2>2, <2>3 DEF rs
<1>10. AjaxTypes'
  <2>1. active' \in Int /\ spinning' \in BOOLEAN
    BY <1>2, <1>4 DEF AjaxTypes
  <2> QED BY <2>1, <1>2, <1>4, <1>6, <1>9 DEF AjaxTypes
<1>11. \A y \in Xhrs : OneRequest(jqXHR'[y])
  <2>1. OneRequest(r)
    BY <1>3, <1>4, <1>5 DEF OneRequest
  <2> QED BY <2>1, <1>4, <1>6
<1>12. \A i \in DOMAIN running : running[i].of \in Xhrs /\ running[i].of # x
  <2>1. \A i \in DOMAIN running : running[i] \in Running
    BY <1>4, ElementOfSeq, LenProperties
  <2> QED BY <2>1, <1>3, <1>4 DEF Running, SentOnce
<1>13. SentOnce(jqXHR', running')
  BY <1>4, <1>5, <1>6, <1>7, <1>9, <1>12 DEF SentOnce
<1>14. TellsCaller(jqXHR', running', told', lapses'.left)
  BY <1>2, <1>4, <1>5, <1>6, <1>9 DEF TellsCaller
<1>15. Counts(jqXHR', running', active', spinning', lapses')
  <2> DEFINE q == jqXHR
             p == jqXHR'
  <2>1. x \notin UnderWay(q) /\ x \in UnderWay(p) /\ \A y \in Xhrs : y # x => p[y] = q[y]
    BY <1>3, <1>5, <1>6 DEF UnderWay
  <2> HIDE DEF q, p
  <2>2. /\ Cardinality(UnderWay(q)) \in Nat /\ Cardinality(UnderWay(p)) \in Nat
        /\ Cardinality(UnderWay(p)) = Cardinality(UnderWay(q)) + 1
    BY <1>3, <2>1, WayChanges
  <2>3. Counts(q, running, active, spinning, lapses)
    BY DEF AjaxInv, q
  <2>4. Counts(p, running', active + 1, spinning \/ active = 0, lapses)
    BY <2>2, <2>3, <1>8, <1>9 DEF Counts
  <2> QED BY <2>4, <1>2 DEF p
<1> QED BY <1>10, <1>11, <1>13, <1>14, <1>15 DEF AjaxInv


\* A request goes on: it counts as before.
LEMMA GoesOn ==
  ASSUME AjaxInv, NEW x \in Xhrs, jqXHR[x].made, jqXHR[x].state # 2,
         jqXHR' \in [Xhrs -> Requests], \A y \in Xhrs : y # x => jqXHR'[y] = jqXHR[y],
         jqXHR'[x].made, jqXHR'[x].state # 2, OneRequest(jqXHR'[x]),
         running' \in Seq(Running), SentOnce(jqXHR', running'), TellsCaller(jqXHR, running', told, lapses.left),
         Cardinality(Ending(running')) = Cardinality(Ending(running)), UNCHANGED <<active, spinning, told, lapses>>
  PROVE  AjaxInv'
<1>1. /\ AjaxTypes /\ jqXHR \in [Xhrs -> Requests] /\ Counts(jqXHR, running, active, spinning, lapses)
      /\ \A y \in Xhrs : OneRequest(jqXHR[y])
  BY DEF AjaxInv, AjaxTypes
<1>3. AjaxTypes'
  BY <1>1 DEF AjaxTypes
<1>4. \A y \in Xhrs : OneRequest(jqXHR'[y])
  BY <1>1
<1>5. TellsCaller(jqXHR', running', told, lapses.left)
  BY DEF TellsCaller
<1>6. UnderWay(jqXHR') = UnderWay(jqXHR)
  BY DEF UnderWay
<1>7. Counts(jqXHR', running', active, spinning, lapses)
  BY <1>1, <1>6 DEF Counts
<1> QED BY <1>3, <1>4, <1>5, <1>7 DEF AjaxInv

LEMMA SendReady ==
  ASSUME AjaxInv, beforeSendReturns
  PROVE  AjaxInv'
<1> DEFINE x == Handler.of
           out == Outer
           o == jqXHR[x]
           s == [o EXCEPT !.installed = TRUE]
           r == [s EXCEPT !.transport = TRUE]
           e == In(x, "ajaxSend")
<1>1. /\ running # <<>> /\ Handler.at = "beforeSend" /\ o.state = 0
      /\ jqXHR' = [jqXHR EXCEPT ![x].installed = TRUE, ![x].transport = TRUE]
      /\ running' = Append(out, e) /\ UNCHANGED <<active, spinning, told, lapses>>
  BY DEF beforeSendReturns, Runs
<1>2. /\ x \in Xhrs /\ out \in Seq(Running) /\ o.made /\ IsFiniteSet(Ending(out)) /\ SentOnce(jqXHR, out)
      /\ TellsCaller(jqXHR, out, told, lapses.left)
      /\ \A i \in DOMAIN out : ~(out[i].at \in Before /\ out[i].of = x)
      /\ Cardinality(Ending(running)) = Cardinality(Ending(out)) /\ Cardinality(Ending(out)) \in Nat
  <2>1. Handler.at # "settled" /\ Handler.at \notin After /\ Handler.at \in Before
    BY <1>1 DEF Before, After
  <2> QED BY <2>1, <1>1, RunningHandler
<1>3. jqXHR \in [Xhrs -> Requests] /\ o \in Requests /\ OneRequest(o)
  BY <1>2 DEF AjaxInv, AjaxTypes
<1>4. jqXHR' = [jqXHR EXCEPT ![x] = r]
  BY <1>1, <1>2, <1>3
<1>5. e \in Running /\ e.of = x /\ e.at = "ajaxSend" /\ e.at \notin After
  BY <1>2 DEF In, Running, Before, After
<1> HIDE DEF x, out, e
<1> DEFINE req == o
<1>6. s \in Requests /\ (s.made <=> o.made) /\ s.state = o.state /\ (s.callback <=> o.callback) /\ s.installed
  <2> HIDE DEF o
  <2> QED BY <1>3 DEF Requests
<1>7. r \in Requests /\ r.made /\ r.state = 0 /\ r.transport /\ r.installed /\ (r.callback <=> o.callback)
  <2> HIDE DEF s
  <2>1. /\ r \in Requests /\ (r.made <=> s.made) /\ r.state = s.state /\ r.transport
        /\ (r.installed <=> s.installed) /\ (r.callback <=> s.callback)
    BY <1>6 DEF Requests
  <2> QED BY <2>1, <1>6, <1>1, <1>2
<1> HIDE DEF s, r
<1>8. OneRequest(r)
  BY <1>1, <1>3, <1>7 DEF OneRequest
<1>9. running' \in Seq(Running) /\ Cardinality(Ending(running')) = Cardinality(Ending(running))
  <2>1. running' \in Seq(Running)
    BY <1>1, <1>2, <1>5, PutOn
  <2>2. Cardinality(Ending(Append(out, e))) = Cardinality(Ending(out)) + (IF e.at \in After THEN 1 ELSE 0)
    BY <1>2, <1>5, PutOn
  <2> QED BY <2>1, <2>2, <1>1, <1>2, <1>5
<1>10. SentOnce(jqXHR', running')
  <2>1. SentOnce(jqXHR, running')
    BY <1>1, <1>2, <1>5, SentStays
  <2>2. \A y \in Xhrs : (jqXHR'[y].made <=> jqXHR[y].made) /\ jqXHR'[y].state = jqXHR[y].state
    <3>1. jqXHR'[x] = r /\ \A y \in Xhrs : y # x => jqXHR'[y] = jqXHR[y]
      BY <1>2, <1>3, <1>4, <1>7
    <3>2. \A y \in Xhrs : jqXHR[y].made \in BOOLEAN
      BY <1>3 DEF Requests
    <3>3. r.made \in BOOLEAN
      BY <1>7 DEF Requests
    <3> QED BY <3>1, <3>2, <3>3, <1>1, <1>2, <1>7
  <2>3. \A i \in DOMAIN running' : running'[i].of \in Xhrs
    <3>1. \A i \in DOMAIN running' : running'[i] \in Running
      BY <1>9, ElementOfSeq, LenProperties
    <3> QED BY <3>1 DEF Running
  <2> QED BY <2>1, <2>2, <2>3 DEF SentOnce
<1>11. TellsCaller(jqXHR, running', told, lapses.left)
  BY <1>1, <1>2, <1>5, TellsStays
<1>12. /\ jqXHR' \in [Xhrs -> Requests] /\ jqXHR'[x].made /\ jqXHR'[x].state # 2 /\ OneRequest(jqXHR'[x])
       /\ \A y \in Xhrs : y # x => jqXHR'[y] = jqXHR[y]
  BY <1>2, <1>3, <1>4, <1>7, <1>8
<1>13. jqXHR[x].made /\ jqXHR[x].state # 2
  BY <1>1, <1>2
<1> QED BY <1>1, <1>2, <1>9, <1>10, <1>11, <1>12, <1>13, GoesOn

LEMMA SendKeeps ==
  ASSUME AjaxInv, ajaxSendReturns
  PROVE  AjaxInv'
<1> DEFINE x == Handler.of
           out == Outer
           o == jqXHR[x]
           s == [o EXCEPT !.state = 1]
           r == [s EXCEPT !.callback = TRUE]
<1>1. /\ running # <<>> /\ Handler.at = "ajaxSend" /\ Handler.at \in Before /\ o.transport
      /\ UNCHANGED <<active, spinning, lapses>>
      /\ \/ jqXHR' = [jqXHR EXCEPT ![x].state = 1, ![x].callback = TRUE] /\ running' = out /\ UNCHANGED told
         \/ done(Handler.of, "error", Outer)
  BY DEF ajaxSendReturns, Runs, Before
<1>2. CASE done(Handler.of, "error", Outer)
  <2>1. "error" \in Outcomes
    BY DEF Outcomes
  <2> QED BY <2>1, <1>1, <1>2, DoneKeeps
<1>3. CASE jqXHR' = [jqXHR EXCEPT ![x].state = 1, ![x].callback = TRUE] /\ running' = out /\ UNCHANGED told
  <2>2. /\ x \in Xhrs /\ out \in Seq(Running) /\ o.made /\ IsFiniteSet(Ending(out)) /\ SentOnce(jqXHR, out)
        /\ TellsCaller(jqXHR, out, told, lapses.left) /\ o.state # 1
        /\ \A i \in DOMAIN out : ~(out[i].at \in Before /\ out[i].of = x)
        /\ Cardinality(Ending(running)) = Cardinality(Ending(out)) /\ Cardinality(Ending(out)) \in Nat
    <3>1. Handler.at # "settled" /\ Handler.at \notin After
      BY <1>1 DEF After
    <3> QED BY <3>1, <1>1, RunningHandler
  <2>3. jqXHR \in [Xhrs -> Requests] /\ o \in Requests /\ OneRequest(o)
    BY <2>2 DEF AjaxInv, AjaxTypes
  <2>4. jqXHR' = [jqXHR EXCEPT ![x] = r]
    BY <1>3, <2>2, <2>3
  <2> HIDE DEF x, out
  <2>6. s \in Requests /\ (s.made <=> o.made) /\ (s.installed <=> o.installed) /\ s.state = 1
    <3> HIDE DEF o
    <3> QED BY <2>3 DEF Requests
  <2>7. r \in Requests /\ r.made /\ r.installed /\ r.state = 1
    <3> HIDE DEF s
    <3>1. r \in Requests /\ (r.made <=> s.made) /\ (r.installed <=> s.installed) /\ r.state = s.state
      BY <2>6 DEF Requests
    <3>2. o.installed
      BY <1>1, <2>3 DEF OneRequest
    <3> QED BY <3>1, <3>2, <2>6, <2>2
  <2> HIDE DEF s, r
  <2>8. OneRequest(r) /\ o.state # 2
    BY <1>1, <2>3, <2>7 DEF OneRequest
  <2>9. running' \in Seq(Running) /\ Cardinality(Ending(running')) = Cardinality(Ending(running))
    BY <1>3, <2>2
  <2>10. SentOnce(jqXHR', running')
    <3>1. jqXHR'[x] = r /\ \A y \in Xhrs : y # x => jqXHR'[y] = jqXHR[y]
      BY <2>2, <2>3, <2>4, <2>7
    <3>2. \A i \in DOMAIN out : out[i].of \in Xhrs
      <4>1. \A i \in DOMAIN out : out[i] \in Running
        BY <2>2, ElementOfSeq, LenProperties
      <4> QED BY <4>1 DEF Running
    <3>3. SentOnce(jqXHR', out)
      BY <3>1, <3>2, <2>2, <2>7 DEF SentOnce
    <3> QED BY <3>3, <1>3
  <2>11. TellsCaller(jqXHR, running', told, lapses.left)
    BY <1>3, <2>2
  <2>12. /\ jqXHR' \in [Xhrs -> Requests] /\ jqXHR'[x].made /\ jqXHR'[x].state # 2 /\ OneRequest(jqXHR'[x])
         /\ \A y \in Xhrs : y # x => jqXHR'[y] = jqXHR[y]
    BY <2>2, <2>3, <2>4, <2>7, <2>8
  <2> QED BY <1>1, <1>3, <2>2, <2>8, <2>9, <2>10, <2>11, <2>12, GoesOn
<1> QED BY <1>1, <1>2, <1>3

LEMMA EndingFinite ==
  ASSUME NEW rs \in Seq(Running)
  PROVE  IsFiniteSet(Ending(rs))
<1>1. DOMAIN rs = 1..Len(rs) /\ Len(rs) \in Nat
  BY LenProperties
<1>2. Ending(rs) \in SUBSET (1..Len(rs))
  BY <1>1 DEF Ending
<1>3. IsFiniteSet(1..Len(rs))
  BY <1>1, FS_Interval
<1> QED BY <1>2, <1>3, FS_Subset

\* A request ends: nothing else of it or of others changes.
LEMMA Finishes ==
  ASSUME jqXHR \in [Xhrs -> Requests], NEW x \in Xhrs,
         jqXHR' = [jqXHR EXCEPT ![x].state = 2, ![x].transport = FALSE, ![x].callback = FALSE]
  PROVE  /\ jqXHR' \in [Xhrs -> Requests] /\ \A y \in Xhrs : y # x => jqXHR'[y] = jqXHR[y]
         /\ jqXHR'[x].state = 2 /\ (jqXHR'[x].made <=> jqXHR[x].made)
         /\ (jqXHR'[x].installed <=> jqXHR[x].installed) /\ ~jqXHR'[x].transport /\ ~jqXHR'[x].callback
<1> DEFINE o == jqXHR[x]
           s == [o EXCEPT !.state = 2]
           t == [s EXCEPT !.transport = FALSE]
           r == [t EXCEPT !.callback = FALSE]
<1>1. jqXHR' = [jqXHR EXCEPT ![x] = r]
  OBVIOUS
<1>2. o \in Requests
  OBVIOUS
<1> HIDE DEF o
<1>3. s \in Requests /\ s.state = 2 /\ (s.made <=> o.made) /\ (s.installed <=> o.installed)
  BY <1>2 DEF Requests
<1> HIDE DEF s
<1>4. t \in Requests /\ t.state = s.state /\ (t.made <=> s.made) /\ (t.installed <=> s.installed) /\ ~t.transport
  BY <1>3 DEF Requests
<1> HIDE DEF t
<1>5. /\ r \in Requests /\ r.state = t.state /\ (r.made <=> t.made) /\ (r.installed <=> t.installed)
      /\ (r.transport <=> t.transport) /\ ~r.callback
  BY <1>4 DEF Requests
<1> HIDE DEF r
<1>6. jqXHR' \in [Xhrs -> Requests] /\ jqXHR'[x] = r /\ \A y \in Xhrs : y # x => jqXHR'[y] = jqXHR[y]
  BY <1>1, <1>5
<1> QED BY <1>3, <1>4, <1>5, <1>6 DEF o

LEMMA PutLast ==
  ASSUME NEW S, NEW s \in Seq(S), NEW b \in S
  PROVE  /\ Append(s, b) \in Seq(S) /\ Len(Append(s, b)) = Len(s) + 1 /\ Append(s, b)[Len(s) + 1] = b
         /\ \A i \in 1..Len(s) : Append(s, b)[i] = s[i]
BY AppendProperties, LenProperties

LEMMA Paired ==
  ASSUME NEW S, NEW a \in S, NEW b \in S
  PROVE  Append(<<a>>, b) = <<a, b>>
<1> DEFINE s == <<a>>
           t == <<a, b>>
           u == Append(s, b)
<1>1. s \in Seq(S) /\ Len(s) = 1 /\ s[1] = a
  OBVIOUS
<1>2. t \in Seq(S) /\ Len(t) = 2 /\ t[1] = a /\ t[2] = b
  OBVIOUS
<1> HIDE DEF s, t
<1>3. u \in Seq(S) /\ Len(u) = Len(s) + 1 /\ u[Len(s) + 1] = b /\ \A i \in 1..Len(s) : u[i] = s[i]
  <2> HIDE DEF u
  <2>1. s \in Seq(S)
    BY <1>1
  <2> QED BY <2>1, PutLast DEF u
<1> HIDE DEF u
<1>4. Len(u) = 2 /\ u[1] = a /\ u[2] = b
  BY <1>1, <1>3
<1>5. \A i \in 1..Len(t) : i = 1 \/ i = 2
  BY <1>2
<1>6. \A i \in 1..Len(t) : u[i] = t[i]
  BY <1>2, <1>4, <1>5
<1>7. t = u
  BY <1>2, <1>3, <1>4, <1>6, SeqEqual
<1> QED BY <1>7 DEF s, t, u

\* What a caller can have been told, by its length.
LEMMA ToldLengths ==
  ASSUME NEW t \in Told
  PROVE  /\ Len(t) = 1 => t # <<>> /\ \E o \in Outcomes : t = <<o>>
         /\ Len(t) \in 0..2
<1>1. ASSUME t = <<>> PROVE Len(t) = 0
  <2>1. Len(<<>>) = 0
    BY EmptySeq
  <2> QED BY <2>1, <1>1, Zenon
<1>2. ASSUME NEW o \in Outcomes, t = <<o>> PROVE Len(t) = 1 /\ t # <<>>
  <2>1. Len(<<o>>) = 1 /\ <<o>> # <<>>
    OBVIOUS
  <2> QED BY <2>1, <1>2, Zenon
<1>3. ASSUME NEW o \in Outcomes, t = <<o, "complete">> PROVE Len(t) = 2
  <2>1. Len(<<o, "complete">>) = 2
    OBVIOUS
  <2> QED BY <2>1, <1>3, Zenon
<1>4. t = <<>> \/ (\E o \in Outcomes : t = <<o>>) \/ (\E o \in Outcomes : t = <<o, "complete">>)
  BY Zenon DEF Told
<1>5. CASE t = <<>>
  BY <1>1, <1>5
<1>6. ASSUME NEW o \in Outcomes, t = <<o>> PROVE Len(t) = 1 /\ t # <<>> /\ Len(t) \in 0..2
  BY <1>2, <1>6
<1>7. ASSUME NEW o \in Outcomes, t = <<o, "complete">> PROVE Len(t) # 1 /\ Len(t) \in 0..2
  BY <1>3, <1>7
<1> QED BY <1>4, <1>5, <1>6, <1>7

LEMMA AbortedKeeps ==
  ASSUME AjaxInv, ajaxSendAborted
  PROVE  AjaxInv'
<1> DEFINE x == Handler.of
           out == Outer
           e == In(x, "settled")
<1>1. /\ running # <<>> /\ Handler.at = "ajaxSend" /\ Handler.at # "settled"
      /\ running' = Append(out, e) /\ lapses' = [lapses EXCEPT !.twice = @ \cup {x}]
      /\ UNCHANGED <<jqXHR, active, spinning, told>>
  BY DEF ajaxSendAborted, Runs
<1>2. /\ x \in Xhrs /\ jqXHR[x].made /\ out \in Seq(Running) /\ IsFiniteSet(Ending(out)) /\ SentOnce(jqXHR, out)
      /\ TellsCaller(jqXHR, out, told, lapses.left)
  BY <1>1, RunningHandler
<1>3. e \in Running /\ e.of = x /\ e.at \notin Before
  BY <1>2 DEF In, Running, Before, After
<1>4. AjaxTypes
  BY DEF AjaxInv
<1> HIDE DEF x, out, e
<1>5. lapses' \in [left : SUBSET Xhrs, twice : SUBSET Xhrs] /\ lapses'.left = lapses.left /\ lapses'.twice # {}
  BY <1>1, <1>2, <1>4 DEF AjaxTypes
<1>6. AjaxTypes'
  <2>1. running' \in Seq(Running)
    BY <1>1, <1>2, <1>3, PutOn
  <2> QED BY <2>1, <1>1, <1>4, <1>5 DEF AjaxTypes
<1>7. SentOnce(jqXHR, running')
  BY <1>1, <1>2, <1>3, SentStays
<1>8. TellsCaller(jqXHR, running', told, lapses.left)
  BY <1>1, <1>2, <1>3, TellsStays
<1>9. Counts(jqXHR', running', active', spinning', lapses')
  BY <1>5 DEF Counts
<1> QED BY <1>1, <1>5, <1>6, <1>7, <1>8, <1>9 DEF AjaxInv

LEMMA SettledKeeps ==
  ASSUME AjaxInv, settledReturns
  PROVE  AjaxInv'
<1> DEFINE x == Handler.of
           out == Outer
           e == In(x, "completed")
<1>1. /\ running # <<>> /\ Handler.at = "settled"
      /\ told' = IF jqXHR[x].installed /\ Len(told[x]) = 1 THEN [told EXCEPT ![x] = Append(@, "complete")] ELSE told
      /\ running' = Append(out, e) /\ UNCHANGED <<jqXHR, active, spinning, lapses>>
  BY DEF settledReturns, Runs
<1>2. /\ x \in Xhrs /\ jqXHR[x].made /\ out \in Seq(Running) /\ IsFiniteSet(Ending(out)) /\ SentOnce(jqXHR, out)
      /\ Cardinality(Ending(running)) = Cardinality(Ending(out)) + 1 /\ Cardinality(Ending(out)) \in Nat
  <2>1. Handler.at \in After
    BY <1>1 DEF After
  <2> QED BY <2>1, <1>1, RunningHandler
<1>3. e \in Running /\ e.of = x /\ e.at \notin Before /\ e.at \in After
  BY <1>2 DEF In, Running, Before, After
<1>4. /\ AjaxTypes /\ told \in [Xhrs -> Told] /\ running \in Seq(Running) /\ IsFiniteSet(Ending(running))
      /\ TellsCaller(jqXHR, running, told, lapses.left)
  BY <1>1, RunningHandler DEF AjaxInv, AjaxTypes
<1>5. /\ \A i \in DOMAIN running : i = Len(running) \/ (i \in DOMAIN out /\ out[i] = running[i])
      /\ running[Len(running)].of = x
  <2> DEFINE rs == running
             us == Outer
  <2>1. us = SubSeq(rs, 1, Len(rs) - 1) /\ Last(rs) = Handler
    BY DEF Outer, Handler
  <2>2. rs \in Seq(Running) /\ rs # <<>> /\ IsFiniteSet(Ending(rs))
    BY <1>1, <1>4
  <2> HIDE DEF rs, us
  <2>3. /\ \A i \in DOMAIN us : us[i] = rs[i]
        /\ \A i \in DOMAIN rs : i = Len(rs) \/ i \in DOMAIN us
        /\ Last(rs) = rs[Len(rs)]
    BY <2>1, <2>2, TakenOff
  <2> QED BY <2>1, <2>3 DEF rs, us
<1> HIDE DEF x, out, e
<1>6. \A i \in DOMAIN running : running[i].of # x => i \in DOMAIN running' /\ running'[i] = running[i]
  <2>1. \A i \in DOMAIN out : i \in DOMAIN Append(out, e) /\ Append(out, e)[i] = out[i]
    BY <1>2, <1>3, PutOn
  <2> QED BY <2>1, <1>1, <1>5
<1>7. /\ told' \in [Xhrs -> Told] /\ \A y \in Xhrs : y # x => told'[y] = told[y]
      /\ Len(told'[x]) # 1 /\ (told[x] # <<>> => told'[x] # <<>>) /\ (told[x] = <<>> => told'[x] = <<>>)
  <2>1. told[x] \in Told /\ (~jqXHR[x].installed => told[x] = <<>>)
    BY <1>2, <1>4 DEF TellsCaller
  <2>2. Len(told[x]) = 1 => told[x] # <<>>
    BY <2>1, ToldLengths
  <2>3. CASE jqXHR[x].installed /\ Len(told[x]) = 1
    <3>1. PICK o \in Outcomes : told[x] = <<o>>
      <4> DEFINE t == told[x]
      <4>1. t \in Told /\ Len(t) = 1
        BY <2>1, <2>3
      <4> HIDE DEF t
      <4>2. \E o \in Outcomes : t = <<o>>
        BY <4>1, ToldLengths
      <4> QED BY <4>2 DEF t
    <3>2. Append(<<o>>, "complete") = <<o, "complete">>
      <4> DEFINE S == Outcomes \cup {"complete"}
                 last == "complete"
      <4>1. o \in S /\ last \in S
        OBVIOUS
      <4> HIDE DEF S, last
      <4>2. Append(<<o>>, last) = <<o, last>>
        BY <4>1, Paired
      <4> QED BY <4>2 DEF last
    <3>3. told' = [told EXCEPT ![x] = <<o, "complete">>]
      BY <1>1, <2>3, <3>1, <3>2
    <3>4. <<o, "complete">> \in Told /\ Len(<<o, "complete">>) = 2 /\ <<o, "complete">> # <<>> /\ <<o>> # <<>>
      BY DEF Told
    <3>5. told'[x] = <<o, "complete">> /\ \A y \in Xhrs : y # x => told'[y] = told[y]
      BY <1>2, <1>4, <3>3
    <3>6. told' \in [Xhrs -> Told]
      BY <1>2, <1>4, <3>3, <3>4
    <3>7. Len(told'[x]) # 1 /\ told'[x] # <<>> /\ told[x] # <<>>
      BY <3>1, <3>4, <3>5
    <3> QED BY <3>5, <3>6, <3>7
  <2>4. CASE ~(jqXHR[x].installed /\ Len(told[x]) = 1)
    <3>1. told' = told
      BY <1>1, <2>4
    <3>2. Len(told[x]) # 1
      BY <2>1, <2>2, <2>4
    <3> QED BY <3>1, <3>2, <1>4
  <2> QED BY <2>3, <2>4
<1>8. TellsCaller(jqXHR, running', told', lapses.left)
  <2> SUFFICES ASSUME NEW y \in Xhrs
               PROVE  /\ jqXHR[y].state # 2 \/ ~jqXHR[y].installed => told'[y] = <<>>
                      /\ jqXHR[y].state = 2 /\ jqXHR[y].installed => told'[y] # <<>>
                      /\ y \notin lapses.left /\ Len(told'[y]) = 1
                           => \E i \in DOMAIN running' : running'[i].of = y /\ running'[i].at = "settled"
    BY DEF TellsCaller
  <2>1. /\ jqXHR[y].state # 2 \/ ~jqXHR[y].installed => told[y] = <<>>
        /\ jqXHR[y].state = 2 /\ jqXHR[y].installed => told[y] # <<>>
        /\ y \notin lapses.left /\ Len(told[y]) = 1
             => \E i \in DOMAIN running : running[i].of = y /\ running[i].at = "settled"
    BY <1>4 DEF TellsCaller
  <2>2. CASE y = x
    BY <2>1, <2>2, <1>7
  <2>3. CASE y # x
    <3>1. told'[y] = told[y]
      BY <2>3, <1>7
    <3> QED BY <3>1, <2>1, <2>3, <1>6
  <2> QED BY <2>2, <2>3
<1>9. running' \in Seq(Running) /\ Cardinality(Ending(running')) = Cardinality(Ending(running))
  <2>1. running' \in Seq(Running)
    BY <1>1, <1>2, <1>3, PutOn
  <2>2. Cardinality(Ending(Append(out, e))) = Cardinality(Ending(out)) + (IF e.at \in After THEN 1 ELSE 0)
    BY <1>2, <1>3, PutOn
  <2> QED BY <2>1, <2>2, <1>1, <1>2, <1>3
<1>10. AjaxTypes'
  BY <1>1, <1>4, <1>7, <1>9 DEF AjaxTypes
<1>11. SentOnce(jqXHR, running')
  BY <1>1, <1>2, <1>3, SentStays
<1>12. Counts(jqXHR, running', active, spinning, lapses)
  BY <1>9 DEF AjaxInv, Counts
<1> QED BY <1>1, <1>8, <1>10, <1>11, <1>12 DEF AjaxInv

LEMMA CompletedKeeps ==
  ASSUME AjaxInv, completedReturns
  PROVE  AjaxInv'
<1> DEFINE out == Outer
<1>1. /\ running # <<>> /\ Handler.at = "completed" /\ Handler.at # "settled"
      /\ running' = out /\ active' = active - 1 /\ spinning' = (spinning /\ active # 1)
      /\ UNCHANGED <<jqXHR, told, lapses>>
  BY DEF completedReturns, Runs
<1>2. /\ out \in Seq(Running) /\ SentOnce(jqXHR, out) /\ TellsCaller(jqXHR, out, told, lapses.left)
      /\ Cardinality(Ending(running)) = Cardinality(Ending(out)) + 1 /\ Cardinality(Ending(out)) \in Nat
  <2>1. Handler.at \in After
    BY <1>1 DEF After
  <2> QED BY <2>1, <1>1, RunningHandler
<1>3. AjaxTypes /\ active \in Int /\ spinning \in BOOLEAN /\ Counts(jqXHR, running, active, spinning, lapses)
  BY DEF AjaxInv, AjaxTypes
<1> HIDE DEF out
<1>4. AjaxTypes'
  BY <1>1, <1>2, <1>3 DEF AjaxTypes
<1>5. Cardinality(UnderWay(jqXHR)) \in Nat
  <2>1. IsFiniteSet(UnderWay(jqXHR))
    BY AjaxAssumption, FS_Subset DEF UnderWay
  <2> QED BY <2>1, FS_CardinalityType
<1>6. Counts(jqXHR, out, active - 1, spinning /\ active # 1, lapses)
  BY <1>2, <1>3, <1>5 DEF Counts
<1>7. \A y \in Xhrs : OneRequest(jqXHR[y])
  BY DEF AjaxInv
<1> QED BY <1>1, <1>2, <1>4, <1>6, <1>7 DEF AjaxInv

LEMMA AbortKeeps ==
  ASSUME AjaxInv, abort
  PROVE  AjaxInv'
<1>1. PICK x \in {y \in Xhrs : jqXHR[y].made /\ jqXHR[y].state # 2} :
        /\ jqXHR' = [jqXHR EXCEPT ![x].state = 2, ![x].transport = FALSE, ![x].callback = FALSE]
        /\ told' = IF jqXHR[x].installed THEN [told EXCEPT ![x] = <<"error">>] ELSE told
        /\ running' = Append(running, In(x, "settled"))
  BY DEF abort
<1>2. UNCHANGED <<active, spinning, lapses>>
  BY DEF abort
<1>3. /\ x \in Xhrs /\ jqXHR[x].made /\ jqXHR[x].state # 2
      /\ jqXHR \in [Xhrs -> Requests] /\ told \in [Xhrs -> Told] /\ running \in Seq(Running)
      /\ SentOnce(jqXHR, running) /\ TellsCaller(jqXHR, running, told, lapses.left)
  BY DEF AjaxInv, AjaxTypes
<1>4. /\ jqXHR' \in [Xhrs -> Requests] /\ \A y \in Xhrs : y # x => jqXHR'[y] = jqXHR[y]
      /\ jqXHR'[x].state = 2 /\ jqXHR'[x].made /\ (jqXHR'[x].installed <=> jqXHR[x].installed)
      /\ ~jqXHR'[x].transport /\ ~jqXHR'[x].callback
  BY <1>1, <1>3, Finishes
<1>5. /\ told' \in [Xhrs -> Told] /\ (\A y \in Xhrs : y # x => told'[y] = told[y])
      /\ told'[x] # <<>> <=> jqXHR[x].installed
  <2>1. <<"error">> \in Told /\ <<"error">> # <<>>
    BY DEF Told, Outcomes
  <2>2. told[x] = <<>>
    BY <1>3 DEF TellsCaller
  <2> QED BY <2>1, <2>2, <1>1, <1>3
<1>6. IsFiniteSet(Ending(running))
  BY <1>3, EndingFinite
<1> DEFINE rs == running
<1>7. /\ rs \in Seq(Running) /\ IsFiniteSet(Ending(rs)) /\ SentOnce(jqXHR, rs)
      /\ TellsCaller(jqXHR, rs, told, lapses.left) /\ running' = Append(rs, In(x, "settled"))
      /\ Cardinality(Ending(rs)) = Cardinality(Ending(running))
  BY <1>1, <1>3, <1>6
<1> HIDE DEF rs
<1> QED BY <1>2, <1>3, <1>4, <1>5, <1>7, Settles

LEMMA CallbackKeeps ==
  ASSUME AjaxInv, callback
  PROVE  AjaxInv'
<1>1. PICK x \in {y \in Xhrs : jqXHR[y].callback}, outcome \in {"success", "error"} :
        /\ jqXHR' = [jqXHR EXCEPT ![x].state = 2, ![x].transport = FALSE, ![x].callback = FALSE]
        /\ told' = [told EXCEPT ![x] = <<outcome>>]
        /\ running' = <<In(x, "settled")>>
  BY DEF callback
<1>2. running = <<>> /\ UNCHANGED <<active, spinning, lapses>>
  BY DEF callback
<1>3. /\ x \in Xhrs /\ jqXHR[x].made /\ jqXHR[x].state # 2 /\ jqXHR[x].installed
      /\ jqXHR \in [Xhrs -> Requests] /\ told \in [Xhrs -> Told] /\ running \in Seq(Running)
      /\ SentOnce(jqXHR, running) /\ TellsCaller(jqXHR, running, told, lapses.left)
  BY DEF AjaxInv, AjaxTypes, OneRequest
<1>4. /\ jqXHR' \in [Xhrs -> Requests] /\ \A y \in Xhrs : y # x => jqXHR'[y] = jqXHR[y]
      /\ jqXHR'[x].state = 2 /\ jqXHR'[x].made /\ (jqXHR'[x].installed <=> jqXHR[x].installed)
      /\ ~jqXHR'[x].transport /\ ~jqXHR'[x].callback
  BY <1>1, <1>3, Finishes
<1>5. /\ told' \in [Xhrs -> Told] /\ (\A y \in Xhrs : y # x => told'[y] = told[y])
      /\ told'[x] # <<>> <=> jqXHR[x].installed
  <2>1. <<outcome>> \in Told /\ <<outcome>> # <<>>
    BY DEF Told, Outcomes
  <2> QED BY <2>1, <1>1, <1>3
<1>6. IsFiniteSet(Ending(running))
  BY <1>3, EndingFinite
<1>7. running' = Append(running, In(x, "settled"))
  BY <1>1, <1>2
<1> DEFINE rs == running
<1>8. /\ rs \in Seq(Running) /\ IsFiniteSet(Ending(rs)) /\ SentOnce(jqXHR, rs)
      /\ TellsCaller(jqXHR, rs, told, lapses.left) /\ running' = Append(rs, In(x, "settled"))
      /\ Cardinality(Ending(rs)) = Cardinality(Ending(running))
  BY <1>7, <1>3, <1>6
<1> HIDE DEF rs
<1> QED BY <1>2, <1>3, <1>4, <1>5, <1>8, Settles

LEMMA FailsKeeps ==
  ASSUME AjaxInv, HandlerFails
  PROVE  AjaxInv'
<1> DEFINE lost == {r.of : r \in ToSet(running)}
<1>1. /\ running # <<>> /\ lapses' = [lapses EXCEPT !.left = @ \cup lost]
      /\ running' = <<>> /\ UNCHANGED <<jqXHR, active, spinning, told>>
  BY DEF HandlerFails
<1>2. /\ AjaxTypes /\ running \in Seq(Running) /\ \A y \in Xhrs : OneRequest(jqXHR[y])
      /\ TellsCaller(jqXHR, running, told, lapses.left)
  BY DEF AjaxInv, AjaxTypes
<1>3. \A i \in DOMAIN running : running[i] \in Running /\ running[i].of \in lost
  <2>1. \A i \in DOMAIN running : running[i] \in Running
    BY <1>2, ElementOfSeq, LenProperties
  <2>2. \A i \in DOMAIN running : running[i] \in ToSet(running)
    BY Zenon DEF ToSet
  <2> QED BY <2>1, <2>2
<1>4. lost \subseteq Xhrs
  <2>1. \A r \in ToSet(running) : r \in Running
    BY <1>3, Zenon DEF ToSet
  <2> QED BY <2>1 DEF Running
<1>5. lost # {}
  <2>1. Len(running) \in Nat \ {0} /\ DOMAIN running = 1..Len(running)
    BY <1>1, <1>2, EmptySeq, LenProperties
  <2>2. 1 \in DOMAIN running
    BY <2>1
  <2> QED BY <2>2, <1>3
<1> HIDE DEF lost
<1>6. lapses' \in [left : SUBSET Xhrs, twice : SUBSET Xhrs] /\ lapses'.left = lapses.left \cup lost
  BY <1>1, <1>2, <1>4 DEF AjaxTypes
<1>7. AjaxTypes'
  <2>1. <<>> \in Seq(Running)
    BY EmptySeq
  <2> QED BY <2>1, <1>1, <1>2, <1>6 DEF AjaxTypes
<1>8. SentOnce(jqXHR, <<>>)
  BY DEF SentOnce
<1>9. TellsCaller(jqXHR, <<>>, told, lapses'.left)
  BY <1>2, <1>3, <1>6 DEF TellsCaller
<1>10. Counts(jqXHR', running', active', spinning', lapses')
  BY <1>5, <1>6 DEF Counts
<1> QED BY <1>1, <1>2, <1>7, <1>8, <1>9, <1>10 DEF AjaxInv

LEMMA AjaxKept ==
  ASSUME AjaxInv, AjaxNext
  PROVE  AjaxInv'
<1>1. CASE ajax
  BY <1>1, AjaxKeeps
<1>2. CASE beforeSendStops
  <2>1. /\ running # <<>> /\ Handler.at \in Before /\ "error" \in Outcomes
        /\ done(Handler.of, "error", Outer) /\ UNCHANGED <<active, spinning, lapses>>
    BY <1>2 DEF beforeSendStops, Runs, Before, Outcomes
  <2> QED BY <2>1, DoneKeeps
<1>3. CASE beforeSendReturns
  BY <1>3, SendReady
<1>4. CASE ajaxSendReturns
  BY <1>4, SendKeeps
<1>5. CASE ajaxSendAborted
  BY <1>5, AbortedKeeps
<1>6. CASE settledReturns
  BY <1>6, SettledKeeps
<1>7. CASE completedReturns
  BY <1>7, CompletedKeeps
<1>8. CASE abort
  BY <1>8, AbortKeeps
<1>9. CASE HandlerFails
  BY <1>9, FailsKeeps
<1>10. CASE callback
  BY <1>10, CallbackKeeps
<1> QED BY <1>1, <1>2, <1>3, <1>4, <1>5, <1>6, <1>7, <1>8, <1>9, <1>10 DEF AjaxNext

LEMMA AjaxStays == AjaxInv /\ UNCHANGED ajaxVars => AjaxInv'
BY DEF ajaxVars, AjaxInv, AjaxTypes, Counts, SentOnce, TellsCaller, OneRequest

\* A request's caller is told of its outcome and then that it is complete, and
\* jQuery.active counts the requests under way, until a handler throws or aborts
\* one as it is sent (jQuery.ajax): a conjunct of CallbacksKept.
THEOREM RequestsAlwaysEnd == Spec => []RequestsEnd
<1>1. Init => AjaxInv
  BY AjaxStart DEF Init
<1>2. AjaxInv /\ [Next]_vars => AjaxInv'
  <2> SUFFICES ASSUME AjaxInv, [Next]_vars PROVE AjaxInv'
    OBVIOUS
  <2>1. AjaxNext \/ UNCHANGED ajaxVars
    BY DEF Next, Visits, Links, Widgets, Calls, vars
  <2> QED BY <2>1, AjaxKept, AjaxStays
<1>3. AjaxInv => RequestsEnd
  BY AjaxHolds
<1> QED BY <1>1, <1>2, <1>3, PTL DEF Spec

-----------------------------------------------------------------------------
(* jQuery's callbacks and events, of which CallbackProofs has the invariants.  *)

\* A firing has before it exactly the callbacks it owes, whatever is added,
\* removed, disabled or fired from within it, unless its list was emptied
\* meanwhile; and what a deferred was promised is called once, in order, for its
\* outcome only, unless a handler has thrown (jQuery.Callbacks, jQuery.Deferred):
\* two conjuncts of CallbacksKept.
THEOREM PromisesAlwaysKept == Spec => [](FiringExact /\ PromiseKept)
<1>1. Init => DeferredInv
  BY DeferredStarts DEF Init
<1>2. DeferredInv /\ [Next]_vars => DeferredInv'
  <2> SUFFICES ASSUME DeferredInv, [Next]_vars PROVE DeferredInv'
    OBVIOUS
  <2>1. CallbacksNext \/ DeferredNext \/ UNCHANGED deferredVars
    BY DEF Next, Visits, Links, Widgets, Calls, vars
  <2> QED BY <2>1, DeferredKept
<1>3. DeferredInv => FiringExact /\ PromiseKept
  BY DeferredPromises
<1> QED BY <1>1, <1>2, <1>3, PTL DEF Spec

\* An element's list is what is bound to it, and an event has before it exactly
\* the handlers bound where it has come when it came there, less what they
\* stopped; it calls nobody twice (jQuery.event): a conjunct of CallbacksKept.
THEOREM EventsAlwaysExact == Spec => []EventsExact
<1>1. Init => EventInv
  BY EventsStart DEF Init
<1>2. EventInv /\ [Next]_vars => EventInv'
  <2> SUFFICES ASSUME EventInv, [Next]_vars PROVE EventInv'
    OBVIOUS
  <2>1. EventsNext \/ UNCHANGED eventVars
    BY DEF Next, Visits, Links, Widgets, Calls, vars
  <2> QED BY <2>1, EventsKept
<1>3. EventInv => EventsExact
  BY EventsAgree
<1> QED BY <1>1, <1>2, <1>3, PTL DEF Spec

\* What jQuery's callbacks, promises, requests and events owe the page's scripts
\* is called as it should be, all of CallbacksKept.
THEOREM CallbacksAlwaysKept == Spec => []CallbacksKept
<1>1. FiringExact /\ PromiseKept /\ RequestsEnd /\ EventsExact => CallbacksKept
  BY DEF CallbacksKept
<1> QED BY <1>1, PromisesAlwaysKept, RequestsAlwaysEnd, EventsAlwaysExact, PTL
=============================================================================
