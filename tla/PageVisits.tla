----------------------------- MODULE PageVisits -----------------------------
(* Turbolinks in the portal's pages: links are fetched and put in the place of *)
(* the page shown, pages left are kept for the Back button.  The browser's     *)
(* history, the server and the user are external.                              *)
EXTENDS Naturals, Sequences, FiniteSets

CONSTANTS
  Urls, Home,    \* the pages' addresses, and the first one loaded
  Moved,         \* where the server redirects to: a function on some of Urls
  CacheSize,     \* cacheSize: 10
  MaxMoves,      \* bound: what the user does
  NoState, NoRequest   \* null

\* The server redirects to a page it does not redirect; null is no address.
ASSUME VisitsAssumption ==
  /\ DOMAIN Moved \subseteq Urls /\ Home \in Urls \ DOMAIN Moved /\ CacheSize \in Nat
  /\ \A u \in DOMAIN Moved : Moved[u] \in Urls \ DOMAIN Moved
  /\ {NoState, NoRequest} \cap [url : Urls, hash : BOOLEAN] = {}

VARIABLES
  entries, at,   \* window.history: the entries of the tab, and the one it is at
  body,          \* document.body: whose page it is
  currentState,  \* the history state the page was shown under: an address
  pageCache,     \* what is kept, by that address: whose page, and cachedAt
  xhr,           \* the address of the request under way
  transitionCacheEnabled,
  listening,     \* the popstate handler is there: half a second after loading
  clock,         \* milliseconds, at which pages are cached
  astray,        \* a move has gone by the handlers, and page and address differ,
                 \* or an entry of the document has kept another page's state
  moves

visitVars == <<entries, at, body, currentState, pageCache, xhr, transitionCacheEnabled,
               listening, clock, astray, moves>>

\* The page the server gives for url.
Page(url) == IF url \in DOMAIN Moved THEN Moved[url] ELSE url

\* An address: a url, with a hash or without.
Address(url, hash) == [url |-> url, hash |-> hash]
Plain(url) == Address(url, FALSE)

\* An entry: the address in its state, the address shown, and its document.
Entry(state, shown, doc) == [state |-> state, shown |-> shown, doc |-> doc]
Here == entries[at]

\* An entry of the same document has the state of another page than it shows.
Mislabelled(es, i) ==
  \E j \in DOMAIN es : /\ es[j].doc = es[i].doc /\ es[j].state # NoState
                       /\ Page(es[j].state.url) # Page(es[j].shown.url)

Pushed(e) == entries' = Append(SubSeq(entries, 1, at), e) /\ at' = at + 1

VisitsInit ==
  /\ entries = <<Entry(Plain(Home), Plain(Home), 0)>> /\ at = 1
  /\ body = Home /\ currentState = Plain(Home) /\ pageCache = <<>> /\ xhr = NoRequest
  /\ transitionCacheEnabled \in BOOLEAN
  /\ listening = FALSE /\ clock = 0 /\ astray = FALSE /\ moves = 0

Move == moves < MaxMoves /\ moves' = moves + 1

-----------------------------------------------------------------------------
(* A document is loaded: initializeTurbolinks writes its address in its state. *)
(* Where the tab comes back to a document, its other entries are as they were. *)
Initialized(address) ==
  /\ body' = Page(address.url) /\ currentState' = address
  /\ pageCache' = <<>> /\ xhr' = NoRequest /\ listening' = FALSE
  /\ astray' = Mislabelled(entries', at')
  /\ UNCHANGED <<transitionCacheEnabled, clock>>

\* document.location.href = address: in the entry of that address, or a new one.
NewDoc == CHOOSE d \in 0..Len(entries) : \A i \in DOMAIN entries : entries[i].doc # d
Load(url) ==
  LET to == Plain(Page(url))
      e  == Entry(to, to, NewDoc)
  IN  /\ IF Here.shown = Plain(url) THEN entries' = [entries EXCEPT ![at] = e] /\ UNCHANGED at ELSE Pushed(e)
      /\ Initialized(to)

-----------------------------------------------------------------------------
(* The cache.                                                                  *)

\* Those as old as the one past the limit, or older, go.
constrainPageCacheTo(cache) ==
  LET asNew(u) == {v \in DOMAIN cache : cache[v].cachedAt >= cache[u].cachedAt}
  IN  [u \in {v \in DOMAIN cache : Cardinality(asNew(v)) <= CacheSize} |-> cache[u]]

\* In the same millisecond as the last time, or later.
cacheCurrentPage ==
  \E now \in {clock, clock + 1} :
     /\ clock' = now
     /\ pageCache' = constrainPageCacheTo(
          [u \in DOMAIN pageCache \cup {currentState} |->
             IF u = currentState THEN [of |-> body, cachedAt |-> now] ELSE pageCache[u]])

\* Mutant: the history state is not remembered.
changePageOnly(of, e) == body' = of /\ UNCHANGED currentState

\* changePage, at the entry e of the history.
changePage(of, e) == body' = of /\ currentState' = e.state

-----------------------------------------------------------------------------
(* fetch: without a state to cache under it throws.                            *)

Throws == currentState = NoState

\* A page kept for the address is shown until its replacement comes.
transitionCacheFor(address) == IF transitionCacheEnabled THEN {address} \cap DOMAIN pageCache' ELSE {}

fetchReplacement(address, e) ==
  /\ IF transitionCacheFor(address) = {} THEN UNCHANGED <<body, currentState>>
     ELSE changePage(pageCache'[address].of, e)
  /\ xhr' = address
  /\ UNCHANGED <<transitionCacheEnabled, listening, astray>>

fetch(address) ==
  /\ cacheCurrentPage
  /\ IF address = Here.shown THEN UNCHANGED <<entries, at>>   \* reflectNewUrl
     ELSE Pushed(Entry(address, address, Here.doc))
  /\ fetchReplacement(address, entries'[at'])

\* A click on a link that is not ignored; when the handler throws, the browser
\* follows the link, as it does those that are ignored.
Visit == \E url \in Urls : Move /\ IF Throws THEN Load(url) ELSE fetch(Plain(url))
FollowIgnored == \E url \in Urls : Move /\ Load(url)

\* anchoredLink: the address there is, with a hash.
FollowAnchor ==
  /\ Move /\ ~Here.shown.hash
  /\ Pushed(Entry(NoState, Address(Here.shown.url, TRUE), Here.doc))
  /\ UNCHANGED <<body, currentState, pageCache, xhr, transitionCacheEnabled, listening, clock, astray>>

-----------------------------------------------------------------------------
(* The request ends: xhr.onload, onerror and onloadend.                        *)

Replace ==
  /\ xhr # NoRequest
  /\ changePage(Page(xhr.url), Here)
  /\ IF xhr.url \in DOMAIN Moved   \* reflectRedirectedUrl
     THEN entries' = [entries EXCEPT ![at].shown.url = Moved[xhr.url], ![at].state = currentState']
     ELSE UNCHANGED entries
  /\ xhr' = NoRequest
  /\ UNCHANGED <<at, pageCache, transitionCacheEnabled, listening, clock, astray, moves>>

\* An error, another type, other assets, or no answer.  Where the address has a
\* hash, going to it loads nothing.
GiveUp ==
  /\ xhr # NoRequest /\ UNCHANGED moves
  /\ IF xhr.hash /\ Here.shown = xhr
     THEN /\ xhr' = NoRequest /\ astray' = (astray \/ body # Page(xhr.url))
          /\ UNCHANGED <<entries, at, body, currentState, pageCache, transitionCacheEnabled, listening, clock>>
     ELSE Load(xhr.url)

-----------------------------------------------------------------------------
(* Back and Forward.                                                           *)

bypassOnLoadPopstate ==
  /\ ~listening /\ listening' = TRUE
  /\ UNCHANGED <<entries, at, body, currentState, pageCache, xhr, transitionCacheEnabled, clock, astray, moves>>

\* No handler yet, no state in the entry, or the handler throws.
Unheard(e) == ~listening \/ e.state = NoState \/ Throws

fetchHistory(e) ==
  /\ cacheCurrentPage
  /\ changePage(pageCache[e.state].of, e)
  /\ xhr' = NoRequest
  /\ UNCHANGED <<transitionCacheEnabled, listening, astray>>

\* Between two entries of one document: popstate.
installHistoryChangeHandler(e) ==
  /\ UNCHANGED entries
  /\ CASE Unheard(e) -> /\ astray' = (astray \/ body # Page(e.shown.url) \/ xhr \notin {NoRequest, e.shown})
                        /\ UNCHANGED <<body, currentState, pageCache, xhr, transitionCacheEnabled, listening, clock>>
       [] ~Unheard(e) /\ e.state \in DOMAIN pageCache -> fetchHistory(e)
       [] OTHER -> cacheCurrentPage /\ fetchReplacement(e.shown, e)

\* Into another document: it is loaded.
Traverse ==
  \E to \in {at - 1, at + 1} \cap DOMAIN entries :
     LET e == entries[to]
         a == Address(Page(e.shown.url), e.shown.hash)
     IN  /\ Move /\ at' = to
         /\ IF e.doc = Here.doc THEN installHistoryChangeHandler(e)
            ELSE entries' = [entries EXCEPT ![to] = Entry(a, a, e.doc)] /\ Initialized(a)

VisitsNext ==
  \/ Visit \/ FollowIgnored \/ FollowAnchor \/ Traverse
  \/ Replace \/ GiveUp \/ bypassOnLoadPopstate

-----------------------------------------------------------------------------
(* Once nothing is requested, the page shown is that of the address, and every *)
(* page kept is that of the address it is kept under, as long as no Back or    *)
(* Forward of this document has gone unheard (bypassOnLoadPopstate, a hash, a  *)
(* handler that throws), and none of its entries was left with the state of    *)
(* another page (reflectRedirectedUrl after one that was) and loaded again;    *)
(* and no more pages are kept than cacheSize.                                  *)
PagesInPlace ==
  /\ ~astray => /\ xhr = NoRequest => body = Page(Here.shown.url)
                /\ \A a \in DOMAIN pageCache : pageCache[a].of = Page(a.url)
  /\ Cardinality(DOMAIN pageCache) <= CacheSize
=============================================================================
