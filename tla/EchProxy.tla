------------------------------ MODULE EchProxy ------------------------------
(***************************************************************************)
(* The ECH reverse proxy (pkg/echproxy/proxy.go): one handler per request  *)
(* chooses the upstream of the entry, adds the cookies the proxy keeps for *)
(* that upstream, sends the request over one of three outlets and passes   *)
(* the answer on, rewriting text.  The handlers share four caches, each    *)
(* behind a lock of its own that is never held across a network call: the  *)
(* addresses of a host, the outlet of a wildcard host, the HTTP/2          *)
(* transports of the addresses, and the cookies.                           *)
(*                                                                         *)
(* A request is the path of one handler; a handler that has answered may   *)
(* serve the next request.  Text is a number of units; MaxRewrite stands   *)
(* for maxRewriteSize.  Cookies have one name.                             *)
(***************************************************************************)
EXTENDS Naturals, Sequences, FiniteSets

CONSTANTS
  Handlers,     \* the handlers that may run at once
  Hosts,        \* the upstream hosts
  Outlet,       \* Outlet[h]: "ech", "sni", "direct", or "auto" for a wildcard host
  IPs,          \* addresses
  Cloudflare,   \* those of Cloudflare's edge
  Lists,        \* Lists[h]: what DoH answers for h, one list of addresses after
                \* the other; the empty one stands for a failure
  Values,       \* values of cookies
  Fixed,        \* Fixed[h]: the cookie configured for h, or None
  Browser,      \* the cookie a browser sends
  None,         \* no cookie, no outlet, no cache entry
  MaxPool,      \* maxSNITransports
  MaxRewrite,   \* maxRewriteSize, in units
  Asked         \* Asked[r]: the answers upstream may give to handler r's requests

Cookies == [val : Values, live : BOOLEAN]

\* An answer: its body's length and whether the header tells it, whether it is
\* text, whether it is compressed and can be decompressed, the cookie it sets.
Answers == [size : Nat, known : BOOLEAN, text : BOOLEAN, coded : BOOLEAN, sound : BOOLEAN,
            set : {None} \cup Cookies]

\* Why a handler has ended.
Causes == {"done", "failed", "broken", "gone"}

ASSUME EchAssumption ==
  /\ Cloudflare \subseteq IPs
  /\ None \notin Values \cup {Browser} \cup Causes /\ Browser \notin Values
  /\ \A h \in Hosts : /\ Outlet[h] \in {"ech", "sni", "direct", "auto"}
                      /\ Lists[h] \in Seq(Seq(IPs)) /\ Lists[h] # <<>>
                      /\ Fixed[h] \in Values \cup {None}
  /\ MaxPool \in Nat \ {0} /\ MaxRewrite \in Nat
  /\ \A r \in Handlers : Asked[r] \subseteq Answers

VARIABLES
  pc,         \* pc[r]: where handler r is
  host,       \* host[r]: the upstream host of its request
  outlet,     \* outlet[r]: how the request leaves
  cookie,     \* cookie[r]: the cookie it carries
  ips,        \* ips[r]: the addresses sniFrontDo walks through
  next,       \* next[r]: the one it tries next
  round,      \* round[r]: attempt, 0 or 1; 2 when both failed
  resp,       \* resp[r]: the upstream's answer
  taken,      \* taken[r]: units of the body read from upstream
  got,        \* got[r]: units the browser got, in order
  cause,      \* cause[r]: why r has ended
  ipCache,    \* ipCache[h]: addresses of h and whether they are fresh
  modeCache,  \* modeCache[h]: outlet found for h and whether it is fresh
  pool,       \* the addresses that have a transport
  jar,        \* jar[h]: the cookie kept for h: its value and whether it lives
  dns,        \* dns[h]: which of Lists[h] DoH answers now
  lasting     \* lasting[h]: the last cookie with a lifetime that was saved of h, while
              \* it lasts; one that deletes leaves it, see SaveCookies

reqVars == <<host, outlet, cookie>>
sniVars == <<ips, next, round>>
bodyVars == <<resp, taken, got>>
caches == <<ipCache, modeCache, pool>>
jars == <<jar, lasting>>
vars == <<pc, reqVars, sniVars, bodyVars, cause, caches, jars, dns>>

NoBody == [size |-> 0, known |-> TRUE, text |-> FALSE, coded |-> FALSE, sound |-> TRUE,
           set |-> None]
\* Is there a cache entry that has not run out?
Fresh(e) == IF e = None THEN FALSE ELSE e.fresh
\* Is there a cookie that has not died?
Living(c) == IF c = None THEN FALSE ELSE c.live
\* The outlet for a host with these addresses; with none, ECH.
OutletFor(list) == IF list = <<>> \/ list[1] \in Cloudflare THEN "ech" ELSE "sni"

Init ==
  /\ pc = [r \in Handlers |-> "idle"] /\ host \in [Handlers -> Hosts]
  /\ outlet = [r \in Handlers |-> None] /\ cookie = [r \in Handlers |-> None]
  /\ ips = [r \in Handlers |-> <<>>] /\ next = [r \in Handlers |-> 1]
  /\ round = [r \in Handlers |-> 0]
  /\ resp = [r \in Handlers |-> NoBody] /\ taken = [r \in Handlers |-> 0]
  /\ got = [r \in Handlers |-> <<>>] /\ cause = [r \in Handlers |-> None]
  /\ ipCache = [h \in Hosts |-> None] /\ modeCache = [h \in Hosts |-> None]
  /\ pool = {} /\ jar = [h \in Hosts |-> None]
  /\ dns = [h \in Hosts |-> 1] /\ lasting = [h \in Hosts |-> None]

Goto(r, from, to) == pc[r] = from /\ pc' = [pc EXCEPT ![r] = to]
End(r, why) ==
  /\ pc' = [pc EXCEPT ![r] = "over"]
  /\ cause' = [cause EXCEPT ![r] = why]

-----------------------------------------------------------------------------
(* ProxyHandler up to the round trip.                                      *)

\* A request arrives and matches an entry; that of a wildcard has its outlet
\* found out first.
Match(r, h) ==
  /\ Goto(r, "idle", IF Outlet[h] = "auto" THEN "mode" ELSE "apply")
  /\ host' = [host EXCEPT ![r] = h]
  /\ outlet' = [outlet EXCEPT ![r] = IF Outlet[h] = "auto" THEN None ELSE Outlet[h]]
  /\ UNCHANGED <<cookie, sniVars, bodyVars, cause, caches, jars, dns>>

\* No entry and no wildcard fits the host: the handler answers 502.
NoUpstream(r) ==
  /\ pc[r] = "idle" /\ End(r, "failed")
  /\ UNCHANGED <<reqVars, sniVars, bodyVars, caches, jars, dns>>

\* A mutant of ModeCached: an entry is good for ever.
ModeCachedForEver(r) ==
  LET e == modeCache[host[r]] IN
  /\ Goto(r, "mode", "apply")
  /\ e # None
  /\ outlet' = [outlet EXCEPT ![r] = e.mode]
  /\ UNCHANGED <<host, cookie, sniVars, bodyVars, cause, caches, jars, dns>>

\* wildcardMode: the outlet is in the cache, or the addresses are asked for.
ModeCached(r) ==
  LET e == modeCache[host[r]] IN
  /\ Goto(r, "mode", "apply")
  /\ Fresh(e)
  /\ outlet' = [outlet EXCEPT ![r] = e.mode]
  /\ UNCHANGED <<host, cookie, sniVars, bodyVars, cause, caches, jars, dns>>

ModeUnknown(r) ==
  LET e == modeCache[host[r]] IN
  /\ Goto(r, "mode", "resolve") /\ ~Fresh(e)
  /\ UNCHANGED <<reqVars, sniVars, bodyVars, cause, caches, jars, dns>>

\* The configured cookie goes before what applyCookies has put in the header.
Overridden(h, c) == IF Fixed[h] # None THEN Fixed[h] ELSE c

\* applyCookies: a dead cookie is dropped, a living one goes before the
\* browser's of the same name.
ApplyCookies(r) ==
  LET h == host[r] IN
  /\ Goto(r, "apply", IF outlet[r] = "sni" THEN "resolve" ELSE "send")
  /\ jar' = [jar EXCEPT ![h] = IF Living(@) THEN @ ELSE None]
  /\ cookie' = [cookie EXCEPT ![r] =
                  Overridden(h, IF jar'[h] = None THEN Browser ELSE jar'[h].val)]
  /\ UNCHANGED <<host, outlet, sniVars, bodyVars, cause, caches, lasting, dns>>

-----------------------------------------------------------------------------
(* resolveHostIPs, for the outlet (outlet[r] = None) and for sniFrontDo.   *)

\* What comes after the addresses: one is enough to know the outlet; an SNI
\* request tries them all, unless both rounds are over.
Resolved(r, list) ==
  IF outlet[r] = None
  THEN /\ pc' = [pc EXCEPT ![r] = "keep"]
       /\ ips' = [ips EXCEPT ![r] = list] /\ UNCHANGED <<next, round, cause>>
  ELSE IF round[r] = 2
  THEN End(r, "failed") /\ UNCHANGED sniVars
  ELSE /\ pc' = [pc EXCEPT ![r] = "try"]
       /\ ips' = [ips EXCEPT ![r] = list] /\ next' = [next EXCEPT ![r] = 1]
       /\ UNCHANGED <<round, cause>>

IPsCached(r) ==
  LET e == ipCache[host[r]] IN
  /\ pc[r] = "resolve" /\ Fresh(e)
  /\ Resolved(r, e.ips)
  /\ UNCHANGED <<reqVars, bodyVars, caches, jars, dns>>

\* Nothing fresh: DoH is asked, the lock released.  Its answer is on its way
\* in ips[r] while others change the cache.
AskDoH(r) ==
  LET h == host[r]  e == ipCache[h] IN
  /\ Goto(r, "resolve", "store") /\ ~Fresh(e) /\ Lists[h][dns[h]] # <<>>
  /\ ips' = [ips EXCEPT ![r] = Lists[h][dns[h]]]
  /\ UNCHANGED <<reqVars, next, round, bodyVars, cause, caches, jars, dns>>

StoreIPs(r) ==
  /\ pc[r] = "store"
  /\ ipCache' = [ipCache EXCEPT ![host[r]] = [ips |-> ips[r], fresh |-> TRUE]]
  /\ Resolved(r, ips[r])
  /\ UNCHANGED <<reqVars, bodyVars, modeCache, pool, jars, dns>>

\* DoH fails or knows no address: that ends an SNI request.
DoHFails(r) ==
  LET e == ipCache[host[r]] IN
  /\ pc[r] = "resolve" /\ ~Fresh(e)
  /\ Lists[host[r]][dns[host[r]]] = <<>>
  /\ IF outlet[r] = None
     THEN pc' = [pc EXCEPT ![r] = "keep"] /\ ips' = [ips EXCEPT ![r] = <<>>] /\ UNCHANGED cause
     ELSE End(r, "failed") /\ UNCHANGED ips
  /\ UNCHANGED <<reqVars, next, round, bodyVars, caches, jars, dns>>

\* wildcardMode keeps what it found.  When DoH failed the host is taken to be
\* behind Cloudflare, and that is kept like an answer.
KeepOutlet(r) ==
  LET m == OutletFor(ips[r]) IN
  /\ Goto(r, "keep", "apply")
  /\ outlet' = [outlet EXCEPT ![r] = m]
  /\ modeCache' = [modeCache EXCEPT ![host[r]] = [mode |-> m, fresh |-> TRUE]]
  /\ ips' = [ips EXCEPT ![r] = <<>>]
  /\ UNCHANGED <<host, cookie, next, round, bodyVars, cause, ipCache, pool, jars, dns>>

-----------------------------------------------------------------------------
(* The round trip.                                                         *)

\* getSNITransport: a full pool is emptied before the next transport is put in.
Pooled(ip) ==
  IF ip \in pool THEN pool
  ELSE IF Cardinality(pool) >= MaxPool THEN {ip} ELSE pool \cup {ip}

Answered(r, a) ==
  /\ pc' = [pc EXCEPT ![r] = "save"] /\ resp' = [resp EXCEPT ![r] = a]

\* sniFrontDo tries the next address of the list.
TryAnswered(r, a) ==
  /\ pc[r] = "try" /\ next[r] <= Len(ips[r])
  /\ pool' = Pooled(ips[r][next[r]])
  /\ Answered(r, a)
  /\ UNCHANGED <<reqVars, sniVars, taken, got, cause, ipCache, modeCache, jars, dns>>

TryFails(r) ==
  /\ pc[r] = "try" /\ next[r] <= Len(ips[r])
  /\ pool' = Pooled(ips[r][next[r]])
  /\ next' = [next EXCEPT ![r] = @ + 1]
  /\ UNCHANGED <<pc, reqVars, ips, round, bodyVars, cause, ipCache, modeCache, jars, dns>>

\* Every address has failed: the cache entry goes and DoH is asked again.
RoundFails(r) ==
  /\ Goto(r, "try", "resolve") /\ next[r] > Len(ips[r])
  /\ ipCache' = [ipCache EXCEPT ![host[r]] = None]
  /\ round' = [round EXCEPT ![r] = @ + 1]
  /\ UNCHANGED <<reqVars, ips, next, bodyVars, cause, modeCache, pool, jars, dns>>

\* The other outlets make one attempt.
SendAnswered(r, a) ==
  /\ pc[r] = "send" /\ Answered(r, a)
  /\ UNCHANGED <<reqVars, sniVars, taken, got, cause, caches, jars, dns>>

SendFails(r) ==
  /\ pc[r] = "send" /\ End(r, "failed")
  /\ UNCHANGED <<reqVars, sniVars, bodyVars, caches, jars, dns>>

\* The request is out: what was needed to send it is needed no more.
Forget(r) ==
  /\ outlet' = [outlet EXCEPT ![r] = None] /\ cookie' = [cookie EXCEPT ![r] = None]
  /\ ips' = [ips EXCEPT ![r] = <<>>] /\ next' = [next EXCEPT ![r] = 1]
  /\ round' = [round EXCEPT ![r] = 0]

\* A mutant of SaveCookies: the cookie that is there stays.
SaveCookiesOnce(r) ==
  LET h == host[r]
      c == resp[r].set
      kept == IF Living(jar[h]) THEN jar[h] ELSE None IN
  /\ Goto(r, "save", "head")
  /\ jar' = [jar EXCEPT ![h] = IF c = None THEN @
                                ELSE IF kept = None /\ c.live THEN c ELSE kept]
  /\ lasting' = [lasting EXCEPT ![h] = IF Living(c) THEN c.val ELSE @]
  /\ Forget(r)
  /\ UNCHANGED <<host, bodyVars, cause, caches, dns>>

\* saveCookies: what has died is dropped, a living cookie takes the place of
\* the one with its name.  A dead one is passed over, and the one it was sent
\* to delete stays.
SaveCookies(r) ==
  LET h == host[r]
      c == resp[r].set
      kept == IF Living(jar[h]) THEN jar[h] ELSE None IN
  /\ Goto(r, "save", "head")
  /\ jar' = [jar EXCEPT ![h] = IF c = None THEN @
                                ELSE IF c.live THEN c ELSE kept]
  /\ lasting' = [lasting EXCEPT ![h] = IF Living(c) THEN c.val ELSE @]
  /\ Forget(r)
  /\ UNCHANGED <<host, bodyVars, cause, caches, dns>>

-----------------------------------------------------------------------------
(* The answer's body.  The browser may be gone at any write.               *)

Units(i, j) == [k \in 1 .. (j + 1 - i) |-> i + k - 1]
Rewritten(r) == resp[r].text /\ (~resp[r].known \/ resp[r].size <= MaxRewrite)
\* What ReadAll(LimitReader(maxRewriteSize+1)) may read.
AtMost(n) == IF n <= MaxRewrite + 1 THEN n ELSE MaxRewrite + 1

\* Not text, or known to be too long: the body is streamed.
PassThrough(r) ==
  /\ Goto(r, "head", "stream") /\ ~Rewritten(r)
  /\ UNCHANGED <<reqVars, sniVars, bodyVars, cause, caches, jars, dns>>

\* The body breaks while it is read: what was read is written, and no more.
ReadBreaks(r) ==
  /\ pc[r] = "head" /\ Rewritten(r)
  /\ \E n \in 0 .. AtMost(resp[r].size) :
       /\ taken' = [taken EXCEPT ![r] = n]
       /\ got' = [got EXCEPT ![r] = Units(1, n)]
  /\ End(r, "broken")
  /\ UNCHANGED <<reqVars, sniVars, resp, caches, jars, dns>>

\* A mutant of TooLong: what was read is dropped when streaming begins.
TooLongDropped(r, sent) ==
  LET n == MaxRewrite + 1 IN
  /\ Goto(r, "head", "stream") /\ Rewritten(r) /\ resp[r].size >= n
  /\ taken' = [taken EXCEPT ![r] = n]
  /\ cause' = [cause EXCEPT ![r] = IF sent THEN @ ELSE "gone"]
  /\ UNCHANGED <<got, reqVars, sniVars, resp, caches, jars, dns>>

\* Longer than can be rewritten: what was read goes out, the rest is streamed.
TooLong(r, sent) ==
  LET n == MaxRewrite + 1 IN
  /\ Goto(r, "head", "stream") /\ Rewritten(r) /\ resp[r].size >= n
  /\ taken' = [taken EXCEPT ![r] = n]
  /\ got' = [got EXCEPT ![r] = IF sent THEN Units(1, n) ELSE @]
  /\ cause' = [cause EXCEPT ![r] = IF sent THEN @ ELSE "gone"]
  /\ UNCHANGED <<reqVars, sniVars, resp, caches, jars, dns>>

\* Decompressed and rewritten as a whole.  When the write fails the handler
\* goes on to the streaming loop, which finds the body read.
Rewrite(r, sent) ==
  LET n == resp[r].size IN
  /\ pc[r] = "head" /\ Rewritten(r) /\ n <= MaxRewrite
  /\ resp[r].coded => resp[r].sound
  /\ taken' = [taken EXCEPT ![r] = n]
  /\ IF sent
     THEN got' = [got EXCEPT ![r] = Units(1, n)] /\ End(r, "done")
     ELSE /\ pc' = [pc EXCEPT ![r] = "stream"]
          /\ cause' = [cause EXCEPT ![r] = "gone"] /\ UNCHANGED got
  /\ UNCHANGED <<reqVars, sniVars, resp, caches, jars, dns>>

\* It cannot be decompressed, or is too long when it is.  The comment there says
\* the compressed body is passed on, but the assignment has put decompressBody's
\* nil into body, and nothing is left to write.
Undecodable(r) ==
  /\ pc[r] = "head" /\ Rewritten(r) /\ resp[r].size <= MaxRewrite
  /\ resp[r].coded /\ ~resp[r].sound
  /\ taken' = [taken EXCEPT ![r] = resp[r].size]
  /\ End(r, "done")
  /\ UNCHANGED <<reqVars, sniVars, resp, got, caches, jars, dns>>

\* The streaming loop: one read, one write.
StreamUnit(r, sent) ==
  /\ pc[r] = "stream" /\ taken[r] < resp[r].size
  /\ taken' = [taken EXCEPT ![r] = @ + 1]
  /\ IF sent /\ cause[r] # "gone"
     THEN got' = [got EXCEPT ![r] = Append(@, taken'[r])] /\ UNCHANGED <<pc, cause>>
     ELSE End(r, "gone") /\ UNCHANGED got
  /\ UNCHANGED <<reqVars, sniVars, resp, caches, jars, dns>>

StreamEnds(r) ==
  /\ pc[r] = "stream" /\ taken[r] = resp[r].size
  /\ End(r, IF cause[r] = "gone" THEN "gone" ELSE "done")
  /\ UNCHANGED <<reqVars, sniVars, bodyVars, caches, jars, dns>>

StreamBreaks(r) ==
  /\ pc[r] = "stream" /\ taken[r] < resp[r].size
  /\ End(r, IF cause[r] = "gone" THEN "gone" ELSE "broken")
  /\ UNCHANGED <<reqVars, sniVars, bodyVars, caches, jars, dns>>

\* The handler returns; its next request starts from nothing.
Return(r) ==
  /\ Goto(r, "over", "idle")
  /\ Forget(r) /\ resp' = [resp EXCEPT ![r] = NoBody]
  /\ taken' = [taken EXCEPT ![r] = 0] /\ got' = [got EXCEPT ![r] = <<>>]
  /\ cause' = [cause EXCEPT ![r] = None]
  /\ UNCHANGED <<host, caches, jars, dns>>

-----------------------------------------------------------------------------
(* Time and the world.                                                     *)

\* The entry of an address list or of an outlet runs out, a cookie dies.
IPsExpire(h) ==
  /\ Fresh(ipCache[h])
  /\ ipCache' = [ipCache EXCEPT ![h].fresh = FALSE]
  /\ UNCHANGED <<pc, reqVars, sniVars, bodyVars, cause, modeCache, pool, jars, dns>>

ModeExpires(h) ==
  /\ Fresh(modeCache[h])
  /\ modeCache' = [modeCache EXCEPT ![h].fresh = FALSE]
  /\ UNCHANGED <<pc, reqVars, sniVars, bodyVars, cause, ipCache, pool, jars, dns>>

CookieDies(h) ==
  /\ Living(jar[h])
  /\ jar' = [jar EXCEPT ![h].live = FALSE]
  /\ lasting' = [lasting EXCEPT ![h] = None]
  /\ UNCHANGED <<pc, reqVars, sniVars, bodyVars, cause, caches, dns>>

\* The host moves to other addresses.
HostMoves(h) ==
  /\ dns[h] < Len(Lists[h])
  /\ dns' = [dns EXCEPT ![h] = @ + 1]
  /\ UNCHANGED <<pc, reqVars, sniVars, bodyVars, cause, caches, jars>>

Outward(r) ==
  \/ ModeCached(r) \/ ModeUnknown(r) \/ ApplyCookies(r)
  \/ IPsCached(r) \/ AskDoH(r) \/ StoreIPs(r) \/ DoHFails(r) \/ KeepOutlet(r)
  \/ \E a \in Asked[r] : TryAnswered(r, a) \/ SendAnswered(r, a)
  \/ TryFails(r) \/ RoundFails(r) \/ SendFails(r)

Inward(r) ==
  \/ SaveCookies(r)
  \/ PassThrough(r) \/ ReadBreaks(r) \/ Undecodable(r)
  \/ \E sent \in BOOLEAN : TooLong(r, sent) \/ Rewrite(r, sent) \/ StreamUnit(r, sent)
  \/ StreamEnds(r) \/ StreamBreaks(r) \/ Return(r)

Arrives(r) == NoUpstream(r) \/ \E h \in Hosts : Match(r, h)
Expiry(h) == IPsExpire(h) \/ ModeExpires(h)

Next ==
  \/ \E r \in Handlers : Arrives(r) \/ Outward(r) \/ Inward(r)
  \/ \E h \in Hosts : Expiry(h) \/ CookieDies(h) \/ HostMoves(h)

\* Cache entries have a lifetime.  Nothing is asked of the handlers: an upstream
\* that does not answer is waited for without limit.
Fairness == \A h \in Hosts : WF_vars(IPsExpire(h)) /\ WF_vars(ModeExpires(h))

Spec == Init /\ [][Next]_vars
FairSpec == Spec /\ Fairness

-----------------------------------------------------------------------------
\* The handlers' state has its type, a handler that tries addresses has one
\* left or is through, in one of its two rounds, and the transports their limit.
HandlerType ==
  /\ pc \in [Handlers -> {"idle", "mode", "resolve", "store", "keep", "apply", "try",
                          "send", "save", "head", "stream", "over"}]
  /\ host \in [Handlers -> Hosts]
  /\ outlet \in [Handlers -> {None, "ech", "sni", "direct"}]
  /\ cookie \in [Handlers -> Values \cup {Browser, None}]
  /\ ips \in [Handlers -> Seq(IPs)] /\ next \in [Handlers -> Nat \ {0}]
  /\ round \in [Handlers -> 0..2]
  /\ \A r \in Handlers :
       pc[r] = "try" => next[r] <= Len(ips[r]) + 1 /\ round[r] < 2

BodyType ==
  /\ resp \in [Handlers -> Answers]
  /\ taken \in [Handlers -> Nat] /\ \A r \in Handlers : taken[r] <= resp[r].size
  /\ got \in [Handlers -> Seq(Nat)]
  /\ cause \in [Handlers -> Causes \cup {None}]

CacheType ==
  /\ ipCache \in [Hosts -> {None} \cup [ips : Seq(IPs), fresh : BOOLEAN]]
  /\ modeCache \in [Hosts -> {None} \cup [mode : {"ech", "sni"}, fresh : BOOLEAN]]
  /\ pool \subseteq IPs /\ Cardinality(pool) <= MaxPool
  /\ jar \in [Hosts -> {None} \cup Cookies]
  /\ lasting \in [Hosts -> {None} \cup Values]
  /\ dns \in [Hosts -> Nat] /\ \A h \in Hosts : dns[h] \in 1..Len(Lists[h])

TypeOK == HandlerType /\ BodyType /\ CacheType

\* A browser that stays gets the whole body, each unit once and in order, of
\* an upstream that does not break, whether the body is rewritten, streamed or
\* handed from the one to the other in the middle; a browser that leaves and
\* one whose upstream breaks get a beginning of it (proxy.go:890-965).  A body
\* that cannot be decompressed is the exception: see Undecodable.
WholeBody ==
  \A r \in Handlers :
    /\ got[r] = Units(1, Len(got[r])) /\ Len(got[r]) <= taken[r]
    /\ cause[r] = "done" /\ (resp[r].text /\ resp[r].coded => resp[r].sound)
         => Len(got[r]) = resp[r].size

\* Whatever handlers save and apply cookies at once, a request carries the
\* cookie configured for its host (proxy.go:54-57); without one, the last with
\* a lifetime that was saved of an answer of the host, if it still lives, and
\* the browser's otherwise (proxy.go:1356-1357): none that has run out or was
\* replaced.  One that the host deletes stays in the jar (1336-1339), against
\* "what the server has issued last counts" (1357), and is carried on.
Due(h) ==
  IF Fixed[h] # None THEN Fixed[h]
  ELSE IF lasting[h] # None THEN lasting[h] ELSE Browser
CarriesLatest ==
  [][\A r \in Handlers :
       pc[r] = "apply" /\ pc'[r] # "apply" => cookie'[r] = Due(host[r])]_vars

\* A wildcard host that moves off Cloudflare, or DoH failing once, does not
\* leave requests on the wrong outlet for ever (proxy.go:633-635), although
\* the addresses and the outlet are cached apart and a handler may store an
\* answer from before the move after it.
OutletHeals ==
  <>[][\A r \in Handlers :
         outlet[r] = None /\ outlet'[r] # None /\ Outlet[host[r]] = "auto" =>
           outlet'[r] = OutletFor(Lists[host[r]][dns[host[r]]])]_vars
=============================================================================
