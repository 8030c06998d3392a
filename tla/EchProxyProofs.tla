--------------------------- MODULE EchProxyProofs ---------------------------
(***************************************************************************)
(* The ECH reverse proxy for any number of handlers, hosts and addresses,  *)
(* any answers of DoH and of the upstreams and any limits: every browser   *)
(* gets its body, a request carries the cookie it is due, and the pool of  *)
(* transports keeps its limit.                                             *)
(*                                                                         *)
(* The body is followed from phase to phase.  Before the head of the       *)
(* answer is dealt with nothing is read; while it is streamed a browser    *)
(* that has not left has all that was read (BodyOK).  The cookies are      *)
(* right because what the jar holds alive for a host is, at every moment,  *)
(* the last cookie with a lifetime that was saved of it (JarIsCurrent).    *)
(*                                                                         *)
(* The second half is about EchRewrite, for any entries and any text: the  *)
(* entry of a subdomain is looked up as that subdomain, a whole name is    *)
(* replaced and nothing else.  Its recursions run over infinitely many     *)
(* texts, so that they define a function is a lemma (RecursionDefined).    *)
(***************************************************************************)
EXTENDS EchProxy, EchRewrite, FiniteSetTheorems, SequenceTheorems, NaturalsInduction, TLAPS

\* Nothing is read before the head of the answer; what the browser has is a
\* beginning of what was read, and all of it while it streams and has not left.
BodyOK(r) ==
  /\ pc[r] \notin {"stream", "over"} => taken[r] = 0 /\ got[r] = <<>> /\ cause[r] = None
  /\ pc[r] = "stream" => cause[r] \in {None, "gone"}
  /\ \E n \in 0..taken[r] :
       /\ got[r] = Units(1, n)
       /\ pc[r] = "stream" /\ cause[r] = None => n = taken[r]
       /\ cause[r] = "done" /\ (resp[r].text /\ resp[r].coded => resp[r].sound)
            => n = resp[r].size

\* The jar holds the last living cookie.
JarIsCurrent ==
  \A h \in Hosts : lasting[h] = IF Living(jar[h]) THEN jar[h].val ELSE None

EchInv ==
  /\ TypeOK
  /\ IsFiniteSet(pool)
  /\ \A r \in Handlers : BodyOK(r)
  /\ JarIsCurrent

-----------------------------------------------------------------------------
(* Values.                                                                 *)

\* The first n units of a body.
LEMMA FirstUnits ==
  ASSUME NEW n \in Nat
  PROVE  /\ Units(1, n) \in Seq(Nat) /\ Len(Units(1, n)) = n
         /\ Append(Units(1, n), n + 1) = Units(1, n + 1)
         /\ Units(1, 0) = <<>>
<1>1. Units(1, n) = [k \in 1..n |-> k] /\ Units(1, n + 1) = [k \in 1..n + 1 |-> k]
  <2>1. n + 1 - 1 = n /\ n + 1 + 1 - 1 = n + 1
    OBVIOUS
  <2>2. \A m \in Nat : \A k \in 1..m : 1 + k - 1 = k
    OBVIOUS
  <2> QED
    BY <2>1, <2>2 DEF Units
<1>2. Units(1, n) \in Seq(Nat) /\ Len(Units(1, n)) = n
  BY <1>1
<1>3. Units(1, n + 1) \in Seq(Nat) /\ Len(Units(1, n + 1)) = n + 1
  BY <1>1
<1>4. Append(Units(1, n), n + 1) = Units(1, n + 1)
  BY <1>1, <1>2, <1>3, SeqEqual
<1>5. Units(1, 0) = <<>>
  BY DEF Units
<1> QED
  BY <1>2, <1>4, <1>5

LEMMA AnswerParts ==
  ASSUME NEW a \in Answers
  PROVE  /\ a.size \in Nat /\ a.set \in {None} \cup Cookies
         /\ a.text \in BOOLEAN /\ a.coded \in BOOLEAN /\ a.sound \in BOOLEAN
  BY DEF Answers

LEMMA NoBodyTyped == NoBody \in Answers /\ NoBody.size = 0
  BY DEF NoBody, Answers

\* A pool with one more transport.
LEMMA PooledBounded ==
  ASSUME pool \subseteq IPs, IsFiniteSet(pool), Cardinality(pool) <= MaxPool, NEW ip \in IPs
  PROVE  /\ Pooled(ip) \subseteq IPs /\ IsFiniteSet(Pooled(ip))
         /\ Cardinality(Pooled(ip)) <= MaxPool
<1>1. MaxPool \in Nat \ {0} /\ Cardinality(pool) \in Nat
  BY EchAssumption, FS_CardinalityType
<1>2. CASE ip \in pool
  BY <1>2 DEF Pooled
<1>3. CASE ip \notin pool /\ Cardinality(pool) >= MaxPool
  <2>1. Pooled(ip) = {ip}
    BY <1>3 DEF Pooled
  <2>2. IsFiniteSet({ip}) /\ Cardinality({ip}) = 1
    BY FS_Singleton
  <2> QED
    BY <1>1, <2>1, <2>2
<1>4. CASE ip \notin pool /\ ~(Cardinality(pool) >= MaxPool)
  <2>1. Pooled(ip) = pool \cup {ip}
    BY <1>4 DEF Pooled
  <2>2. IsFiniteSet(pool \cup {ip}) /\ Cardinality(pool \cup {ip}) = Cardinality(pool) + 1
    BY <1>4, FS_AddElement
  <2> QED
    BY <1>1, <1>4, <2>1, <2>2
<1> QED
  BY <1>2, <1>3, <1>4

\* The addresses that DoH answers, and those in the cache.
LEMMA AddressTypes ==
  ASSUME CacheType, NEW h \in Hosts
  PROVE  /\ Lists[h][dns[h]] \in Seq(IPs)
         /\ Fresh(ipCache[h]) => ipCache[h].ips \in Seq(IPs)
         /\ Fresh(modeCache[h]) => modeCache[h].mode \in {"ech", "sni"}
<1>1. Lists[h][dns[h]] \in Seq(IPs)
  BY EchAssumption DEF CacheType
<1>2. Fresh(ipCache[h]) => ipCache[h] \in [ips : Seq(IPs), fresh : BOOLEAN]
  BY DEF CacheType, Fresh
<1>3. Fresh(modeCache[h]) => modeCache[h] \in [mode : {"ech", "sni"}, fresh : BOOLEAN]
  BY DEF CacheType, Fresh
<1> QED
  BY <1>1, <1>2, <1>3

-----------------------------------------------------------------------------
(* The way of a request.                                                   *)

\* A step of the handler of r that leaves its body alone.
LEMMA BodyStays ==
  ASSUME HandlerType, BodyType, \A s \in Handlers : BodyOK(s), NEW r \in Handlers,
         UNCHANGED <<bodyVars, cause>>,
         NEW p \in {"mode", "resolve", "store", "keep", "apply", "try", "send", "save", "head"},
         pc[r] \notin {"stream", "over"}, pc' = [pc EXCEPT ![r] = p]
  PROVE  BodyType' /\ \A s \in Handlers : BodyOK(s)'
<1>1. pc'[r] = p /\ \A s \in Handlers \ {r} : pc'[s] = pc[s]
  BY DEF HandlerType
<1>2. BodyType'
  BY DEF bodyVars, BodyType
<1>3. ASSUME NEW s \in Handlers PROVE BodyOK(s)'
  BY <1>1 DEF BodyOK, bodyVars
<1> QED
  BY <1>2, <1>3

\* A handler ends before it had an answer.
LEMMA FailsEmpty ==
  ASSUME HandlerType, BodyType, \A s \in Handlers : BodyOK(s), NEW r \in Handlers,
         UNCHANGED bodyVars, pc[r] \notin {"stream", "over"}, End(r, "failed")
  PROVE  BodyType' /\ \A s \in Handlers : BodyOK(s)'
<1>1. /\ pc'[r] = "over" /\ \A s \in Handlers \ {r} : pc'[s] = pc[s]
      /\ cause'[r] = "failed" /\ \A s \in Handlers \ {r} : cause'[s] = cause[s]
  BY DEF HandlerType, BodyType, End
<1>2. BodyType'
  BY DEF bodyVars, BodyType, End, Causes
<1>3. ASSUME NEW s \in Handlers PROVE BodyOK(s)'
  <2>1. CASE s = r
    BY <1>1, <2>1 DEF BodyOK, bodyVars
  <2>2. CASE s # r
    BY <1>1, <2>2 DEF BodyOK, bodyVars
  <2> QED
    BY <2>1, <2>2
<1> QED
  BY <1>2, <1>3

\* What Resolved does.
LEMMA ResolvedTypes ==
  ASSUME EchInv, NEW r \in Handlers, NEW list \in Seq(IPs), Resolved(r, list),
         pc[r] \in {"resolve", "store"}, UNCHANGED <<reqVars, bodyVars>>
  PROVE  HandlerType' /\ BodyType' /\ \A s \in Handlers : BodyOK(s)'
<1>1. HandlerType /\ BodyType /\ \A s \in Handlers : BodyOK(s)
  BY DEF EchInv, TypeOK
<1>2. CASE outlet[r] = None
  <2>1. pc' = [pc EXCEPT ![r] = "keep"] /\ ips' = [ips EXCEPT ![r] = list]
        /\ UNCHANGED <<next, round, cause>>
    BY <1>2 DEF Resolved
  <2>2. HandlerType'
    BY <1>1, <2>1 DEF HandlerType, reqVars
  <2>3. BodyType' /\ \A s \in Handlers : BodyOK(s)'
    BY <1>1, <2>1, BodyStays
  <2> QED
    BY <2>2, <2>3
<1>3. CASE outlet[r] # None /\ round[r] = 2
  <2>1. End(r, "failed") /\ UNCHANGED sniVars
    BY <1>3 DEF Resolved
  <2>2. HandlerType'
    BY <1>1, <2>1 DEF HandlerType, reqVars, sniVars, End
  <2>3. BodyType' /\ \A s \in Handlers : BodyOK(s)'
    BY <1>1, <2>1, FailsEmpty
  <2> QED
    BY <2>2, <2>3
<1>4. CASE outlet[r] # None /\ round[r] # 2
  <2>1. pc' = [pc EXCEPT ![r] = "try"] /\ ips' = [ips EXCEPT ![r] = list]
        /\ next' = [next EXCEPT ![r] = 1] /\ UNCHANGED <<round, cause>>
    BY <1>4 DEF Resolved
  <2>2. Len(list) \in Nat
    OBVIOUS
  <2>3. HandlerType'
    <3>1. /\ pc'[r] = "try" /\ ips'[r] = list /\ next'[r] = 1 /\ round'[r] = round[r]
          /\ \A s \in Handlers \ {r} : /\ pc'[s] = pc[s] /\ ips'[s] = ips[s]
                                      /\ next'[s] = next[s] /\ round'[s] = round[s]
      BY <1>1, <2>1 DEF HandlerType
    <3>2. round[r] < 2 /\ 1 <= Len(list) + 1
      <4>1. round[r] \in 0..2
        BY <1>1 DEF HandlerType
      <4> QED
        BY <1>4, <2>2, <4>1
    <3>3. \A s \in Handlers : pc'[s] = "try" => next'[s] <= Len(ips'[s]) + 1 /\ round'[s] < 2
      <4>1. ASSUME NEW s \in Handlers, pc'[s] = "try"
            PROVE  next'[s] <= Len(ips'[s]) + 1 /\ round'[s] < 2
        <5>1. CASE s = r
          BY <3>1, <3>2, <5>1
        <5>2. CASE s # r
          BY <1>1, <3>1, <4>1, <5>2 DEF HandlerType
        <5> QED
          BY <5>1, <5>2
      <4> QED
        BY <4>1
    <3>4. /\ pc' \in [Handlers -> {"idle", "mode", "resolve", "store", "keep", "apply", "try",
                                   "send", "save", "head", "stream", "over"}]
          /\ ips' \in [Handlers -> Seq(IPs)] /\ next' \in [Handlers -> Nat \ {0}]
      BY <1>1, <2>1 DEF HandlerType
    <3> QED
      BY <1>1, <2>1, <3>3, <3>4 DEF HandlerType, reqVars
  <2>4. BodyType' /\ \A s \in Handlers : BodyOK(s)'
    BY <1>1, <2>1, BodyStays
  <2> QED
    BY <2>3, <2>4
<1> QED
  BY <1>2, <1>3, <1>4

\* A step that leaves the caches alone.
LEMMA CachesStay ==
  ASSUME EchInv, UNCHANGED <<caches, jars, dns>>
  PROVE  CacheType' /\ IsFiniteSet(pool)' /\ JarIsCurrent'
  BY DEF EchInv, TypeOK, CacheType, JarIsCurrent, caches, jars

\* A step between the phases before the answer's head that leaves the caches alone.
LEMMA Onward ==
  ASSUME EchInv, NEW r \in Handlers, UNCHANGED <<bodyVars, cause, caches, jars, dns>>,
         NEW p \in {"mode", "resolve", "store", "keep", "apply", "try", "send", "save", "head"},
         pc[r] \notin {"stream", "over"}, pc' = [pc EXCEPT ![r] = p], HandlerType'
  PROVE  EchInv'
<1>1. HandlerType /\ BodyType /\ \A s \in Handlers : BodyOK(s)
  BY DEF EchInv, TypeOK
<1>2. BodyType' /\ \A s \in Handlers : BodyOK(s)'
  BY <1>1, BodyStays
<1> QED
  BY <1>2, CachesStay DEF EchInv, TypeOK

\* A handler ends before it had an answer, and leaves the caches alone.
LEMMA GivesUp ==
  ASSUME EchInv, NEW r \in Handlers, UNCHANGED <<reqVars, sniVars, bodyVars, caches, jars, dns>>,
         pc[r] \notin {"stream", "over"}, End(r, "failed")
  PROVE  EchInv'
<1>1. HandlerType /\ BodyType /\ \A s \in Handlers : BodyOK(s)
  BY DEF EchInv, TypeOK
<1>2. HandlerType'
  BY <1>1 DEF HandlerType, reqVars, sniVars, End
<1>3. BodyType' /\ \A s \in Handlers : BodyOK(s)'
  BY <1>1, FailsEmpty
<1> QED
  BY <1>2, <1>3, CachesStay DEF EchInv, TypeOK

LEMMA MatchStep ==
  ASSUME EchInv, NEW r \in Handlers, NEW h \in Hosts, Match(r, h)
  PROVE  EchInv'
<1>1. PICK p \in {"mode", "apply"} : Goto(r, "idle", p)
  BY DEF Match
<1>2. Outlet[h] = "auto" \/ Outlet[h] \in {"ech", "sni", "direct"}
  BY EchAssumption
<1>3. HandlerType'
  BY <1>1, <1>2 DEF EchInv, TypeOK, HandlerType, Match, Goto, sniVars
<1> QED
  BY <1>1, <1>3, Onward DEF Match, Goto

LEMMA NoUpstreamStep ==
  ASSUME EchInv, NEW r \in Handlers, NoUpstream(r)
  PROVE  EchInv'
  BY GivesUp DEF NoUpstream

LEMMA ModeCachedStep ==
  ASSUME EchInv, NEW r \in Handlers, ModeCached(r)
  PROVE  EchInv'
<1>1. host[r] \in Hosts
  BY DEF EchInv, TypeOK, HandlerType
<1>2. modeCache[host[r]].mode \in {"ech", "sni"}
  BY <1>1, AddressTypes DEF EchInv, TypeOK, ModeCached
<1>3. HandlerType'
  BY <1>2 DEF EchInv, TypeOK, HandlerType, ModeCached, Goto, sniVars
<1> QED
  BY <1>3, Onward DEF ModeCached, Goto

LEMMA ModeUnknownStep ==
  ASSUME EchInv, NEW r \in Handlers, ModeUnknown(r)
  PROVE  EchInv'
<1>1. HandlerType'
  BY DEF EchInv, TypeOK, HandlerType, ModeUnknown, Goto, reqVars, sniVars
<1> QED
  BY <1>1, Onward DEF ModeUnknown, Goto

\* The cookie a request carries, and what stays in the jar.
LEMMA ApplyCookiesStep ==
  ASSUME EchInv, NEW r \in Handlers, ApplyCookies(r)
  PROVE  /\ EchInv'
         /\ cookie'[r] = Due(host[r])
<1> DEFINE h == host[r]
           v == Overridden(h, IF jar'[h] = None THEN Browser ELSE jar'[h].val)
<1>1. HandlerType /\ BodyType /\ CacheType /\ JarIsCurrent /\ \A s \in Handlers : BodyOK(s)
  BY DEF EchInv, TypeOK
<1>2. h \in Hosts /\ jar[h] \in {None} \cup Cookies
  BY <1>1 DEF HandlerType, CacheType
<1>3. jar' = [jar EXCEPT ![h] = IF Living(jar[h]) THEN jar[h] ELSE None]
  BY DEF ApplyCookies
<1>4. jar'[h] = (IF Living(jar[h]) THEN jar[h] ELSE None) /\ \A g \in Hosts \ {h} : jar'[g] = jar[g]
  BY <1>1, <1>2, <1>3 DEF CacheType
<1>5. Living(jar[h]) => jar[h] # None /\ jar[h].val \in Values
  BY <1>2 DEF Living, Cookies
<1>6. v \in Values \cup {Browser, None}
  <2>1. Fixed[h] \in Values \cup {None}
    BY <1>2, EchAssumption
  <2> QED
    BY <1>4, <1>5, <2>1 DEF Overridden
<1>7. PICK p \in {"resolve", "send"} : Goto(r, "apply", p)
  BY DEF ApplyCookies
<1>8. cookie' = [cookie EXCEPT ![r] = v]
  BY DEF ApplyCookies
<1>9. HandlerType'
  <2> HIDE DEF v
  <2> QED
    BY <1>1, <1>6, <1>7, <1>8 DEF HandlerType, ApplyCookies, Goto, sniVars
<1>10. BodyType' /\ \A s \in Handlers : BodyOK(s)'
  BY <1>1, <1>7, BodyStays DEF ApplyCookies, Goto
<1>11. CacheType' /\ IsFiniteSet(pool)'
  BY <1>1, <1>2, <1>3 DEF EchInv, CacheType, ApplyCookies, caches
<1>12. JarIsCurrent'
  <2>1. ~Living(None)
    BY DEF Living
  <2>2. lasting' = lasting
    BY DEF ApplyCookies
  <2> HIDE DEF h
  <2> QED
    BY <1>1, <1>2, <1>4, <2>1, <2>2 DEF JarIsCurrent
<1>13. cookie'[r] = v
  BY <1>1, <1>8 DEF HandlerType
<1>14. lasting[h] = IF Living(jar[h]) THEN jar[h].val ELSE None
  BY <1>1, <1>2 DEF JarIsCurrent
<1>15. v = Due(h)
  BY <1>4, <1>5, <1>14, EchAssumption DEF Due, Overridden
<1> QED
  BY <1>9, <1>10, <1>11, <1>12, <1>13, <1>15 DEF EchInv, TypeOK

LEMMA IPsCachedStep ==
  ASSUME EchInv, NEW r \in Handlers, IPsCached(r)
  PROVE  EchInv'
<1>1. host[r] \in Hosts
  BY DEF EchInv, TypeOK, HandlerType
<1>2. ipCache[host[r]].ips \in Seq(IPs)
  BY <1>1, AddressTypes DEF EchInv, TypeOK, IPsCached
<1>3. HandlerType' /\ BodyType' /\ \A s \in Handlers : BodyOK(s)'
  BY <1>2, ResolvedTypes DEF IPsCached
<1> QED
  BY <1>3, CachesStay DEF EchInv, TypeOK, IPsCached

LEMMA AskDoHStep ==
  ASSUME EchInv, NEW r \in Handlers, AskDoH(r)
  PROVE  EchInv'
<1>1. host[r] \in Hosts
  BY DEF EchInv, TypeOK, HandlerType
<1>2. Lists[host[r]][dns[host[r]]] \in Seq(IPs)
  BY <1>1, AddressTypes DEF EchInv, TypeOK
<1>3. HandlerType'
  BY <1>2 DEF EchInv, TypeOK, HandlerType, AskDoH, Goto, reqVars
<1> QED
  BY <1>3, Onward DEF AskDoH, Goto

LEMMA StoreIPsStep ==
  ASSUME EchInv, NEW r \in Handlers, StoreIPs(r)
  PROVE  EchInv'
<1>1. host[r] \in Hosts /\ ips[r] \in Seq(IPs)
  BY DEF EchInv, TypeOK, HandlerType
<1>2. HandlerType' /\ BodyType' /\ \A s \in Handlers : BodyOK(s)'
  BY <1>1, ResolvedTypes DEF StoreIPs
<1>3. CacheType' /\ IsFiniteSet(pool)'
  BY <1>1 DEF EchInv, TypeOK, CacheType, StoreIPs, jars
<1>4. JarIsCurrent'
  BY DEF EchInv, JarIsCurrent, StoreIPs, jars
<1> QED
  BY <1>2, <1>3, <1>4 DEF EchInv, TypeOK

LEMMA DoHFailsStep ==
  ASSUME EchInv, NEW r \in Handlers, DoHFails(r)
  PROVE  EchInv'
<1>1. CASE outlet[r] = None
  <2>1. /\ pc' = [pc EXCEPT ![r] = "keep"] /\ ips' = [ips EXCEPT ![r] = <<>>]
        /\ UNCHANGED <<reqVars, next, round, bodyVars, cause, caches, jars, dns>>
        /\ pc[r] = "resolve"
    BY <1>1 DEF DoHFails
  <2>2. HandlerType'
    BY <2>1 DEF EchInv, TypeOK, HandlerType, reqVars
  <2> QED
    BY <2>1, <2>2, Onward
<1>2. CASE outlet[r] # None
  BY <1>2, GivesUp DEF DoHFails, sniVars
<1> QED
  BY <1>1, <1>2

LEMMA KeepOutletStep ==
  ASSUME EchInv, NEW r \in Handlers, KeepOutlet(r)
  PROVE  EchInv'
<1>1. host[r] \in Hosts /\ OutletFor(ips[r]) \in {"ech", "sni"}
  BY DEF EchInv, TypeOK, HandlerType, OutletFor
<1>2. HandlerType'
  BY <1>1 DEF EchInv, TypeOK, HandlerType, KeepOutlet, Goto
<1>3. HandlerType /\ BodyType /\ \A s \in Handlers : BodyOK(s)
  BY DEF EchInv, TypeOK
<1>4. BodyType' /\ \A s \in Handlers : BodyOK(s)'
  BY <1>3, BodyStays DEF KeepOutlet, Goto
<1>5. CacheType' /\ IsFiniteSet(pool)'
  BY <1>1 DEF EchInv, TypeOK, CacheType, KeepOutlet, jars
<1>6. JarIsCurrent'
  BY DEF EchInv, JarIsCurrent, KeepOutlet, jars
<1> QED
  BY <1>2, <1>4, <1>5, <1>6 DEF EchInv, TypeOK

\* An answer arrives where nothing has been read yet.
LEMMA AnsweredTypes ==
  ASSUME EchInv, NEW r \in Handlers, NEW a \in Asked[r], Answered(r, a),
         pc[r] \in {"try", "send"}, UNCHANGED <<reqVars, sniVars, taken, got, cause>>
  PROVE  HandlerType' /\ BodyType' /\ \A s \in Handlers : BodyOK(s)'
<1>1. HandlerType /\ BodyType /\ \A s \in Handlers : BodyOK(s)
  BY DEF EchInv, TypeOK
<1>2. a \in Answers /\ a.size \in Nat
  BY EchAssumption, AnswerParts
<1>3. /\ pc'[r] = "save" /\ resp'[r] = a
      /\ \A s \in Handlers \ {r} : pc'[s] = pc[s] /\ resp'[s] = resp[s]
  BY <1>1 DEF HandlerType, BodyType, Answered
<1>4. taken[r] = 0 /\ got[r] = <<>> /\ cause[r] = None
  BY <1>1 DEF BodyOK
<1>5. HandlerType'
  BY <1>1 DEF HandlerType, Answered, reqVars, sniVars
<1>6. \A s \in Handlers : taken'[s] <= resp'[s].size
  <2>1. ASSUME NEW s \in Handlers PROVE taken'[s] <= resp'[s].size
    <3>1. CASE s = r
      BY <1>2, <1>3, <1>4, <3>1
    <3>2. CASE s # r
      BY <1>1, <1>3, <3>2 DEF BodyType
    <3> QED
      BY <3>1, <3>2
  <2> QED
    BY <2>1
<1>7. resp' \in [Handlers -> Answers]
  BY <1>1, <1>2 DEF BodyType, Answered
<1>8. BodyType'
  BY <1>1, <1>6, <1>7 DEF BodyType
<1>9. ASSUME NEW s \in Handlers PROVE BodyOK(s)'
  <2>1. CASE s = r
    <3>1. None # "done" /\ <<>> = Units(1, 0)
      BY EchAssumption, FirstUnits DEF Causes
    <3> QED
      BY <1>3, <1>4, <2>1, <3>1 DEF BodyOK
  <2>2. CASE s # r
    BY <1>1, <1>3, <2>2 DEF BodyOK
  <2> QED
    BY <2>1, <2>2
<1> QED
  BY <1>5, <1>8, <1>9

LEMMA TryAnsweredStep ==
  ASSUME EchInv, NEW r \in Handlers, NEW a \in Asked[r], TryAnswered(r, a)
  PROVE  EchInv'
<1>1. HandlerType' /\ BodyType' /\ \A s \in Handlers : BodyOK(s)'
  BY AnsweredTypes DEF TryAnswered
<1>2. ips[r] \in Seq(IPs) /\ next[r] \in Nat \ {0}
  BY DEF EchInv, TypeOK, HandlerType
<1>3. ips[r][next[r]] \in IPs
  BY <1>2 DEF TryAnswered
<1>4. CacheType' /\ IsFiniteSet(pool)'
  BY <1>3, PooledBounded DEF EchInv, TypeOK, CacheType, TryAnswered, jars
<1>5. JarIsCurrent'
  BY DEF EchInv, JarIsCurrent, TryAnswered, jars
<1> QED
  BY <1>1, <1>4, <1>5 DEF EchInv, TypeOK

LEMMA SendAnsweredStep ==
  ASSUME EchInv, NEW r \in Handlers, NEW a \in Asked[r], SendAnswered(r, a)
  PROVE  EchInv'
<1>1. HandlerType' /\ BodyType' /\ \A s \in Handlers : BodyOK(s)'
  BY AnsweredTypes DEF SendAnswered
<1> QED
  BY <1>1, CachesStay DEF EchInv, TypeOK, SendAnswered

LEMMA TryFailsStep ==
  ASSUME EchInv, NEW r \in Handlers, TryFails(r)
  PROVE  EchInv'
<1>1. HandlerType /\ BodyType /\ \A s \in Handlers : BodyOK(s)
  BY DEF EchInv, TypeOK
<1>2. ips[r] \in Seq(IPs) /\ next[r] \in Nat \ {0} /\ Len(ips[r]) \in Nat
  BY <1>1 DEF HandlerType
<1>3. /\ ips[r][next[r]] \in IPs /\ next[r] <= Len(ips[r])
      /\ next[r] + 1 \in Nat \ {0} /\ next[r] + 1 <= Len(ips[r]) + 1
  BY <1>2 DEF TryFails
<1>4. /\ next' = [next EXCEPT ![r] = next[r] + 1]
      /\ UNCHANGED <<pc, reqVars, ips, round>>
  BY DEF TryFails
<1>5. HandlerType'
  <2>1. next' \in [Handlers -> Nat \ {0}]
    BY <1>1, <1>3, <1>4 DEF HandlerType
  <2>2. ASSUME NEW s \in Handlers, pc'[s] = "try"
        PROVE  next'[s] <= Len(ips'[s]) + 1 /\ round'[s] < 2
    <3>1. next[s] <= Len(ips[s]) + 1 /\ round[s] < 2
      BY <1>1, <1>4, <2>2 DEF HandlerType
    <3>2. next'[s] = IF s = r THEN next[r] + 1 ELSE next[s]
      BY <1>1, <1>4 DEF HandlerType
    <3> QED
      BY <1>3, <1>4, <3>1, <3>2
  <2> QED
    BY <1>1, <1>4, <2>1, <2>2 DEF HandlerType, reqVars
<1>6. BodyType' /\ \A s \in Handlers : BodyOK(s)'
  BY <1>1 DEF BodyType, BodyOK, TryFails, bodyVars
<1>7. CacheType' /\ IsFiniteSet(pool)'
  BY <1>3, PooledBounded DEF EchInv, TypeOK, CacheType, TryFails, jars
<1>8. JarIsCurrent'
  BY DEF EchInv, JarIsCurrent, TryFails, jars
<1> QED
  BY <1>5, <1>6, <1>7, <1>8 DEF EchInv, TypeOK

LEMMA RoundFailsStep ==
  ASSUME EchInv, NEW r \in Handlers, RoundFails(r)
  PROVE  EchInv'
<1>1. HandlerType /\ BodyType /\ \A s \in Handlers : BodyOK(s)
  BY DEF EchInv, TypeOK
<1>2. host[r] \in Hosts /\ round[r] + 1 \in 0..2
  <2>1. round[r] \in 0..2 /\ round[r] < 2
    BY <1>1 DEF HandlerType, RoundFails, Goto
  <2> QED
    BY <1>1, <2>1 DEF HandlerType
<1>3. HandlerType'
  <2>1. round' = [round EXCEPT ![r] = round[r] + 1]
    BY DEF RoundFails
  <2>2. round' \in [Handlers -> 0..2]
    BY <1>1, <1>2, <2>1 DEF HandlerType
  <2>3. /\ pc' = [pc EXCEPT ![r] = "resolve"] /\ UNCHANGED <<reqVars, ips, next>>
    BY DEF RoundFails, Goto
  <2>4. ASSUME NEW s \in Handlers, pc'[s] = "try"
        PROVE  next'[s] <= Len(ips'[s]) + 1 /\ round'[s] < 2
    BY <1>1, <2>1, <2>3, <2>4 DEF HandlerType
  <2> QED
    BY <1>1, <2>2, <2>3, <2>4 DEF HandlerType, reqVars
<1>4. BodyType' /\ \A s \in Handlers : BodyOK(s)'
  BY <1>1, BodyStays DEF RoundFails, Goto
<1>5. CacheType' /\ IsFiniteSet(pool)'
  BY <1>2 DEF EchInv, TypeOK, CacheType, RoundFails, jars
<1>6. JarIsCurrent'
  BY DEF EchInv, JarIsCurrent, RoundFails, jars
<1> QED
  BY <1>3, <1>4, <1>5, <1>6 DEF EchInv, TypeOK

LEMMA SendFailsStep ==
  ASSUME EchInv, NEW r \in Handlers, SendFails(r)
  PROVE  EchInv'
  BY GivesUp DEF SendFails

\* The jar changes together with the last cookie.
LEMMA SaveCookiesStep ==
  ASSUME EchInv, NEW r \in Handlers, SaveCookies(r)
  PROVE  EchInv'
<1> DEFINE h == host[r]
           c == resp[r].set
           kept == IF Living(jar[h]) THEN jar[h] ELSE None
           new == IF c = None THEN jar[h] ELSE IF c.live THEN c ELSE kept
           last == IF Living(c) THEN c.val ELSE lasting[h]
<1>1. HandlerType /\ BodyType /\ CacheType /\ JarIsCurrent /\ \A s \in Handlers : BodyOK(s)
  BY DEF EchInv, TypeOK
<1>2. /\ h \in Hosts /\ jar[h] \in {None} \cup Cookies /\ lasting[h] \in {None} \cup Values
      /\ c \in {None} \cup Cookies
  BY <1>1, AnswerParts DEF HandlerType, CacheType, BodyType
<1>3. /\ jar' = [jar EXCEPT ![h] = new] /\ lasting' = [lasting EXCEPT ![h] = last]
      /\ UNCHANGED <<caches, dns>>
  BY DEF SaveCookies
<1>4. new \in {None} \cup Cookies /\ last \in {None} \cup Values
  BY <1>2 DEF Living, Cookies
<1>5. last = IF Living(new) THEN new.val ELSE None
  <2>1. lasting[h] = IF Living(jar[h]) THEN jar[h].val ELSE None
    BY <1>1, <1>2 DEF JarIsCurrent
  <2> QED
    BY <1>2, <2>1 DEF Living
<1>6. CacheType' /\ IsFiniteSet(pool)' /\ JarIsCurrent'
  <2> HIDE DEF new, last, h
  <2>1. CacheType' /\ IsFiniteSet(pool)'
    BY <1>1, <1>2, <1>3, <1>4 DEF EchInv, CacheType, caches
  <2>2. /\ jar'[h] = new /\ lasting'[h] = last
        /\ \A g \in Hosts \ {h} : jar'[g] = jar[g] /\ lasting'[g] = lasting[g]
    BY <1>1, <1>2, <1>3 DEF CacheType
  <2>3. JarIsCurrent'
    <3>1. ASSUME NEW g \in Hosts
          PROVE  lasting'[g] = IF Living(jar'[g]) THEN jar'[g].val ELSE None
      <4>1. CASE g = h
        BY <1>5, <2>2, <4>1
      <4>2. CASE g # h
        BY <1>1, <2>2, <4>2 DEF JarIsCurrent
      <4> QED
        BY <4>1, <4>2
    <3> QED
      BY <3>1 DEF JarIsCurrent
  <2> QED
    BY <2>1, <2>3
<1>7. HandlerType'
  BY <1>1 DEF HandlerType, SaveCookies, Goto, Forget
<1>8. BodyType' /\ \A s \in Handlers : BodyOK(s)'
  BY <1>1, BodyStays DEF SaveCookies, Goto
<1> QED
  BY <1>6, <1>7, <1>8 DEF EchInv, TypeOK

-----------------------------------------------------------------------------
(* The way of a body.                                                      *)

LEMMA SameFunction ==
  ASSUME NEW S, NEW T, NEW f \in [S -> T], NEW x \in S
  PROVE  f = [f EXCEPT ![x] = f[x]]
  OBVIOUS

\* What the handler of r has read and passed on changes: n units are read, m of
\* them passed on.
LEMMA BodyMoves ==
  ASSUME EchInv, NEW r \in Handlers, UNCHANGED <<reqVars, sniVars, resp, caches, jars, dns>>,
         NEW p \in {"stream", "over"}, pc' = [pc EXCEPT ![r] = p],
         NEW n \in 0..resp[r].size, taken' = [taken EXCEPT ![r] = n],
         NEW m \in 0..n, NEW g, g = Units(1, m), got' = [got EXCEPT ![r] = g],
         NEW c \in Causes \cup {None}, cause' = [cause EXCEPT ![r] = c],
         p = "stream" => c \in {None, "gone"},
         p = "stream" /\ c = None => m = n,
         c = "done" /\ (resp[r].text /\ resp[r].coded => resp[r].sound) => m = resp[r].size
  PROVE  EchInv'
<1>1. HandlerType /\ BodyType /\ \A s \in Handlers : BodyOK(s)
  BY DEF EchInv, TypeOK
<1>2. /\ pc'[r] = p /\ taken'[r] = n /\ got'[r] = Units(1, m) /\ cause'[r] = c
      /\ \A s \in Handlers \ {r} : /\ pc'[s] = pc[s] /\ taken'[s] = taken[s]
                                  /\ got'[s] = got[s] /\ cause'[s] = cause[s]
  BY <1>1 DEF HandlerType, BodyType
<1>3. resp[r] \in Answers /\ resp[r].size \in Nat
  BY <1>1, AnswerParts DEF BodyType
<1>4. n \in Nat /\ m \in Nat /\ n <= resp[r].size
  BY <1>3
<1>5. HandlerType'
  BY <1>1 DEF HandlerType, reqVars, sniVars
<1>6. BodyType'
  <2>1. Units(1, m) \in Seq(Nat)
    BY <1>4, FirstUnits
  <2>2. \A s \in Handlers : taken'[s] <= resp'[s].size
    <3>1. ASSUME NEW s \in Handlers PROVE taken'[s] <= resp'[s].size
      <4>1. CASE s = r
        BY <1>2, <1>4, <4>1
      <4>2. CASE s # r
        BY <1>1, <1>2, <4>2 DEF BodyType
      <4> QED
        BY <4>1, <4>2
    <3> QED
      BY <3>1
  <2>3. /\ taken' \in [Handlers -> Nat] /\ got' \in [Handlers -> Seq(Nat)]
        /\ cause' \in [Handlers -> Causes \cup {None}] /\ resp' = resp
    BY <1>1, <1>4, <2>1 DEF BodyType
  <2> QED
    BY <1>1, <2>2, <2>3 DEF BodyType
<1>7. ASSUME NEW s \in Handlers PROVE BodyOK(s)'
  <2>1. CASE s = r
    BY <1>2, <2>1 DEF BodyOK
  <2>2. CASE s # r
    BY <1>1, <1>2, <2>2 DEF BodyOK
  <2> QED
    BY <2>1, <2>2
<1> QED
  BY <1>5, <1>6, <1>7, CachesStay DEF EchInv, TypeOK

\* A body of which nothing is read yet.
LEMMA HeadFacts ==
  ASSUME EchInv, NEW r \in Handlers, pc[r] = "head"
  PROVE  /\ taken[r] = 0 /\ got[r] = Units(1, 0) /\ cause[r] = None
         /\ resp[r].size \in Nat
         /\ taken = [taken EXCEPT ![r] = 0] /\ got = [got EXCEPT ![r] = Units(1, 0)]
         /\ cause = [cause EXCEPT ![r] = None]
<1>1. HandlerType /\ BodyType /\ BodyOK(r)
  BY DEF EchInv, TypeOK
<1>2. taken[r] = 0 /\ got[r] = Units(1, 0) /\ cause[r] = None
  BY <1>1, FirstUnits DEF BodyOK
<1>3. resp[r].size \in Nat
  BY <1>1, AnswerParts DEF BodyType
<1>4. /\ taken = [taken EXCEPT ![r] = taken[r]] /\ got = [got EXCEPT ![r] = got[r]]
      /\ cause = [cause EXCEPT ![r] = cause[r]]
  BY <1>1, SameFunction DEF BodyType
<1> QED
  BY <1>2, <1>3, <1>4

\* A body that is being streamed: m units have been passed on, all that were
\* read unless the browser has left.
LEMMA StreamFacts ==
  ASSUME EchInv, NEW r \in Handlers, pc[r] = "stream"
  PROVE  /\ resp[r].size \in Nat /\ taken[r] \in 0..resp[r].size /\ cause[r] \in {None, "gone"}
         /\ \E m \in 0..taken[r] : got[r] = Units(1, m) /\ (cause[r] = None => m = taken[r])
<1>1. HandlerType /\ BodyType /\ BodyOK(r)
  BY DEF EchInv, TypeOK
<1>2. resp[r].size \in Nat
  BY <1>1, AnswerParts DEF BodyType
<1>3. taken[r] \in 0..resp[r].size
  BY <1>1, <1>2 DEF BodyType
<1>4. cause[r] \in {None, "gone"}
  BY <1>1 DEF BodyOK
<1>5. \E m \in 0..taken[r] : got[r] = Units(1, m) /\ (cause[r] = None => m = taken[r])
  BY <1>1 DEF BodyOK
<1> QED
  BY <1>2, <1>3, <1>4, <1>5

LEMMA SameValues ==
  ASSUME EchInv, NEW r \in Handlers
  PROVE  /\ pc = [pc EXCEPT ![r] = pc[r]] /\ taken = [taken EXCEPT ![r] = taken[r]]
         /\ got = [got EXCEPT ![r] = got[r]] /\ cause = [cause EXCEPT ![r] = cause[r]]
  BY SameFunction DEF EchInv, TypeOK, BodyType, HandlerType

LEMMA CausesTyped == /\ Causes = {"done", "failed", "broken", "gone"}
                     /\ None \notin Causes
  BY EchAssumption DEF Causes

LEMMA PassThroughStep ==
  ASSUME EchInv, NEW r \in Handlers, PassThrough(r)
  PROVE  EchInv'
<1>1. pc[r] = "head" /\ pc' = [pc EXCEPT ![r] = "stream"]
  BY DEF PassThrough, Goto
<1>2. UNCHANGED <<reqVars, sniVars, taken, got, resp, cause, caches, jars, dns>>
  BY DEF PassThrough, bodyVars
<1>3. 0 \in 0..resp[r].size /\ 0 \in 0..0
  BY <1>1, HeadFacts
<1>4. /\ taken' = [taken EXCEPT ![r] = 0] /\ got' = [got EXCEPT ![r] = Units(1, 0)]
      /\ cause' = [cause EXCEPT ![r] = None]
  BY <1>1, <1>2, HeadFacts
<1> QED
  BY <1>1, <1>2, <1>3, <1>4, BodyMoves, CausesTyped

LEMMA ReadBreaksStep ==
  ASSUME EchInv, NEW r \in Handlers, ReadBreaks(r)
  PROVE  EchInv'
<1>1. PICK n \in 0 .. AtMost(resp[r].size) :
        taken' = [taken EXCEPT ![r] = n] /\ got' = [got EXCEPT ![r] = Units(1, n)]
  BY DEF ReadBreaks
<1>2. n \in 0..resp[r].size
  <2>1. MaxRewrite \in Nat /\ resp[r].size \in Nat
    BY EchAssumption, HeadFacts DEF ReadBreaks
  <2> QED
    BY <2>1 DEF AtMost
<1>3. n \in 0..n
  BY <1>2
<1>4. /\ pc' = [pc EXCEPT ![r] = "over"] /\ cause' = [cause EXCEPT ![r] = "broken"]
      /\ UNCHANGED <<reqVars, sniVars, resp, caches, jars, dns>>
  BY DEF ReadBreaks, End
<1> QED
  BY <1>1, <1>2, <1>3, <1>4, BodyMoves, CausesTyped

LEMMA TooLongStep ==
  ASSUME EchInv, NEW r \in Handlers, NEW sent \in BOOLEAN, TooLong(r, sent)
  PROVE  EchInv'
<1> DEFINE n == MaxRewrite + 1
<1>1. pc[r] = "head" /\ pc' = [pc EXCEPT ![r] = "stream"]
  BY DEF TooLong, Goto
<1>2. n \in 0..resp[r].size /\ n \in 0..n /\ 0 \in 0..n
  BY <1>1, EchAssumption, HeadFacts DEF TooLong
<1>3. taken' = [taken EXCEPT ![r] = n] /\ UNCHANGED <<reqVars, sniVars, resp, caches, jars, dns>>
  BY DEF TooLong
<1>4. CASE sent
  <2>1. got' = [got EXCEPT ![r] = Units(1, n)]
    BY <1>4 DEF TooLong
  <2>2. cause' = [cause EXCEPT ![r] = None]
    BY <1>1, <1>4, HeadFacts DEF TooLong
  <2> QED
    BY <1>1, <1>2, <1>3, <2>1, <2>2, BodyMoves, CausesTyped
<1>5. CASE ~sent
  <2>1. got' = [got EXCEPT ![r] = Units(1, 0)]
    BY <1>1, <1>5, HeadFacts DEF TooLong
  <2>2. cause' = [cause EXCEPT ![r] = "gone"]
    BY <1>5 DEF TooLong
  <2> QED
    BY <1>1, <1>2, <1>3, <2>1, <2>2, BodyMoves, CausesTyped
<1> QED
  BY <1>4, <1>5

LEMMA RewriteStep ==
  ASSUME EchInv, NEW r \in Handlers, NEW sent \in BOOLEAN, Rewrite(r, sent)
  PROVE  EchInv'
<1> DEFINE n == resp[r].size
<1>1. pc[r] = "head" /\ taken' = [taken EXCEPT ![r] = n]
      /\ UNCHANGED <<reqVars, sniVars, resp, caches, jars, dns>>
  BY DEF Rewrite
<1>2. n \in 0..n /\ 0 \in 0..n
  BY <1>1, HeadFacts
<1>3. CASE sent
  <2>1. /\ got' = [got EXCEPT ![r] = Units(1, n)]
        /\ pc' = [pc EXCEPT ![r] = "over"] /\ cause' = [cause EXCEPT ![r] = "done"]
    BY <1>3 DEF Rewrite, End
  <2> QED
    BY <1>1, <1>2, <2>1, BodyMoves, CausesTyped
<1>4. CASE ~sent
  <2>1. /\ got' = [got EXCEPT ![r] = Units(1, 0)]
        /\ pc' = [pc EXCEPT ![r] = "stream"] /\ cause' = [cause EXCEPT ![r] = "gone"]
    BY <1>1, <1>4, HeadFacts DEF Rewrite
  <2> QED
    BY <1>1, <1>2, <2>1, BodyMoves, CausesTyped
<1> QED
  BY <1>3, <1>4

LEMMA UndecodableStep ==
  ASSUME EchInv, NEW r \in Handlers, Undecodable(r)
  PROVE  EchInv'
<1> DEFINE n == resp[r].size
<1>1. pc[r] = "head" /\ taken' = [taken EXCEPT ![r] = n]
      /\ UNCHANGED <<reqVars, sniVars, resp, got, caches, jars, dns>>
  BY DEF Undecodable
<1>2. n \in 0..n /\ 0 \in 0..n
  BY <1>1, HeadFacts
<1>3. /\ got' = [got EXCEPT ![r] = Units(1, 0)]
      /\ pc' = [pc EXCEPT ![r] = "over"] /\ cause' = [cause EXCEPT ![r] = "done"]
  BY <1>1, HeadFacts DEF Undecodable, End
<1>4. ~(resp[r].text /\ resp[r].coded => resp[r].sound)
  BY DEF Undecodable, Rewritten
<1> QED
  BY <1>1, <1>2, <1>3, <1>4, BodyMoves, CausesTyped

LEMMA StreamUnitStep ==
  ASSUME EchInv, NEW r \in Handlers, NEW sent \in BOOLEAN, StreamUnit(r, sent)
  PROVE  EchInv'
<1> DEFINE n == taken[r] + 1
<1>1. pc[r] = "stream" /\ taken' = [taken EXCEPT ![r] = n] /\ taken[r] < resp[r].size
      /\ UNCHANGED <<reqVars, sniVars, resp, caches, jars, dns>>
  BY DEF StreamUnit
<1>2. n \in 0..resp[r].size /\ n \in 0..n /\ taken[r] \in Nat
  BY <1>1, StreamFacts
<1>3. PICK m \in 0..taken[r] : got[r] = Units(1, m) /\ (cause[r] = None => m = taken[r])
  BY <1>1, StreamFacts
<1>4. CASE sent /\ cause[r] # "gone"
  <2>1. /\ got' = [got EXCEPT ![r] = Append(got[r], taken'[r])]
        /\ UNCHANGED <<pc, cause>>
    BY <1>4 DEF StreamUnit
  <2>2. cause[r] = None
    BY <1>1, <1>4, StreamFacts
  <2>3. taken'[r] = n
    BY <1>1 DEF EchInv, TypeOK, BodyType
  <2>4. Append(got[r], taken'[r]) = Units(1, n)
    <3>1. got[r] = Units(1, taken[r])
      BY <1>3, <2>2
    <3>2. Append(Units(1, taken[r]), taken[r] + 1) = Units(1, taken[r] + 1)
      BY <1>2, FirstUnits
    <3> QED
      BY <2>3, <3>1, <3>2
  <2>5. pc' = [pc EXCEPT ![r] = "stream"] /\ cause' = [cause EXCEPT ![r] = None]
    BY <1>1, <2>1, <2>2, SameValues
  <2> QED
    BY <1>1, <1>2, <2>1, <2>4, <2>5, BodyMoves, CausesTyped
<1>5. CASE ~(sent /\ cause[r] # "gone")
  <2>1. pc' = [pc EXCEPT ![r] = "over"] /\ cause' = [cause EXCEPT ![r] = "gone"]
    BY <1>5 DEF StreamUnit, End
  <2>2. m \in 0..n
    BY <1>2
  <2>3. got' = [got EXCEPT ![r] = got[r]]
    BY <1>5, SameValues DEF StreamUnit
  <2> QED
    BY ZenonT(60), <1>1, <1>2, <1>3, <2>1, <2>2, <2>3, BodyMoves, CausesTyped
<1> QED
  BY <1>4, <1>5

\* Nothing is read or written any more: the handler ends for the cause c.
LEMMA StreamOver ==
  ASSUME EchInv, NEW r \in Handlers, pc[r] = "stream", NEW c \in Causes, End(r, c),
         UNCHANGED <<reqVars, sniVars, bodyVars, caches, jars, dns>>,
         c = "done" => cause[r] = None /\ taken[r] = resp[r].size
  PROVE  EchInv'
<1>1. PICK m \in 0..taken[r] : got[r] = Units(1, m) /\ (cause[r] = None => m = taken[r])
  BY StreamFacts
<1>2. taken' = [taken EXCEPT ![r] = taken[r]] /\ got' = [got EXCEPT ![r] = got[r]]
  BY SameValues DEF bodyVars
<1>3. /\ pc' = [pc EXCEPT ![r] = "over"] /\ cause' = [cause EXCEPT ![r] = c]
      /\ UNCHANGED <<reqVars, sniVars, resp, caches, jars, dns>>
  BY DEF End, bodyVars
<1>4. taken[r] \in 0..resp[r].size
  BY StreamFacts
<1> QED
  BY <1>1, <1>2, <1>3, <1>4, BodyMoves

LEMMA StreamEndsStep ==
  ASSUME EchInv, NEW r \in Handlers, StreamEnds(r)
  PROVE  EchInv'
<1>1. pc[r] = "stream" /\ taken[r] = resp[r].size /\ cause[r] \in {None, "gone"}
  BY StreamFacts DEF StreamEnds
<1> QED
  BY <1>1, StreamOver, CausesTyped DEF StreamEnds

LEMMA StreamBreaksStep ==
  ASSUME EchInv, NEW r \in Handlers, StreamBreaks(r)
  PROVE  EchInv'
  BY StreamOver, CausesTyped DEF StreamBreaks

\* The next request starts from nothing.
LEMMA ReturnStep ==
  ASSUME EchInv, NEW r \in Handlers, Return(r)
  PROVE  EchInv'
<1>1. HandlerType /\ BodyType /\ \A s \in Handlers : BodyOK(s)
  BY DEF EchInv, TypeOK
<1>2. HandlerType'
  BY <1>1 DEF HandlerType, Return, Goto, Forget
<1>3. /\ pc'[r] = "idle" /\ taken'[r] = 0 /\ got'[r] = <<>> /\ cause'[r] = None
      /\ resp'[r] = NoBody
      /\ \A s \in Handlers \ {r} :
           /\ pc'[s] = pc[s] /\ taken'[s] = taken[s] /\ got'[s] = got[s]
           /\ cause'[s] = cause[s] /\ resp'[s] = resp[s]
  BY <1>1 DEF HandlerType, BodyType, Return, Goto
<1>4. BodyType'
  <2>1. resp' \in [Handlers -> Answers]
    BY <1>1, NoBodyTyped DEF BodyType, Return
  <2>2. \A s \in Handlers : taken'[s] <= resp'[s].size
    BY SMTT(40), <1>1, <1>3, NoBodyTyped DEF BodyType
  <2>3. /\ taken' \in [Handlers -> Nat] /\ got' \in [Handlers -> Seq(Nat)]
        /\ cause' \in [Handlers -> Causes \cup {None}]
    BY <1>1 DEF BodyType, Return
  <2> QED
    BY <2>1, <2>2, <2>3 DEF BodyType
<1>5. ASSUME NEW s \in Handlers PROVE BodyOK(s)'
  <2>1. CASE s = r
    <3>1. None # "done" /\ <<>> = Units(1, 0)
      BY CausesTyped, FirstUnits
    <3> QED
      BY <1>3, <2>1, <3>1 DEF BodyOK
  <2>2. CASE s # r
    BY <1>1, <1>3, <2>2 DEF BodyOK
  <2> QED
    BY <2>1, <2>2
<1> QED
  BY <1>2, <1>4, <1>5, CachesStay DEF EchInv, TypeOK, Return

-----------------------------------------------------------------------------
(* Time and the world.                                                     *)

\* A step that leaves the handlers alone.
LEMMA HandlersStay ==
  ASSUME EchInv, UNCHANGED <<pc, reqVars, sniVars, bodyVars, cause>>
  PROVE  HandlerType' /\ BodyType' /\ \A s \in Handlers : BodyOK(s)'
<1>1. HandlerType'
  BY DEF EchInv, TypeOK, HandlerType, reqVars, sniVars
<1>2. BodyType' /\ \A s \in Handlers : BodyOK(s)'
  BY DEF EchInv, TypeOK, BodyType, BodyOK, bodyVars
<1> QED
  BY <1>1, <1>2

LEMMA IPsExpireStep ==
  ASSUME EchInv, NEW h \in Hosts, IPsExpire(h)
  PROVE  EchInv'
<1>1. ipCache[h] \in [ips : Seq(IPs), fresh : BOOLEAN]
  BY DEF EchInv, TypeOK, CacheType, IPsExpire, Fresh
<1>2. [ipCache[h] EXCEPT !.fresh = FALSE] \in [ips : Seq(IPs), fresh : BOOLEAN]
  BY <1>1
<1>3. ipCache' = [ipCache EXCEPT ![h] = [ipCache[h] EXCEPT !.fresh = FALSE]]
  BY DEF IPsExpire
<1>4. CacheType' /\ IsFiniteSet(pool)'
  BY <1>2, <1>3 DEF EchInv, TypeOK, CacheType, IPsExpire, jars
<1>5. JarIsCurrent'
  BY DEF EchInv, JarIsCurrent, IPsExpire, jars
<1> QED
  BY <1>4, <1>5, HandlersStay DEF EchInv, TypeOK, IPsExpire

LEMMA ModeExpiresStep ==
  ASSUME EchInv, NEW h \in Hosts, ModeExpires(h)
  PROVE  EchInv'
<1>1. modeCache[h] \in [mode : {"ech", "sni"}, fresh : BOOLEAN]
  BY DEF EchInv, TypeOK, CacheType, ModeExpires, Fresh
<1>2. [modeCache[h] EXCEPT !.fresh = FALSE] \in [mode : {"ech", "sni"}, fresh : BOOLEAN]
  BY <1>1
<1>3. modeCache' = [modeCache EXCEPT ![h] = [modeCache[h] EXCEPT !.fresh = FALSE]]
  BY DEF ModeExpires
<1>4. CacheType' /\ IsFiniteSet(pool)'
  BY <1>2, <1>3 DEF EchInv, TypeOK, CacheType, ModeExpires, jars
<1>5. JarIsCurrent'
  BY DEF EchInv, JarIsCurrent, ModeExpires, jars
<1> QED
  BY <1>4, <1>5, HandlersStay DEF EchInv, TypeOK, ModeExpires

LEMMA CookieDiesStep ==
  ASSUME EchInv, NEW h \in Hosts, CookieDies(h)
  PROVE  EchInv'
<1> DEFINE dead == [jar[h] EXCEPT !.live = FALSE]
<1>1. jar[h] # None /\ jar[h] \in Cookies
  BY DEF EchInv, TypeOK, CacheType, CookieDies, Living
<1>2. dead \in Cookies /\ dead.live = FALSE
  BY <1>1 DEF Cookies
<1>3. jar' = [jar EXCEPT ![h] = dead] /\ lasting' = [lasting EXCEPT ![h] = None]
  BY DEF CookieDies
<1> HIDE DEF dead
<1>4. CacheType' /\ IsFiniteSet(pool)'
  BY <1>2, <1>3 DEF EchInv, TypeOK, CacheType, CookieDies, caches
<1>5. /\ jar'[h] = dead /\ lasting'[h] = None
      /\ \A g \in Hosts \ {h} : jar'[g] = jar[g] /\ lasting'[g] = lasting[g]
  BY <1>3 DEF EchInv, TypeOK, CacheType
<1>6. ~Living(dead)
  BY <1>2 DEF Living
<1>7. ASSUME NEW g \in Hosts
      PROVE  lasting'[g] = IF Living(jar'[g]) THEN jar'[g].val ELSE None
  <2>1. CASE g = h
    BY <1>5, <1>6, <2>1
  <2>2. CASE g # h
    BY <1>5, <2>2 DEF EchInv, JarIsCurrent
  <2> QED
    BY <2>1, <2>2
<1>8. JarIsCurrent'
  BY <1>7 DEF JarIsCurrent
<1> QED
  BY <1>4, <1>8, HandlersStay DEF EchInv, TypeOK, CookieDies

LEMMA HostMovesStep ==
  ASSUME EchInv, NEW h \in Hosts, HostMoves(h)
  PROVE  EchInv'
<1>1. Len(Lists[h]) \in Nat /\ dns \in [Hosts -> Nat] /\ \A g \in Hosts : dns[g] \in 1..Len(Lists[g])
  BY EchAssumption DEF EchInv, TypeOK, CacheType
<1>2. dns[h] + 1 \in 1..Len(Lists[h]) /\ dns' = [dns EXCEPT ![h] = dns[h] + 1]
  BY <1>1 DEF HostMoves
<1>3. dns' \in [Hosts -> Nat] /\ \A g \in Hosts : dns'[g] \in 1..Len(Lists[g])
  BY <1>1, <1>2
<1>4. CacheType' /\ IsFiniteSet(pool)'
  BY <1>3 DEF EchInv, TypeOK, CacheType, HostMoves, caches, jars
<1>5. JarIsCurrent'
  BY DEF EchInv, JarIsCurrent, HostMoves, jars
<1> QED
  BY <1>4, <1>5, HandlersStay DEF EchInv, TypeOK, HostMoves

-----------------------------------------------------------------------------
(* The proxy.                                                              *)

LEMMA EchInit == Init => EchInv
<1> SUFFICES ASSUME Init PROVE EchInv
  OBVIOUS
<1>1. HandlerType
  BY DEF Init, HandlerType
<1>2. BodyType
  BY NoBodyTyped DEF Init, BodyType
<1>3. IsFiniteSet({}) /\ Cardinality({}) = 0 /\ MaxPool \in Nat
  BY FS_EmptySet, EchAssumption
<1>4. \A h \in Hosts : 1 \in 1..Len(Lists[h])
  BY EchAssumption
<1>5. CacheType /\ IsFiniteSet(pool)
  BY <1>3, <1>4 DEF Init, CacheType
<1>6. ASSUME NEW r \in Handlers PROVE BodyOK(r)
  BY FirstUnits, CausesTyped DEF Init, BodyOK
<1>7. JarIsCurrent
  BY DEF Init, JarIsCurrent, Living
<1> QED
  BY <1>1, <1>2, <1>5, <1>6, <1>7 DEF EchInv, TypeOK

LEMMA EchOutward ==
  ASSUME EchInv, NEW r \in Handlers, Arrives(r) \/ Outward(r)
  PROVE  EchInv'
  BY MatchStep, NoUpstreamStep, ModeCachedStep, ModeUnknownStep, ApplyCookiesStep,
     IPsCachedStep, AskDoHStep, StoreIPsStep, DoHFailsStep, KeepOutletStep,
     TryAnsweredStep, SendAnsweredStep, TryFailsStep, RoundFailsStep, SendFailsStep
     DEF Arrives, Outward

LEMMA EchInward ==
  ASSUME EchInv, NEW r \in Handlers, Inward(r)
  PROVE  EchInv'
  BY SaveCookiesStep, PassThroughStep, ReadBreaksStep, UndecodableStep, TooLongStep,
     RewriteStep, StreamUnitStep, StreamEndsStep, StreamBreaksStep, ReturnStep
     DEF Inward

LEMMA EchStep ==
  ASSUME EchInv, [Next]_vars
  PROVE  EchInv'
<1>1. CASE \E r \in Handlers : Arrives(r) \/ Outward(r) \/ Inward(r)
  BY <1>1, EchOutward, EchInward
<1>2. CASE \E h \in Hosts : Expiry(h) \/ CookieDies(h) \/ HostMoves(h)
  BY <1>2, IPsExpireStep, ModeExpiresStep, CookieDiesStep, HostMovesStep DEF Expiry
<1>3. CASE UNCHANGED vars
  <2>1. UNCHANGED <<pc, reqVars, sniVars, bodyVars, cause>> /\ UNCHANGED <<caches, jars, dns>>
    BY <1>3 DEF vars
  <2> QED
    BY <2>1, HandlersStay, CachesStay DEF EchInv, TypeOK
<1> QED
  BY <1>1, <1>2, <1>3 DEF Next

LEMMA EchInvariant == Spec => []EchInv
  BY EchInit, EchStep, PTL DEF Spec

\* The state has its type: in particular the pool of transports never grows over
\* maxSNITransports, the address tried is one of the list, and no handler
\* starts a third round (getSNITransport, sniFrontDo).
THEOREM EchTypeCorrect == Spec => []TypeOK
  BY EchInvariant, PTL DEF EchInv

\* A beginning of the body, and all of it when the handler is done.
LEMMA BodyIsWhole ==
  ASSUME EchInv
  PROVE  WholeBody
<1>1. ASSUME NEW r \in Handlers
      PROVE  /\ got[r] = Units(1, Len(got[r])) /\ Len(got[r]) <= taken[r]
             /\ cause[r] = "done" /\ (resp[r].text /\ resp[r].coded => resp[r].sound)
                  => Len(got[r]) = resp[r].size
  <2>1. taken[r] \in Nat
    BY DEF EchInv, TypeOK, BodyType
  <2>2. PICK n \in 0..taken[r] :
          /\ got[r] = Units(1, n)
          /\ cause[r] = "done" /\ (resp[r].text /\ resp[r].coded => resp[r].sound)
               => n = resp[r].size
    BY DEF EchInv, BodyOK
  <2>3. Len(got[r]) = n
    BY <2>1, <2>2, FirstUnits
  <2> QED
    BY <2>1, <2>2, <2>3
<1> QED
  BY <1>1 DEF WholeBody

\* Every browser that stays gets the whole body, once and in order, whatever its
\* size, its limit and the way it is passed on (proxy.go:890-965).
THEOREM BodyAlwaysWhole == Spec => []WholeBody
  BY EchInvariant, BodyIsWhole, PTL

\* Only ApplyCookies leads on from "apply".
LEMMA OnlyApplyCookies ==
  ASSUME EchInv, [Next]_vars, NEW r \in Handlers, pc[r] = "apply", pc'[r] # "apply"
  PROVE  ApplyCookies(r)
<1>1. pc \in [Handlers -> {"idle", "mode", "resolve", "store", "keep", "apply", "try",
                           "send", "save", "head", "stream", "over"}]
  BY DEF EchInv, TypeOK, HandlerType
<1>2. CASE UNCHANGED pc
  BY <1>2
<1>3. CASE \E s \in Handlers : Arrives(s) \/ Outward(s) \/ Inward(s)
  <2>1. PICK s \in Handlers : Arrives(s) \/ Outward(s) \/ Inward(s)
    BY <1>3
  <2>2. ASSUME s # r PROVE pc'[r] = pc[r]
    <3>1. CASE Arrives(s)
      BY <1>1, <2>2, <3>1 DEF Arrives, NoUpstream, Match, Goto, End
    <3>2. CASE Outward(s)
      BY <1>1, <2>2, <3>2 DEF Outward, ModeCached, ModeUnknown, ApplyCookies, IPsCached, AskDoH,
         StoreIPs, DoHFails, KeepOutlet, TryAnswered, SendAnswered, TryFails, RoundFails,
         SendFails, Resolved, Answered, Goto, End
    <3>3. CASE Inward(s)
      BY <1>1, <2>2, <3>3 DEF Inward, SaveCookies, PassThrough, ReadBreaks, Undecodable,
         TooLong, Rewrite, StreamUnit, StreamEnds, StreamBreaks, Return, Goto, End
    <3> QED
      BY <2>1, <3>1, <3>2, <3>3
  <2>3. s = r
    BY <2>2
  <2>4. ~Arrives(r) /\ ~Inward(r)
    BY DEF Arrives, NoUpstream, Match, Inward, SaveCookies, PassThrough, ReadBreaks,
       Undecodable, TooLong, Rewrite, StreamUnit, StreamEnds, StreamBreaks, Return, Goto
  <2>5. Outward(r)
    BY <2>1, <2>3, <2>4
  <2> QED
    BY <2>5 DEF Outward, ModeCached, ModeUnknown, IPsCached, AskDoH, StoreIPs, DoHFails,
       KeepOutlet, TryAnswered, SendAnswered, TryFails, RoundFails, SendFails, Goto
<1>4. CASE \E h \in Hosts : Expiry(h) \/ CookieDies(h) \/ HostMoves(h)
  BY <1>2, <1>4 DEF Expiry, IPsExpire, ModeExpires, CookieDies, HostMoves
<1> QED
  BY <1>2, <1>3, <1>4 DEF Next, vars

\* A request carries the cookie configured for its host; without one the last
\* with a lifetime that was saved of the host, if it still lives, and the
\* browser's otherwise, whatever the other handlers do between
\* (proxy.go:54-57, 827-832, 1356-1357).  A Set-Cookie that deletes does not
\* count: the code passes it over.
THEOREM LatestAlwaysCarried == Spec => CarriesLatest
<1>1. ASSUME EchInv, [Next]_vars, NEW r \in Handlers, pc[r] = "apply", pc'[r] # "apply"
      PROVE  cookie'[r] = Due(host[r])
  BY <1>1, OnlyApplyCookies, ApplyCookiesStep
<1>2. EchInv /\ [Next]_vars =>
        [\A r \in Handlers :
           pc[r] = "apply" /\ pc'[r] # "apply" =>
             cookie'[r] = Due(host[r])]_vars
  BY <1>1
<1> QED
  BY <1>2, EchInvariant, PTL DEF Spec, CarriesLatest

-----------------------------------------------------------------------------
(* Names and entries (EchRewrite), for any entries, names and pages.       *)

\* A prefix and a suffix, token by token.
LEMMA PrefixIs ==
  ASSUME NEW s \in Texts, NEW t \in Texts
  PROVE  IsPrefix(s, t) <=> Len(s) <= Len(t) /\ \A i \in 1..Len(s) : s[i] = t[i]
<1>1. Len(s) \in Nat /\ Len(t) \in Nat
  BY DEF Texts
<1>2. SubSeq(s, 1, Len(s)) = s
  BY SubSeqFull DEF Texts
<1>3. CASE Len(s) <= Len(t)
  <2>1. 1 \in 1..Len(t)+1 /\ Len(s) \in 1-1..Len(t)
    BY <1>1, <1>3
  <2>2. /\ SubSeq(t, 1, Len(s)) \in Texts
        /\ Len(SubSeq(t, 1, Len(s))) = Len(s)
        /\ \A i \in 1..Len(s) : SubSeq(t, 1, Len(s))[i] = t[i]
    BY <1>1, <1>3, <2>1, SubSeqProperties DEF Texts
  <2>3. SubSeq(t, 1, Len(s)) = s <=> \A i \in 1..Len(s) : s[i] = t[i]
    BY <2>2, SeqEqual DEF Texts
  <2> QED
    BY <1>2, <1>3, <2>3 DEF IsPrefix
<1> QED
  BY <1>3 DEF IsPrefix

LEMMA SuffixIs ==
  ASSUME NEW s \in Texts, NEW t \in Texts
  PROVE  IsSuffix(s, t) <=>
           Len(s) <= Len(t) /\ \A i \in 1..Len(s) : s[i] = t[Len(t) - Len(s) + i]
<1>1. Len(s) \in Nat /\ Len(t) \in Nat
  BY DEF Texts
<1>2. /\ Reverse(s) \in Texts /\ Len(Reverse(s)) = Len(s)
      /\ \A i \in 1..Len(s) : Reverse(s)[i] = s[Len(s) - i + 1]
      /\ Reverse(t) \in Texts /\ Len(Reverse(t)) = Len(t)
      /\ \A i \in 1..Len(t) : Reverse(t)[i] = t[Len(t) - i + 1]
  BY <1>1 DEF Texts, Reverse
<1>3. IsSuffix(s, t) <=>
        Len(s) <= Len(t) /\ \A i \in 1..Len(s) : Reverse(s)[i] = Reverse(t)[i]
  BY <1>2, PrefixIs DEF IsSuffix
<1>4. ASSUME Len(s) <= Len(t)
      PROVE  (\A i \in 1..Len(s) : Reverse(s)[i] = Reverse(t)[i]) <=>
             (\A i \in 1..Len(s) : s[i] = t[Len(t) - Len(s) + i])
  <2>1. \A i \in 1..Len(s) : /\ i \in 1..Len(t)
                             /\ Len(s) - i + 1 \in 1..Len(s)
                             /\ Len(t) - Len(s) + (Len(s) - i + 1) = Len(t) - i + 1
                             /\ Len(s) - (Len(s) - i + 1) + 1 = i
                             /\ Len(t) - (Len(s) - i + 1) + 1 = Len(t) - Len(s) + i
    BY <1>1, <1>4
  <2>2. ASSUME \A i \in 1..Len(s) : Reverse(s)[i] = Reverse(t)[i], NEW i \in 1..Len(s)
        PROVE  s[i] = t[Len(t) - Len(s) + i]
    <3>1. Reverse(s)[Len(s) - i + 1] = Reverse(t)[Len(s) - i + 1]
      BY <2>1, <2>2
    <3>2. Reverse(s)[Len(s) - i + 1] = s[i]
      BY SMTT(40), <1>2, <2>1
    <3>3. Reverse(t)[Len(s) - i + 1] = t[Len(t) - Len(s) + i]
      <4>1. Len(s) - i + 1 \in 1..Len(t)
        BY <1>1, <1>4, <2>1
      <4>2. Reverse(t)[Len(s) - i + 1] = t[Len(t) - (Len(s) - i + 1) + 1]
        BY <1>2, <4>1
      <4> QED
        BY <2>1, <4>2
    <3> QED
      BY <3>1, <3>2, <3>3
  <2>3. ASSUME \A i \in 1..Len(s) : s[i] = t[Len(t) - Len(s) + i], NEW i \in 1..Len(s)
        PROVE  Reverse(s)[i] = Reverse(t)[i]
    <3>1. s[Len(s) - i + 1] = t[Len(t) - i + 1]
      BY <2>1, <2>3
    <3> QED
      BY <1>2, <2>1, <3>1
  <2> QED
    BY <2>2, <2>3
<1> QED
  BY <1>3, <1>4

\* Two prefixes of a text are prefixes of one another, and so are two suffixes.
LEMMA PrefixesNest ==
  ASSUME NEW s \in Texts, NEW t \in Texts, NEW h \in Texts, IsPrefix(s, h), IsPrefix(t, h)
  PROVE  IsPrefix(s, t) \/ IsPrefix(t, s)
<1>1. Len(s) \in Nat /\ Len(t) \in Nat
  BY DEF Texts
<1>2. /\ \A i \in 1..Len(s) : s[i] = h[i]
      /\ \A i \in 1..Len(t) : t[i] = h[i]
  BY PrefixIs
<1>3. CASE Len(s) <= Len(t)
  BY <1>1, <1>2, <1>3, PrefixIs
<1>4. CASE Len(t) <= Len(s)
  BY <1>1, <1>2, <1>4, PrefixIs
<1> QED
  BY <1>1, <1>3, <1>4

LEMMA SuffixesNest ==
  ASSUME NEW s \in Texts, NEW t \in Texts, NEW h \in Texts, IsSuffix(s, h), IsSuffix(t, h)
  PROVE  IsSuffix(s, t) \/ IsSuffix(t, s)
<1>1. Len(s) \in Nat /\ Len(t) \in Nat /\ Len(h) \in Nat
  BY DEF Texts
<1>2. /\ \A i \in 1..Len(s) : s[i] = h[Len(h) - Len(s) + i]
      /\ \A i \in 1..Len(t) : t[i] = h[Len(h) - Len(t) + i]
  BY SuffixIs
<1>3. ASSUME NEW x \in Texts, NEW y \in Texts, Len(x) <= Len(y),
             \A i \in 1..Len(x) : x[i] = h[Len(h) - Len(x) + i],
             \A i \in 1..Len(y) : y[i] = h[Len(h) - Len(y) + i]
      PROVE  IsSuffix(x, y)
  <2>1. Len(x) \in Nat /\ Len(y) \in Nat
    BY DEF Texts
  <2>2. ASSUME NEW i \in 1..Len(x)
        PROVE  x[i] = y[Len(y) - Len(x) + i]
    <3>1. /\ Len(y) - Len(x) + i \in 1..Len(y)
          /\ Len(h) - Len(y) + (Len(y) - Len(x) + i) = Len(h) - Len(x) + i
      BY <1>1, <1>3, <2>1
    <3> QED
      BY <1>3, <3>1
  <2> QED
    BY <1>3, <2>2, SuffixIs
<1>4. Len(s) <= Len(t) \/ Len(t) <= Len(s)
  BY <1>1
<1> QED
  BY <1>2, <1>3, <1>4

\* A text in three parts, and what is left of one before its end.
Joined(p, x, e) == (p \o x) \o e
Without(n, e) == SubSeq(n, 1, Len(n) - Len(e))

\* What a text is made of.
LEMMA PartsOf ==
  ASSUME NEW p \in Texts, NEW x \in Texts, NEW e \in Texts,
         NEW h, h = Joined(p, x, e)
  PROVE  /\ h \in Texts
         /\ IsPrefix(p, h) /\ IsSuffix(e, h)
         /\ SubSeq(h, Len(p) + 1, Len(h) - Len(e)) = x
<1>1. Len(p) \in Nat /\ Len(x) \in Nat /\ Len(e) \in Nat
  BY DEF Texts
<1>2. /\ p \o x \in Texts /\ Len(p \o x) = Len(p) + Len(x)
      /\ \A i \in 1..(Len(p) + Len(x)) : (p \o x)[i] = IF i <= Len(p) THEN p[i] ELSE x[i - Len(p)]
  BY ConcatProperties DEF Texts
<1>3. /\ h \in Texts /\ Len(h) = Len(p) + Len(x) + Len(e)
      /\ \A i \in 1..Len(h) : h[i] = IF i <= Len(p) + Len(x) THEN (p \o x)[i]
                                                              ELSE e[i - (Len(p) + Len(x))]
  BY <1>2, ConcatProperties DEF Texts, Joined
<1>4. \A i \in 1..Len(p) : p[i] = h[i]
  BY <1>1, <1>2, <1>3
<1>5. \A i \in 1..Len(e) : e[i] = h[Len(h) - Len(e) + i]
  <2> TAKE i \in 1..Len(e)
  <2>1. /\ Len(h) - Len(e) + i \in 1..Len(h)
        /\ ~(Len(h) - Len(e) + i <= Len(p) + Len(x))
        /\ (Len(h) - Len(e) + i) - (Len(p) + Len(x)) = i
    BY <1>1, <1>3
  <2> QED
    BY <1>3, <2>1
<1>6. \A i \in 1..Len(x) : x[i] = h[Len(p) + i]
  <2> TAKE i \in 1..Len(x)
  <2>1. /\ Len(p) + i \in 1..Len(h) /\ Len(p) + i \in 1..(Len(p) + Len(x))
        /\ ~(Len(p) + i <= Len(p)) /\ (Len(p) + i) - Len(p) = i /\ Len(p) + i <= Len(p) + Len(x)
    BY <1>1, <1>3
  <2> QED
    BY <1>2, <1>3, <2>1
<1>7. SubSeq(h, Len(p) + 1, Len(h) - Len(e)) = x
  <2>1. PICK y : y = SubSeq(h, Len(p) + 1, Len(h) - Len(e))
    OBVIOUS
  <2>2. /\ Len(p) + 1 \in 1..(Len(h) + 1)
        /\ Len(h) - Len(e) \in ((Len(p) + 1) - 1)..Len(h)
        /\ (Len(h) - Len(e)) - (Len(p) + 1) + 1 = Len(x)
    BY <1>1, <1>3
  <2>3. /\ y \in Texts /\ Len(y) = Len(x)
        /\ \A i \in 1..Len(x) : y[i] = h[(Len(p) + 1) + i - 1]
    BY <1>3, <2>1, <2>2, SubSeqProperties DEF Texts
  <2>4. \A i \in 1..Len(x) : y[i] = x[i]
    <3> TAKE i \in 1..Len(x)
    <3>1. (Len(p) + 1) + i - 1 = Len(p) + i
      BY <1>1
    <3> QED
      BY <1>6, <2>3, <3>1
  <2> QED
    BY <2>1, <2>3, <2>4, SeqEqual DEF Texts
<1>8. IsPrefix(p, h)
  <2>1. Len(p) <= Len(h) /\ h \in Texts
    BY <1>1, <1>3
  <2>2. p \in Texts
    OBVIOUS
  <2> QED
    BY ONLY <1>4, <2>1, <2>2, PrefixIs
<1>9. IsSuffix(e, h)
  <2>1. Len(e) <= Len(h) /\ h \in Texts
    BY <1>1, <1>3
  <2>2. e \in Texts
    OBVIOUS
  <2> QED
    BY ONLY <1>5, <2>1, <2>2, SuffixIs
<1> QED
  BY <1>3, <1>7, <1>8, <1>9

\* A text with a suffix is what comes before it, and the suffix.
LEMMA BeforeSuffix ==
  ASSUME NEW e \in Texts, NEW n \in Texts, IsSuffix(e, n), n # e,
         NEW x, x = Without(n, e)
  PROVE  /\ x \in Texts /\ x # <<>> /\ n = x \o e
         /\ Len(n) > Len(e)
         /\ Range(x) \subseteq Range(n)
<1>1. Len(e) \in Nat /\ Len(n) \in Nat
  BY DEF Texts
<1>2. Len(e) <= Len(n) /\ \A i \in 1..Len(e) : e[i] = n[Len(n) - Len(e) + i]
  BY SuffixIs
<1>3. PICK k : k = Len(n) - Len(e)
  OBVIOUS
<1>4. k \in Nat /\ k <= Len(n) /\ Len(n) = k + Len(e)
  BY <1>1, <1>2, <1>3
<1>5. \A i \in 1..k : n[i] \in STRING
  BY <1>1, <1>4 DEF Texts
<1>6. /\ x \in Texts /\ Len(x) = k
      /\ \A i \in 1..k : x[i] = n[i]
  <2>1. SubSeq(n, 1, k) \in Seq(STRING)
    BY <1>4, <1>5, SubSeqProperties
  <2>2. Len(SubSeq(n, 1, k)) = k
    BY <1>4, <1>5, SubSeqProperties
  <2>3. \A i \in 1..k : SubSeq(n, 1, k)[i] = n[i]
    <3>1. \A i \in 1..(k - 1 + 1) : SubSeq(n, 1, k)[i] = n[1 + i - 1]
      BY <1>4, <1>5, SubSeqProperties
    <3>2. k - 1 + 1 = k /\ \A i \in 1..k : 1 + i - 1 = i
      BY <1>4
    <3> QED
      BY <3>1, <3>2
  <2> QED
    BY <1>3, <2>1, <2>2, <2>3 DEF Texts, Without
<1>7. n = x \o e
  <2>1. PICK y : y = x \o e
    OBVIOUS
  <2>2. /\ y \in Texts /\ Len(y) = k + Len(e)
        /\ \A i \in 1..(k + Len(e)) : y[i] = IF i <= k THEN x[i] ELSE e[i - k]
    BY <1>6, <2>1, ConcatProperties DEF Texts
  <2>3. \A i \in 1..Len(n) : n[i] = y[i]
    <3> TAKE i \in 1..Len(n)
    <3>1. CASE i <= k
      BY <1>4, <1>6, <2>2, <3>1
    <3>2. CASE ~(i <= k)
      <4>1. i - k \in 1..Len(e) /\ k + (i - k) = i
        BY <1>1, <1>4, <3>2
      <4>2. e[i - k] = n[i]
        BY <1>2, <1>3, <4>1
      <4> QED
        BY <1>4, <2>2, <3>2, <4>2
    <3> QED
      BY <3>1, <3>2
  <2> QED
    BY <1>4, <2>1, <2>2, <2>3, SeqEqual DEF Texts
<1>8. k # 0
  <2> SUFFICES ASSUME k = 0 PROVE FALSE
    OBVIOUS
  <2>1. x = <<>>
    BY <1>6, EmptySeq DEF Texts
  <2> QED
    BY <1>7, <2>1, ConcatEmptySeq DEF Texts
<1>9. x # <<>>
  BY <1>6, <1>8
<1>10. Range(x) \subseteq Range(n)
  <2>1. DOMAIN x = 1..k /\ DOMAIN n = 1..Len(n)
    BY <1>6 DEF Texts
  <2> QED
    BY <1>1, <1>4, <1>6, <2>1 DEF Range
<1>11. Len(n) > Len(e)
  BY <1>1, <1>4, <1>8
<1> QED
  BY <1>6, <1>7, <1>9, <1>10, <1>11

\* The wildcards of the entries.
LEMMA WildcardTypes ==
  ASSUME NEW u \in Wildcards
  PROVE  /\ u \in [host : Texts, rewrites : {u.rewrites}, wildcard : Patterns]
         /\ u.wildcard.prefix \in Texts /\ u.wildcard.entrySuffix \in Texts
         /\ u.wildcard.upstreamSuffix \in Texts
<1>1. u \in Range(Config) /\ u.wildcard # NoRule
  BY DEF Wildcards
<1>2. u \in [host : Texts, rewrites : {u.rewrites}, wildcard : {NoRule} \cup Patterns]
  BY <1>1, EntriesAssumption
<1>3. u.wildcard \in Patterns
  BY <1>1, <1>2
<1> QED
  BY <1>2, <1>3 DEF Patterns

\* A host has one wildcard around it.
LEMMA OneWildcard ==
  ASSUME Separate, NEW h \in Texts, NEW u \in Wildcards, NEW v \in Wildcards,
         Around(h, u.wildcard), Around(h, v.wildcard)
  PROVE  u.wildcard = v.wildcard
<1>1. /\ u.wildcard.prefix \in Texts /\ v.wildcard.prefix \in Texts
      /\ u.wildcard.entrySuffix \in Texts /\ v.wildcard.entrySuffix \in Texts
  BY WildcardTypes
<1>2. \/ IsPrefix(u.wildcard.prefix, v.wildcard.prefix)
      \/ IsPrefix(v.wildcard.prefix, u.wildcard.prefix)
  BY <1>1, PrefixesNest DEF Around
<1>3. \/ IsSuffix(u.wildcard.entrySuffix, v.wildcard.entrySuffix)
      \/ IsSuffix(v.wildcard.entrySuffix, u.wildcard.entrySuffix)
  BY <1>1, SuffixesNest DEF Around
<1> QED
  BY <1>2, <1>3 DEF Separate

\* The entry of x under a wildcard is looked up as x under its upstream suffix.
LEMMA MatchesSub ==
  ASSUME Separate, NEW u \in Wildcards, u.wildcard.prefix # <<>>,
         NEW x \in Texts, x # <<>>, Range(x) \cap {":", "/"} = {},
         NEW entry, entry = (u.wildcard.prefix \o x) \o u.wildcard.entrySuffix
  PROVE  {v.host : v \in matchWildcard(entry)} = {x \o u.wildcard.upstreamSuffix}
<1>1. /\ u.wildcard.prefix \in Texts /\ u.wildcard.entrySuffix \in Texts
      /\ \A v \in Wildcards : v \in [host : Texts, rewrites : {v.rewrites}, wildcard : Patterns]
  BY WildcardTypes
<1>2. /\ entry \in Texts /\ Around(entry, u.wildcard)
      /\ SubOf(entry, u.wildcard) = x
  <2>1. /\ entry \in Texts
        /\ IsPrefix(u.wildcard.prefix, entry) /\ IsSuffix(u.wildcard.entrySuffix, entry)
        /\ SubSeq(entry, Len(u.wildcard.prefix) + 1, Len(entry) - Len(u.wildcard.entrySuffix)) = x
    <3>1. PICK p, f : p = u.wildcard.prefix /\ f = u.wildcard.entrySuffix
      OBVIOUS
    <3>2. p \in Texts /\ x \in Texts /\ f \in Texts /\ entry = Joined(p, x, f)
      BY <1>1, <3>1 DEF Joined
    <3>3. /\ entry \in Texts /\ IsPrefix(p, entry) /\ IsSuffix(f, entry)
          /\ SubSeq(entry, Len(p) + 1, Len(entry) - Len(f)) = x
      BY ONLY <3>2, PartsOf
    <3> QED
      BY ONLY <3>1, <3>3
  <2> QED
    BY <2>1 DEF Around, SubOf
<1>3. \A v \in Wildcards : Around(entry, v.wildcard) => v.wildcard = u.wildcard
  BY <1>2, OneWildcard
<1>4. PICK V : V = {v \in Wildcards : /\ v.wildcard.prefix # <<>>
                                      /\ Around(entry, v.wildcard)
                                      /\ SubOf(entry, v.wildcard) # <<>>
                                      /\ Range(SubOf(entry, v.wildcard)) \cap {":", "/"} = {}}
  OBVIOUS
<1>5. u \in V /\ \A v \in V : v \in Wildcards /\ v.wildcard = u.wildcard
  BY <1>2, <1>3, <1>4
<1>6. matchWildcard(entry) =
        {[v EXCEPT !.host = SubOf(entry, v.wildcard) \o v.wildcard.upstreamSuffix] : v \in V}
  BY SMTT(40), <1>4 DEF matchWildcard
<1>7. \A v \in V : [v EXCEPT !.host = SubOf(entry, v.wildcard) \o v.wildcard.upstreamSuffix].host
                     = x \o u.wildcard.upstreamSuffix
  BY <1>1, <1>2, <1>5
<1>8. \A v \in matchWildcard(entry) : v.host = x \o u.wildcard.upstreamSuffix
  BY <1>6, <1>7
<1>9. matchWildcard(entry) # {}
  BY <1>5, <1>6
<1> QED
  BY <1>8, <1>9

\* The wildcard a page is rewritten by is that of some entry.
LEMMA FoundWildcard ==
  ASSUME NEW e, NEW found \in Lookup(e), NEW uc \in inheritWildcard(found, e),
         uc.wildcard # NoRule
  PROVE  \E u \in Wildcards : uc.wildcard = u.wildcard
<1>1. found \in [host : Texts \cup {found.host}, rewrites : {found.rewrites},
                 wildcard : {NoRule} \cup Patterns]
      /\ (found.wildcard # NoRule => \E u \in Wildcards : found.wildcard = u.wildcard)
  <2>1. CASE e \in DOMAIN Config
    <3>1. found = Config[e] /\ found \in Range(Config)
      BY <2>1 DEF Lookup, Range
    <3> QED
      BY <3>1, EntriesAssumption DEF Wildcards
  <2>2. CASE e \notin DOMAIN Config
    <3>1. PICK u \in Wildcards :
            found = [u EXCEPT !.host = SubOf(e, u.wildcard) \o u.wildcard.upstreamSuffix]
      BY <2>2 DEF Lookup, matchWildcard
    <3>2. u \in [host : Texts, rewrites : {u.rewrites}, wildcard : Patterns]
      BY WildcardTypes
    <3>3. found = [host |-> SubOf(e, u.wildcard) \o u.wildcard.upstreamSuffix,
                   rewrites |-> u.rewrites, wildcard |-> u.wildcard]
      BY <3>1, <3>2
    <3> QED
      BY <3>2, <3>3
  <2> QED
    BY <2>1, <2>2
<1>2. CASE uc = found
  BY <1>1, <1>2
<1>3. CASE \E u \in Family(e) : uc = [found EXCEPT !.wildcard = u.wildcard]
  BY <1>1, <1>3 DEF Family
<1> QED
  BY <1>2, <1>3 DEF inheritWildcard

\* A request to the entry that a page names for a subdomain is sent to that
\* subdomain, unless the configuration has an entry of this very name: then to the
\* host of that entry, whichever it is (LeadsTo).  So it is whatever the entries
\* are, as long as no host has two wildcards around it (EntryFor; matchWildcard and
\* inheritWildcard of echproxy/proxy.go).
THEOREM SubdomainsLeadBack ==
  ASSUME Separate,
         NEW e, NEW found \in Lookup(e), NEW uc \in inheritWildcard(found, e),
         uc.wildcard.prefix # <<>>, uc.wildcard.upstreamSuffix # <<>>,
         NEW n \in Texts, IsSub(n, uc.wildcard), n \notin DOMAIN uc.rewrites,
         Range(n) \cap {":", "/"} = {},
         NEW entry, entry = EntryFor(uc, n, <<>>)
  PROVE  {u.host : u \in Lookup(entry)} = {LeadsTo(entry, n)}
<1>1. PICK w : w = uc.wildcard
  OBVIOUS
<1>2. w # NoRule /\ IsSuffix(w.upstreamSuffix, n) /\ n # w.upstreamSuffix
  BY <1>1 DEF IsSub
<1>3. PICK u \in Wildcards : w = u.wildcard
  BY <1>1, <1>2, FoundWildcard
<1>4. w.prefix \in Texts /\ w.entrySuffix \in Texts /\ w.upstreamSuffix \in Texts
  BY <1>3, WildcardTypes
<1>5. PICK x : x = SubSeq(n, 1, Len(n) - Len(w.upstreamSuffix))
  OBVIOUS
<1>6. /\ x \in Texts /\ x # <<>> /\ n = x \o w.upstreamSuffix
      /\ Len(n) > Len(w.upstreamSuffix)
      /\ Range(x) \cap {":", "/"} = {}
  <2>1. /\ x \in Texts /\ x # <<>> /\ n = x \o w.upstreamSuffix
        /\ Len(n) > Len(w.upstreamSuffix)
        /\ Range(x) \subseteq Range(n)
    <3>1. PICK f : f = w.upstreamSuffix
      OBVIOUS
    <3>2. f \in Texts /\ n \in Texts /\ IsSuffix(f, n) /\ n # f /\ x = Without(n, f)
      BY <1>2, <1>4, <1>5, <3>1 DEF Without
    <3>3. /\ x \in Texts /\ x # <<>> /\ n = x \o f
          /\ Len(n) > Len(f)
          /\ Range(x) \subseteq Range(n)
      BY ONLY <3>2, BeforeSuffix
    <3> QED
      BY ONLY <3>1, <3>3
  <2> QED
    BY <2>1
<1>7. n # Bare(w)
  <2>1. Len(Bare(w)) = Len(w.upstreamSuffix) - 1
    BY <1>1, <1>4, HeadTailProperties DEF Bare, Texts
  <2>2. Len(w.upstreamSuffix) \in Nat
    BY SMTT(40), <1>4 DEF Texts
  <2> QED
    BY <1>6, <2>1, <2>2
<1>8. entry = ((w.prefix \o x) \o w.entrySuffix) \o <<>>
  <2>1. ~Glued(n, w)
    BY <1>2 DEF Glued
  <2> QED
    BY <1>1, <1>2, <1>5, <1>7, <2>1 DEF EntryFor, EntryOf
<1>9. entry = (w.prefix \o x) \o w.entrySuffix
  <2>1. (w.prefix \o x) \o w.entrySuffix \in Texts
    BY <1>4, <1>6, PartsOf DEF Joined
  <2> QED
    BY <1>8, <2>1, ConcatEmptySeq DEF Texts
<1>10. CASE entry \in DOMAIN Config
  <2>1. Lookup(entry) = {Config[entry]}
    BY <1>10 DEF Lookup
  <2> QED
    BY <1>10, <2>1 DEF LeadsTo
<1>11. CASE entry \notin DOMAIN Config
  <2>1. Lookup(entry) = matchWildcard(entry)
    BY <1>11 DEF Lookup
  <2>2. {v.host : v \in matchWildcard(entry)} = {x \o u.wildcard.upstreamSuffix}
    BY <1>1, <1>3, <1>6, <1>9, MatchesSub
  <2>3. LeadsTo(entry, n) = n
    BY <1>11 DEF LeadsTo
  <2>4. {v.host : v \in Lookup(entry)} = {x \o u.wildcard.upstreamSuffix}
    BY ONLY <2>1, <2>2
  <2>5. x \o u.wildcard.upstreamSuffix = LeadsTo(entry, n)
    BY <1>3, <1>6, <2>3
  <2> QED
    BY ONLY <2>4, <2>5
<1> QED
  BY <1>10, <1>11

-----------------------------------------------------------------------------
(* Replacing names: the recursions of EchRewrite run over shorter and      *)
(* shorter texts.                                                          *)

\* A set of natural numbers has a least one.
LEMMA LeastOf ==
  ASSUME NEW I \in SUBSET Nat, I # {}
  PROVE  \E x \in I : \A y \in I : ~(y < x)
<1> DEFINE R == OpToRel(<, Nat)
<1>1. IsWellFoundedOn(R, Nat)
  BY NatLessThanWellFounded
<1>2. \A i, j \in Nat : <<i, j>> \in R <=> i < j
  BY DEF OpToRel
<1> HIDE DEF R
<1>3. PICK x \in I : \A y \in I : ~(<<y, x>> \in R)
  BY <1>1, WFMin
<1> QED
  BY <1>2, <1>3

\* Induction over the natural numbers, for a set instead of a predicate.
LEMMA SetInduction ==
  ASSUME NEW T, 0 \in T, \A n \in T : n + 1 \in T
  PROVE  Nat \subseteq T
<1> SUFFICES ASSUME Nat \ T # {} PROVE FALSE
  OBVIOUS
<1>1. PICK x \in Nat \ T : \A y \in Nat \ T : ~(y < x)
  BY LeastOf
<1>2. x \in Nat /\ x # 0
  BY <1>1
<1>3. x - 1 \in Nat /\ x - 1 < x
  BY <1>2
<1>4. x - 1 \in T
  BY <1>1, <1>3
<1>5. (x - 1) + 1 \in T
  BY <1>4
<1> QED
  BY <1>1, <1>2, <1>5

\* A function that is computed from its own values at shorter texts exists.
LEMMA RecursionDefined ==
  ASSUME NEW F \in [[Texts -> Texts] \X Texts -> Texts],
         \A g, h \in [Texts -> Texts], s \in Texts :
           (\A r \in Texts : Len(r) < Len(s) => g[r] = h[r]) => F[<<g, s>>] = F[<<h, s>>]
  PROVE  \E g \in [Texts -> Texts] : \A s \in Texts : g[s] = F[<<g, s>>]
<1> DEFINE V == [Texts -> Texts]
           Good(g, n) == \A s \in Texts : Len(s) < n => g[s] = F[<<g, s>>]
           T == {n \in Nat : \E g \in V : Good(g, n)}
<1>1. \A s \in Texts : Len(s) \in Nat
  BY DEF Texts
<1>2. \A g \in V, s \in Texts : F[<<g, s>>] \in Texts
  OBVIOUS
<1>3. 0 \in T
  <2>1. [s \in Texts |-> s] \in V
    OBVIOUS
  <2>2. \A s \in Texts : ~(Len(s) < 0)
    BY <1>1
  <2>3. Good([s \in Texts |-> s], 0)
    BY <2>2
  <2> QED
    BY <2>1, <2>3
<1>4. ASSUME NEW n \in T
      PROVE  n + 1 \in T
  <2>1. PICK g \in V : n \in Nat /\ Good(g, n)
    OBVIOUS
  <2>2. PICK h \in V : \A s \in Texts : h[s] = F[<<g, s>>]
    <3>1. [s \in Texts |-> F[<<g, s>>]] \in V
      BY <1>2
    <3> QED
      BY <3>1
  <2>3. ASSUME NEW s \in Texts, Len(s) < n + 1
        PROVE  h[s] = F[<<h, s>>]
    <3>1. ASSUME NEW r \in Texts, Len(r) < Len(s)
          PROVE  g[r] = h[r]
      <4>1. Len(r) < n
        BY ONLY <1>1, <2>1, <2>3, <3>1
      <4> QED
        BY <2>1, <2>2, <4>1
    <3>2. F[<<g, s>>] = F[<<h, s>>]
      BY <3>1
    <3> QED
      BY <2>2, <3>2
  <2> QED
    BY <2>1, <2>3
<1>5. \A n \in Nat : \E g \in V : Good(g, n)
  <2> HIDE DEF Good
  <2> QED
    BY <1>3, <1>4, SetInduction
<1>6. ASSUME NEW n \in Nat, NEW g \in V, NEW h \in V, Good(g, n), Good(h, n)
      PROVE  \A s \in Texts : Len(s) < n => g[s] = h[s]
  <2> DEFINE A == {k \in Nat : \A s \in Texts : Len(s) < k /\ Len(s) < n => g[s] = h[s]}
  <2>1. 0 \in A
    BY <1>1
  <2>2. ASSUME NEW k \in A
        PROVE  k + 1 \in A
    <3>1. ASSUME NEW s \in Texts, Len(s) < k + 1, Len(s) < n
          PROVE  g[s] = h[s]
      <4>1. \A r \in Texts : Len(r) < Len(s) => g[r] = h[r]
        BY <1>1, <3>1
      <4>2. F[<<g, s>>] = F[<<h, s>>]
        BY <4>1
      <4> QED
        BY <1>6, <3>1, <4>2
    <3> QED
      BY <3>1
  <2>3. n \in A
    <3> HIDE DEF A
    <3> QED
      BY <2>1, <2>2, SetInduction
  <2> QED
    BY <2>3
<1> DEFINE H(n) == CHOOSE g \in V : Good(g, n)
<1>7. \A n \in Nat : H(n) \in V /\ Good(H(n), n)
  BY <1>5
<1> HIDE DEF H
<1>8. PICK f : f = [s \in Texts |-> H(Len(s) + 1)[s]]
  OBVIOUS
<1>9. f \in V
  BY <1>1, <1>7, <1>8
<1>10. ASSUME NEW s \in Texts
       PROVE  f[s] = F[<<f, s>>]
  <2>1. PICK n : n = Len(s) + 1
    OBVIOUS
  <2>2. n \in Nat /\ Len(s) < n
    BY <1>1, <2>1
  <2>3. PICK g \in V : g = H(n) /\ Good(g, n)
    BY <1>7, <2>2
  <2>4. ASSUME NEW r \in Texts, Len(r) < Len(s)
        PROVE  g[r] = f[r]
    <3>1. PICK m : m = Len(r) + 1
      OBVIOUS
    <3>2. m \in Nat /\ Len(r) < m /\ m <= n
      BY <1>1, <2>1, <2>4, <3>1
    <3>3. PICK e \in V : e = H(m) /\ Good(e, m)
      BY <1>7, <3>2
    <3>4. Good(g, m)
      <4>1. \A q \in Texts : Len(q) < m => Len(q) < n
        BY ONLY <1>1, <2>2, <3>2
      <4> QED
        BY <2>3, <4>1
    <3>5. e[r] = g[r]
      BY <1>6, <3>2, <3>3, <3>4
    <3> QED
      BY <1>8, <3>1, <3>3, <3>5
  <2>5. F[<<g, s>>] = F[<<f, s>>]
    BY <1>9, <2>4
  <2>6. g[s] = F[<<g, s>>]
    BY <2>2, <2>3
  <2> QED
    BY <1>8, <2>1, <2>3, <2>5, <2>6
<1> QED
  BY <1>9, <1>10

\* A text without its first tokens, and its first tokens.
LEMMA FromIs ==
  ASSUME NEW s \in Texts, NEW k \in 1..(Len(s) + 1)
  PROVE  /\ From(s, k) \in Texts /\ Len(From(s, k)) = Len(s) + 1 - k
         /\ \A m \in 1..(Len(s) + 1 - k) : From(s, k)[m] = s[k - 1 + m]
<1>1. Len(s) \in Nat /\ k \in Nat /\ k >= 1 /\ k <= Len(s) + 1 /\ k \in Int /\ Len(s) \in Int
  BY DEF Texts
<1>2. \A i \in k..Len(s) : s[i] \in STRING
  BY <1>1 DEF Texts
<1>3. /\ SubSeq(s, k, Len(s)) \in Seq(STRING)
      /\ Len(SubSeq(s, k, Len(s))) = IF k <= Len(s) THEN Len(s) - k + 1 ELSE 0
      /\ \A m \in 1..(Len(s) - k + 1) : SubSeq(s, k, Len(s))[m] = s[k + m - 1]
  BY <1>1, <1>2, SubSeqProperties
<1>4. /\ Len(s) - k + 1 = Len(s) + 1 - k
      /\ \A m \in 1..(Len(s) + 1 - k) : k + m - 1 = k - 1 + m
      /\ ~(k <= Len(s)) => Len(s) + 1 - k = 0
  BY <1>1
<1> QED
  BY <1>3, <1>4 DEF From, Texts

LEMMA UpToIs ==
  ASSUME NEW s \in Texts, NEW k \in 0..Len(s)
  PROVE  /\ UpTo(s, k) \in Texts /\ Len(UpTo(s, k)) = k
         /\ \A m \in 1..k : UpTo(s, k)[m] = s[m]
<1>1. Len(s) \in Nat /\ k \in Nat /\ k <= Len(s) /\ k \in Int /\ 1 \in Int
  BY DEF Texts
<1>2. \A i \in 1..k : s[i] \in STRING
  BY <1>1 DEF Texts
<1>3. /\ SubSeq(s, 1, k) \in Seq(STRING)
      /\ Len(SubSeq(s, 1, k)) = IF 1 <= k THEN k - 1 + 1 ELSE 0
      /\ \A m \in 1..(k - 1 + 1) : SubSeq(s, 1, k)[m] = s[1 + m - 1]
  BY <1>1, <1>2, SubSeqProperties
<1>4. k - 1 + 1 = k /\ (~(1 <= k) => k = 0) /\ \A m \in 1..k : 1 + m - 1 = m
  BY <1>1
<1> QED
  BY <1>3, <1>4 DEF UpTo, Texts

\* Put together again they are the text.
LEMMA CutAndJoin ==
  ASSUME NEW s \in Texts, NEW k \in 0..Len(s)
  PROVE  UpTo(s, k) \o From(s, k + 1) = s
<1>1. Len(s) \in Nat /\ k \in Nat /\ k <= Len(s) /\ k + 1 \in 1..(Len(s) + 1)
  BY DEF Texts
<1>2. PICK u, v : u = UpTo(s, k) /\ v = From(s, k + 1)
  OBVIOUS
<1>3. u \in Texts /\ Len(u) = k /\ \A m \in 1..k : u[m] = s[m]
  BY <1>2, UpToIs
<1>4. /\ v \in Texts /\ Len(v) = Len(s) + 1 - (k + 1)
      /\ \A m \in 1..(Len(s) + 1 - (k + 1)) : v[m] = s[k + 1 - 1 + m]
  <2>1. PICK c : c = k + 1
    OBVIOUS
  <2>2. c \in 1..(Len(s) + 1) /\ v = From(s, c)
    BY <1>1, <1>2, <2>1
  <2>3. /\ v \in Texts /\ Len(v) = Len(s) + 1 - c
        /\ \A m \in 1..(Len(s) + 1 - c) : v[m] = s[c - 1 + m]
    BY <2>2, FromIs
  <2> QED
    BY ONLY <2>1, <2>3
<1>5. PICK y : y = u \o v
  OBVIOUS
<1>6. /\ y \in Texts /\ Len(y) = Len(u) + Len(v)
      /\ \A i \in 1..(Len(u) + Len(v)) : y[i] = IF i <= Len(u) THEN u[i] ELSE v[i - Len(u)]
  BY <1>3, <1>4, <1>5, ConcatProperties DEF Texts
<1>7. Len(y) = Len(s)
  BY <1>1, <1>3, <1>4, <1>6
<1>8. \A i \in 1..Len(s) : y[i] = s[i]
  <2> TAKE i \in 1..Len(s)
  <2>1. CASE i <= k
    BY <1>1, <1>3, <1>4, <1>6, <2>1
  <2>2. CASE ~(i <= k)
    <3>1. i - k \in 1..(Len(s) + 1 - (k + 1)) /\ k + 1 - 1 + (i - k) = i
      BY <1>1, <2>2
    <3>2. v[i - k] = s[i]
      BY <1>4, <3>1
    <3> QED
      BY <1>3, <1>6, <1>7, <2>2, <3>2
  <2> QED
    BY <2>1, <2>2
<1> QED
  BY <1>2, <1>5, <1>6, <1>7, <1>8, SeqEqual DEF Texts

\* t stands at position i of s.
Occurs(s, t, i) ==
  i \in 1..(Len(s) + 1 - Len(t)) /\ SubSeq(s, i, i + Len(t) - 1) = t

LEMMA OccursIs ==
  ASSUME NEW s \in Texts, NEW t \in Texts, NEW i \in 1..(Len(s) + 1 - Len(t))
  PROVE  Occurs(s, t, i) <=> \A m \in 1..Len(t) : s[i - 1 + m] = t[m]
<1>1. Len(s) \in Nat /\ Len(t) \in Nat /\ i \in Nat /\ i >= 1 /\ i + Len(t) <= Len(s) + 1
  BY DEF Texts
<1>2. PICK j : j = i + Len(t) - 1
  OBVIOUS
<1>3. j \in Int /\ i \in Int /\ j <= Len(s) /\ j - i + 1 = Len(t)
  BY <1>1, <1>2
<1>4. \A m \in i..j : s[m] \in STRING
  BY <1>1, <1>3 DEF Texts
<1>5. PICK y : y = SubSeq(s, i, j)
  OBVIOUS
<1>6. /\ y \in Seq(STRING) /\ Len(y) = IF i <= j THEN j - i + 1 ELSE 0
      /\ \A m \in 1..(j - i + 1) : y[m] = s[i + m - 1]
  BY <1>3, <1>4, <1>5, SubSeqProperties
<1>7. ~(i <= j) => Len(t) = 0
  BY <1>1, <1>3
<1>8. Len(y) = Len(t) /\ \A m \in 1..Len(t) : y[m] = s[i - 1 + m]
  <2>1. \A m \in 1..Len(t) : i + m - 1 = i - 1 + m
    BY <1>1
  <2> QED
    BY <1>3, <1>6, <1>7, <2>1
<1>9. y = t <=> \A m \in 1..Len(t) : y[m] = t[m]
  BY <1>6, <1>8, SeqEqual DEF Texts
<1>10. (\A m \in 1..Len(t) : y[m] = t[m]) <=> (\A m \in 1..Len(t) : s[i - 1 + m] = t[m])
  BY <1>8
<1> QED
  BY <1>2, <1>5, <1>9, <1>10 DEF Occurs

\* Index is the first place.
LEMMA IndexIs ==
  ASSUME NEW s \in Texts, NEW t \in Texts
  PROVE  /\ Index(s, t) \in Nat
         /\ Index(s, t) = 0 => \A i : ~Occurs(s, t, i)
         /\ Index(s, t) # 0 => /\ Occurs(s, t, Index(s, t))
                               /\ \A i : Occurs(s, t, i) => Index(s, t) <= i
<1> DEFINE I == {i \in 1..(Len(s) + 1 - Len(t)) : SubSeq(s, i, i + Len(t) - 1) = t}
<1>1. Index(s, t) = IF I = {} THEN 0 ELSE Min(I)
  BY DEF Index
<1>2. \A i : i \in I <=> Occurs(s, t, i)
  BY DEF Occurs
<1>3. I \in SUBSET Nat /\ 0 \notin I
  OBVIOUS
<1> HIDE DEF I
<1>4. CASE I = {}
  BY <1>1, <1>2, <1>4
<1>5. CASE I # {}
  <2>1. PICK x \in I : \A y \in I : ~(y < x)
    BY <1>3, <1>5, LeastOf
  <2>2. \A y \in I : x =< y
    BY <1>3, <2>1
  <2>3. Min(I) \in I /\ \A y \in I : Min(I) =< y
    BY <2>2 DEF Min
  <2> QED
    BY <1>1, <1>2, <1>3, <1>5, <2>3
<1> QED
  BY <1>4, <1>5

\* What stands in the rest of a text stands in the text.
LEMMA OccursInRest ==
  ASSUME NEW s \in Texts, NEW t \in Texts, t # <<>>,
         NEW k \in 1..(Len(s) + 1), NEW m, Occurs(From(s, k), t, m)
  PROVE  /\ m \in Nat /\ m >= 1 /\ k - 1 + m + Len(t) <= Len(s) + 1
         /\ Occurs(s, t, k - 1 + m)
<1>1. Len(s) \in Nat /\ Len(t) \in Nat /\ k \in Nat /\ k >= 1
  BY DEF Texts
<1>2. PICK v : v = From(s, k)
  OBVIOUS
<1>3. /\ v \in Texts /\ Len(v) = Len(s) + 1 - k
      /\ \A q \in 1..(Len(s) + 1 - k) : v[q] = s[k - 1 + q]
  BY <1>2, FromIs
<1>4. m \in 1..(Len(v) + 1 - Len(t)) /\ Occurs(v, t, m)
  BY <1>2 DEF Occurs
<1>5. \A q \in 1..Len(t) : v[m - 1 + q] = t[q]
  BY <1>3, <1>4, OccursIs
<1>6. m \in Nat /\ m >= 1 /\ k - 1 + m + Len(t) <= Len(s) + 1
  BY <1>1, <1>3, <1>4
<1>7. PICK i : i = k - 1 + m
  OBVIOUS
<1>8. i \in 1..(Len(s) + 1 - Len(t))
  BY <1>1, <1>6, <1>7
<1>9. \A q \in 1..Len(t) : s[i - 1 + q] = t[q]
  <2> TAKE q \in 1..Len(t)
  <2>1. m - 1 + q \in 1..(Len(s) + 1 - k) /\ k - 1 + (m - 1 + q) = i - 1 + q
    BY <1>1, <1>6, <1>7
  <2> QED
    BY <1>3, <1>5, <2>1
<1> QED
  BY <1>6, <1>7, <1>8, <1>9, OccursIs

-----------------------------------------------------------------------------
(* Exact names.                                                            *)

\* The name at i goes on before or behind.
Touches(s, from, i) == isDomainChar(s, i - 1) \/ isDomainChar(s, i + Len(from))

\* The body of the recursion of replaceDomainBounded, over a function g.
ReplaceOf(g, s, from, to) ==
  LET i == Index(s, from)
      j == i + Len(from) IN
  IF i = 0 THEN s
  ELSE IF isDomainChar(s, i - 1) \/ isDomainChar(s, j)
  THEN UpTo(s, i) \o g[From(s, i + 1)]
  ELSE UpTo(s, i - 1) \o to \o g[From(s, j)]

\* What is left after a place where from stands is shorter.
LEMMA RestIsShorter ==
  ASSUME NEW s \in Texts, NEW from \in Texts, from # <<>>,
         NEW i, Occurs(s, from, i)
  PROVE  /\ i \in Nat /\ i >= 1 /\ i <= Len(s) /\ i + Len(from) \in 1..(Len(s) + 1)
         /\ i + 1 \in 1..(Len(s) + 1) /\ i \in 0..Len(s) /\ i - 1 \in 0..Len(s)
         /\ From(s, i + 1) \in Texts /\ Len(From(s, i + 1)) < Len(s)
         /\ From(s, i + Len(from)) \in Texts /\ Len(From(s, i + Len(from))) < Len(s)
<1>1. Len(s) \in Nat /\ Len(from) \in Nat /\ Len(from) # 0
  BY EmptySeq DEF Texts
<1>2. i \in 1..(Len(s) + 1 - Len(from))
  BY DEF Occurs
<1>3. /\ i \in Nat /\ i >= 1 /\ i <= Len(s) /\ i + Len(from) \in 1..(Len(s) + 1)
      /\ i + 1 \in 1..(Len(s) + 1) /\ i \in 0..Len(s) /\ i - 1 \in 0..Len(s)
  BY <1>1, <1>2
<1>4. ASSUME NEW k \in 1..(Len(s) + 1), k > 1
      PROVE  From(s, k) \in Texts /\ Len(From(s, k)) < Len(s)
  BY <1>1, <1>4, FromIs
<1>5. i + 1 > 1 /\ i + Len(from) > 1
  BY <1>1, <1>3
<1> QED
  BY <1>3, <1>4, <1>5

\* The recursion is well defined.
LEMMA ReplaceDefined ==
  ASSUME NEW from \in Texts, from # <<>>, NEW to \in Texts
  PROVE  \E R : \A s \in Texts : /\ R[s] = ReplaceOf(R, s, from, to)
                                  /\ replaceDomainBounded(s, from, to) = R[s]
<1> DEFINE V == [Texts -> Texts]
<1>1. ASSUME NEW g \in V, NEW s \in Texts
      PROVE  ReplaceOf(g, s, from, to) \in Texts
  <2>1. CASE Index(s, from) = 0
    BY <2>1 DEF ReplaceOf
  <2>2. CASE Index(s, from) # 0
    <3>1. PICK i : i = Index(s, from) /\ Occurs(s, from, i)
      BY <2>2, IndexIs
    <3>2. /\ UpTo(s, i) \in Texts /\ UpTo(s, i - 1) \in Texts
          /\ g[From(s, i + 1)] \in Texts /\ g[From(s, i + Len(from))] \in Texts
      BY <3>1, RestIsShorter, UpToIs
    <3>3. \A u, v \in Texts : u \o v \in Texts
      BY ConcatProperties DEF Texts
    <3>4. /\ UpTo(s, i) \o g[From(s, i + 1)] \in Texts
          /\ UpTo(s, i - 1) \o to \o g[From(s, i + Len(from))] \in Texts
      BY <3>2, <3>3
    <3> QED
      BY <2>2, <3>1, <3>4 DEF ReplaceOf
  <2> QED
    BY <2>1, <2>2
<1>2. ASSUME NEW g, NEW h, NEW s \in Texts,
             \A r \in Texts : Len(r) < Len(s) => g[r] = h[r]
      PROVE  ReplaceOf(g, s, from, to) = ReplaceOf(h, s, from, to)
  <2>1. CASE Index(s, from) = 0
    BY <2>1 DEF ReplaceOf
  <2>2. CASE Index(s, from) # 0
    <3>1. PICK i : i = Index(s, from) /\ Occurs(s, from, i)
      BY <2>2, IndexIs
    <3>2. /\ g[From(s, i + 1)] = h[From(s, i + 1)]
          /\ g[From(s, i + Len(from))] = h[From(s, i + Len(from))]
      BY <1>2, <3>1, RestIsShorter
    <3> QED
      BY <2>2, <3>1, <3>2 DEF ReplaceOf
  <2> QED
    BY <2>1, <2>2
<1>3. PICK F \in [V \X Texts -> Texts] :
        \A g \in V, s \in Texts : F[<<g, s>>] = ReplaceOf(g, s, from, to)
  <2>1. [p \in V \X Texts |-> ReplaceOf(p[1], p[2], from, to)] \in [V \X Texts -> Texts]
    BY <1>1
  <2> QED
    BY <2>1
<1>4. PICK g \in V : \A s \in Texts : g[s] = F[<<g, s>>]
  <2>1. \A e, h \in V, s \in Texts :
          (\A r \in Texts : Len(r) < Len(s) => e[r] = h[r]) => F[<<e, s>>] = F[<<h, s>>]
    <3> SUFFICES ASSUME NEW e \in V, NEW h \in V, NEW s \in Texts,
                        \A r \in Texts : Len(r) < Len(s) => e[r] = h[r]
                 PROVE  F[<<e, s>>] = F[<<h, s>>]
      OBVIOUS
    <3>1. ReplaceOf(e, s, from, to) = ReplaceOf(h, s, from, to)
      BY <1>2
    <3> QED
      BY <1>3, <3>1
  <2> QED
    BY <2>1, RecursionDefined
<1>5. PICK R : R = CHOOSE f : f = [s \in Texts |-> ReplaceOf(f, s, from, to)]
  OBVIOUS
<1>6. g = [s \in Texts |-> ReplaceOf(g, s, from, to)]
  BY <1>3, <1>4
<1>7. R = [s \in Texts |-> ReplaceOf(R, s, from, to)]
  BY <1>5, <1>6
<1>8. \A s \in Texts : replaceDomainBounded(s, from, to) = R[s]
  BY <1>5 DEF replaceDomainBounded, ReplaceOf
<1> QED
  BY <1>7, <1>8

\* A token of the rest is one of the text, and what is touched in the text is
\* touched in the rest, unless the cut is what it touches.
LEMMA TouchesInRest ==
  ASSUME NEW s \in Texts, NEW from \in Texts, NEW k \in 1..(Len(s) + 1),
         NEW m \in Nat, m > 1, Touches(s, from, k - 1 + m)
  PROVE  Touches(From(s, k), from, m)
<1>1. Len(s) \in Nat /\ Len(from) \in Nat /\ k \in Nat /\ k >= 1 /\ k <= Len(s) + 1
  BY DEF Texts
<1>2. PICK v : v = From(s, k)
  OBVIOUS
<1>3. /\ v \in Texts /\ Len(v) = Len(s) + 1 - k
      /\ \A q \in 1..(Len(s) + 1 - k) : v[q] = s[k - 1 + q]
  BY <1>2, FromIs
<1>4. DOMAIN s = 1..Len(s) /\ DOMAIN v = 1..(Len(s) + 1 - k)
  BY <1>3 DEF Texts
<1>5. ASSUME NEW q \in Nat, q >= 1, isDomainChar(s, k - 1 + q)
      PROVE  isDomainChar(v, q)
  <2>1. k - 1 + q \in 1..Len(s) /\ s[k - 1 + q] \in Pieces
    BY <1>4, <1>5 DEF isDomainChar
  <2>2. q \in 1..(Len(s) + 1 - k)
    BY <1>1, <1>5, <2>1
  <2> QED
    BY <1>3, <1>4, <2>1, <2>2 DEF isDomainChar
<1>6. /\ (k - 1 + m) - 1 = k - 1 + (m - 1) /\ m - 1 \in Nat /\ m - 1 >= 1
      /\ (k - 1 + m) + Len(from) = k - 1 + (m + Len(from))
      /\ m + Len(from) \in Nat /\ m + Len(from) >= 1
  BY <1>1
<1>7. isDomainChar(v, m - 1) \/ isDomainChar(v, m + Len(from))
  <2>1. CASE isDomainChar(s, (k - 1 + m) - 1)
    <3>1. isDomainChar(s, k - 1 + (m - 1))
      BY <1>6, <2>1
    <3> QED
      BY <1>5, <1>6, <3>1
  <2>2. CASE isDomainChar(s, (k - 1 + m) + Len(from))
    <3>1. isDomainChar(s, k - 1 + (m + Len(from)))
      BY <1>6, <2>2
    <3> QED
      BY <1>5, <1>6, <3>1
  <2> QED
    BY <2>1, <2>2 DEF Touches
<1> QED
  BY <1>2, <1>7 DEF Touches

\* A name with two different tokens next to each other; every domain name has a dot.
Mixed(from) == \E q \in 1..(Len(from) - 1) : from[q] # from[q + 1]

\* Such a name does not stand at two places next to each other.
LEMMA NoNeighbours ==
  ASSUME NEW s \in Texts, NEW from \in Texts, Mixed(from),
         NEW i, Occurs(s, from, i)
  PROVE  ~Occurs(s, from, i + 1)
<1> SUFFICES ASSUME Occurs(s, from, i + 1) PROVE FALSE
  OBVIOUS
<1>1. Len(s) \in Nat /\ Len(from) \in Nat
  BY DEF Texts
<1>2. i \in 1..(Len(s) + 1 - Len(from)) /\ i + 1 \in 1..(Len(s) + 1 - Len(from))
  BY DEF Occurs
<1>3. /\ \A m \in 1..Len(from) : s[i - 1 + m] = from[m]
      /\ \A m \in 1..Len(from) : s[i + 1 - 1 + m] = from[m]
  BY <1>2, OccursIs
<1>4. PICK q \in 1..(Len(from) - 1) : from[q] # from[q + 1]
  BY DEF Mixed
<1>5. q \in 1..Len(from) /\ q + 1 \in 1..Len(from) /\ i - 1 + (q + 1) = i + 1 - 1 + q
  BY <1>1, <1>2, <1>4
<1> QED
  BY <1>3, <1>4, <1>5

\* No other name is replaced: a text in which from stands nowhere but inside of
\* longer names, such as accounts.pixiv.net or pixiv.net.cn for pixiv.net, stays as
\* it is (replaceDomainBounded, echproxy/proxy.go:412-414).
THEOREM LongerNamesStay ==
  ASSUME NEW from \in Texts, Mixed(from), NEW to \in Texts, NEW body \in Texts,
         \A i : Occurs(body, from, i) => Touches(body, from, i)
  PROVE  replaceDomainBounded(body, from, to) = body
<1>1. from # <<>> /\ Len(from) \in Nat
  <2>1. Len(from) \in Nat /\ (from = <<>> => Len(from) = 0)
    BY DEF Texts
  <2> QED
    BY <2>1 DEF Mixed
<1>2. PICK R : \A s \in Texts : /\ R[s] = ReplaceOf(R, s, from, to)
                                /\ replaceDomainBounded(s, from, to) = R[s]
  BY <1>1, ReplaceDefined
<1> DEFINE Inside(s) == \A i : Occurs(s, from, i) => Touches(s, from, i)
           T == {n \in Nat : \A s \in Texts : Len(s) < n /\ Inside(s) => R[s] = s}
<1>3. \A s \in Texts : Len(s) \in Nat
  BY DEF Texts
<1>4. ASSUME NEW s \in Texts, NEW i, Inside(s), Occurs(s, from, i)
      PROVE  Inside(From(s, i + 1))
  <2>1. PICK k : k = i + 1
    OBVIOUS
  <2>2. k \in 1..(Len(s) + 1) /\ i \in Nat /\ k - 1 + 1 = i + 1
    BY SMTT(40), <1>1, <1>4, <2>1, RestIsShorter
  <2> SUFFICES ASSUME NEW m, Occurs(From(s, k), from, m)
               PROVE  Touches(From(s, k), from, m)
    BY <2>1
  <2>3. m \in Nat /\ m >= 1 /\ Occurs(s, from, k - 1 + m)
    BY <1>1, <2>2, OccursInRest
  <2>4. m # 1
    BY <1>4, <2>2, <2>3, NoNeighbours
  <2>5. Touches(s, from, k - 1 + m)
    BY <1>4, <2>3
  <2>6. m > 1
    BY <2>3, <2>4
  <2> QED
    BY <2>2, <2>3, <2>5, <2>6, TouchesInRest
<1>5. ASSUME NEW s \in Texts, Inside(s),
             \A r \in Texts : Len(r) < Len(s) /\ Inside(r) => R[r] = r
      PROVE  R[s] = s
  <2>1. CASE Index(s, from) = 0
    BY <1>2, <2>1 DEF ReplaceOf
  <2>2. CASE Index(s, from) # 0
    <3>1. PICK i : i = Index(s, from) /\ Occurs(s, from, i)
      BY <2>2, IndexIs
    <3>2. isDomainChar(s, i - 1) \/ isDomainChar(s, i + Len(from))
      BY <1>5, <3>1 DEF Touches
    <3>3. R[s] = UpTo(s, i) \o R[From(s, i + 1)]
      BY <1>2, <2>2, <3>1, <3>2 DEF ReplaceOf
    <3>4. R[From(s, i + 1)] = From(s, i + 1)
      BY <1>1, <1>4, <1>5, <3>1, RestIsShorter
    <3>5. UpTo(s, i) \o From(s, i + 1) = s
      BY <1>1, <3>1, RestIsShorter, CutAndJoin
    <3> QED
      BY <3>3, <3>4, <3>5
  <2> QED
    BY <2>1, <2>2
<1>6. 0 \in T
  <2>1. \A s \in Texts : ~(Len(s) < 0)
    BY <1>3
  <2> QED
    BY <2>1
<1>7. ASSUME NEW n \in T
      PROVE  n + 1 \in T
  <2>1. n \in Nat /\ \A s \in Texts : Len(s) < n /\ Inside(s) => R[s] = s
    OBVIOUS
  <2> HIDE DEF Inside
  <2>2. ASSUME NEW s \in Texts, Len(s) < n + 1, Inside(s)
        PROVE  R[s] = s
    <3>1. \A r \in Texts : Len(r) < Len(s) => Len(r) < n
      BY ONLY <1>3, <2>1, <2>2
    <3> QED
      BY <1>5, <2>1, <2>2, <3>1
  <2> QED
    BY <2>1, <2>2
<1>8. Len(body) + 1 \in T
  <2> HIDE DEF T
  <2> QED
    BY <1>3, <1>6, <1>7, SetInduction
<1>9. Len(body) < Len(body) + 1
  BY <1>3
<1> QED
  BY <1>2, <1>8, <1>9

\* The positions of a text in three parts.
InParts(s, b, x, e) ==
  /\ s \in Texts /\ Len(s) = Len(b) + Len(x) + Len(e)
  /\ \A i \in 1..Len(b) : s[i] = b[i]
  /\ \A i \in 1..Len(x) : s[Len(b) + i] = x[i]
  /\ \A i \in 1..Len(e) : s[Len(b) + Len(x) + i] = e[i]

LEMMA JoinedIs ==
  ASSUME NEW b \in Texts, NEW x \in Texts, NEW e \in Texts,
         NEW s, s = Joined(b, x, e)
  PROVE  InParts(s, b, x, e)
<1>1. Len(b) \in Nat /\ Len(x) \in Nat /\ Len(e) \in Nat
  BY DEF Texts
<1>2. PICK y : y = b \o x
  OBVIOUS
<1>3. /\ y \in Texts /\ Len(y) = Len(b) + Len(x)
      /\ \A i \in 1..(Len(b) + Len(x)) : y[i] = IF i <= Len(b) THEN b[i] ELSE x[i - Len(b)]
  BY <1>2, ConcatProperties DEF Texts
<1>4. s = y \o e
  BY <1>2 DEF Joined
<1>5. /\ s \in Texts /\ Len(s) = Len(y) + Len(e)
      /\ \A i \in 1..(Len(y) + Len(e)) : s[i] = IF i <= Len(y) THEN y[i] ELSE e[i - Len(y)]
  <2>1. y \in Seq(STRING) /\ e \in Seq(STRING)
    BY <1>3 DEF Texts
  <2>2. /\ y \o e \in Seq(STRING) /\ Len(y \o e) = Len(y) + Len(e)
        /\ \A i \in 1..(Len(y) + Len(e)) : (y \o e)[i] = IF i <= Len(y) THEN y[i] ELSE e[i - Len(y)]
    BY <2>1, ConcatProperties
  <2> QED
    BY <1>4, <2>2 DEF Texts
<1>6. ASSUME NEW i \in 1..Len(b)
      PROVE  s[i] = b[i]
  <2>1. i \in 1..(Len(b) + Len(x)) /\ i <= Len(b) /\ i \in 1..(Len(y) + Len(e)) /\ i <= Len(y)
    BY <1>1, <1>3
  <2> QED
    BY <1>3, <1>5, <2>1
<1>7. ASSUME NEW i \in 1..Len(x)
      PROVE  s[Len(b) + i] = x[i]
  <2>1. PICK k : k = Len(b) + i
    OBVIOUS
  <2>2. /\ k \in 1..(Len(b) + Len(x)) /\ ~(k <= Len(b)) /\ k - Len(b) = i
        /\ k \in 1..(Len(y) + Len(e)) /\ k <= Len(y)
    BY <1>1, <1>3, <2>1
  <2>3. s[k] = y[k] /\ y[k] = x[k - Len(b)]
    BY <1>3, <1>5, <2>2
  <2> QED
    BY <2>1, <2>2, <2>3
<1>8. ASSUME NEW i \in 1..Len(e)
      PROVE  s[Len(b) + Len(x) + i] = e[i]
  <2>1. PICK k : k = Len(b) + Len(x) + i
    OBVIOUS
  <2>2. k \in 1..(Len(y) + Len(e)) /\ ~(k <= Len(y)) /\ k - Len(y) = i
    BY <1>1, <1>3, <2>1
  <2>3. s[k] = e[k - Len(y)]
    BY <1>5, <2>2
  <2> QED
    BY <2>1, <2>2, <2>3
<1>9. Len(s) = Len(b) + Len(x) + Len(e)
  BY <1>3, <1>5
<1> QED
  BY <1>5, <1>6, <1>7, <1>8, <1>9 DEF InParts

\* Cutting in the first part, and after the second one.
LEMMA CutJoined ==
  ASSUME NEW b \in Texts, NEW x \in Texts, NEW e \in Texts,
         NEW s, s = Joined(b, x, e), NEW k \in 0..Len(b)
  PROVE  /\ UpTo(s, k) = UpTo(b, k)
         /\ From(s, k + 1) = Joined(From(b, k + 1), x, e)
         /\ From(s, Len(b) + 1 + Len(x)) = e
<1>1. Len(b) \in Nat /\ Len(x) \in Nat /\ Len(e) \in Nat /\ k \in Nat /\ k <= Len(b)
  BY DEF Texts
<1>2. /\ s \in Texts /\ Len(s) = Len(b) + Len(x) + Len(e)
      /\ \A i \in 1..Len(b) : s[i] = b[i]
      /\ \A i \in 1..Len(x) : s[Len(b) + i] = x[i]
      /\ \A i \in 1..Len(e) : s[Len(b) + Len(x) + i] = e[i]
  <2>1. b \in Texts /\ x \in Texts /\ e \in Texts /\ s = Joined(b, x, e)
    OBVIOUS
  <2>2. InParts(s, b, x, e)
    BY ONLY <2>1, JoinedIs
  <2> QED
    BY <2>2 DEF InParts
<1>3. UpTo(s, k) = UpTo(b, k)
  <2>1. k \in 0..Len(s)
    BY <1>1, <1>2
  <2>2. /\ UpTo(s, k) \in Texts /\ Len(UpTo(s, k)) = k
        /\ \A m \in 1..k : UpTo(s, k)[m] = s[m]
        /\ UpTo(b, k) \in Texts /\ Len(UpTo(b, k)) = k
        /\ \A m \in 1..k : UpTo(b, k)[m] = b[m]
    BY <1>2, <2>1, UpToIs
  <2>3. \A m \in 1..k : UpTo(s, k)[m] = UpTo(b, k)[m]
    BY <1>1, <1>2, <2>2
  <2> QED
    BY <2>2, <2>3, SeqEqual DEF Texts
<1>4. From(s, Len(b) + 1 + Len(x)) = e
  <2>1. PICK c : c = Len(b) + 1 + Len(x)
    OBVIOUS
  <2>2. c \in 1..(Len(s) + 1) /\ Len(s) + 1 - c = Len(e) /\ c - 1 = Len(b) + Len(x)
    BY <1>1, <1>2, <2>1
  <2>3. /\ From(s, c) \in Texts /\ Len(From(s, c)) = Len(e)
        /\ \A m \in 1..Len(e) : From(s, c)[m] = s[c - 1 + m]
    <3>1. /\ From(s, c) \in Texts /\ Len(From(s, c)) = Len(s) + 1 - c
          /\ \A m \in 1..(Len(s) + 1 - c) : From(s, c)[m] = s[c - 1 + m]
      BY <1>2, <2>2, FromIs
    <3> QED
      BY ONLY <2>2, <3>1
  <2>4. \A m \in 1..Len(e) : From(s, c)[m] = e[m]
    BY <1>2, <2>2, <2>3
  <2> QED
    BY <2>1, <2>3, <2>4, SeqEqual DEF Texts
<1>5. From(s, k + 1) = Joined(From(b, k + 1), x, e)
  <2>1. PICK c, f : c = k + 1 /\ f = From(b, c)
    OBVIOUS
  <2>2. c \in 1..(Len(b) + 1) /\ c \in 1..(Len(s) + 1) /\ c - 1 = k
    BY <1>1, <1>2, <2>1
  <2>3. /\ f \in Texts /\ Len(f) = Len(b) + 1 - c
        /\ \A m \in 1..(Len(b) + 1 - c) : f[m] = b[c - 1 + m]
    BY <2>1, <2>2, FromIs
  <2>4. PICK v : v = From(s, c)
    OBVIOUS
  <2>5. /\ v \in Texts /\ Len(v) = Len(s) + 1 - c
        /\ \A m \in 1..(Len(s) + 1 - c) : v[m] = s[c - 1 + m]
    BY <1>2, <2>2, <2>4, FromIs
  <2>6. PICK w : w = Joined(f, x, e)
    OBVIOUS
  <2>7. /\ w \in Texts /\ Len(w) = Len(f) + Len(x) + Len(e)
        /\ \A i \in 1..Len(f) : w[i] = f[i]
        /\ \A i \in 1..Len(x) : w[Len(f) + i] = x[i]
        /\ \A i \in 1..Len(e) : w[Len(f) + Len(x) + i] = e[i]
    <3>1. f \in Texts /\ x \in Texts /\ e \in Texts /\ w = Joined(f, x, e)
      BY <2>3, <2>6
    <3>2. InParts(w, f, x, e)
      BY ONLY <3>1, JoinedIs
    <3> QED
      BY <3>2 DEF InParts
  <2>8. Len(f) = Len(b) - k /\ Len(v) = Len(w) /\ Len(v) = Len(b) - k + Len(x) + Len(e)
    BY <1>1, <1>2, <2>2, <2>3, <2>5, <2>7
  <2>9. ASSUME NEW m \in 1..Len(v)
        PROVE  v[m] = w[m]
    <3>1. v[m] = s[k + m]
      BY <2>2, <2>5
    <3>2. CASE m <= Len(f)
      <4>1. m \in 1..Len(f) /\ m \in 1..(Len(b) + 1 - c) /\ k + m \in 1..Len(b) /\ c - 1 + m = k + m
        BY <1>1, <2>2, <2>8, <3>2, <2>3
      <4> QED
        BY ZenonT(60), <1>2, <2>3, <2>7, <3>1, <4>1
    <3>3. CASE ~(m <= Len(f)) /\ m <= Len(f) + Len(x)
      <4>1. PICK i : i = m - Len(f)
        OBVIOUS
      <4>2. i \in 1..Len(x) /\ Len(b) + i = k + m /\ Len(f) + i = m
        BY <1>1, <2>8, <3>3, <4>1
      <4> QED
        BY <1>2, <2>7, <3>1, <4>2
    <3>4. CASE ~(m <= Len(f) + Len(x))
      <4>1. PICK i : i = m - Len(f) - Len(x)
        OBVIOUS
      <4>2. i \in 1..Len(e) /\ Len(b) + Len(x) + i = k + m /\ Len(f) + Len(x) + i = m
        BY <1>1, <2>8, <3>4, <4>1
      <4> QED
        BY <1>2, <2>7, <3>1, <4>2
    <3> QED
      BY <3>2, <3>3, <3>4
  <2> QED
    BY ZenonT(60), <2>1, <2>4, <2>5, <2>6, <2>7, <2>8, <2>9, SeqEqual DEF Texts
<1> QED
  BY <1>3, <1>4, <1>5

\* What is touched in the rest is touched in the text.
LEMMA TouchesInText ==
  ASSUME NEW s \in Texts, NEW from \in Texts, NEW k \in 1..(Len(s) + 1),
         NEW m \in Nat, m >= 1, Touches(From(s, k), from, m)
  PROVE  Touches(s, from, k - 1 + m)
<1>1. Len(s) \in Nat /\ Len(from) \in Nat /\ k \in Nat /\ k >= 1 /\ k <= Len(s) + 1
  BY DEF Texts
<1>2. PICK v : v = From(s, k)
  OBVIOUS
<1>3. /\ v \in Texts /\ Len(v) = Len(s) + 1 - k
      /\ \A q \in 1..(Len(s) + 1 - k) : v[q] = s[k - 1 + q]
  BY <1>2, FromIs
<1>4. DOMAIN s = 1..Len(s) /\ DOMAIN v = 1..(Len(s) + 1 - k)
  BY <1>3 DEF Texts
<1>5. ASSUME NEW q, isDomainChar(v, q)
      PROVE  isDomainChar(s, k - 1 + q)
  <2>1. q \in 1..(Len(s) + 1 - k) /\ v[q] \in Pieces
    BY <1>4, <1>5 DEF isDomainChar
  <2>2. k - 1 + q \in 1..Len(s)
    BY <1>1, <2>1
  <2> QED
    BY <1>3, <1>4, <2>1, <2>2 DEF isDomainChar
<1>6. k - 1 + (m - 1) = (k - 1 + m) - 1 /\ k - 1 + (m + Len(from)) = (k - 1 + m) + Len(from)
  BY <1>1
<1>7. Touches(v, from, m)
  BY <1>2
<1>8. CASE isDomainChar(v, m - 1)
  <2>1. isDomainChar(s, k - 1 + (m - 1))
    BY <1>5, <1>8
  <2> QED
    BY <1>6, <2>1 DEF Touches
<1>9. CASE isDomainChar(v, m + Len(from))
  <2>1. isDomainChar(s, k - 1 + (m + Len(from)))
    BY <1>5, <1>9
  <2> QED
    BY <1>6, <2>1 DEF Touches
<1> QED
  BY <1>7, <1>8, <1>9 DEF Touches

\* from stands after b in a text, and a whole name there only.
Alone(b, from, after) ==
  /\ ~Touches(Joined(b, from, after), from, Len(b) + 1)
  /\ \A i : Occurs(Joined(b, from, after), from, i) /\ i # Len(b) + 1
              => Touches(Joined(b, from, after), from, i)

\* It does stand there.
LEMMA OccursBetween ==
  ASSUME NEW b \in Texts, NEW from \in Texts, NEW after \in Texts,
         NEW s, s = Joined(b, from, after)
  PROVE  Occurs(s, from, Len(b) + 1)
<1>1. Len(b) \in Nat /\ Len(from) \in Nat /\ Len(after) \in Nat
  BY DEF Texts
<1>2. InParts(s, b, from, after)
  BY JoinedIs
<1>3. /\ s \in Texts /\ Len(s) = Len(b) + Len(from) + Len(after)
      /\ \A i \in 1..Len(from) : s[Len(b) + i] = from[i]
  BY <1>2 DEF InParts
<1>4. PICK k : k = Len(b) + 1
  OBVIOUS
<1>5. k \in 1..(Len(s) + 1 - Len(from)) /\ k - 1 = Len(b)
  BY <1>1, <1>3, <1>4
<1>6. \A m \in 1..Len(from) : s[k - 1 + m] = from[m]
  BY <1>3, <1>5
<1>7. Occurs(s, from, k)
  BY <1>3, <1>5, <1>6, OccursIs
<1> QED
  BY <1>4, <1>7

\* Behind the whole name there is none.
LEMMA NoneBehind ==
  ASSUME NEW b \in Texts, NEW from \in Texts, Mixed(from), Range(from) \subseteq Pieces,
         NEW after \in Texts, Alone(b, from, after),
         NEW m, Occurs(after, from, m)
  PROVE  Touches(after, from, m)
<1>1. Len(b) \in Nat /\ Len(from) \in Nat /\ Len(after) \in Nat /\ Len(from) >= 1 /\ from # <<>>
  <2>1. Len(b) \in Nat /\ Len(from) \in Nat /\ Len(after) \in Nat /\ (from = <<>> => Len(from) = 0)
    BY DEF Texts
  <2> QED
    BY <2>1 DEF Mixed
<1>2. PICK s : s = Joined(b, from, after)
  OBVIOUS
<1>3. InParts(s, b, from, after)
  BY <1>2, JoinedIs
<1>4. s \in Texts /\ Len(s) = Len(b) + Len(from) + Len(after)
  BY <1>3 DEF InParts
<1>5. PICK k : k = Len(b) + 1 + Len(from)
  OBVIOUS
<1>6. k \in 1..(Len(s) + 1) /\ k \in Nat /\ k > Len(b) + 1
  BY <1>1, <1>4, <1>5
<1>7. From(s, k) = after
  <2>1. 0 \in 0..Len(b)
    BY <1>1
  <2> QED
    BY <1>2, <1>5, <2>1, CutJoined
<1>8. m \in Nat /\ m >= 1 /\ Occurs(s, from, k - 1 + m)
  BY <1>1, <1>4, <1>6, <1>7, OccursInRest
<1>9. Touches(s, from, k - 1 + m)
  <2>1. k - 1 + m # Len(b) + 1
    BY <1>1, <1>6, <1>8
  <2> QED
    BY <1>2, <1>8, <2>1 DEF Alone
<1>10. m # 1
  <2> SUFFICES ASSUME m = 1 PROVE FALSE
    OBVIOUS
  <2>1. Occurs(s, from, k) /\ k \in 1..(Len(s) + 1 - Len(from))
    <3>1. k - 1 + m = k
      BY <1>6
    <3> QED
      BY <1>8, <3>1 DEF Occurs
  <2>2. s[k - 1 + 1] = from[1] /\ k - 1 + 1 = k /\ 1 \in 1..Len(from)
    <3>1. \A q \in 1..Len(from) : s[k - 1 + q] = from[q]
      BY <1>4, <2>1, OccursIs
    <3>2. 1 \in 1..Len(from) /\ k - 1 + 1 = k
      BY <1>1, <1>6
    <3> QED
      BY <3>1, <3>2
  <2>3. from[1] \in Pieces
    BY <2>2 DEF Range, Texts
  <2>4. k \in DOMAIN s
    BY <1>1, <1>4, <2>1 DEF Texts
  <2>5. isDomainChar(s, k)
    BY <2>2, <2>3, <2>4 DEF isDomainChar
  <2>6. (Len(b) + 1) + Len(from) = k
    BY <1>5
  <2> QED
    BY <1>2, <2>5, <2>6 DEF Alone, Touches
<1>11. m > 1
  BY <1>8, <1>10
<1> QED
  BY <1>4, <1>6, <1>7, <1>8, <1>9, <1>11, TouchesInRest

\* A place before the whole name can be cut off.
LEMMA AloneInRest ==
  ASSUME NEW b \in Texts, NEW from \in Texts, Mixed(from), NEW after \in Texts,
         Alone(b, from, after),
         NEW i \in 1..Len(b), Occurs(Joined(b, from, after), from, i)
  PROVE  Alone(From(b, i + 1), from, after)
<1>1. Len(b) \in Nat /\ Len(from) \in Nat /\ Len(after) \in Nat /\ i \in Nat /\ i >= 1 /\ i <= Len(b)
  BY DEF Texts
<1>2. from # <<>>
  <2>1. from = <<>> => Len(from) = 0
    OBVIOUS
  <2> QED
    BY <2>1 DEF Mixed
<1>3. PICK s : s = Joined(b, from, after)
  OBVIOUS
<1>4. InParts(s, b, from, after)
  BY <1>3, JoinedIs
<1>5. s \in Texts /\ Len(s) = Len(b) + Len(from) + Len(after)
  BY <1>4 DEF InParts
<1>6. PICK k, c : k = i + 1 /\ c = From(b, k)
  OBVIOUS
<1>7. k \in 1..(Len(b) + 1) /\ k \in 1..(Len(s) + 1) /\ k - 1 = i
  BY <1>1, <1>5, <1>6
<1>8. c \in Texts /\ Len(c) = Len(b) + 1 - k
  BY <1>6, <1>7, FromIs
<1>9. From(s, k) = Joined(c, from, after)
  <2>1. i \in 0..Len(b)
    BY <1>1
  <2> QED
    BY <1>3, <1>6, <2>1, CutJoined
<1>10. ~Touches(From(s, k), from, Len(c) + 1)
  <2>1. PICK m : m = Len(c) + 1
    OBVIOUS
  <2>2. m \in Nat /\ m >= 1 /\ k - 1 + m = Len(b) + 1
    BY <1>1, <1>7, <1>8, <2>1
  <2>3. ~Touches(s, from, k - 1 + m)
    BY <1>3, <2>2 DEF Alone
  <2> QED
    BY <1>5, <1>7, <2>1, <2>2, <2>3, TouchesInText
<1>11. ASSUME NEW m, Occurs(From(s, k), from, m), m # Len(c) + 1
       PROVE  Touches(From(s, k), from, m)
  <2>1. m \in Nat /\ m >= 1 /\ Occurs(s, from, k - 1 + m)
    BY <1>2, <1>5, <1>7, <1>11, OccursInRest
  <2>2. k - 1 + m # Len(b) + 1
    BY <1>1, <1>7, <1>8, <1>11, <2>1
  <2>3. Touches(s, from, k - 1 + m)
    BY <1>3, <2>1, <2>2 DEF Alone
  <2>4. m # 1
    <3>1. k - 1 + 1 = i + 1
      BY <1>6, <1>7
    <3> QED
      BY <1>3, <1>5, <2>1, <3>1, NoNeighbours
  <2>5. m > 1
    BY <2>1, <2>4
  <2> QED
    BY <1>5, <1>7, <2>1, <2>3, <2>5, TouchesInRest
<1>12. Alone(c, from, after)
  BY <1>9, <1>10, <1>11 DEF Alone
<1> QED
  BY <1>6, <1>12

\* Three texts can be joined from either end.
LEMMA JoinInAnyOrder ==
  ASSUME NEW x \in Texts, NEW y \in Texts, NEW z \in Texts
  PROVE  x \o (y \o z) = (x \o y) \o z
  BY SMTT(40), ConcatAssociative DEF Texts

\* A whole name is replaced, and nothing else, whatever stands around it
\* (replaceDomainBounded, echproxy/proxy.go:412-449).
THEOREM WholeNameReplaced ==
  ASSUME NEW from \in Texts, Mixed(from), Range(from) \subseteq Pieces, NEW to \in Texts,
         NEW before \in Texts, NEW after \in Texts,
         ~Touches((before \o from) \o after, from, Len(before) + 1),
         \A i : Occurs((before \o from) \o after, from, i) /\ i # Len(before) + 1
                  => Touches((before \o from) \o after, from, i)
  PROVE  replaceDomainBounded((before \o from) \o after, from, to) = (before \o to) \o after
<1>1. from # <<>> /\ Len(from) \in Nat
  <2>1. Len(from) \in Nat /\ (from = <<>> => Len(from) = 0)
    BY DEF Texts
  <2> QED
    BY <2>1 DEF Mixed
<1>2. PICK R : \A s \in Texts : /\ R[s] = ReplaceOf(R, s, from, to)
                                /\ replaceDomainBounded(s, from, to) = R[s]
  BY <1>1, ReplaceDefined
<1>3. Alone(before, from, after)
  BY DEF Alone, Joined
<1>4. R[after] = after
  <2>1. \A m : Occurs(after, from, m) => Touches(after, from, m)
    BY <1>3, NoneBehind
  <2> QED
    BY <1>2, <2>1, LongerNamesStay
<1>5. \A s \in Texts : Len(s) \in Nat
  BY DEF Texts
<1>6. ASSUME NEW b \in Texts, Alone(b, from, after),
             \A c \in Texts : Len(c) < Len(b) /\ Alone(c, from, after)
                                => R[Joined(c, from, after)] = Joined(c, to, after)
      PROVE  R[Joined(b, from, after)] = Joined(b, to, after)
  <2>1. PICK s : s = Joined(b, from, after)
    OBVIOUS
  <2>2. InParts(s, b, from, after)
    BY <2>1, JoinedIs
  <2>3. s \in Texts /\ Len(b) \in Nat
    BY <2>2 DEF InParts, Texts
  <2>4. Occurs(s, from, Len(b) + 1)
    BY <2>1, OccursBetween
  <2>5. PICK i : i = Index(s, from)
    OBVIOUS
  <2>6. i \in Nat /\ i # 0 /\ Occurs(s, from, i) /\ i <= Len(b) + 1
    BY <2>3, <2>4, <2>5, IndexIs
  <2>7. CASE i = Len(b) + 1
    <3>1. ~(isDomainChar(s, i - 1) \/ isDomainChar(s, i + Len(from)))
      BY <1>6, <2>1, <2>7 DEF Alone, Touches
    <3>2. R[s] = UpTo(s, i - 1) \o to \o R[From(s, i + Len(from))]
      BY <1>2, <2>3, <2>5, <2>6, <3>1 DEF ReplaceOf
    <3>3. Len(b) \in 0..Len(b) /\ i - 1 = Len(b)
      BY <2>3, <2>7
    <3>4. UpTo(s, Len(b)) = UpTo(b, Len(b)) /\ From(s, Len(b) + 1 + Len(from)) = after
      BY <2>1, <3>3, CutJoined
    <3>5. UpTo(b, Len(b)) = b
      BY SubSeqFull DEF UpTo, Texts
    <3> QED
      BY <1>4, <2>1, <2>7, <3>2, <3>3, <3>4, <3>5 DEF Joined
  <2>8. CASE i # Len(b) + 1
    <3>1. i \in 1..Len(b) /\ i \in 0..Len(b)
      BY <2>3, <2>6, <2>8
    <3>2. isDomainChar(s, i - 1) \/ isDomainChar(s, i + Len(from))
      BY <1>6, <2>1, <2>6, <2>8 DEF Alone, Touches
    <3>3. R[s] = UpTo(s, i) \o R[From(s, i + 1)]
      BY <1>2, <2>3, <2>5, <2>6, <3>2 DEF ReplaceOf
    <3>4. PICK c : c = From(b, i + 1)
      OBVIOUS
    <3>5. c \in Texts /\ Len(c) < Len(b) /\ Alone(c, from, after)
      <4>1. i + 1 \in 1..(Len(b) + 1) /\ Len(b) + 1 - (i + 1) < Len(b)
        BY <2>3, <3>1
      <4>2. c \in Texts /\ Len(c) = Len(b) + 1 - (i + 1)
        BY <3>4, <4>1, FromIs
      <4>3. Alone(c, from, after)
        BY <1>6, <2>1, <2>6, <3>1, <3>4, AloneInRest
      <4> QED
        BY <4>1, <4>2, <4>3
    <3>6. UpTo(s, i) = UpTo(b, i) /\ From(s, i + 1) = Joined(c, from, after)
      BY <2>1, <3>1, <3>4, CutJoined
    <3>7. R[s] = UpTo(b, i) \o Joined(c, to, after)
      BY <1>6, <3>3, <3>5, <3>6
    <3>8. PICK u : u = UpTo(b, i)
      OBVIOUS
    <3>9. u \in Texts /\ u \o c = b
      BY <3>1, <3>4, <3>8, UpToIs, CutAndJoin
    <3>10. u \o ((c \o to) \o after) = ((u \o c) \o to) \o after
      <4>1. c \o to \in Texts
        BY <3>5, ConcatProperties DEF Texts
      <4>2. u \o ((c \o to) \o after) = (u \o (c \o to)) \o after
        <5>1. PICK d : d = c \o to /\ d \in Texts
          BY <4>1
        <5>2. u \in Texts /\ d \in Texts /\ after \in Texts
          BY <3>9, <5>1
        <5>3. u \o (d \o after) = (u \o d) \o after
          BY ONLY SMTT(40), <5>2, JoinInAnyOrder
        <5> QED
          BY <5>1, <5>3
      <4>3. u \o (c \o to) = (u \o c) \o to
        BY ZenonT(60), <3>5, <3>9, JoinInAnyOrder
      <4> QED
        BY <4>2, <4>3
    <3> QED
      BY <2>1, <3>7, <3>8, <3>9, <3>10 DEF Joined
  <2> QED
    BY <2>7, <2>8
<1> DEFINE T == {n \in Nat : \A b \in Texts : Len(b) < n /\ Alone(b, from, after)
                               => R[Joined(b, from, after)] = Joined(b, to, after)}
<1>7. 0 \in T
  <2>1. \A b \in Texts : ~(Len(b) < 0)
    BY <1>5
  <2> QED
    BY <2>1
<1>8. ASSUME NEW n \in T
      PROVE  n + 1 \in T
  <2>1. n \in Nat /\ \A b \in Texts : Len(b) < n /\ Alone(b, from, after)
                       => R[Joined(b, from, after)] = Joined(b, to, after)
    OBVIOUS
  <2>2. ASSUME NEW b \in Texts, Len(b) < n + 1, Alone(b, from, after)
        PROVE  R[Joined(b, from, after)] = Joined(b, to, after)
    <3>1. \A c \in Texts : Len(c) < Len(b) => Len(c) < n
      BY ONLY <1>5, <2>1, <2>2
    <3> QED
      BY <1>6, <2>1, <2>2, <3>1
  <2> QED
    BY <2>1, <2>2
<1>9. Len(before) + 1 \in T
  <2> HIDE DEF T
  <2> QED
    BY <1>5, <1>7, <1>8, SetInduction
<1>10. Len(before) < Len(before) + 1
  BY <1>5
<1>11. R[Joined(before, from, after)] = Joined(before, to, after)
  BY <1>3, <1>9, <1>10
<1>12. Joined(before, from, after) \in Texts
  <2>1. PICK s : s = Joined(before, from, after)
    OBVIOUS
  <2>2. InParts(s, before, from, after)
    BY <2>1, JoinedIs
  <2> QED
    BY <2>1, <2>2 DEF InParts
<1> QED
  BY <1>2, <1>11, <1>12 DEF Joined
=============================================================================
