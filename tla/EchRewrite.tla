----------------------------- MODULE EchRewrite -----------------------------
(***************************************************************************)
(* The names in the pages the ECH reverse proxy passes on                  *)
(* (pkg/echproxy/proxy.go).  The request's host is looked up among the     *)
(* entries, by itself or by a wildcard; the names of the upstream site in  *)
(* the answer are rewritten to entries, one rule after the other, and      *)
(* quoted URLs of blocked hosts are cut out before.                        *)
(*                                                                         *)
(* A text is a sequence of tokens.  A token is a separator, a percent code *)
(* or a piece of a name; pieces may touch, so that <<"not", "iwara">> is   *)
(* the label notiwara.  The order in which Go walks the map of entries is  *)
(* not fixed: a lookup is the set of what it may find.                     *)
(***************************************************************************)
EXTENDS Naturals, Sequences, SequencesExt, FiniteSetsExt

CONSTANTS
  Config,       \* UpstreamMap: entry |-> [host, rewrites, wildcard]
  NoRule,       \* no wildcard
  BlockedHosts, \* blocked_hosts: a sequence of URL prefixes
  Pieces,       \* the tokens names are made of, "." and "-" among them
  Frames,       \* what a name stands in: [open, scheme, after]
  Names,        \* names in pages
  Served,       \* the entries pages are asked from
  Ports         \* ":" and a port, or nothing

Texts == Seq(STRING)

\* A wildcard: the entry <prefix>x<entrySuffix> stands for x<upstreamSuffix>.
Patterns == [prefix : Texts, entrySuffix : Texts, upstreamSuffix : Texts]

ASSUME EntriesAssumption ==
  /\ NoRule \notin Patterns
  /\ \A uc \in Range(Config) :
       uc \in [host : Texts, rewrites : {uc.rewrites}, wildcard : {NoRule} \cup Patterns]

Quote == "'"
Schemes == {<<"//">>, <<"https:", "//">>, <<"http:", "//">>}

\* Where t begins in s, 0 when it does not.
Index(s, t) ==
  LET I == {i \in 1 .. Len(s) + 1 - Len(t) : SubSeq(s, i, i + Len(t) - 1) = t}
  IN IF I = {} THEN 0 ELSE Min(I)
From(s, i) == SubSeq(s, i, Len(s))
UpTo(s, i) == SubSeq(s, 1, i)
isDomainChar(s, i) == i \in DOMAIN s /\ s[i] \in Pieces

-----------------------------------------------------------------------------
(* Which upstream a host stands for.                                       *)
SubOf(host, w) == SubSeq(host, Len(w.prefix) + 1, Len(host) - Len(w.entrySuffix))
Around(host, w) == IsPrefix(w.prefix, host) /\ IsSuffix(w.entrySuffix, host)

Wildcards == {uc \in Range(Config) : uc.wildcard # NoRule}

matchWildcard(host) ==
  {[uc EXCEPT !.host = SubOf(host, uc.wildcard) \o uc.wildcard.upstreamSuffix] :
     uc \in {u \in Wildcards : /\ u.wildcard.prefix # <<>>
                               /\ Around(host, u.wildcard)
                               /\ SubOf(host, u.wildcard) # <<>>
                               /\ Range(SubOf(host, u.wildcard)) \cap {":", "/"} = {}}}

Lookup(host) == IF host \in DOMAIN Config THEN {Config[host]} ELSE matchWildcard(host)

\* An entry without a wildcard of its own has that of its site.
Family(host) == {u \in Wildcards : Around(host, u.wildcard)}
inheritWildcard(uc, host) ==
  IF uc.wildcard # NoRule \/ Family(host) = {} THEN {uc}
  ELSE {[uc EXCEPT !.wildcard = u.wildcard] : u \in Family(host)}

-----------------------------------------------------------------------------
(* The rules of an entry.                                                  *)
Bare(w) == Tail(w.upstreamSuffix)
Main(w) == Front(w.prefix) \o w.entrySuffix

\* The wildcard's own rules take the place of rewrites with the same key.
Derived(w) ==
  IF w = NoRule THEN {} ELSE
    {[key |-> Bare(w), to |-> w.prefix \o <<"*">> \o w.entrySuffix, wild |-> TRUE],
     [key |-> Bare(w), to |-> Main(w), wild |-> FALSE],
     [key |-> w.upstreamSuffix, to |-> Main(w), wild |-> FALSE]}

Rules(uc) ==
  LET D == Derived(uc.wildcard) IN
  D \cup {[key |-> k, to |-> uc.rewrites[k], wild |-> FALSE] :
            k \in DOMAIN uc.rewrites \ {d.key : d \in D}}

\* Exact names before wildcards, long ones before short ones; names of the same
\* length come in any order.
Before(a, b) ==
  \/ ~a.wild /\ b.wild
  \/ a.wild = b.wild /\ Len(a.key) > Len(b.key)
Orders(rules) ==
  {s \in SetToSeqs(rules) : \A j \in DOMAIN s : \A i \in 1 .. j - 1 : ~Before(s[j], s[i])}

\* Cookie domains, the keys that begin with a dot, have no port.
Target(rule, port) ==
  IF Head(rule.key) = "." \/ Contains(rule.to, ":") THEN rule.to ELSE rule.to \o port

-----------------------------------------------------------------------------
(* Replacing names.                                                        *)

\* A mutant: names are not bounded on the left.
replaceAnywhere(body, from, to) ==
  LET R[s \in Texts] ==
        LET i == Index(s, from)
            j == i + Len(from) IN
        IF i = 0 THEN s
        ELSE IF isDomainChar(s, j) THEN UpTo(s, i) \o R[From(s, i + 1)]
        ELSE UpTo(s, i - 1) \o to \o R[From(s, j)]
  IN R[body]

\* from where it is a whole name.
replaceDomainBounded(body, from, to) ==
  LET R[s \in Texts] ==
        LET i == Index(s, from)
            j == i + Len(from) IN
        IF i = 0 THEN s
        ELSE IF isDomainChar(s, i - 1) \/ isDomainChar(s, j)
        THEN UpTo(s, i) \o R[From(s, i + 1)]
        ELSE UpTo(s, i - 1) \o to \o R[From(s, j)]
  IN R[body]

\* What stands before suffix, back to the beginning of the name, takes the
\* place of the star; nothing does when that is nothing or a dot.
replaceWildcardDomain(body, suffix, target) ==
  LET R[s \in Texts] ==
        LET i == Index(s, suffix)
            j == i + Len(suffix)
            start == Min({k \in 1 .. i : \A m \in k .. i - 1 : isDomainChar(s, m)})
            pre == SubSeq(s, start, i - 1)
            sub == IF pre # <<>> /\ Last(pre) = "." THEN Front(pre) ELSE pre
            star == FlattenSeq([k \in DOMAIN target |->
                                  IF target[k] = "*" THEN sub ELSE <<target[k]>>]) IN
        IF i = 0 THEN s
        ELSE IF sub = <<>> \/ isDomainChar(s, j) THEN UpTo(s, j - 1) \o R[From(s, j)]
        ELSE UpTo(s, start - 1) \o star \o R[From(s, j)]
  IN R[body]

\* One rule after the other.
ApplyRule(body, rule, port) ==
  IF rule.wild THEN replaceWildcardDomain(body, rule.key, Target(rule, port))
               ELSE replaceDomainBounded(body, rule.key, Target(rule, port))
buildRewriter(body, order, port) ==
  FoldLeft(LAMBDA s, r : ApplyRule(s, r, port), body, order)

-----------------------------------------------------------------------------
(* Cutting out blocked URLs.                                               *)

\* From the quote before it to the quote after it; where it is not the
\* beginning of a quoted URL only the prefix goes.
stripOneBlockedURL(body, b) ==
  LET R[s \in Texts] ==
        LET i == Index(s, b)
            before == {k \in 1 .. i - 1 : s[k] = Quote}
            start == Max(before) + 1
            between == SubSeq(s, start, i - 1)
            after == {k \in i .. Len(s) : s[k] = Quote}
            rest == From(s, i + Len(b)) IN
        IF i = 0 THEN s
        ELSE IF before = {} \/ ~(between = <<>> \/ \E p \in Schemes : IsPrefix(p, between))
        THEN UpTo(s, i - 1) \o R[rest]
        ELSE IF after = {} THEN UpTo(s, start - 1) \o R[rest]
        ELSE UpTo(s, start - 1) \o R[From(s, Min(after))]
  IN R[body]

\* Each blocked URL with its scheme, and without.
stripBlockedURLs(body) ==
  FoldLeft(LAMBDA s, b : stripOneBlockedURL(stripOneBlockedURL(s, b), Tail(b)),
           body, BlockedHosts)

buildEntryRewriter(order, body, port) == buildRewriter(stripBlockedURLs(body), order, port)

-----------------------------------------------------------------------------
(* Properties.                                                             *)

\* The entry a page of uc names in place of n: none for a name that is not of
\* its site, with one exception.  The wildcard's rule looks for the bare domain
\* and not for the dot before it, so that a longer label that ends like it,
\* notiwara.tv, is taken for a subdomain, against proxy.go:386 and what
\* rewrite_test.go:45-50 asks of the exact names.
IsSub(n, w) == w # NoRule /\ IsSuffix(w.upstreamSuffix, n) /\ n # w.upstreamSuffix
Glued(n, w) ==
  w # NoRule /\ IsSuffix(Bare(w), n) /\ n # Bare(w) /\ ~IsSuffix(w.upstreamSuffix, n)

EntryOf(sub, w) == w.prefix \o sub \o w.entrySuffix
EntryFor(uc, n, port) ==
  LET w == uc.wildcard IN
  CASE w # NoRule /\ n = w.upstreamSuffix -> Main(w)
    [] w # NoRule /\ n = Bare(w) -> Main(w) \o port
    [] n \in DOMAIN uc.rewrites -> uc.rewrites[n] \o port
    [] IsSub(n, w) /\ n \notin DOMAIN uc.rewrites ->
         EntryOf(SubSeq(n, 1, Len(n) - Len(w.upstreamSuffix)), w) \o port
    [] Glued(n, w) /\ n \notin DOMAIN uc.rewrites ->
         EntryOf(SubSeq(n, 1, Len(n) - Len(Bare(w))), w) \o port
    [] OTHER -> n

\* Where the entry of a subdomain n leads: to n, with one exception.  An entry of
\* that very name that is in the configuration is found first, and may have been
\* made for another host than proxy.go:33-35 says, as dlsite-img is for
\* img.dlsite.jp.
LeadsTo(entry, n) == IF entry \in DOMAIN Config THEN Config[entry].host ELSE n

Quoted(f) == f.open # <<>> /\ Last(f.open) = Quote
Text(f, n) == f.open \o f.scheme \o n \o f.after

\* A blocked name is cut out with the quoted URL it begins, and what stands
\* outside of quotes loses the scheme and the name.  Of a URL that begins with
\* http:// only the two slashes and the name go, quoted or not: with its own
\* scheme the list has https:// alone.
Blocking(n) == {i \in DOMAIN BlockedHosts : IsPrefix(From(BlockedHosts[i], 3), n)}
Becomes(uc, port, f, n) ==
  LET name == From(BlockedHosts[Min(Blocking(n))], 3)
      rest == From(n, Len(name) + 1) IN
  CASE Blocking(n) = {} \/ f.scheme \notin Schemes -> Text(f, EntryFor(uc, n, port))
    [] Blocking(n) # {} /\ f.scheme = <<"http:", "//">> -> f.open \o <<"http:">> \o rest \o f.after
    [] OTHER -> IF Quoted(f) THEN f.open \o <<Quote>> ELSE f.open \o rest \o f.after

\* No host has two wildcards around it.
Separate ==
  \A u, v \in Wildcards :
    /\ IsPrefix(u.wildcard.prefix, v.wildcard.prefix)
    /\ \/ IsSuffix(u.wildcard.entrySuffix, v.wildcard.entrySuffix)
       \/ IsSuffix(v.wildcard.entrySuffix, u.wildcard.entrySuffix)
    => u.wildcard = v.wildcard

\* The rules by which a page that was asked from entry e is rewritten.
RulesFor(e) == UNION {inheritWildcard(found, e) : found \in Lookup(e)}
Subdomain(uc, n) == IsSub(n, uc.wildcard) /\ n \notin DOMAIN uc.rewrites

\* The pages form a closed loop (proxy.go:51-53): from whichever entry of a
\* site a page comes, every name of the site in it becomes an entry, and a
\* request to the entry of a subdomain is sent to that subdomain; no name that
\* merely contains one of the site changes, and the URLs of blocked hosts are
\* gone, blocked hosts of the site itself included.  What the code gets wrong is
\* said by name: EntryFor (Glued), LeadsTo and Becomes (http://).
ClosedLoop ==
  \A e \in Served : \A uc \in RulesFor(e) :
    /\ \A n \in Names : Subdomain(uc, n) =>
         LET entry == EntryFor(uc, n, <<>>) IN
         {u.host : u \in Lookup(entry)} = {LeadsTo(entry, n)}
    /\ \A order \in Orders(Rules(uc)), port \in Ports : \A f, g \in Frames : \A m, n \in Names :
         buildEntryRewriter(order, Text(f, m) \o Text(g, n), port) =
           Becomes(uc, port, f, m) \o Becomes(uc, port, g, n)
=============================================================================
