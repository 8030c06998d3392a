----------------------------- MODULE MCEchProxy -----------------------------
(* A small instance of EchProxy, in two scenes.  In the one, a wildcard host   *)
(* moves from an address of Cloudflare's to two others, one handler meets     *)
(* every kind of body around the limit of MaxRewrite = 1, and one has an      *)
(* empty body.  In the other, two handlers ask two hosts that set, renew and  *)
(* delete cookies, one of which has a configured cookie.  And an instance of  *)
(* EchRewrite, with entries like those of certs/l.moonchan.xyz/upstream.json. *)
EXTENDS EchProxy, EchRewrite, TLC

CONSTANTS r1, r2, a1, a2, a3

MCOutlet == [h \in Hosts |-> IF h = "wild" THEN "auto" ELSE "direct"]
MCLists == [h \in Hosts |-> IF h = "wild" THEN <<<<a1>>, <<>>, <<a2, a3>>>> ELSE <<<<>>>>]
MCFixed == [h \in Hosts |-> IF h = "fixed" THEN "v0" ELSE None]

\* Bodies whose length is known only when they end, and coded ones.
Long(n) == [NoBody EXCEPT !.size = n, !.known = FALSE, !.text = TRUE]
Coded(s) == [NoBody EXCEPT !.size = 1, !.text = TRUE, !.coded = TRUE, !.sound = s]
Bodies(r) == IF r = r1 THEN {Long(3), Long(2), Coded(TRUE), Coded(FALSE)} ELSE {NoBody}
SetCookies == {[NoBody EXCEPT !.set = c] : c \in {None} \cup Cookies}
MCAsked == [r \in Handlers |-> Bodies(r) \cup SetCookies]

\* The hosts of a scene, and what they answer.
Scenes == {{"wild"}, Hosts \ {"wild"}}
MCInit == Init /\ \E scene \in Scenes : \A r \in Handlers : host[r] \in scene
MCNext ==
  /\ Next
  /\ \E scene \in Scenes : \A r \in Handlers : {host[r], host'[r]} \subseteq scene
  /\ \A r \in Handlers : resp'[r] = resp[r] \/ resp'[r] = NoBody \/
       resp'[r] \in (IF host[r] = "wild" THEN Bodies(r) ELSE SetCookies)
  /\ host[r1] = "wild" \/ UNCHANGED dns
MCSpec == MCInit /\ [][MCNext]_vars /\ Fairness

\* Names; "l" stands for l.moonchan.xyz.
L(s) == s \o <<".", "l">>
Iwara(s) == s \o <<"iwara", ".", "tv">>
Dlsite(s) == s \o <<"dlsite", ".", "com">>
Jp == <<"img", ".", "dlsite", ".", "jp">>

Rule(p, s) == [prefix |-> <<p, "-">>, entrySuffix |-> <<".", "l">>, upstreamSuffix |-> s]
Entry(h, r, w) == [host |-> h, rewrites |-> r, wildcard |-> w]
MCConfig ==
     L(<<"iwara">>) :> Entry(Iwara(<<>>), Iwara(<<"www", ".">>) :> L(<<"iwara">>),
                             Rule("iwara", Iwara(<<".">>)))
  @@ L(<<"iwara", "-", "api">>) :> Entry(Iwara(<<"api", ".">>), <<>>, NoRule)
  @@ L(<<"dlsite">>) :> Entry(Dlsite(<<"www", ".">>),
                              Dlsite(<<"www", ".">>) :> L(<<"dlsite">>)
                                @@ Jp :> L(<<"dlsite", "-", "img">>),
                              Rule("dlsite", Dlsite(<<".">>)))
  @@ L(<<"dlsite", "-", "img">>) :> Entry(Jp, <<>>, NoRule)
  @@ L(<<"ao3">>) :> Entry(<<"ao3", ".", "org">>, <<>>, NoRule)

MCBlocked == <<<<"https:", "//", "fonts", ".", "com">>,
               <<"https:", "//", "media", ".">> \o Dlsite(<<>>)>>
MCPieces == {".", "-", "l", "not", "iwara", "tv", "www", "api", "files", "dlsite", "com",
             "img", "jp", "ao3", "org", "fonts", "media", "cn"}
Frame(o, s, t) == [open |-> o, scheme |-> s, after |-> t]
MCFrames == {Frame(<<Quote>>, <<"https:", "//">>, <<"/", "x", Quote>>),
             Frame(<<Quote>>, <<"//">>, <<Quote>>),
             Frame(<<Quote>>, <<"http:", "//">>, <<"/", Quote>>),
             Frame(<<>>, <<"https", "%3A", "%2F", "%2F">>, <<"%2F">>),
             Frame(<<" ">>, <<"https:", "//">>, <<"/">>),
             Frame(<<" ">>, <<>>, <<" ">>)}
\* Names of the sites and names that only look like them, an address that has
\* the name of another's entry, and blocked hosts.
MCNames == {Iwara(<<>>), Iwara(<<".">>), Iwara(<<"www", ".">>), Iwara(<<"api", ".">>),
            Iwara(<<"files", ".", "www", ".">>), Iwara(<<"files", "-", "www", ".">>),
            Iwara(<<"not">>), Iwara(<<"www", ".">>) \o <<".", "cn">>, Iwara(<<>>) \o <<".", "cn">>,
            Dlsite(<<"www", ".">>), Dlsite(<<"media", ".">>), Dlsite(<<"img", ".">>), Jp,
            <<"fonts", ".", "com">>, <<"fonts", ".", "com", ".", "cn">>}
\* What SubdomainsLeadBack supposes of the entries is so for these.
ASSUME EntriesAreSeparate == Separate

MCServed == DOMAIN MCConfig \cup {L(<<"iwara", "-", "files">>)}
MCPorts == {<<>>, <<":", "8443">>}

\* The pages form a closed loop (proxy.go:51-53): see ClosedLoop, which no step
\* changes and which is therefore looked at once, at the beginning.
LinksLeadBack == Init => ClosedLoop
=============================================================================
