----------------------------- MODULE MultiProxy -----------------------------
(***************************************************************************)
(* multi-proxy (cmd/multi-proxy/main.go): a front for several capture-     *)
(* proxies, tried in order.  Its first source is the capture-proxy of      *)
(* CaptureProxy, which sees every request come from the one address of     *)
(* multi-proxy; the others are instances elsewhere, of which only the      *)
(* answers are known.  A source that fails is left alone for a minute, one *)
(* that reports an exhausted quota until midnight.                         *)
(***************************************************************************)
EXTENDS CaptureProxy

CONSTANTS
  NSources,   \* sources 1..NSources, in the order of the command line
  Elsewhere,  \* what a source elsewhere that is not healthy answers
  Host        \* multi-proxy's own address, a client of capture-proxy

Sources == 1..NSources
Local   == 1

ASSUME MultiAssumption ==
  /\ NSources \in Nat \ {0}
  /\ Elsewhere \subseteq {"nothing", "200", "empty", "429", "exceeded", "4xx", "5xx"}
  /\ Host \in Clients
  /\ "none" \in Overs     \* multi-proxy sends no stack parameter

VARIABLES
  healthy,    \* the sources elsewhere that answer 200 to everything
  ucool,      \* upstream.cooldownUntil: "none", "short" or "midnight"
  exceeded,   \* upstream.exceeded
  ustatus,    \* upstream.lastStatus, "zero" before the first bad response
  fwd         \* the goroutine of each request in multi-proxy

mvars == <<healthy, ucool, exceeded, ustatus, fwd>>
allvars == <<cvars, mvars>>

MIdle == [pc |-> "idle", body |-> "none", src |-> Local, status |-> "502",
          tried |-> FALSE, ans |-> "none"]

MInit ==
  /\ CInit
  /\ healthy \in SUBSET (Sources \ {Local})
  /\ ucool = [s \in Sources |-> "none"]
  /\ exceeded = [s \in Sources |-> FALSE]
  /\ ustatus = [s \in Sources |-> "zero"]
  /\ fwd = [r \in Reqs |-> MIdle]

-----------------------------------------------------------------------------
MAt(r, pc) == fwd[r].pc = pc
Src(r)     == fwd[r].src

MAnswer(r, a) == fwd' = [fwd EXCEPT ![r] = [MIdle EXCEPT !.pc = "done", !.ans = a]]

MGoto(r, pc) == fwd' = [fwd EXCEPT ![r].pc = pc]

NextSource(r) == fwd' = [fwd EXCEPT ![r].src = @ + 1]

\* A response with status 429, or with one of four words in its body.
isExceed(a) == a \in {"429", "banned", "exceeded"}

\* handleProxy up to the loop.
MArrive(r, body) ==
  /\ MAt(r, "idle")
  /\ CASE body = "big" -> MAnswer(r, "413")
       [] body = "bad" -> MAnswer(r, "400")
       [] OTHER -> fwd' = [fwd EXCEPT ![r] = [@ EXCEPT !.pc = "loop", !.body = body]]
  /\ UNCHANGED <<cvars, healthy, ucool, exceeded, ustatus>>

\* One turn of the loop; the request reaches the local capture-proxy as a
\* request of its own.
MTry(r) ==
  /\ MAt(r, "loop") /\ Src(r) \in Sources
  /\ UNCHANGED <<healthy, ucool, exceeded, ustatus>>
  /\ IF ucool[Src(r)] # "none"
       THEN NextSource(r) /\ UNCHANGED cvars
       ELSE /\ fwd' = [fwd EXCEPT ![r].pc = "call", ![r].tried = TRUE]
            /\ IF Src(r) = Local
                 THEN Arrive(r, Host, fwd[r].body, "none")
                 ELSE UNCHANGED cvars

\* What a source may answer to r now: a source elsewhere anything, the local
\* one what its handler has written, whose text may hold one of the words
\* and whose stream may break.  Any of them may be out of reach or take
\* longer than the client's time-outs.
Answers(r) ==
  CASE Src(r) \in healthy -> {"200"}
    [] Src(r) \notin healthy \union {Local} ->
         Elsewhere
    [] Src(r) = Local /\ At(r, "relay") -> {"nothing", "empty"}
    [] Src(r) = Local /\ ~At(r, "done") /\ ~At(r, "relay") -> {"nothing"}
    [] OTHER -> {"nothing", req[r].ans} \union
                  (IF req[r].ans = "200" THEN {"empty"} ELSE {"exceeded"})

\* No response: a short cool-down.  The last status of the source stays what
\* it was.
SourceFails(r) ==
  /\ MAt(r, "call") /\ "nothing" \in Answers(r)
  /\ ucool' = [ucool EXCEPT ![Src(r)] = "short"]
  /\ MGoto(r, "collect")
  /\ UNCHANGED <<cvars, healthy, exceeded, ustatus>>

\* A 200 whose stream ends, or stays silent, before its first chunk: the same,
\* but the source counts as not exceeded.
StreamStalls(r) ==
  /\ MAt(r, "call") /\ "empty" \in Answers(r) /\ fwd[r].body = "stream"
  /\ ucool' = [ucool EXCEPT ![Src(r)] = "short"]
  /\ exceeded' = [exceeded EXCEPT ![Src(r)] = FALSE]
  /\ MGoto(r, "collect")
  /\ UNCHANGED <<cvars, healthy, ustatus>>

\* A response that is not 200 is recorded, and an exhausted quota locks.
SourceErrs(r, a) ==
  /\ MAt(r, "call") /\ a \in Answers(r) \ {"200", "nothing", "empty"}
  /\ ustatus' = [ustatus EXCEPT ![Src(r)] = a]
  /\ exceeded' = [exceeded EXCEPT ![Src(r)] = isExceed(a)]
  /\ ucool' = [ucool EXCEPT ![Src(r)] = IF isExceed(a) THEN "midnight" ELSE @]
  /\ MGoto(r, "collect")
  /\ UNCHANGED <<cvars, healthy>>

SourceServes(r) ==
  /\ MAt(r, "call") /\ "200" \in Answers(r)
  /\ exceeded' = [exceeded EXCEPT ![Src(r)] = FALSE]
  /\ MAnswer(r, "200")
  /\ UNCHANGED <<cvars, healthy, ucool, ustatus>>

\* A mutant: an error that is not the quota's ends the loop.
CollectStops(r) ==
  /\ MAt(r, "collect")
  /\ fwd' = [fwd EXCEPT ![r] =
               [@ EXCEPT !.pc = "loop", !.status = ustatus[Src(r)],
                         !.src = IF ustatus[@] = "4xx" THEN NSources + 1 ELSE @ + 1]]
  /\ UNCHANGED <<cvars, healthy, ucool, exceeded, ustatus>>

\* Back in handleProxy, under another lock: the source's last status, which
\* may be that of another request by now.
Collect(r) ==
  /\ MAt(r, "collect")
  /\ fwd' = [fwd EXCEPT ![r] = [@ EXCEPT !.pc = "loop", !.src = Src(r) + 1,
                                         !.status = ustatus[Src(r)]]]
  /\ UNCHANGED <<cvars, healthy, ucool, exceeded, ustatus>>

MFinish(r) ==
  /\ MAt(r, "loop") /\ Src(r) \notin Sources
  /\ MAnswer(r, CASE fwd[r].tried -> fwd[r].status
                  [] ~fwd[r].tried /\ \E s \in Sources : exceeded[s] -> "all exceeded"
                  [] OTHER -> "all in cooldown")
  /\ UNCHANGED <<cvars, healthy, ucool, exceeded, ustatus>>

-----------------------------------------------------------------------------
\* A minute, or the day, is over.
ShortEnds(s) ==
  /\ ucool[s] = "short"
  /\ ucool' = [ucool EXCEPT ![s] = "none"]
  /\ UNCHANGED <<cvars, healthy, exceeded, ustatus, fwd>>

MultiMidnight ==
  /\ Midnight
  /\ ucool' = [s \in Sources |-> IF ucool[s] = "midnight" THEN "none" ELSE ucool[s]]
  /\ UNCHANGED <<healthy, exceeded, ustatus, fwd>>

MHandler(r) == MTry(r) \/ Collect(r) \/ MFinish(r)

FromSource(r) ==
  \/ SourceFails(r) \/ StreamStalls(r) \/ SourceServes(r)
  \/ \E a \in Answers(r) : SourceErrs(r, a)

MNext ==
  \/ \E r \in Reqs : MHandler(r) \/ FromSource(r) \/ \E b \in Bodies : MArrive(r, b)
  \/ \E s \in Sources : ShortEnds(s)
  \/ MultiMidnight
  \/ /\ \/ \E r \in Reqs : Own(r)
        \/ \E f \in Fams : CooldownEnds(f)
        \/ resetDaily
        \/ \E c \in Clients : WindowEnds(c) \/ BanEnds(c) \/ cleanup(c)
     /\ UNCHANGED mvars

MSpec == MInit /\ [][MNext]_allvars

-----------------------------------------------------------------------------
(* Properties.                                                             *)

\* While a source is healthy every well-formed request is served, whatever
\* the sources before it answer and however long they are locked.
HealthyServes ==
  healthy # {} => \A r \in Reqs : MAt(r, "done") => fwd[r].ans \in {"200", "400", "413"}
=============================================================================
