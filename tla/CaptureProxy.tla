---------------------------- MODULE CaptureProxy ----------------------------
(***************************************************************************)
(* capture-proxy (cmd/capture-proxy/local.go): one HTTP handler per        *)
(* request, over two address families of the same upstream.  The handlers  *)
(* share a cool-down and a count of limit errors per family, the counters  *)
(* of the families, and the list of banned clients.  Every access to them  *)
(* is a critical section of its own, and a step of its own here; only the  *)
(* counters, which no step reads, change together with the access next to  *)
(* them.  The body of a stream is StreamRelay's subject: here it is one    *)
(* step with its outcomes.                                                 *)
(***************************************************************************)
EXTENDS Integers, Sequences, FiniteSets

CONSTANTS
  Reqs,       \* HTTP requests, each handled by a goroutine
  Clients,    \* client addresses
  BanOn,      \* started with -ban
  BanMax,     \* requests of one client in a window before it is banned
  Bodies,     \* kinds of bodies that are sent
  Overs,      \* values of the stack parameter that are sent
  SetModes,   \* the forwarding modes the control API is used to set
  MaxDays     \* bound: midnights in a behaviour

Fams  == {"v4", "v6"}
Modes == Fams \union {"auto"}

ASSUME CaptureAssumption ==
  /\ IsFiniteSet(Reqs)
  /\ BanOn \in BOOLEAN /\ BanMax \in Nat \ {0}
  /\ Bodies \subseteq {"plain", "stream", "big", "bad"}
  /\ Overs \subseteq {"none", "v4", "v6", "junk"}
  /\ SetModes \subseteq Modes /\ SetModes # {}
  /\ MaxDays \in Nat

\* How long a family is left alone: not at all, 1 minute, 5 minutes, until
\* the next midnight.  The number is also the number of limit errors in a
\* row that lead to it.
None     == 0
Minute   == 1
Minutes5 == 2
ToMidnight == 3

VARIABLES
  cooldown,   \* proxy.cooldownV4, cooldownV6
  limFails,   \* proxy.limFailsV4, limFailsV6
  unsettled,  \* proxy.famStats of each family: reqs - ok - errs
  banCount,   \* banList.counts
  banned,     \* banList.banned: "no", "yes", or "over" when it has run out
  req,        \* the goroutine of each request
  resetDue,   \* the timer of the daily reset has fired
  days        \* bound

cvars == <<cooldown, limFails, unsettled, banCount, banned, req, resetDue, days>>

Idle == [pc |-> "idle", from |-> "none", body |-> "none", over |-> "none",
         left |-> <<>>, h1 |-> FALSE, wait |-> None, last |-> "none",
         ans |-> "none"]

CInit ==
  /\ cooldown = [f \in Fams |-> None]
  /\ limFails = [f \in Fams |-> 0]
  /\ unsettled = [f \in Fams |-> 0]
  /\ banCount = [c \in Clients |-> 0]
  /\ banned = [c \in Clients |-> "no"]
  /\ req = [r \in Reqs |-> Idle]
  /\ resetDue = FALSE
  /\ days = 0

-----------------------------------------------------------------------------
At(r, pc) == req[r].pc = pc

Fam(r) == Head(req[r].left)

\* famStat.add: one more request, or one more outcome.
Tried(f)   == unsettled' = [unsettled EXCEPT ![f] = @ + 1]
Settled(f) == unsettled' = [unsettled EXCEPT ![f] = @ - 1]

\* The handler writes its answer and returns.
Answer(r, a) == req' = [req EXCEPT ![r] = [Idle EXCEPT !.pc = "done", !.ans = a]]

\* The loop over the families goes on with the next one, or stops.
NextFam(r, last) ==
  req' = [req EXCEPT ![r] = [req[r] EXCEPT !.pc = "try", !.left = Tail(req[r].left),
                                           !.h1 = FALSE, !.last = last]]
StopLoop(r, last) ==
  req' = [req EXCEPT ![r] = [@ EXCEPT !.pc = "try", !.left = <<>>, !.last = last]]

\* The control API may set the mode (setMode) between any two requests, and a
\* request reads it once (currentMode): each finds any of the modes set.
stacks(over, mode) ==
  CASE over # "none"   -> <<over>>
    [] mode = "auto"   -> <<"v6", "v4">>
    [] OTHER           -> <<mode>>

-----------------------------------------------------------------------------
(* A request comes in; a stack parameter other than v4 and v6 is refused.  *)
Arrive(r, c, body, over) ==
  /\ At(r, "idle")
  /\ IF over = "junk"
       THEN Answer(r, "400")
       ELSE req' = [req EXCEPT ![r] =
                      [@ EXCEPT !.pc = IF BanOn THEN "gate" ELSE "body",
                                !.from = c, !.body = body, !.over = over]]
  /\ UNCHANGED <<cooldown, limFails, unsettled, banCount, banned, resetDue, days>>

\* isBanned: a ban that has run out is dropped here.
Gate(r) ==
  /\ At(r, "gate")
  /\ LET c == req[r].from IN
       /\ banned' = [banned EXCEPT ![c] = IF @ = "yes" THEN @ ELSE "no"]
       /\ IF banned[c] = "yes"
            THEN Answer(r, "banned")
            ELSE req' = [req EXCEPT ![r].pc = "count"]
  /\ UNCHANGED <<cooldown, limFails, unsettled, banCount, resetDue, days>>

\* A mutant: the count stays when the client is banned.
IncrKeepsCount(r) ==
  /\ At(r, "count")
  /\ LET c == req[r].from IN
       CASE banned[c] # "no" -> UNCHANGED <<banCount, banned>>
         [] banned[c] = "no" /\ banCount[c] < BanMax ->
              banCount' = [banCount EXCEPT ![c] = @ + 1] /\ UNCHANGED banned
         [] OTHER -> banned' = [banned EXCEPT ![c] = "yes"] /\ UNCHANGED banCount
  /\ req' = [req EXCEPT ![r].pc = "body"]
  /\ UNCHANGED <<cooldown, limFails, unsettled, resetDue, days>>

\* incr: the request that exceeds the limit bans its client, and is served.
Incr(r) ==
  /\ At(r, "count")
  /\ LET c == req[r].from IN
       CASE banned[c] # "no" -> UNCHANGED <<banCount, banned>>
         [] banned[c] = "no" /\ banCount[c] < BanMax ->
              banCount' = [banCount EXCEPT ![c] = @ + 1] /\ UNCHANGED banned
         [] OTHER ->
              /\ banCount' = [banCount EXCEPT ![c] = 0]
              /\ banned' = [banned EXCEPT ![c] = "yes"]
  /\ req' = [req EXCEPT ![r].pc = "body"]
  /\ UNCHANGED <<cooldown, limFails, unsettled, resetDue, days>>

\* What a body that is too large, or is no JSON, is answered.
readBody(body) == CASE body = "big" -> "413"
                    [] body = "bad" -> "400"
                    [] OTHER        -> "none"

\* The body is read and parsed, and the order of the families is fixed.
ReadBody(r) ==
  /\ At(r, "body")
  /\ IF readBody(req[r].body) # "none"
       THEN Answer(r, readBody(req[r].body))
       ELSE \E m \in SetModes :
              req' = [req EXCEPT ![r].pc = "try",
                                 ![r].left = stacks(req[r].over, m)]
  /\ UNCHANGED <<cooldown, limFails, unsettled, banCount, banned, resetDue, days>>

\* One turn of the loop: a family in cool-down is passed over, otherwise the
\* request goes out.
Try(r) ==
  /\ At(r, "try") /\ req[r].left # <<>>
  /\ IF cooldown[Fam(r)] # None
       THEN NextFam(r, req[r].last) /\ UNCHANGED unsettled
       ELSE Tried(Fam(r)) /\ req' = [req EXCEPT ![r].pc = "wait"]
  /\ UNCHANGED <<cooldown, limFails, banCount, banned, resetDue, days>>

\* A mutant: the second try is counted as a request.
NoResponseCounts(r, http2) ==
  /\ At(r, "wait")
  /\ IF http2 /\ ~req[r].h1
       THEN req' = [req EXCEPT ![r].h1 = TRUE] /\ Tried(Fam(r))
       ELSE Settled(Fam(r)) /\ NextFam(r, req[r].last)
  /\ UNCHANGED <<cooldown, limFails, banCount, banned, resetDue, days>>

\* No response: after a time-out or an http/2 error once more with http/1.1.
NoResponse(r, http2) ==
  /\ At(r, "wait")
  /\ IF http2 /\ ~req[r].h1
       THEN req' = [req EXCEPT ![r].h1 = TRUE] /\ UNCHANGED unsettled
       ELSE Settled(Fam(r)) /\ NextFam(r, req[r].last)
  /\ UNCHANGED <<cooldown, limFails, banCount, banned, resetDue, days>>

\* A response that is not 200 and not the limit: 4xx ends the loop.
ErrorResponse(r, status) ==
  /\ At(r, "wait")
  /\ Settled(Fam(r))
  /\ IF status = "4xx" THEN StopLoop(r, status) ELSE NextFam(r, status)
  /\ UNCHANGED <<cooldown, limFails, banCount, banned, resetDue, days>>

\* onLimitErr decides how long; the lock is released before the cool-down
\* is set (counted to 3 here: every further error has the same effect).
LimitError(r) ==
  /\ At(r, "wait")
  /\ LET f == Fam(r)
         n == IF limFails[f] < ToMidnight THEN limFails[f] + 1 ELSE ToMidnight
     IN /\ limFails' = [limFails EXCEPT ![f] = n]
        /\ req' = [req EXCEPT ![r].pc = "cool", ![r].wait = n]
        /\ Settled(f)
  /\ UNCHANGED <<cooldown, banCount, banned, resetDue, days>>

\* A mutant: a limit error wipes the error of the family before.
SetCooldownForgets(r) ==
  /\ At(r, "cool")
  /\ cooldown' = [cooldown EXCEPT ![Fam(r)] = req[r].wait]
  /\ req' = [req EXCEPT ![r] = [req[r] EXCEPT !.pc = "try", !.left = Tail(req[r].left),
                                            !.last = "none", !.h1 = FALSE, !.wait = None]]
  /\ UNCHANGED <<limFails, unsettled, banCount, banned, resetDue, days>>

SetCooldown(r) ==
  /\ At(r, "cool")
  /\ cooldown' = [cooldown EXCEPT ![Fam(r)] = req[r].wait]
  /\ req' = [req EXCEPT ![r] = [req[r] EXCEPT !.pc = "try", !.left = Tail(req[r].left),
                                            !.h1 = FALSE, !.wait = None]]
  /\ UNCHANGED <<limFails, unsettled, banCount, banned, resetDue, days>>

Accepted(r) ==
  /\ At(r, "wait")
  /\ Settled(Fam(r))
  /\ req' = [req EXCEPT ![r].pc = "relay"]
  /\ UNCHANGED <<cooldown, limFails, banCount, banned, resetDue, days>>

\* The body of the 200: whole, or as a stream that was committed, or as a
\* stream that ended or stalled before its first event.
Relay(r, committed) ==
  /\ At(r, "relay")
  /\ IF committed
       THEN limFails' = [limFails EXCEPT ![Fam(r)] = 0] /\ Answer(r, "200")
       ELSE /\ req[r].body = "stream"
            /\ NextFam(r, req[r].last)
            /\ UNCHANGED limFails
  /\ UNCHANGED <<cooldown, unsettled, banCount, banned, resetDue, days>>

\* After the loop: the last real error, or 429 when there was none.
Finish(r) ==
  /\ At(r, "try") /\ req[r].left = <<>>
  /\ Answer(r, IF req[r].last # "none" THEN req[r].last ELSE "429")
  /\ UNCHANGED <<cooldown, limFails, unsettled, banCount, banned, resetDue, days>>

-----------------------------------------------------------------------------
(* The clock.                                                              *)
\* One or five minutes are over.
CooldownEnds(f) ==
  /\ cooldown[f] \in {Minute, Minutes5}
  /\ cooldown' = [cooldown EXCEPT ![f] = None]
  /\ UNCHANGED <<limFails, unsettled, banCount, banned, req, resetDue, days>>

\* Midnight ends the cool-downs that were to last until then, those that
\* are about to be set too, and wakes the daily reset.
Midnight ==
  /\ days < MaxDays /\ ~resetDue
  /\ days' = days + 1 /\ resetDue' = TRUE
  /\ cooldown' = [f \in Fams |-> IF cooldown[f] = ToMidnight THEN None ELSE cooldown[f]]
  /\ req' = [r \in Reqs |-> IF req[r].wait = ToMidnight
                              THEN [req[r] EXCEPT !.wait = None] ELSE req[r]]
  /\ UNCHANGED <<limFails, unsettled, banCount, banned>>

resetDaily ==
  /\ resetDue /\ resetDue' = FALSE
  /\ unsettled' = [f \in Fams |-> 0]
  /\ UNCHANGED <<cooldown, limFails, banCount, banned, req, days>>

\* A window or a ban of ten minutes is over; the clean-up loop forgets it.
WindowEnds(c) ==
  /\ banCount[c] > 0
  /\ banCount' = [banCount EXCEPT ![c] = 0]
  /\ UNCHANGED <<cooldown, limFails, unsettled, banned, req, resetDue, days>>

BanEnds(c) ==
  /\ banned[c] = "yes"
  /\ banned' = [banned EXCEPT ![c] = "over"]
  /\ UNCHANGED <<cooldown, limFails, unsettled, banCount, req, resetDue, days>>

cleanup(c) ==
  /\ banned[c] = "over"
  /\ banned' = [banned EXCEPT ![c] = "no"]
  /\ UNCHANGED <<cooldown, limFails, unsettled, banCount, req, resetDue, days>>

-----------------------------------------------------------------------------
\* The steps of the goroutine of r, and those that wait for the upstream.
Handler(r) ==
  \/ Gate(r) \/ Incr(r) \/ ReadBody(r) \/ Try(r) \/ SetCooldown(r) \/ Finish(r)

FromUpstream(r) ==
  \/ \E h \in BOOLEAN : NoResponse(r, h)
  \/ \E s \in {"4xx", "5xx"} : ErrorResponse(r, s)
  \/ LimitError(r)
  \/ Accepted(r)
  \/ \E c \in BOOLEAN : Relay(r, c)

Clock ==
  \/ \E f \in Fams : CooldownEnds(f)
  \/ Midnight
  \/ resetDaily
  \/ \E c \in Clients : WindowEnds(c) \/ BanEnds(c) \/ cleanup(c)

Own(r) == Handler(r) \/ FromUpstream(r)

Next ==
  \/ \E r \in Reqs : Own(r)
  \/ \E r \in Reqs, c \in Clients, b \in Bodies, o \in Overs : Arrive(r, c, b, o)
  \/ Clock

Spec == CInit /\ [][Next]_cvars

-----------------------------------------------------------------------------
(* Properties.                                                             *)
Statuses == {"4xx", "5xx"}

Lefts == {<<>>, <<"v4">>, <<"v6">>, <<"v6", "v4">>}

ReqType ==
  [pc : {"idle", "gate", "count", "body", "try", "wait", "cool", "relay", "done"},
   from : Clients \union {"none"}, body : Bodies \union {"none"},
   over : (Overs \ {"junk"}) \union {"none"},
   left : Lefts,
   h1 : BOOLEAN, wait : None..ToMidnight, last : Statuses \union {"none"},
   ans : {"none", "200", "400", "413", "429", "banned"} \union Statuses]

\* The types of the variables; a request in the loop is on a family, and one
\* that has passed the gate has a client.
TypeOK ==
  /\ cooldown \in [Fams -> None..ToMidnight]
  /\ limFails \in [Fams -> None..ToMidnight]
  /\ unsettled \in [Fams -> Int]
  /\ banCount \in [Clients -> 0..BanMax]
  /\ banned \in [Clients -> {"no", "yes", "over"}]
  /\ req \in [Reqs -> ReqType]
  /\ \A r \in Reqs : /\ req[r].pc \in {"wait", "cool", "relay"} => req[r].left # <<>>
                     /\ req[r].pc \in {"gate", "count"} => req[r].from \in Clients
  /\ resetDue \in BOOLEAN /\ days \in 0..MaxDays

InFlight(f) == {r \in Reqs : req[r].pc = "wait" /\ Fam(r) = f}

\* The counters of /status add up: until the first daily reset every request
\* counted for a family has one outcome counted or is waiting for its
\* response, the second try with http/1.1 included.  After a reset they may
\* show more outcomes than requests, never a request that is not waiting.
CountersAddUp ==
  \A f \in Fams : /\ days = 0 => unsettled[f] = Cardinality(InFlight(f))
                  /\ unsettled[f] <= Cardinality(InFlight(f))

\* A ban leaves no count behind: a client that comes back after its ban has
\* the whole limit again.
BanStartsAfresh == \A c \in Clients : banned[c] # "no" => banCount[c] = 0

\* An error the upstream really answered is not turned into "429, limit
\* reached" by what the other family does afterwards (local.go:1062-1069).
RealErrorPassedOn ==
  [][\A r \in Reqs : req[r].last # "none" =>
       \/ req'[r].last = req[r].last
       \/ req'[r].pc = "done" /\ req'[r].ans \in {req[r].last, "200"}
       \/ req'[r].last \in Statuses /\ req[r].pc = "wait"]_cvars
=============================================================================
