---------------------------- MODULE StreamRelay ----------------------------
(***************************************************************************)
(* forwardStream of capture-proxy (cmd/capture-proxy/local.go): a goroutine *)
(* reads the upstream body into a bounded channel; the handler waits for   *)
(* the first data, sends the header, and forwards complete SSE events      *)
(* until the body ends, breaks or stays silent for too long.  A stream     *)
(* that was cut is ended by an injected tool call, if the request can use  *)
(* one, or by a bare [DONE].  A write waits for a client that is connected *)
(* and does not read, as long as it takes.                                 *)
(*                                                                         *)
(* An event is its kind and the token usage it reports; "beat" is an event *)
(* without content, "ping" a comment.  A read of the body returns a whole  *)
(* event, or the head or the tail of one.                                  *)
(***************************************************************************)
EXTENDS Naturals, Sequences

CONSTANTS
  Cap,          \* capacity of the channel (32)
  PreWait,      \* ticks until stallTimeout, before the first data
  Gap,          \* ticks of thinkGrace
  ToolGap,      \* ticks of toolStallTimeout
  MaxEvents     \* bound: events with content the upstream sends

ASSUME RelayAssumption ==
  /\ Cap \in Nat \ {0} /\ PreWait \in Nat \ {0}
  /\ Gap \in Nat \ {0} /\ ToolGap \in Nat /\ Gap <= ToolGap
  /\ MaxEvents \in Nat

VARIABLES
  upstream,   \* "open", or "closed" when it has ended or broken off
  sent,       \* events with content it has sent; each reports their number
  said,       \* "nothing", "finish" or "done": how far the reply has come
  half,       \* kind of the event of which only the head was sent, or "none"
  reader,     \* "reading", "sending" or "ended"
  hold,       \* what the reader has read
  ch,         \* the channel
  pc,         \* the handler: "preread", "check", "drain", "select", "writing"
              \* an event, "sealing", "closing", "returned"
  buf,        \* complete events not yet looked at, and whether a head follows
  timer,      \* ticks left of the timer in use
  quiet,      \* ticks since lastReal
  sawTool, finished, doneSent, injected,
  lastUsage, billed,
  recoverable,\* the request has tools
  gone,       \* the client has left
  reads,      \* it takes what it is sent
  head,       \* the header was sent
  seals       \* [DONE] lines handed to the connection

upvars  == <<upstream, sent, said, half>>
rdvars  == <<reader, hold, ch>>
flags   == <<sawTool, finished, doneSent, injected>>
outvars == <<recoverable, gone, reads, head, seals>>
vars == <<upvars, rdvars, pc, buf, timer, quiet, flags, lastUsage, billed, outvars>>

Content == {"text", "tool"}
\* A mutant: an event without content advances the stream too.
AdvanceBeats == Content \union {"finish", "done", "beat"}

Finish  == {"finish", "done"}              \* eventFinishReason, or [DONE]
Advance == Content \union Finish            \* eventHasContent
EndOf   == {"eof", "err"}                     \* how a body ends
hasError(ev) == ev.k = "error"                \* eventHasError
NoItem  == [k |-> "none", part |-> "whole", u |-> 0]

Init ==
  /\ upstream = "open" /\ sent = 0 /\ said = "nothing" /\ half = "none"
  /\ reader = "reading" /\ hold = NoItem /\ ch = <<>>
  /\ pc = "preread" /\ buf = <<>> /\ timer = PreWait /\ quiet = 0
  /\ sawTool = FALSE /\ finished = FALSE /\ doneSent = FALSE /\ injected = FALSE
  /\ lastUsage = 0 /\ billed = 0
  /\ recoverable \in BOOLEAN
  /\ gone = FALSE /\ reads = TRUE /\ head = FALSE /\ seals = 0

-----------------------------------------------------------------------------
(* The upstream: an SSE server sends a reply, [DONE] and nothing but       *)
(* comments after it; it may break off anywhere.                           *)
MaySend(k) ==
  CASE said = "done"   -> k = "ping"
    [] said = "finish" -> k \in {"beat", "ping", "done", "error"}
    [] OTHER           -> k \in Content => sent < MaxEvents

Send(k, part) ==
  /\ upstream = "open" /\ reader = "reading" /\ pc # "returned"
  /\ IF part = "tail" THEN half = k ELSE half = "none" /\ MaySend(k)
  /\ part # "whole" => k # "ping"
  /\ half' = IF part = "head" THEN k ELSE "none"
  /\ LET n == IF k \in Content /\ part # "head" THEN sent + 1 ELSE sent
     IN /\ sent' = n
        /\ hold' = [k |-> k, part |-> part, u |-> n]
  /\ said' = IF part # "head" /\ k \in {"finish", "done"} THEN k ELSE said
  /\ reader' = "sending"
  /\ UNCHANGED <<upstream, ch, pc, buf, timer, quiet, flags, lastUsage, billed, outvars>>

\* The body ends or breaks; closed by the handler, it breaks too.
Stop(e) ==
  /\ reader = "reading" /\ e \in EndOf
  /\ upstream = "open" /\ (pc = "returned" => e = "err")
  /\ upstream' = "closed"
  /\ hold' = [NoItem EXCEPT !.k = e] /\ reader' = "sending"
  /\ UNCHANGED <<sent, said, half, ch, pc, buf, timer, quiet, flags, lastUsage,
                 billed, outvars>>

-----------------------------------------------------------------------------
(* The goroutine of startReader.                                           *)
ReaderSends ==
  /\ reader = "sending" /\ Len(ch) < Cap
  /\ ch' = Append(ch, hold)
  /\ reader' = IF hold.k \in EndOf THEN "ended" ELSE "reading"
  /\ hold' = NoItem
  /\ UNCHANGED <<upvars, pc, buf, timer, quiet, flags, lastUsage, billed, outvars>>

\* A mutant: the goroutine does not watch done.
ReaderWaitsOn == FALSE

\* done was closed when forwardStream returned.
ReaderGivesUp ==
  /\ reader = "sending" /\ pc = "returned"
  /\ reader' = "ended" /\ hold' = NoItem
  /\ UNCHANGED <<upvars, ch, pc, buf, timer, quiet, flags, lastUsage, billed, outvars>>

-----------------------------------------------------------------------------
(* The handler.                                                            *)
stallFor(tool) == IF tool THEN ToolGap ELSE Gap

\* What the bytes of an item add to buf: comments nothing, a head nothing yet.
Complete(m) == IF m.k = "ping" \/ m.part = "head" THEN <<>> ELSE <<m>>

CanInject == ~finished /\ recoverable /\ ~injected

\* A write returns: the client takes it, or has left and it fails.  Neither the
\* handler nor the server sets a deadline, so until then the handler is stuck
\* in the write, and looks at no timer.
WriteReturns == reads \/ gone

\* Write a [DONE], alone or at the end of the injected tool call; a client
\* that has left gets nothing.
WriteDone == /\ pc' = "sealing"
             /\ IF gone THEN UNCHANGED <<seals, doneSent>>
                ELSE seals' = seals + 1 /\ doneSent' = TRUE

\* How every exit after the header ends the stream.
SealStream ==
  CASE CanInject -> WriteDone /\ injected' = ~gone
    [] ~CanInject /\ ~doneSent -> WriteDone /\ UNCHANGED injected
    [] OTHER -> pc' = "closing" /\ UNCHANGED <<seals, doneSent, injected>>

\* A write begun by Event or SealStream is over; an event that could not be
\* written ends the loop.
Written ==
  /\ pc \in {"writing", "sealing"} /\ WriteReturns
  /\ pc' = IF pc = "sealing" \/ gone THEN "closing" ELSE "drain"
  /\ UNCHANGED <<upvars, rdvars, buf, timer, quiet, flags, lastUsage, billed, outvars>>

\* Before the header: data is collected until some of it is SSE.
PreRead ==
  /\ pc = "preread" /\ ch # <<>>
  /\ ch' = Tail(ch)
  /\ LET m == Head(ch) IN
       IF m.k \in EndOf THEN pc' = "closing" /\ UNCHANGED buf
       ELSE /\ buf' = buf \o Complete(m)
            /\ pc' = IF m.k = "ping" THEN "preread" ELSE "check"
  /\ UNCHANGED <<upvars, reader, hold, timer, quiet, flags, lastUsage, billed, outvars>>

PreTimeout ==
  /\ pc = "preread" /\ timer = 0
  /\ pc' = "closing"
  /\ UNCHANGED <<upvars, rdvars, buf, timer, quiet, flags, lastUsage, billed, outvars>>

\* An error event in what was collected: another stack may do better.
\* Otherwise the header goes out and there is no way back.
Commit ==
  /\ pc = "check"
  /\ IF \E i \in DOMAIN buf : hasError(buf[i])
       THEN pc' = "closing" /\ UNCHANGED <<head, timer, quiet>>
       ELSE /\ WriteReturns
            /\ head' = TRUE /\ pc' = "drain" /\ timer' = stallFor(FALSE) /\ quiet' = 0
  /\ UNCHANGED <<upvars, rdvars, buf, flags, lastUsage, billed, recoverable,
                 gone, reads, seals>>

\* A mutant: every event's usage is added up.
ReportAdds(ev) == lastUsage' = lastUsage + ev.u

\* The last event with a usage counts.
Report(ev) == lastUsage' = ev.u

\* An error event after the header is never forwarded.
ErrorEvent ==
  /\ pc = "drain" /\ buf # <<>> /\ hasError(Head(buf))
  /\ buf' = Tail(buf)
  /\ Report(Head(buf))
  /\ IF CanInject THEN SealStream
     ELSE UNCHANGED <<seals, doneSent, injected, pc>>
  /\ UNCHANGED <<upvars, rdvars, timer, quiet, sawTool, finished, billed, recoverable,
                 gone, reads, head>>

\* The timer is set before the write, which may outlast it.
Event ==
  /\ pc = "drain" /\ buf # <<>> /\ ~hasError(Head(buf))
  /\ buf' = Tail(buf)
  /\ LET ev == Head(buf)
         tool == sawTool \/ ev.k = "tool"
     IN /\ Report(ev)
        /\ sawTool' = tool
        /\ finished' = (finished \/ ev.k \in Finish)
        /\ IF ev.k \in Advance
             THEN quiet' = 0 /\ timer' = stallFor(tool)
             ELSE UNCHANGED <<quiet, timer>>
        /\ doneSent' = (doneSent \/ ev.k = "done")
        /\ seals' = IF ev.k = "done" /\ ~gone THEN seals + 1 ELSE seals
        /\ pc' = "writing"
  /\ UNCHANGED <<upvars, rdvars, injected, billed, recoverable,
                 gone, reads, head>>

Drained ==
  /\ pc = "drain" /\ buf = <<>>
  /\ pc' = "select"
  /\ UNCHANGED <<upvars, rdvars, buf, timer, quiet, flags, lastUsage, billed, outvars>>

Receive ==
  /\ pc = "select" /\ ch # <<>>
  /\ ch' = Tail(ch)
  /\ LET m == Head(ch) IN
       IF m.k \in EndOf THEN SealStream /\ UNCHANGED buf
       ELSE /\ buf' = Complete(m) /\ pc' = "drain"
            /\ UNCHANGED <<seals, doneSent, injected>>
  /\ UNCHANGED <<upvars, reader, hold, timer, quiet, sawTool, finished, lastUsage,
                 billed, recoverable,
                 gone, reads, head>>

\* The timer fires; it may have been set before the last content came.
Fire ==
  /\ pc = "select" /\ timer = 0
  /\ IF quiet >= stallFor(sawTool)
       THEN SealStream /\ UNCHANGED timer
       ELSE /\ timer' = stallFor(sawTool) - quiet
            /\ UNCHANGED <<pc, seals, doneSent, injected>>
  /\ UNCHANGED <<upvars, rdvars, buf, quiet, sawTool, finished, lastUsage, billed,
                 recoverable, gone, reads, head>>

\* usageStats.add
Bill(u) == billed' = billed + u

\* forwardStream returns: the body is closed, then done, and the usage of a
\* stream that was begun is counted.
Return ==
  /\ pc = "closing"
  /\ pc' = "returned"
  /\ IF head THEN Bill(lastUsage) ELSE UNCHANGED billed
  /\ UNCHANGED <<upvars, rdvars, buf, timer, quiet, flags, lastUsage, outvars>>

-----------------------------------------------------------------------------
Tick ==
  /\ pc \notin {"sealing", "closing", "returned"} /\ timer > 0
  /\ timer' = timer - 1
  /\ quiet' = IF head /\ quiet < ToolGap THEN quiet + 1 ELSE quiet
  /\ UNCHANGED <<upvars, rdvars, pc, buf, flags, lastUsage, billed, outvars>>

ClientLeaves ==
  /\ ~gone /\ gone' = TRUE
  /\ UNCHANGED <<upvars, rdvars, pc, buf, timer, quiet, flags, lastUsage, billed,
                 recoverable, reads, head, seals>>

\* The client stops reading while its buffers are full, or goes on.
ClientReads(b) ==
  /\ ~gone /\ reads = ~b /\ reads' = b
  /\ UNCHANGED <<upvars, rdvars, pc, buf, timer, quiet, flags, lastUsage, billed,
                 recoverable, gone, head, seals>>

Handler ==
  \/ PreRead \/ Commit \/ ErrorEvent \/ Event \/ Drained \/ Receive
  \/ Written \/ Return

Next ==
  \/ \E k \in Advance \union {"beat", "ping", "error"}, p \in {"whole", "head", "tail"} : Send(k, p)
  \/ \E e \in EndOf : Stop(e)
  \/ ReaderSends \/ ReaderGivesUp
  \/ Handler \/ PreTimeout \/ Fire
  \/ Tick \/ ClientLeaves \/ \E b \in BOOLEAN : ClientReads(b)

\* Goroutines run and time passes.  A select with two ready cases takes
\* either at random, so a timer that fires again and again is taken: strong
\* fairness.  A body that was closed makes its reader fail.  Of the upstream
\* nothing is assumed; of the client, that it does not stay connected for ever
\* without reading, and that a write it gives room to again and again ends.
\* The code has no write deadline that would make up for that.
Fairness ==
  /\ SF_vars(Handler) /\ WF_vars(Tick)
  /\ WF_vars(ClientReads(TRUE))
  /\ SF_vars(PreTimeout) /\ SF_vars(Fire)
  /\ WF_vars(ReaderSends) /\ WF_vars(ReaderGivesUp)
  /\ WF_vars(pc = "returned" /\ Stop("err"))

Spec == Init /\ [][Next]_vars /\ Fairness

-----------------------------------------------------------------------------
(* Properties.                                                             *)

\* forwardStream keeps the promise of RelayPromise: a stack is given up only
\* before the first byte, a stream is ended by one [DONE] and no more, and
\* the handler returns even when the upstream only sends events without
\* content for ever, provided the client reads on, however slowly, or leaves
\* (local.go:155-156, 239-241, 1231-1232).
Promise == INSTANCE RelayPromise WITH
  left <- gone,
  back <- IF pc # "returned" THEN "none" ELSE IF head THEN "served" ELSE "retry"

KeepsPromise == Promise!Spec

\* The goroutine that reads the body does not outlive the handler, be the
\* channel full or the upstream silent (local.go:255-290).
ReaderEnds == (pc = "returned") ~> (reader = "ended")

\* The tokens of a stream are counted once, as its last report, not once
\* per event: the reports are cumulative (local.go:1182-1186).
BilledOnce ==
  /\ billed <= sent
  /\ pc = "returned" /\ head => billed = lastUsage

\* Types, and the bound on the channel.
TypeOK ==
  /\ Len(ch) <= Cap
  /\ timer \in 0..ToolGap \union 0..PreWait /\ quiet \in 0..ToolGap
  /\ pc \in {"preread", "check", "drain", "select", "writing", "sealing", "closing",
             "returned"}
  /\ head => pc \notin {"preread", "check"}
  /\ reader \in {"reading", "sending", "ended"}
=============================================================================
