----------------------------- MODULE HttpTunnel -----------------------------
(***************************************************************************)
(* HTTP through a data channel (cmd/webrtc-proxy/main.go).  On the client  *)
(* side one handler per HTTP request is a stream of frames; on the serve   *)
(* side each stream has a goroutine that performs the request.  Frames of  *)
(* all streams arrive in order, in one callback per side, which may block  *)
(* on the queue of one stream and then holds up all of them.               *)
(*                                                                         *)
(* The module starts with an open channel; how the client gets one is the  *)
(* subject of TunnelConnect.  Bodies are the sequences 1, 2, ... of their  *)
(* chunks.  The data channel is reliable and ordered until it closes.      *)
(***************************************************************************)
EXTENDS Naturals, Sequences

CONSTANTS
  Streams,   \* stream ids, one per HTTP request
  Up,        \* chunks of the request body of each stream
  Down,      \* bound: chunks of its response body
  QueueMax,  \* reqBodyQueueMax
  BodyCap    \* bodyChCap

ASSUME TunnelAssumption ==
  /\ Up \in [Streams -> Nat] /\ Down \in [Streams -> Nat]
  /\ QueueMax \in Nat \ {0} /\ BodyCap \in Nat \ {0}

VARIABLES
  dc,        \* the data channel: "open" or "closed"
  toServe,   \* frames on their way to the serve side
  toClient,  \* and to the client side
  \* client side
  h,         \* pc of the handler of a stream
  sentBody,  \* chunks of the request body that were sent
  cut,       \* the browser broke the upload off
  known,     \* streams in client.streams
  headCh, bodyCh, done,
  written,   \* chunks of the response the browser got
  cbC,       \* client callback: "free", or the stream it waits for
  \* serve side
  f,         \* pc of the goroutine of a stream
  queue, eof, \* its reqBodyQueue, aborted when the goroutine returned
  live,      \* streams in serve.streams
  got,       \* chunks of the body the target read
  gotEof,    \* and it read the end
  respSent,  \* chunks of the response that were sent
  cbS        \* serve callback: "free", or the stream it waits for

chanvars == <<dc, toServe, toClient>>
cvars == <<h, sentBody, cut, known, headCh, bodyCh, done, written, cbC>>
svars == <<f, queue, eof, live, got, gotEof, respSent, cbS>>
vars == <<chanvars, cvars, svars>>

Frame(s, typ, n) == [id |-> s, typ |-> typ, n |-> n]
NoFrame == Frame("none", "none", 0)

Init ==
  /\ dc = "open" /\ toServe = <<>> /\ toClient = <<>>
  /\ h = [s \in Streams |-> "idle"]
  /\ sentBody = [s \in Streams |-> 0]
  /\ cut = [s \in Streams |-> FALSE]
  /\ known = {}
  /\ headCh = [s \in Streams |-> FALSE]
  /\ bodyCh = [s \in Streams |-> <<>>]
  /\ done = [s \in Streams |-> FALSE]
  /\ written = [s \in Streams |-> <<>>]
  /\ cbC = NoFrame
  /\ f = [s \in Streams |-> "none"]
  /\ queue = [s \in Streams |-> <<>>]
  /\ eof = [s \in Streams |-> FALSE]
  /\ live = {}
  /\ got = [s \in Streams |-> <<>>]
  /\ gotEof = [s \in Streams |-> FALSE]
  /\ respSent = [s \in Streams |-> 0]
  /\ cbS = NoFrame

-----------------------------------------------------------------------------
\* dc.Send fails on a channel that is closed; otherwise it never blocks.
ToServe(fr)   == toServe' = IF dc = "open" THEN Append(toServe, fr) ELSE toServe
ToClient(frs) == toClient' = IF dc = "open" THEN toClient \o frs ELSE toClient

Goto(s, pc) == h' = [h EXCEPT ![s] = pc]

\* The handler returns: its stream is forgotten, with what is still in its
\* channels, and its done closed.
Finish(s) ==
  /\ Goto(s, "returned")
  /\ headCh' = [headCh EXCEPT ![s] = FALSE]
  /\ bodyCh' = [bodyCh EXCEPT ![s] = <<>>]
  /\ known' = known \ {s}
  /\ done' = [done EXCEPT ![s] = TRUE]

-----------------------------------------------------------------------------
(* client.handler                                                          *)
\* client.conn is nil some time after the channel closed: answered at once.
Start(s) ==
  /\ h[s] = "idle"
  /\ \/ Goto(s, "head") /\ known' = known \union {s}
     \/ dc = "closed" /\ Goto(s, "returned") /\ UNCHANGED known
  /\ UNCHANGED <<chanvars, svars, sentBody, cut, headCh, bodyCh, done, written, cbC>>

SendHead(s) ==
  /\ h[s] = "head"
  /\ ToServe(Frame(s, "head", 0))
  /\ IF dc = "open"
       THEN Goto(s, "body") /\ UNCHANGED <<known, headCh, bodyCh, done>>
       ELSE Finish(s)
  /\ UNCHANGED <<dc, toClient, svars, sentBody, cut, written, cbC>>

\* The browser's next chunk; a send that fails ends the handler.
SendBody(s) ==
  /\ h[s] = "body" /\ sentBody[s] < Up[s]
  /\ ToServe(Frame(s, "body", sentBody[s] + 1))
  /\ sentBody' = [sentBody EXCEPT ![s] = @ + 1]
  /\ IF dc = "open" THEN UNCHANGED <<h, known, headCh, bodyCh, done>> ELSE Finish(s)
  /\ UNCHANGED <<dc, toClient, svars, cut, written, cbC>>

\* The body of the request ends, or cannot be read any further; so does it
\* for the other side, whatever the send returns.
SendEnd(s) ==
  /\ h[s] = "body"
  /\ cut' = [cut EXCEPT ![s] = sentBody[s] < Up[s]]
  /\ ToServe(Frame(s, "end", 0))
  /\ Goto(s, "wait")
  /\ UNCHANGED <<dc, toClient, svars, sentBody, known, headCh, bodyCh, done, written, cbC>>

TakeHead(s) ==
  /\ h[s] = "wait" /\ headCh[s]
  /\ headCh' = [headCh EXCEPT ![s] = FALSE]
  /\ Goto(s, "relay")
  /\ UNCHANGED <<chanvars, svars, sentBody, cut, known, bodyCh, done, written, cbC>>

\* done is closed although no header was taken yet, or two minutes are over.
NoHead(s) ==
  /\ h[s] = "wait"
  /\ Finish(s)
  /\ UNCHANGED <<chanvars, svars, sentBody, cut, written, cbC>>

Write(s) == written' = [written EXCEPT ![s] = Append(@, Head(bodyCh[s]))]

RelayBody(s) ==
  /\ h[s] \in {"relay", "select"} /\ bodyCh[s] # <<>>
  /\ Write(s) /\ Goto(s, "relay")
  /\ bodyCh' = [bodyCh EXCEPT ![s] = Tail(@)]
  /\ UNCHANGED <<chanvars, svars, sentBody, cut, known, headCh, done, cbC>>

NothingPending(s) ==
  /\ h[s] = "relay" /\ bodyCh[s] = <<>>
  /\ Goto(s, "select")
  /\ UNCHANGED <<chanvars, svars, sentBody, cut, known, headCh, bodyCh, done,
                 written, cbC>>

\* The second select takes done, though chunks may have come since the first
\* one found none; one of them is written.
LastChunk(s) ==
  /\ h[s] = "select" /\ done[s]
  /\ IF bodyCh[s] # <<>> THEN Write(s) ELSE UNCHANGED written
  /\ Finish(s)
  /\ UNCHANGED <<chanvars, svars, sentBody, cut, cbC>>

\* Five minutes without a chunk.
RelayTimeout(s) ==
  /\ h[s] = "select"
  /\ Finish(s)
  /\ UNCHANGED <<chanvars, svars, sentBody, cut, written, cbC>>

-----------------------------------------------------------------------------
(* client.onMessage                                                        *)
Deliver(fr) == bodyCh' = [bodyCh EXCEPT ![fr.id] = Append(@, fr.n)]

ClientReceives ==
  /\ cbC = NoFrame /\ toClient # <<>>
  /\ toClient' = Tail(toClient)
  /\ LET fr == Head(toClient)
         s  == fr.id
     IN CASE fr.typ = "head" /\ s \in known ->
               /\ headCh' = [headCh EXCEPT ![s] = TRUE]
               /\ UNCHANGED <<bodyCh, done, cbC>>
          [] fr.typ = "body" /\ s \in known ->
               /\ IF Len(bodyCh[s]) < BodyCap
                    THEN Deliver(fr) /\ UNCHANGED cbC
                    ELSE cbC' = fr /\ UNCHANGED bodyCh
               /\ UNCHANGED <<headCh, done>>
          [] fr.typ = "end" /\ s \in known ->
               /\ done' = [done EXCEPT ![s] = TRUE]
               /\ UNCHANGED <<headCh, bodyCh, cbC>>
          [] OTHER -> UNCHANGED <<headCh, bodyCh, done, cbC>>
  /\ UNCHANGED <<dc, toServe, svars, h, sentBody, cut, known, written>>

\* A mutant: the callback waits for room only.
ClientUnblocksRoomOnly ==
  /\ cbC # NoFrame /\ cbC' = NoFrame
  /\ cbC.id \in known /\ Len(bodyCh[cbC.id]) < BodyCap /\ Deliver(cbC)
  /\ UNCHANGED <<chanvars, svars, h, sentBody, cut, known, headCh, done,
                 written>>

\* A callback that found the channel full goes on when there is room again, or
\* drops the chunk when the stream is done; with both, either.
ClientUnblocks ==
  /\ cbC # NoFrame /\ cbC' = NoFrame
  /\ \/ cbC.id \in known /\ Len(bodyCh[cbC.id]) < BodyCap /\ Deliver(cbC)
     \/ done[cbC.id] /\ UNCHANGED bodyCh
  /\ UNCHANGED <<chanvars, svars, h, sentBody, cut, known, headCh, done,
                 written>>

-----------------------------------------------------------------------------
(* serve.onMessage and reqBodyQueue                                        *)
aborted(s) == f[s] = "returned"

push(fr) == queue' = [queue EXCEPT ![fr.id] = Append(@, fr.n)]

ServeReceives ==
  /\ cbS = NoFrame /\ toServe # <<>>
  /\ toServe' = Tail(toServe)
  /\ LET fr == Head(toServe)
         s  == fr.id
     IN CASE fr.typ = "head" ->
               /\ live' = live \union {s}
               /\ f' = [f EXCEPT ![s] = "do"]
               /\ UNCHANGED <<eof, queue, cbS>>
          [] fr.typ = "body" /\ s \in live ->
               /\ IF Len(queue[s]) < QueueMax
                    THEN push(fr) /\ UNCHANGED cbS
                    ELSE cbS' = fr /\ UNCHANGED queue
               /\ UNCHANGED <<live, f, eof>>
          [] fr.typ = "end" /\ s \in live ->
               eof' = [eof EXCEPT ![s] = TRUE] /\ UNCHANGED <<live, f, queue, cbS>>
          [] OTHER -> UNCHANGED <<live, f, eof, queue, cbS>>
  /\ UNCHANGED <<dc, toClient, cvars, got, gotEof, respSent>>

\* The callback waits for room in the queue, or for the stream to be cleared.
ServeUnblocks ==
  /\ cbS # NoFrame /\ cbS' = NoFrame
  /\ \/ aborted(cbS.id) /\ UNCHANGED queue
     \/ ~aborted(cbS.id) /\ Len(queue[cbS.id]) < QueueMax /\ push(cbS)
  /\ UNCHANGED <<chanvars, cvars, f, eof, live, got, gotEof, respSent>>

\* A mutant: the chunk that was read stays in the queue.
ReadKeeps(s) ==
  /\ f[s] \in {"do", "resp"} /\ ~gotEof[s] /\ Up[s] > 0
  /\ \/ /\ queue[s] # <<>>
        /\ got' = [got EXCEPT ![s] = Append(@, Head(queue[s]))]
        /\ UNCHANGED <<queue, gotEof>>
     \/ /\ queue[s] = <<>> /\ eof[s]
        /\ gotEof' = [gotEof EXCEPT ![s] = TRUE]
        /\ UNCHANGED <<got, queue>>
  /\ Len(got[s]) <= Up[s]
  /\ UNCHANGED <<chanvars, cvars, f, eof, live, respSent, cbS>>

\* A mutant: the end of the body is seen as soon as it was sent.
ReadEndEarly(s) ==
  /\ f[s] \in {"do", "resp"} /\ ~gotEof[s] /\ Up[s] > 0
  /\ \/ /\ queue[s] # <<>>
        /\ got' = [got EXCEPT ![s] = Append(@, Head(queue[s]))]
        /\ queue' = [queue EXCEPT ![s] = Tail(@)]
        /\ UNCHANGED gotEof
     \/ /\ eof[s]
        /\ gotEof' = [gotEof EXCEPT ![s] = TRUE]
        /\ UNCHANGED <<got, queue>>
  /\ UNCHANGED <<chanvars, cvars, f, eof, live, respSent, cbS>>

\* The transport reads the body of the request while it waits for, and even
\* while it gets, the response.
Read(s) ==
  /\ f[s] \in {"do", "resp"} /\ ~gotEof[s] /\ Up[s] > 0
  /\ \/ /\ queue[s] # <<>>
        /\ got' = [got EXCEPT ![s] = Append(@, Head(queue[s]))]
        /\ queue' = [queue EXCEPT ![s] = Tail(@)]
        /\ UNCHANGED gotEof
     \/ /\ queue[s] = <<>> /\ eof[s]
        /\ gotEof' = [gotEof EXCEPT ![s] = TRUE]
        /\ UNCHANGED <<got, queue>>
  /\ UNCHANGED <<chanvars, cvars, f, eof, live, respSent, cbS>>

-----------------------------------------------------------------------------
(* serve.forward                                                           *)
ForwardReturns(s) ==
  /\ f' = [f EXCEPT ![s] = "returned"]
  /\ live' = live \ {s}
  /\ queue' = [queue EXCEPT ![s] = <<>>]
  /\ eof' = [eof EXCEPT ![s] = FALSE]

\* client.Do fails, after five minutes at the latest.
DoFails(s) ==
  /\ f[s] = "do"
  /\ ToClient(<<Frame(s, "head", 0), Frame(s, "body", 1), Frame(s, "end", 0)>>)
  /\ ForwardReturns(s)
  /\ UNCHANGED <<dc, toServe, cvars, got, gotEof, respSent, cbS>>

TargetAnswers(s) ==
  /\ f[s] = "do"
  /\ ToClient(<<Frame(s, "head", 0)>>)
  /\ f' = [f EXCEPT ![s] = "resp"]
  /\ UNCHANGED <<dc, toServe, cvars, queue, eof, live, got, gotEof, respSent, cbS>>

RespBody(s) ==
  /\ f[s] = "resp" /\ respSent[s] < Down[s]
  /\ ToClient(<<Frame(s, "body", respSent[s] + 1)>>)
  /\ respSent' = [respSent EXCEPT ![s] = @ + 1]
  /\ UNCHANGED <<dc, toServe, cvars, f, queue, eof, live, got, gotEof, cbS>>

\* The body of the response ends, breaks, or takes longer than five minutes.
RespEnd(s) ==
  /\ f[s] = "resp"
  /\ ToClient(<<Frame(s, "end", 0)>>)
  /\ ForwardReturns(s)
  /\ UNCHANGED <<dc, toServe, cvars, got, gotEof, respSent, cbS>>

-----------------------------------------------------------------------------
\* The channel closes, frames on their way are lost.
Disconnect ==
  /\ dc = "open" /\ dc' = "closed"
  /\ toServe' = <<>> /\ toClient' = <<>>
  /\ UNCHANGED <<cvars, svars>>

Handler(s) ==
  \/ SendHead(s) \/ SendBody(s) \/ SendEnd(s)
  \/ TakeHead(s) \/ NoHead(s)
  \/ RelayBody(s) \/ NothingPending(s) \/ LastChunk(s) \/ RelayTimeout(s)

Forward(s) == DoFails(s) \/ RespEnd(s)

Next ==
  \/ \E s \in Streams : Start(s) \/ Handler(s)
  \/ ClientReceives \/ ClientUnblocks \/ ServeReceives \/ ServeUnblocks
  \/ \E s \in Streams : Read(s) \/ Forward(s) \/ TargetAnswers(s) \/ RespBody(s)
  \/ Disconnect

\* A handler goes on (the browser sends and reads), within the time-outs; so
\* does a forward, whose time-out covers the whole request.  Callbacks run.
Fairness ==
  /\ \A s \in Streams : WF_vars(Handler(s)) /\ WF_vars(Forward(s))
  /\ WF_vars(ClientReceives \/ ClientUnblocks)
  /\ WF_vars(ServeReceives \/ ServeUnblocks)

Spec == Init /\ [][Next]_vars /\ Fairness

-----------------------------------------------------------------------------
(* Properties.                                                             *)
Upto(n) == [i \in 1..n |-> i]

\* No chunk is lost, doubled or overtaken in the middle of a body, however
\* full the queues are: what arrives is always the beginning of what was
\* sent (main.go:109-115, 478-481).
BodiesInOrder ==
  \A s \in Streams : /\ written[s] = Upto(Len(written[s]))
                     /\ got[s] = Upto(Len(got[s]))

\* The target sees the end of a request body only when it has all of it,
\* unless the browser itself broke the upload off.
EndMeansWhole ==
  \A s \in Streams : gotEof[s] /\ ~cut[s] => Len(got[s]) = Up[s]

\* Nothing is left over: both sides forget every stream and no callback waits
\* for the queue of one for ever, also when the channel closed in the middle
\* and the frames it waits for were lost (main.go:113-115, 244-246, 400-401, 478-485).
NothingLeftOver == <>[](known = {} /\ live = {} /\ cbC = NoFrame /\ cbS = NoFrame)
=============================================================================
