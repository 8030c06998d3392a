---------------------------- MODULE SignalServer ----------------------------
(***************************************************************************)
(* The PeerJS signaling server of internal/go-peerserver/signalserver.go,  *)
(* together with its room directory (Discovery).                           *)
(*                                                                         *)
(* Every WebSocket connection has one goroutine: HandleWS until the        *)
(* registration is done, then readLoop, which routes what the client sends *)
(* and cleans up when a read fails.  The table of clients and the queues    *)
(* are guarded by s.mu; the writes to a connection, and its closing, by     *)
(* the connection's sendMu.  Each action is one critical section or one     *)
(* write, so a write can be slow, fail, and overlap with anything else.     *)
(*                                                                         *)
(* OFFER, ANSWER and CANDIDATE are all "signal"; LEAVE and EXPIRE are       *)
(* "leave".  A HEARTBEAT only refreshes the read deadline; deadlines, like  *)
(* crashes and half-open connections, are steps of the environment.  The   *)
(* notices a client receives about others are not recorded, the effect of   *)
(* writing them is.                                                         *)
(***************************************************************************)
EXTENDS Discovery, Sequences

CONSTANTS
  Conns,      \* connections (*client); each is used once
  Tokens,     \* tokens of the clients
  Whitelist,  \* tokenWhitelist; empty: every token is accepted
  Signals,    \* identities of the messages that clients send
  Inputs,     \* the messages that clients may send
  MaxQueued,  \* maxQueuedPerDst
  Nil         \* none

\* What a client sends.  Heartbeats and the like have no destination.
Messages == [kind : {"signal", "leave"}, sig : Signals, dst : Ids \cup {Nil}]

ASSUME SignalAssumption ==
  /\ Inputs \subseteq Messages
  /\ Whitelist \subseteq Tokens
  /\ MaxQueued \in Nat \ {0}
  /\ Nil \notin Conns \cup Ids \cup Tokens
  /\ "OPEN" \notin Signals

VARIABLES
  clients, \* clients[i]: the connection registered under id i
  queues,  \* queues[i]: what waits for i, oldest first; see Unexpired
  mu,      \* the connection whose goroutine holds s.mu across steps
  pc,      \* pc[c]: where the goroutine of c is
  id,      \* id[c]: the id c connected with
  token,   \* token[c]: the token c connected with
  link,    \* link[c]: how its socket is, see below
  job,     \* job[c]: the message that readLoop is routing
  target,  \* target[c]: the connection found for it
  batch,   \* batch[c]: what flushQueue still has to replay
  victims, \* victims[c]: the connections to be sent a LEAVE
  writing, \* writing[c]: the connection whose sendMu the goroutine of c holds
  got,     \* got[c]: what has been written to c, notices left out
  sent     \* the messages clients have sent

tables == <<clients, queues, mu>>
procs == <<pc, id, token, job, target, batch, victims>>
wires == <<link, writing, got, sent>>
sigVars == <<tables, procs, wires>>
vars == <<sigVars, discVars>>

Init ==
  /\ DiscInit
  /\ clients = [i \in Ids |-> Nil]
  /\ queues = [i \in Ids |-> <<>>]
  /\ mu = Nil
  /\ pc = [c \in Conns |-> "fresh"]
  /\ id = [c \in Conns |-> Nil]
  /\ token = [c \in Conns |-> Nil]
  /\ link = [c \in Conns |-> "up"]
  /\ job = [c \in Conns |-> Nil]
  /\ target = [c \in Conns |-> Nil]
  /\ batch = [c \in Conns |-> <<>>]
  /\ victims = [c \in Conns |-> {}]
  /\ writing = [c \in Conns |-> Nil]
  /\ got = [c \in Conns |-> <<>>]
  /\ sent = {}

\* A socket is "up"; "stuck": a write has failed, so all writes will; "down": the
\* peer is gone, so reads will fail; "dead": both; or "closed" by the server.
Writable == {"up", "down"}
Unreadable == {"down", "dead", "closed"}

Goto(c, l) == pc' = [pc EXCEPT ![c] = l]

Registered == {clients[i] : i \in Ids} \ {Nil}

\* What is left of the queue q when its n oldest messages have expired.  All
\* messages live for queueTTL, so they expire in the order in which they were
\* queued; how many have, only the steps that look at a queue find out.
Unexpired(q, n) == SubSeq(q, n + 1, Len(q))

\* Nobody is writing to d: its sendMu is free.
Idle(d) == \A c \in Conns : writing[c] # d

-----------------------------------------------------------------------------
(* HandleWS: registration.                                                 *)

\* The first critical section.  An id that is in use under another token is
\* refused; under the same token the old connection has to be closed first,
\* which needs its sendMu, and s.mu stays locked meanwhile.
Connect(c, i, t) ==
  /\ pc[c] = "fresh" /\ mu = Nil
  /\ Whitelist = {} \/ t \in Whitelist
  /\ id' = [id EXCEPT ![c] = i]
  /\ token' = [token EXCEPT ![c] = t]
  /\ \/ /\ clients[i] = Nil
        /\ clients' = [clients EXCEPT ![i] = c]
        /\ Goto(c, "open")
        /\ UNCHANGED <<mu, link>>
     \/ /\ clients[i] # Nil /\ token[clients[i]] # t
        /\ link' = [link EXCEPT ![c] = "closed"]
        /\ Goto(c, "gone")
        /\ UNCHANGED <<clients, mu>>
     \/ /\ clients[i] # Nil /\ token[clients[i]] = t
        /\ mu' = c
        /\ Goto(c, "takeover")
        /\ UNCHANGED <<clients, link>>
  /\ UNCHANGED <<discVars, queues, job, target, batch, victims, writing, got, sent>>

\* A mutant of Takeover: the old connection is replaced but stays open.
TakeoverLeavesOpen(c) ==
  /\ pc[c] = "takeover"
  /\ Idle(clients[id[c]])
  /\ clients' = [clients EXCEPT ![id[c]] = c]
  /\ mu' = Nil
  /\ Goto(c, "open")
  /\ UNCHANGED <<discVars, link, queues, id, token, job, target, batch, victims,
                 writing, got, sent>>

\* existing.closeConn(), and the new connection takes its place.
Takeover(c) ==
  LET old == clients[id[c]] IN
  /\ pc[c] = "takeover"
  /\ Idle(old)
  /\ link' = [link EXCEPT ![old] = "closed"]
  /\ clients' = [clients EXCEPT ![id[c]] = c]
  /\ mu' = Nil
  /\ Goto(c, "open")
  /\ UNCHANGED <<discVars, queues, id, token, job, target, batch, victims,
                 writing, got, sent>>

\* flushQueue takes the queue, and drops what has expired.
Flush(c) ==
  /\ pc[c] = "flush" /\ mu = Nil
  /\ \E n \in 0..Len(queues[id[c]]) :
       batch' = [batch EXCEPT ![c] = Unexpired(queues[id[c]], n)]
  /\ queues' = [queues EXCEPT ![id[c]] = <<>>]
  /\ Goto(c, IF batch'[c] = <<>> THEN "read" ELSE "replay")
  /\ UNCHANGED <<discVars, clients, mu, wires, id, token, job, target, victims>>

-----------------------------------------------------------------------------
(* send: a goroutine locks sendMu, writes for up to ten seconds, unlocks.  *)

\* The connections that the goroutine of c is to write to now.
Addressees(c) ==
  CASE pc[c] \in {"open", "replay"} -> {c}
    [] pc[c] \in {"forward", "tell"} -> {target[c]}
    [] pc[c] \in {"notify", "goodbye"} -> victims[c]
    [] OTHER -> {}

BeginSend(c, d) ==
  /\ d \in Addressees(c)
  /\ writing[c] = Nil /\ Idle(d)
  /\ writing' = [writing EXCEPT ![c] = d]
  /\ UNCHANGED <<discVars, tables, procs, link, got, sent>>

\* The write that c has under way ends.
Written(c) ==
  /\ link[writing[c]] \in Writable
  /\ writing' = [writing EXCEPT ![c] = Nil]
  /\ UNCHANGED link

WriteFailed(c) ==
  /\ writing' = [writing EXCEPT ![c] = Nil]
  /\ link' = [link EXCEPT ![writing[c]] =
                 CASE @ = "up" -> "stuck" [] @ = "down" -> "dead" [] OTHER -> @]

Deliver(d, x) == got' = [got EXCEPT ![d] = Append(@, x)]

\* HandleWS sends OPEN and goes on whatever comes of it.
SendOpen(c) ==
  /\ pc[c] = "open" /\ writing[c] # Nil
  /\ \/ Written(c) /\ Deliver(c, "OPEN")
     \/ WriteFailed(c) /\ UNCHANGED got
  /\ Goto(c, "flush")
  /\ UNCHANGED <<discVars, tables, id, token, job, target, batch, victims, sent>>

\* One queued message; a failure is ignored.
Replay(c) ==
  /\ pc[c] = "replay" /\ writing[c] # Nil
  /\ \/ Written(c) /\ Deliver(c, Head(batch[c]))
     \/ WriteFailed(c) /\ UNCHANGED got
  /\ batch' = [batch EXCEPT ![c] = Tail(@)]
  /\ Goto(c, IF batch'[c] = <<>> THEN "read" ELSE "replay")
  /\ UNCHANGED <<discVars, tables, id, token, job, target, victims, sent>>

\* The message that is being routed is dealt with.
Routed(c) ==
  /\ job' = [job EXCEPT ![c] = Nil]
  /\ target' = [target EXCEPT ![c] = Nil]
  /\ Goto(c, "read")

\* A mutant of Forward: what was forwarded is queued as well.
ForwardQueuesToo(c) ==
  /\ pc[c] = "forward" /\ writing[c] # Nil
  /\ \/ /\ Written(c)
        /\ Deliver(target[c], job[c].sig)
        /\ Goto(c, "enqueue")
        /\ UNCHANGED job
     \/ /\ WriteFailed(c)
        /\ Goto(c, "deadDst")
        /\ UNCHANGED <<got, job>>
  /\ UNCHANGED <<discVars, tables, id, token, target, batch, victims, sent>>

\* The live forward of route.
Forward(c) ==
  /\ pc[c] = "forward" /\ writing[c] # Nil
  /\ \/ /\ Written(c)
        /\ Deliver(target[c], job[c].sig)
        /\ Routed(c)
     \/ /\ WriteFailed(c)
        /\ Goto(c, "deadDst")
        /\ UNCHANGED <<got, job, target>>
  /\ UNCHANGED <<discVars, tables, id, token, batch, victims, sent>>

\* A LEAVE to one of the victims, by handleDeadDst and by removeClient.
SendLeave(c) ==
  /\ pc[c] \in {"notify", "goodbye"} /\ writing[c] # Nil
  /\ Written(c) \/ WriteFailed(c)
  /\ victims' = [victims EXCEPT ![c] = @ \ {writing[c]}]
  /\ UNCHANGED <<discVars, tables, pc, id, token, job, target, batch, got, sent>>

\* The extra LEAVE to the source of a message that could not be delivered.
TellSource(c) ==
  /\ pc[c] = "tell" /\ writing[c] # Nil
  /\ Written(c) \/ WriteFailed(c)
  /\ Routed(c)
  /\ UNCHANGED <<discVars, tables, id, token, batch, victims, got, sent>>

-----------------------------------------------------------------------------
(* readLoop and route.                                                     *)

\* A message arrives.  It may have been read ahead, so it can still come from
\* a connection that is broken or that was closed.
Receive(c, x) ==
  /\ pc[c] = "read"
  /\ x.sig \notin sent
  /\ sent' = sent \cup {x.sig}
  /\ job' = [job EXCEPT ![c] = x]
  /\ Goto(c, "route")
  /\ UNCHANGED <<discVars, tables, id, token, target, batch, victims, link,
                 writing, got>>

\* The first section of route looks the destination up.
Route(c) ==
  LET x == job[c] IN
  /\ pc[c] = "route" /\ mu = Nil
  /\ \/ /\ x.dst # Nil /\ clients[x.dst] # Nil
        /\ target' = [target EXCEPT ![c] = clients[x.dst]]
        /\ Goto(c, "forward")
        /\ UNCHANGED job
     \/ /\ x.dst # Nil /\ clients[x.dst] = Nil /\ x.kind = "signal"
        /\ Goto(c, "enqueue")
        /\ UNCHANGED <<job, target>>
     \/ /\ x.dst # Nil => clients[x.dst] = Nil /\ x.kind = "leave"
        /\ Routed(c)
  /\ UNCHANGED <<discVars, tables, wires, id, token, batch, victims>>

\* The last n elements of s.
LastOf(s, n) == IF Len(s) <= n THEN s ELSE SubSeq(s, Len(s) - n + 1, Len(s))

\* The second one queues the message, without looking again.
Enqueue(c) ==
  LET i == job[c].dst IN
  /\ pc[c] = "enqueue" /\ mu = Nil
  /\ queues' = [queues EXCEPT ![i] =
       LastOf(Append(@, job[c].sig), MaxQueued)]
  /\ Routed(c)
  /\ UNCHANGED <<discVars, clients, mu, wires, id, token, batch, victims>>

-----------------------------------------------------------------------------
(* handleDeadDst: the destination was registered, but the write failed.    *)

DropDead(c) ==
  LET i == job[c].dst IN
  /\ pc[c] = "deadDst" /\ mu = Nil
  /\ \/ /\ clients[i] = target[c]
        /\ clients' = [clients EXCEPT ![i] = Nil]
        /\ victims' = [victims EXCEPT ![c] = Registered \ {target[c]}]
        /\ Forget(i)
        /\ Goto(c, "closeDst")
        /\ UNCHANGED <<job, target>>
     \/ /\ clients[i] # target[c]
        /\ Routed(c)
        /\ UNCHANGED <<discVars, clients, victims>>
  /\ UNCHANGED <<queues, mu, wires, id, token, batch>>

CloseDead(c) ==
  /\ pc[c] = "closeDst" /\ Idle(target[c])
  /\ link' = [link EXCEPT ![target[c]] = "closed"]
  /\ Goto(c, "notify")
  /\ UNCHANGED <<discVars, tables, id, token, job, target, batch, victims,
                 writing, got, sent>>

\* All victims were told; the source of the message, if it is still
\* registered and did not write to itself, is told once more.
FindSource(c) ==
  LET src == clients[id[c]] IN
  /\ pc[c] = "notify" /\ victims[c] = {}
  /\ id[c] # job[c].dst => mu = Nil
  /\ \/ /\ id[c] # job[c].dst /\ src # Nil
        /\ target' = [target EXCEPT ![c] = src]
        /\ Goto(c, "tell")
        /\ UNCHANGED job
     \/ /\ id[c] # job[c].dst => src = Nil
        /\ Routed(c)
  /\ UNCHANGED <<discVars, tables, wires, id, token, batch, victims>>

-----------------------------------------------------------------------------
(* The end of readLoop: removeClient, then closeConn.                      *)

ReadFails(c) ==
  /\ pc[c] = "read" /\ link[c] \in Unreadable
  /\ Goto(c, "cleanup")
  /\ UNCHANGED <<discVars, tables, wires, id, token, job, target, batch, victims>>

\* A mutant of RemoveClient: it does not look whose registration it removes.
RemoveAnyClient(c) ==
  /\ pc[c] = "cleanup" /\ mu = Nil
  /\ clients' = [clients EXCEPT ![id[c]] = Nil]
  /\ victims' = [victims EXCEPT ![c] = Registered \ {clients[id[c]]}]
  /\ Forget(id[c])
  /\ Goto(c, "goodbye")
  /\ UNCHANGED <<queues, mu, wires, id, token, job, target, batch>>

\* A mutant of RemoveClient: the table is left as it is.
RemoveNoClient(c) ==
  /\ pc[c] = "cleanup" /\ mu = Nil
  /\ Goto(c, "close")
  /\ UNCHANGED <<discVars, tables, wires, id, token, job, target, batch, victims>>

RemoveClient(c) ==
  /\ pc[c] = "cleanup" /\ mu = Nil
  /\ \/ /\ clients[id[c]] = c
        /\ clients' = [clients EXCEPT ![id[c]] = Nil]
        /\ victims' = [victims EXCEPT ![c] = Registered \ {c}]
        /\ Forget(id[c])
        /\ Goto(c, "goodbye")
     \/ /\ clients[id[c]] # c
        /\ Goto(c, "close")
        /\ UNCHANGED <<discVars, clients, victims>>
  /\ UNCHANGED <<queues, mu, wires, id, token, job, target, batch>>

Close(c) ==
  /\ \/ pc[c] = "goodbye" /\ victims[c] = {}
     \/ pc[c] = "close"
  /\ Idle(c)
  /\ link' = [link EXCEPT ![c] = "closed"]
  /\ Goto(c, "gone")
  /\ UNCHANGED <<discVars, tables, id, token, job, target, batch, victims,
                 writing, got, sent>>

-----------------------------------------------------------------------------
(* The environment and the sweeper.                                        *)

\* The peer crashes, closes its side, or is silent until the read deadline.
Break(c) ==
  /\ pc[c] # "fresh" /\ link[c] \in {"up", "stuck"}
  /\ link' = [link EXCEPT ![c] = IF @ = "up" THEN "down" ELSE "dead"]
  /\ UNCHANGED <<discVars, tables, procs, writing, got, sent>>

\* sweepQueues: expired messages go, and every queue of a client that is online.
SweepQueues ==
  /\ mu = Nil
  /\ \E i \in Ids : queues[i] # <<>>
  /\ \E n \in [Ids -> 0..MaxQueued] :
       queues' = [i \in Ids |-> IF clients[i] # Nil THEN <<>>
                                ELSE Unexpired(queues[i], n[i])]
  /\ UNCHANGED <<discVars, clients, mu, procs, wires>>

Directory ==
  /\ DiscNext
  /\ mu = Nil \/ now' # now
  /\ UNCHANGED sigVars

-----------------------------------------------------------------------------
\* What the goroutine of c does by itself.
Step(c) ==
  \/ Takeover(c) \/ Flush(c)
  \/ \E d \in Conns : BeginSend(c, d)
  \/ SendOpen(c) \/ Replay(c) \/ Forward(c) \/ SendLeave(c) \/ TellSource(c)
  \/ Route(c) \/ Enqueue(c)
  \/ DropDead(c) \/ CloseDead(c) \/ FindSource(c)
  \/ ReadFails(c) \/ RemoveClient(c) \/ Close(c)

\* All the connections of the instance have come and gone.
AllGone == (\A c \in Conns : pc[c] = "gone") /\ UNCHANGED vars

Next ==
  \/ \E c \in Conns :
       \/ \E i \in Ids, t \in Tokens : Connect(c, i, t)
       \/ \E x \in Inputs : Receive(c, x)
       \/ Break(c)
       \/ Step(c)
  \/ SweepQueues
  \/ Directory
  \/ AllGone

Spec == Init /\ [][Next]_vars

\* A write ends within ten seconds, Go's mutexes do not starve a goroutine and
\* the scheduler runs all of them.  No client has to send, crash or connect.
FairSpec == Spec /\ \A c \in Conns : SF_vars(Step(c))
-----------------------------------------------------------------------------
(* Properties.                                                             *)

\* The sets the variables range over.
Types ==
  /\ clients \in [Ids -> Conns \cup {Nil}]
  /\ queues \in [Ids -> Seq(Signals)]
  /\ mu \in Conns \cup {Nil}
  /\ pc \in [Conns -> {"fresh", "takeover", "open", "flush", "replay", "read",
                       "route", "forward", "enqueue", "deadDst", "closeDst",
                       "notify", "tell", "cleanup", "goodbye", "close", "gone"}]
  /\ id \in [Conns -> Ids \cup {Nil}]
  /\ token \in [Conns -> Tokens \cup {Nil}]
  /\ link \in [Conns -> {"up", "stuck", "down", "dead", "closed"}]
  /\ job \in [Conns -> Messages \cup {Nil}]
  /\ target \in [Conns -> Conns \cup {Nil}]
  /\ batch \in [Conns -> Seq(Signals)]
  /\ victims \in [Conns -> SUBSET Conns]
  /\ writing \in [Conns -> Conns \cup {Nil}]
  /\ got \in [Conns -> Seq(Signals \cup {"OPEN"})]
  /\ sent \subseteq Signals

\* The fields that go with a program counter.
Fields ==
  \A c \in Conns :
    /\ pc[c] # "fresh" => id[c] \in Ids /\ token[c] \in Tokens
    /\ pc[c] \in {"route", "forward", "enqueue", "deadDst", "closeDst", "notify", "tell"}
         => job[c] \in Messages
    /\ pc[c] \in {"forward", "enqueue", "deadDst", "closeDst", "notify", "tell"}
         => job[c].dst \in Ids
    /\ pc[c] \in {"forward", "deadDst", "closeDst", "tell"} => target[c] \in Conns
    /\ pc[c] = "replay" => batch[c] # <<>>
    /\ writing[c] # Nil => writing[c] \in Addressees(c)
    /\ pc[c] = "takeover" <=> mu = c

\* Type correctness of the server.
TypeOK == DiscTypeOK /\ Types /\ Fields

\* The goroutine of c is past the registration and has not finished.
Serving(c) ==
  pc[c] \notin {"fresh", "takeover", "gone"}

\* A connection that is not the registered one of its id is closed, or about to
\* be: by its own goroutine, or by the one that found it dead.  No connection
\* that was replaced, or dropped from the table, goes on receiving for the id
\* (signalserver.go:392-408, 478-507, 417-421).
ReplacedIsClosed ==
  \A c \in Conns :
    Serving(c) /\ clients[id[c]] # c =>
      \/ link[c] = "closed"
      \/ pc[c] \in {"goodbye", "close"}
      \/ \E d \in Conns : pc[d] = "closeDst" /\ target[d] = c

\* The table sends every id to a connection that asked for that id with an
\* accepted token and that is still being served.
TableIsSound ==
  \A i \in Ids :
    clients[i] # Nil =>
      /\ id[clients[i]] = i
      /\ Serving(clients[i]) /\ pc[clients[i]] \notin {"goodbye", "close"}
      /\ Whitelist # {} => token[clients[i]] \in Whitelist

\* A queue never holds more than maxQueuedPerDst messages.
QueueBound == \A i \in Ids : Len(queues[i]) <= MaxQueued

\* A message is written to one connection at most, and once, whether it was
\* forwarded or queued and replayed, even when its destination connects,
\* is replaced or disconnects meanwhile.
AtMostOnce ==
  \A c, d \in Conns : \A m \in 1..Len(got[c]), n \in 1..Len(got[d]) :
    got[c][m] = got[d][n] /\ got[c][m] # "OPEN" => c = d /\ m = n

\* What a step may do to the registration, and to the directory record, of an
\* id whose connection works: another connection with the same token may take
\* the registration over, and nothing else happens to it.  The record goes
\* with a leave or a sweep, never with a connection that is not registered.
WorkingIsKept ==
  \A i \in Ids :
    LET c == clients[i] IN
    c # Nil /\ link[c] = "up" =>
      /\ clients'[i] # c => clients'[i] # Nil /\ token[clients'[i]] = token[c]
      /\ stats[i] # NoStats /\ stats'[i] = NoStats => DiscNext

\* The late cleanup of an old connection of an id, by its own readLoop or by a
\* goroutine that failed to write to it, does not touch the connection that has
\* taken the id over (signalserver.go:480-483, 539-542).
OldCleanupIsHarmless == [][WorkingIsKept]_vars

\* A connection whose peer is gone is closed and leaves the table, whatever
\* slow or dead connections the goroutines meet on the way.
BrokenIsRemoved ==
  \A c \in Conns :
    link[c] \in Unreadable ~>
      pc[c] = "gone" /\ link[c] = "closed" /\ \A i \in Ids : clients[i] # c

=============================================================================
