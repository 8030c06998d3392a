---------------------------- MODULE RelayProofs ----------------------------
(***************************************************************************)
(* forwardStream implements the safety part of RelayPromise, for every     *)
(* capacity of the channel, all time-outs and streams of any length.  The  *)
(* promise that a stream is ended once rests on the [DONE] of the upstream *)
(* being in one place only: with the reader, in the channel, among the     *)
(* events not yet looked at, or already passed on.                         *)
(***************************************************************************)
EXTENDS StreamRelay, SequenceTheorems, TLAPS

KindsOfItems == {"text", "tool", "finish", "done", "beat", "ping", "error", "eof", "err", "none"}
Item == [k : KindsOfItems, part : {"whole", "head", "tail"}, u : Nat]

\* The [DONE] that comes out of an item.
IsDone(m) == m.k = "done" /\ m.part # "head"
Has(s) == \E i \in DOMAIN s : IsDone(s[i])
HasOne(s) == \A i, j \in DOMAIN s : IsDone(s[i]) /\ IsDone(s[j]) => i = j
\* No report of more tokens than n.
UpTo(s, n) == \A i \in DOMAIN s : s[i].u <= n
\* No head without its tail.
Ended(s) == \A i \in DOMAIN s : s[i].part # "head"

Types ==
  /\ hold \in Item /\ ch \in Seq(Item) /\ buf \in Seq(Item) /\ Ended(buf)
  /\ doneSent \in BOOLEAN /\ sent \in Nat /\ lastUsage \in Nat /\ billed \in Nat /\ seals \in Nat
  /\ pc \in {"preread", "check", "drain", "select", "writing", "sealing", "closing",
             "returned"}

Running == pc \notin {"sealing", "closing", "returned"}

OneDone ==
  /\ said # "done" => ~IsDone(hold) /\ ~Has(ch) /\ ~Has(buf)
  /\ half # "none" => said # "done"
  /\ reader # "sending" => ~IsDone(hold)
  /\ HasOne(ch) /\ HasOne(buf)
  /\ IsDone(hold) => ~Has(ch) /\ ~Has(buf)
  /\ Has(ch) => ~Has(buf)

SealedOnce ==
  /\ Running /\ doneSent => /\ finished /\ said = "done"
                            /\ ~IsDone(hold) /\ ~Has(ch) /\ ~Has(buf)
  /\ Running /\ ~doneSent => seals = 0
  /\ doneSent => seals = 1 \/ gone
  /\ pc \in {"preread", "check"} => ~head /\ ~doneSent
  /\ pc \in {"drain", "select", "writing", "sealing"} => head
  /\ ~head => seals = 0
  /\ pc \in {"sealing", "closing"} /\ head => seals = 1 \/ gone

Reports ==
  /\ hold.u <= sent /\ UpTo(ch, sent) /\ UpTo(buf, sent) /\ lastUsage <= sent
  /\ pc # "returned" => billed = 0
  /\ pc = "returned" => billed = IF head THEN lastUsage ELSE 0

RelayInv == Types /\ OneDone /\ SealedOnce /\ Reports

-----------------------------------------------------------------------------
(* Sequences of items.                                                     *)

\* What is true of a sequence is true of its tail.
LEMMA OfTail ==
  ASSUME NEW s \in Seq(Item), s # <<>>, NEW n \in Nat
  PROVE  /\ Head(s) \in Item /\ Tail(s) \in Seq(Item)
         /\ HasOne(s) => HasOne(Tail(s))
         /\ Has(Tail(s)) => Has(s)
         /\ IsDone(Head(s)) => Has(s)
         /\ HasOne(s) /\ IsDone(Head(s)) => ~Has(Tail(s))
         /\ UpTo(s, n) => UpTo(Tail(s), n) /\ Head(s).u <= n
         /\ Ended(s) => Ended(Tail(s)) /\ Head(s).part # "head"
<1>1. /\ Head(s) = s[1] /\ 1 \in DOMAIN s /\ Head(s) \in Item
      /\ Tail(s) \in Seq(Item) /\ Len(Tail(s)) = Len(s) - 1
      /\ \A i \in 1 .. Len(s) - 1 : Tail(s)[i] = s[i + 1] /\ i + 1 \in DOMAIN s
  BY HeadTailProperties
<1>2. DOMAIN Tail(s) = 1 .. Len(s) - 1 /\ DOMAIN s = 1 .. Len(s) /\ Len(s) \in Nat
  BY <1>1
<1>3. HasOne(s) => HasOne(Tail(s))
  BY <1>1, <1>2 DEF HasOne
<1>4. Has(Tail(s)) => Has(s)
  BY <1>1, <1>2 DEF Has
<1>5. IsDone(Head(s)) => Has(s)
  BY <1>1 DEF Has
<1>6. HasOne(s) /\ IsDone(Head(s)) => ~Has(Tail(s))
  BY <1>1, <1>2 DEF Has, HasOne
<1>7. UpTo(s, n) => UpTo(Tail(s), n) /\ Head(s).u <= n
  BY <1>1, <1>2 DEF UpTo
<1>8. Ended(s) => Ended(Tail(s)) /\ Head(s).part # "head"
  BY <1>1, <1>2 DEF Ended
<1> QED
  BY <1>1, <1>3, <1>4, <1>5, <1>6, <1>7, <1>8

\* An item at the end of a sequence.
LEMMA OfAppend ==
  ASSUME NEW s \in Seq(Item), NEW m \in Item, NEW n \in Nat
  PROVE  /\ Append(s, m) \in Seq(Item)
         /\ HasOne(s) /\ (IsDone(m) => ~Has(s)) => HasOne(Append(s, m))
         /\ Has(Append(s, m)) <=> Has(s) \/ IsDone(m)
         /\ UpTo(s, n) /\ m.u <= n => UpTo(Append(s, m), n)
         /\ Ended(s) /\ m.part # "head" => Ended(Append(s, m))
<1> DEFINE t == Append(s, m)
<1>1. /\ t \in Seq(Item) /\ Len(s) \in Nat /\ DOMAIN s = 1 .. Len(s)
      /\ DOMAIN t = 1 .. Len(s) + 1 /\ t[Len(s) + 1] = m
      /\ \A i \in 1 .. Len(s) : t[i] = s[i]
  BY AppendProperties
<1> HIDE DEF t
<1>2. HasOne(s) /\ (IsDone(m) => ~Has(s)) => HasOne(t)
  BY <1>1 DEF Has, HasOne
<1>3. Has(t) <=> Has(s) \/ IsDone(m)
  BY <1>1 DEF Has
<1>4. UpTo(s, n) /\ m.u <= n => UpTo(t, n)
  BY <1>1 DEF UpTo
<1>5. Ended(s) /\ m.part # "head" => Ended(t)
  BY <1>1 DEF Ended
<1> QED
  BY <1>1, <1>2, <1>3, <1>4, <1>5 DEF t

\* A bound on the reports holds for a larger number too.
LEMMA OfMore ==
  ASSUME NEW s \in Seq(Item), NEW n \in Nat, NEW k \in Nat, n <= k, UpTo(s, n)
  PROVE  UpTo(s, k)
<1> SUFFICES ASSUME NEW i \in DOMAIN s PROVE s[i].u <= k
  BY DEF UpTo
<1>1. s[i] \in Item /\ s[i].u <= n
  BY ElementOfSeq DEF UpTo
<1>2. s[i].u \in Nat
  BY <1>1 DEF Item
<1> QED
  BY <1>1, <1>2

\* What an item adds to the events that wait.
LEMMA OfComplete ==
  ASSUME NEW s \in Seq(Item), NEW m \in Item
  PROVE  \/ s \o Complete(m) = s /\ Complete(m) = <<>>
         \/ /\ s \o Complete(m) = Append(s, m) /\ Complete(m) = Append(<<>>, m)
            /\ m.part # "head"
<1>1. s \o <<>> = s /\ s \o <<m>> = Append(s, m) /\ <<m>> = Append(<<>>, m)
  OBVIOUS
<1> QED
  BY <1>1 DEF Complete

\* Nothing in no items.
LEMMA OfNothing ==
  ASSUME NEW n \in Nat
  PROVE  /\ <<>> \in Seq(Item) /\ HasOne(<<>>) /\ ~Has(<<>>) /\ UpTo(<<>>, n)
         /\ Ended(<<>>)
  BY DEF HasOne, Has, UpTo, Ended

\* An item that is none.
LEMMA OfNoItem ==
  /\ NoItem \in Item /\ ~IsDone(NoItem) /\ NoItem.u = 0
  /\ \A e \in EndOf : /\ [NoItem EXCEPT !.k = e] \in Item /\ ~IsDone([NoItem EXCEPT !.k = e])
                      /\ [NoItem EXCEPT !.k = e].u = 0
  BY DEF NoItem, Item, KindsOfItems, IsDone, EndOf

\* The beginning.
LEMMA InitOK == Init => RelayInv
<1> SUFFICES ASSUME Init PROVE RelayInv
  OBVIOUS
<1>1. Types
  BY OfNothing, OfNoItem DEF Init, Types
<1>2. OneDone /\ SealedOnce /\ Reports
  BY OfNothing, OfNoItem DEF Init, OneDone, SealedOnce, Reports, Running
<1> QED
  BY <1>1, <1>2 DEF RelayInv

-----------------------------------------------------------------------------
(* One lemma per action: it keeps the invariant and is a step of the       *)
(* promise, or none.                                                       *)

Step == [Promise!Next]_(Promise!pvars)

\* What the client and the caller see does not change.
LEMMA Unseen ==
  ASSUME UNCHANGED <<head, seals, gone>>, (pc = "returned") <=> (pc' = "returned")
  PROVE  Step
  BY DEF Step, Promise!pvars

\* The upstream sends.
LEMMA SendOK ==
  ASSUME RelayInv, NEW k \in Advance \union {"beat", "ping", "error"},
         NEW p \in {"whole", "head", "tail"}, Send(k, p)
  PROVE  RelayInv' /\ Step
<1> USE DEF RelayInv
<1>1. /\ sent' \in Nat /\ sent <= sent' /\ hold'.u = sent'
      /\ hold' \in Item /\ (IsDone(hold') <=> k = "done" /\ p # "head")
  BY DEF Send, Types, Item, KindsOfItems, IsDone, Advance, Content, Finish
<1>2. /\ UNCHANGED <<ch, buf, pc, lastUsage, billed, seals, head, gone, finished, doneSent>>
      /\ reader' = "sending"
  BY DEF Send, flags, outvars
<1>3. /\ said # "done" \/ (k = "ping" /\ said' = said /\ half' = "none")
      /\ said' = "done" => said = "done" \/ IsDone(hold')
      /\ IsDone(hold') => said' = "done" /\ said # "done"
      /\ half' # "none" => said' # "done"
  BY <1>1 DEF Send, MaySend, OneDone, Advance, Content, Finish
<1>4. Types'
  BY <1>1, <1>2 DEF Types
<1>5. OneDone'
  BY <1>1, <1>2, <1>3 DEF OneDone, Send
<1>6. SealedOnce'
  BY <1>1, <1>2, <1>3 DEF SealedOnce, Running
<1>7. UpTo(ch, sent') /\ UpTo(buf, sent')
  BY <1>1, OfMore DEF Reports, Types
<1>8. Reports'
  BY <1>1, <1>2, <1>7 DEF Reports, Types
<1> QED
  BY <1>2, <1>4, <1>5, <1>6, <1>8, Unseen

\* The body ends or breaks.
LEMMA StopOK ==
  ASSUME RelayInv, NEW e \in EndOf, Stop(e)
  PROVE  RelayInv' /\ Step
<1> USE DEF RelayInv
<1>1. /\ hold' \in Item /\ ~IsDone(hold') /\ hold'.u = 0
      /\ UNCHANGED <<sent, said, half, ch, buf, pc, lastUsage, billed, seals, head,
                     gone, finished, doneSent>>
      /\ reader' = "sending"
  BY OfNoItem DEF Stop, flags, outvars
<1> QED
  BY <1>1, Unseen DEF Types, OneDone, SealedOnce, Running, Reports

\* The reader puts what it holds into the channel.
LEMMA ReaderSendsOK ==
  ASSUME RelayInv, ReaderSends
  PROVE  RelayInv' /\ Step
<1> USE DEF RelayInv
<1>1. /\ ch' = Append(ch, hold) /\ hold' \in Item /\ ~IsDone(hold') /\ hold'.u = 0
      /\ UNCHANGED <<sent, said, half, buf, pc, lastUsage, billed, seals, head,
                     gone, finished, doneSent>>
  BY OfNoItem DEF ReaderSends, upvars, flags, outvars
<1>2. /\ ch' \in Seq(Item) /\ HasOne(ch') /\ (Has(ch') <=> Has(ch) \/ IsDone(hold))
      /\ UpTo(ch', sent)
  BY <1>1, OfAppend DEF Types, OneDone, Reports
<1> QED
  BY <1>1, <1>2, Unseen DEF Types, OneDone, SealedOnce, Running, Reports

\* The reader ends after the handler.
LEMMA ReaderGivesUpOK ==
  ASSUME RelayInv, ReaderGivesUp
  PROVE  RelayInv' /\ Step
<1> USE DEF RelayInv
<1>1. /\ hold' \in Item /\ ~IsDone(hold') /\ hold'.u = 0
      /\ UNCHANGED <<sent, said, half, ch, buf, pc, lastUsage, billed, seals, head,
                     gone, finished, doneSent>>
  BY OfNoItem DEF ReaderGivesUp, upvars, flags, outvars
<1> QED
  BY <1>1, Unseen DEF Types, OneDone, SealedOnce, Running, Reports

\* The handler takes an item before the header.
LEMMA PreReadOK ==
  ASSUME RelayInv, PreRead
  PROVE  RelayInv' /\ Step
<1> USE DEF RelayInv
<1> DEFINE m == Head(ch)
<1>1. /\ pc = "preread" /\ ch # <<>> /\ ch' = Tail(ch)
      /\ pc' \in {"preread", "check", "closing"}
      /\ buf' = buf \/ buf' = buf \o Complete(m)
      /\ UNCHANGED <<hold, sent, said, half, reader, lastUsage, billed, seals, head,
                     gone, finished, doneSent>>
  BY DEF PreRead, upvars, flags, outvars
<1>2. buf' = buf \/ (buf' = Append(buf, m) /\ m.part # "head")
  BY <1>1, OfTail, OfComplete DEF Types
<1>3. /\ m \in Item /\ ch' \in Seq(Item) /\ HasOne(ch') /\ (Has(ch') => Has(ch))
      /\ (IsDone(m) => Has(ch) /\ ~Has(ch')) /\ UpTo(ch', sent) /\ m.u <= sent
  BY <1>1, OfTail DEF Types, OneDone, Reports
<1> HIDE DEF m
<1>4. CASE buf' = buf
  BY <1>1, <1>3, <1>4, Unseen DEF Types, OneDone, SealedOnce, Running, Reports
<1>5. CASE buf' = Append(buf, m) /\ m.part # "head"
  <2>1. /\ buf' \in Seq(Item) /\ HasOne(buf') /\ (Has(buf') <=> Has(buf) \/ IsDone(m))
        /\ UpTo(buf', sent) /\ Ended(buf')
    BY <1>3, <1>5, OfAppend DEF Types, OneDone, Reports
  <2> QED
    BY <1>1, <1>3, <2>1, Unseen DEF Types, OneDone, SealedOnce, Running, Reports
<1> QED
  BY <1>2, <1>4, <1>5

\* No data came in time.
LEMMA PreTimeoutOK ==
  ASSUME RelayInv, PreTimeout
  PROVE  RelayInv' /\ Step
<1>1. /\ pc = "preread" /\ pc' = "closing"
      /\ UNCHANGED <<hold, ch, buf, sent, said, half, reader, lastUsage, billed, seals,
                     head, gone, finished, doneSent>>
  BY DEF PreTimeout, upvars, rdvars, flags, outvars
<1> QED
  BY <1>1, Unseen DEF RelayInv, Types, OneDone, SealedOnce, Running, Reports

\* The header is sent, or the stack is given up.
LEMMA CommitOK ==
  ASSUME RelayInv, Commit
  PROVE  RelayInv' /\ Step
<1>1. /\ pc = "check" /\ ~head /\ seals = 0 /\ ~doneSent
      /\ UNCHANGED <<hold, ch, buf, sent, said, half, reader, lastUsage, billed, seals,
                     gone, finished, doneSent>>
      /\ \/ pc' = "closing" /\ head' = head
         \/ pc' = "drain" /\ head' = TRUE
  BY DEF RelayInv, SealedOnce, Commit, upvars, rdvars, flags
<1>2. RelayInv'
  BY <1>1 DEF RelayInv, Types, OneDone, SealedOnce, Running, Reports
<1>3. CASE pc' = "closing" /\ head' = head
  BY <1>1, <1>2, <1>3, Unseen
<1>4. CASE pc' = "drain" /\ head' = TRUE
  BY <1>1, <1>2, <1>4 DEF Step, Promise!Next, Promise!Open, Promise!pvars
<1> QED
  BY <1>1, <1>2, <1>3, <1>4

\* The last [DONE] is written where none was, or the client has left.
LEMMA SealOK ==
  ASSUME SealedOnce, Running, head, doneSent \in BOOLEAN, seals \in Nat, SealStream
  PROVE  /\ doneSent' \in BOOLEAN /\ pc' \in {"sealing", "closing"}
         /\ seals' = 1 \/ gone
         /\ doneSent' => seals' = 1 \/ gone
         /\ \/ seals' = seals
            \/ seals = 0 /\ seals' = 1
<1>1. CanInject => ~doneSent
  BY DEF SealedOnce, CanInject
<1>2. CASE ~doneSent
  <2>1. WriteDone
    BY <1>2 DEF SealStream
  <2>2. seals = 0
    BY <1>2 DEF SealedOnce
  <2>3. CASE gone
    BY <1>2, <2>1, <2>2, <2>3 DEF WriteDone
  <2>4. CASE ~gone
    BY <2>1, <2>2, <2>4 DEF WriteDone
  <2> QED
    BY <2>3, <2>4
<1>4. CASE ~CanInject /\ doneSent
  BY <1>4 DEF SealStream, SealedOnce
<1> QED
  BY <1>1, <1>2, <1>4

\* A [DONE] more, while the stream is open, or none.
LEMMA Seals ==
  ASSUME pc # "returned", pc' # "returned", head, UNCHANGED <<head, gone>>,
         seals' = seals \/ (seals = 0 /\ seals' = 1)
  PROVE  Step
<1>1. CASE seals' = seals
  BY <1>1, Unseen
<1>2. CASE seals = 0 /\ seals' = 1
  BY <1>2 DEF Step, Promise!Next, Promise!Seal, Promise!pvars
<1> QED
  BY <1>1, <1>2

\* An error event is dropped, and the stream sealed if it can be.
LEMMA ErrorEventOK ==
  ASSUME RelayInv, ErrorEvent
  PROVE  RelayInv' /\ Step
<1> USE DEF RelayInv
<1>1. /\ pc = "drain" /\ head /\ buf # <<>> /\ buf' = Tail(buf)
      /\ lastUsage' = Head(buf).u
      /\ UNCHANGED <<hold, ch, sent, said, half, reader, billed, head, gone, finished>>
      /\ SealStream \/ UNCHANGED <<seals, doneSent, pc>>
  BY DEF ErrorEvent, Report, upvars, rdvars, SealedOnce
<1>2. /\ buf' \in Seq(Item) /\ HasOne(buf') /\ (Has(buf') => Has(buf)) /\ Ended(buf')
      /\ UpTo(buf', sent) /\ lastUsage' <= sent /\ lastUsage' \in Nat
  BY <1>1, OfTail DEF Types, OneDone, Reports, Item
<1>3. CASE SealStream
  <2>1. /\ doneSent' \in BOOLEAN /\ pc' \in {"sealing", "closing"}
        /\ (seals' = 1 \/ gone) /\ (doneSent' => seals' = 1 \/ gone)
        /\ seals' = seals \/ (seals = 0 /\ seals' = 1)
    BY <1>1, <1>3, SealOK DEF Running, Types
  <2>2. RelayInv'
    BY <1>1, <1>2, <2>1 DEF Types, OneDone, SealedOnce, Running, Reports
  <2> QED
    BY <1>1, <2>1, <2>2, Seals
<1>4. CASE UNCHANGED <<seals, doneSent, pc>>
  BY <1>1, <1>2, <1>4, Unseen DEF Types, OneDone, SealedOnce, Running, Reports
<1> QED
  BY <1>1, <1>3, <1>4

\* An event is forwarded.
LEMMA EventOK ==
  ASSUME RelayInv, Event
  PROVE  RelayInv' /\ Step
<1> USE DEF RelayInv
<1> DEFINE ev == Head(buf)
<1>1. /\ pc = "drain" /\ head /\ buf # <<>> /\ buf' = Tail(buf)
      /\ lastUsage' = ev.u
      /\ UNCHANGED <<hold, ch, sent, said, half, reader, billed, head, gone>>
      /\ finished' = (finished \/ ev.k \in Finish)
      /\ doneSent' = (doneSent \/ ev.k = "done")
      /\ seals' = IF ev.k = "done" /\ ~gone THEN seals + 1 ELSE seals
      /\ pc' = "writing"
  BY DEF Event, Report, upvars, rdvars, SealedOnce
<1>2. /\ buf' \in Seq(Item) /\ HasOne(buf') /\ (Has(buf') => Has(buf)) /\ Ended(buf')
      /\ UpTo(buf', sent) /\ lastUsage' <= sent /\ lastUsage' \in Nat
      /\ ev.k = "done" => IsDone(ev)
      /\ IsDone(ev) => Has(buf) /\ ~Has(buf')
  BY <1>1, OfTail DEF Types, OneDone, Reports, Item, IsDone
<1> HIDE DEF ev
<1>3. CASE ev.k = "done"
  <2>1. ~doneSent /\ seals = 0 /\ said = "done" /\ ~IsDone(hold) /\ ~Has(ch) /\ ~Has(buf')
    BY <1>1, <1>2, <1>3 DEF OneDone, SealedOnce, Running
  <2>2. doneSent' /\ finished' /\ seals' = IF gone THEN 0 ELSE 1
    <3>1. ev.k \in Finish
      BY <1>3 DEF Finish
    <3>2. finished'
      BY <1>1, <3>1, Zenon
    <3>3. doneSent'
      BY <1>1, <1>3, Zenon
    <3>4. seals' = IF gone THEN 0 ELSE 1
      BY <1>1, <1>3, <2>1
    <3> QED
      BY <3>2, <3>3, <3>4
  <2>3. RelayInv'
    BY <1>1, <1>2, <2>1, <2>2 DEF Types, OneDone, SealedOnce, Running, Reports
  <2> QED
    BY <1>1, <2>1, <2>2, <2>3, Seals
<1>4. CASE ev.k # "done"
  <2>1. seals' = seals /\ doneSent' = doneSent
    BY <1>1, <1>4 DEF Types
  <2>2. finished => finished'
    BY <1>1
  <2>3. RelayInv'
    BY <1>1, <1>2, <2>1, <2>2 DEF Types, OneDone, SealedOnce, Running, Reports
  <2> QED
    BY <1>1, <2>1, <2>3, Unseen
<1> QED
  BY <1>3, <1>4

\* A write is over.
LEMMA WrittenOK ==
  ASSUME RelayInv, Written
  PROVE  RelayInv' /\ Step
<1>1. /\ \/ pc = "sealing" /\ pc' = "closing"
         \/ pc = "writing" /\ pc' = "drain"
         \/ pc = "writing" /\ pc' = "closing" /\ gone
      /\ UNCHANGED <<hold, ch, buf, sent, said, half, reader, lastUsage, billed, seals,
                     head, gone, finished, doneSent>>
  BY DEF Written, upvars, rdvars, flags, outvars
<1> QED
  BY <1>1, Unseen DEF RelayInv, Types, OneDone, SealedOnce, Running, Reports

\* All that was complete has been looked at.
LEMMA DrainedOK ==
  ASSUME RelayInv, Drained
  PROVE  RelayInv' /\ Step
<1>1. /\ pc = "drain" /\ pc' = "select"
      /\ UNCHANGED <<hold, ch, buf, sent, said, half, reader, lastUsage, billed, seals,
                     head, gone, finished, doneSent>>
  BY DEF Drained, upvars, rdvars, flags, outvars
<1> QED
  BY <1>1, Unseen DEF RelayInv, Types, OneDone, SealedOnce, Running, Reports

\* The handler takes an item after the header.
LEMMA ReceiveOK ==
  ASSUME RelayInv, Receive
  PROVE  RelayInv' /\ Step
<1> USE DEF RelayInv
<1> DEFINE m == Head(ch)
<1>1. /\ pc = "select" /\ head /\ ch # <<>> /\ ch' = Tail(ch)
      /\ \/ SealStream /\ buf' = buf
         \/ buf' = Complete(m) /\ pc' = "drain" /\ UNCHANGED <<seals, doneSent>>
      /\ UNCHANGED <<hold, sent, said, half, reader, lastUsage, billed, head, gone, finished>>
  BY DEF Receive, upvars, SealedOnce
<1>2. /\ m \in Item /\ ch' \in Seq(Item) /\ HasOne(ch') /\ (Has(ch') => Has(ch))
      /\ (IsDone(m) => Has(ch) /\ ~Has(ch')) /\ UpTo(ch', sent) /\ m.u <= sent
  BY <1>1, OfTail DEF Types, OneDone, Reports
<1> HIDE DEF m
<1>3. CASE SealStream /\ buf' = buf
  <2>1. /\ doneSent' \in BOOLEAN /\ pc' \in {"sealing", "closing"}
        /\ (seals' = 1 \/ gone) /\ (doneSent' => seals' = 1 \/ gone)
        /\ seals' = seals \/ (seals = 0 /\ seals' = 1)
    BY <1>1, <1>3, SealOK DEF Running, Types
  <2>2. RelayInv'
    BY <1>1, <1>2, <1>3, <2>1 DEF Types, OneDone, SealedOnce, Running, Reports
  <2> QED
    BY <1>1, <2>1, <2>2, Seals
<1>4. CASE buf' = Complete(m) /\ pc' = "drain" /\ UNCHANGED <<seals, doneSent>>
  <2>1. buf' = <<>> \/ (buf' = Append(<<>>, m) /\ m.part # "head")
    BY <1>2, <1>4, OfComplete DEF Types
  <2>2. /\ buf' \in Seq(Item) /\ HasOne(buf') /\ Ended(buf') /\ UpTo(buf', sent)
        /\ Has(buf') => IsDone(m)
    <3>1. CASE buf' = <<>>
      BY <3>1, OfNothing DEF Types
    <3>2. CASE buf' = Append(<<>>, m) /\ m.part # "head"
      BY <1>2, <3>2, OfNothing, OfAppend DEF Types
    <3> QED
      BY <2>1, <3>1, <3>2
  <2>3. RelayInv'
    BY <1>1, <1>2, <1>4, <2>2 DEF Types, OneDone, SealedOnce, Running, Reports
  <2> QED
    BY <1>1, <1>4, <2>3, Unseen
<1> QED
  BY <1>1, <1>3, <1>4

\* The timer fires.
LEMMA FireOK ==
  ASSUME RelayInv, Fire
  PROVE  RelayInv' /\ Step
<1> USE DEF RelayInv
<1>1. /\ pc = "select" /\ head
      /\ UNCHANGED <<hold, ch, buf, sent, said, half, reader, lastUsage, billed,
                     head, gone, finished>>
      /\ SealStream \/ UNCHANGED <<seals, doneSent, pc>>
  BY DEF Fire, upvars, rdvars, SealedOnce
<1>2. CASE SealStream
  <2>1. /\ doneSent' \in BOOLEAN /\ pc' \in {"sealing", "closing"}
        /\ (seals' = 1 \/ gone) /\ (doneSent' => seals' = 1 \/ gone)
        /\ seals' = seals \/ (seals = 0 /\ seals' = 1)
    BY <1>1, <1>2, SealOK DEF Running, Types
  <2>2. RelayInv'
    BY <1>1, <2>1 DEF Types, OneDone, SealedOnce, Running, Reports
  <2> QED
    BY <1>1, <2>1, <2>2, Seals
<1>3. CASE UNCHANGED <<seals, doneSent, pc>>
  BY <1>1, <1>3, Unseen DEF Types, OneDone, SealedOnce, Running, Reports
<1> QED
  BY <1>1, <1>2, <1>3

\* forwardStream returns.
LEMMA ReturnOK ==
  ASSUME RelayInv, Return
  PROVE  RelayInv' /\ Step
<1> USE DEF RelayInv
<1>1. /\ pc = "closing" /\ pc' = "returned"
      /\ UNCHANGED <<hold, ch, buf, sent, said, half, reader, lastUsage, seals,
                     head, gone, finished, doneSent>>
      /\ billed' = IF head THEN billed + lastUsage ELSE billed
  BY DEF Return, Bill, upvars, rdvars, flags, outvars
<1>2. billed' = IF head THEN lastUsage ELSE 0
  BY <1>1 DEF Types, Reports
<1>3. RelayInv'
  BY <1>1, <1>2 DEF Types, OneDone, SealedOnce, Running, Reports
<1>4. CASE head
  BY <1>1, <1>3, <1>4 DEF SealedOnce, Step, Promise!Next, Promise!End, Promise!pvars
<1>5. CASE ~head
  BY <1>1, <1>3, <1>5 DEF Step, Promise!Next, Promise!HandBack, Promise!pvars
<1> QED
  BY <1>4, <1>5

\* Time passes.
LEMMA TickOK ==
  ASSUME RelayInv, Tick
  PROVE  RelayInv' /\ Step
<1>1. UNCHANGED <<hold, ch, buf, sent, said, half, reader, lastUsage, billed, seals,
                  head, gone, finished, doneSent, pc>>
  BY DEF Tick, upvars, rdvars, flags, outvars
<1> QED
  BY <1>1, Unseen DEF RelayInv, Types, OneDone, SealedOnce, Running, Reports

\* The client leaves.
LEMMA ClientLeavesOK ==
  ASSUME RelayInv, ClientLeaves
  PROVE  RelayInv' /\ Step
<1>1. /\ gone' = TRUE
      /\ UNCHANGED <<hold, ch, buf, sent, said, half, reader, lastUsage, billed, seals,
                     head, finished, doneSent, pc>>
  BY DEF ClientLeaves, upvars, rdvars, flags
<1>2. RelayInv'
  BY <1>1 DEF RelayInv, Types, OneDone, SealedOnce, Running, Reports
<1> QED
  BY <1>1, <1>2 DEF Step, Promise!Next, Promise!Leave, Promise!pvars

\* The client stops reading, or goes on.
LEMMA ClientReadsOK ==
  ASSUME RelayInv, NEW b \in BOOLEAN, ClientReads(b)
  PROVE  RelayInv' /\ Step
<1>1. UNCHANGED <<hold, ch, buf, sent, said, half, reader, lastUsage, billed, seals,
                  head, gone, finished, doneSent, pc>>
  BY DEF ClientReads, upvars, rdvars, flags
<1> QED
  BY <1>1, Unseen DEF RelayInv, Types, OneDone, SealedOnce, Running, Reports

\* Nothing happens.
LEMMA IdleOK ==
  ASSUME RelayInv, UNCHANGED vars
  PROVE  RelayInv' /\ Step
<1>1. UNCHANGED <<hold, ch, buf, sent, said, half, reader, lastUsage, billed, seals,
                  head, gone, finished, doneSent, pc>>
  BY DEF vars, upvars, rdvars, flags, outvars
<1> QED
  BY <1>1, Unseen DEF RelayInv, Types, OneDone, SealedOnce, Running, Reports

\* Every step keeps the invariant and is one of the promise, or none.
LEMMA StepOK == RelayInv /\ [Next]_vars => RelayInv' /\ Step
<1> SUFFICES ASSUME RelayInv, [Next]_vars PROVE RelayInv' /\ Step
  OBVIOUS
<1>1. CASE \E k \in Advance \union {"beat", "ping", "error"},
              p \in {"whole", "head", "tail"} : Send(k, p)
  BY <1>1, SendOK
<1>2. CASE \E e \in EndOf : Stop(e)
  BY <1>2, StopOK
<1>3. CASE ReaderSends \/ ReaderGivesUp
  BY <1>3, ReaderSendsOK, ReaderGivesUpOK
<1>4. CASE PreRead \/ PreTimeout \/ Commit
  BY <1>4, PreReadOK, PreTimeoutOK, CommitOK
<1>5. CASE ErrorEvent \/ Event \/ Drained \/ Written
  BY <1>5, ErrorEventOK, EventOK, DrainedOK, WrittenOK
<1>6. CASE Receive \/ Fire \/ Return
  BY <1>6, ReceiveOK, FireOK, ReturnOK
<1>7. CASE Tick \/ ClientLeaves \/ \E b \in BOOLEAN : ClientReads(b)
  BY <1>7, TickOK, ClientLeavesOK, ClientReadsOK
<1>8. CASE UNCHANGED vars
  BY <1>8, IdleOK
<1> QED
  BY <1>1, <1>2, <1>3, <1>4, <1>5, <1>6, <1>7, <1>8 DEF Next, Handler

-----------------------------------------------------------------------------
\* The invariant holds of every behaviour.
LEMMA RelayInvHolds == Spec => []RelayInv
  BY InitOK, StepOK, PTL DEF Spec

\* A stream that was begun is ended by one [DONE] and no more, unless the
\* client has left, and a stack is given up only before the first byte
\* (local.go:239-241, 1231-1232): the safety part of KeepsPromise.
THEOREM RelayKeepsPromise == Spec => Promise!Safe
<1>1. Init => Promise!Init
  BY DEF Init, Promise!Init
<1> QED
  BY <1>1, InitOK, StepOK, PTL DEF Spec, Step, Promise!Safe

\* The tokens of a stream are counted once, as its last report
\* (local.go:1182-1186).
THEOREM UsageIsBilledOnce == Spec => []BilledOnce
<1>1. RelayInv => BilledOnce
  BY DEF RelayInv, Types, Reports, BilledOnce
<1> QED
  BY <1>1, RelayInvHolds, PTL
=============================================================================
