--------------------------- MODULE PeerNodeProofs ---------------------------
(***************************************************************************)
(* The connection limit of a file-serving node, for any number of inbound, *)
(* outbound and child connections, any limit and any faults.               *)
(*                                                                         *)
(* connCount is raised by onConn and lowered by the OnClose callback, and  *)
(* callbacks are lost: a connection that is closed before it opens, or by  *)
(* two goroutines at once, may never be subtracted.  So the counter is not *)
(* the number of anything.  What is inductive is that it is at least the   *)
(* number of connections whose callback may still come (Live): every       *)
(* callback belongs to one such connection, which is no longer one         *)
(* afterwards, and a channel that is open is one of them.                  *)
(***************************************************************************)
EXTENDS PeerNode, FiniteSetTheorems, TLAPS

NodeType ==
  /\ cast \in Casts
  /\ verdict \in [Conns -> {"none", "accepted", "rejected"}]
  /\ timer \in [Conns -> {"off", "armed"}]
  /\ authed \subseteq Conns /\ refused \subseteq Conns
  /\ faults \in 0..MaxFaults[cast]

Types == LoopsType /\ WiringType /\ NodeType

\* A connection opens once, after its channel came up, and is closed as an
\* open one once, by the goroutine that will call its callback; only
\* accepted connections have a callback.
Orderly(c) ==
  /\ stage[c] \in {"no", "count"} => verdict[c] = "none"
  /\ stage[c] = "install" => verdict[c] = "accepted"
  /\ c \in hooked => verdict[c] = "accepted"
  /\ owes[c] # Nil => c \in hooked /\ chan[c] # "none"
  /\ "open" \in events[c] => chan[c] # "none" /\ ~dcOpen[c] /\ owes[c] = Nil
  /\ dcOpen[c] => chan[c] # "none" /\ owes[c] = Nil
  /\ chan[c] = "open" => "open" \in events[c] \/ dcOpen[c]
  /\ \A r \in Reasons : closing[c][r] = "callback" => owes[c] = r

\* Connections that onConn has counted, those whose callback may still come,
\* and those of them that were accepted.
Counted  == {c \in Conns : verdict[c] # "none"}
MayCallBack(c) == chan[c] = "none" \/ "open" \in events[c] \/ dcOpen[c] \/ owes[c] # Nil
Live     == {c \in Counted : MayCallBack(c)}
LiveAccepted == {c \in Live : verdict[c] = "accepted"}

\* The counter is never too low.
CountOK ==
  /\ count \in Nat
  /\ IsFiniteSet(Counted)
  /\ Cardinality(Live) <= count /\ count <= Cardinality(Counted)
  /\ Cardinality(LiveAccepted) <= MaxConns

NodeInv == Types /\ (\A c \in Conns : Orderly(c)) /\ CountOK

-----------------------------------------------------------------------------
(* Counting.                                                               *)

LEMMA LiveIsFinite ==
  ASSUME IsFiniteSet(Counted)
  PROVE  /\ IsFiniteSet(Live) /\ IsFiniteSet(LiveAccepted)
         /\ Cardinality(Live) \in Nat /\ Cardinality(LiveAccepted) \in Nat
         /\ Cardinality(Counted) \in Nat
         /\ Cardinality(LiveAccepted) <= Cardinality(Live)
<1>1. Live \subseteq Counted /\ LiveAccepted \subseteq Live
  BY DEF Live, LiveAccepted
<1>2. IsFiniteSet(Live)
  BY <1>1, FS_Subset
<1>3. IsFiniteSet(LiveAccepted) /\ Cardinality(LiveAccepted) <= Cardinality(Live)
  BY <1>1, <1>2, FS_Subset
<1> QED
  BY <1>2, <1>3, FS_CardinalityType

\* A step after which no callback may come that could not come before.
LEMMA LiveShrinks ==
  ASSUME CountOK, UNCHANGED <<count, verdict>>,
         \A c \in Conns : MayCallBack(c)' => MayCallBack(c)
  PROVE  CountOK'
<1>1. Counted' = Counted
  BY DEF Counted
<1>2. Live' \subseteq Live /\ LiveAccepted' \subseteq LiveAccepted
  BY DEF Counted, Live, LiveAccepted
<1>3. /\ Cardinality(Live') <= Cardinality(Live)
      /\ Cardinality(LiveAccepted') <= Cardinality(LiveAccepted)
      /\ Cardinality(Live') \in Nat /\ Cardinality(LiveAccepted') \in Nat
  BY <1>2, LiveIsFinite, FS_Subset, FS_CardinalityType DEF CountOK
<1>4. Cardinality(Live) \in Nat /\ Cardinality(LiveAccepted) \in Nat
  BY LiveIsFinite DEF CountOK
<1>5. MaxConns \in Nat /\ Cardinality(Counted) \in Nat
  BY LiveIsFinite, NodeAssumption DEF CountOK
<1> QED
  BY <1>1, <1>3, <1>4, <1>5 DEF CountOK

\* A step that opens no channel, calls no callback and judges no connection.
Calm ==
  /\ UNCHANGED <<verdict, count, hooked, owes, dcOpen, chan>>
  /\ \A c \in Conns :
       /\ "open" \in events'[c] <=> "open" \in events[c]
       /\ stage'[c] \in {"no", "count"} => stage[c] \in {"no", "count"}
       /\ stage'[c] = "install" => stage[c] = "install"
       /\ \A r \in Reasons : closing'[c][r] = "callback" => closing[c][r] = "callback"

LEMMA CalmStep ==
  ASSUME NodeInv, Calm
  PROVE  (\A c \in Conns : Orderly(c)') /\ CountOK'
<1>1. ASSUME NEW c \in Conns PROVE Orderly(c)'
  BY DEF NodeInv, Calm, Orderly
<1>2. CountOK'
  BY LiveShrinks DEF NodeInv, Calm, MayCallBack
<1> QED
  BY <1>1, <1>2

-----------------------------------------------------------------------------
(* Steps of the goroutines that serve the signaling connection.            *)

LEMMA MessageParts ==
  \A m \in Messages : /\ m.type = "OFFER" => m.conn \in Inbound
                      /\ m.type = "ANSWER" => m.conn \in Outbound
  BY DEF Messages

LEMMA HeadOfMsgs ==
  ASSUME LoopsType, msgs # <<>>
  PROVE  /\ Head(msgs) \in Messages
         /\ Tail(msgs) \in Seq(Messages) /\ Len(Tail(msgs)) <= MaxMsgs
  BY PeerAssumption DEF LoopsType

Looping ==
  \/ Dial \/ Await \/ Push \/ ReadFails \/ SignalLost
  \/ Select \/ OfferHandled \/ HandleLeave \/ LeaveHandled
  \/ Shut \/ ShutSignal \/ ShutDone
  \/ \E m \in Messages : Read(m)

LEMMA LoopingType ==
  ASSUME Types, Looping
  PROVE  LoopsType' /\ UNCHANGED wiring
<1> USE DEF Types, LoopsType
<1>1. ASSUME Dial PROVE LoopsType' /\ UNCHANGED wiring
  BY <1>1 DEF Dial
<1>2. ASSUME Await PROVE LoopsType' /\ UNCHANGED wiring
  <2>1. msgs' \in Seq(Messages) /\ Len(msgs') <= MaxMsgs
    BY <1>2, HeadOfMsgs DEF Await
  <2> QED
    BY ZenonT(60), <1>2, <2>1 DEF Await
<1>3. ASSUME Push PROVE LoopsType' /\ UNCHANGED wiring
  <2>1. msgs' \in Seq(Messages) /\ Len(msgs') <= MaxMsgs
    <3>1. held \in Messages /\ MaxMsgs \in Nat
      BY <1>3, PeerAssumption DEF Push
    <3>2. CASE Len(msgs) < MaxMsgs /\ msgs' = Append(msgs, held)
      BY <3>1, <3>2
    <3> QED
      BY <1>3, <3>2 DEF Push
  <2> QED
    BY <1>3, <2>1 DEF Push
<1>4. ASSUME ReadFails PROVE LoopsType' /\ UNCHANGED wiring
  BY <1>4 DEF ReadFails
<1>4a. ASSUME SignalLost PROVE LoopsType' /\ UNCHANGED wiring
  BY <1>4a DEF SignalLost
<1>5. ASSUME Select PROVE LoopsType' /\ UNCHANGED wiring
  <2>1. CASE msgs # <<>> /\ msgs' = Tail(msgs) /\ job' = Head(msgs) /\ loop' = "handle"
    <3>1. msgs' \in Seq(Messages) /\ Len(msgs') <= MaxMsgs /\ job' \in Messages
      BY <2>1, HeadOfMsgs
    <3> QED
      BY <1>5, <2>1, <3>1 DEF Select
  <2>2. CASE closeCh /\ loop' = "done" /\ UNCHANGED <<msgs, job>>
    BY <1>5, <2>2 DEF Select
  <2> QED
    BY <1>5, <2>1, <2>2 DEF Select
<1>6. ASSUME OfferHandled \/ LeaveHandled PROVE LoopsType' /\ UNCHANGED wiring
  BY <1>6 DEF OfferHandled, LeaveHandled, Handled
<1>7. ASSUME HandleLeave PROVE LoopsType' /\ UNCHANGED wiring
  BY <1>7 DEF HandleLeave, WiringType
<1>8. ASSUME Shut PROVE LoopsType' /\ UNCHANGED wiring
  BY ZenonT(60), <1>8 DEF Shut, WiringType
<1>9. ASSUME ShutSignal PROVE LoopsType' /\ UNCHANGED wiring
  BY <1>9 DEF ShutSignal
<1>9a. ASSUME ShutDone PROVE LoopsType' /\ UNCHANGED wiring
  BY <1>9a DEF ShutDone
<1>10. ASSUME NEW m \in Messages, Read(m) PROVE LoopsType' /\ UNCHANGED wiring
  BY <1>10 DEF Read
<1> QED
  BY <1>1, <1>2, <1>3, <1>4, <1>4a, <1>5, <1>6, <1>7, <1>8, <1>9, <1>9a, <1>10 DEF Looping

LEMMA LoopingPreserves ==
  ASSUME NodeInv, Looping, NodeType', UNCHANGED <<verdict, count>>
  PROVE  NodeInv'
<1>1. LoopsType' /\ UNCHANGED wiring
  BY LoopingType DEF NodeInv
<1>2. WiringType' /\ Calm
  BY <1>1 DEF NodeInv, Types, WiringType, wiring, Calm
<1> QED
  BY <1>1, <1>2, CalmStep DEF NodeInv, Types

-----------------------------------------------------------------------------
(* Steps that set a connection up.                                         *)

\* The goroutine of c goes on; nobody comes back to where a connection is
\* counted.
LEMMA Entered ==
  ASSUME WiringType, NEW c \in Conns,
         NEW l \in {"count", "limit", "register", "makepc", "answer", "offer", "wait",
                    "cancel", "done", "failed"},
         l = "count" => stage[c] = "no", Enter(c, l)
  PROVE  /\ stage' \in [Conns -> {"no", "count", "install", "limit", "register", "makepc",
                                  "answer", "offer", "wait", "cancel", "done", "failed"}]
         /\ \A d \in Conns :
              /\ stage'[d] \in {"no", "count"} => stage[d] \in {"no", "count"}
              /\ stage'[d] = "install" => stage[d] = "install"
  BY DEF WiringType, Enter

LEMMA ClosingFor ==
  ASSUME WiringType, NEW c \in Conns, NEW r \in Reasons, CloseFor(c, r)
  PROVE  /\ closing' \in [Conns -> [Reasons -> {"no", "enter", "unregister", "callback"}]]
         /\ \A d \in Conns : \A s \in Reasons :
              closing'[d][s] = "callback" => closing[d][s] = "callback"
  BY DEF WiringType, CloseFor

SettingUp(c) ==
  \/ MakePC(c) \/ Answer(c) \/ Register(c) \/ Prepare(c) \/ Offer(c) \/ Wait(c)
  \/ Connected(c) \/ IceFails(c) \/ Connect(c) \/ OnClose(c)

LEMMA SettingUpCalm ==
  ASSUME NodeInv, NEW c \in Conns, SettingUp(c), UNCHANGED <<verdict, count>>
  PROVE  LoopsType' /\ WiringType' /\ Calm
<1>1. LoopsType /\ WiringType
  BY DEF NodeInv, Types
<1>2. UNCHANGED loops => LoopsType'
  BY <1>1 DEF loops, LoopsType
<1> DEFINE Goal == LoopsType' /\ WiringType' /\ Calm
<1> USE <1>1
<1>3. ASSUME MakePC(c) PROVE Goal
  BY <1>2, <1>3, Entered DEF MakePC, WiringType, Calm
<1>4. ASSUME Answer(c) PROVE Goal
  BY <1>2, <1>4, Entered DEF Answer, WiringType, Calm
<1>5. ASSUME Register(c) PROVE Goal
  BY <1>2, <1>5, Entered DEF Register, WiringType, Calm
<1>6. ASSUME Prepare(c) PROVE Goal
  BY <1>2, <1>6, Entered DEF Prepare, WiringType, Calm
<1>7. ASSUME Offer(c) PROVE Goal
  <2>1. PICK l \in {"failed", "wait"} : Enter(c, l)
    BY <1>7 DEF Offer
  <2> QED
    BY SMTT(40), <1>2, <1>7, <2>1, Entered DEF Offer, WiringType, Calm
<1>8. ASSUME Wait(c) PROVE Goal
  <2>1. PICK l \in {"done", "cancel", "failed"} : Enter(c, l)
    BY <1>8 DEF Wait
  <2>2. CloseFor(c, "ctx") \/ UNCHANGED closing
    BY <1>8 DEF Wait
  <2>3. "ctx" \in Reasons
    BY DEF Reasons
  <2> QED
    BY <1>2, <1>8, <2>1, <2>2, <2>3, Entered, ClosingFor DEF Wait, WiringType, Calm
<1>9. ASSUME Connected(c) PROVE Goal
  BY <1>2, <1>9 DEF Connected, WiringType, Calm
<1>10. ASSUME IceFails(c) PROVE Goal
  <2>1. "ice" \in Reasons
    BY DEF Reasons
  <2> QED
    BY <1>2, <1>10, <2>1, ClosingFor DEF IceFails, WiringType, Calm
<1>11. ASSUME Connect(c) PROVE Goal
  <2>1. PICK l \in {"register", "failed"} : Enter(c, l)
    BY <1>11 DEF Connect
  <2> QED
    BY <1>2, <1>11, <2>1, Entered DEF Connect, WiringType, Calm
<1>12. ASSUME OnClose(c) PROVE Goal
  <2>1. "event" \in Reasons
    BY DEF Reasons
  <2> QED
    BY <1>2, <1>12, <2>1, ClosingFor DEF OnClose, WiringType, Calm
<1> QED
  BY <1>3, <1>4, <1>5, <1>6, <1>7, <1>8, <1>9, <1>10, <1>11, <1>12 DEF SettingUp

LEMMA SettingUpPreserves ==
  ASSUME NodeInv, NEW c \in Conns, SettingUp(c), NodeType', UNCHANGED <<verdict, count>>
  PROVE  NodeInv'
  BY SettingUpCalm, CalmStep DEF NodeInv, Types

\* handleLoop sets the answer, or closes one more connection of a peer that
\* left; Peer.Close closes one more of those it took stock of.
LEMMA HandlingPreserves ==
  ASSUME NodeInv, HandleAnswer \/ \E r \in {"leave", "peer"} : CloseNext(r),
         NodeType', UNCHANGED <<verdict, count>>
  PROVE  NodeInv'
<1>1. LoopsType /\ WiringType
  BY DEF NodeInv, Types
<1>2. ASSUME HandleAnswer PROVE LoopsType' /\ WiringType' /\ Calm
  <2>1. LoopsType'
    BY <1>1, <1>2 DEF HandleAnswer, Handled, LoopsType
  <2>2. WiringType' /\ Calm
    BY <1>1, <1>2 DEF HandleAnswer, WiringType, Calm
  <2> QED
    BY <2>1, <2>2
<1>3. ASSUME NEW r \in {"leave", "peer"}, CloseNext(r) PROVE LoopsType' /\ WiringType' /\ Calm
  <2>1. PICK c \in gather[r] : gather' = [gather EXCEPT ![r] = @ \ {c}] /\ CloseFor(c, r)
    BY <1>3 DEF CloseNext
  <2>2. c \in Conns /\ r \in Reasons
    BY <1>1, <2>1 DEF LoopsType, Reasons
  <2>3. LoopsType'
    BY <1>1, <1>3, <2>1 DEF CloseNext, LoopsType
  <2>4. WiringType' /\ Calm
    BY <1>1, <1>3, <2>1, <2>2, ClosingFor DEF CloseNext, WiringType, Calm
  <2> QED
    BY <2>3, <2>4
<1> QED
  BY <1>2, <1>3, CalmStep DEF NodeInv, Types

-----------------------------------------------------------------------------
(* Data channels.                                                          *)

\* Channels that go down: none opens, and no OnOpen is taken back.
LEMMA Downed ==
  ASSUME WiringType, NEW cs \in SUBSET Conns, ChannelsDown(cs)
  PROVE  /\ chan' \in [Conns -> {"none", "open", "closed"}]
         /\ events' \in [Conns -> SUBSET {"open", "close"}]
         /\ \A d \in Conns :
              /\ "open" \in events'[d] <=> "open" \in events[d]
              /\ chan'[d] = "none" <=> chan[d] = "none"
              /\ chan'[d] = "open" <=> chan[d] = "open" /\ d \notin cs
  BY DEF WiringType, ChannelsDown

LEMMA ChannelUpPreserves ==
  ASSUME NodeInv, NEW c \in Conns, ChannelUp(c), NodeType', UNCHANGED <<verdict, count>>
  PROVE  NodeInv'
<1>1. /\ LoopsType /\ WiringType /\ \A d \in Conns : Orderly(d)
      /\ chan[c] = "none" /\ "open" \notin events[c] /\ ~dcOpen[c] /\ owes[c] = Nil
  BY DEF NodeInv, Types, ChannelUp, Orderly
<1>2. LoopsType' /\ WiringType'
  <2>1. LoopsType'
    BY <1>1 DEF ChannelUp, loops, LoopsType
  <2>2. PICK l \in {"open", "closed"}, es \in SUBSET {"open", "close"} :
          chan' = [chan EXCEPT ![c] = l] /\ events' = [events EXCEPT ![c] = @ \cup es]
    BY DEF ChannelUp
  <2>3. UNCHANGED <<conns, stage, pcs, desc, dcOpen, openCh, closing, hooked, owes>>
    BY DEF ChannelUp
  <2> QED
    BY <1>1, <2>1, <2>2, <2>3 DEF WiringType
<1>3. /\ chan'[c] # "none" /\ "open" \in events'[c]
      /\ \A d \in Conns \ {c} : chan'[d] = chan[d] /\ events'[d] = events[d]
      /\ UNCHANGED <<stage, dcOpen, closing, hooked, owes>>
  BY <1>1 DEF ChannelUp, WiringType
<1>4. \A d \in Conns : Orderly(d)'
  <2>1. Orderly(c)'
    BY <1>1, <1>3 DEF Orderly
  <2>2. ASSUME NEW d \in Conns \ {c} PROVE Orderly(d)'
    BY <1>1, <1>3, <2>2 DEF Orderly
  <2> QED
    BY <2>1, <2>2
<1>5. CountOK'
  <2>1. \A d \in Conns : MayCallBack(d)' => MayCallBack(d)
    BY <1>1, <1>3 DEF MayCallBack
  <2> QED
    BY <2>1, LiveShrinks DEF NodeInv
<1> QED
  BY <1>2, <1>4, <1>5 DEF NodeInv, Types

LEMMA OnOpenPreserves ==
  ASSUME NodeInv, NEW c \in Conns, OnOpen(c), NodeType', UNCHANGED <<verdict, count>>
  PROVE  NodeInv'
<1>1. /\ LoopsType /\ WiringType /\ \A d \in Conns : Orderly(d)
      /\ "open" \in events[c] /\ chan[c] # "none" /\ owes[c] = Nil
  BY DEF NodeInv, Types, OnOpen, Orderly
<1>2. LoopsType' /\ WiringType'
  BY <1>1 DEF OnOpen, loops, LoopsType, WiringType
<1>3. /\ dcOpen'[c] = TRUE /\ "open" \notin events'[c]
      /\ \A d \in Conns \ {c} : dcOpen'[d] = dcOpen[d] /\ events'[d] = events[d]
      /\ UNCHANGED <<stage, chan, closing, hooked, owes>>
  BY <1>1 DEF OnOpen, WiringType
<1>4. \A d \in Conns : Orderly(d)'
  <2>1. Orderly(c)'
    BY <1>1, <1>3 DEF Orderly
  <2>2. ASSUME NEW d \in Conns \ {c} PROVE Orderly(d)'
    BY <1>1, <1>3, <2>2 DEF Orderly
  <2> QED
    BY <2>1, <2>2
<1>5. CountOK'
  <2>1. \A d \in Conns : MayCallBack(d)' => MayCallBack(d)
    BY <1>1, <1>3 DEF MayCallBack
  <2> QED
    BY <2>1, LiveShrinks DEF NodeInv
<1> QED
  BY <1>2, <1>4, <1>5 DEF NodeInv, Types

LEMMA RemoteClosesPreserves ==
  ASSUME NodeInv, NEW c \in Conns, RemoteCloses(c), NodeType', UNCHANGED <<verdict, count>>
  PROVE  NodeInv'
<1>1. LoopsType /\ WiringType /\ \A d \in Conns : Orderly(d)
  BY DEF NodeInv, Types
<1>2. /\ chan' \in [Conns -> {"none", "open", "closed"}]
      /\ events' \in [Conns -> SUBSET {"open", "close"}]
      /\ \A d \in Conns : /\ "open" \in events'[d] <=> "open" \in events[d]
                          /\ chan'[d] = "none" <=> chan[d] = "none"
                          /\ chan'[d] = "open" => chan[d] = "open"
  BY <1>1, Downed DEF RemoteCloses
<1>3. LoopsType' /\ WiringType'
  BY <1>1, <1>2 DEF RemoteCloses, loops, LoopsType, WiringType
<1>4. ASSUME NEW d \in Conns PROVE Orderly(d)' /\ (MayCallBack(d)' => MayCallBack(d))
  BY <1>1, <1>2 DEF RemoteCloses, Orderly, MayCallBack
<1>5. CountOK'
  BY <1>4, LiveShrinks DEF NodeInv
<1> QED
  BY <1>3, <1>4, <1>5 DEF NodeInv, Types

\* Close as far as teardown.  Who finds the connection open takes the callback
\* over from the open flag; the channel of an open connection goes down.
LEMMA CloseEnterPreserves ==
  ASSUME NodeInv, NEW c \in Conns, NEW r \in Reasons, CloseEnter(c, r),
         NodeType', UNCHANGED <<verdict, count>>
  PROVE  NodeInv'
<1>1. LoopsType /\ WiringType /\ \A d \in Conns : Orderly(d)
  BY DEF NodeInv, Types
<1>2. PICK cs \in SUBSET Conns : ChannelsDown(cs) /\ (dcOpen[c] => c \in cs)
  <2>1. CASE c \notin Children /\ ChannelsDown(Family(c))
    BY <2>1 DEF Family, Owner
  <2>2. CASE ChannelsDown(IF dcOpen[c] THEN {c} ELSE {})
    BY <2>2
  <2> QED
    BY <2>1, <2>2 DEF CloseEnter, CloseDown
<1>3. /\ chan' \in [Conns -> {"none", "open", "closed"}]
      /\ events' \in [Conns -> SUBSET {"open", "close"}]
      /\ \A d \in Conns : /\ "open" \in events'[d] <=> "open" \in events[d]
                          /\ chan'[d] = "none" <=> chan[d] = "none"
                          /\ chan'[d] = "open" <=> chan[d] = "open" /\ d \notin cs
  BY <1>1, <1>2, Downed
<1>4. /\ dcOpen' = [dcOpen EXCEPT ![c] = FALSE]
      /\ owes' = [owes EXCEPT ![c] = IF dcOpen[c] /\ c \in hooked THEN r ELSE @]
      /\ closing' = [closing EXCEPT ![c][r] = "unregister"]
      /\ UNCHANGED <<loops, conns, stage, desc, openCh, hooked>>
  BY DEF CloseEnter, CloseDown, GoOn
<1>5. LoopsType'
  BY <1>1, <1>4 DEF loops, LoopsType
<1>6. WiringType'
  <2>1. pcs' = pcs \/ pcs' = [pcs EXCEPT ![c] = "closed"]
    BY DEF CloseEnter, CloseDown
  <2> QED
    BY ZenonT(60), <1>1, <1>3, <1>4, <2>1 DEF WiringType
<1>7. /\ dcOpen'[c] = FALSE
      /\ owes'[c] = (IF dcOpen[c] /\ c \in hooked THEN r ELSE owes[c])
      /\ \A d \in Conns \ {c} : dcOpen'[d] = dcOpen[d] /\ owes'[d] = owes[d]
      /\ \A d \in Conns : \A s \in Reasons :
           closing'[d][s] = "callback" => closing[d][s] = "callback"
  BY <1>1, <1>4 DEF WiringType
<1>8. Nil \notin Reasons
  BY PeerAssumption
<1>9. Orderly(c)' /\ (MayCallBack(c)' => MayCallBack(c))
  BY <1>1, <1>2, <1>3, <1>4, <1>7, <1>8 DEF Orderly, MayCallBack
<1>10. ASSUME NEW d \in Conns \ {c} PROVE Orderly(d)' /\ (MayCallBack(d)' => MayCallBack(d))
  BY <1>1, <1>3, <1>4, <1>7, <1>10 DEF Orderly, MayCallBack
<1>11. CountOK'
  BY <1>9, <1>10, LiveShrinks DEF NodeInv
<1> QED
  BY <1>5, <1>6, <1>9, <1>10, <1>11 DEF NodeInv, Types

LEMMA UnregisterPreserves ==
  ASSUME NodeInv, NEW c \in Conns, NEW r \in Reasons, Unregister(c, r),
         NodeType', UNCHANGED <<verdict, count>>
  PROVE  NodeInv'
<1>1. LoopsType /\ WiringType /\ \A d \in Conns : Orderly(d)
  BY DEF NodeInv, Types
<1>2. LoopsType' /\ WiringType'
  BY <1>1 DEF Unregister, GoOn, loops, LoopsType, WiringType
<1>3. \A d \in Conns : \A s \in Reasons :
        closing'[d][s] = "callback" => closing[d][s] = "callback" \/ owes[d] = s
  BY <1>1 DEF Unregister, GoOn, WiringType
<1>4. ASSUME NEW d \in Conns PROVE Orderly(d)' /\ (MayCallBack(d)' => MayCallBack(d))
  BY <1>1, <1>3 DEF Unregister, Orderly, MayCallBack
<1>5. CountOK'
  BY <1>4, LiveShrinks DEF NodeInv
<1> QED
  BY <1>2, <1>4, <1>5 DEF NodeInv, Types

-----------------------------------------------------------------------------
(* The callbacks of the application.                                       *)

\* onConn counts a connection and judges it by the new count, which is at
\* least the number of accepted connections.
LEMMA CountConnPreserves ==
  ASSUME NodeInv, NEW c \in Conns, CountConn(c), NodeType'
  PROVE  NodeInv'
<1>1. /\ LoopsType /\ WiringType /\ NodeType /\ CountOK /\ \A d \in Conns : Orderly(d)
      /\ verdict[c] = "none"
  BY DEF NodeInv, Types, CountConn, Orderly
<1>2. /\ verdict' \in [Conns -> {"none", "accepted", "rejected"}]
      /\ verdict'[c] \in {"accepted", "rejected"}
      /\ verdict'[c] = "accepted" => count + 1 <= MaxConns
      /\ \A d \in Conns \ {c} : verdict'[d] = verdict[d]
  BY <1>1 DEF CountConn, NodeType
<1>3. /\ closing' \in [Conns -> [Reasons -> {"no", "enter", "unregister", "callback"}]]
      /\ \A d \in Conns : \A s \in Reasons :
           closing'[d][s] = "callback" => closing[d][s] = "callback"
  <2>1. "limit" \in Reasons
    BY DEF Reasons
  <2> QED
    BY <1>1, <2>1, ClosingFor DEF CountConn, WiringType
<1>4. LoopsType'
  BY <1>1 DEF CountConn, loops, LoopsType
<1>5. WiringType'
  BY ZenonT(60), <1>1, <1>3 DEF CountConn, WiringType, Enter
<1>6. /\ stage'[c] = (IF verdict'[c] = "accepted" THEN "install" ELSE "limit")
      /\ \A d \in Conns \ {c} : stage'[d] = stage[d]
      /\ UNCHANGED <<chan, dcOpen, events, hooked, owes>>
  BY <1>1 DEF CountConn, Enter, WiringType, NodeType
<1>7. ASSUME NEW d \in Conns PROVE Orderly(d)'
  <2>1. CASE d = c
    BY <1>1, <1>2, <1>3, <1>6, <2>1 DEF Orderly
  <2>2. CASE d # c
    BY <1>1, <1>2, <1>3, <1>6, <2>2 DEF Orderly
  <2> QED
    BY <2>1, <2>2
<1>8. CountOK'
  <2>1. count' = count + 1 /\ count \in Nat /\ MaxConns \in Nat
    BY <1>1, NodeAssumption DEF CountConn, CountOK
  <2>2. /\ Counted' = Counted \cup {c} /\ c \notin Counted
        /\ Live' \subseteq Live \cup {c} /\ c \notin Live
        /\ LiveAccepted' \subseteq Live \cup {c}
        /\ verdict'[c] # "accepted" => LiveAccepted' \subseteq LiveAccepted
    BY <1>1, <1>2, <1>6 DEF Counted, Live, LiveAccepted, MayCallBack
  <2>3. /\ IsFiniteSet(Counted') /\ Cardinality(Counted') = Cardinality(Counted) + 1
        /\ IsFiniteSet(Live \cup {c})
        /\ Cardinality(Live \cup {c}) = Cardinality(Live) + 1
    BY <1>1, <2>2, LiveIsFinite, FS_AddElement DEF CountOK
  <2>4. /\ Cardinality(Live') \in Nat /\ Cardinality(Live') <= Cardinality(Live) + 1
        /\ Cardinality(LiveAccepted') \in Nat
        /\ Cardinality(LiveAccepted') <= Cardinality(Live) + 1
    BY <2>2, <2>3, FS_Subset, FS_CardinalityType
  <2>5. verdict'[c] # "accepted" => Cardinality(LiveAccepted') <= Cardinality(LiveAccepted)
    BY <1>1, <2>2, LiveIsFinite, FS_Subset DEF CountOK
  <2>6. /\ Cardinality(Live) \in Nat /\ Cardinality(LiveAccepted) \in Nat
        /\ Cardinality(Counted) \in Nat
        /\ Cardinality(Live) <= count /\ count <= Cardinality(Counted)
        /\ Cardinality(LiveAccepted) <= MaxConns
    BY <1>1, LiveIsFinite DEF CountOK
  <2>7. Cardinality(LiveAccepted') <= MaxConns
    BY <1>2, <2>1, <2>4, <2>5, <2>6
  <2> QED
    BY <2>1, <2>3, <2>4, <2>6, <2>7 DEF CountOK
<1> QED
  BY <1>4, <1>5, <1>7, <1>8 DEF NodeInv, Types

\* The callback of a connection that was live, which it is no longer.
LEMMA ConnClosedPreserves ==
  ASSUME NodeInv, NEW c \in Conns, NEW r \in Reasons, ConnClosed(c, r), NodeType'
  PROVE  NodeInv'
<1>1. /\ LoopsType /\ WiringType /\ NodeType /\ CountOK /\ \A d \in Conns : Orderly(d)
      /\ closing[c][r] = "callback"
  BY DEF NodeInv, Types, ConnClosed, CalledBack, At
<1>2. /\ owes[c] = r /\ r # Nil /\ verdict[c] = "accepted" /\ chan[c] # "none"
      /\ "open" \notin events[c] /\ ~dcOpen[c]
  BY <1>1, PeerAssumption DEF Orderly
<1>3. LoopsType' /\ WiringType'
  BY <1>1 DEF ConnClosed, CalledBack, GoOn, loops, LoopsType, WiringType
<1>4. /\ owes'[c] = Nil /\ \A d \in Conns \ {c} : owes'[d] = owes[d]
      /\ \A d \in Conns : \A s \in Reasons :
           closing'[d][s] = "callback" => closing[d][s] = "callback" /\ (d = c => s # r)
      /\ UNCHANGED <<stage, chan, dcOpen, events, hooked, verdict>>
  BY <1>1 DEF ConnClosed, CalledBack, GoOn, WiringType
<1>5. ASSUME NEW d \in Conns PROVE Orderly(d)'
  <2>1. CASE d = c
    BY <1>1, <1>2, <1>4, <2>1 DEF Orderly
  <2>2. CASE d # c
    BY <1>1, <1>4, <2>2 DEF Orderly
  <2> QED
    BY <2>1, <2>2
<1>6. CountOK'
  <2>1. /\ Counted' = Counted /\ c \in Live
        /\ Live' \subseteq Live \ {c} /\ LiveAccepted' \subseteq LiveAccepted
    BY <1>2, <1>4 DEF Counted, Live, LiveAccepted, MayCallBack
  <2>2. /\ IsFiniteSet(Live \ {c})
        /\ Cardinality(Live \ {c}) = Cardinality(Live) - 1
    BY <1>1, <2>1, LiveIsFinite, FS_RemoveElement DEF CountOK
  <2>3. /\ Cardinality(Live') \in Nat /\ Cardinality(Live') <= Cardinality(Live) - 1
        /\ Cardinality(LiveAccepted') \in Nat
        /\ Cardinality(LiveAccepted') <= Cardinality(LiveAccepted)
    BY <1>1, <2>1, <2>2, LiveIsFinite, FS_Subset, FS_CardinalityType DEF CountOK
  <2>4. /\ Cardinality(Live) \in Nat /\ Cardinality(LiveAccepted) \in Nat
        /\ Cardinality(Counted) \in Nat /\ IsFiniteSet(Counted) /\ count \in Nat
        /\ Cardinality(Live) <= count /\ count <= Cardinality(Counted)
        /\ Cardinality(LiveAccepted) <= MaxConns /\ MaxConns \in Nat
    BY <1>1, LiveIsFinite, NodeAssumption DEF CountOK
  <2>5. count' = count - 1
    BY DEF ConnClosed
  <2> QED
    BY <2>1, <2>3, <2>4, <2>5 DEF CountOK
<1> QED
  BY <1>3, <1>5, <1>6 DEF NodeInv, Types

\* The callbacks are installed on an accepted connection.
LEMMA InstallPreserves ==
  ASSUME NodeInv, NEW c \in Conns, Install(c), NodeType'
  PROVE  NodeInv'
<1>1. /\ LoopsType /\ WiringType /\ CountOK /\ \A d \in Conns : Orderly(d)
      /\ verdict[c] = "accepted"
  BY DEF NodeInv, Types, Install, Orderly
<1>2. AfterOnConn(c) \in {"done", "makepc"}
  BY DEF AfterOnConn
<1>3. LoopsType' /\ WiringType'
  BY <1>1, <1>2 DEF Install, Enter, loops, LoopsType, WiringType
<1>4. /\ stage'[c] \in {"done", "makepc"} /\ \A d \in Conns \ {c} : stage'[d] = stage[d]
      /\ hooked' = hooked \cup {c}
      /\ UNCHANGED <<chan, dcOpen, events, closing, owes, verdict, count>>
  BY <1>1, <1>2 DEF Install, Enter, WiringType
<1>5. ASSUME NEW d \in Conns PROVE Orderly(d)' /\ (MayCallBack(d)' => MayCallBack(d))
  <2>1. CASE d = c
    BY <1>1, <1>4, <2>1 DEF Orderly, MayCallBack
  <2>2. CASE d # c
    BY <1>1, <1>4, <2>2 DEF Orderly, MayCallBack
  <2> QED
    BY <2>1, <2>2
<1>6. CountOK'
  BY <1>4, <1>5, LiveShrinks DEF NodeInv
<1> QED
  BY <1>3, <1>5, <1>6 DEF NodeInv, Types

\* An offer or a further channel reaches onConn.
LEMMA AcceptPreserves ==
  ASSUME NodeInv, Accept
  PROVE  NodeInv'
<1>1. LoopsType /\ WiringType
  BY DEF NodeInv, Types
<1>2. NodeType' /\ UNCHANGED <<verdict, count>>
  BY DEF Accept, nodeVars, NodeInv, Types, NodeType
<1>3. ASSUME NEW c \in Conns, stage[c] = "no", Enter(c, "count"), conns' = conns \cup {c},
             UNCHANGED <<loops, pcs, desc, chan, dcOpen, openCh, events, closing, hooked, owes>>
      PROVE  LoopsType' /\ WiringType' /\ Calm
  <2>1. LoopsType'
    BY <1>1, <1>3 DEF loops, LoopsType
  <2>2. WiringType' /\ Calm
    BY <1>1, <1>2, <1>3, Entered DEF WiringType, Calm
  <2> QED
    BY <2>1, <2>2
<1>4. CASE Offered("count")
  <2>1. job.conn \in Inbound
    BY <1>1, <1>4, MessageParts DEF Offered, LoopsType
  <2> QED
    BY <1>2, <1>3, <1>4, <2>1, CalmStep DEF Offered, Conns, NodeInv, Types
<1>5. ASSUME NEW k \in Children, NewChild(k, "count") PROVE NodeInv'
  BY <1>2, <1>3, <1>5, CalmStep DEF NewChild, Conns, NodeInv, Types
<1> QED
  BY <1>4, <1>5 DEF Accept

\* The Close of a rejected connection has returned, a hello arrives or does
\* not, a frame is refused.
LEMMA TalkingPreserves ==
  ASSUME NodeInv, NEW c \in Conns,
         Rejected(c) \/ HelloTimeout(c) \/ Hello(c) \/ (Refuse(c) /\ UNCHANGED <<verdict, count>>),
         NodeType'
  PROVE  NodeInv'
<1>1. LoopsType /\ WiringType
  BY DEF NodeInv, Types
<1>2. UNCHANGED loops => LoopsType'
  BY <1>1 DEF loops, LoopsType
<1>3. {"refuse", "hello"} \subseteq Reasons
  BY DEF Reasons
<1> DEFINE Goal == LoopsType' /\ WiringType' /\ Calm
<1>4. ASSUME Rejected(c) PROVE Goal
  <2>1. PICK l \in {"done", "makepc"} : Enter(c, l)
    BY <1>4 DEF Rejected, AfterOnConn
  <2> QED
    BY <1>1, <1>2, <1>4, <2>1, Entered DEF Rejected, nodeVars, WiringType, Calm
<1>5. ASSUME HelloTimeout(c) PROVE Goal
  BY <1>1, <1>2, <1>3, <1>5, ClosingFor DEF HelloTimeout, WiringType, Calm
<1>6. ASSUME Hello(c) PROVE Goal
  BY <1>1, <1>2, <1>6 DEF Hello, peerVars, wiring, WiringType, Calm
<1>7. ASSUME Refuse(c), UNCHANGED <<verdict, count>> PROVE Goal
  BY <1>1, <1>2, <1>3, <1>7, ClosingFor DEF Refuse, WiringType, Calm
<1> QED
  BY <1>4, <1>5, <1>6, <1>7, CalmStep DEF NodeInv, Types

-----------------------------------------------------------------------------
(* The invariant.                                                          *)

LEMMA NodeInit == Init => NodeInv
<1> SUFFICES ASSUME Init PROVE NodeInv
  OBVIOUS
<1>1. LoopsType
  <2>1. msgs \in Seq(Messages) /\ Len(msgs) <= MaxMsgs
    BY PeerAssumption DEF Init, PeerInit
  <2>2. gather \in [{"leave", "peer"} -> SUBSET Conns]
    BY DEF Init, PeerInit
  <2> QED
    BY <2>1, <2>2 DEF Init, PeerInit, LoopsType
<1>2. WiringType
  BY DEF Init, PeerInit, WiringType
<1>3. NodeType
  BY NodeAssumption DEF Init, NodeType
<1>4. \A c \in Conns : Orderly(c)
  BY DEF Init, PeerInit, Orderly
<1>5. Counted = {} /\ Live = {} /\ LiveAccepted = {}
  BY DEF Init, Counted, Live, LiveAccepted
<1>6. CountOK
  BY <1>5, FS_EmptySet, NodeAssumption DEF Init, CountOK
<1> QED
  BY <1>1, <1>2, <1>3, <1>4, <1>6 DEF NodeInv, Types

\* What the peer and pion do, in the node or as a fault.
LEMMA PeerPreserves ==
  ASSUME NodeInv, PeerStep \/ PeerEnv \/ PeerFault, NodeType', UNCHANGED <<verdict, count>>
  PROVE  NodeInv'
<1>1. CASE Looping
  BY <1>1, LoopingPreserves
<1>2. CASE HandleAnswer \/ \E r \in {"leave", "peer"} : CloseNext(r)
  BY <1>2, HandlingPreserves
<1>3. CASE \E c \in Conns : SettingUp(c)
  BY <1>3, SettingUpPreserves
<1>4. CASE \E c \in Conns : ChannelUp(c) \/ OnOpen(c) \/ RemoteCloses(c)
  BY <1>4, ChannelUpPreserves, OnOpenPreserves, RemoteClosesPreserves
<1>5. CASE \E c \in Conns, r \in Reasons : CloseEnter(c, r) \/ Unregister(c, r)
  BY <1>5, CloseEnterPreserves, UnregisterPreserves
<1>6. CASE PeerStep
  BY <1>1, <1>2, <1>3, <1>4, <1>5, <1>6 DEF PeerStep, Looping, SettingUp
<1>7. CASE PeerEnv
  BY <1>1, <1>3, <1>7 DEF PeerEnv, Looping, SettingUp
<1>8. CASE PeerFault
  BY <1>1, <1>3, <1>4, <1>8 DEF PeerFault, Looping, SettingUp
<1> QED
  BY <1>6, <1>7, <1>8

LEMMA NodeTypes ==
  ASSUME NodeInv, [Next]_vars
  PROVE  NodeType'
<1>1. NodeType
  BY DEF NodeInv, Types
<1>2. UNCHANGED nodeVars => NodeType'
  BY <1>1 DEF nodeVars, NodeType
<1>3. ASSUME Fault PROVE NodeType'
  BY <1>1, <1>3, NodeAssumption DEF Fault, Refuse, NodeType
<1>4. ASSUME NEW c \in Conns, CountConn(c) PROVE NodeType'
  BY <1>1, <1>4 DEF CountConn, NodeType
<1>5. ASSUME NEW c \in Conns, Install(c) \/ HelloTimeout(c) PROVE NodeType'
  BY <1>1, <1>5 DEF Install, HelloTimeout, NodeType
<1>6. ASSUME NEW c \in Conns, NEW r \in Reasons, ConnClosed(c, r) PROVE NodeType'
  BY <1>1, <1>6 DEF ConnClosed, NodeType
<1>7. ASSUME NEW c \in Conns, Hello(c) PROVE NodeType'
  BY <1>1, <1>7 DEF Hello, NodeType
<1> QED
  BY <1>2, <1>3, <1>4, <1>5, <1>6, <1>7 DEF Next, NodeStep, Accept, Rejected, vars

LEMMA NodeStepPreserves == NodeInv /\ [Next]_vars => NodeInv'
<1> SUFFICES ASSUME NodeInv, [Next]_vars PROVE NodeInv'
  OBVIOUS
<1>1. NodeType'
  BY NodeTypes
<1>2. ASSUME PeerStep \/ PeerEnv, UNCHANGED nodeVars PROVE NodeInv'
  BY <1>1, <1>2, PeerPreserves DEF nodeVars
<1>3. CASE Accept
  BY <1>3, AcceptPreserves
<1>4. ASSUME NEW c \in Conns,
             CountConn(c) \/ Install(c) \/ \E r \in Reasons : ConnClosed(c, r)
      PROVE  NodeInv'
  BY <1>1, <1>4, CountConnPreserves, InstallPreserves, ConnClosedPreserves
<1>5. ASSUME NEW c \in Conns, Rejected(c) \/ HelloTimeout(c) \/ Hello(c) PROVE NodeInv'
  BY <1>1, <1>5, TalkingPreserves
<1>6. CASE Fault
  <2>1. UNCHANGED <<verdict, count>>
    BY <1>6 DEF Fault
  <2>2. ASSUME NEW c \in Conns, Refuse(c) PROVE NodeInv'
    BY <1>1, <2>1, <2>2, TalkingPreserves
  <2> QED
    BY <1>1, <1>6, <2>1, <2>2, PeerPreserves DEF Fault
<1>7. CASE UNCHANGED vars
  <2>1. LoopsType' /\ WiringType' /\ Calm
    BY <1>7 DEF vars, peerVars, nodeVars, loops, wiring, NodeInv, Types, LoopsType,
                WiringType, Calm
  <2> QED
    BY <1>1, <2>1, CalmStep DEF NodeInv, Types
<1> QED
  BY <1>2, <1>3, <1>4, <1>5, <1>6, <1>7 DEF Next, NodeStep

THEOREM NodeInvariant == Spec => []NodeInv
  BY NodeInit, NodeStepPreserves, PTL DEF Spec

-----------------------------------------------------------------------------

\* Types, and that the counter stays between 0 and the number of connections
\* that onConn has judged.
THEOREM NodeTypeCorrect == Spec => []TypeOK
<1>1. ASSUME NodeInv PROVE TypeOK
  <2>1. count \in 0..Cardinality(Counted)
    BY <1>1, LiveIsFinite DEF NodeInv, CountOK
  <2> QED
    BY <1>1, <2>1 DEF NodeInv, Types, NodeType, TypeOK, PeerTypeOK, Counted
<1> QED
  BY <1>1, NodeInvariant, PTL

\* Never are more than MaxConns accepted connections open, for any limit and
\* however many connections are offered, closed and lost at once
\* (node.go:360-369, 381-386).
THEOREM AlwaysWithinLimit == Spec => []AcceptedWithinLimit
<1>1. ASSUME NodeInv PROVE AcceptedWithinLimit
  <2> DEFINE Open == {c \in Conns : verdict[c] = "accepted" /\ chan[c] = "open"}
  <2>1. Open \subseteq LiveAccepted
    BY <1>1 DEF NodeInv, Orderly, LiveAccepted, Live, Counted, MayCallBack
  <2>2. IsFiniteSet(LiveAccepted) /\ Cardinality(LiveAccepted) \in Nat
        /\ Cardinality(LiveAccepted) <= MaxConns
    BY <1>1, LiveIsFinite DEF NodeInv, CountOK
  <2>3. Cardinality(Open) <= Cardinality(LiveAccepted) /\ Cardinality(Open) \in Nat
    BY <2>1, <2>2, FS_Subset, FS_CardinalityType
  <2> HIDE DEF Open
  <2>4. Cardinality(Open) <= MaxConns
    BY <2>2, <2>3, NodeAssumption
  <2> QED
    BY <2>4 DEF AcceptedWithinLimit, Open
<1> QED
  BY <1>1, NodeInvariant, PTL
=============================================================================
