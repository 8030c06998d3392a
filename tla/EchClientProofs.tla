-------------------------- MODULE EchClientProofs --------------------------
(***************************************************************************)
(* The ECH client and the shared library for any number of calling threads,*)
(* start-up goroutines, handles and keys.  Three facts make the safety     *)
(* properties inductive: one start-up goroutine at a time is away from     *)
(* idle, the refresh loop is counted exactly when that goroutine has       *)
(* stored its client, and a thread about to delete a handle comes after    *)
(* the one that closed the body.                                           *)
(***************************************************************************)
EXTENDS EchClient, FiniteSetTheorems, TLAPS

Tables ==
  /\ pc \in [Threads -> Places] /\ hand \in [Callers -> Handles \cup {None}]
  /\ initing \in BOOLEAN /\ initDone \in BOOLEAN

OneAtATime == \A g, h \in Inits : ~Idle(g) /\ ~Idle(h) => g = h

InitingMeansWork == initing /\ ~initDone <=> \E g \in Inits : ~Idle(g)

\* The goroutine has made its client and started the loop.
HasStored(g) == pc[g] \in {"stored", "clear"}

LoopIsCounted ==
  /\ loops = IF initDone \/ \E g \in Inits : HasStored(g) THEN 1 ELSE 0
  /\ loops = 1 => client # None

HandlesInOrder ==
  /\ once \subseteq closed /\ returned \subseteq once
  /\ open \cap once = {} /\ returned \cap valid = {}
  /\ \A c \in Callers : /\ pc[c] = "close" => hand[c] \in closed
                        /\ pc[c] = "delete" => hand[c] \in once

ClientInv == Tables /\ OneAtATime /\ InitingMeansWork /\ LoopIsCounted /\ HandlesInOrder

-----------------------------------------------------------------------------
\* No thread is of two kinds.
LEMMA Kinds ==
  /\ \A c \in Callers : c \in Threads /\ c \notin Inits /\ c # Refresh
  /\ \A g \in Inits : g \in Threads /\ g \notin Callers /\ g # Refresh
  /\ Refresh \in Threads /\ Refresh \notin Inits /\ Refresh \notin Callers
  BY ClientAssumption DEF Threads

\* At the start every goroutine is idle.
LEMMA InitOK == Init => ClientInv
<1> SUFFICES ASSUME Init PROVE ClientInv
  OBVIOUS
<1>1. \A t \in Threads : t # Refresh => pc[t] = "idle"
  BY DEF Init
<1>2. \A g \in Inits : Idle(g) /\ ~HasStored(g)
  BY <1>1, Kinds DEF Idle, HasStored
<1>3. Tables
  <2>1. pc \in [Threads -> Places] /\ hand \in [Callers -> Handles \cup {None}]
    BY DEF Init, Places
  <2>2. initing \in BOOLEAN /\ initDone \in BOOLEAN
    BY DEF Init
  <2> QED
    BY <2>1, <2>2 DEF Tables
<1>4. HandlesInOrder
  BY <1>1, Kinds DEF Init, HandlesInOrder
<1> QED
  BY <1>2, <1>3, <1>4
     DEF Init, ClientInv, OneAtATime, InitingMeansWork, LoopIsCounted

\* A thread goes on, and nothing the invariant speaks of changes with it.
LEMMA Moves ==
  ASSUME ClientInv, NEW t \in Threads, NEW s \in Places, pc' = [pc EXCEPT ![t] = s],
         UNCHANGED <<hand, loops, initState, handles>>,
         client # None => client' # None,
         t \in Inits => /\ pc[t] # "idle" /\ s # "idle"
                        /\ pc[t] \in {"stored", "clear"} <=> s \in {"stored", "clear"},
         t \in Callers => s # "close" /\ s # "delete"
  PROVE  ClientInv'
<1>1. pc'[t] = s /\ \A u \in Threads \ {t} : pc'[u] = pc[u]
  BY DEF ClientInv, Tables
<1>2. UNCHANGED <<initing, initDone, loops, hand, valid, closed, open, once, returned>>
  BY DEF initState, handles
<1>3. Tables'
  BY <1>2 DEF ClientInv, Tables
<1>4. \A g \in Inits : (Idle(g)' <=> Idle(g)) /\ (HasStored(g)' <=> HasStored(g))
  BY <1>1, Kinds DEF Idle, HasStored
<1>5. OneAtATime' /\ InitingMeansWork'
  BY <1>2, <1>4 DEF ClientInv, OneAtATime, InitingMeansWork
<1>6. LoopIsCounted'
  BY <1>2, <1>4 DEF ClientInv, LoopIsCounted
<1>7. HandlesInOrder'
  BY <1>1, <1>2, Kinds DEF ClientInv, HandlesInOrder
<1> QED
  BY <1>3, <1>5, <1>6, <1>7 DEF ClientInv

\* fetchECHConfig, by whichever thread.
LEMMA FetchOK ==
  ASSUME ClientInv, NEW t \in Threads, Fetch(t)
  PROVE  ClientInv'
<1>1. UNCHANGED <<hand, client, loops, initState, handles>>
  BY DEF Fetch, CacheHit, CacheMiss, LoadConfig, StoreDefault, AskDoH, StoreKey, AskFails
<1>2. PICK s \in {"fetched", "config", "default", "ask", "answer"} :
        pc' = [pc EXCEPT ![t] = s]
  BY DEF Fetch, CacheHit, CacheMiss, LoadConfig, StoreDefault, AskDoH, StoreKey, AskFails, Goto
<1>3. pc[t] \in {"fetch", "config", "default", "ask", "answer"}
  BY DEF Fetch, CacheHit, CacheMiss, LoadConfig, StoreDefault, AskDoH, StoreKey, AskFails, Goto
<1> QED
  BY <1>1, <1>2, <1>3, Moves DEF Places

\* The steps of the refresh loop and of callers that change no handle.
LEMMA OthersOK ==
  ASSUME ClientInv,
         \/ Tick \/ Swap \/ RefreshFails
         \/ \E c \in Callers : \/ \E u \in Urls : SetDohURL(c, u)
                               \/ StoreURL(c) \/ ECHFetchBegin(c) \/ CompareAndSwap(c)
                               \/ NewFails(c) \/ BeginFails(c)
  PROVE  ClientInv'
<1>1. CASE Tick \/ Swap \/ RefreshFails
  <2>1. PICK s \in {"fetch", "wait"} : pc' = [pc EXCEPT ![Refresh] = s]
    BY <1>1 DEF Tick, Swap, RefreshFails, Goto
  <2>2. UNCHANGED <<hand, loops, initState, handles>> /\ (client # None => client' # None)
    BY <1>1 DEF Tick, Swap, RefreshFails
  <2> QED
    BY <2>1, <2>2, Kinds, Moves DEF Places
<1>2. ASSUME NEW c \in Callers,
             \/ \E u \in Urls : SetDohURL(c, u)
             \/ StoreURL(c) \/ ECHFetchBegin(c) \/ CompareAndSwap(c)
             \/ NewFails(c) \/ BeginFails(c)
      PROVE  ClientInv'
  <2>1. PICK s \in {"idle", "set", "fetch", "send"} : pc' = [pc EXCEPT ![c] = s]
    BY <1>2 DEF SetDohURL, StoreURL, ECHFetchBegin, CompareAndSwap, NewFails, BeginFails, Goto
  <2>2. UNCHANGED <<hand, loops, initState, handles>> /\ (client # None => client' # None)
    BY <1>2 DEF SetDohURL, StoreURL, ECHFetchBegin, CompareAndSwap, NewFails, BeginFails
  <2> QED
    BY <2>1, <2>2, Kinds, Moves DEF Places
<1> QED
  BY <1>1, <1>2

-----------------------------------------------------------------------------
(* ECHInit and its goroutine.                                              *)

\* ECHInit starts a goroutine where there was none.
LEMMA StartOK ==
  ASSUME ClientInv, NEW c \in Callers, ECHInit(c)
  PROVE  ClientInv'
<1>1. /\ ~initDone /\ ~initing /\ initing' = TRUE
      /\ UNCHANGED <<initDone, hand, client, loops, valid, closed, open, once, returned>>
  BY DEF ECHInit, handles
<1>2. PICK g \in Inits : pc' = [pc EXCEPT ![g] = "fetch"]
  BY DEF ECHInit, Goto
<1>3. g \in Threads /\ pc'[g] = "fetch" /\ \A u \in Threads \ {g} : pc'[u] = pc[u]
  BY <1>2, Kinds DEF ClientInv, Tables
<1>4. \A h \in Inits : Idle(h)
  BY <1>1 DEF ClientInv, InitingMeansWork
<1>5. \A h \in Inits : (Idle(h)' <=> h # g) /\ ~HasStored(h)' /\ ~HasStored(h)
  BY <1>3, <1>4, Kinds DEF Idle, HasStored
<1>6. Tables'
  <2>1. pc' \in [Threads -> Places]
    BY <1>2 DEF ClientInv, Tables, Places
  <2>2. hand' \in [Callers -> Handles \cup {None}]
    BY <1>1 DEF ClientInv, Tables
  <2>3. initing' \in BOOLEAN /\ initDone' \in BOOLEAN
    BY <1>1 DEF ClientInv, Tables
  <2> QED
    BY <2>1, <2>2, <2>3 DEF Tables
<1>7. OneAtATime' /\ InitingMeansWork' /\ LoopIsCounted'
  BY <1>1, <1>5 DEF ClientInv, OneAtATime, InitingMeansWork, LoopIsCounted
<1>8. HandlesInOrder'
  BY <1>1, <1>3, Kinds DEF ClientInv, HandlesInOrder
<1> QED
  BY <1>6, <1>7, <1>8 DEF ClientInv

\* The goroutine stores its client and starts the loop: it is the only one.
LEMMA InitStoreOK ==
  ASSUME ClientInv, NEW g \in Inits, InitStore(g)
  PROVE  ClientInv'
<1>1. /\ pc[g] = "fetched" /\ loops' = loops + 1 /\ client' # None
      /\ UNCHANGED <<initing, initDone, hand, valid, closed, open, once, returned>>
  BY DEF InitStore, initState, handles
<1>2. PICK s \in {pc[Refresh], "wait"} :
        pc' = [pc EXCEPT ![g] = "stored", ![Refresh] = s]
  BY DEF InitStore
<1>3. pc'[g] = "stored" /\ \A u \in Threads \ {g, Refresh} : pc'[u] = pc[u]
  BY <1>2, Kinds DEF ClientInv, Tables
<1>4. ~Idle(g) /\ ~initDone /\ \A h \in Inits : h # g => Idle(h)
  BY <1>1 DEF ClientInv, OneAtATime, InitingMeansWork, Idle
<1>5. \A h \in Inits : ~HasStored(h)
  BY <1>1, <1>4 DEF Idle, HasStored
<1>6. \A h \in Inits : Idle(h)' <=> Idle(h)
  BY <1>1, <1>3, Kinds DEF Idle
<1>7. HasStored(g)'
  BY <1>3 DEF HasStored
<1>8. Tables'
  <2>1. "stored" \in Places /\ s \in Places
    BY Kinds DEF ClientInv, Tables, Places
  <2>2. pc' \in [Threads -> Places]
    BY <1>2, <2>1 DEF ClientInv, Tables
  <2> QED
    BY <1>1, <2>2 DEF ClientInv, Tables
<1>9. LoopIsCounted'
  BY <1>1, <1>4, <1>5, <1>7 DEF ClientInv, LoopIsCounted
<1>10. OneAtATime' /\ InitingMeansWork'
  BY <1>1, <1>6 DEF ClientInv, OneAtATime, InitingMeansWork
<1>11. HandlesInOrder'
  BY <1>1, <1>3, Kinds DEF ClientInv, HandlesInOrder
<1> QED
  BY <1>8, <1>9, <1>10, <1>11 DEF ClientInv

\* The goroutine ends, successful or not.
LEMMA InitEndsOK ==
  ASSUME ClientInv, NEW g \in Inits, InitDone(g) \/ InitMayRetry(g)
  PROVE  ClientInv'
<1>1. /\ pc' = [pc EXCEPT ![g] = "idle"]
      /\ UNCHANGED <<client, loops, hand, valid, closed, open, once, returned>>
  BY DEF InitDone, InitMayRetry, Goto, handles
<1>2. g \in Threads /\ pc'[g] = "idle" /\ \A u \in Threads \ {g} : pc'[u] = pc[u]
  BY <1>1, Kinds DEF ClientInv, Tables
<1>3. ~Idle(g) /\ initing /\ ~initDone /\ \A h \in Inits : h # g => Idle(h)
  BY DEF InitDone, InitMayRetry, Goto, ClientInv, OneAtATime, InitingMeansWork, Idle
<1>4. \A h \in Inits : Idle(h)' /\ ~HasStored(h)' /\ (HasStored(h) => h = g)
  BY <1>2, <1>3, Kinds DEF Idle, HasStored
<1>5. \/ HasStored(g) /\ initDone' = TRUE
      \/ ~HasStored(g) /\ initing' = FALSE /\ initDone' = initDone
  BY DEF InitDone, InitMayRetry, Goto, HasStored
<1>6. Tables'
  <2>1. pc' \in [Threads -> Places]
    BY <1>1 DEF ClientInv, Tables, Places
  <2>2. hand' \in [Callers -> Handles \cup {None}]
    BY <1>1 DEF ClientInv, Tables
  <2>3. initing' \in BOOLEAN
    BY DEF InitDone, InitMayRetry, ClientInv, Tables
  <2>4. initDone' \in BOOLEAN
    BY DEF InitDone, InitMayRetry, ClientInv, Tables
  <2> QED
    BY <2>1, <2>2, <2>3, <2>4 DEF Tables
<1>7. OneAtATime' /\ InitingMeansWork'
  BY <1>4, <1>5 DEF OneAtATime, InitingMeansWork
<1>8. LoopIsCounted'
  BY <1>1, <1>3, <1>4, <1>5 DEF ClientInv, LoopIsCounted
<1>9. HandlesInOrder'
  BY <1>1, <1>2, Kinds DEF ClientInv, HandlesInOrder
<1> QED
  BY <1>6, <1>7, <1>8, <1>9 DEF ClientInv

\* A step of the goroutine that only goes on.
LEMMA InitGoesOnOK ==
  ASSUME ClientInv, NEW g \in Inits, InitClears(g) \/ InitFails(g)
  PROVE  ClientInv'
<1>1. /\ UNCHANGED <<hand, client, loops, initing, initDone, valid, closed, open, once, returned>>
      /\ \/ pc[g] = "stored" /\ pc' = [pc EXCEPT ![g] = "clear"]
         \/ pc[g] = "fetched" /\ pc' = [pc EXCEPT ![g] = "failed"]
  BY DEF InitClears, InitFails, Goto, handles
<1>2. \A u \in Threads \ {g} : pc'[u] = pc[u]
  BY <1>1 DEF ClientInv, Tables
<1>3. pc'[g] \in {"clear", "failed"} /\ pc[g] \in {"stored", "fetched"}
      /\ (pc'[g] = "clear" <=> pc[g] = "stored")
  BY <1>1, Kinds DEF ClientInv, Tables
<1>4. \A h \in Inits : (Idle(h)' <=> Idle(h)) /\ (HasStored(h)' <=> HasStored(h))
  BY <1>2, <1>3, Kinds DEF Idle, HasStored
<1>5. Tables'
  BY <1>1 DEF ClientInv, Tables, Places
<1>6. OneAtATime' /\ InitingMeansWork' /\ LoopIsCounted'
  BY <1>1, <1>4 DEF ClientInv, OneAtATime, InitingMeansWork, LoopIsCounted
<1>7. HandlesInOrder'
  BY <1>1, <1>2, Kinds DEF ClientInv, HandlesInOrder
<1> QED
  BY <1>5, <1>6, <1>7 DEF ClientInv

-----------------------------------------------------------------------------
(* Handles.                                                                *)

\* A step of a caller that starts nothing: what is left to show is about
\* handles.
LEMMA CallerMoves ==
  ASSUME ClientInv, NEW c \in Callers, NEW s \in Places, pc' = [pc EXCEPT ![c] = s],
         UNCHANGED <<client, loops, initState>>, hand' \in [Callers -> Handles \cup {None}],
         HandlesInOrder'
  PROVE  ClientInv'
<1>1. c \in Threads /\ \A g \in Inits : pc'[g] = pc[g]
  BY Kinds DEF ClientInv, Tables
<1>2. UNCHANGED <<initing, initDone, loops, client>>
  BY DEF initState
<1>3. Tables'
  BY <1>2 DEF ClientInv, Tables
<1>4. \A g \in Inits : (Idle(g)' <=> Idle(g)) /\ (HasStored(g)' <=> HasStored(g))
  BY <1>1 DEF Idle, HasStored
<1>5. OneAtATime' /\ InitingMeansWork' /\ LoopIsCounted'
  BY <1>2, <1>4 DEF ClientInv, OneAtATime, InitingMeansWork, LoopIsCounted
<1> QED
  BY <1>3, <1>5 DEF ClientInv

\* A handle is given out, or read.
LEMMA BeginAndReadOK ==
  ASSUME ClientInv, NEW c \in Callers,
         Begun(c) \/ ReadBody(c) \/ \E h \in Handles : ECHRead(c, h)
  PROVE  ClientInv'
<1>1. PICK s \in {"idle", "read"} : pc' = [pc EXCEPT ![c] = s]
  BY DEF Begun, ReadBody, ECHRead, Take, Goto
<1>2. UNCHANGED <<client, loops, initState, closed, once, returned>>
  BY DEF Begun, ReadBody, ECHRead, handles
<1>3. c \in Threads /\ pc'[c] = s /\ \A d \in Callers \ {c} : pc'[d] = pc[d]
  BY <1>1, Kinds DEF ClientInv, Tables
<1>4. /\ hand' \in [Callers -> Handles \cup {None}]
      /\ \A d \in Callers \ {c} : hand'[d] = hand[d]
  BY DEF Begun, ReadBody, ECHRead, Take, Drop, ClientInv, Tables
<1>5. \/ UNCHANGED <<valid, open>>
      \/ \E h \in Handles \ (valid \cup closed) :
           valid' = valid \cup {h} /\ open' = open \cup {h}
  BY DEF Begun, ReadBody, ECHRead, handles
<1>6. HandlesInOrder'
  <2>1. \A d \in Callers : /\ pc'[d] = "close" => hand'[d] \in closed
                           /\ pc'[d] = "delete" => hand'[d] \in once
    BY <1>3, <1>4 DEF ClientInv, HandlesInOrder
  <2>2. open' \cap once = {} /\ returned \cap valid' = {}
    BY <1>5 DEF ClientInv, HandlesInOrder
  <2> QED
    BY <1>2, <2>1, <2>2 DEF ClientInv, HandlesInOrder
<1> QED
  BY <1>1, <1>2, <1>4, <1>6, CallerMoves DEF Places

\* A thread enters ECHClose.
LEMMA CloseOK ==
  ASSUME ClientInv, NEW c \in Callers, NEW h \in Handles, ECHClose(c, h)
  PROVE  ClientInv'
<1>1. PICK s \in {"wait once", "close"} : pc' = [pc EXCEPT ![c] = s]
  BY DEF ECHClose, Take, Goto
<1>2. /\ UNCHANGED <<client, loops, initState, valid, open, once, returned>>
      /\ closed' = closed \cup {h} /\ hand' = [hand EXCEPT ![c] = h]
  BY DEF ECHClose, Take
<1>3. c \in Threads /\ pc'[c] = s /\ \A d \in Callers \ {c} : pc'[d] = pc[d]
  BY <1>1, Kinds DEF ClientInv, Tables
<1>4. /\ hand' \in [Callers -> Handles \cup {None}] /\ hand'[c] = h
      /\ \A d \in Callers \ {c} : hand'[d] = hand[d]
  BY <1>2 DEF ClientInv, Tables
<1>5. HandlesInOrder'
  BY <1>2, <1>3, <1>4 DEF ClientInv, HandlesInOrder
<1> QED
  BY <1>1, <1>2, <1>4, <1>5, CallerMoves DEF Places

\* One thread closes the body, the others wait for it.
LEMMA CloseBodyOK ==
  ASSUME ClientInv, NEW c \in Callers, CloseBody(c) \/ AfterOnce(c)
  PROVE  ClientInv'
<1>1. pc' = [pc EXCEPT ![c] = "delete"]
  BY DEF CloseBody, AfterOnce, Goto
<1>2. /\ UNCHANGED <<client, loops, initState, hand, valid, closed, returned>>
      /\ open' \subseteq open \ (once' \ once) /\ once \subseteq once'
      /\ hand[c] \in once' /\ once' \subseteq once \cup {hand[c]}
      /\ hand[c] \in closed
  BY DEF CloseBody, AfterOnce, Goto, handles, ClientInv, HandlesInOrder
<1>3. c \in Threads /\ pc'[c] = "delete" /\ \A d \in Callers \ {c} : pc'[d] = pc[d]
  BY <1>1, Kinds DEF ClientInv, Tables
<1>4. hand' \in [Callers -> Handles \cup {None}]
  BY <1>2 DEF ClientInv, Tables
<1>5. HandlesInOrder'
  <2>1. \A d \in Callers : /\ pc'[d] = "close" => hand'[d] \in closed'
                           /\ pc'[d] = "delete" => hand'[d] \in once'
    BY <1>2, <1>3 DEF ClientInv, HandlesInOrder
  <2>2. /\ once' \subseteq closed' /\ returned' \subseteq once'
        /\ open' \cap once' = {} /\ returned' \cap valid' = {}
    BY <1>2 DEF ClientInv, HandlesInOrder
  <2> QED
    BY <2>1, <2>2 DEF HandlesInOrder
<1> QED
  BY <1>1, <1>2, <1>4, <1>5, CallerMoves DEF Places

\* The handle leaves the table, and ECHClose returns.
LEMMA DeleteOK ==
  ASSUME ClientInv, NEW c \in Callers, DeleteHandle(c)
  PROVE  ClientInv'
<1>1. /\ pc[c] = "delete" /\ pc' = [pc EXCEPT ![c] = "idle"]
      /\ hand' = [hand EXCEPT ![c] = None]
      /\ valid' = valid \ {hand[c]} /\ returned' = returned \cup {hand[c]}
      /\ UNCHANGED <<client, loops, initState, closed, open, once>>
  BY DEF DeleteHandle, Goto, Drop
<1>2. c \in Threads /\ pc'[c] = "idle" /\ \A d \in Callers \ {c} : pc'[d] = pc[d]
  BY <1>1, Kinds DEF ClientInv, Tables
<1>3. /\ hand' \in [Callers -> Handles \cup {None}]
      /\ \A d \in Callers \ {c} : hand'[d] = hand[d]
  BY <1>1 DEF ClientInv, Tables
<1>4. HandlesInOrder'
  BY <1>1, <1>2, <1>3 DEF ClientInv, HandlesInOrder
<1> QED
  BY <1>1, <1>3, <1>4, CallerMoves DEF Places

-----------------------------------------------------------------------------
\* Every step keeps the invariant.
LEMMA StepOK == ClientInv /\ [Next]_vars => ClientInv'
<1> SUFFICES ASSUME ClientInv, [Next]_vars PROVE ClientInv'
  OBVIOUS
<1>1. ASSUME NEW c \in Callers, Call(c) PROVE ClientInv'
  BY <1>1, StartOK, OthersOK, BeginAndReadOK, CloseOK DEF Call
<1>2. ASSUME NEW c \in Callers, CallStep(c) PROVE ClientInv'
  BY <1>2, Kinds, FetchOK, OthersOK, BeginAndReadOK, CloseBodyOK, DeleteOK DEF CallStep
<1>3. ASSUME NEW g \in Inits, InitStep(g) PROVE ClientInv'
  BY <1>3, Kinds, FetchOK, InitStoreOK, InitGoesOnOK, InitEndsOK DEF InitStep
<1>4. CASE RefreshStep
  BY <1>4, Kinds, FetchOK, OthersOK DEF RefreshStep
<1>5. CASE KeyExpires \/ KeyChanges \/ UNCHANGED vars
  <2>1. UNCHANGED <<pc, hand, client, loops, initing, initDone, valid, closed, open, once,
                    returned>>
    BY <1>5 DEF KeyExpires, KeyChanges, vars, thread, initState, handles
  <2> QED
    BY <2>1 DEF ClientInv, Tables, OneAtATime, InitingMeansWork, LoopIsCounted,
                HandlesInOrder, Idle, HasStored
<1> QED
  BY <1>1, <1>2, <1>3, <1>4, <1>5 DEF Next

\* Every run keeps the invariant.
LEMMA InvariantHolds == Spec => []ClientInv
<1> QED
  BY InitOK, StepOK, PTL DEF Spec

\* However many threads call ECHInit, one goroutine at a time initialises and
\* one refresh loop is started, and a failed start never blocks the next
\* (shared.go:54-79).
THEOREM AlwaysOneInit == Spec => []OneInit
<1>1. ClientInv => OneInit
  <2> SUFFICES ASSUME ClientInv PROVE OneInit
    OBVIOUS
  <2> DEFINE Busy == {g \in Inits : ~Idle(g)}
  <2>1. Cardinality(Busy) <= 1
    <3>1. CASE Busy = {}
      BY <3>1, FS_EmptySet
    <3>2. ASSUME NEW g \in Busy PROVE Cardinality(Busy) <= 1
      <4>1. Busy = {g}
        BY <3>2 DEF ClientInv, OneAtATime
      <4> QED
        BY <4>1, FS_Singleton
    <3> QED
      BY <3>1, <3>2
  <2>2. loops <= 1
    BY DEF ClientInv, LoopIsCounted
  <2> QED
    BY <2>1, <2>2 DEF ClientInv, InitingMeansWork, OneInit
<1> QED
  BY <1>1, InvariantHolds, PTL

\* A library that reports ready has a client, for any threads and keys
\* (shared.go:92-96, client.go:408-431).
THEOREM ReadyAlwaysHasClient == Spec => []ReadyHasClient
<1>1. ClientInv => ReadyHasClient
  BY DEF ClientInv, LoopIsCounted, ReadyHasClient
<1> QED
  BY <1>1, InvariantHolds, PTL

\* A handle is closed for good when ECHClose has returned, for any threads and
\* handles (shared.go:149-177).
THEOREM CloseIsAlwaysFinal == Spec => []CloseIsFinal
<1>1. ClientInv => CloseIsFinal
  BY DEF ClientInv, HandlesInOrder, CloseIsFinal
<1> QED
  BY <1>1, InvariantHolds, PTL
=============================================================================
