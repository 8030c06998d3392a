--------------------------- MODULE KVStoreProofs ---------------------------
(***************************************************************************)
(* Safety of the key-value store for any number of clients, keys, entries  *)
(* and objects.  NoLostWakeup and its companions are not inductive alone:  *)
(* they need to know that entries are not shared between keys, that an     *)
(* entry a Delete took out of the map still has an open channel, and that  *)
(* a call which has not been woken works on the entry of its own key.      *)
(* The second part proves the store linearizable: its invariant says that  *)
(* the calls of the history have an order that explains their answers.     *)
(***************************************************************************)
EXTENDS KVLinear, FiniteSetTheorems, WellFoundedInduction, TLAPS

\* Different keys have different entries.
OneKeyPerEntry == \A j, k \in Keys : m[j] # Nil /\ m[j] = m[k] => j = k

\* Between its two sections a Delete has an entry that is out of the map, whose
\* channel is open and that no other Delete has.
DeleteOwns ==
  \A c \in Clients : pc[c] = "close" =>
    /\ chOpen[ent[c]]
    /\ \A k \in Keys : m[k] # ent[c]
    /\ \A d \in Clients : pc[d] = "close" /\ ent[d] = ent[c] => d = c

\* Only a Delete reaches the sections of Delete.
DeleteOnly ==
  \A c \in Clients : pc[c] \in {"unmap", "close"} => req[c].op = "delete"

\* A call whose entry still has an open channel works on the entry of its key,
\* unless a Delete is at work on it; and it works on no other key's entry.
Attached ==
  \A c \in Clients : pc[c] \in {"body", "touch", "wait"} =>
    /\ chOpen[ent[c]] => m[req[c].key] = ent[c] \/ BeingDeleted(ent[c])
    /\ \A k \in Keys : m[k] = ent[c] => k = req[c].key

\* A waiting Get's channel is open exactly when it is its entry's channel, and
\* then the entry has no data.
HeldChannel ==
  \A c \in Clients : pc[c] = "wait" =>
    /\ held[c] \in {"current", "closed"}
    /\ held[c] = "current" => chOpen[ent[c]] /\ data[ent[c]] = Nil

\* What relates calls to entries.
Links ==
  /\ OneKeyPerEntry
  /\ LiveChannelOpen
  /\ DeleteOwns
  /\ Attached
  /\ HeldChannel
  /\ WokenEmptyMeansGone

\* What relates calls to their results.
Outcomes ==
  /\ DeleteOnly
  /\ DeleteNeverPanics

IInv ==
  /\ TypeOK
  /\ Links
  /\ Outcomes

-----------------------------------------------------------------------------

\* An update leaves an object in the entry.
LEMMA UpdatedIsDoc ==
  ASSUME NEW o \in Updates, NEW old \in Docs \cup {Nil}, NEW v \in Docs
  PROVE  Updated(o, old, v) \in Docs
  BY KVAssumption DEF Updated

\* The results of calls, and what a request consists of.
LEMMA ResultTypes ==
  /\ \A d \in Docs : Found(d) \in Results
  /\ \A k \in {"ok", "missing", "timeout", "panic"} : NoDoc(k) \in Results
  /\ \A d : Found(d) # NoDoc("panic")
  /\ \A k : NoDoc(k) = NoDoc("panic") => k = "panic"
  BY DEF Results, Found, NoDoc

\* A request names a key and an operation, and an update carries an object.
LEMMA RequestTypes ==
  \A r \in Requests :
    /\ r.key \in Keys
    /\ r.op \in Updates => r.op # "delete" /\ r.arg \in Docs
  BY KVAssumption DEF Requests

\* Nil is none of the values it stands in for.
LEMMA NilIsNothing ==
  /\ Nil \notin Entries /\ Nil \notin Docs /\ Nil \notin Requests /\ Nil \notin Results
  /\ Nil \notin {"current", "closed", "replaced"}
  BY KVAssumption

\* A new store (NewStore) satisfies the invariant.
THEOREM InitInvariant == Init => IInv
<1> SUFFICES ASSUME Init PROVE IInv
  OBVIOUS
<1> USE NilIsNothing, ResultTypes DEF Init, Working
<1>1. Types
  BY KVAssumption DEF Types
<1>2. Fields
  BY DEF Fields
<1>3. Links
  BY DEF Links, OneKeyPerEntry, LiveChannelOpen, DeleteOwns, Attached, HeldChannel,
         WokenEmptyMeansGone
<1>4. Outcomes
  BY DEF Outcomes, DeleteOnly, DeleteNeverPanics
<1> QED
  BY <1>1, <1>2, <1>3, <1>4 DEF IInv, TypeOK

\* The optimistic look-up of getOrCreateEntry preserves the invariant.
LEMMA LookupPreserves ==
  ASSUME IInv, NEW c \in Clients, Lookup(c)
  PROVE  IInv'
<1> USE NilIsNothing, UpdatedIsDoc, ResultTypes, RequestTypes
    DEF IInv, TypeOK, Working, Lookup, Obtain, clientVars, evictVars
<1>1. Types'
  BY DEF Types, Fields
<1>2. Fields'
  BY DEF Types, Fields
<1>3. Links'
  BY SMTT(40) DEF Types, Fields, Links, OneKeyPerEntry, LiveChannelOpen, DeleteOwns, Attached,
         BeingDeleted, HeldChannel, WokenEmptyMeansGone
<1>4. Outcomes'
  BY DEF Types, Fields, Outcomes, DeleteOnly, DeleteNeverPanics, DeleteOwns, Links
<1> QED
  BY <1>1, <1>2, <1>3, <1>4

\* So does the second look-up, and the insertion of a new entry.
LEMMA CreatePreserves ==
  ASSUME IInv, NEW c \in Clients, Create(c)
  PROVE  IInv'
<1> USE NilIsNothing, UpdatedIsDoc, ResultTypes, RequestTypes
    DEF IInv, TypeOK, Working, Create, NewEntry, Garbage, Obtain, clientVars, evictVars
<1>1. Types'
  <2> USE DEF Types, Fields
  <2>1. CASE m[req[c].key] # Nil
    BY <2>1
  <2>2. CASE m[req[c].key] = Nil
    <3>1. PICK e \in Entries :
            /\ m' = [m EXCEPT ![req[c].key] = e]
            /\ data' = [data EXCEPT ![e] = Nil]
            /\ chOpen' = [chOpen EXCEPT ![e] = TRUE]
            /\ stale' = [stale EXCEPT ![e] = FALSE]
            /\ ent' = [ent EXCEPT ![c] = e]
      BY <2>2
    <3>2. m' \in [Keys -> Entries \cup {Nil}]
      BY <3>1
    <3> QED
      BY ZenonT(60), <3>1, <3>2
  <2> QED
    BY <2>1, <2>2
<1>2. Fields'
  BY DEF Types, Fields
<1>3. Links'
  <2> USE DEF Types, Fields, Links
  <2>1. OneKeyPerEntry'
    BY DEF OneKeyPerEntry
  <2>2. LiveChannelOpen'
    BY DEF LiveChannelOpen, OneKeyPerEntry, DeleteOwns
  <2>3. DeleteOwns'
    BY DEF DeleteOwns, LiveChannelOpen, OneKeyPerEntry
  <2>4. Attached'
    BY DEF Attached, BeingDeleted, OneKeyPerEntry, LiveChannelOpen
  <2>5. HeldChannel'
    BY DEF HeldChannel
  <2>6. WokenEmptyMeansGone'
    BY DEF WokenEmptyMeansGone, LiveChannelOpen, HeldChannel
  <2> QED
    BY <2>1, <2>2, <2>3, <2>4, <2>5, <2>6
<1>4. Outcomes'
  BY DEF Types, Fields, Outcomes, DeleteOnly, DeleteNeverPanics, DeleteOwns, Links
<1> QED
  BY <1>1, <1>2, <1>3, <1>4

\* So do Set and the merges: their waiters are woken and a new channel is made.
LEMMA UpdatePreserves ==
  ASSUME IInv, NEW c \in Clients, Update(c)
  PROVE  IInv'
<1> USE NilIsNothing, UpdatedIsDoc, ResultTypes, RequestTypes
    DEF IInv, TypeOK, Working, Update, Finish, Woken, clientVars, evictVars
<1>1. Types'
  BY SMTT(40) DEF Types, Fields
<1>2. Fields'
  BY DEF Types, Fields
<1>3. Links'
  <2> USE DEF Types, Fields, Links
  <2>1. OneKeyPerEntry'
    BY DEF OneKeyPerEntry
  <2>2. LiveChannelOpen'
    BY DEF LiveChannelOpen, OneKeyPerEntry, DeleteOwns
  <2>3. DeleteOwns'
    BY DEF DeleteOwns, LiveChannelOpen, OneKeyPerEntry
  <2>4. Attached'
    BY SMTT(40) DEF Attached, BeingDeleted, OneKeyPerEntry, LiveChannelOpen
  <2>5. HeldChannel'
    BY DEF HeldChannel
  <2>6. WokenEmptyMeansGone'
    BY DEF WokenEmptyMeansGone, LiveChannelOpen, HeldChannel
  <2> QED
    BY <2>1, <2>2, <2>3, <2>4, <2>5, <2>6
<1>4. Outcomes'
  BY DEF Types, Fields, Outcomes, DeleteOnly, DeleteNeverPanics, DeleteOwns, Links
<1> QED
  BY <1>1, <1>2, <1>3, <1>4

\* So does the snapshot of Get: data and channel are read together.
LEMMA GetSnapshotPreserves ==
  ASSUME IInv, NEW c \in Clients, GetSnapshot(c)
  PROVE  IInv'
<1> USE NilIsNothing, UpdatedIsDoc, ResultTypes, RequestTypes
    DEF IInv, TypeOK, Working, GetSnapshot, clientVars, evictVars
<1>1. Types'
  BY DEF Types, Fields
<1>2. Fields'
  BY DEF Types, Fields
<1>3. Links'
  <2> USE DEF Types, Fields, Links
  <2>1. OneKeyPerEntry'
    BY DEF OneKeyPerEntry
  <2>2. LiveChannelOpen'
    BY DEF LiveChannelOpen, OneKeyPerEntry, DeleteOwns
  <2>3. DeleteOwns'
    BY DEF DeleteOwns, LiveChannelOpen, OneKeyPerEntry
  <2>4. Attached'
    BY DEF Attached, BeingDeleted, OneKeyPerEntry, LiveChannelOpen
  <2>5. HeldChannel'
    BY DEF HeldChannel
  <2>6. WokenEmptyMeansGone'
    BY DEF WokenEmptyMeansGone, LiveChannelOpen, HeldChannel
  <2> QED
    BY <2>1, <2>2, <2>3, <2>4, <2>5, <2>6
<1>4. Outcomes'
  BY DEF Types, Fields, Outcomes, DeleteOnly, DeleteNeverPanics, DeleteOwns, Links
<1> QED
  BY <1>1, <1>2, <1>3, <1>4

\* So does a Get that is woken.
LEMMA GetWakePreserves ==
  ASSUME IInv, NEW c \in Clients, GetWake(c)
  PROVE  IInv'
<1> USE NilIsNothing, UpdatedIsDoc, ResultTypes, RequestTypes
    DEF IInv, TypeOK, Working, GetWake, Finish, clientVars, evictVars
<1>1. Types'
  BY DEF Types, Fields
<1>2. Fields'
  BY DEF Types, Fields
<1>3. Links'
  BY DEF Types, Fields, Links, OneKeyPerEntry, LiveChannelOpen, DeleteOwns, Attached,
         BeingDeleted, HeldChannel, WokenEmptyMeansGone
<1>4. Outcomes'
  BY DEF Types, Fields, Outcomes, DeleteOnly, DeleteNeverPanics, DeleteOwns, Links
<1> QED
  BY <1>1, <1>2, <1>3, <1>4

\* So does a Get whose context is done.
LEMMA GetTimeoutPreserves ==
  ASSUME IInv, NEW c \in Clients, GetTimeout(c)
  PROVE  IInv'
<1> USE NilIsNothing, UpdatedIsDoc, ResultTypes, RequestTypes
    DEF IInv, TypeOK, Working, GetTimeout, Finish, clientVars, evictVars
<1>1. Types'
  BY DEF Types, Fields
<1>2. Fields'
  BY DEF Types, Fields
<1>3. Links'
  BY DEF Types, Fields, Links, OneKeyPerEntry, LiveChannelOpen, DeleteOwns, Attached,
         BeingDeleted, HeldChannel, WokenEmptyMeansGone
<1>4. Outcomes'
  BY DEF Types, Fields, Outcomes, DeleteOnly, DeleteNeverPanics, DeleteOwns, Links
<1> QED
  BY <1>1, <1>2, <1>3, <1>4

\* So does Peek.
LEMMA PeekPreserves ==
  ASSUME IInv, NEW c \in Clients, Peek(c)
  PROVE  IInv'
<1> USE NilIsNothing, UpdatedIsDoc, ResultTypes, RequestTypes
    DEF IInv, TypeOK, Working, Peek, Finish, clientVars, evictVars
<1>1. Types'
  BY DEF Types, Fields
<1>2. Fields'
  BY DEF Types, Fields
<1>3. Links'
  BY SMTT(40) DEF Types, Fields, Links, OneKeyPerEntry, LiveChannelOpen, DeleteOwns, Attached,
         BeingDeleted, HeldChannel, WokenEmptyMeansGone
<1>4. Outcomes'
  BY DEF Types, Fields, Outcomes, DeleteOnly, DeleteNeverPanics, DeleteOwns, Links
<1> QED
  BY <1>1, <1>2, <1>3, <1>4

\* So does the refresh of lastTouch.
LEMMA TouchPreserves ==
  ASSUME IInv, NEW c \in Clients, Touch(c)
  PROVE  IInv'
<1> USE NilIsNothing, UpdatedIsDoc, ResultTypes, RequestTypes
    DEF IInv, TypeOK, Working, Touch, Finish, clientVars, evictVars
<1>1. Types'
  BY DEF Types, Fields
<1>2. Fields'
  BY DEF Types, Fields
<1>3. Links'
  BY SMTT(40) DEF Types, Fields, Links, OneKeyPerEntry, LiveChannelOpen, DeleteOwns, Attached,
         BeingDeleted, HeldChannel, WokenEmptyMeansGone
<1>4. Outcomes'
  BY DEF Types, Fields, Outcomes, DeleteOnly, DeleteNeverPanics, DeleteOwns, Links
<1> QED
  BY <1>1, <1>2, <1>3, <1>4

\* So does the first section of Delete, which makes the entry its own.
LEMMA DeleteUnmapPreserves ==
  ASSUME IInv, NEW c \in Clients, DeleteUnmap(c)
  PROVE  IInv'
<1> USE NilIsNothing, UpdatedIsDoc, ResultTypes, RequestTypes
    DEF IInv, TypeOK, Working, DeleteUnmap, Finish, clientVars, evictVars
<1>1. Types'
  BY DEF Types, Fields
<1>2. Fields'
  BY DEF Types, Fields
<1>3. Links'
  <2> USE DEF Types, Fields, Links
  <2>1. OneKeyPerEntry'
    BY DEF OneKeyPerEntry
  <2>2. LiveChannelOpen'
    BY DEF LiveChannelOpen, OneKeyPerEntry, DeleteOwns
  <2>3. DeleteOwns'
    BY SMTT(40) DEF DeleteOwns, LiveChannelOpen, OneKeyPerEntry
  <2>4. Attached'
    BY DEF Attached, BeingDeleted, OneKeyPerEntry, LiveChannelOpen
  <2>5. HeldChannel'
    BY DEF HeldChannel
  <2>6. WokenEmptyMeansGone'
    BY DEF WokenEmptyMeansGone, LiveChannelOpen, HeldChannel
  <2> QED
    BY <2>1, <2>2, <2>3, <2>4, <2>5, <2>6
<1>4. Outcomes'
  BY DEF Types, Fields, Outcomes, DeleteOnly, DeleteNeverPanics, DeleteOwns, Links
<1> QED
  BY <1>1, <1>2, <1>3, <1>4

\* So does the second one, which finds the channel open and closes it.
LEMMA DeleteClosePreserves ==
  ASSUME IInv, NEW c \in Clients, DeleteClose(c)
  PROVE  IInv'
<1> USE NilIsNothing, UpdatedIsDoc, ResultTypes, RequestTypes
    DEF IInv, TypeOK, Working, DeleteClose, Finish, Woken, clientVars, evictVars
<1>1. Types'
  <2> USE DEF Types, Fields
  <2>1. CASE chOpen[ent[c]]
    <3>1. held' \in [Clients -> {Nil, "current", "closed", "replaced"}]
      BY <2>1
    <3>2. res' \in [Clients -> Results \cup {Nil}]
      BY <2>1
    <3>3. chOpen' \in [Entries -> BOOLEAN]
      BY <2>1
    <3>4. pc' \in [Clients -> Working \cup {"idle", "lookup", "create", "unmap", "done"}]
      BY <2>1
    <3>5. ent' \in [Clients -> Entries \cup {Nil}]
      BY <2>1
    <3> QED
      BY <3>1, <3>2, <3>3, <3>4, <3>5
  <2>2. CASE ~chOpen[ent[c]]
    BY <2>2
  <2> QED
    BY <2>1, <2>2
<1>2. Fields'
  BY DEF Types, Fields
<1>3. Links'
  <2> USE DEF Types, Fields, Links
  <2>1. OneKeyPerEntry'
    BY DEF OneKeyPerEntry
  <2>2. LiveChannelOpen'
    BY DEF LiveChannelOpen, OneKeyPerEntry, DeleteOwns
  <2>3. DeleteOwns'
    BY DEF DeleteOwns, LiveChannelOpen, OneKeyPerEntry
  <2>4. Attached'
    BY SMTT(40) DEF Attached, BeingDeleted, OneKeyPerEntry, LiveChannelOpen
  <2>5. HeldChannel'
    BY DEF HeldChannel
  <2>6. WokenEmptyMeansGone'
    BY DEF WokenEmptyMeansGone, DeleteOwns, HeldChannel
  <2> QED
    BY <2>1, <2>2, <2>3, <2>4, <2>5, <2>6
<1>4. Outcomes'
  BY DEF Types, Fields, Outcomes, DeleteOnly, DeleteNeverPanics, DeleteOwns, Links
<1> QED
  BY <1>1, <1>2, <1>3, <1>4

\* So does the return of a call.
LEMMA ReturnPreserves ==
  ASSUME IInv, NEW c \in Clients, Return(c)
  PROVE  IInv'
<1> USE NilIsNothing, UpdatedIsDoc, ResultTypes, RequestTypes
    DEF IInv, TypeOK, Working, Return, clientVars, evictVars
<1>1. Types'
  BY DEF Types, Fields
<1>2. Fields'
  BY DEF Types, Fields
<1>3. Links'
  BY DEF Types, Fields, Links, OneKeyPerEntry, LiveChannelOpen, DeleteOwns, Attached,
         BeingDeleted, HeldChannel, WokenEmptyMeansGone
<1>4. Outcomes'
  BY DEF Types, Fields, Outcomes, DeleteOnly, DeleteNeverPanics, DeleteOwns, Links
<1> QED
  BY <1>1, <1>2, <1>3, <1>4

\* So does the start of a call.
LEMMA CallPreserves ==
  ASSUME IInv, NEW c \in Clients, NEW r \in Requests, Call(c, r)
  PROVE  IInv'
<1> USE NilIsNothing, UpdatedIsDoc, ResultTypes, RequestTypes
    DEF IInv, TypeOK, Working, Call, clientVars, evictVars
<1>1. Types'
  BY DEF Types, Fields
<1>2. Fields'
  BY DEF Types, Fields
<1>3. Links'
  BY DEF Types, Fields, Links, OneKeyPerEntry, LiveChannelOpen, DeleteOwns, Attached,
         BeingDeleted, HeldChannel, WokenEmptyMeansGone
<1>4. Outcomes'
  BY DEF Types, Fields, Outcomes, DeleteOnly, DeleteNeverPanics, DeleteOwns, Links
<1> QED
  BY <1>1, <1>2, <1>3, <1>4

\* So does the passing of time.
LEMMA AgePreserves ==
  ASSUME IInv, NEW e \in Entries, Age(e)
  PROVE  IInv'
<1> USE NilIsNothing, UpdatedIsDoc, ResultTypes, RequestTypes
    DEF IInv, TypeOK, Working, Age, clientVars, evictVars
<1>1. Types'
  BY DEF Types, Fields
<1>2. Fields'
  BY DEF Types, Fields
<1>3. Links'
  BY DEF Types, Fields, Links, OneKeyPerEntry, LiveChannelOpen, DeleteOwns, Attached,
         BeingDeleted, HeldChannel, WokenEmptyMeansGone
<1>4. Outcomes'
  BY DEF Types, Fields, Outcomes, DeleteOnly, DeleteNeverPanics, DeleteOwns, Links
<1> QED
  BY <1>1, <1>2, <1>3, <1>4

\* So does the scan of the evictor.
LEMMA EvictScanPreserves ==
  ASSUME IInv, EvictScan
  PROVE  IInv'
<1> USE NilIsNothing, UpdatedIsDoc, ResultTypes, RequestTypes
    DEF IInv, TypeOK, Working, EvictScan, clientVars, evictVars
<1>1. Types'
  BY DEF Types, Fields
<1>2. Fields'
  BY DEF Types, Fields
<1>3. Links'
  BY DEF Types, Fields, Links, OneKeyPerEntry, LiveChannelOpen, DeleteOwns, Attached,
         BeingDeleted, HeldChannel, WokenEmptyMeansGone
<1>4. Outcomes'
  BY DEF Types, Fields, Outcomes, DeleteOnly, DeleteNeverPanics, DeleteOwns, Links
<1> QED
  BY <1>1, <1>2, <1>3, <1>4

\* So does the eviction: what it closes it takes out of the map.
LEMMA EvictConfirmPreserves ==
  ASSUME IInv, EvictConfirm
  PROVE  IInv'
<1> USE NilIsNothing, UpdatedIsDoc, ResultTypes, RequestTypes
    DEF IInv, TypeOK, Working, EvictConfirm, EvictKeys, Woken, clientVars, evictVars
<1>1. Types'
  BY DEF Types, Fields
<1>2. Fields'
  BY DEF Types, Fields
<1>3. Links'
  <2> USE DEF Types, Fields, Links
  <2>1. OneKeyPerEntry'
    BY DEF OneKeyPerEntry
  <2>2. LiveChannelOpen'
    BY DEF LiveChannelOpen, OneKeyPerEntry, DeleteOwns
  <2>3. DeleteOwns'
    BY DEF DeleteOwns, LiveChannelOpen, OneKeyPerEntry
  <2>4. Attached'
    <3>1. pc' = pc /\ req' = req /\ ent' = ent
      OBVIOUS
    <3>2. ASSUME NEW c \in Clients, pc[c] \in {"body", "touch", "wait"},
                 chOpen'[ent[c]], ~BeingDeleted(ent[c])
          PROVE  m'[req[c].key] = ent[c]
      <4>1. ent[c] \in Entries /\ req[c].key \in Keys
        BY <3>2
      <4>2. chOpen[ent[c]] /\ m[req[c].key] = ent[c]
        BY <3>2, <4>1 DEF Attached
      <4> QED
        BY <3>2, <4>1, <4>2
    <3>3. ASSUME NEW c \in Clients, pc[c] \in {"body", "touch", "wait"},
                 NEW k \in Keys, m'[k] = ent[c]
          PROVE  k = req[c].key
      BY <3>3 DEF Attached
    <3>4. ASSUME NEW c \in Clients, BeingDeleted(ent[c])
          PROVE  BeingDeleted(ent[c])'
      BY ONLY <3>1, <3>4 DEF BeingDeleted
    <3> HIDE DEF BeingDeleted, EvictConfirm, EvictKeys, Types, Fields
    <3> QED
      BY <3>1, <3>2, <3>3, <3>4 DEF Attached
  <2>5. HeldChannel'
    BY DEF HeldChannel
  <2>6. WokenEmptyMeansGone'
    BY DEF WokenEmptyMeansGone, OneKeyPerEntry, HeldChannel
  <2> QED
    BY <2>1, <2>2, <2>3, <2>4, <2>5, <2>6
<1>4. Outcomes'
  BY DEF Types, Fields, Outcomes, DeleteOnly, DeleteNeverPanics, DeleteOwns, Links
<1> QED
  BY <1>1, <1>2, <1>3, <1>4

\* So does Stop.
LEMMA StopPreserves ==
  ASSUME IInv, Stop
  PROVE  IInv'
<1> USE NilIsNothing, UpdatedIsDoc, ResultTypes, RequestTypes
    DEF IInv, TypeOK, Working, Stop, clientVars, evictVars
<1>1. Types'
  BY DEF Types, Fields
<1>2. Fields'
  BY DEF Types, Fields
<1>3. Links'
  BY DEF Types, Fields, Links, OneKeyPerEntry, LiveChannelOpen, DeleteOwns, Attached,
         BeingDeleted, HeldChannel, WokenEmptyMeansGone
<1>4. Outcomes'
  BY DEF Types, Fields, Outcomes, DeleteOnly, DeleteNeverPanics, DeleteOwns, Links
<1> QED
  BY <1>1, <1>2, <1>3, <1>4

\* So does a step in which the store does nothing.
LEMMA StutterPreserves ==
  ASSUME IInv, UNCHANGED vars
  PROVE  IInv'
<1> USE NilIsNothing, UpdatedIsDoc, ResultTypes, RequestTypes
    DEF IInv, TypeOK, Working, vars, clientVars, evictVars
<1>1. Types'
  BY DEF Types, Fields
<1>2. Fields'
  BY DEF Types, Fields
<1>3. Links'
  BY DEF Types, Fields, Links, OneKeyPerEntry, LiveChannelOpen, DeleteOwns, Attached,
         BeingDeleted, HeldChannel, WokenEmptyMeansGone
<1>4. Outcomes'
  BY DEF Types, Fields, Outcomes, DeleteOnly, DeleteNeverPanics, DeleteOwns, Links
<1> QED
  BY <1>1, <1>2, <1>3, <1>4

\* Every step of the store preserves the invariant.
LEMMA NextInvariant == IInv /\ [Next]_vars => IInv'
  BY LookupPreserves, CreatePreserves, UpdatePreserves, GetSnapshotPreserves,
      GetWakePreserves, GetTimeoutPreserves, PeekPreserves, TouchPreserves,
      DeleteUnmapPreserves, DeleteClosePreserves, ReturnPreserves, CallPreserves,
      AgePreserves, EvictScanPreserves, EvictConfirmPreserves, StopPreserves, StutterPreserves
  DEF Next, Step

-----------------------------------------------------------------------------
(* The theorems.                                                           *)

\* The inductive invariant holds of every reachable state.
THEOREM Invariance == Spec => []IInv
  BY InitInvariant, NextInvariant, PTL DEF Spec

\* Type correctness: the fields of every call go with its program counter.
THEOREM TypeCorrectness == Spec => []TypeOK
  BY Invariance, PTL DEF IInv

\* No blocking Get ever sleeps on an entry that no update and no Delete will
\* wake it from (Get and Delete of pkg/kv/store.go).
THEOREM NoWakeupIsLost == Spec => []NoLostWakeup
<1>1. IInv => NoLostWakeup
  BY DEF IInv, TypeOK, Fields, Links, HeldChannel, Attached, NoLostWakeup
<1> QED
  BY <1>1, Invariance, PTL

\* A Get woken without data was woken because its entry had left the map.
THEOREM WokenEmptyIsGone == Spec => []WokenEmptyMeansGone
  BY Invariance, PTL DEF IInv, Links

\* Delete closes every channel at most once; only updates can panic.
THEOREM DeleteIsSafe == Spec => []DeleteNeverPanics
  BY Invariance, PTL DEF IInv, Outcomes

\* Only a Delete, or an eviction of an entry that is expired when it is
\* evicted, takes an entry out of the map.
THEOREM FreshEntriesSurvive == Spec => FreshEntrySurvives
<1>1. IInv /\ [Next]_vars => [OnlyExpiredOrDeleted]_vars
  <2> SUFFICES ASSUME IInv, Next, NEW k \in Keys, m[k] # Nil, m'[k] # m[k]
               PROVE  stale[m[k]] \/ \E c \in Clients : pc[c] = "unmap" /\ ent'[c] = m[k]
    BY DEF OnlyExpiredOrDeleted
  <2> USE DEF IInv, TypeOK, Types, Fields
  <2>1. ASSUME NEW c \in Clients, Create(c) PROVE FALSE
    BY <2>1, RequestTypes DEF Create, NewEntry
  <2>2. ASSUME NEW c \in Clients, DeleteUnmap(c) PROVE pc[c] = "unmap" /\ ent'[c] = m[k]
    BY <2>2, RequestTypes DEF DeleteUnmap
  <2>3. CASE EvictConfirm
    BY <2>3 DEF EvictConfirm, EvictKeys
  <2> QED
    BY <2>1, <2>2, <2>3
    DEF Next, Step, Call, Return, Lookup, Update, GetSnapshot, GetWake, GetTimeout,
        Peek, Touch, DeleteClose, Age, EvictScan, Stop
<1> QED
  BY <1>1, Invariance, PTL DEF Spec, FreshEntrySurvives

-----------------------------------------------------------------------------
(* Linearizability.  A call takes effect at the section in which it reads  *)
(* or writes the data of its entry, a Delete at the one in which it takes  *)
(* the entry out of the map.  A call that still works on an entry which a  *)
(* Delete has taken out is ordered just before that Delete.                *)

\* The contents of the cell.
Cell == Docs \cup {Nil}

\* What the history records of a call.
Calls == [req : Requests, res : Results \cup {Nil}, after : SUBSET Nat]

\* The history and the calls in progress agree.
HistoryAgrees ==
  /\ hist \in Seq(Calls)
  /\ id \in [Clients -> Nat]
  /\ \A i \in DOMAIN hist : hist[i].after \subseteq Over \ {i}
  /\ \A c \in Clients : pc[c] # "idle" =>
       /\ id[c] \in DOMAIN hist
       /\ hist[id[c]].req = req[c]
       /\ hist[id[c]].res = Nil
       /\ \A d \in Clients : pc[d] # "idle" /\ id[d] = id[c] => d = c

\* An answer that explains itself whatever the cell holds.
Free(r) == r = Nil \/ r.kind \in {"ok", "timeout", "panic"}

\* Which calls are where, and what a Delete answers.
CallsInPlace ==
  /\ \A c \in Clients :
       /\ pc[c] \in {"lookup", "create", "body", "touch", "wait"} => req[c].op # "delete"
       /\ pc[c] = "wait" => req[c].op = "get"
       /\ pc[c] \notin {"touch", "done"} => res[c] = Nil
       /\ pc[c] # "idle" /\ req[c].op = "delete" => Free(res[c])
  /\ \A i \in DOMAIN hist : hist[i].req.op = "delete" => Free(hist[i].res)

\* Call i can be given its answer, returned or known already, when the cell holds d.
Explains(i, d) ==
  /\ Fits(hist[i].res, d)
  /\ \A c \in Clients : id[c] = i => Fits(res[c], d)

\* The calls ord[1], ..., ord[n], one after the other, explain their answers;
\* b[k] is what the cell holds after k of them.
Order(n, ord, b) ==
  /\ n \in Nat
  /\ ord \in [1..n -> DOMAIN hist]
  /\ b \in [0..n -> Cell]
  /\ b[0] = Nil
  /\ \A j, k \in 1..n : ord[j] = ord[k] => j = k
  /\ \A j, k \in 1..n : j < k => ord[k] \notin hist[ord[j]].after
  /\ \A k \in 1..n : Explains(ord[k], b[k-1])
  /\ \A k \in 1..n : b[k] = Effect(hist[ord[k]].req, b[k-1])

\* The order has the calls that have taken effect and no others.
Placed(n, ord) ==
  /\ \A i \in Over : \E k \in 1..n : ord[k] = i
  /\ \A c \in Clients : pc[c] \in {"touch", "close", "done"} => \E k \in 1..n : ord[k] = id[c]
  /\ \A c \in Clients : pc[c] \in {"lookup", "create", "body", "wait", "unmap"} =>
       \A k \in 1..n : ord[k] # id[c]

\* An entry that calls may still read and write.
Live(e) ==
  \/ \E k \in Keys : m[k] = e
  \/ \E c \in Clients : pc[c] \in {"body", "wait"} /\ ent[c] = e

\* pos[e] is the place in the order where the calls on e take effect: the end
\* for the entry in the map, just before its Delete for one taken out.
Anchored(n, ord, b, pos) ==
  /\ pos \in [Entries -> Nat]
  /\ \A e \in Entries : Live(e) =>
       /\ pos[e] <= n
       /\ b[pos[e]] = data[e]
       /\ pos[e] < n => hist[ord[pos[e] + 1]].req.op = "delete"
       /\ \A f \in Entries : Live(f) /\ pos[f] = pos[e] => f = e
  /\ \A k \in Keys : m[k] # Nil => pos[m[k]] = n
  /\ \A k \in Keys : m[k] = Nil => b[n] = Nil /\ \A e \in Entries : Live(e) => pos[e] < n
  /\ \A c \in Clients : pc[c] \in {"body", "wait"} =>
       \A q \in 1..n : q > pos[ent[c]] => ord[q] \notin hist[id[c]].after

Witness(n, ord, b, pos) ==
  /\ Order(n, ord, b)
  /\ Placed(n, ord)
  /\ Anchored(n, ord, b, pos)

\* The inductive invariant of the store with its history.
LInv ==
  /\ IInv
  /\ HistoryAgrees
  /\ CallsInPlace
  /\ \E n, ord, b, pos : Witness(n, ord, b, pos)

-----------------------------------------------------------------------------
\* There are three updates.
LEMMA UpdateOps == Updates \subseteq {"set", "shallow", "deep"}
  BY KVAssumption

\* What a call leaves is an object or nothing.
LEMMA EffectInCell ==
  ASSUME NEW q \in Requests, NEW d \in Cell
  PROVE  Effect(q, d) \in Cell
<1>1. q.op \in Updates => q.arg \in Docs
  BY RequestTypes
<1>2. CASE q.op \in Updates
  BY <1>1, <1>2, UpdatedIsDoc DEF Effect, Cell
<1>3. CASE q.op \notin Updates
  BY <1>3 DEF Effect, Cell
<1> QED
  BY <1>2, <1>3

\* Reads leave the cell alone, a Delete empties it.
LEMMA EffectOf ==
  ASSUME NEW q, NEW d
  PROVE  /\ q.op \in {"get", "peek"} => Effect(q, d) = d
         /\ q.op = "delete" => Effect(q, d) = Nil
         /\ q.op \in Updates => Effect(q, d) = Updated(q.op, d, q.arg)
  BY UpdateOps DEF Effect

\* Such an answer fits.
LEMMA FreeFits ==
  ASSUME NEW r, Free(r), NEW d
  PROVE  Fits(r, d)
  BY DEF Free, Fits

\* A Delete fits anywhere.
LEMMA DeleteFits ==
  ASSUME IInv, HistoryAgrees, CallsInPlace, NEW i \in DOMAIN hist,
         hist[i].req.op = "delete", NEW d
  PROVE  Explains(i, d)
<1>1. Fits(hist[i].res, d)
  BY FreeFits DEF CallsInPlace
<1>2. ASSUME NEW c \in Clients, id[c] = i
      PROVE  Fits(res[c], d)
  <2>1. CASE pc[c] = "idle"
    BY <2>1 DEF IInv, TypeOK, Fields, Fits
  <2>2. CASE pc[c] # "idle"
    BY <1>2, <2>2, FreeFits DEF HistoryAgrees, CallsInPlace
  <2> QED
    BY <2>1, <2>2
<1> QED
  BY <1>1, <1>2 DEF Explains

-----------------------------------------------------------------------------
\* The steps of calls, and what they leave alone.
LEMMA StepShape ==
  ASSUME IInv, NEW c \in Clients, Step(c) \/ GetTimeout(c)
  PROVE  /\ pc[c] # "idle" /\ pc'[c] # "idle"
         /\ req' = req
         /\ \A d \in Clients \ {c} : pc'[d] = pc[d] /\ ent'[d] = ent[d] /\ res'[d] = res[d]
<1> USE DEF IInv, TypeOK, Types, Finish, Obtain
<1>1. CASE Lookup(c) \/ Create(c)
  BY <1>1 DEF Lookup, Create, NewEntry
<1>2. CASE Update(c)
  BY <1>2 DEF Update
<1>3. CASE GetSnapshot(c) \/ GetWake(c) \/ GetTimeout(c)
  BY <1>3 DEF GetSnapshot, GetWake, GetTimeout
<1>4. CASE Peek(c) \/ Touch(c)
  BY <1>4 DEF Peek, Touch
<1>5. CASE DeleteUnmap(c) \/ DeleteClose(c)
  BY <1>5 DEF DeleteUnmap, DeleteClose
<1> QED
  BY <1>1, <1>2, <1>3, <1>4, <1>5 DEF Step

\* They leave the history alone and the calls in progress as they are.
LEMMA StepHistory ==
  ASSUME IInv, HistoryAgrees, NEW c \in Clients, Step(c) \/ GetTimeout(c), UNCHANGED <<hist, id>>
  PROVE  HistoryAgrees'
<1>1. \A d \in Clients : (pc'[d] # "idle" <=> pc[d] # "idle") /\ req'[d] = req[d]
  BY StepShape
<1> QED
  BY <1>1 DEF HistoryAgrees, Over

\* And every call stays in its place.
LEMMA StepCalls ==
  ASSUME IInv, HistoryAgrees, CallsInPlace, NEW c \in Clients,
         Step(c) \/ GetTimeout(c), UNCHANGED <<hist, id>>
  PROVE  CallsInPlace'
<1>0. /\ pc[c] # "idle" /\ req' = req
      /\ \A d \in Clients \ {c} : pc'[d] = pc[d] /\ res'[d] = res[d]
  BY StepShape
<1>1. /\ pc'[c] \in {"lookup", "create", "body", "touch", "wait"} => req[c].op # "delete"
      /\ pc'[c] = "wait" => req[c].op = "get"
      /\ pc'[c] \notin {"touch", "done"} => res'[c] = Nil
      /\ req[c].op = "delete" => Free(res'[c])
  <2> USE DEF IInv, TypeOK, Types, Finish, Obtain, CallsInPlace, Free, Found, NoDoc, Working
  <2>1. CASE Lookup(c) \/ Create(c)
    BY <2>1 DEF Lookup, Create, NewEntry
  <2>2. CASE Update(c)
    BY <2>2 DEF Update
  <2>3. CASE GetSnapshot(c)
    BY <2>3 DEF GetSnapshot
  <2>4. CASE GetWake(c) \/ GetTimeout(c)
    BY <2>4 DEF GetWake, GetTimeout
  <2>5. CASE Peek(c)
    BY <2>5 DEF Peek
  <2>6. CASE Touch(c)
    BY <2>6 DEF Touch
  <2>7. CASE DeleteUnmap(c)
    BY <2>7 DEF DeleteUnmap
  <2>8. CASE DeleteClose(c)
    BY <2>8 DEF DeleteClose
  <2> QED
    BY <2>1, <2>2, <2>3, <2>4, <2>5, <2>6, <2>7, <2>8 DEF Step
<1> QED
  BY <1>0, <1>1 DEF CallsInPlace
-----------------------------------------------------------------------------
\* Call c takes effect on its entry, with a known answer.
TakesEffect(c) ==
  /\ pc[c] \in {"body", "wait"}
  /\ pc'[c] \in {"touch", "done"}
  /\ \A d \in Clients \ {c} : pc'[d] = pc[d] /\ ent'[d] = ent[d] /\ res'[d] = res[d]
  /\ \A e \in Entries \ {ent[c]} : data'[e] = data[e]
  /\ data'[ent[c]] = Effect(req[c], data[ent[c]])
  /\ Fits(res'[c], data[ent[c]])
  /\ UNCHANGED <<m, req, hist, id>>

\* Updates, reads that find their object or are woken, and reads that time out
\* take effect.
LEMMA SectionsTakeEffect ==
  ASSUME IInv, CallsInPlace, NEW c \in Clients, UNCHANGED <<hist, id>>,
         \/ Update(c)
         \/ GetSnapshot(c) /\ pc'[c] = "touch"
         \/ GetWake(c)
         \/ GetTimeout(c)
         \/ Peek(c)
  PROVE  TakesEffect(c)
<1>0. /\ m' = m /\ req' = req
      /\ \A d \in Clients \ {c} : pc'[d] = pc[d] /\ ent'[d] = ent[d] /\ res'[d] = res[d]
  BY StepShape DEF Step, Update, GetSnapshot, GetWake, GetTimeout, Peek
<1>1. pc[c] \in {"body", "wait"} /\ ent[c] \in Entries /\ data[ent[c]] \in Cell
  BY DEF IInv, TypeOK, Types, Fields, Working, Update, GetSnapshot, GetWake, GetTimeout, Peek, Cell
<1>2. CASE Update(c)
  <2>1. data'[ent[c]] = Effect(req[c], data[ent[c]])
    BY <1>1, <1>2, EffectOf DEF Update, IInv, TypeOK, Types
  <2>2. pc'[c] = "done" /\ Fits(res'[c], data[ent[c]])
    BY <1>2 DEF Update, Finish, Fits, NoDoc, IInv, TypeOK, Types
  <2> QED
    BY <1>0, <1>1, <1>2, <2>1, <2>2 DEF TakesEffect, Update, IInv, TypeOK, Types
<1>3. CASE (GetSnapshot(c) /\ pc'[c] = "touch") \/ GetWake(c) \/ GetTimeout(c) \/ Peek(c)
  <2>1. req[c].op \in {"get", "peek"} /\ data' = data
    BY <1>3 DEF GetSnapshot, GetWake, GetTimeout, Peek, CallsInPlace
  <2>2. pc'[c] \in {"touch", "done"}
    BY <1>3 DEF GetSnapshot, GetWake, GetTimeout, Peek, Finish, IInv, TypeOK, Types
  <2>3. Fits(res'[c], data[ent[c]])
    BY <1>3 DEF GetSnapshot, GetWake, GetTimeout, Peek, Finish, IInv, TypeOK, Types, Fits, NoDoc
  <2> QED
    BY <1>0, <1>1, <2>1, <2>2, <2>3, EffectOf DEF TakesEffect
<1> QED
  BY <1>2, <1>3

\* The answers of other calls are explained as before.
LEMMA OthersExplained ==
  ASSUME HistoryAgrees, NEW c \in Clients, UNCHANGED <<hist, id>>,
         \A d \in Clients \ {c} : res'[d] = res[d],
         NEW i \in DOMAIN hist, i # id[c], NEW d
  PROVE  Explains(i, d)' <=> Explains(i, d)
  BY DEF Explains

\* A call that takes effect is inserted where its entry is anchored.
LEMMA InsertOrder ==
  ASSUME IInv, HistoryAgrees, CallsInPlace, NEW c \in Clients, TakesEffect(c),
         NEW n, NEW ord, NEW b, NEW pos, Witness(n, ord, b, pos),
         NEW p, p = pos[ent[c]], NEW i, i = id[c],
         NEW ord2, ord2 = [q \in 1..(n + 1) |->
           IF q <= p THEN ord[q] ELSE IF q = p + 1 THEN i ELSE ord[q - 1]],
         NEW b2, b2 = [q \in 0..(n + 1) |->
           IF q <= p THEN b[q] ELSE IF q = p + 1 THEN Effect(req[c], b[p]) ELSE b[q - 1]]
  PROVE  Order(n + 1, ord2, b2)'
<1>1. /\ n \in Nat /\ ord \in [1..n -> DOMAIN hist] /\ b \in [0..n -> Cell] /\ b[0] = Nil
      /\ \A j, k \in 1..n : ord[j] = ord[k] => j = k
      /\ \A j, k \in 1..n : j < k => ord[k] \notin hist[ord[j]].after
      /\ \A k \in 1..n : Explains(ord[k], b[k-1])
      /\ \A k \in 1..n : b[k] = Effect(hist[ord[k]].req, b[k-1])
  BY DEF Witness, Order
<1>2. /\ ent[c] \in Entries /\ Live(ent[c])
      /\ req[c] \in Requests
  BY DEF TakesEffect, IInv, TypeOK, Types, Fields, Working, Live
<1>3. /\ p \in 0..n
      /\ b[p] = data[ent[c]]
      /\ p < n => hist[ord[p + 1]].req.op = "delete"
      /\ \A q \in 1..n : q > p => ord[q] \notin hist[i].after
  BY <1>1, <1>2 DEF Witness, Anchored, TakesEffect
<1>0. n \in Nat /\ p \in Nat
  BY <1>1, <1>3
<1>4. /\ i \in DOMAIN hist /\ hist[i].req = req[c] /\ hist[i].res = Nil
      /\ i \notin Over
      /\ \A d \in Clients : pc[d] # "idle" /\ id[d] = i => d = c
  BY DEF HistoryAgrees, Over, TakesEffect
<1>5. \A j \in DOMAIN hist : i \notin hist[j].after
  BY <1>4 DEF HistoryAgrees
<1>6. \A k \in 1..n : ord[k] # i
  BY DEF Witness, Placed, TakesEffect
<1>7. UNCHANGED <<hist, id>>
  BY DEF TakesEffect
<1>8. \A j \in DOMAIN hist : \A d : j # i => (Explains(j, d)' <=> Explains(j, d))
  BY <1>7, OthersExplained DEF TakesEffect
<1>9. Explains(i, b[p])'
  <2>1. ASSUME NEW d \in Clients, id[d] = i, d # c
        PROVE  res'[d] = Nil
    BY <1>4, <2>1 DEF TakesEffect, IInv, TypeOK, Fields
  <2> QED
    BY <1>3, <1>4, <1>7, <2>1 DEF Explains, Fits, TakesEffect
<1>10. \A d \in Cell : Effect(req[c], d) \in Cell
  BY <1>2, EffectInCell
<1>11. \A d : p < n => Explains(ord[p + 1], d) /\ Effect(hist[ord[p + 1]].req, d) = Nil
  <2>1. p < n => ord[p + 1] \in DOMAIN hist
    BY <1>1, <1>3
  <2> QED
    BY <1>3, <2>1, DeleteFits, EffectOf
<1>12. /\ \A q \in 1..(n+1) : q <= p => ord2[q] = ord[q]
       /\ ord2[p + 1] = i
       /\ \A q \in 1..(n+1) : q > p + 1 => q - 1 \in 1..n /\ q - 1 > p /\ ord2[q] = ord[q - 1]
  BY SMTT(40), <1>1, <1>3
<1>13. /\ \A q \in 0..(n+1) : q <= p => b2[q] = b[q]
       /\ b2[p + 1] = Effect(req[c], b[p])
       /\ \A q \in 0..(n+1) : q > p + 1 => q - 1 \in 0..n /\ b2[q] = b[q - 1]
  BY SMTT(40), <1>1, <1>3
<1>14. ord2 \in [1..(n+1) -> DOMAIN hist]
  BY <1>1, <1>3, <1>4
<1>15. b2 \in [0..(n+1) -> Cell]
  BY <1>1, <1>3, <1>10
<1>16. b2[0] = Nil
  BY <1>1, <1>3, <1>13
<1>17. \A j, k \in 1..(n+1) : ord2[j] = ord2[k] => j = k
  <2> TAKE j, k \in 1..(n+1)
  <2> HAVE ord2[j] = ord2[k]
  <2>0. j \in Int /\ k \in Int /\ p \in Int
    BY <1>0
  <2>1. CASE j <= p
    <3>1. j \in 1..n /\ ord2[j] = ord[j]
      BY <1>1, <1>3, <1>12, <2>1
    <3>2. CASE k <= p
      BY SMTT(40), <1>1, <1>3, <1>12, <3>1, <3>2
    <3>3. CASE k = p + 1
      BY <1>6, <1>12, <3>1, <3>3
    <3>4. CASE k > p + 1
      <4>1. ord2[k] = ord[k - 1] /\ k - 1 \in 1..n /\ k - 1 > p
        BY <1>12, <3>4
      <4>2. j = k - 1
        BY <1>1, <3>1, <4>1
      <4> QED
        BY <1>3, <2>1, <4>1, <4>2
    <3> QED
      BY <1>3, <3>2, <3>3, <3>4
  <2>2. CASE j = p + 1
    BY SMTT(40), <1>1, <1>3, <1>6, <1>12, <2>2
  <2>3. CASE j > p + 1
    <3>1. ord2[j] = ord[j - 1] /\ j - 1 \in 1..n /\ j - 1 > p
      BY SMTT(40), <1>12, <2>3
    <3>2. CASE k <= p
      BY SMTT(40), <1>1, <1>3, <1>12, <3>1, <3>2
    <3>3. CASE k = p + 1
      BY <1>6, <1>12, <3>1, <3>3
    <3>4. CASE k > p + 1
      <4>1. ord2[k] = ord[k - 1] /\ k - 1 \in 1..n
        BY <1>12, <3>4
      <4>2. j - 1 = k - 1
        BY <1>1, <3>1, <4>1
      <4> QED
        BY <4>2
    <3> QED
      BY <1>3, <3>2, <3>3, <3>4
  <2> QED
    BY ONLY <2>0, <2>1, <2>2, <2>3
<1>18. \A j, k \in 1..(n+1) : j < k => ord2[k] \notin hist[ord2[j]].after
  <2> TAKE j, k \in 1..(n+1)
  <2> HAVE j < k
  <2>0. j \in Int /\ k \in Int /\ p \in Int
    BY <1>0
  <2>1. CASE k = p + 1
    BY <1>1, <1>3, <1>5, <1>12, <1>14, <2>1
  <2>2. CASE k < p + 1
    <3>1. j \in 1..n /\ k \in 1..n /\ ord2[j] = ord[j] /\ ord2[k] = ord[k]
      BY SMTT(40), <1>1, <1>3, <1>12, <2>2
    <3> QED
      BY <1>1, <3>1
  <2>3. CASE k > p + 1
    <3>1. k - 1 \in 1..n /\ k - 1 > p /\ ord2[k] = ord[k - 1]
      BY <1>1, <1>3, <1>12, <2>3
    <3>2. CASE j = p + 1
      BY <1>3, <1>12, <3>1, <3>2
    <3>3. CASE j <= p
      <4>1. j \in 1..n /\ j < k - 1 /\ ord2[j] = ord[j]
        <5>0. n \in Nat /\ p \in Nat /\ p <= n /\ j \in 1..(n + 1)
          BY <1>0, <1>3
        <5>1. j \in 1..n /\ j \in 1..(n + 1)
          BY ONLY <3>3, <5>0
        <5>2. j < k - 1
          BY ONLY <2>0, <2>3, <3>3
        <5>3. ord2[j] = ord[j]
          BY <1>12, <3>3, <5>1
        <5> QED
          BY <5>1, <5>2, <5>3
      <4>2. ord[k - 1] \notin hist[ord[j]].after
        BY <1>1, <3>1, <4>1
      <4> QED
        BY ONLY <3>1, <4>1, <4>2
    <3>4. CASE j > p + 1
      <4>1. j - 1 \in 1..n /\ j - 1 < k - 1 /\ ord2[j] = ord[j - 1]
        BY <1>3, <1>12, <2>0, <3>4
      <4>2. ord[k - 1] \notin hist[ord[j - 1]].after
        BY SMTT(40), <1>1, <3>1, <4>1
      <4> QED
        BY ONLY <3>1, <4>1, <4>2
    <3> QED
      BY SMTT(40), <1>1, <1>3, <3>2, <3>3, <3>4
  <2> QED
    BY ONLY <2>0, <2>1, <2>2, <2>3
<1>19. \A k \in 1..(n+1) : Explains(ord2[k], b2[k-1])' /\ b2[k] = Effect(hist[ord2[k]].req, b2[k-1])
  <2> TAKE k \in 1..(n+1)
  <2>1. CASE k < p + 1
    <3>1. k \in 1..n /\ ord2[k] = ord[k] /\ b2[k-1] = b[k-1] /\ b2[k] = b[k]
      BY SMTT(40), <1>1, <1>3, <1>12, <1>13, <2>1
    <3> QED
      BY <1>1, <1>6, <1>8, <3>1
  <2>2. CASE k = p + 1
    <3>1. ord2[k] = i /\ b2[k-1] = b[p] /\ b2[k] = Effect(req[c], b[p])
      BY SMTT(40), <1>1, <1>3, <1>12, <1>13, <2>2
    <3> QED
      BY <1>4, <1>9, <3>1
  <2>3. CASE k = p + 2
    <3>0. p < n /\ p + 1 \in 1..n /\ k > p + 1 /\ k - 1 = p + 1
      BY SMTT(40), <1>1, <1>3, <2>3
    <3>1. ord2[k] = ord[p + 1] /\ b2[k] = b[p + 1]
      BY SMTT(40), <1>1, <1>12, <1>13, <3>0
    <3>2. b[p + 1] = Nil
      <4>1. b[p + 1] = Effect(hist[ord[p + 1]].req, b[(p + 1) - 1])
        BY <1>1, <3>0
      <4> QED
        BY <1>11, <3>0, <4>1
    <3> QED
      BY SMTT(40), <1>1, <1>6, <1>8, <1>11, <3>0, <3>1, <3>2
  <2>4. CASE k > p + 2
    <3>0. k > p + 1 /\ k - 1 > p + 1 /\ k - 1 \in 0..(n+1) /\ k \in 0..(n+1)
      BY SMTT(40), <1>1, <1>3, <2>4
    <3>1. /\ k - 1 \in 1..n /\ ord2[k] = ord[k - 1] /\ b2[k] = b[k - 1]
          /\ b2[k - 1] = b[(k - 1) - 1]
      BY <1>12, <1>13, <3>0
    <3> QED
      BY <1>1, <1>6, <1>8, <3>1
  <2> QED
    BY SMTT(40), <1>1, <1>3, <2>1, <2>2, <2>3, <2>4
<1> QED
  <2>1. DOMAIN hist' = DOMAIN hist /\ \A j : hist'[j] = hist[j]
    BY <1>7
  <2>2. n + 1 \in Nat
    BY <1>1
  <2>3. Cell' = Cell
    BY DEF Cell
  <2>4. \A k \in 1..(n+1) : Explains(ord2[k], b2[k-1])'
    BY <1>19
  <2>5. \A k \in 1..(n+1) : b2[k] = Effect(hist'[ord2[k]].req, b2[k-1])
    <3>1. \A k \in 1..(n+1) : b2[k] = Effect(hist[ord2[k]].req, b2[k-1])
      BY <1>19
    <3> HIDE DEF Effect
    <3> QED
      BY ONLY <3>1, <1>7
  <2>6. \A j, k \in 1..(n+1) : j < k => ord2[k] \notin hist'[ord2[j]].after
    BY <1>18, <2>1
  <2>7. ord2 \in [1..(n+1) -> DOMAIN hist'] /\ b2 \in [0..(n+1) -> Cell']
    BY <1>14, <1>15, <2>1, <2>3
  <2> HIDE DEF Effect
  <2> QED
    BY ONLY <1>16, <1>17, <2>2, <2>4, <2>5, <2>6, <2>7 DEF Order
\* Then the call, and no other one, has joined those that took effect.
LEMMA InsertPlaced ==
  ASSUME IInv, HistoryAgrees, NEW c \in Clients, TakesEffect(c),
         NEW n, NEW ord, NEW b, NEW pos, Witness(n, ord, b, pos),
         NEW p, p \in 0..n, NEW i, i = id[c],
         NEW ord2, ord2 = [q \in 1..(n + 1) |->
           IF q <= p THEN ord[q] ELSE IF q = p + 1 THEN i ELSE ord[q - 1]]
  PROVE  Placed(n + 1, ord2)'
<1>1. n \in Nat /\ p \in Nat
  BY DEF Witness, Order
<1>2. ord2[p + 1] = i /\ p + 1 \in 1..(n + 1)
  BY <1>1
<1>3. ASSUME NEW k \in 1..n
      PROVE  \E l \in 1..(n + 1) : ord2[l] = ord[k]
  <2>1. CASE k <= p
    BY <1>1, <2>1
  <2>2. CASE k > p
    <3>1. k + 1 \in 1..(n + 1) /\ k + 1 > p + 1 /\ (k + 1) - 1 = k
      BY <1>1, <2>2
    <3> QED
      BY <1>1, <3>1
  <2> QED
    BY <1>1, <2>1, <2>2
<1>4. ASSUME NEW l \in 1..(n + 1), ord2[l] # i
      PROVE  \E k \in 1..n : ord[k] = ord2[l]
  <2>1. CASE l <= p
    BY <1>1, <2>1
  <2>2. CASE l > p + 1
    <3>1. l - 1 \in 1..n /\ ord2[l] = ord[l - 1]
      BY <1>1, <2>2
    <3> QED
      BY <3>1
  <2> QED
    BY <1>1, <1>2, <1>4, <2>1, <2>2
<1>5. /\ \A d \in Clients \ {c} : pc'[d] = pc[d]
      /\ pc'[c] \in {"touch", "done"} /\ pc[c] # "idle"
      /\ id' = id /\ Over' = Over
  BY DEF TakesEffect, Over
<1>6. \A d \in Clients : pc[d] # "idle" /\ id[d] = i => d = c
  BY <1>5 DEF HistoryAgrees
<1>7. \A j \in Over' : \E k \in 1..(n + 1) : ord2[k] = j
  BY <1>3, <1>5 DEF Witness, Placed
<1>8. \A d \in Clients : pc'[d] \in {"touch", "close", "done"} =>
        \E k \in 1..(n + 1) : ord2[k] = id'[d]
  BY <1>2, <1>3, <1>5 DEF Witness, Placed
<1>9. \A d \in Clients : pc'[d] \in {"lookup", "create", "body", "wait", "unmap"} =>
        \A k \in 1..(n + 1) : ord2[k] # id'[d]
  <2> SUFFICES ASSUME NEW d \in Clients, NEW l \in 1..(n + 1),
                      pc'[d] \in {"lookup", "create", "body", "wait", "unmap"}, ord2[l] = id'[d]
               PROVE  FALSE
    OBVIOUS
  <2>1. d # c /\ pc[d] = pc'[d] /\ id[d] # i
    BY <1>5, <1>6
  <2>2. PICK k \in 1..n : ord[k] = id[d]
    BY SMTT(40), <1>4, <1>5, <2>1
  <2> QED
    BY <2>1, <2>2 DEF Witness, Placed
<1> QED
  BY <1>7, <1>8, <1>9 DEF Placed

\* And every entry keeps its anchor, moved by one from the inserted call on.
LEMMA InsertAnchored ==
  ASSUME IInv, HistoryAgrees, NEW c \in Clients, TakesEffect(c),
         NEW n, NEW ord, NEW b, NEW pos, Witness(n, ord, b, pos),
         NEW p, p = pos[ent[c]], NEW i, i = id[c],
         NEW ord2, ord2 = [q \in 1..(n + 1) |->
           IF q <= p THEN ord[q] ELSE IF q = p + 1 THEN i ELSE ord[q - 1]],
         NEW b2, b2 = [q \in 0..(n + 1) |->
           IF q <= p THEN b[q] ELSE IF q = p + 1 THEN Effect(req[c], b[p]) ELSE b[q - 1]],
         NEW pos2, pos2 = [e \in Entries |-> IF pos[e] < p THEN pos[e] ELSE pos[e] + 1]
  PROVE  Anchored(n + 1, ord2, b2, pos2)'
<1>1. /\ n \in Nat /\ pos \in [Entries -> Nat]
      /\ m \in [Keys -> Entries \cup {Nil}]
      /\ \A d \in Clients : pc[d] \in {"body", "wait"} => ent[d] \in Entries
  BY DEF Witness, Order, Anchored, IInv, TypeOK, Types, Fields, Working
<1>2. ent[c] \in Entries /\ Live(ent[c]) /\ pc[c] \in {"body", "wait"}
  BY <1>1 DEF TakesEffect, Live
<1>3. \A e \in Entries : Live(e) =>
       /\ pos[e] <= n
       /\ b[pos[e]] = data[e]
       /\ pos[e] < n => hist[ord[pos[e] + 1]].req.op = "delete"
       /\ \A f \in Entries : Live(f) /\ pos[f] = pos[e] => f = e
  BY DEF Witness, Anchored
<1>4. p \in 0..n /\ b[p] = data[ent[c]]
  BY <1>1, <1>2, <1>3
<1>5. n \in Nat /\ p \in Nat /\ p <= n
  BY <1>1, <1>4
<1>6. /\ \A q \in 1..(n+1) : q <= p => q \in 1..n /\ ord2[q] = ord[q]
      /\ ord2[p + 1] = i
      /\ \A q \in 1..(n+1) : q > p + 1 => q - 1 \in 1..n /\ ord2[q] = ord[q - 1]
  BY <1>5
<1>7. /\ \A q \in 0..(n+1) : q <= p => b2[q] = b[q]
      /\ b2[p + 1] = Effect(req[c], b[p])
      /\ \A q \in 0..(n+1) : q > p + 1 => b2[q] = b[q - 1]
  BY <1>5
<1>8. /\ pos2 \in [Entries -> Nat]
      /\ \A e \in Entries : pos2[e] = IF pos[e] < p THEN pos[e] ELSE pos[e] + 1
  BY <1>1
<1>9. UNCHANGED <<m, hist, id>> /\ \A d \in Clients \ {c} : pc'[d] = pc[d] /\ ent'[d] = ent[d]
  BY DEF TakesEffect
<1>10. \A d \in Clients : pc'[d] \in {"body", "wait"} => d # c /\ pc[d] = pc'[d] /\ ent'[d] = ent[d]
  BY DEF TakesEffect
<1>11. \A e \in Entries : Live(e)' => Live(e)
  BY <1>9, <1>10 DEF Live
<1>12. \A e \in Entries : data'[e] = IF e = ent[c] THEN Effect(req[c], data[e]) ELSE data[e]
  BY DEF TakesEffect
<1>13. \A d \in Clients : pc[d] # "idle" => id[d] \in DOMAIN hist /\ i \notin hist[id[d]].after
  BY <1>2 DEF HistoryAgrees, Over
<1>14. ASSUME NEW e \in Entries, Live(e), e # ent[c]
       PROVE  pos[e] \in 0..n /\ pos[e] # p
  BY <1>1, <1>2, <1>3, <1>14
<1>15. p = pos[ent[c]]
  BY ZenonT(60)
<1>16. ASSUME NEW e \in Entries, Live(e)
       PROVE  /\ pos2[e] <= n + 1
              /\ b2[pos2[e]] = data'[e]
              /\ pos2[e] < n + 1 => hist'[ord2[pos2[e] + 1]].req.op = "delete"
  <2>1. CASE e = ent[c]
    <3>1. pos2[e] = p + 1 /\ b2[p + 1] = data'[e]
      BY SMTT(40), <1>4, <1>5, <1>7, <1>8, <1>12, <1>15, <2>1
    <3>2. ASSUME p + 1 < n + 1
          PROVE  hist'[ord2[(p + 1) + 1]].req.op = "delete"
      <4>1. p < n /\ (p + 1) + 1 \in 1..(n+1) /\ (p + 1) + 1 > p + 1 /\ ((p + 1) + 1) - 1 = p + 1
        BY <1>5, <3>2
      <4>2. ord2[(p + 1) + 1] = ord[p + 1]
        BY <1>6, <4>1
      <4>3. hist[ord[p + 1]].req.op = "delete"
        BY <1>2, <1>3, <1>15, <4>1
      <4> QED
        BY <1>9, <4>2, <4>3
    <3>3. p + 1 <= n + 1
      BY SMTT(40), <1>5
    <3> QED
      BY ONLY <3>1, <3>2, <3>3
  <2>2. CASE e # ent[c] /\ pos[e] < p
    <3>1. pos2[e] = pos[e] /\ pos[e] \in 0..(n+1) /\ pos[e] <= p /\ pos[e] < n
          /\ pos[e] + 1 \in 1..(n+1) /\ pos[e] + 1 <= p
      BY <1>5, <1>8, <1>14, <1>16, <2>2
    <3>2. b2[pos[e]] = data'[e]
      BY SMTT(40), <1>3, <1>7, <1>12, <1>16, <2>2, <3>1
    <3>3. hist'[ord2[pos[e] + 1]].req.op = "delete"
      BY SMTT(40), <1>3, <1>6, <1>9, <1>16, <3>1
    <3> QED
      BY ONLY <3>1, <3>2, <3>3
  <2>3. CASE e # ent[c] /\ ~(pos[e] < p)
    <3>1. /\ pos2[e] = pos[e] + 1 /\ pos[e] + 1 \in 0..(n+1) /\ pos[e] + 1 > p + 1
          /\ (pos[e] + 1) - 1 = pos[e]
      BY SMTT(40), <1>5, <1>8, <1>14, <1>16, <2>3
    <3>2. b2[pos[e] + 1] = data'[e]
      BY <1>3, <1>7, <1>12, <1>16, <2>3, <3>1
    <3>3. ASSUME pos[e] + 1 < n + 1
          PROVE  hist'[ord2[(pos[e] + 1) + 1]].req.op = "delete"
      <4>1. /\ pos[e] < n /\ (pos[e] + 1) + 1 \in 1..(n+1) /\ (pos[e] + 1) + 1 > p + 1
            /\ ((pos[e] + 1) + 1) - 1 = pos[e] + 1
        <5>1. n \in Nat /\ p \in Nat /\ pos[e] \in Nat
          BY <1>1, <1>5
        <5> QED
          BY ONLY <2>3, <3>3, <5>1
      <4> QED
        BY <1>3, <1>6, <1>9, <1>16, <4>1
    <3> QED
      BY ONLY <3>1, <3>2, <3>3
  <2> QED
    BY <2>1, <2>2, <2>3
<1>17. ASSUME NEW e \in Entries, NEW f \in Entries, Live(e), Live(f), pos2[f] = pos2[e]
       PROVE  f = e
  <2>1. pos[e] \in Nat /\ pos[f] \in Nat
    BY <1>1
  <2>2. pos[f] = pos[e]
    BY SMTT(40), <1>5, <1>8, <1>17, <2>1
  <2> QED
    BY <1>3, <1>17, <2>2
<1>18. \A k \in Keys : m'[k] # Nil => pos2[m'[k]] = n + 1
  <2> SUFFICES ASSUME NEW k \in Keys, m[k] # Nil PROVE pos2[m[k]] = n + 1
    BY <1>9
  <2>1. m[k] \in Entries /\ pos[m[k]] = n
    BY <1>1 DEF Witness, Anchored
  <2> QED
    BY <1>5, <1>8, <2>1
<1>19. ASSUME NEW k \in Keys, m'[k] = Nil
       PROVE  b2[n + 1] = Nil /\ \A e \in Entries : Live(e) => pos2[e] < n + 1
  <2>1. b[n] = Nil /\ \A e \in Entries : Live(e) => pos[e] < n
    BY <1>9, <1>19 DEF Witness, Anchored
  <2>2. p < n
    BY <1>2, <1>15, <2>1
  <2>3. n + 1 \in 0..(n+1) /\ n + 1 > p + 1 /\ (n + 1) - 1 = n
    BY <1>5, <2>2
  <2>4. b2[n + 1] = Nil
    BY <1>7, <2>1, <2>3
  <2>5. ASSUME NEW e \in Entries, Live(e)
        PROVE  pos2[e] < n + 1
    <3>1. pos[e] \in Nat /\ pos[e] < n
      BY <1>1, <2>1, <2>5
    <3> QED
      BY <1>5, <1>8, <3>1
  <2> QED
    BY <2>4, <2>5
<1>20. ASSUME NEW d \in Clients, pc'[d] \in {"body", "wait"},
              NEW q \in 1..(n + 1), q > pos2[ent'[d]]
       PROVE  ord2[q] \notin hist'[id'[d]].after
  <2>1. pc[d] \in {"body", "wait"} /\ ent'[d] = ent[d] /\ ent[d] \in Entries /\ pos[ent[d]] \in Nat
    BY <1>1, <1>10, <1>20
  <2>2. \A l \in 1..n : l > pos[ent[d]] => ord[l] \notin hist[id[d]].after
    BY <2>1 DEF Witness, Anchored
  <2>3. CASE q = p + 1
    BY <1>6, <1>9, <1>13, <2>1, <2>3
  <2>4. CASE q <= p
    <3>1. q > pos[ent[d]] /\ q \in 1..n
      BY <1>5, <1>8, <1>20, <2>1, <2>4
    <3> QED
      BY <1>6, <1>9, <2>2, <2>4, <3>1
  <2>5. CASE q > p + 1
    <3>1. q - 1 > pos[ent[d]] /\ q - 1 \in 1..n
      BY SMTT(40), <1>5, <1>8, <1>20, <2>1, <2>5
    <3> QED
      BY <1>6, <1>9, <2>2, <2>5, <3>1
  <2> QED
    BY <1>5, <2>3, <2>4, <2>5
<1>21. \A e \in Entries : Live(e)' =>
       /\ pos2[e] <= n + 1
       /\ b2[pos2[e]] = data'[e]
       /\ pos2[e] < n + 1 => hist'[ord2[pos2[e] + 1]].req.op = "delete"
       /\ \A f \in Entries : Live(f)' /\ pos2[f] = pos2[e] => f = e
  BY <1>11, <1>16, <1>17
<1>22. \A k \in Keys : m'[k] = Nil =>
         b2[n + 1] = Nil /\ \A e \in Entries : Live(e)' => pos2[e] < n + 1
  BY <1>11, <1>19
<1> QED
  BY <1>8, <1>18, <1>20, <1>21, <1>22 DEF Anchored

\* A call that takes effect preserves the existence of a witness.
LEMMA TakesEffectPreserves ==
  ASSUME LInv, NEW c \in Clients, TakesEffect(c)
  PROVE  (\E n, ord, b, pos : Witness(n, ord, b, pos))'
<1>1. PICK n, ord, b, pos : Witness(n, ord, b, pos)
  BY DEF LInv
<1>2. PICK p, i : p = pos[ent[c]] /\ i = id[c]
  OBVIOUS
<1>3. p \in 0..n
  BY <1>1, <1>2 DEF LInv, IInv, TypeOK, Types, Fields, Working, TakesEffect, Live, Witness,
      Order, Anchored
<1>4. PICK ord2 : ord2 = [q \in 1..(n + 1) |->
           IF q <= p THEN ord[q] ELSE IF q = p + 1 THEN i ELSE ord[q - 1]]
  OBVIOUS
<1>5. PICK b2 : b2 = [q \in 0..(n + 1) |->
           IF q <= p THEN b[q] ELSE IF q = p + 1 THEN Effect(req[c], b[p]) ELSE b[q - 1]]
  OBVIOUS
<1>6. PICK pos2 : pos2 = [e \in Entries |-> IF pos[e] < p THEN pos[e] ELSE pos[e] + 1]
  OBVIOUS
<1>7. Order(n + 1, ord2, b2)'
  BY <1>1, <1>2, <1>4, <1>5, InsertOrder DEF LInv
<1>8. Placed(n + 1, ord2)'
  BY <1>1, <1>2, <1>3, <1>4, InsertPlaced DEF LInv
<1>9. Anchored(n + 1, ord2, b2, pos2)'
  BY SMTT(40), <1>1, <1>2, <1>4, <1>5, <1>6, InsertAnchored DEF LInv
<1>10. Witness(n + 1, ord2, b2, pos2)'
  BY <1>7, <1>8, <1>9 DEF Witness
<1> QED
  BY <1>10
-----------------------------------------------------------------------------
\* The past of the history does not change.
PastKept ==
  /\ DOMAIN hist \subseteq DOMAIN hist'
  /\ \A i \in DOMAIN hist : hist'[i].req = hist[i].req /\ hist'[i].after = hist[i].after

\* Call i takes the entry out of the map; no call came after it, and every other
\* call is explained as before and works on the entry it had.
EmptiesMap(i, n, ord) ==
  /\ PastKept
  /\ m' = [j \in Keys |-> Nil] /\ data' = data
  /\ i \in DOMAIN hist' /\ hist'[i].req.op = "delete"
  /\ \A l \in 1..n : ord[l] # i
  /\ \A j \in DOMAIN hist : i \notin hist[j].after
  /\ \A j \in DOMAIN hist : \A d : j # i /\ Explains(j, d) => Explains(j, d)'
  /\ \A d : Explains(i, d)'
  /\ \A d \in Clients : pc'[d] \in {"body", "wait"} =>
       pc[d] = pc'[d] /\ ent'[d] = ent[d] /\ id'[d] = id[d] /\ id[d] \in DOMAIN hist

\* Such a call goes to the end of the order.
LEMMA AppendOrder ==
  ASSUME NEW n, NEW ord, NEW b, Order(n, ord, b), NEW i, EmptiesMap(i, n, ord),
         NEW ord2, ord2 = [q \in 1..(n + 1) |-> IF q <= n THEN ord[q] ELSE i],
         NEW b2, b2 = [q \in 0..(n + 1) |-> IF q <= n THEN b[q] ELSE Nil]
  PROVE  Order(n + 1, ord2, b2)'
<1>1. /\ n \in Nat /\ ord \in [1..n -> DOMAIN hist] /\ b \in [0..n -> Cell] /\ b[0] = Nil
      /\ \A j, l \in 1..n : ord[j] = ord[l] => j = l
      /\ \A j, l \in 1..n : j < l => ord[l] \notin hist[ord[j]].after
      /\ \A l \in 1..n : Explains(ord[l], b[l-1])
      /\ \A l \in 1..n : b[l] = Effect(hist[ord[l]].req, b[l-1])
  BY DEF Order
<1>2. /\ DOMAIN hist \subseteq DOMAIN hist'
      /\ \A j \in DOMAIN hist : hist'[j].req = hist[j].req /\ hist'[j].after = hist[j].after
      /\ i \in DOMAIN hist' /\ hist'[i].req.op = "delete"
      /\ \A l \in 1..n : ord[l] # i
      /\ \A j \in DOMAIN hist : i \notin hist[j].after
  BY DEF EmptiesMap, PastKept
<1>3. /\ \A q \in 1..n : q \in 1..(n+1) /\ ord2[q] = ord[q]
      /\ ord2[n + 1] = i
      /\ \A q \in 1..(n+1) : q = n + 1 \/ q \in 1..n
      /\ ord2 \in [1..(n+1) -> DOMAIN hist']
  BY <1>1, <1>2
<1>4. /\ \A q \in 0..n : b2[q] = b[q]
      /\ b2[n + 1] = Nil
      /\ b2 \in [0..(n+1) -> Cell']
  BY <1>1 DEF Cell
<1>5. b2[0] = Nil
  BY <1>1, <1>4
<1>6. \A j, l \in 1..(n+1) : ord2[j] = ord2[l] => j = l
  BY <1>1, <1>2, <1>3
<1>7. \A j, l \in 1..(n+1) : j < l => ord2[l] \notin hist'[ord2[j]].after
  <2> SUFFICES ASSUME NEW j \in 1..(n+1), NEW l \in 1..(n+1), j < l
               PROVE  ord2[l] \notin hist'[ord2[j]].after
    OBVIOUS
  <2>1. j \in 1..n /\ ord2[j] = ord[j] /\ ord[j] \in DOMAIN hist
    BY <1>1, <1>3
  <2>2. hist'[ord2[j]].after = hist[ord[j]].after
    BY <1>2, <2>1
  <2>3. CASE l = n + 1
    BY <1>2, <1>3, <2>1, <2>2, <2>3
  <2>4. CASE l \in 1..n
    BY <1>1, <1>3, <2>1, <2>2, <2>4
  <2> QED
    BY <1>3, <2>3, <2>4
<1>8. ASSUME NEW l \in 1..(n+1)
      PROVE  Explains(ord2[l], b2[l-1])' /\ b2[l] = Effect(hist'[ord2[l]].req, b2[l-1])
  <2>1. CASE l = n + 1
    <3>1. \A d : Effect(hist'[i].req, d) = Nil
      BY <1>2, EffectOf
    <3> QED
      BY <1>3, <1>4, <2>1, <3>1 DEF EmptiesMap
  <2>2. CASE l \in 1..n
    <3>1. l - 1 \in 0..n /\ l \in 0..n
      BY <1>1, <2>2
    <3>2. ord2[l] = ord[l] /\ b2[l] = b[l] /\ b2[l - 1] = b[l - 1] /\ ord[l] \in DOMAIN hist
      BY <1>1, <1>3, <1>4, <2>2, <3>1
    <3>3. Explains(ord[l], b[l-1])'
      BY <1>1, <1>2, <2>2, <3>2 DEF EmptiesMap
    <3>4. b[l] = Effect(hist[ord[l]].req, b[l-1])
      BY <1>1, <2>2
    <3> HIDE DEF Effect
    <3> QED
      BY ONLY <1>2, <3>2, <3>3, <3>4
  <2> QED
    BY <1>3, <2>1, <2>2
<1>9. n + 1 \in Nat
  BY <1>1
<1> HIDE DEF Effect
<1> QED
  BY ONLY <1>3, <1>4, <1>5, <1>6, <1>7, <1>8, <1>9 DEF Order

\* The entry it took out stays anchored, now just before it.
LEMMA AppendAnchored ==
  ASSUME NEW n, NEW ord, NEW b, NEW pos, Order(n, ord, b), Anchored(n, ord, b, pos),
         NEW i, EmptiesMap(i, n, ord),
         NEW ord2, ord2 = [q \in 1..(n + 1) |-> IF q <= n THEN ord[q] ELSE i],
         NEW b2, b2 = [q \in 0..(n + 1) |-> IF q <= n THEN b[q] ELSE Nil]
  PROVE  Anchored(n + 1, ord2, b2, pos)'
<1>1. n \in Nat /\ ord \in [1..n -> DOMAIN hist] /\ pos \in [Entries -> Nat]
  BY DEF Order, Anchored
<1>2. /\ DOMAIN hist \subseteq DOMAIN hist'
      /\ \A j \in DOMAIN hist : hist'[j].req = hist[j].req /\ hist'[j].after = hist[j].after
      /\ i \in DOMAIN hist' /\ hist'[i].req.op = "delete"
      /\ m' = [j \in Keys |-> Nil] /\ data' = data
      /\ \A j \in DOMAIN hist : i \notin hist[j].after
      /\ \A d \in Clients : pc'[d] \in {"body", "wait"} =>
           pc[d] = pc'[d] /\ ent'[d] = ent[d] /\ id'[d] = id[d] /\ id[d] \in DOMAIN hist
  BY DEF EmptiesMap, PastKept
<1>3. /\ \A q \in 1..n : ord2[q] = ord[q] /\ ord[q] \in DOMAIN hist
      /\ ord2[n + 1] = i
      /\ \A q \in 1..(n+1) : q = n + 1 \/ q \in 1..n
      /\ \A q \in 0..n : b2[q] = b[q]
      /\ b2[n + 1] = Nil
  BY <1>1
<1>4. \A e \in Entries : Live(e)' => Live(e)
  <2>1. \A e \in Entries : \A j \in Keys : m'[j] # e
    BY <1>2, NilIsNothing
  <2> QED
    BY <1>2, <2>1 DEF Live
<1>5. ASSUME NEW e \in Entries, Live(e)
      PROVE  /\ pos[e] < n + 1
             /\ b2[pos[e]] = data'[e]
             /\ hist'[ord2[pos[e] + 1]].req.op = "delete"
             /\ \A f \in Entries : Live(f) /\ pos[f] = pos[e] => f = e
  <2>1. /\ pos[e] \in Nat /\ pos[e] <= n /\ b[pos[e]] = data[e]
        /\ pos[e] < n => hist[ord[pos[e] + 1]].req.op = "delete"
        /\ \A f \in Entries : Live(f) /\ pos[f] = pos[e] => f = e
    BY <1>1, <1>5 DEF Anchored
  <2>2. pos[e] < n + 1 /\ pos[e] \in 0..n
    BY <1>1, <2>1
  <2>3. CASE pos[e] = n
    BY <1>2, <1>3, <2>1, <2>2, <2>3
  <2>4. CASE pos[e] < n
    <3>1. pos[e] + 1 \in 1..n
      BY <1>1, <2>2, <2>4
    <3>2. ord2[pos[e] + 1] = ord[pos[e] + 1] /\ ord[pos[e] + 1] \in DOMAIN hist
      BY <1>3, <3>1
    <3>3. hist'[ord2[pos[e] + 1]].req.op = "delete"
      BY <1>2, <2>1, <2>4, <3>2
    <3> QED
      BY <1>2, <1>3, <2>1, <2>2, <3>3
  <2> QED
    BY <1>1, <2>1, <2>3, <2>4
<1>6. ASSUME NEW d \in Clients, pc'[d] \in {"body", "wait"}, NEW q \in 1..(n+1), q > pos[ent'[d]]
      PROVE  ord2[q] \notin hist'[id'[d]].after
  <2>1. /\ pc[d] \in {"body", "wait"} /\ ent'[d] = ent[d] /\ id'[d] = id[d]
        /\ id[d] \in DOMAIN hist /\ hist'[id'[d]].after = hist[id[d]].after
    BY <1>2, <1>6
  <2>2. CASE q = n + 1
    BY <1>2, <1>3, <2>1, <2>2
  <2>3. CASE q \in 1..n
    <3>1. ord[q] \notin hist[id[d]].after
      BY <1>6, <2>1, <2>3 DEF Anchored
    <3> QED
      BY <1>3, <2>1, <2>3, <3>1
  <2> QED
    BY <1>3, <2>2, <2>3
<1>7. /\ \A j \in Keys : m'[j] # Nil => pos[m'[j]] = n + 1
      /\ \A j \in Keys : m'[j] = Nil =>
           b2[n + 1] = Nil /\ \A e \in Entries : Live(e)' => pos[e] < n + 1
  BY <1>2, <1>3, <1>4, <1>5
<1>8. \A e \in Entries : Live(e)' =>
     /\ pos[e] <= n + 1
     /\ b2[pos[e]] = data'[e]
     /\ pos[e] < n + 1 => hist'[ord2[pos[e] + 1]].req.op = "delete"
     /\ \A f \in Entries : Live(f)' /\ pos[f] = pos[e] => f = e
  <2> TAKE e \in Entries
  <2> HAVE Live(e)'
  <2>1. Live(e) /\ pos[e] \in Nat
    BY <1>1, <1>4
  <2>2. pos[e] <= n + 1
    <3>1. pos[e] < n + 1
      BY <1>5, <2>1
    <3>2. \A x, y \in Nat : x < y + 1 => x <= y + 1
      OBVIOUS
    <3> QED
      BY <1>1, <2>1, <3>1, <3>2
  <2>3. \A f \in Entries : Live(f)' /\ pos[f] = pos[e] => f = e
    BY <1>4, <1>5, <2>1
  <2> QED
    BY <1>5, <2>1, <2>2, <2>3
<1> QED
  BY <1>1, <1>6, <1>7, <1>8 DEF Anchored

\* A Delete that takes the entry out of the map, or finds none, goes to the end.
LEMMA DeleteUnmapWitness ==
  ASSUME LInv, NEW k, Keys = {k}, NEW c \in Clients, DeleteUnmap(c), UNCHANGED <<hist, id>>
  PROVE  (\E n, ord, b, pos : Witness(n, ord, b, pos))'
<1>1. PICK n, ord, b, pos : Witness(n, ord, b, pos)
  BY DEF LInv
<1>2. PICK i : i = id[c]
  OBVIOUS
<1>3. PICK ord2 : ord2 = [q \in 1..(n + 1) |-> IF q <= n THEN ord[q] ELSE i]
  OBVIOUS
<1>4. PICK b2 : b2 = [q \in 0..(n + 1) |-> IF q <= n THEN b[q] ELSE Nil]
  OBVIOUS
<1>5. n \in Nat
  BY <1>1 DEF Witness, Order
<1>6. /\ pc[c] = "unmap" /\ req[c].op = "delete" /\ req[c].key = k
      /\ pc'[c] \in {"close", "done"}
      /\ \A d \in Clients \ {c} : pc'[d] = pc[d] /\ ent'[d] = ent[d] /\ res'[d] = res[d]
      /\ m' = [j \in Keys |-> Nil] /\ data' = data
      /\ UNCHANGED <<hist, id>>
  <2>1. pc[c] = "unmap" /\ data' = data
    BY DEF DeleteUnmap
  <2>2. req[c].op = "delete"
    BY <2>1 DEF LInv, IInv, Outcomes, DeleteOnly
  <2>3. req[c].key = k
    BY <2>1, RequestTypes DEF LInv, IInv, TypeOK, Fields
  <2>4. pc'[c] \in {"close", "done"}
    BY DEF DeleteUnmap, Finish, LInv, IInv, TypeOK, Types
  <2>5. \A d \in Clients \ {c} : pc'[d] = pc[d] /\ ent'[d] = ent[d] /\ res'[d] = res[d]
    BY StepShape DEF Step, LInv
  <2>6. m' = [j \in Keys |-> Nil]
    BY <2>3 DEF DeleteUnmap, LInv, IInv, TypeOK, Types
  <2> QED
    BY <2>1, <2>2, <2>3, <2>4, <2>5, <2>6
<1>7. /\ i \in DOMAIN hist /\ hist[i].req = req[c] /\ hist[i].res = Nil /\ i \notin Over
      /\ \A d \in Clients : pc[d] # "idle" /\ id[d] = i => d = c
      /\ \A j \in DOMAIN hist : i \notin hist[j].after
  BY <1>2, <1>6 DEF LInv, HistoryAgrees, Over
<1>8. \A l \in 1..n : ord[l] # i
  BY <1>1, <1>2, <1>6 DEF Witness, Placed
<1>9. \A j \in DOMAIN hist : \A d : j # i => (Explains(j, d)' <=> Explains(j, d))
  BY <1>2, <1>6, OthersExplained DEF LInv
<1>10. \A d : Explains(i, d)'
  <2>1. Free(res'[c])
    BY <1>6 DEF DeleteUnmap, Finish, NoDoc, Free, LInv, CallsInPlace, IInv, TypeOK, Types
  <2>2. \A d \in Clients : id[d] = i /\ d # c => res'[d] = Nil
    BY <1>6, <1>7 DEF LInv, IInv, TypeOK, Fields
  <2>3. \A d \in Clients : id'[d] = i => Free(res'[d])
    BY <1>6, <2>1, <2>2 DEF Free
  <2>4. Free(hist'[i].res)
    BY <1>6, <1>7 DEF Free
  <2> QED
    BY <2>3, <2>4, FreeFits DEF Explains
<1>11. EmptiesMap(i, n, ord)
  <2>1. PastKept
    BY <1>6 DEF PastKept
  <2>2. \A d \in Clients : pc'[d] \in {"body", "wait"} =>
          pc[d] = pc'[d] /\ ent'[d] = ent[d] /\ id'[d] = id[d] /\ id[d] \in DOMAIN hist
    BY <1>6 DEF LInv, HistoryAgrees
  <2> HIDE DEF Explains
  <2> QED
    BY <1>6, <1>7, <1>8, <1>9, <1>10, <2>1, <2>2 DEF EmptiesMap
<1>12. Order(n + 1, ord2, b2)' /\ Anchored(n + 1, ord2, b2, pos)'
  BY <1>1, <1>3, <1>4, <1>11, AppendOrder, AppendAnchored DEF Witness
<1>13. /\ \A q \in 1..n : q \in 1..(n+1) /\ ord2[q] = ord[q]
       /\ n + 1 \in 1..(n+1) /\ ord2[n + 1] = i
       /\ \A q \in 1..(n+1) : q = n + 1 \/ q \in 1..n
  BY <1>3, <1>5
<1>14. Placed(n + 1, ord2)'
  <2>1. Over' = Over
    BY <1>6 DEF Over
  <2>2. \A j \in Over : \E q \in 1..(n+1) : ord2[q] = j
    BY <1>1, <1>13 DEF Witness, Placed
  <2>3. \A d \in Clients : pc'[d] \in {"touch", "close", "done"} =>
          \E q \in 1..(n+1) : ord2[q] = id[d]
    <3> TAKE d \in Clients
    <3>1. CASE d = c
      BY <1>2, <1>13, <3>1
    <3>2. CASE d # c
      BY <1>1, <1>6, <1>13, <3>2 DEF Witness, Placed
    <3> QED
      BY <3>1, <3>2
  <2>4. \A d \in Clients : pc'[d] \in {"lookup", "create", "body", "wait", "unmap"} =>
          \A q \in 1..(n+1) : ord2[q] # id[d]
    <3> TAKE d \in Clients
    <3> HAVE pc'[d] \in {"lookup", "create", "body", "wait", "unmap"}
    <3>1. d # c /\ pc[d] = pc'[d] /\ id[d] # i
      BY <1>2, <1>6, <1>7
    <3>2. \A q \in 1..n : ord[q] # id[d]
      BY <1>1, <3>1 DEF Witness, Placed
    <3> QED
      BY <1>13, <3>1, <3>2
  <2> QED
    BY <1>6, <2>1, <2>2, <2>3, <2>4 DEF Placed
<1>15. Witness(n + 1, ord2, b2, pos)'
  BY <1>12, <1>14 DEF Witness
<1> QED
  BY <1>15

\* The order stays one while its calls are explained.
LEMMA QuietKeepsOrder ==
  ASSUME PastKept, NEW n, NEW ord, NEW b, Order(n, ord, b),
         \A k \in 1..n : Explains(ord[k], b[k-1])'
  PROVE  Order(n, ord, b)'
<1>1. /\ n \in Nat /\ ord \in [1..n -> DOMAIN hist] /\ b \in [0..n -> Cell] /\ b[0] = Nil
      /\ \A j, k \in 1..n : ord[j] = ord[k] => j = k
      /\ \A j, k \in 1..n : j < k => ord[k] \notin hist[ord[j]].after
      /\ \A k \in 1..n : b[k] = Effect(hist[ord[k]].req, b[k-1])
  BY DEF Order
<1>2. Cell' = Cell
  BY DEF Cell
<1>3. ord \in [1..n -> DOMAIN hist'] /\ b \in [0..n -> Cell']
  BY <1>1, <1>2 DEF PastKept
<1> HIDE DEF Effect, Explains
<1>4. \A j, k \in 1..n : j < k => ord[k] \notin hist'[ord[j]].after
  BY <1>1 DEF PastKept
<1>5. \A k \in 1..n : b[k] = Effect(hist'[ord[k]].req, b[k-1])
  BY <1>1 DEF PastKept
<1> QED
  BY <1>1, <1>3, <1>4, <1>5 DEF Order

\* The anchors stay while no entry changes and every call that works on one had
\* it before or found it in the map.
LEMMA QuietKeepsAnchors ==
  ASSUME PastKept, HistoryAgrees, UNCHANGED <<m, data>>,
         \A d \in Clients : pc'[d] \in {"body", "wait"} =>
            /\ pc[d] # "idle" /\ id'[d] = id[d]
            /\ \/ pc[d] \in {"body", "wait"} /\ ent'[d] = ent[d]
               \/ ent'[d] # Nil /\ \E k \in Keys : m[k] = ent'[d],
         NEW n, NEW ord, NEW b, NEW pos, Order(n, ord, b), Anchored(n, ord, b, pos)
  PROVE  Anchored(n, ord, b, pos)'
<1>1. /\ \A e \in Entries : Live(e) =>
           /\ pos[e] <= n
           /\ b[pos[e]] = data[e]
           /\ pos[e] < n => hist[ord[pos[e] + 1]].req.op = "delete"
           /\ \A f \in Entries : Live(f) /\ pos[f] = pos[e] => f = e
      /\ pos \in [Entries -> Nat]
      /\ \A k \in Keys : m[k] # Nil => pos[m[k]] = n
      /\ \A k \in Keys : m[k] = Nil => b[n] = Nil /\ \A e \in Entries : Live(e) => pos[e] < n
      /\ \A d \in Clients : pc[d] \in {"body", "wait"} =>
           \A q \in 1..n : q > pos[ent[d]] => ord[q] \notin hist[id[d]].after
  BY DEF Anchored
<1>2. \A e \in Entries : Live(e)' => Live(e)
  BY DEF Live
<1>3. n \in Nat /\ ord \in [1..n -> DOMAIN hist]
  BY DEF Order
<1>4. ASSUME NEW e \in Entries, Live(e), pos[e] < n
      PROVE  hist'[ord[pos[e] + 1]].req.op = "delete"
  <2>1. pos[e] + 1 \in 1..n
    BY <1>1, <1>3, <1>4
  <2> QED
    BY <1>1, <1>3, <1>4, <2>1 DEF PastKept
<1>5. ASSUME NEW d \in Clients, pc'[d] \in {"body", "wait"}, NEW q \in 1..n, q > pos[ent'[d]]
      PROVE  ord[q] \notin hist'[id'[d]].after
  <2>1. id'[d] = id[d] /\ id[d] \in DOMAIN hist
    BY <1>5 DEF HistoryAgrees
  <2>2. CASE pc[d] \in {"body", "wait"} /\ ent'[d] = ent[d]
    BY <1>1, <1>5, <2>1, <2>2 DEF PastKept
  <2>3. CASE ent'[d] # Nil /\ \E k \in Keys : m[k] = ent'[d]
    BY <1>1, <1>3, <1>5, <2>3
  <2> QED
    BY <1>5, <2>2, <2>3
<1>6. \A e \in Entries : Live(e)' =>
           /\ pos[e] <= n
           /\ b[pos[e]] = data'[e]
           /\ pos[e] < n => hist'[ord[pos[e] + 1]].req.op = "delete"
           /\ \A f \in Entries : Live(f)' /\ pos[f] = pos[e] => f = e
  BY <1>1, <1>2, <1>4
<1>7. /\ \A k \in Keys : m'[k] # Nil => pos[m'[k]] = n
      /\ \A k \in Keys : m'[k] = Nil => b[n] = Nil /\ \A e \in Entries : Live(e)' => pos[e] < n
  BY <1>1, <1>2
<1> QED
  BY <1>1, <1>5, <1>6, <1>7 DEF Anchored

\* The steps of a call that take no effect: looking up an entry that is there,
\* or missing it; finding nothing to read, and waiting; refreshing lastTouch;
\* closing the channel.
LEMMA QuietWitness ==
  ASSUME LInv, NEW c \in Clients, UNCHANGED <<hist, id>>,
         \/ Lookup(c)
         \/ Create(c) /\ UNCHANGED m
         \/ GetSnapshot(c) /\ pc'[c] = "wait"
         \/ Touch(c)
         \/ DeleteClose(c)
  PROVE  (\E n, ord, b, pos : Witness(n, ord, b, pos))'
<1>1. PICK n, ord, b, pos : Witness(n, ord, b, pos)
  BY DEF LInv
<1> USE DEF LInv, IInv, TypeOK, Types
<1>2. \A d \in Clients \ {c} : pc'[d] = pc[d] /\ ent'[d] = ent[d] /\ res'[d] = res[d]
  BY StepShape DEF Step
<1>3. m' = m /\ data' = data
  <2>1. CASE Create(c) /\ UNCHANGED m
    <3>1. m[req[c].key] # Nil
      BY <2>1, NilIsNothing, RequestTypes DEF Create, NewEntry, Fields
    <3> QED
      BY <2>1, <3>1 DEF Create
  <2> QED
    BY <2>1 DEF Lookup, GetSnapshot, Touch, DeleteClose
<1>4. res'[c] = res[c] \/ Free(res'[c])
  BY DEF Lookup, Create, NewEntry, GetSnapshot, Touch, DeleteClose, Finish, Free, NoDoc
<1>5. \/ /\ pc[c] \in {"lookup", "create", "body"}
         /\ pc'[c] \in {"create", "body", "wait"}
      \/ pc[c] \in {"touch", "close"} /\ pc'[c] = "done"
  BY DEF Lookup, Create, NewEntry, Obtain, GetSnapshot, Touch, DeleteClose, Finish
<1>6. pc'[c] \in {"body", "wait"} =>
         \/ pc[c] \in {"body", "wait"} /\ ent'[c] = ent[c]
         \/ ent'[c] # Nil /\ \E k \in Keys : m[k] = ent'[c]
  <2>1. CASE GetSnapshot(c)
    BY <2>1 DEF GetSnapshot
  <2>2. CASE Lookup(c)
    BY <2>2, RequestTypes DEF Lookup, Obtain, Fields
  <2>3. CASE Create(c) /\ UNCHANGED m
    <3>1. m[req[c].key] # Nil
      BY <2>3, NilIsNothing, RequestTypes DEF Create, NewEntry, Fields
    <3> QED
      BY <2>3, <3>1, RequestTypes DEF Create, Obtain, Fields
  <2>4. CASE Touch(c) \/ DeleteClose(c)
    BY <2>4 DEF Touch, DeleteClose, Finish
  <2> QED
    BY <2>1, <2>2, <2>3, <2>4
<1>7. PastKept
  BY DEF PastKept
<1>8. Order(n, ord, b)'
  <2>1. \A i, d : Explains(i, d) => Explains(i, d)'
    BY <1>2, <1>4, FreeFits DEF Explains
  <2>2. \A k \in 1..n : Explains(ord[k], b[k-1])'
    BY <1>1, <2>1 DEF Witness, Order
  <2> QED
    BY <1>1, <1>7, <2>2, QuietKeepsOrder DEF Witness
<1>9. Placed(n, ord)'
  <2>1. Over' = Over
    BY DEF Over
  <2> QED
    BY <1>1, <1>2, <1>5, <2>1 DEF Witness, Placed
<1>10. Anchored(n, ord, b, pos)'
  <2>1. \A d \in Clients : pc'[d] \in {"body", "wait"} =>
            /\ pc[d] # "idle" /\ id'[d] = id[d]
            /\ \/ pc[d] \in {"body", "wait"} /\ ent'[d] = ent[d]
               \/ ent'[d] # Nil /\ \E k \in Keys : m[k] = ent'[d]
    BY <1>2, <1>5, <1>6
  <2> QED
    BY <1>1, <1>3, <1>7, <2>1, QuietKeepsAnchors DEF Witness
<1>11. Witness(n, ord, b, pos)'
  BY <1>8, <1>9, <1>10 DEF Witness
<1> QED
  BY <1>11

\* The insertion of a new, empty entry: it is anchored at the end.
LEMMA CreateWitness ==
  ASSUME LInv, NEW k, Keys = {k}, NEW c \in Clients, Create(c), m[req[c].key] = Nil,
         UNCHANGED <<hist, id>>
  PROVE  (\E n, ord, b, pos : Witness(n, ord, b, pos))'
<1>1. PICK n, ord, b, pos : Witness(n, ord, b, pos)
  BY DEF LInv
<1>2. pc[c] = "create" /\ req[c].key = k /\ m[k] = Nil
  BY RequestTypes DEF Create, LInv, IInv, TypeOK, Fields
<1>3. PICK e \in Entries :
         /\ Garbage(e)
         /\ m' = [m EXCEPT ![k] = e]
         /\ data' = [data EXCEPT ![e] = Nil]
         /\ ent' = [ent EXCEPT ![c] = e]
         /\ pc' = [pc EXCEPT ![c] = "body"]
         /\ res' = res
  BY <1>2 DEF Create, NewEntry, Obtain
<1>4. /\ m'[k] = e
      /\ data'[e] = Nil /\ \A f \in Entries \ {e} : data'[f] = data[f]
      /\ ent'[c] = e /\ pc'[c] = "body"
      /\ \A d \in Clients \ {c} : pc'[d] = pc[d] /\ ent'[d] = ent[d]
  BY <1>3 DEF LInv, IInv, TypeOK, Types
<1>5. PICK pos2 : pos2 = [pos EXCEPT ![e] = n]
  OBVIOUS
<1>6. /\ \A f \in Entries : Live(f) =>
           /\ pos[f] <= n
           /\ b[pos[f]] = data[f]
           /\ pos[f] < n => hist[ord[pos[f] + 1]].req.op = "delete"
           /\ \A g \in Entries : Live(g) /\ pos[g] = pos[f] => g = f
      /\ pos \in [Entries -> Nat]
      /\ b[n] = Nil /\ \A f \in Entries : Live(f) => pos[f] < n
      /\ \A d \in Clients : pc[d] \in {"body", "wait"} =>
           \A q \in 1..n : q > pos[ent[d]] => ord[q] \notin hist[id[d]].after
      /\ n \in Nat
  BY <1>1, <1>2 DEF Witness, Anchored, Order
<1>7. pos2 \in [Entries -> Nat] /\ pos2[e] = n /\ \A f \in Entries \ {e} : pos2[f] = pos[f]
  BY <1>5, <1>6
<1>8. \A f \in Entries \ {e} : Live(f)' => Live(f)
  BY <1>4 DEF Live
<1>9. PastKept
  BY DEF PastKept
<1>10. Order(n, ord, b)'
  <2>1. \A i, d : Explains(i, d) => Explains(i, d)'
    BY <1>3 DEF Explains
  <2>2. \A q \in 1..n : Explains(ord[q], b[q-1])'
    BY <1>1, <2>1 DEF Witness, Order
  <2> QED
    BY <1>1, <1>9, <2>2, QuietKeepsOrder DEF Witness
<1>11. Placed(n, ord)'
  <2>1. Over' = Over
    BY DEF Over
  <2> QED
    BY <1>1, <1>2, <1>4, <2>1 DEF Witness, Placed
<1>12. ASSUME NEW d \in Clients, pc'[d] \in {"body", "wait"}, NEW q \in 1..n, q > pos2[ent'[d]]
       PROVE  ord[q] \notin hist'[id'[d]].after
  <2>1. d # c
    BY <1>4, <1>6, <1>7, <1>12
  <2>2. pc[d] \in {"body", "wait"} /\ ent'[d] = ent[d] /\ ent[d] \in Entries /\ ent[d] # e
    BY <1>3, <1>4, <1>12, <2>1 DEF Garbage, LInv, IInv, TypeOK, Types, Fields, Working
  <2> QED
    BY <1>6, <1>7, <1>12, <2>2
<1>13. ASSUME NEW f \in Entries, Live(f)'
       PROVE  /\ pos2[f] <= n
              /\ b[pos2[f]] = data'[f]
              /\ pos2[f] < n => hist'[ord[pos2[f] + 1]].req.op = "delete"
              /\ \A g \in Entries : Live(g)' /\ pos2[g] = pos2[f] => g = f
  <2>1. CASE f = e
    <3>1. \A g \in Entries \ {e} : Live(g)' => pos2[g] < n
      BY <1>6, <1>7, <1>8
    <3> QED
      BY <1>4, <1>6, <1>7, <2>1, <3>1
  <2>2. CASE f # e
    <3>1. Live(f) /\ pos2[f] = pos[f] /\ data'[f] = data[f]
      BY <1>4, <1>7, <1>8, <1>13, <2>2
    <3>2. \A g \in Entries : Live(g)' /\ pos2[g] = pos2[f] => g # e /\ Live(g) /\ pos[g] = pos[f]
      BY <1>6, <1>7, <1>8, <3>1
    <3> QED
      BY <1>6, <3>1, <3>2
  <2> QED
    BY <2>1, <2>2
<1>14. Anchored(n, ord, b, pos2)'
  BY <1>3, <1>4, <1>7, <1>12, <1>13, NilIsNothing DEF Anchored
<1>15. Witness(n, ord, b, pos2)'
  BY <1>10, <1>11, <1>14 DEF Witness
<1> QED
  BY <1>15
\* A new call has no place in the order yet.
LEMMA CallKeeps ==
  ASSUME LInv, NEW c \in Clients, NEW r \in Requests, LCall(c, r)
  PROVE  LInv'
<1>1. /\ hist \in Seq(Calls) /\ Len(hist) \in Nat /\ DOMAIN hist = 1..Len(hist)
      /\ id \in [Clients -> Nat]
  BY DEF LInv, HistoryAgrees
<1>2. PICK i : i = Len(hist) + 1
  OBVIOUS
<1>3. /\ pc[c] = "idle" /\ res' = res /\ res[c] = Nil /\ m' = m /\ data' = data /\ ent' = ent
      /\ pc'[c] = IF r.op = "delete" THEN "unmap" ELSE "lookup"
      /\ req'[c] = r
      /\ id'[c] = i
      /\ \A d \in Clients \ {c} : pc'[d] = pc[d] /\ req'[d] = req[d] /\ id'[d] = id[d]
  BY <1>1, <1>2 DEF LCall, Call, LInv, IInv, TypeOK, Types, Fields
<1>4. /\ hist' \in Seq(Calls)
      /\ DOMAIN hist' = 1..i
      /\ \A j \in DOMAIN hist : hist'[j] = hist[j]
      /\ hist'[i] = [req |-> r, res |-> Nil, after |-> Over]
  <2>1. [req |-> r, res |-> Nil, after |-> Over] \in Calls
    BY <1>1 DEF Calls, Over
  <2>2. hist' = Append(hist, [req |-> r, res |-> Nil, after |-> Over])
    BY DEF LCall
  <2> QED
    BY <1>1, <1>2, <2>1, <2>2
<1>5. DOMAIN hist \subseteq DOMAIN hist' /\ i \in DOMAIN hist' /\ i \notin DOMAIN hist
      /\ \A j \in DOMAIN hist' : j = i \/ j \in DOMAIN hist
  BY <1>1, <1>2, <1>4
<1>6. Over' = Over
  BY <1>4, <1>5 DEF Over
<1>7. IInv'
  BY CallPreserves DEF LInv, LCall
<1>8. HistoryAgrees'
  <2>1. id' \in [Clients -> Nat]
    BY <1>1, <1>2 DEF LCall
  <2>2. Calls' = Calls
    BY DEF Calls
  <2>3. \A j \in DOMAIN hist' : hist'[j].after \subseteq Over \ {j}
    BY <1>4, <1>5 DEF LInv, HistoryAgrees, Over
  <2>4. ASSUME NEW d \in Clients, pc'[d] # "idle"
        PROVE  /\ id'[d] \in DOMAIN hist'
               /\ hist'[id'[d]].req = req'[d]
               /\ hist'[id'[d]].res = Nil
               /\ \A f \in Clients : pc'[f] # "idle" /\ id'[f] = id'[d] => f = d
    <3>1. ASSUME NEW f \in Clients, pc'[f] # "idle", f # c
          PROVE  /\ id'[f] \in DOMAIN hist /\ id'[f] # i
                 /\ hist[id'[f]].req = req'[f]
                 /\ hist[id'[f]].res = Nil
                 /\ \A g \in Clients : pc[g] # "idle" /\ id[g] = id'[f] => g = f
      BY <1>3, <1>5, <3>1 DEF LInv, HistoryAgrees
    <3>2. CASE d = c
      BY <1>3, <1>4, <1>5, <3>1, <3>2
    <3>3. CASE d # c
      BY <1>3, <1>4, <1>5, <2>4, <3>1, <3>3
    <3> QED
      BY <3>2, <3>3
  <2> QED
    BY <1>4, <1>6, <2>1, <2>2, <2>3, <2>4 DEF HistoryAgrees
<1>9. CallsInPlace'
  <2>1. \A d \in Clients :
       /\ pc'[d] \in {"lookup", "create", "body", "touch", "wait"} => req'[d].op # "delete"
       /\ pc'[d] = "wait" => req'[d].op = "get"
       /\ pc'[d] \notin {"touch", "done"} => res'[d] = Nil
       /\ pc'[d] # "idle" /\ req'[d].op = "delete" => Free(res'[d])
    BY <1>3 DEF LInv, CallsInPlace, Free
  <2>2. \A j \in DOMAIN hist' : hist'[j].req.op = "delete" => Free(hist'[j].res)
    BY <1>4, <1>5 DEF LInv, CallsInPlace, Free
  <2> QED
    BY <2>1, <2>2 DEF CallsInPlace
<1>10. PICK n, ord, b, pos : Witness(n, ord, b, pos)
  BY DEF LInv
<1>11. \A k \in 1..n : ord[k] \in DOMAIN hist
  BY <1>10 DEF Witness, Order
<1>12. PastKept
  BY <1>4, <1>5 DEF PastKept
<1>13. Order(n, ord, b)'
  <2>1. \A j \in DOMAIN hist : \A d : Explains(j, d) => Explains(j, d)'
    BY <1>3, <1>4, <1>5 DEF Explains
  <2>2. \A k \in 1..n : Explains(ord[k], b[k-1])'
    BY <1>10, <1>11, <2>1 DEF Witness, Order
  <2> QED
    BY <1>10, <1>12, <2>2, QuietKeepsOrder DEF Witness
<1>14. Placed(n, ord)'
  <2>1. \A k \in 1..n : ord[k] # id'[c]
    BY <1>3, <1>5, <1>11
  <2>2. pc'[c] \notin {"touch", "close", "done"}
    BY <1>3
  <2>3. \A d \in Clients \ {c} : pc'[d] = pc[d] /\ id'[d] = id[d]
    BY <1>3
  <2> QED
    BY <1>6, <1>10, <2>1, <2>2, <2>3 DEF Witness, Placed
<1>15. Anchored(n, ord, b, pos)'
  <2>1. \A d \in Clients : pc'[d] \in {"body", "wait"} =>
          pc[d] \in {"body", "wait"} /\ ent'[d] = ent[d] /\ id'[d] = id[d]
    BY <1>3
  <2> QED
    BY <1>3, <1>10, <1>12, <2>1, QuietKeepsAnchors DEF LInv, Witness
<1>16. Witness(n, ord, b, pos)'
  BY <1>13, <1>14, <1>15 DEF Witness
<1>17. (\E nn, oo, bb, pp : Witness(nn, oo, bb, pp))'
  BY <1>16
<1> QED
  BY <1>7, <1>8, <1>9, <1>17 DEF LInv

\* A call that returns gives the answer that was explained.
LEMMA ReturnKeeps ==
  ASSUME LInv, NEW c \in Clients, LReturn(c)
  PROVE  LInv'
<1>1. hist \in Seq(Calls) /\ id \in [Clients -> Nat]
  BY DEF LInv, HistoryAgrees
<1>2. PICK i : i = id[c]
  OBVIOUS
<1>3. /\ pc[c] = "done" /\ m' = m /\ data' = data /\ ent' = ent
      /\ pc'[c] = "idle" /\ res'[c] = Nil /\ id'[c] = 0
      /\ \A d \in Clients \ {c} :
           pc'[d] = pc[d] /\ req'[d] = req[d] /\ id'[d] = id[d] /\ res'[d] = res[d]
  BY <1>1 DEF LReturn, Return, LInv, IInv, TypeOK, Types
<1>4. /\ i \in DOMAIN hist /\ hist[i].req = req[c]
      /\ \A d \in Clients : pc[d] # "idle" /\ id[d] = i => d = c
  BY <1>2, <1>3 DEF LInv, HistoryAgrees
<1>5. hist[i] \in Calls /\ res[c] \in Results \cup {Nil}
  BY <1>1, <1>4 DEF LInv, IInv, TypeOK, Types
<1>6. PICK x : x = [hist[i] EXCEPT !.res = res[c]]
  OBVIOUS
<1>7. x \in Calls /\ x.req = hist[i].req /\ x.after = hist[i].after /\ x.res = res[c]
  BY <1>5, <1>6 DEF Calls
<1>8. hist' = [hist EXCEPT ![i] = x]
  BY <1>2, <1>6 DEF LReturn
<1>9. /\ hist' \in Seq(Calls)
      /\ DOMAIN hist' = DOMAIN hist
      /\ \A j \in DOMAIN hist \ {i} : hist'[j] = hist[j]
      /\ hist'[i] = x
  BY <1>1, <1>4, <1>7, <1>8
<1>10. Over \subseteq Over' /\ Over' \subseteq Over \cup {i}
  <2>1. hist[i].res = Nil
    BY <1>2, <1>3 DEF LInv, HistoryAgrees
  <2>2. i \notin Over /\ Over \subseteq DOMAIN hist
    BY <2>1 DEF Over
  <2>3. \A j \in DOMAIN hist \ {i} : hist'[j].res = hist[j].res
    BY <1>9
  <2>4. Over' = {j \in DOMAIN hist : hist'[j].res # Nil}
    BY <1>9 DEF Over
  <2> QED
    BY <2>2, <2>3, <2>4 DEF Over
<1>11. IInv'
  BY ReturnPreserves DEF LInv, LReturn
<1>12. \A j \in DOMAIN hist : hist'[j].req = hist[j].req /\ hist'[j].after = hist[j].after
  BY <1>7, <1>9
<1>13. HistoryAgrees'
  <2>1. id' \in [Clients -> Nat]
    BY <1>1 DEF LReturn
  <2>2. Calls' = Calls
    BY DEF Calls
  <2>3. \A j \in DOMAIN hist' : hist'[j].after \subseteq Over' \ {j}
    BY <1>9, <1>10, <1>12 DEF LInv, HistoryAgrees
  <2>4. ASSUME NEW d \in Clients, pc'[d] # "idle"
        PROVE  /\ id'[d] \in DOMAIN hist'
               /\ hist'[id'[d]].req = req'[d]
               /\ hist'[id'[d]].res = Nil
               /\ \A f \in Clients : pc'[f] # "idle" /\ id'[f] = id'[d] => f = d
    <3>1. d # c /\ pc[d] # "idle" /\ id[d] # i /\ id'[d] = id[d] /\ req'[d] = req[d]
      BY <1>3, <1>4, <2>4
    <3>2. /\ id[d] \in DOMAIN hist
          /\ hist[id[d]].req = req[d]
          /\ hist[id[d]].res = Nil
          /\ \A f \in Clients : pc[f] # "idle" /\ id[f] = id[d] => f = d
      BY <3>1 DEF LInv, HistoryAgrees
    <3> QED
      BY <1>3, <1>9, <3>1, <3>2
  <2> QED
    BY <1>9, <2>1, <2>2, <2>3, <2>4 DEF HistoryAgrees
<1>14. CallsInPlace'
  <2>1. \A d \in Clients :
       /\ pc'[d] \in {"lookup", "create", "body", "touch", "wait"} => req'[d].op # "delete"
       /\ pc'[d] = "wait" => req'[d].op = "get"
       /\ pc'[d] \notin {"touch", "done"} => res'[d] = Nil
       /\ pc'[d] # "idle" /\ req'[d].op = "delete" => Free(res'[d])
    BY <1>3 DEF LInv, CallsInPlace
  <2>2. \A j \in DOMAIN hist' : hist'[j].req.op = "delete" => Free(hist'[j].res)
    BY <1>3, <1>4, <1>7, <1>9 DEF LInv, CallsInPlace
  <2> QED
    BY <2>1, <2>2 DEF CallsInPlace
<1>15. PICK n, ord, b, pos : Witness(n, ord, b, pos)
  BY DEF LInv
<1>16. \A k \in 1..n : ord[k] \in DOMAIN hist
  BY <1>15 DEF Witness, Order
<1>17. PastKept
  BY <1>9, <1>12 DEF PastKept
<1>18. Order(n, ord, b)'
  <2>1. ASSUME NEW j \in DOMAIN hist, NEW d, Explains(j, d)
        PROVE  Explains(j, d)'
    <3>1. Fits(hist'[j].res, d)
      BY <1>2, <1>7, <1>9, <2>1 DEF Explains
    <3>2. ASSUME NEW f \in Clients, id'[f] = j
          PROVE  Fits(res'[f], d)
      <4>1. CASE f = c
        BY <1>3, <4>1 DEF Fits
      <4>2. CASE f # c
        BY <1>3, <2>1, <3>2, <4>2 DEF Explains
      <4> QED
        BY <4>1, <4>2
    <3> QED
      BY <3>1, <3>2 DEF Explains
  <2>2. \A k \in 1..n : Explains(ord[k], b[k-1])'
    BY <1>15, <1>16, <2>1 DEF Witness, Order
  <2> QED
    BY <1>15, <1>17, <2>2, QuietKeepsOrder DEF Witness
<1>19. Placed(n, ord)'
  <2>1. \E k \in 1..n : ord[k] = i
    BY <1>2, <1>3, <1>15 DEF Witness, Placed
  <2>2. \A j \in Over' : \E k \in 1..n : ord[k] = j
    BY <1>10, <1>15, <2>1 DEF Witness, Placed
  <2>3. \A d \in Clients : pc'[d] # "idle" => pc'[d] = pc[d] /\ id'[d] = id[d]
    BY <1>3
  <2> QED
    BY <1>15, <2>2, <2>3 DEF Witness, Placed
<1>20. Anchored(n, ord, b, pos)'
  <2>1. \A d \in Clients : pc'[d] \in {"body", "wait"} =>
          pc[d] \in {"body", "wait"} /\ ent'[d] = ent[d] /\ id'[d] = id[d]
    BY <1>3
  <2> QED
    BY <1>3, <1>15, <1>17, <2>1, QuietKeepsAnchors DEF LInv, Witness
<1>21. Witness(n, ord, b, pos)'
  BY <1>18, <1>19, <1>20 DEF Witness
<1>22. (\E nn, oo, bb, pp : Witness(nn, oo, bb, pp))'
  BY <1>21
<1> QED
  BY <1>11, <1>13, <1>14, <1>22 DEF LInv

\* The steps between call and return.
LEMMA StepKeeps ==
  ASSUME LInv, NEW k, Keys = {k}, NEW c \in Clients, Step(c) \/ GetTimeout(c),
         UNCHANGED <<hist, id>>
  PROVE  LInv'
<1>1. IInv'
  BY LookupPreserves, CreatePreserves, UpdatePreserves, GetSnapshotPreserves, GetWakePreserves,
     GetTimeoutPreserves, PeekPreserves, TouchPreserves, DeleteUnmapPreserves, DeleteClosePreserves
  DEF Step, LInv
<1>2. HistoryAgrees' /\ CallsInPlace'
  BY StepHistory, StepCalls DEF LInv
<1>3. (\E n, ord, b, pos : Witness(n, ord, b, pos))'
  <2>1. CASE Lookup(c) \/ Touch(c) \/ DeleteClose(c)
    BY <2>1, QuietWitness
  <2>2. CASE Create(c)
    BY <2>2, QuietWitness, CreateWitness DEF Create
  <2>3. CASE GetSnapshot(c)
    <3>1. pc'[c] \in {"touch", "wait"}
      BY <2>3 DEF GetSnapshot, LInv, IInv, TypeOK, Types
    <3> QED
      BY <2>3, <3>1, QuietWitness, SectionsTakeEffect, TakesEffectPreserves DEF LInv
  <2>4. CASE Update(c) \/ GetWake(c) \/ GetTimeout(c) \/ Peek(c)
    BY <2>4, SectionsTakeEffect, TakesEffectPreserves DEF LInv
  <2>5. CASE DeleteUnmap(c)
    BY <2>5, DeleteUnmapWitness
  <2> QED
    BY <2>1, <2>2, <2>3, <2>4, <2>5 DEF Step
<1> QED
  BY <1>1, <1>2, <1>3 DEF LInv

\* A new store has an empty history, explained by the empty order.
LEMMA LinearInit == LInit => LInv
<1> SUFFICES ASSUME LInit PROVE LInv
  OBVIOUS
<1>1. IInv
  BY InitInvariant DEF LInit
<1>2. /\ hist = <<>> /\ DOMAIN hist = {} /\ \A c \in Clients : pc[c] = "idle" /\ res[c] = Nil
      /\ id \in [Clients -> Nat]
      /\ \A k \in Keys : m[k] = Nil
  BY DEF LInit, Init
<1>3. HistoryAgrees
  BY <1>2 DEF HistoryAgrees
<1>4. CallsInPlace
  BY <1>2 DEF CallsInPlace, Free
<1>5. PICK ord, b, pos :
        ord = [q \in 1..0 |-> 0] /\ b = [q \in 0..0 |-> Nil] /\ pos = [e \in Entries |-> 0]
  OBVIOUS
<1>6. 1..0 = {} /\ 0..0 = {0}
  OBVIOUS
<1>7. Order(0, ord, b)
  BY <1>2, <1>5, <1>6 DEF Order, Cell
<1>8. Placed(0, ord)
  BY <1>2, <1>6 DEF Placed, Over
<1>9. \A e \in Entries : ~Live(e)
  BY <1>2, NilIsNothing DEF Live
<1>10. Anchored(0, ord, b, pos)
  BY <1>2, <1>5, <1>6, <1>9 DEF Anchored
<1> QED
  BY <1>1, <1>3, <1>4, <1>7, <1>8, <1>10 DEF LInv, Witness
\* The evictor looks at the store, and lastTouch grows old: nothing a call reads
\* or writes changes.
LEMMA QuietKeeps ==
  ASSUME LInv, IInv', UNCHANGED <<m, data, pc, req, ent, res, hist, id>>
  PROVE  LInv'
<1>1. PICK n, ord, b, pos : Witness(n, ord, b, pos)
  BY DEF LInv
<1>2. HistoryAgrees'
  BY DEF LInv, HistoryAgrees, Over, Calls
<1>3. CallsInPlace'
  BY DEF LInv, CallsInPlace, Free
<1>4. PastKept
  BY DEF PastKept
<1>5. \A k \in 1..n : Explains(ord[k], b[k-1])'
  BY <1>1 DEF Witness, Order, Explains
<1>6. Order(n, ord, b)'
  BY <1>1, <1>4, <1>5, QuietKeepsOrder DEF Witness
<1>7. Placed(n, ord)'
  BY <1>1 DEF Witness, Placed, Over
<1>8. Anchored(n, ord, b, pos)'
  BY <1>1, <1>4, QuietKeepsAnchors DEF Witness, LInv
<1>9. Witness(n, ord, b, pos)'
  BY <1>6, <1>7, <1>8 DEF Witness
<1>10. (\E nn, oo, bb, pp : Witness(nn, oo, bb, pp))'
  BY <1>9
<1> QED
  BY <1>2, <1>3, <1>10 DEF LInv

\* An eviction is a Delete that goes to the end of the order.
LEMMA EvictKeeps ==
  ASSUME LInv, NEW k, Keys = {k}, LEvict
  PROVE  LInv'
<1>1. IInv'
  BY EvictConfirmPreserves DEF LInv, LEvict
<1>2. PICK gone : gone = {j \in expired : m[j] # Nil /\ stale[m[j]]}
  OBVIOUS
<1>3. /\ UNCHANGED <<data, pc, req, ent, res, id>>
      /\ m' = [j \in Keys |-> IF j \in gone THEN Nil ELSE m[j]]
      /\ gone \subseteq {k}
      /\ m \in [Keys -> Entries \cup {Nil}]
  BY <1>2 DEF LEvict, EvictConfirm, EvictKeys, LInv, IInv, TypeOK, Types
<1>4. CASE gone = {}
  <2>1. m' = m
    BY <1>3, <1>4
  <2>2. UNCHANGED hist
    BY <1>2, <1>4 DEF LEvict
  <2> QED
    BY <1>1, <1>3, <2>1, <2>2, QuietKeeps
<1>5. CASE gone # {}
  <2>1. m' = [j \in Keys |-> Nil]
    BY <1>3, <1>5
  <2>2. hist \in Seq(Calls) /\ Len(hist) \in Nat /\ DOMAIN hist = 1..Len(hist)
    BY DEF LInv, HistoryAgrees
  <2>3. PICK i : i = Len(hist) + 1
    OBVIOUS
  <2>4. PICK x : x = [req |-> [op |-> "delete", key |-> k, arg |-> Nil],
                      res |-> NoDoc("ok"), after |-> Over]
    OBVIOUS
  <2>5. /\ x \in Calls /\ x.req.op = "delete" /\ x.res # Nil /\ Free(x.res) /\ x.after = Over
    <3>1. NoDoc("ok") \in Results
      BY DEF NoDoc, Results
    <3>2. [op |-> "delete", key |-> k, arg |-> Nil] \in Requests
      BY DEF Requests
    <3>3. Over \subseteq Nat
      BY <2>2 DEF Over
    <3> QED
      BY <2>4, <3>1, <3>2, <3>3, KVAssumption DEF Calls, Free, NoDoc
  <2>6. hist' = Append(hist, x)
    BY <1>2, <1>3, <1>5, <2>4 DEF LEvict
  <2>7. /\ hist' \in Seq(Calls)
        /\ DOMAIN hist' = 1..i
        /\ \A j \in DOMAIN hist : hist'[j] = hist[j]
        /\ hist'[i] = x
    BY <2>2, <2>3, <2>5, <2>6
  <2>8. /\ DOMAIN hist \subseteq DOMAIN hist' /\ i \in DOMAIN hist' /\ i \notin DOMAIN hist
        /\ \A j \in DOMAIN hist' : j = i \/ j \in DOMAIN hist
    BY <2>2, <2>3, <2>7
  <2>9. Over' = Over \cup {i}
    BY <2>5, <2>7, <2>8 DEF Over
  <2>10. HistoryAgrees'
    <3>1. Calls' = Calls
      BY DEF Calls
    <3>2. \A j \in DOMAIN hist' : hist'[j].after \subseteq Over' \ {j}
      <4>1. i \notin Over
        BY <2>8 DEF Over
      <4>2. \A j \in DOMAIN hist : hist[j].after \subseteq Over \ {j}
        BY DEF LInv, HistoryAgrees
      <4> QED
        BY <2>5, <2>7, <2>8, <2>9, <4>1, <4>2
    <3>3. \A d \in Clients : pc[d] # "idle" =>
            /\ id[d] \in DOMAIN hist
            /\ hist[id[d]].req = req[d]
            /\ hist[id[d]].res = Nil
            /\ \A f \in Clients : pc[f] # "idle" /\ id[f] = id[d] => f = d
      BY DEF LInv, HistoryAgrees
    <3>4. id' \in [Clients -> Nat]
      BY <1>3 DEF LInv, HistoryAgrees
    <3> QED
      BY <1>3, <2>7, <2>8, <3>1, <3>2, <3>3, <3>4 DEF HistoryAgrees
  <2>11. CallsInPlace'
    BY <1>3, <2>5, <2>7, <2>8 DEF LInv, CallsInPlace, Free
  <2>12. PICK n, ord, b, pos : Witness(n, ord, b, pos)
    BY DEF LInv
  <2>13. n \in Nat /\ \A l \in 1..n : ord[l] \in DOMAIN hist
    BY <2>12 DEF Witness, Order
  <2>14. PICK ord2 : ord2 = [q \in 1..(n + 1) |-> IF q <= n THEN ord[q] ELSE i]
    OBVIOUS
  <2>15. PICK b2 : b2 = [q \in 0..(n + 1) |-> IF q <= n THEN b[q] ELSE Nil]
    OBVIOUS
  <2>16. EmptiesMap(i, n, ord)
    <3>1. PastKept
      BY <2>7, <2>8 DEF PastKept
    <3>2. \A l \in 1..n : ord[l] # i
      BY <2>8, <2>13
    <3>3. \A j \in DOMAIN hist : i \notin hist[j].after
      BY <2>8 DEF LInv, HistoryAgrees, Over
    <3>4. \A j \in DOMAIN hist : \A d : j # i /\ Explains(j, d) => Explains(j, d)'
      BY <1>3, <2>7 DEF Explains
    <3>5. \A d : Explains(i, d)'
      <4>1. ASSUME NEW c \in Clients, id[c] = i
            PROVE  res[c] = Nil
        <5>1. pc[c] = "idle"
          BY <2>8, <4>1 DEF LInv, HistoryAgrees
        <5> QED
          BY <5>1 DEF LInv, IInv, TypeOK, Fields
      <4>2. \A d : Fits(Nil, d) /\ Fits(x.res, d)
        BY <2>5, FreeFits DEF Fits
      <4> QED
        BY <1>3, <2>7, <4>1, <4>2 DEF Explains
    <3>6. \A d \in Clients : pc'[d] \in {"body", "wait"} =>
            pc[d] = pc'[d] /\ ent'[d] = ent[d] /\ id'[d] = id[d] /\ id[d] \in DOMAIN hist
      BY <1>3 DEF LInv, HistoryAgrees
    <3>7. hist'[i].req.op = "delete" /\ data' = data
      BY <1>3, <2>5, <2>7
    <3> HIDE DEF Explains
    <3> QED
      BY <2>1, <2>8, <3>1, <3>2, <3>3, <3>4, <3>5, <3>6, <3>7 DEF EmptiesMap
  <2>17. Order(n + 1, ord2, b2)' /\ Anchored(n + 1, ord2, b2, pos)'
    BY <2>12, <2>14, <2>15, <2>16, AppendOrder, AppendAnchored DEF Witness
  <2>18. /\ \A q \in 1..n : q \in 1..(n+1) /\ ord2[q] = ord[q]
         /\ n + 1 \in 1..(n+1) /\ ord2[n + 1] = i
         /\ \A q \in 1..(n+1) : q = n + 1 \/ q \in 1..n
    BY <2>13, <2>14
  <2>19. Placed(n + 1, ord2)'
    <3>1. \A j \in Over' : \E q \in 1..(n+1) : ord2[q] = j
      BY <2>9, <2>12, <2>18 DEF Witness, Placed
    <3>2. \A d \in Clients : pc[d] \in {"touch", "close", "done"} =>
            \E q \in 1..(n+1) : ord2[q] = id[d]
      BY <2>12, <2>18 DEF Witness, Placed
    <3>3. \A d \in Clients : pc[d] \in {"lookup", "create", "body", "wait", "unmap"} =>
            \A q \in 1..(n+1) : ord2[q] # id[d]
      <4> TAKE d \in Clients
      <4> HAVE pc[d] \in {"lookup", "create", "body", "wait", "unmap"}
      <4>1. id[d] # i
        BY <2>8 DEF LInv, HistoryAgrees
      <4>2. \A q \in 1..n : ord[q] # id[d]
        BY <2>12 DEF Witness, Placed
      <4> QED
        BY <2>18, <4>1, <4>2
    <3> QED
      BY <1>3, <3>1, <3>2, <3>3 DEF Placed
  <2>20. Witness(n + 1, ord2, b2, pos)'
    BY <2>17, <2>19 DEF Witness
  <2>21. (\E nn, oo, bb, pp : Witness(nn, oo, bb, pp))'
    BY <2>20
  <2> QED
    BY <1>1, <2>10, <2>11, <2>21 DEF LInv
<1> QED
  BY <1>4, <1>5

\* Every step of the store with its history preserves the invariant.
LEMMA LinearNext ==
  ASSUME NEW k, Keys = {k}, LInv, [LNext]_linVars
  PROVE  LInv'
<1>1. CASE \E c \in Clients :
             \/ \E r \in Requests : LCall(c, r)
             \/ LReturn(c)
             \/ (Step(c) \/ GetTimeout(c)) /\ UNCHANGED <<hist, id>>
  BY <1>1, CallKeeps, ReturnKeeps, StepKeeps
<1>2. CASE LEvict
  BY <1>2, EvictKeeps
<1>3. CASE ((\E e \in Entries : Age(e)) \/ EvictScan \/ Stop) /\ UNCHANGED <<hist, id>>
  <2>1. IInv'
    BY <1>3, AgePreserves, EvictScanPreserves, StopPreserves DEF LInv
  <2>2. UNCHANGED <<m, data, pc, req, ent, res, hist, id>>
    BY <1>3 DEF Age, EvictScan, Stop, clientVars
  <2> QED
    BY <2>1, <2>2, QuietKeeps
<1>4. CASE UNCHANGED linVars
  <2>1. IInv'
    BY <1>4, StutterPreserves DEF linVars, LInv
  <2> QED
    BY <1>4, <2>1, QuietKeeps DEF linVars, vars
<1> QED
  BY <1>1, <1>2, <1>3, <1>4 DEF LNext

-----------------------------------------------------------------------------
(* Induction over the calls of the order.                                  *)

\* A set that has 0 and the successor of each of its numbers has them all.
LEMMA SetInduction ==
  ASSUME NEW T, 0 \in T, \A n \in T : n + 1 \in T
  PROVE  Nat \subseteq T
<1> DEFINE R == OpToRel(<, Nat)
<1> SUFFICES ASSUME Nat \ T # {} PROVE FALSE
  OBVIOUS
<1>1. IsWellFoundedOn(R, Nat)
  BY NatLessThanWellFounded
<1>2. \A i, j \in Nat : <<i, j>> \in R <=> i < j
  BY DEF OpToRel
<1> HIDE DEF R
<1>3. PICK x \in Nat \ T : \A y \in Nat \ T : ~(<<y, x>> \in R)
  BY <1>1, WFMin
<1>4. x \in Nat /\ x # 0
  BY <1>3
<1>5. x - 1 \in Nat /\ x - 1 < x
  BY <1>4
<1>6. x - 1 \in T
  BY <1>2, <1>3, <1>5
<1>7. (x - 1) + 1 \in T
  BY <1>6
<1> QED
  BY <1>3, <1>4, <1>7

\* The body of the recursive definition of Outcome, over a function g.
OutcomeOf(g, S) ==
  IF S = {} THEN {Nil}
  ELSE UNION { {Effect(hist[i].req, d) : d \in {d \in g[S \ {i}] : Fits(hist[i].res, d)}} :
                 i \in {i \in S : \A j \in S : i \notin hist[j].after} }

\* Call i can be the last one of S, and leaves x when it finds d.
LastIn(i, S) == \A j \in S : i \notin hist[j].after
Leaves(i, d, x) == Fits(hist[i].res, d) /\ x = Effect(hist[i].req, d)

\* The members of OutcomeOf(g, S) are what a last call leaves.
LEMMA OutcomeOfMember ==
  ASSUME NEW g, NEW S, S # {}, NEW x
  PROVE  x \in OutcomeOf(g, S) <=>
           \E i \in S : LastIn(i, S) /\ \E d \in g[S \ {i}] : Leaves(i, d, x)
<1> DEFINE A == {i \in S : \A j \in S : i \notin hist[j].after}
           E(i) == {Effect(hist[i].req, d) : d \in {d \in g[S \ {i}] : Fits(hist[i].res, d)}}
<1>1. OutcomeOf(g, S) = UNION {E(i) : i \in A}
  BY DEF OutcomeOf
<1>2. \A i : x \in E(i) <=> \E d \in g[S \ {i}] : Leaves(i, d, x)
  BY DEF Leaves
<1>3. \A i : i \in A <=> i \in S /\ LastIn(i, S)
  BY DEF LastIn
<1> HIDE DEF E, A
<1>4. x \in UNION {E(i) : i \in A} <=> \E i \in A : x \in E(i)
  OBVIOUS
<1> QED
  BY <1>1, <1>2, <1>3, <1>4

\* It looks at g only at the sets with one call less.
LEMMA OutcomeOfLocal ==
  ASSUME NEW f, NEW g, NEW S, \A i \in S : f[S \ {i}] = g[S \ {i}]
  PROVE  OutcomeOf(f, S) = OutcomeOf(g, S)
<1>1. CASE S = {}
  BY <1>1 DEF OutcomeOf
<1>2. CASE S # {}
  <2>1. \A x : x \in OutcomeOf(f, S) <=> x \in OutcomeOf(g, S)
    BY <1>2, OutcomeOfMember
  <2> QED
    BY <2>1
<1> QED
  BY <1>1, <1>2

\* The recursive definition has a solution for every history, and so Outcome is one.
LEMMA OutcomeDefined ==
  ASSUME IsFiniteSet(DOMAIN hist)
  PROVE  \A S \in SUBSET DOMAIN hist : Outcome[S] = OutcomeOf(Outcome, S)
<1> DEFINE D == DOMAIN hist
           Good(g, n) == \A S \in SUBSET D : Cardinality(S) <= n => g[S] = OutcomeOf(g, S)
           T == {n \in Nat : \E g : Good(g, n)}
<1>1. \A S \in SUBSET D : IsFiniteSet(S) /\ Cardinality(S) \in Nat
                           /\ (Cardinality(S) = 0 <=> S = {}) /\ Cardinality(S) <= Cardinality(D)
  BY FS_Subset, FS_CardinalityType, FS_EmptySet
<1>2. \A S \in SUBSET D : \A i \in S :
        S \ {i} \in SUBSET D /\ Cardinality(S \ {i}) = Cardinality(S) - 1
  BY <1>1, FS_RemoveElement
<1>3. 0 \in T
  <2>1. Good([S \in SUBSET D |-> {Nil}], 0)
    BY <1>1 DEF OutcomeOf
  <2> QED
    BY <2>1
<1>4. ASSUME NEW n \in T
      PROVE  n + 1 \in T
  <2>1. PICK g : Good(g, n)
    BY <1>4
  <2>2. PICK h : h = [S \in SUBSET D |-> OutcomeOf(g, S)]
    OBVIOUS
  <2>3. ASSUME NEW S \in SUBSET D, Cardinality(S) <= n + 1
        PROVE  h[S] = OutcomeOf(h, S)
    <3>1. ASSUME NEW i \in S
          PROVE  h[S \ {i}] = g[S \ {i}]
      <4>1. S \ {i} \in SUBSET D /\ Cardinality(S \ {i}) <= n
        BY <1>1, <1>2, <2>3
      <4> QED
        BY <2>1, <2>2, <4>1
    <3>2. OutcomeOf(h, S) = OutcomeOf(g, S)
      BY <3>1, OutcomeOfLocal
    <3> QED
      BY <2>2, <3>2
  <2>4. Good(h, n + 1)
    BY <2>3
  <2> QED
    BY <2>4
<1>5. Cardinality(D) \in T
  BY <1>1, <1>3, <1>4, SetInduction, FS_CardinalityType
<1>6. PICK g : Good(g, Cardinality(D))
  BY <1>5
<1>7. PICK h : h = [S \in SUBSET D |-> g[S]]
  OBVIOUS
<1>8. \A S \in SUBSET D : h[S] = OutcomeOf(h, S)
  <2> TAKE S \in SUBSET D
  <2>1. \A i \in S : h[S \ {i}] = g[S \ {i}]
    BY <1>7
  <2>2. OutcomeOf(h, S) = OutcomeOf(g, S)
    BY <2>1, OutcomeOfLocal
  <2> QED
    BY <1>1, <1>6, <1>7, <2>2
<1>9. h = [S \in SUBSET D |-> OutcomeOf(h, S)]
  BY <1>7, <1>8
<1>10. Outcome = CHOOSE f : f = [S \in SUBSET D |-> OutcomeOf(f, S)]
  BY DEF Outcome, OutcomeOf
<1>11. Outcome = [S \in SUBSET D |-> OutcomeOf(Outcome, S)]
  BY <1>9, <1>10
<1> QED
  BY <1>11

\* The cell after k calls of the order is an outcome of those calls.
LEMMA OrderHasOutcome ==
  ASSUME HistoryAgrees, NEW n, NEW ord, NEW b, Order(n, ord, b)
  PROVE  Outcome[{ord[j] : j \in 1..n}] # {}
<1> DEFINE First(k) == {ord[j] : j \in 1..k}
           T == {k \in Nat : k <= n => b[k] \in Outcome[First(k)]}
<1>1. /\ n \in Nat /\ ord \in [1..n -> DOMAIN hist] /\ b[0] = Nil
      /\ \A j, l \in 1..n : ord[j] = ord[l] => j = l
      /\ \A j, l \in 1..n : j < l => ord[l] \notin hist[ord[j]].after
      /\ \A l \in 1..n : Explains(ord[l], b[l-1])
      /\ \A l \in 1..n : b[l] = Effect(hist[ord[l]].req, b[l-1])
  BY DEF Order
<1>2. \A S \in SUBSET DOMAIN hist : Outcome[S] = OutcomeOf(Outcome, S)
  <2>1. IsFiniteSet(DOMAIN hist)
    BY FS_Interval DEF HistoryAgrees
  <2> QED
    BY <2>1, OutcomeDefined
<1>3. 0 \in T
  <2>1. First(0) = {}
    OBVIOUS
  <2>2. Outcome[{}] = {Nil}
    BY <1>2 DEF OutcomeOf
  <2> QED
    BY <1>1, <2>1, <2>2
<1>4. ASSUME NEW k \in T
      PROVE  k + 1 \in T
  <2> SUFFICES ASSUME k + 1 <= n
               PROVE  b[k + 1] \in Outcome[First(k + 1)]
    BY <1>4
  <2>1. PICK i : i = ord[k + 1]
    OBVIOUS
  <2>2. k \in Nat /\ k + 1 \in 1..n /\ (k + 1) - 1 = k /\ k <= n
    BY <1>1, <1>4
  <2>3. First(k + 1) \ {i} = First(k) /\ i \in First(k + 1) /\ First(k + 1) \in SUBSET DOMAIN hist
    BY <1>1, <2>1, <2>2
  <2>4. b[k] \in Outcome[First(k)]
    BY <1>4, <2>2
  <2>5. Fits(hist[i].res, b[k]) /\ b[k + 1] = Effect(hist[i].req, b[k])
    BY <1>1, <2>1, <2>2 DEF Explains
  <2>6. \A j \in First(k + 1) : i \notin hist[j].after
    <3> SUFFICES ASSUME NEW l \in 1..(k + 1) PROVE i \notin hist[ord[l]].after
      OBVIOUS
    <3>1. CASE l < k + 1
      BY <1>1, <2>1, <2>2, <3>1
    <3>2. CASE l = k + 1
      BY <1>1, <2>1, <2>2, <3>2 DEF HistoryAgrees
    <3> QED
      BY <2>2, <3>1, <3>2
  <2>7. First(k + 1) # {}
    BY <2>3
  <2> HIDE DEF First, Effect, Fits
  <2>8. b[k + 1] \in OutcomeOf(Outcome, First(k + 1))
    BY ZenonT(60), <2>3, <2>4, <2>5, <2>6, <2>7, OutcomeOfMember DEF LastIn, Leaves
  <2> QED
    BY <1>2, <2>3, <2>8
<1>5. n \in T
  BY <1>1, <1>3, <1>4, SetInduction
<1> QED
  BY <1>1, <1>5

\* The store is linearizable, for any number of clients and calls: every history
\* has an order that explains all the answers, evictions counting as Deletes
\* (pkg/kv/store.go).
THEOREM AlwaysLinearizable ==
  ASSUME NEW k, Keys = {k}
  PROVE  LSpec => []Linearizable
<1>1. LInv => Linearizable
  <2> SUFFICES ASSUME LInv PROVE Linearizable
    OBVIOUS
  <2>1. PICK n, ord, b, pos : Witness(n, ord, b, pos)
    BY DEF LInv
  <2>2. PICK S : S = {ord[j] : j \in 1..n}
    OBVIOUS
  <2>3. S \in SUBSET DOMAIN hist
    BY <2>1, <2>2 DEF Witness, Order
  <2>4. Over \subseteq S
    BY <2>1, <2>2 DEF Witness, Placed
  <2>5. Outcome[S] # {}
    <3>1. HistoryAgrees /\ Order(n, ord, b)
      BY <2>1 DEF Witness, LInv
    <3>2. Outcome[{ord[j] : j \in 1..n}] # {}
      BY <3>1, OrderHasOutcome
    <3> QED
      BY <2>2, <3>2
  <2> QED
    BY <2>3, <2>4, <2>5 DEF Linearizable
<1>2. LInv /\ [LNext]_linVars => LInv'
  BY LinearNext
<1> QED
  BY <1>1, <1>2, LinearInit, PTL DEF LSpec
=============================================================================
