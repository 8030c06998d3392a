------------------------------ MODULE KVStore ------------------------------
(***************************************************************************)
(* The in-memory key-value store of pkg/kv/store.go.                       *)
(*                                                                         *)
(* The store has a map from keys to entries guarded by s.mu, and every     *)
(* entry has a lock e.mu of its own.  An operation first looks its entry   *)
(* up (one critical section of s.mu) and then works on it (one of e.mu);   *)
(* nothing keeps the entry in the map in between.  Each action below is    *)
(* one critical section, so the interleavings are those of the locks.      *)
(*                                                                         *)
(* Entries are identities: one that left the map and that nobody refers to *)
(* is garbage and may be allocated again.  Time is abstracted to what the  *)
(* evictor can see of it: an entry is "stale" when lastTouch is more than  *)
(* ttl ago.                                                                *)
(***************************************************************************)
EXTENDS FiniteSets

CONSTANTS
  Clients,       \* goroutines calling the store (HTTP requests)
  Keys,          \* keys
  Entries,       \* identities of *Entry values
  Docs,          \* JSON objects
  Updates,       \* the updates the clients call: some of the three there are
  Shallow(_, _), \* the top-level merge of two objects
  Deep(_, _),    \* deepMerge of two objects
  Nil,           \* Go's nil: no entry, no data, no call
  TTL            \* TRUE when the store was created with ttl > 0

\* A call: the operation, its key and, for an update, the object given.
Requests ==
  [op : Updates, key : Keys, arg : Docs]
    \cup [op : {"get", "peek", "delete"}, key : Keys, arg : {Nil}]

\* What a call returns.
Results ==
  [kind : {"ok", "missing", "timeout", "panic"}, doc : {Nil}]
    \cup [kind : {"found"}, doc : Docs]

Found(d) == [kind |-> "found", doc |-> d]
NoDoc(k) == [kind |-> k, doc |-> Nil]

ASSUME KVAssumption ==
  /\ Updates \subseteq {"set", "shallow", "deep"}
  /\ \A d, v \in Docs : Shallow(d, v) \in Docs /\ Deep(d, v) \in Docs
  /\ Nil \notin Entries \cup Docs \cup Requests \cup Results
  /\ Nil \notin {"current", "closed", "replaced"}
  /\ TTL \in BOOLEAN

VARIABLES
  m,       \* m[k]: the entry of key k
  data,    \* data[e]: the object stored in entry e
  chOpen,  \* chOpen[e]: the channel in e.broadCh is not closed
  stale,   \* stale[e]: lastTouch is more than ttl ago
  pc,      \* pc[c]: where client c is in its call
  req,     \* req[c]: the call
  ent,     \* ent[c]: the entry it works on
  held,    \* held[c]: the channel a waiting Get captured: still the entry's
           \* "current" one, "closed", or "replaced" without being closed
  res,     \* res[c]: the result of the call, once it is known
  expired, \* the keys the evictor collected in its scan
  evictor  \* "tick", "confirm" or "stopped"

clientVars == <<pc, req, ent, held, res>>
evictVars == <<expired, evictor>>
vars == <<m, data, chOpen, stale, pc, req, ent, held, res, expired, evictor>>

Init ==
  /\ m = [k \in Keys |-> Nil]
  /\ data = [e \in Entries |-> Nil]
  /\ chOpen = [e \in Entries |-> TRUE]
  /\ stale = [e \in Entries |-> FALSE]
  /\ pc = [c \in Clients |-> "idle"]
  /\ req = [c \in Clients |-> Nil]
  /\ ent = [c \in Clients |-> Nil]
  /\ held = [c \in Clients |-> Nil]
  /\ res = [c \in Clients |-> Nil]
  /\ expired = {}
  /\ evictor = IF TTL THEN "tick" ELSE "stopped"

-----------------------------------------------------------------------------
(* A call begins and ends.                                                 *)

Call(c, r) ==
  /\ pc[c] = "idle"
  /\ pc' = [pc EXCEPT ![c] = IF r.op = "delete" THEN "unmap" ELSE "lookup"]
  /\ req' = [req EXCEPT ![c] = r]
  /\ UNCHANGED <<m, data, chOpen, stale, ent, held, res, evictVars>>

\* The operation is over, with result r, and lets go of its entry.
Finish(c, r) ==
  /\ pc' = [pc EXCEPT ![c] = "done"]
  /\ ent' = [ent EXCEPT ![c] = Nil]
  /\ res' = [res EXCEPT ![c] = r]

Return(c) ==
  /\ pc[c] = "done"
  /\ pc' = [pc EXCEPT ![c] = "idle"]
  /\ req' = [req EXCEPT ![c] = Nil]
  /\ res' = [res EXCEPT ![c] = Nil]
  /\ UNCHANGED <<m, data, chOpen, stale, ent, held, evictVars>>

-----------------------------------------------------------------------------
(* getOrCreateEntry: an optimistic look-up under the read lock, and, when  *)
(* it misses, a second look-up and the insertion under the write lock.     *)

Obtain(c, e) ==
  /\ ent' = [ent EXCEPT ![c] = e]
  /\ pc' = [pc EXCEPT ![c] = "body"]

Lookup(c) ==
  /\ pc[c] = "lookup"
  /\ IF m[req[c].key] # Nil
     THEN Obtain(c, m[req[c].key])
     ELSE pc' = [pc EXCEPT ![c] = "create"] /\ UNCHANGED ent
  /\ UNCHANGED <<m, data, chOpen, stale, req, held, res, evictVars>>

\* An entry nobody refers to.
Garbage(e) ==
  /\ \A k \in Keys : m[k] # e
  /\ \A c \in Clients : ent[c] # e

NewEntry(c) ==
  \E e \in Entries :
    /\ Garbage(e)
    /\ m' = [m EXCEPT ![req[c].key] = e]
    /\ data' = [data EXCEPT ![e] = Nil]
    /\ chOpen' = [chOpen EXCEPT ![e] = TRUE]
    /\ stale' = [stale EXCEPT ![e] = FALSE]
    /\ Obtain(c, e)

\* Without the second look-up (a mutant of Create).
CreateNoRecheck(c) ==
  /\ pc[c] = "create"
  /\ NewEntry(c)
  /\ UNCHANGED <<req, held, res, evictVars>>

Create(c) ==
  /\ pc[c] = "create"
  /\ \/ /\ m[req[c].key] # Nil
        /\ Obtain(c, m[req[c].key])
        /\ UNCHANGED <<m, data, chOpen, stale>>
     \/ /\ m[req[c].key] = Nil
        /\ NewEntry(c)
  /\ UNCHANGED <<req, held, res, evictVars>>

-----------------------------------------------------------------------------
(* close(e.broadCh): every Get that captured the channel can now proceed.  *)
(* Closing a closed channel panics; the panic unwinds the caller (whose    *)
(* deferred unlock still runs) and net/http reports the call as failed.    *)

Woken(e) ==
  [c \in Clients |-> IF ent[c] = e /\ held[c] = "current" THEN "closed" ELSE held[c]]

\* The value an update leaves in the entry.
Updated(o, old, v) ==
  CASE o = "set" \/ old = Nil -> v
    [] o = "shallow" /\ old # Nil -> Shallow(old, v)
    [] o = "deep" /\ old # Nil -> Deep(old, v)

\* Set, ShallowMerge and DeepMerge, under e.mu.
Update(c) ==
  LET e == ent[c] IN
  /\ pc[c] = "body" /\ req[c].op \in Updates
  /\ data' = [data EXCEPT ![e] = Updated(req[c].op, @, req[c].arg)]
  /\ stale' = [stale EXCEPT ![e] = FALSE]
  /\ \/ chOpen[e] /\ held' = Woken(e) /\ Finish(c, NoDoc("ok"))
     \/ ~chOpen[e] /\ UNCHANGED held /\ Finish(c, NoDoc("panic"))
  /\ UNCHANGED <<req, m, chOpen, evictVars>>

-----------------------------------------------------------------------------
(* Get and Peek.                                                           *)

\* Get reads data and channel in one critical section.
GetSnapshot(c) ==
  LET e == ent[c] IN
  /\ pc[c] = "body" /\ req[c].op = "get"
  /\ \/ /\ data[e] # Nil
        /\ pc' = [pc EXCEPT ![c] = "touch"]
        /\ res' = [res EXCEPT ![c] = Found(data[e])]
        /\ UNCHANGED held
     \/ /\ data[e] = Nil
        /\ pc' = [pc EXCEPT ![c] = "wait"]
        /\ held' = [held EXCEPT ![c] = IF chOpen[e] THEN "current" ELSE "closed"]
        /\ UNCHANGED res
  /\ UNCHANGED <<m, data, chOpen, stale, req, ent, evictVars>>

\* The channel was closed: Get touches the entry and returns what it holds now.
GetWake(c) ==
  LET e == ent[c] IN
  /\ pc[c] = "wait" /\ held[c] = "closed"
  /\ stale' = [stale EXCEPT ![e] = FALSE]
  /\ held' = [held EXCEPT ![c] = Nil]
  /\ Finish(c, IF data[e] # Nil THEN Found(data[e]) ELSE NoDoc("missing"))
  /\ UNCHANGED <<req, m, data, chOpen, evictVars>>

\* ctx is done; select may take this case when the channel is closed too.
GetTimeout(c) ==
  /\ pc[c] = "wait"
  /\ held' = [held EXCEPT ![c] = Nil]
  /\ Finish(c, NoDoc("timeout"))
  /\ UNCHANGED <<req, m, data, chOpen, stale, evictVars>>

Peek(c) ==
  /\ pc[c] = "body" /\ req[c].op = "peek"
  /\ \/ /\ data[ent[c]] # Nil
        /\ pc' = [pc EXCEPT ![c] = "touch"]
        /\ res' = [res EXCEPT ![c] = Found(data[ent[c]])]
        /\ UNCHANGED ent
     \/ data[ent[c]] = Nil /\ Finish(c, NoDoc("missing"))
  /\ UNCHANGED <<req, m, data, chOpen, stale, held, evictVars>>

\* Get and Peek take e.mu again to refresh lastTouch before they return.
Touch(c) ==
  /\ pc[c] = "touch"
  /\ stale' = [stale EXCEPT ![ent[c]] = FALSE]
  /\ Finish(c, res[c])
  /\ UNCHANGED <<req, m, data, chOpen, held, evictVars>>

-----------------------------------------------------------------------------
(* Delete: out of the map under s.mu, then the channel is closed under     *)
(* e.mu.  Between the two the entry is an orphan whose channel is open.    *)

\* A mutant of DeleteUnmap: the "if ok" before the second section is missing.
DeleteUnmapUnchecked(c) ==
  /\ pc[c] = "unmap"
  /\ m' = [m EXCEPT ![req[c].key] = Nil]
  /\ ent' = [ent EXCEPT ![c] = m[req[c].key]]
  /\ pc' = [pc EXCEPT ![c] = "close"]
  /\ UNCHANGED <<req, res, data, chOpen, stale, held, evictVars>>

\* A mutant of DeleteUnmap: the entry is only looked up, and stays in the map.
DeleteUnmapLooksOnly(c) ==
  LET e == m[req[c].key] IN
  /\ pc[c] = "unmap"
  /\ \/ /\ e # Nil
        /\ ent' = [ent EXCEPT ![c] = e]
        /\ pc' = [pc EXCEPT ![c] = "close"]
        /\ UNCHANGED res
     \/ /\ e = Nil
        /\ Finish(c, NoDoc("ok"))
  /\ UNCHANGED <<req, m, data, chOpen, stale, held, evictVars>>

DeleteUnmap(c) ==
  LET e == m[req[c].key] IN
  /\ pc[c] = "unmap"
  /\ \/ /\ e # Nil
        /\ m' = [m EXCEPT ![req[c].key] = Nil]
        /\ ent' = [ent EXCEPT ![c] = e]
        /\ pc' = [pc EXCEPT ![c] = "close"]
        /\ UNCHANGED res
     \/ /\ e = Nil
        /\ Finish(c, NoDoc("ok"))
        /\ UNCHANGED m
  /\ UNCHANGED <<req, data, chOpen, stale, held, evictVars>>

\* A mutant of DeleteClose: the waiters are not woken.
DeleteCloseSilent(c) ==
  /\ pc[c] = "close"
  /\ Finish(c, NoDoc("ok"))
  /\ UNCHANGED <<req, m, data, chOpen, stale, held, evictVars>>

DeleteClose(c) ==
  LET e == ent[c] IN
  /\ pc[c] = "close"
  /\ \/ /\ chOpen[e]
        /\ chOpen' = [chOpen EXCEPT ![e] = FALSE]
        /\ held' = Woken(e)
        /\ Finish(c, NoDoc("ok"))
     \/ /\ ~chOpen[e]
        /\ Finish(c, NoDoc("panic"))
        /\ UNCHANGED <<chOpen, held>>
  /\ UNCHANGED <<req, m, data, stale, evictVars>>

-----------------------------------------------------------------------------
(* Time and the eviction loop.                                             *)

\* An entry outside the map is never looked at by the evictor.
Age(e) ==
  /\ TTL
  /\ \E k \in Keys : m[k] = e
  /\ ~stale[e]
  /\ stale' = [stale EXCEPT ![e] = TRUE]
  /\ UNCHANGED <<m, data, chOpen, clientVars, evictVars>>

\* First phase, under the read lock: collect the keys that look expired.
EvictScan ==
  LET found == {k \in Keys : m[k] # Nil /\ stale[m[k]]} IN
  /\ evictor = "tick"
  /\ found # {}
  /\ expired' = found
  /\ evictor' = "confirm"
  /\ UNCHANGED <<m, data, chOpen, stale, clientVars>>

\* The effect of evicting the keys in gone: out of the map, channels closed.
EvictKeys(gone) ==
  LET evicted == {m[k] : k \in gone} IN
  /\ m' = [k \in Keys |-> IF k \in gone THEN Nil ELSE m[k]]
  /\ chOpen' = [e \in Entries |-> chOpen[e] /\ e \notin evicted]
  /\ held' = [c \in Clients |-> IF ent[c] \in evicted THEN Woken(ent[c])[c] ELSE held[c]]
  /\ expired' = {}
  /\ evictor' = "tick"
  /\ UNCHANGED <<data, stale, pc, req, ent, res>>

\* A mutant of EvictConfirm: what was expired in the scan is evicted.
EvictConfirmUnchecked ==
  /\ evictor = "confirm"
  /\ EvictKeys({k \in expired : m[k] # Nil})

\* A mutant of EvictConfirm: the channel is closed, the entry stays.
EvictConfirmKeeps ==
  LET kept == {m[k] : k \in {k \in expired : m[k] # Nil /\ stale[m[k]]}} IN
  /\ evictor = "confirm"
  /\ chOpen' = [e \in Entries |-> chOpen[e] /\ e \notin kept]
  /\ held' = [c \in Clients |-> IF ent[c] \in kept THEN Woken(ent[c])[c] ELSE held[c]]
  /\ expired' = {}
  /\ evictor' = "tick"
  /\ UNCHANGED <<m, data, stale, pc, req, ent, res>>

\* Second phase, under the write lock: look each key up again and evict its
\* entry if that entry is (still) expired.  The whole phase is one step: the
\* map is locked and the sections of different entries commute.
EvictConfirm ==
  /\ evictor = "confirm"
  /\ EvictKeys({k \in expired : m[k] # Nil /\ stale[m[k]]})

Stop ==
  /\ evictor = "tick"
  /\ evictor' = "stopped"
  /\ UNCHANGED <<m, data, chOpen, stale, clientVars, expired>>

-----------------------------------------------------------------------------
\* The steps of a call that its goroutine takes by itself.
Step(c) ==
  \/ Lookup(c) \/ Create(c) \/ Update(c)
  \/ GetSnapshot(c) \/ GetWake(c) \/ Peek(c) \/ Touch(c)
  \/ DeleteUnmap(c) \/ DeleteClose(c)

Next ==
  \/ \E c \in Clients :
       \/ \E r \in Requests : Call(c, r)
       \/ Step(c)
       \/ Return(c)
       \/ GetTimeout(c)
  \/ \E e \in Entries : Age(e)
  \/ EvictScan \/ EvictConfirm \/ Stop

Spec == Init /\ [][Next]_vars

\* The Go scheduler runs every goroutine that can run.  Nothing makes a client
\* call, a context expire or an entry grow stale.
FairSpec == Spec /\ \A c \in Clients : WF_vars(Step(c) \/ Return(c))

-----------------------------------------------------------------------------
(* Properties.                                                             *)

\* The program counters at which a call has an entry in hand.
Working == {"body", "touch", "wait", "close"}

\* The sets the variables range over.
Types ==
  /\ m \in [Keys -> Entries \cup {Nil}]
  /\ data \in [Entries -> Docs \cup {Nil}]
  /\ chOpen \in [Entries -> BOOLEAN]
  /\ stale \in [Entries -> BOOLEAN]
  /\ pc \in [Clients -> Working \cup {"idle", "lookup", "create", "unmap", "done"}]
  /\ req \in [Clients -> Requests \cup {Nil}]
  /\ ent \in [Clients -> Entries \cup {Nil}]
  /\ held \in [Clients -> {Nil, "current", "closed", "replaced"}]
  /\ res \in [Clients -> Results \cup {Nil}]
  /\ expired \subseteq Keys
  /\ evictor \in {"tick", "confirm", "stopped"}

\* The fields that go with a program counter: a call has an entry exactly while
\* it works on one, and a Get has a channel exactly while it waits.
Fields ==
  \A c \in Clients :
    /\ pc[c] \in Working <=> ent[c] # Nil
    /\ pc[c] = "wait" <=> held[c] # Nil
    /\ pc[c] # "idle" => req[c] \in Requests
    /\ pc[c] = "idle" => res[c] = Nil

\* Type correctness of the store and of the calls in progress.
TypeOK == Types /\ Fields

\* Some Delete has taken e out of the map and is about to close its channel.
BeingDeleted(e) == \E c \in Clients : pc[c] = "close" /\ ent[c] = e

\* The broadcast channel of an entry that is in the map is open: Set and the
\* merges put a new channel in place of the one they close, and Delete and the
\* evictor close one only when they have removed the entry.
LiveChannelOpen == \A k \in Keys : m[k] # Nil => chOpen[m[k]]

\* No Get sleeps where nobody will wake it.  A Get whose channel is still open
\* waits on the channel its entry has now, the entry has no data, and either
\* the entry is the one its key has in the map, where the next update finds
\* it, or a Delete is about to close the channel (store.go:190-220, 242-257).
NoLostWakeup ==
  \A c \in Clients :
    pc[c] = "wait" /\ held[c] # "closed" =>
      /\ held[c] = "current"
      /\ chOpen[ent[c]]
      /\ data[ent[c]] = Nil
      /\ m[req[c].key] = ent[c] \/ BeingDeleted(ent[c])

\* A Get that is woken and finds no data was woken because its entry left the
\* map: "not found" is never the answer for a key that was just set.
WokenEmptyMeansGone ==
  \A c \in Clients :
    pc[c] = "wait" /\ held[c] = "closed" /\ data[ent[c]] = Nil =>
      \A k \in Keys : m[k] # ent[c]

\* Delete never closes a channel twice, whatever updates, other Deletes and
\* the evictor do to the entry between its two critical sections.
DeleteNeverPanics ==
  \A c \in Clients : res[c] = NoDoc("panic") => req[c].op # "delete"

\* Every entry that leaves the map in this step was expired or is deleted.
OnlyExpiredOrDeleted ==
  \A k \in Keys :
    m[k] # Nil /\ m'[k] # m[k] =>
      stale[m[k]] \/ \E c \in Clients : pc[c] = "unmap" /\ ent'[c] = m[k]

\* An entry leaves the map because a Delete took it or because it was expired
\* at that very moment: one touched after the evictor's scan survives
\* (the second check of store.go:289-301).
FreshEntrySurvives == [][OnlyExpiredOrDeleted]_vars

\* A blocking Get whose key was given a value, or whose entry was deleted or
\* evicted, returns, without any help from its context.
GetReturns ==
  \A c \in Clients :
    (pc[c] = "wait" /\ (data[ent[c]] # Nil \/ m[req[c].key] # ent[c])) ~> pc[c] # "wait"
=============================================================================
