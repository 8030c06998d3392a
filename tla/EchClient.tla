----------------------------- MODULE EchClient -----------------------------
(***************************************************************************)
(* The ECH client (pkg/ech/client.go) and the shared library around it     *)
(* (cmd/ech-shared/shared.go).  The client in use is an atomic pointer; it *)
(* is made from the ECH key of the front domain, which is asked of a DoH   *)
(* server and cached with a lifetime.  Three kinds of threads fetch keys:  *)
(* the goroutine ECHInit starts, the refresh loop it leaves behind, and    *)
(* the callers of Do that find no client.  Callers come from outside Go,   *)
(* from any thread, and share the handles of the answers they read.        *)
(*                                                                         *)
(* The keys the front domain uses are 1, 2, ... in turn.  The DoH server   *)
(* is a URL; the address it is dialled at is left out.                     *)
(***************************************************************************)
EXTENDS Naturals, FiniteSets

CONSTANTS
  Callers,    \* threads that call the library
  Inits,      \* numbers of the goroutines ECHInit may start
  Refresh,    \* the refresh loop
  Handles,    \* numbers of the handles that may be given out
  Urls,       \* DoH URLs a caller may set
  Default,    \* defaultDohURL
  None,       \* no configuration, no key, no client
  MaxKey,     \* bound: the last key of the front domain
  MaxFails    \* bound: how often DoH fails

ASSUME ClientAssumption ==
  /\ MaxKey \in Nat \ {0} /\ MaxFails \in Nat /\ Inits \subseteq Nat /\ Handles \subseteq Nat
  /\ None \notin Urls \cup {Default} /\ None \notin Nat
  /\ Callers \cap Inits = {} /\ Refresh \notin Callers \cup Inits

Threads == Callers \cup Inits \cup {Refresh}
Keys == 1 .. MaxKey

VARIABLES
  pc,        \* pc[t]: where thread t is
  key,       \* key[t]: the key it has, None after an error
  url,       \* url[t]: the DoH URL it uses or is about to set
  hand,      \* hand[c]: the handle caller c works on
  cfg,       \* cfgPtr: the DoH URL, None before the first use
  cache,     \* the cached key and whether it is fresh
  client,    \* defaultClient: the key it was made from
  loops,     \* how many refresh loops have been started
  initing, initDone, initErr,   \* as in shared.go
  valid,     \* handles in cgo's table
  closed,    \* handles whose closed flag is set
  open,      \* handles whose body is open
  once,      \* handles whose closeOnce is through
  returned,  \* handles an ECHClose of which has returned
  inUse,     \* the key the front domain uses
  fails      \* how often DoH has failed

thread == <<pc, key, url, hand>>
initState == <<initing, initDone, initErr>>
handles == <<valid, closed, open, once, returned>>
world == <<inUse, fails>>
vars == <<thread, cfg, cache, client, loops, initState, handles, world>>

Init ==
  /\ pc = [t \in Threads |-> IF t = Refresh THEN "none" ELSE "idle"]
  /\ key = [t \in Threads |-> None] /\ url = [t \in Threads |-> None]
  /\ hand = [c \in Callers |-> None]
  /\ cfg = None /\ cache = None /\ client = None /\ loops = 0
  /\ initing = FALSE /\ initDone = FALSE /\ initErr = None
  /\ valid = {} /\ closed = {} /\ open = {} /\ once = {} /\ returned = {}
  /\ inUse = 1 /\ fails = 0

Goto(t, from, to) == pc[t] = from /\ pc' = [pc EXCEPT ![t] = to]

-----------------------------------------------------------------------------
(* The configuration.                                                      *)

\* SetDohURL loads the configuration, and stores a changed copy of it.
SetDohURL(c, u) ==
  /\ Goto(c, "idle", "set") /\ url' = [url EXCEPT ![c] = u]
  /\ UNCHANGED <<key, hand, cfg, cache, client, loops, initState, handles, world>>

StoreURL(c) ==
  /\ Goto(c, "set", "idle")
  /\ cfg' = url[c] /\ url' = [url EXCEPT ![c] = None]
  /\ UNCHANGED <<key, hand, cache, client, loops, initState, handles, world>>

-----------------------------------------------------------------------------
(* fetchECHConfig.                                                         *)

Fresh == IF cache = None THEN FALSE ELSE cache.fresh

CacheHit(t) ==
  /\ Goto(t, "fetch", "fetched") /\ Fresh
  /\ key' = [key EXCEPT ![t] = cache.key]
  /\ UNCHANGED <<url, hand, cfg, cache, client, loops, initState, handles, world>>

CacheMiss(t) ==
  /\ Goto(t, "fetch", "config") /\ ~Fresh
  /\ UNCHANGED <<key, url, hand, cfg, cache, client, loops, initState, handles, world>>

\* currentConfig: when there is none the default is stored, in a second step.
LoadConfig(t) ==
  /\ Goto(t, "config", IF cfg = None THEN "default" ELSE "ask")
  /\ url' = [url EXCEPT ![t] = IF cfg = None THEN Default ELSE cfg]
  /\ UNCHANGED <<key, hand, cfg, cache, client, loops, initState, handles, world>>

StoreDefault(t) ==
  /\ Goto(t, "default", "ask") /\ cfg' = Default
  /\ UNCHANGED <<key, url, hand, cache, client, loops, initState, handles, world>>

\* The DoH server answers with the key in use; the answer travels.
AskDoH(t) ==
  /\ Goto(t, "ask", "answer")
  /\ key' = [key EXCEPT ![t] = inUse] /\ url' = [url EXCEPT ![t] = None]
  /\ UNCHANGED <<hand, cfg, cache, client, loops, initState, handles, world>>

StoreKey(t) ==
  /\ Goto(t, "answer", "fetched")
  /\ cache' = [key |-> key[t], fresh |-> TRUE]
  /\ UNCHANGED <<key, url, hand, cfg, client, loops, initState, handles, world>>

\* No answer in time, a status that is not 200, or no key in the answer.
AskFails(t) ==
  /\ Goto(t, "ask", "fetched")
  /\ fails < MaxFails /\ fails' = fails + 1
  /\ key' = [key EXCEPT ![t] = None] /\ url' = [url EXCEPT ![t] = None]
  /\ UNCHANGED <<hand, cfg, cache, client, loops, initState, handles, inUse>>

-----------------------------------------------------------------------------
(* ECHInit and the goroutine that runs InitDefault.                        *)

Idle(g) == pc[g] = "idle"

ECHInit(c) ==
  /\ Idle(c) /\ ~initDone /\ ~initing
  /\ \E g \in Inits : Idle(g) /\ (\A i \in Inits : Idle(i) => g <= i) /\ Goto(g, "idle", "fetch")
  /\ initing' = TRUE
  /\ UNCHANGED <<key, url, hand, cfg, cache, client, loops, initDone, initErr, handles, world>>

InitStore(g) ==
  /\ pc[g] = "fetched" /\ key[g] # None
  /\ pc' = [pc EXCEPT ![g] = "stored",
                      ![Refresh] = IF @ = "none" THEN "wait" ELSE @]
  /\ client' = key[g] /\ key' = [key EXCEPT ![g] = None]
  /\ loops' = loops + 1
  /\ UNCHANGED <<url, hand, cfg, cache, initState, handles, world>>

InitClears(g) ==
  /\ Goto(g, "stored", "clear") /\ initErr' = ""
  /\ UNCHANGED <<key, url, hand, cfg, cache, client, loops, initing, initDone, handles, world>>

\* initing stays set: the library is initialised once.
InitDone(g) ==
  /\ Goto(g, "clear", "idle") /\ initDone' = TRUE
  /\ UNCHANGED <<key, url, hand, cfg, cache, client, loops, initing, initErr, handles, world>>

InitFails(g) ==
  /\ Goto(g, "fetched", "failed") /\ key[g] = None /\ initErr' = "error"
  /\ UNCHANGED <<key, url, hand, cfg, cache, client, loops, initing, initDone, handles, world>>

\* A mutant of InitMayRetry: the flag stays set after an error.
InitMayNotRetry(g) ==
  /\ Goto(g, "failed", "idle")
  /\ UNCHANGED <<key, url, hand, cfg, cache, client, loops, initState, handles, world>>

InitMayRetry(g) ==
  /\ Goto(g, "failed", "idle") /\ initing' = FALSE
  /\ UNCHANGED <<key, url, hand, cfg, cache, client, loops, initDone, initErr, handles, world>>

-----------------------------------------------------------------------------
(* refreshLoop.                                                            *)

Tick ==
  /\ Goto(Refresh, "wait", "fetch")
  /\ UNCHANGED <<key, url, hand, cfg, cache, client, loops, initState, handles, world>>

\* A mutant of Swap: the error is not looked at.
SwapAnything ==
  /\ Goto(Refresh, "fetched", "wait")
  /\ client' = key[Refresh] /\ key' = [key EXCEPT ![Refresh] = None]
  /\ UNCHANGED <<url, hand, cfg, cache, loops, initState, handles, world>>

\* The new client replaces whatever is there.
Swap ==
  /\ Goto(Refresh, "fetched", "wait") /\ key[Refresh] # None
  /\ client' = key[Refresh] /\ key' = [key EXCEPT ![Refresh] = None]
  /\ UNCHANGED <<url, hand, cfg, cache, loops, initState, handles, world>>

\* A mutant of RefreshFails: the loop returns.
RefreshEnds ==
  /\ Goto(Refresh, "fetched", "ended") /\ key[Refresh] = None
  /\ UNCHANGED <<key, url, hand, cfg, cache, client, loops, initState, handles, world>>

\* An error leaves the old client and the loop running.
RefreshFails ==
  /\ Goto(Refresh, "fetched", "wait") /\ key[Refresh] = None
  /\ UNCHANGED <<key, url, hand, cfg, cache, client, loops, initState, handles, world>>

-----------------------------------------------------------------------------
(* ECHFetchBegin and Do.                                                   *)

ECHFetchBegin(c) ==
  /\ Goto(c, "idle", IF client = None THEN "fetch" ELSE "send")
  /\ key' = [key EXCEPT ![c] = client]
  /\ UNCHANGED <<url, hand, cfg, cache, client, loops, initState, handles, world>>

\* New has made a client: it becomes the default one unless there is one now.
CompareAndSwap(c) ==
  /\ Goto(c, "fetched", "send") /\ key[c] # None
  /\ client' = IF client = None THEN key[c] ELSE client
  /\ key' = [key EXCEPT ![c] = client']
  /\ UNCHANGED <<url, hand, cfg, cache, loops, initState, handles, world>>

NewFails(c) ==
  /\ Goto(c, "fetched", "idle") /\ key[c] = None
  /\ UNCHANGED <<key, url, hand, cfg, cache, client, loops, initState, handles, world>>

\* The front domain accepts the key it uses; a 200 gives a handle.
Begun(c) ==
  /\ Goto(c, "send", "idle") /\ key[c] = inUse
  /\ \E h \in Handles \ (valid \cup closed) :
       valid' = valid \cup {h} /\ open' = open \cup {h}
  /\ key' = [key EXCEPT ![c] = None]
  /\ UNCHANGED <<url, hand, cfg, cache, client, loops, initState, closed, once, returned, world>>

\* The handshake, the request or the status is bad.
BeginFails(c) ==
  /\ Goto(c, "send", "idle") /\ key' = [key EXCEPT ![c] = None]
  /\ UNCHANGED <<url, hand, cfg, cache, client, loops, initState, handles, world>>

-----------------------------------------------------------------------------
(* Handles.  A handle that is out of cgo's table panics, and the panic is  *)
(* recovered: the read returns -2, the close returns.                      *)

Take(c, h, to) ==
  /\ Goto(c, "idle", to) /\ hand' = [hand EXCEPT ![c] = h]
Drop(c) == hand' = [hand EXCEPT ![c] = None]

ECHRead(c, h) ==
  /\ h \in valid \ closed /\ Take(c, h, "read")
  /\ UNCHANGED <<key, url, cfg, cache, client, loops, initState, handles, world>>

\* The body is read: data, its end, or an error when it has been closed.
ReadBody(c) ==
  /\ Goto(c, "read", "idle") /\ Drop(c)
  /\ UNCHANGED <<key, url, cfg, cache, client, loops, initState, handles, world>>

\* close() is entered; one thread gets to set the flag and close the body, the
\* others wait for it.
ECHClose(c, h) ==
  /\ h \in valid /\ Take(c, h, IF h \in closed THEN "wait once" ELSE "close")
  /\ closed' = closed \cup {h}
  /\ UNCHANGED <<key, url, cfg, cache, client, loops, initState, valid, open, once, returned, world>>

CloseBody(c) ==
  /\ Goto(c, "close", "delete")
  /\ open' = open \ {hand[c]} /\ once' = once \cup {hand[c]}
  /\ UNCHANGED <<key, url, hand, cfg, cache, client, loops, initState, valid, closed, returned, world>>

\* A mutant of AfterOnce: a flag in place of sync.Once, nobody waits.
AfterFlag(c) ==
  /\ Goto(c, "wait once", "delete")
  /\ UNCHANGED <<key, url, hand, cfg, cache, client, loops, initState, handles, world>>

AfterOnce(c) ==
  /\ Goto(c, "wait once", "delete") /\ hand[c] \in once
  /\ UNCHANGED <<key, url, hand, cfg, cache, client, loops, initState, handles, world>>

\* Delete takes the handle out of the table, or panics when it is out.
DeleteHandle(c) ==
  /\ Goto(c, "delete", "idle") /\ Drop(c)
  /\ valid' = valid \ {hand[c]} /\ returned' = returned \cup {hand[c]}
  /\ UNCHANGED <<key, url, cfg, cache, client, loops, initState, closed, open, once, world>>

-----------------------------------------------------------------------------
\* The lifetime of the cached key ends; the front domain changes its key.
KeyExpires ==
  /\ Fresh /\ cache' = [cache EXCEPT !.fresh = FALSE]
  /\ UNCHANGED <<thread, cfg, client, loops, initState, handles, world>>

KeyChanges ==
  /\ inUse < MaxKey /\ inUse' = inUse + 1
  /\ UNCHANGED <<thread, cfg, cache, client, loops, initState, handles, fails>>

Fetch(t) ==
  \/ CacheHit(t) \/ CacheMiss(t) \/ LoadConfig(t) \/ StoreDefault(t)
  \/ AskDoH(t) \/ StoreKey(t) \/ AskFails(t)
InitStep(g) ==
  Fetch(g) \/ InitStore(g) \/ InitClears(g) \/ InitDone(g) \/ InitFails(g) \/ InitMayRetry(g)
RefreshStep == Fetch(Refresh) \/ Tick \/ Swap \/ RefreshFails
CallStep(c) ==
  \/ Fetch(c) \/ StoreURL(c) \/ CompareAndSwap(c) \/ NewFails(c) \/ Begun(c) \/ BeginFails(c)
  \/ ReadBody(c) \/ CloseBody(c) \/ AfterOnce(c) \/ DeleteHandle(c)
Call(c) ==
  \/ ECHInit(c) \/ ECHFetchBegin(c) \/ \E u \in Urls : SetDohURL(c, u)
  \/ \E h \in Handles : ECHRead(c, h) \/ ECHClose(c, h)

Next ==
  \/ \E c \in Callers : Call(c) \/ CallStep(c)
  \/ \E g \in Inits : InitStep(g)
  \/ RefreshStep \/ KeyExpires \/ KeyChanges

\* The ticker ticks, the loop's fetches have a time limit (10 s), and lifetimes
\* end.  Callers need call nothing, and what they began may hang.
Fairness == WF_vars(RefreshStep) /\ WF_vars(KeyExpires)

Spec == Init /\ [][Next]_vars
FairSpec == Spec /\ Fairness

-----------------------------------------------------------------------------
Places == {"none", "idle", "wait", "set", "fetch", "config", "default", "ask", "answer",
           "fetched", "stored", "clear", "failed", "send", "read", "close", "wait once",
           "delete"}

\* The state has its type.
TypeOK ==
  /\ pc \in [Threads -> Places]
  /\ \A t \in Threads :
       /\ key[t] \in Keys \cup {None} /\ url[t] \in Urls \cup {Default, None}
  /\ cfg \in Urls \cup {Default, None}
  /\ cache \in {None} \cup [key : Keys, fresh : BOOLEAN]
  /\ client \in Keys \cup {None} /\ loops \in 0 .. 1
  /\ initErr \in {None, "", "error"}
  /\ valid \cup closed \cup open \cup once \cup returned \subseteq Handles

\* However many threads call ECHInit, and whenever they retry after an error,
\* one goroutine at a time initialises and one refresh loop is started
\* (shared.go:54-79); and a library that says it is initialising has a
\* goroutine at it, so that a failed start never blocks the next.
OneInit ==
  /\ Cardinality({g \in Inits : ~Idle(g)}) <= 1 /\ loops <= 1
  /\ initing /\ ~initDone <=> \E g \in Inits : ~Idle(g)

\* A library that reports ready has a client, and keeps it
\* (shared.go:92-96, client.go:408-431).
ReadyHasClient == initDone => client # None /\ loops = 1

\* When ECHClose has returned, to whichever thread and however many closed the
\* handle at once, the body is closed and the handle out of the table: no read
\* begins on it any more (shared.go:149-177).
CloseIsFinal == \A h \in returned : h \notin valid \cup open

\* A client made from an old key does not stay: although an answer may be
\* stored after a newer one, by any of three kinds of threads, and refreshing
\* may fail, a ready library ends with the key in use (client.go:434-462).
KeyHeals == <>[](initDone => client = inUse)
=============================================================================
