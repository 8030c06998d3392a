------------------------------ MODULE KVLinear ------------------------------
(***************************************************************************)
(* Is the store of KVStore linearizable?  A history variable records, for  *)
(* every call, what was asked, what was answered and which calls were over *)
(* when it began; the history is linearizable when the calls can be put in *)
(* an order that respects "over before it began" and in which a plain map  *)
(* would give the same answers.  One key is enough: linearizability of     *)
(* each key is linearizability of the store.  An eviction is a Delete that *)
(* nobody called.                                                          *)
(***************************************************************************)
EXTENDS KVStore, Naturals, Sequences

CONSTANT MaxCalls   \* bound on the calls of a behaviour

VARIABLES
  hist,   \* hist[i]: the i-th call
  id      \* id[c]: the index of client c's call in hist

linVars == <<vars, hist, id>>

LInit ==
  /\ Init
  /\ hist = <<>>
  /\ id = [c \in Clients |-> 0]

\* The calls that are over.
Over == {i \in DOMAIN hist : hist[i].res # Nil}

LCall(c, r) ==
  /\ Len(hist) < MaxCalls
  /\ Call(c, r)
  /\ hist' = Append(hist, [req |-> r, res |-> Nil, after |-> Over])
  /\ id' = [id EXCEPT ![c] = Len(hist) + 1]

\* A call is over when its client has the result.
LReturn(c) ==
  /\ Return(c)
  /\ hist' = [hist EXCEPT ![id[c]].res = res[c]]
  /\ id' = [id EXCEPT ![c] = 0]

\* An eviction takes effect and is over in one step.
LEvict ==
  LET gone == {k \in expired : m[k] # Nil /\ stale[m[k]]} IN
  /\ EvictConfirm
  /\ \/ gone = {} /\ UNCHANGED hist
     \/ /\ Len(hist) < MaxCalls
        /\ \E k \in gone :
             hist' = Append(hist, [req |-> [op |-> "delete", key |-> k, arg |-> Nil],
                                   res |-> NoDoc("ok"), after |-> Over])
  /\ UNCHANGED id

LNext ==
  \/ \E c \in Clients :
       \/ \E r \in Requests : LCall(c, r)
       \/ LReturn(c)
       \/ (Step(c) \/ GetTimeout(c)) /\ UNCHANGED <<hist, id>>
  \/ LEvict
  \/ ((\E e \in Entries : Age(e)) \/ EvictScan \/ Stop) /\ UNCHANGED <<hist, id>>

LSpec == LInit /\ [][LNext]_linVars

-----------------------------------------------------------------------------
(* The sequential store: one cell, absent (Nil) or an object.              *)

\* Can a call be answered r when the cell holds d?  A call that is not over, a
\* Get that timed out and an update that failed fit anywhere.
Fits(r, d) ==
  \/ r = Nil
  \/ r.kind \in {"ok", "timeout", "panic"}
  \/ r = IF d = Nil THEN NoDoc("missing") ELSE Found(d)

\* What the call q leaves in a cell that holds d.
Effect(q, d) ==
  CASE q.op \in Updates -> Updated(q.op, d, q.arg)
    [] q.op = "delete" -> Nil
    [] OTHER -> d

\* Outcome[S]: the contents of the cell after the calls of S, in some order
\* that respects the history and explains every answer.
Outcome[S \in SUBSET DOMAIN hist] ==
  IF S = {} THEN {Nil}
  ELSE UNION { {Effect(hist[i].req, d) : d \in {d \in Outcome[S \ {i}] : Fits(hist[i].res, d)}} :
                 i \in {i \in S : \A j \in S : i \notin hist[j].after} }

\* The store behaves as one atomic map: every history of calls, overlapping in
\* any way, has an order that explains all the answers that were given.  Calls
\* still running, and updates that panicked, may have taken effect or not.
Linearizable ==
  \E S \in SUBSET DOMAIN hist :
    /\ {i \in Over : hist[i].res.kind # "panic"} \subseteq S
    /\ Outcome[S] # {}
=============================================================================
