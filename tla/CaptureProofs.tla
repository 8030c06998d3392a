--------------------------- MODULE CaptureProofs ---------------------------
(***************************************************************************)
(* capture-proxy for any number of requests and clients, any limit of the  *)
(* ban list and any number of midnights.  The counters are the hard part:  *)
(* that they add up is inductive once it is known that a request that      *)
(* waits for an answer is on a family, and that the reset never runs       *)
(* before the first midnight.                                              *)
(*                                                                         *)
(* multi-proxy in front of it adds nothing that capture-proxy does not do  *)
(* by itself, so all of this holds of the two together; and any number of  *)
(* sources that fail does not keep a request from a healthy one.           *)
(***************************************************************************)
EXTENDS MultiProxy, FiniteSetTheorems, TLAPS

\* What TypeOK says of one request.
RequestOK(q) ==
  /\ q \in ReqType
  /\ q.pc \in {"wait", "cool", "relay"} => q.left # <<>>
  /\ q.pc \in {"gate", "count"} => q.from \in Clients

\* What TypeOK says of the rest.
TablesOK ==
  /\ cooldown \in [Fams -> None..ToMidnight]
  /\ limFails \in [Fams -> None..ToMidnight]
  /\ unsettled \in [Fams -> Int]
  /\ banCount \in [Clients -> 0..BanMax]
  /\ banned \in [Clients -> {"no", "yes", "over"}]
  /\ resetDue \in BOOLEAN /\ days \in 0..MaxDays

ResetAfterMidnight == resetDue => days > 0

CaptureInv == TypeOK /\ CountersAddUp /\ BanStartsAfresh /\ ResetAfterMidnight

-----------------------------------------------------------------------------
(* Lemmas about single values.                                             *)

\* TypeOK in its two halves.
LEMMA TypeSplits ==
  TypeOK <=> /\ TablesOK
             /\ req \in [Reqs -> ReqType]
             /\ \A r \in Reqs : RequestOK(req[r])
  BY DEF TypeOK, TablesOK, RequestOK

\* The families left to try: the next is a family, and so is what follows.
LEMMA LeftToTry ==
  ASSUME NEW l \in Lefts, l # <<>>
  PROVE  Head(l) \in Fams /\ Tail(l) \in Lefts
<1>1. CASE l = <<"v4">>
  BY <1>1 DEF Fams, Lefts
<1>2. CASE l = <<"v6">>
  BY <1>2 DEF Fams, Lefts
<1>3. CASE l = <<"v6", "v4">>
  BY <1>3 DEF Fams, Lefts
<1> QED
  BY <1>1, <1>2, <1>3 DEF Lefts

\* The order in which the families are tried.
LEMMA StacksType ==
  ASSUME NEW over \in (Overs \ {"junk"}) \union {"none"}, NEW mode \in SetModes
  PROVE  stacks(over, mode) \in Lefts
  BY CaptureAssumption DEF stacks, Modes, Fams, Lefts

\* A request that is answered.
LEMMA AnswerOK ==
  ASSUME NEW a \in {"none", "200", "400", "413", "429", "banned"} \union Statuses
  PROVE  RequestOK([Idle EXCEPT !.pc = "done", !.ans = a])
<1> DEFINE x == [Idle EXCEPT !.pc = "done", !.ans = a]
<1>1. None \in None..ToMidnight
  BY DEF None, ToMidnight
<1>2. Idle \in ReqType
  BY <1>1 DEF Idle, ReqType, Lefts
<1>3. x \in ReqType /\ x.pc = "done"
  BY ZenonT(60), <1>2 DEF ReqType
<1> QED
  BY <1>3 DEF RequestOK

\* A set of requests with one more, or one less.
LEMMA OneMoreOrLess ==
  ASSUME NEW S \in SUBSET Reqs, NEW r \in Reqs
  PROVE  /\ Cardinality(S) \in Nat
         /\ r \notin S => Cardinality(S \union {r}) = Cardinality(S) + 1
         /\ r \in S => Cardinality(S \ {r}) = Cardinality(S) - 1
<1>1. IsFiniteSet(S)
  BY CaptureAssumption, FS_Subset
<1> QED
  BY <1>1, FS_AddElement, FS_RemoveElement, FS_CardinalityType

\* What a step of one request does to the requests, and to those that wait.
LEMMA OneRequest ==
  ASSUME TypeOK, NEW r \in Reqs, NEW x, RequestOK(x), req' = [req EXCEPT ![r] = x]
  PROVE  /\ req' \in [Reqs -> ReqType] /\ \A q \in Reqs : RequestOK(req'[q])
         /\ \A f \in Fams :
              InFlight(f)' = (InFlight(f) \ {r}) \union
                               (IF x.pc = "wait" /\ Head(x.left) = f THEN {r} ELSE {})
<1>1. req' \in [Reqs -> ReqType] /\ \A q \in Reqs : RequestOK(req'[q])
  BY TypeSplits DEF RequestOK
<1>2. req'[r] = x /\ \A q \in Reqs \ {r} : req'[q] = req[q]
  BY DEF TypeOK
<1>3. ASSUME NEW f \in Fams
      PROVE  InFlight(f)' = (InFlight(f) \ {r}) \union
                               (IF x.pc = "wait" /\ Head(x.left) = f THEN {r} ELSE {})
  BY <1>2 DEF InFlight, Fam
<1> QED
  BY <1>1, <1>3

\* A step that lets no request begin or cease to wait, and counts nothing,
\* keeps the counters right.
LEMMA CountsStay ==
  ASSUME TypeOK, CountersAddUp, UNCHANGED <<unsettled, days>>, NEW r \in Reqs, NEW x,
         RequestOK(x), req' = [req EXCEPT ![r] = x],
         req[r].pc = "wait" \/ x.pc = "wait" =>
           req[r].pc = "wait" /\ x.pc = "wait" /\ x.left = req[r].left
  PROVE  CountersAddUp'
<1>1. ASSUME NEW f \in Fams PROVE InFlight(f)' = InFlight(f)
  BY <1>1, OneRequest DEF InFlight, Fam
<1> QED
  BY <1>1 DEF CountersAddUp

\* A request that gets its outcome is counted once more, and waits no longer.
LEMMA OutcomeCounts ==
  ASSUME TypeOK, CountersAddUp, NEW r \in Reqs, At(r, "wait"), Settled(Fam(r)),
         days' = days, NEW x, RequestOK(x), x.pc # "wait", req' = [req EXCEPT ![r] = x]
  PROVE  CountersAddUp'
<1>1. ASSUME NEW f \in Fams
      PROVE  InFlight(f)' = InFlight(f) \ {r} /\ InFlight(f) \in SUBSET Reqs
  <2>1. ~(x.pc = "wait" /\ Head(x.left) = f)
    OBVIOUS
  <2>2. InFlight(f)' = (InFlight(f) \ {r}) \union {}
    BY <2>1, OneRequest
  <2> QED
    BY <2>2 DEF InFlight
<1>2. ASSUME NEW f \in Fams
      PROVE  /\ days' = 0 => unsettled'[f] = Cardinality(InFlight(f)')
             /\ unsettled'[f] <= Cardinality(InFlight(f)')
  <2>1. /\ days = 0 => unsettled[f] = Cardinality(InFlight(f))
        /\ unsettled[f] <= Cardinality(InFlight(f)) /\ unsettled[f] \in Int
    BY DEF CountersAddUp, TypeOK
  <2>2. CASE f = Fam(r)
    <3>1. r \in InFlight(f)
      BY <2>2 DEF InFlight, At
    <3>2. unsettled'[f] = unsettled[f] - 1
      BY <2>2 DEF Settled, TypeOK
    <3>3. Cardinality(InFlight(f)') = Cardinality(InFlight(f)) - 1
          /\ Cardinality(InFlight(f)) \in Nat
      BY <1>1, <3>1, OneMoreOrLess
    <3> QED
      BY <2>1, <3>2, <3>3
  <2>3. CASE f # Fam(r)
    <3>1. InFlight(f)' = InFlight(f)
      BY <1>1, <2>3 DEF InFlight
    <3>2. unsettled'[f] = unsettled[f]
      BY <2>3 DEF Settled, TypeOK
    <3> QED
      BY <2>1, <3>1, <3>2
  <2> QED
    BY <2>2, <2>3
<1> QED
  BY <1>2 DEF CountersAddUp

\* A request goes on with the next family, whatever its last error.
LEMMA NextFamOK ==
  ASSUME TypeOK, NEW r \in Reqs, req[r].left # <<>>,
         NEW last \in Statuses \union {"none"}, NEW w \in None..ToMidnight
  PROVE  /\ RequestOK([req[r] EXCEPT !.pc = "try", !.left = Tail(req[r].left), !.h1 = FALSE, !.last = last])
         /\ RequestOK([req[r] EXCEPT !.pc = "try", !.left = Tail(req[r].left), !.h1 = FALSE, !.wait = w])
<1>1. req[r] \in ReqType
  BY DEF TypeOK
<1> DEFINE rest == Tail(req[r].left)
<1>2. rest \in Lefts
  BY <1>1, LeftToTry DEF ReqType
<1> HIDE DEF rest
<1>3. [req[r] EXCEPT !.pc = "try", !.left = rest, !.h1 = FALSE, !.last = last] \in ReqType
  BY <1>1, <1>2 DEF ReqType
<1>4. [req[r] EXCEPT !.pc = "try", !.left = rest, !.h1 = FALSE, !.wait = w] \in ReqType
  BY <1>1, <1>2 DEF ReqType
<1> QED
  BY <1>1, <1>3, <1>4 DEF RequestOK, ReqType, rest

\* The type invariant after a step of one request.
LEMMA TypeKept ==
  ASSUME TypeOK, TablesOK', NEW r \in Reqs, NEW x, RequestOK(x), req' = [req EXCEPT ![r] = x]
  PROVE  TypeOK'
  BY OneRequest DEF TypeOK, TablesOK, RequestOK

\* A step of a request that waits for no answer before or after it.
LEMMA QuietStep ==
  ASSUME CaptureInv, NEW r \in Reqs, NEW x, RequestOK(x), req' = [req EXCEPT ![r] = x],
         req[r].pc # "wait", x.pc # "wait", TablesOK', BanStartsAfresh',
         UNCHANGED <<unsettled, days, resetDue>>
  PROVE  CaptureInv'
  BY TypeKept, CountsStay DEF CaptureInv, ResetAfterMidnight

\* A step that counts the outcome of a request.
LEMMA OutcomeStep ==
  ASSUME CaptureInv, NEW r \in Reqs, NEW x, RequestOK(x), req' = [req EXCEPT ![r] = x],
         At(r, "wait"), x.pc # "wait", Settled(Fam(r)),
         limFails' \in [Fams -> None..ToMidnight],
         UNCHANGED <<cooldown, banCount, banned, resetDue, days>>
  PROVE  CaptureInv'
<1>1. Fam(r) \in Fams
  BY LeftToTry DEF CaptureInv, TypeOK, ReqType, At, Fam
<1>2. unsettled' \in [Fams -> Int]
  BY <1>1 DEF CaptureInv, TypeOK, Settled
<1>2a. TablesOK'
  BY <1>2 DEF CaptureInv, TypeOK, TablesOK
<1>3. CountersAddUp'
  BY OutcomeCounts DEF CaptureInv
<1> QED
  BY <1>2a, <1>3, TypeKept DEF CaptureInv, ResetAfterMidnight, BanStartsAfresh

-----------------------------------------------------------------------------
(* The actions.                                                            *)

\* Nothing has happened yet.
LEMMA InitOK == CInit => CaptureInv
<1> SUFFICES ASSUME CInit PROVE CaptureInv
  OBVIOUS
<1>1. None \in None..ToMidnight /\ 0 \in None..ToMidnight
  BY DEF None, ToMidnight
<1>2. Idle \in ReqType /\ Idle.pc = "idle"
  BY <1>1 DEF Idle, ReqType, Lefts
<1>3. TypeOK
  <2>1. 0 \in 0..BanMax /\ 0 \in 0..MaxDays
    BY CaptureAssumption
  <2>2. /\ cooldown \in [Fams -> None..ToMidnight] /\ limFails \in [Fams -> None..ToMidnight]
        /\ unsettled \in [Fams -> Int] /\ banCount \in [Clients -> 0..BanMax]
    BY <1>1, <2>1 DEF CInit
  <2>3. /\ banned \in [Clients -> {"no", "yes", "over"}]
        /\ resetDue \in BOOLEAN /\ days \in 0..MaxDays
    BY <2>1 DEF CInit
  <2> QED
    BY <1>2, <2>2, <2>3 DEF CInit, TypeOK
<1>4. \A f \in Fams : InFlight(f) = {}
  BY <1>2 DEF CInit, InFlight
<1>5. CountersAddUp
  BY <1>4, FS_EmptySet DEF CInit, CountersAddUp
<1> QED
  BY <1>3, <1>5 DEF CInit, CaptureInv, BanStartsAfresh, ResetAfterMidnight

\* The request comes in (handleChat).
LEMMA ArriveOK ==
  ASSUME CaptureInv, NEW r \in Reqs, NEW c \in Clients, NEW b \in Bodies, NEW o \in Overs,
         Arrive(r, c, b, o)
  PROVE  CaptureInv'
<1>1. TablesOK' /\ BanStartsAfresh' /\ UNCHANGED <<unsettled, days, resetDue>>
  BY DEF Arrive, CaptureInv, TypeOK, TablesOK, BanStartsAfresh
<1>2. CASE o = "junk"
  <2>1. req' = [req EXCEPT ![r] = [Idle EXCEPT !.pc = "done", !.ans = "400"]]
    BY <1>2 DEF Arrive, Answer
  <2> QED
    BY <1>1, <2>1, AnswerOK, QuietStep DEF Arrive, At, Idle
<1>3. CASE o # "junk"
  <2> DEFINE x == [req[r] EXCEPT !.pc = IF BanOn THEN "gate" ELSE "body",
                                 !.from = c, !.body = b, !.over = o]
  <2>1. req' = [req EXCEPT ![r] = x]
    BY <1>3 DEF Arrive
  <2>2. req[r] \in ReqType /\ o \in Overs \ {"junk"}
    BY <1>3 DEF CaptureInv, TypeOK
  <2>2a. RequestOK(x) /\ x.pc # "wait"
    BY ZenonT(60), <2>2 DEF ReqType, RequestOK
  <2>3. req[r].pc # "wait"
    BY DEF Arrive, At
  <2> HIDE DEF x
  <2> QED
    BY <1>1, <2>1, <2>2a, <2>3, QuietStep
<1> QED
  BY <1>2, <1>3

\* The ban list is asked (isBanned).
LEMMA GateOK ==
  ASSUME CaptureInv, NEW r \in Reqs, Gate(r)
  PROVE  CaptureInv'
<1>1. TablesOK' /\ BanStartsAfresh' /\ UNCHANGED <<unsettled, days, resetDue>>
  BY DEF Gate, CaptureInv, TypeOK, TablesOK, BanStartsAfresh
<1>2. req[r].pc = "gate" /\ req[r] \in ReqType /\ req[r].from \in Clients
  BY DEF Gate, At, CaptureInv, TypeOK
<1>3. CASE banned[req[r].from] = "yes"
  <2>1. req' = [req EXCEPT ![r] = [Idle EXCEPT !.pc = "done", !.ans = "banned"]]
    BY <1>3 DEF Gate, Answer
  <2> QED
    BY <1>1, <1>2, <2>1, AnswerOK, QuietStep DEF Idle
<1>4. CASE banned[req[r].from] # "yes"
  <2> DEFINE x == [req[r] EXCEPT !.pc = "count"]
  <2>1. req' = [req EXCEPT ![r] = x]
    BY <1>4 DEF Gate
  <2>2. RequestOK(x) /\ x.pc # "wait"
    BY <1>2 DEF ReqType, RequestOK
  <2> HIDE DEF x
  <2> QED
    BY <1>1, <1>2, <2>1, <2>2, QuietStep
<1> QED
  BY <1>3, <1>4

\* The request is counted (banList.incr).
LEMMA IncrOK ==
  ASSUME CaptureInv, NEW r \in Reqs, Incr(r)
  PROVE  CaptureInv'
<1>1. req[r].pc = "count" /\ req[r] \in ReqType /\ req[r].from \in Clients
  BY DEF Incr, At, CaptureInv, TypeOK
<1>2. /\ banCount' \in [Clients -> 0..BanMax] /\ banned' \in [Clients -> {"no", "yes", "over"}]
      /\ BanStartsAfresh'
  <2>1. BanMax \in Nat /\ banCount[req[r].from] \in 0..BanMax
    BY <1>1, CaptureAssumption DEF CaptureInv, TypeOK
  <2>2. CASE UNCHANGED <<banCount, banned>>
    BY <2>2 DEF CaptureInv, TypeOK, BanStartsAfresh
  <2>3. CASE /\ banned[req[r].from] = "no" /\ banCount[req[r].from] < BanMax
             /\ banCount' = [banCount EXCEPT ![req[r].from] = @ + 1] /\ UNCHANGED banned
    BY <1>1, <2>1, <2>3 DEF CaptureInv, TypeOK, BanStartsAfresh
  <2>4. CASE /\ banCount' = [banCount EXCEPT ![req[r].from] = 0]
             /\ banned' = [banned EXCEPT ![req[r].from] = "yes"]
    BY <1>1, <2>1, <2>4 DEF CaptureInv, TypeOK, BanStartsAfresh
  <2> QED
    BY <2>2, <2>3, <2>4 DEF Incr
<1>2a. TablesOK' /\ UNCHANGED <<unsettled, days, resetDue>>
  BY <1>2 DEF Incr, CaptureInv, TypeOK, TablesOK
<1> DEFINE x == [req[r] EXCEPT !.pc = "body"]
<1>3. req' = [req EXCEPT ![r] = x]
  BY DEF Incr
<1>4. RequestOK(x) /\ x.pc # "wait"
  BY <1>1 DEF ReqType, RequestOK
<1> HIDE DEF x
<1> QED
  BY <1>1, <1>2, <1>2a, <1>3, <1>4, QuietStep

\* The body is read and the families are put in order.
LEMMA ReadBodyOK ==
  ASSUME CaptureInv, NEW r \in Reqs, ReadBody(r)
  PROVE  CaptureInv'
<1>1. TablesOK' /\ BanStartsAfresh' /\ UNCHANGED <<unsettled, days, resetDue>>
  BY DEF ReadBody, CaptureInv, TypeOK, TablesOK, BanStartsAfresh
<1>2. req[r].pc = "body" /\ req[r] \in ReqType
  BY DEF ReadBody, At, CaptureInv, TypeOK
<1>3. CASE readBody(req[r].body) # "none"
  <2>1. req' = [req EXCEPT ![r] = [Idle EXCEPT !.pc = "done", !.ans = readBody(req[r].body)]]
    BY <1>3 DEF ReadBody, Answer
  <2>2. readBody(req[r].body) \in {"413", "400", "none"}
    BY DEF readBody
  <2> QED
    BY <1>1, <1>2, <2>1, <2>2, AnswerOK, QuietStep DEF Idle
<1>4. CASE readBody(req[r].body) = "none"
  <2>1. PICK m \in SetModes :
          req' = [req EXCEPT ![r].pc = "try", ![r].left = stacks(req[r].over, m)]
    BY <1>4 DEF ReadBody
  <2> DEFINE x == [req[r] EXCEPT !.pc = "try", !.left = stacks(req[r].over, m)]
  <2>2. req' = [req EXCEPT ![r] = x]
    BY <2>1 DEF CaptureInv, TypeOK
  <2>3. stacks(req[r].over, m) \in Lefts
    BY <1>2, StacksType DEF ReqType
  <2>4. RequestOK(x) /\ x.pc # "wait"
    BY <1>2, <2>3 DEF ReqType, RequestOK
  <2> HIDE DEF x
  <2> QED
    BY <1>1, <1>2, <2>2, <2>4, QuietStep
<1> QED
  BY <1>3, <1>4

\* A family in cool-down is passed over, another is asked.
LEMMA TryOK ==
  ASSUME CaptureInv, NEW r \in Reqs, Try(r)
  PROVE  CaptureInv'
<1>1. req[r].pc = "try" /\ req[r].left # <<>> /\ req[r] \in ReqType /\ Fam(r) \in Fams
  BY LeftToTry DEF Try, At, CaptureInv, TypeOK, ReqType, Fam
<1>2. CASE cooldown[Fam(r)] # None
  <2> DEFINE x == [req[r] EXCEPT !.pc = "try", !.left = Tail(req[r].left), !.h1 = FALSE,
                                 !.last = req[r].last]
  <2>1. req' = [req EXCEPT ![r] = x] /\ UNCHANGED unsettled
    BY SMTT(40), <1>2 DEF Try, NextFam
  <2>2. RequestOK(x) /\ x.pc # "wait"
    BY <1>1, NextFamOK DEF CaptureInv, ReqType, None, ToMidnight
  <2>3. TablesOK' /\ BanStartsAfresh' /\ UNCHANGED <<days, resetDue>>
    BY <2>1 DEF Try, CaptureInv, TypeOK, TablesOK, BanStartsAfresh
  <2> HIDE DEF x
  <2> QED
    BY <1>1, <2>1, <2>2, <2>3, QuietStep
<1>3. CASE cooldown[Fam(r)] = None
  <2> DEFINE x == [req[r] EXCEPT !.pc = "wait"]
  <2>1. req' = [req EXCEPT ![r] = x] /\ unsettled' = [unsettled EXCEPT ![Fam(r)] = @ + 1]
    BY <1>3 DEF Try, Tried
  <2>2. RequestOK(x) /\ x.pc = "wait" /\ x.left = req[r].left
    BY <1>1 DEF ReqType, RequestOK
  <2>3. UNCHANGED <<cooldown, limFails, banCount, banned, days, resetDue>>
    BY DEF Try
  <2> HIDE DEF x
  <2>4. unsettled' \in [Fams -> Int]
    BY <1>1, <2>1 DEF CaptureInv, TypeOK
  <2>5. TablesOK' /\ BanStartsAfresh' /\ ResetAfterMidnight'
    BY <2>3, <2>4 DEF CaptureInv, TypeOK, TablesOK, BanStartsAfresh, ResetAfterMidnight
  <2>6. TypeOK'
    BY <2>1, <2>2, <2>5, TypeKept DEF CaptureInv
  <2>7. ASSUME NEW f \in Fams
        PROVE  /\ days' = 0 => unsettled'[f] = Cardinality(InFlight(f)')
               /\ unsettled'[f] <= Cardinality(InFlight(f)')
    <3>1. /\ days = 0 => unsettled[f] = Cardinality(InFlight(f))
          /\ unsettled[f] <= Cardinality(InFlight(f)) /\ unsettled[f] \in Int
      BY DEF CaptureInv, CountersAddUp, TypeOK
    <3>2. InFlight(f) \in SUBSET Reqs /\ r \notin InFlight(f)
      BY <1>1 DEF InFlight
    <3>3. InFlight(f)' = (InFlight(f) \ {r}) \union
                           (IF x.pc = "wait" /\ Head(x.left) = f THEN {r} ELSE {})
      BY <2>1, <2>2, OneRequest DEF CaptureInv
    <3>4. CASE f = Fam(r)
      <4>1. InFlight(f)' = InFlight(f) \union {r}
        BY <2>2, <3>2, <3>3, <3>4 DEF Fam
      <4>2. unsettled'[f] = unsettled[f] + 1
        BY <2>1, <3>4 DEF CaptureInv, TypeOK
      <4>3. Cardinality(InFlight(f)') = Cardinality(InFlight(f)) + 1
            /\ Cardinality(InFlight(f)) \in Nat
        BY <3>2, <4>1, OneMoreOrLess
      <4> QED
        BY <2>3, <3>1, <4>2, <4>3
    <3>5. CASE f # Fam(r)
      <4>1. InFlight(f)' = InFlight(f)
        BY <2>2, <3>2, <3>3, <3>5 DEF Fam
      <4>2. unsettled'[f] = unsettled[f]
        BY <2>1, <3>5 DEF CaptureInv, TypeOK
      <4> QED
        BY <2>3, <3>1, <4>1, <4>2
    <3> QED
      BY <3>4, <3>5
  <2>8. CountersAddUp'
    BY <2>7 DEF CountersAddUp
  <2> QED
    BY <2>5, <2>6, <2>8 DEF CaptureInv
<1> QED
  BY <1>2, <1>3

\* No response: the second try is not counted, the failure is.
LEMMA NoResponseOK ==
  ASSUME CaptureInv, NEW r \in Reqs, NEW h \in BOOLEAN, NoResponse(r, h)
  PROVE  CaptureInv'
<1>1. req[r].pc = "wait" /\ req[r].left # <<>> /\ req[r] \in ReqType
  BY DEF NoResponse, At, CaptureInv, TypeOK
<1>2. CASE h /\ ~req[r].h1
  <2> DEFINE x == [req[r] EXCEPT !.h1 = TRUE]
  <2>1. req' = [req EXCEPT ![r] = x] /\ UNCHANGED unsettled
    BY <1>2 DEF NoResponse
  <2>2. RequestOK(x) /\ x.pc = "wait" /\ x.left = req[r].left
    BY <1>1 DEF ReqType, RequestOK
  <2>3. TablesOK' /\ BanStartsAfresh' /\ UNCHANGED <<days, resetDue>>
    BY <2>1 DEF NoResponse, CaptureInv, TypeOK, TablesOK, BanStartsAfresh
  <2> HIDE DEF x
  <2>4. CountersAddUp'
    BY <1>1, <2>1, <2>2, <2>3, CountsStay DEF CaptureInv
  <2> QED
    BY <2>1, <2>2, <2>3, <2>4, TypeKept DEF CaptureInv, ResetAfterMidnight
<1>3. CASE ~(h /\ ~req[r].h1)
  <2> DEFINE x == [req[r] EXCEPT !.pc = "try", !.left = Tail(req[r].left), !.h1 = FALSE,
                                 !.last = req[r].last]
  <2>1. /\ req' = [req EXCEPT ![r] = x] /\ Settled(Fam(r))
        /\ UNCHANGED <<cooldown, limFails, banCount, banned, resetDue, days>>
    BY SMTT(40), <1>3 DEF NoResponse, NextFam
  <2>2. RequestOK(x) /\ x.pc # "wait"
    BY <1>1, NextFamOK DEF CaptureInv, ReqType, None, ToMidnight
  <2>3. limFails' \in [Fams -> None..ToMidnight] /\ At(r, "wait")
    BY <2>1, <1>1 DEF CaptureInv, TypeOK, At
  <2> HIDE DEF x
  <2> QED
    BY <2>1, <2>2, <2>3, OutcomeStep
<1> QED
  BY <1>2, <1>3

\* An error of the upstream.
LEMMA ErrorResponseOK ==
  ASSUME CaptureInv, NEW r \in Reqs, NEW s \in {"4xx", "5xx"}, ErrorResponse(r, s)
  PROVE  CaptureInv'
<1>1. req[r].pc = "wait" /\ req[r].left # <<>> /\ req[r] \in ReqType
  BY DEF ErrorResponse, At, CaptureInv, TypeOK
<1>2. /\ limFails' \in [Fams -> None..ToMidnight] /\ At(r, "wait") /\ Settled(Fam(r))
      /\ UNCHANGED <<cooldown, limFails, banCount, banned, resetDue, days>>
  BY DEF ErrorResponse, CaptureInv, TypeOK
<1>3. CASE s = "4xx"
  <2> DEFINE x == [req[r] EXCEPT !.pc = "try", !.left = <<>>, !.last = s]
  <2>1. req' = [req EXCEPT ![r] = x]
    BY <1>3 DEF ErrorResponse, StopLoop
  <2>2. RequestOK(x) /\ x.pc # "wait"
    BY ZenonT(60), <1>1 DEF ReqType, RequestOK, Lefts, Statuses
  <2> HIDE DEF x
  <2> QED
    BY <1>2, <2>1, <2>2, OutcomeStep
<1>4. CASE s # "4xx"
  <2> DEFINE x == [req[r] EXCEPT !.pc = "try", !.left = Tail(req[r].left), !.h1 = FALSE, !.last = s]
  <2>1. req' = [req EXCEPT ![r] = x]
    BY <1>4 DEF ErrorResponse, NextFam
  <2>2. RequestOK(x) /\ x.pc # "wait"
    BY <1>1, NextFamOK DEF CaptureInv, ReqType, Statuses, None, ToMidnight
  <2> HIDE DEF x
  <2> QED
    BY <1>2, <2>1, <2>2, OutcomeStep
<1> QED
  BY <1>3, <1>4

\* A limit error, up to the moment when the cool-down is set (onLimitErr).
LEMMA LimitErrorOK ==
  ASSUME CaptureInv, NEW r \in Reqs, LimitError(r)
  PROVE  CaptureInv'
<1>1. /\ req[r].pc = "wait" /\ req[r].left # <<>> /\ req[r] \in ReqType /\ Fam(r) \in Fams
      /\ limFails[Fam(r)] \in None..ToMidnight
  BY LeftToTry DEF LimitError, At, CaptureInv, TypeOK, ReqType, Fam
<1> DEFINE n == IF limFails[Fam(r)] < ToMidnight THEN limFails[Fam(r)] + 1 ELSE ToMidnight
           x == [req[r] EXCEPT !.pc = "cool", !.wait = n]
<1>2. n \in None..ToMidnight
  BY <1>1 DEF None, ToMidnight
<1>3. /\ limFails' = [limFails EXCEPT ![Fam(r)] = n] /\ Settled(Fam(r)) /\ At(r, "wait")
      /\ req' = [req EXCEPT ![r].pc = "cool", ![r].wait = n]
      /\ UNCHANGED <<cooldown, banCount, banned, resetDue, days>>
  BY DEF LimitError
<1> HIDE DEF n
<1>4. RequestOK(x) /\ x.pc # "wait"
  BY <1>1, <1>2 DEF ReqType, RequestOK
<1>5. req' = [req EXCEPT ![r] = x]
  BY <1>3 DEF CaptureInv, TypeOK
<1>6. limFails' \in [Fams -> None..ToMidnight]
  BY <1>1, <1>2, <1>3 DEF CaptureInv, TypeOK
<1> HIDE DEF x
<1> QED
  BY <1>3, <1>4, <1>5, <1>6, OutcomeStep

\* The cool-down is set.
LEMMA SetCooldownOK ==
  ASSUME CaptureInv, NEW r \in Reqs, SetCooldown(r)
  PROVE  CaptureInv'
<1>1. /\ req[r].pc = "cool" /\ req[r].left # <<>> /\ req[r] \in ReqType /\ Fam(r) \in Fams
      /\ req[r].wait \in None..ToMidnight
  BY LeftToTry DEF SetCooldown, At, CaptureInv, TypeOK, ReqType, Fam
<1> DEFINE x == [req[r] EXCEPT !.pc = "try", !.left = Tail(req[r].left), !.h1 = FALSE, !.wait = None]
<1>2. req' = [req EXCEPT ![r] = x] /\ cooldown' = [cooldown EXCEPT ![Fam(r)] = req[r].wait]
  BY DEF SetCooldown
<1>3. RequestOK(x) /\ x.pc # "wait"
  <2>1. "none" \in Statuses \union {"none"} /\ None \in None..ToMidnight
    BY SMTT(40) DEF None, ToMidnight
  <2>2. RequestOK(x)
    BY <1>1, <2>1, NextFamOK DEF CaptureInv
  <2> QED
    BY <1>1, <2>2 DEF ReqType
<1>4. cooldown' \in [Fams -> None..ToMidnight]
  BY <1>1, <1>2 DEF CaptureInv, TypeOK
<1>5. TablesOK' /\ BanStartsAfresh' /\ UNCHANGED <<unsettled, days, resetDue>>
  BY <1>4 DEF SetCooldown, CaptureInv, TypeOK, TablesOK, BanStartsAfresh
<1> HIDE DEF x
<1> QED
  BY <1>1, <1>2, <1>3, <1>5, QuietStep

\* A 200.
LEMMA AcceptedOK ==
  ASSUME CaptureInv, NEW r \in Reqs, Accepted(r)
  PROVE  CaptureInv'
<1>1. req[r].pc = "wait" /\ req[r].left # <<>> /\ req[r] \in ReqType
  BY DEF Accepted, At, CaptureInv, TypeOK
<1>2. /\ limFails' \in [Fams -> None..ToMidnight] /\ At(r, "wait") /\ Settled(Fam(r))
      /\ UNCHANGED <<cooldown, limFails, banCount, banned, resetDue, days>>
  BY DEF Accepted, CaptureInv, TypeOK
<1> DEFINE x == [req[r] EXCEPT !.pc = "relay"]
<1>3. req' = [req EXCEPT ![r] = x]
  BY DEF Accepted
<1>4. RequestOK(x) /\ x.pc # "wait"
  BY <1>1 DEF ReqType, RequestOK
<1> HIDE DEF x
<1> QED
  BY <1>2, <1>3, <1>4, OutcomeStep

\* The body of a 200.
LEMMA RelayOK ==
  ASSUME CaptureInv, NEW r \in Reqs, NEW c \in BOOLEAN, Relay(r, c)
  PROVE  CaptureInv'
<1>1. req[r].pc = "relay" /\ req[r].left # <<>> /\ req[r] \in ReqType /\ Fam(r) \in Fams
  BY LeftToTry DEF Relay, At, CaptureInv, TypeOK, ReqType, Fam
<1>2. UNCHANGED <<cooldown, unsettled, banCount, banned, resetDue, days>>
  BY DEF Relay
<1>3. CASE c
  <2>1. /\ limFails' = [limFails EXCEPT ![Fam(r)] = 0]
        /\ req' = [req EXCEPT ![r] = [Idle EXCEPT !.pc = "done", !.ans = "200"]]
    BY <1>3 DEF Relay, Answer
  <2>2. limFails' \in [Fams -> None..ToMidnight]
    BY <1>1, <2>1 DEF CaptureInv, TypeOK, None, ToMidnight
  <2>3. TablesOK' /\ BanStartsAfresh'
    BY <1>2, <2>2 DEF CaptureInv, TypeOK, TablesOK, BanStartsAfresh
  <2> QED
    BY <1>1, <1>2, <2>1, <2>3, AnswerOK, QuietStep DEF Idle
<1>4. CASE ~c
  <2> DEFINE x == [req[r] EXCEPT !.pc = "try", !.left = Tail(req[r].left), !.h1 = FALSE,
                                 !.last = req[r].last]
  <2>1. req' = [req EXCEPT ![r] = x] /\ UNCHANGED limFails
    BY <1>4 DEF Relay, NextFam
  <2>2. RequestOK(x) /\ x.pc # "wait"
    BY <1>1, NextFamOK DEF CaptureInv, ReqType, None, ToMidnight
  <2>3. TablesOK' /\ BanStartsAfresh'
    BY <1>2, <2>1 DEF CaptureInv, TypeOK, TablesOK, BanStartsAfresh
  <2> HIDE DEF x
  <2> QED
    BY <1>1, <1>2, <2>1, <2>2, <2>3, QuietStep
<1> QED
  BY <1>3, <1>4

\* After the last family.
LEMMA FinishOK ==
  ASSUME CaptureInv, NEW r \in Reqs, Finish(r)
  PROVE  CaptureInv'
<1>1. req[r].pc = "try" /\ req[r] \in ReqType
  BY DEF Finish, At, CaptureInv, TypeOK
<1> DEFINE a == IF req[r].last # "none" THEN req[r].last ELSE "429"
<1>2. a \in {"none", "200", "400", "413", "429", "banned"} \union Statuses
  BY <1>1 DEF ReqType
<1>3. req' = [req EXCEPT ![r] = [Idle EXCEPT !.pc = "done", !.ans = a]]
  BY DEF Finish, Answer
<1>4. TablesOK' /\ BanStartsAfresh' /\ UNCHANGED <<unsettled, days, resetDue>>
  BY DEF Finish, CaptureInv, TypeOK, TablesOK, BanStartsAfresh
<1> HIDE DEF a
<1> QED
  BY <1>1, <1>2, <1>3, <1>4, AnswerOK, QuietStep DEF Idle

\* A step of the clock that touches no request and no counter.
LEMMA ClockStep ==
  ASSUME CaptureInv, UNCHANGED <<req, unsettled, days, resetDue>>, TablesOK', BanStartsAfresh'
  PROVE  CaptureInv'
<1>1. \A f \in Fams : InFlight(f)' = InFlight(f)
  BY DEF InFlight, Fam
<1>2. CountersAddUp'
  BY <1>1 DEF CaptureInv, CountersAddUp
<1>3. TypeOK'
  BY DEF CaptureInv, TypeOK, TablesOK
<1> QED
  BY <1>2, <1>3 DEF CaptureInv, ResetAfterMidnight

\* Cool-downs, windows and bans run out.
LEMMA ExpiryOK ==
  ASSUME CaptureInv,
         \/ \E f \in Fams : CooldownEnds(f)
         \/ \E c \in Clients : WindowEnds(c) \/ BanEnds(c) \/ cleanup(c)
  PROVE  CaptureInv'
<1>1. CASE \E f \in Fams : CooldownEnds(f)
  <2>1. None \in None..ToMidnight
    BY DEF None, ToMidnight
  <2> QED
    BY <1>1, <2>1, ClockStep
       DEF CooldownEnds, CaptureInv, TypeOK, TablesOK, BanStartsAfresh
<1>2. ASSUME NEW c \in Clients, WindowEnds(c) PROVE CaptureInv'
  <2>1. 0 \in 0..BanMax
    BY CaptureAssumption
  <2> QED
    BY <1>2, <2>1, ClockStep DEF WindowEnds, CaptureInv, TypeOK, TablesOK, BanStartsAfresh
<1>3. ASSUME NEW c \in Clients, BanEnds(c) PROVE CaptureInv'
  BY <1>3, ClockStep DEF BanEnds, CaptureInv, TypeOK, TablesOK, BanStartsAfresh
<1>4. ASSUME NEW c \in Clients, cleanup(c) PROVE CaptureInv'
  BY <1>4, ClockStep DEF cleanup, CaptureInv, TypeOK, TablesOK, BanStartsAfresh
<1> QED
  BY <1>1, <1>2, <1>3, <1>4

\* Midnight.
LEMMA MidnightOK ==
  ASSUME CaptureInv, Midnight
  PROVE  CaptureInv'
<1>1. None \in None..ToMidnight
  BY DEF None, ToMidnight
<1>2. ASSUME NEW q \in Reqs
      PROVE  /\ RequestOK(req'[q])
             /\ req'[q].pc = req[q].pc /\ req'[q].left = req[q].left
  <2>1. RequestOK(req[q]) /\ req[q] \in ReqType
    BY TypeSplits DEF CaptureInv, RequestOK
  <2>2. req'[q] = req[q] \/ req'[q] = [req[q] EXCEPT !.wait = None]
    BY DEF Midnight
  <2> QED
    BY <1>1, <2>1, <2>2 DEF RequestOK, ReqType
<1>3. req' \in [Reqs -> ReqType]
  BY <1>2 DEF Midnight, RequestOK
<1>4. cooldown' \in [Fams -> None..ToMidnight]
  BY <1>1 DEF Midnight, CaptureInv, TypeOK
<1>5. days' \in 0..MaxDays /\ days' > 0
  BY CaptureAssumption DEF Midnight, CaptureInv, TypeOK
<1>6. UNCHANGED <<limFails, unsettled, banCount, banned>> /\ resetDue' \in BOOLEAN
  BY DEF Midnight
<1>7. TypeOK'
  BY <1>2, <1>3, <1>4, <1>5, <1>6 DEF CaptureInv, TypeOK, RequestOK
<1>8. \A f \in Fams : InFlight(f)' = InFlight(f)
  BY <1>2 DEF InFlight, Fam
<1>9. CountersAddUp'
  BY <1>5, <1>6, <1>8 DEF CaptureInv, CountersAddUp
<1> QED
  BY <1>5, <1>6, <1>7, <1>9 DEF CaptureInv, BanStartsAfresh, ResetAfterMidnight

\* The daily reset, after the first midnight.
LEMMA ResetOK ==
  ASSUME CaptureInv, resetDaily
  PROVE  CaptureInv'
<1>1. UNCHANGED <<cooldown, limFails, banCount, banned, req, days>> /\ days > 0
      /\ resetDue' = FALSE /\ unsettled' = [f \in Fams |-> 0]
  BY DEF resetDaily, CaptureInv, ResetAfterMidnight
<1>2. TypeOK'
  <2>1. unsettled' \in [Fams -> Int]
    BY <1>1
  <2>2. resetDue' \in BOOLEAN
    BY <1>1
  <2> QED
    BY <1>1, <2>1, <2>2 DEF CaptureInv, TypeOK
<1>3. ASSUME NEW f \in Fams PROVE 0 <= Cardinality(InFlight(f)')
  <2>1. InFlight(f)' \in SUBSET Reqs
    BY DEF InFlight
  <2> QED
    BY <2>1, CaptureAssumption, FS_Subset, FS_CardinalityType
<1>4. CountersAddUp'
  BY <1>1, <1>3 DEF CountersAddUp
<1> QED
  BY <1>1, <1>2, <1>4 DEF CaptureInv, BanStartsAfresh, ResetAfterMidnight

\* Every step keeps the invariant.
LEMMA StepOK == CaptureInv /\ [Next]_cvars => CaptureInv'
<1> SUFFICES ASSUME CaptureInv, [Next]_cvars PROVE CaptureInv'
  OBVIOUS
<1>1. ASSUME NEW r \in Reqs, Handler(r) PROVE CaptureInv'
  BY <1>1, GateOK, IncrOK, ReadBodyOK, TryOK, SetCooldownOK, FinishOK DEF Handler
<1>2. ASSUME NEW r \in Reqs, FromUpstream(r) PROVE CaptureInv'
  BY <1>2, NoResponseOK, ErrorResponseOK, LimitErrorOK, AcceptedOK, RelayOK DEF FromUpstream
<1>3. ASSUME NEW r \in Reqs, NEW c \in Clients, NEW b \in Bodies, NEW o \in Overs,
             Arrive(r, c, b, o)
      PROVE  CaptureInv'
  BY <1>3, ArriveOK
<1>4. CASE Clock
  BY <1>4, ExpiryOK, MidnightOK, ResetOK DEF Clock
<1>5. CASE UNCHANGED cvars
  <2>1. UNCHANGED <<req, unsettled, days, resetDue>> /\ TablesOK' /\ BanStartsAfresh'
    BY <1>5 DEF cvars, CaptureInv, TypeOK, TablesOK, BanStartsAfresh
  <2> QED
    BY <2>1, ClockStep
<1> QED
  BY <1>1, <1>2, <1>3, <1>4, <1>5 DEF Next, Own

\* Every run keeps the invariant.
LEMMA InvariantHolds == Spec => []CaptureInv
<1> QED
  BY InitOK, StepOK, PTL DEF Spec

\* For any requests, clients and limits: what the handlers keep has its type,
\* a request that is on its way is on a family, and one past the gate has a
\* client.
THEOREM CaptureTypeCorrect == Spec => []TypeOK
<1>1. CaptureInv => TypeOK
  BY DEF CaptureInv
<1> QED
  BY <1>1, InvariantHolds, PTL

\* The counters of /status add up for any number of requests at once
\* (famStat.add and its callers, local.go:542-568).
THEOREM CountersAlwaysAddUp == Spec => []CountersAddUp
<1>1. CaptureInv => CountersAddUp
  BY DEF CaptureInv
<1> QED
  BY <1>1, InvariantHolds, PTL

\* A ban leaves no count behind, for any limit (banList.incr, local.go:1470).
THEOREM BansAlwaysStartAfresh == Spec => []BanStartsAfresh
<1>1. CaptureInv => BanStartsAfresh
  BY DEF CaptureInv
<1> QED
  BY <1>1, InvariantHolds, PTL

-----------------------------------------------------------------------------
(* The error the upstream answered.                                        *)

\* What the loop keeps of a request's errors is there only inside the loop.
InLoop(q) == q.last # "none" => q.pc \in {"try", "wait", "cool", "relay"}
ErrorsInLoop == \A r \in Reqs : InLoop(req[r])

\* What one step may do to the error a request has met.
PassedOn(q, p) ==
  q.last # "none" =>
    \/ p.last = q.last
    \/ p.pc = "done" /\ p.ans \in {q.last, "200"}
    \/ p.last \in Statuses /\ q.pc = "wait"

\* A step of one request that does what it may do.
LEMMA ErrorStep ==
  ASSUME TypeOK, ErrorsInLoop, NEW r \in Reqs, NEW x, req' = [req EXCEPT ![r] = x],
         InLoop(x), PassedOn(req[r], x)
  PROVE  ErrorsInLoop' /\ \A q \in Reqs : PassedOn(req[q], req'[q])
<1>1. req'[r] = x /\ \A q \in Reqs \ {r} : req'[q] = req[q]
  BY DEF TypeOK
<1>2. \A q \in Reqs : PassedOn(req[q], req'[q])
  BY <1>1 DEF PassedOn
<1>3. \A q \in Reqs : InLoop(req'[q])
  BY <1>1 DEF ErrorsInLoop
<1> QED
  BY <1>2, <1>3 DEF ErrorsInLoop, InLoop

\* A request that has met no error and is answered.
LEMMA AnswerPasses ==
  ASSUME NEW q, q.last = "none", NEW a
  PROVE  LET x == [Idle EXCEPT !.pc = "done", !.ans = a] IN InLoop(x) /\ PassedOn(q, x)
  BY DEF InLoop, PassedOn, Idle

\* A request goes on with the next family, its last error kept or replaced.
LEMMA NextFamPasses ==
  ASSUME NEW q \in ReqType, NEW last, NEW rest,
         last = q.last \/ (last \in Statuses /\ q.pc = "wait")
  PROVE  LET x == [q EXCEPT !.pc = "try", !.left = rest, !.h1 = FALSE, !.last = last]
         IN  InLoop(x) /\ PassedOn(q, x)
  BY DEF InLoop, PassedOn, ReqType

\* The steps before the loop.
LEMMA BeforePasses ==
  ASSUME TypeOK, ErrorsInLoop, NEW r \in Reqs,
         \/ \E c \in Clients, b \in Bodies, o \in Overs : Arrive(r, c, b, o)
         \/ Gate(r) \/ Incr(r) \/ ReadBody(r)
  PROVE  ErrorsInLoop' /\ \A q \in Reqs : PassedOn(req[q], req'[q])
<1>1. req[r] \in ReqType /\ req[r].pc \in {"idle", "gate", "count", "body"}
  BY DEF TypeOK, Arrive, Gate, Incr, ReadBody, At
<1>2. req[r].last = "none"
  BY <1>1 DEF ErrorsInLoop, InLoop
<1>3. PICK x : /\ req' = [req EXCEPT ![r] = x]
               /\ \/ x.last = "none"
                  \/ \E a : x = [Idle EXCEPT !.pc = "done", !.ans = a]
  <2>1. ASSUME NEW a, Answer(r, a)
        PROVE  \E x : /\ req' = [req EXCEPT ![r] = x]
                      /\ x = [Idle EXCEPT !.pc = "done", !.ans = a]
    BY <2>1 DEF Answer
  <2>2. ASSUME NEW c \in Clients, NEW b \in Bodies, NEW o \in Overs, Arrive(r, c, b, o)
        PROVE  \/ Answer(r, "400")
               \/ \E x : req' = [req EXCEPT ![r] = x] /\ x.last = "none"
    <3> DEFINE x == [req[r] EXCEPT !.pc = IF BanOn THEN "gate" ELSE "body",
                                   !.from = c, !.body = b, !.over = o]
    <3>1. Answer(r, "400") \/ req' = [req EXCEPT ![r] = x]
      BY <2>2 DEF Arrive
    <3>2. x.last = "none"
      BY <1>1, <1>2 DEF ReqType
    <3> QED
      BY <3>1, <3>2
  <2>3. ASSUME Gate(r)
        PROVE  \/ Answer(r, "banned")
               \/ \E x : req' = [req EXCEPT ![r] = x] /\ x.last = "none"
    <3>1. Answer(r, "banned") \/ req' = [req EXCEPT ![r] = [req[r] EXCEPT !.pc = "count"]]
      BY <2>3 DEF Gate
    <3>2. [req[r] EXCEPT !.pc = "count"].last = "none"
      BY <1>1, <1>2 DEF ReqType
    <3> QED
      BY <3>1, <3>2
  <2>4. ASSUME Incr(r)
        PROVE  \E x : req' = [req EXCEPT ![r] = x] /\ x.last = "none"
    <3>1. req' = [req EXCEPT ![r] = [req[r] EXCEPT !.pc = "body"]]
      BY <2>4 DEF Incr
    <3>2. [req[r] EXCEPT !.pc = "body"].last = "none"
      BY <1>1, <1>2 DEF ReqType
    <3> QED
      BY <3>1, <3>2
  <2>5. ASSUME ReadBody(r)
        PROVE  \/ Answer(r, readBody(req[r].body))
               \/ \E x : req' = [req EXCEPT ![r] = x] /\ x.last = "none"
    <3>1. CASE readBody(req[r].body) = "none"
      <4>1. PICK m \in SetModes :
              req' = [req EXCEPT ![r].pc = "try", ![r].left = stacks(req[r].over, m)]
        BY <2>5, <3>1 DEF ReadBody
      <4> DEFINE x == [req[r] EXCEPT !.pc = "try", !.left = stacks(req[r].over, m)]
      <4>2. req' = [req EXCEPT ![r] = x]
        BY <4>1 DEF TypeOK
      <4>3. x.last = "none"
        BY <1>1, <1>2 DEF ReqType
      <4> QED
        BY <4>2, <4>3
    <3> QED
      BY <2>5, <3>1 DEF ReadBody
  <2> QED
    BY <2>1, <2>2, <2>3, <2>4, <2>5
<1>4. InLoop(x) /\ PassedOn(req[r], x)
  <2>1. CASE x.last = "none"
    BY <1>2, <2>1 DEF InLoop, PassedOn
  <2>2. ASSUME NEW a, x = [Idle EXCEPT !.pc = "done", !.ans = a]
        PROVE  InLoop(x) /\ PassedOn(req[r], x)
    BY <1>2, <2>2, AnswerPasses
  <2> QED
    BY <1>3, <2>1, <2>2
<1> QED
  BY <1>3, <1>4, ErrorStep

\* The steps of the loop.
LEMMA LoopPasses ==
  ASSUME TypeOK, ErrorsInLoop, NEW r \in Reqs, Try(r) \/ SetCooldown(r) \/ FromUpstream(r)
  PROVE  ErrorsInLoop' /\ \A q \in Reqs : PassedOn(req[q], req'[q])
<1> DEFINE Goal == ErrorsInLoop' /\ \A q \in Reqs : PassedOn(req[q], req'[q])
<1>1. req[r] \in ReqType
  BY DEF TypeOK
<1>2. ASSUME NEW last, last = req[r].last \/ (last \in Statuses /\ req[r].pc = "wait"),
             NextFam(r, last)
      PROVE  Goal
  BY ZenonT(60), <1>1, <1>2, NextFamPasses, ErrorStep DEF NextFam
<1>2a. ASSUME NextFam(r, req[r].last) PROVE Goal
  <2> DEFINE x == [req[r] EXCEPT !.pc = "try", !.left = Tail(req[r].left), !.h1 = FALSE,
                                 !.last = req[r].last]
  <2>1. req' = [req EXCEPT ![r] = x]
    BY <1>2a DEF NextFam
  <2>2. InLoop(x) /\ PassedOn(req[r], x)
    BY <1>1 DEF InLoop, PassedOn, ReqType
  <2> HIDE DEF x
  <2> QED
    BY <2>1, <2>2, ErrorStep
<1>3. CASE Try(r)
  <2>1. CASE NextFam(r, req[r].last)
    BY <1>2a, <2>1
  <2>2. CASE req' = [req EXCEPT ![r].pc = "wait"]
    <3> DEFINE x == [req[r] EXCEPT !.pc = "wait"]
    <3>1. InLoop(x) /\ PassedOn(req[r], x) /\ req' = [req EXCEPT ![r] = x]
      BY <1>1, <2>2 DEF InLoop, PassedOn, ReqType
    <3> QED
      BY <3>1, ErrorStep
  <2> QED
    BY <1>3, <2>1, <2>2 DEF Try
<1>4. CASE SetCooldown(r)
  <2> DEFINE x == [req[r] EXCEPT !.pc = "try", !.left = Tail(req[r].left), !.h1 = FALSE,
                                 !.wait = None]
  <2>1. InLoop(x) /\ PassedOn(req[r], x)
    BY <1>1 DEF InLoop, PassedOn, ReqType
  <2>2. req' = [req EXCEPT ![r] = x]
    BY <1>4 DEF SetCooldown
  <2> QED
    BY <2>1, <2>2, ErrorStep
<1>5. ASSUME NEW h \in BOOLEAN, NoResponse(r, h) PROVE Goal
  <2>1. CASE req' = [req EXCEPT ![r].h1 = TRUE]
    <3> DEFINE x == [req[r] EXCEPT !.h1 = TRUE]
    <3>1. PassedOn(req[r], x) /\ req' = [req EXCEPT ![r] = x]
      BY <1>1, <2>1 DEF PassedOn, ReqType
    <3>2. InLoop(x)
      BY <1>1 DEF ErrorsInLoop, InLoop, ReqType
    <3> QED
      BY <3>1, <3>2, ErrorStep
  <2> QED
    BY <1>2a, <1>5, <2>1 DEF NoResponse
<1>6. ASSUME NEW s \in {"4xx", "5xx"}, ErrorResponse(r, s) PROVE Goal
  <2>1. req[r].pc = "wait" /\ s \in Statuses
    BY <1>6 DEF ErrorResponse, At, Statuses
  <2>2. CASE StopLoop(r, s)
    <3> DEFINE x == [req[r] EXCEPT !.pc = "try", !.left = <<>>, !.last = s]
    <3>1. InLoop(x) /\ PassedOn(req[r], x)
      BY <1>1, <2>1 DEF InLoop, PassedOn, ReqType
    <3>2. req' = [req EXCEPT ![r] = x]
      BY <2>2 DEF StopLoop
    <3> QED
      BY <3>1, <3>2, ErrorStep
  <2> QED
    BY <1>2, <1>6, <2>1, <2>2 DEF ErrorResponse
<1>7. CASE LimitError(r)
  <2>1. PICK n : req' = [req EXCEPT ![r].pc = "cool", ![r].wait = n]
    BY <1>7 DEF LimitError
  <2> DEFINE x == [req[r] EXCEPT !.pc = "cool", !.wait = n]
  <2>2. InLoop(x) /\ PassedOn(req[r], x)
    BY <1>1 DEF InLoop, PassedOn, ReqType
  <2>3. req' = [req EXCEPT ![r] = x]
    BY <2>1 DEF TypeOK
  <2> QED
    BY <2>2, <2>3, ErrorStep
<1>8. CASE Accepted(r)
  <2> DEFINE x == [req[r] EXCEPT !.pc = "relay"]
  <2>1. InLoop(x) /\ PassedOn(req[r], x)
    BY <1>1, <1>8 DEF InLoop, PassedOn, ReqType, Accepted, At, ErrorsInLoop
  <2> QED
    BY <1>8, <2>1, ErrorStep DEF Accepted
<1>9. ASSUME NEW c \in BOOLEAN, Relay(r, c) PROVE Goal
  <2>1. CASE Answer(r, "200")
    <3> DEFINE x == [Idle EXCEPT !.pc = "done", !.ans = "200"]
    <3>1. InLoop(x) /\ PassedOn(req[r], x)
      BY DEF InLoop, PassedOn, Idle
    <3> QED
      BY <2>1, <3>1, ErrorStep DEF Answer
  <2> QED
    BY <1>2a, <1>9, <2>1 DEF Relay
<1> QED
  BY <1>3, <1>4, <1>5, <1>6, <1>7, <1>8, <1>9 DEF FromUpstream

\* Only the goroutine of a request, or midnight, touches it.
LEMMA ErrorsPassStep ==
  ASSUME TypeOK, ErrorsInLoop, [Next]_cvars
  PROVE  ErrorsInLoop' /\ \A q \in Reqs : PassedOn(req[q], req'[q])
<1> DEFINE Goal == ErrorsInLoop' /\ \A q \in Reqs : PassedOn(req[q], req'[q])
<1>1. ASSUME NEW r \in Reqs, Finish(r) PROVE Goal
  <2> DEFINE a == IF req[r].last # "none" THEN req[r].last ELSE "429"
             x == [Idle EXCEPT !.pc = "done", !.ans = a]
  <2>1. InLoop(x) /\ PassedOn(req[r], x)
    BY DEF InLoop, PassedOn, Idle
  <2>2. req' = [req EXCEPT ![r] = x]
    BY <1>1 DEF Finish, Answer
  <2> QED
    BY <2>1, <2>2, ErrorStep
<1>2. ASSUME UNCHANGED req PROVE Goal
  BY <1>2 DEF ErrorsInLoop, InLoop, PassedOn
<1>3. CASE Midnight
  <2>1. \A q \in Reqs : req'[q].last = req[q].last /\ req'[q].pc = req[q].pc
    BY <1>3 DEF Midnight, TypeOK, ReqType
  <2> QED
    BY <2>1 DEF ErrorsInLoop, InLoop, PassedOn
<1>4. CASE Clock
  BY <1>2, <1>3, <1>4 DEF Clock, CooldownEnds, resetDaily, WindowEnds, BanEnds, cleanup
<1>5. ASSUME NEW r \in Reqs, Own(r) PROVE Goal
  BY <1>1, <1>5, BeforePasses, LoopPasses DEF Own, Handler
<1>6. ASSUME NEW r \in Reqs, NEW c \in Clients, NEW b \in Bodies, NEW o \in Overs,
             Arrive(r, c, b, o)
      PROVE  Goal
  BY <1>6, BeforePasses
<1>7. CASE UNCHANGED cvars
  BY <1>2, <1>7 DEF cvars
<1> QED
  BY <1>4, <1>5, <1>6, <1>7 DEF Next

\* An error of the upstream is passed on, or replaced by a later one or a
\* success, whatever the other families and requests do (local.go:1062-1069).
THEOREM ErrorsArePassedOn == Spec => RealErrorPassedOn
<1>1. CInit => ErrorsInLoop
  BY DEF CInit, ErrorsInLoop, InLoop, Idle
<1>2. TypeOK /\ ErrorsInLoop /\ [Next]_cvars => ErrorsInLoop'
  BY ErrorsPassStep
<1>3. TypeOK /\ ErrorsInLoop /\ [Next]_cvars =>
        [\A r \in Reqs : req[r].last # "none" =>
           \/ req'[r].last = req[r].last
           \/ req'[r].pc = "done" /\ req'[r].ans \in {req[r].last, "200"}
           \/ req'[r].last \in Statuses /\ req[r].pc = "wait"]_cvars
  BY ErrorsPassStep DEF PassedOn
<1> QED
  BY <1>1, <1>2, <1>3, CaptureTypeCorrect, PTL DEF Spec, RealErrorPassedOn

-----------------------------------------------------------------------------
(* multi-proxy.                                                            *)

\* What a source may answer, and what a request ends with.
Words == {"none", "200", "400", "413", "429", "4xx", "5xx", "banned", "nothing", "empty",
          "exceeded", "zero", "502", "all exceeded", "all in cooldown"}

FwdType ==
  [pc : {"idle", "loop", "call", "collect", "done"}, body : Bodies \cup {"none"},
   src : Nat \ {0}, status : Words, tried : BOOLEAN, ans : Words]

\* A request in the loop is one that capture-proxy can be sent, and no healthy
\* source is behind it; it ends served or refused for its body.
OnItsWay(q) ==
  /\ q \in FwdType
  /\ q.pc = "idle" => q.src = Local
  /\ q.pc \in {"loop", "call", "collect"} => q.body \in Bodies
  /\ q.pc \in {"call", "collect"} => q.src \in Sources
  /\ \A h \in healthy : /\ q.pc \in {"loop", "call"} => q.src <= h
                        /\ q.pc = "collect" => q.src < h
                        /\ q.pc = "done" => q.ans \in {"200", "400", "413"}

\* A healthy source is never left alone.
HealthyAsked ==
  /\ healthy \subseteq Sources \ {Local}
  /\ \A h \in healthy : ucool[h] = "none"

MultiInv ==
  /\ CaptureInv /\ HealthyAsked
  /\ fwd \in [Reqs -> FwdType] /\ \A r \in Reqs : OnItsWay(fwd[r])
  /\ ucool \in [Sources -> {"none", "short", "midnight"}]
  /\ ustatus \in [Sources -> Words]

-----------------------------------------------------------------------------

\* Every healthy source comes after the local one.
LEMMA HealthyBehind ==
  ASSUME MultiInv
  PROVE  \A h \in healthy : h \in Sources /\ h \in Nat /\ Local < h
  BY MultiAssumption DEF MultiInv, HealthyAsked, Sources, Local

\* The words of Answers.
LEMMA AnswerWords ==
  ASSUME MultiInv, NEW r \in Reqs
  PROVE  /\ Answers(r) \subseteq Words
         /\ Src(r) \in healthy => Answers(r) = {"200"}
<1>1. req[r].ans \in Words
  BY DEF MultiInv, CaptureInv, TypeOK, ReqType, Words, Statuses
<1>2. Local \notin healthy
  BY DEF MultiInv, HealthyAsked
<1>3. CASE Src(r) \in healthy
  BY <1>2, <1>3 DEF Answers, Words
<1>4. CASE Src(r) \notin healthy \union {Local}
  <2>1. Answers(r) = Elsewhere
    BY <1>2, <1>4 DEF Answers
  <2> QED
    BY <1>4, <2>1, MultiAssumption DEF Words
<1>5. CASE Src(r) = Local
  <2>1. CASE At(r, "relay")
    BY <1>2, <1>5, <2>1 DEF Answers, Words
  <2>2. CASE ~At(r, "done") /\ ~At(r, "relay")
    BY <1>2, <1>5, <2>2 DEF Answers, Words
  <2>3. CASE At(r, "done")
    <3>1. Answers(r) = {"nothing", req[r].ans} \union
                         (IF req[r].ans = "200" THEN {"empty"} ELSE {"exceeded"})
      BY <1>2, <1>5, <2>3 DEF Answers, At
    <3> QED
      BY <1>1, <1>2, <1>5, <3>1 DEF Words
  <2> QED
    BY <2>1, <2>2, <2>3
<1> QED
  BY <1>3, <1>4, <1>5

\* What a step does in multi-proxy to one request, and to the source it asks.
LEMMA ForwardStep ==
  ASSUME MultiInv, CaptureInv', NEW r \in Reqs, NEW x, OnItsWay(x),
         fwd' = [fwd EXCEPT ![r] = x], healthy' = healthy,
         \/ ucool' = ucool
         \/ Src(r) \notin healthy /\ \E v \in {"none", "short", "midnight"} :
              ucool' = [ucool EXCEPT ![Src(r)] = v],
         \/ ustatus' = ustatus
         \/ \E w \in Words : ustatus' = [ustatus EXCEPT ![Src(r)] = w]
  PROVE  MultiInv'
<1>1. HealthyAsked'
  BY DEF MultiInv, HealthyAsked
<1>2. fwd' \in [Reqs -> FwdType] /\ \A q \in Reqs : OnItsWay(fwd'[q])
  BY DEF MultiInv, OnItsWay
<1>3. \A q \in Reqs : OnItsWay(fwd[q])'
  BY <1>2 DEF OnItsWay
<1>4. /\ ucool' \in [Sources -> {"none", "short", "midnight"}]
      /\ ustatus' \in [Sources -> Words]
  BY DEF MultiInv
<1> QED
  BY <1>1, <1>2, <1>3, <1>4 DEF MultiInv

\* What capture-proxy sees of a step of multi-proxy is a step of its own: a
\* request that comes from multi-proxy's address without a stack parameter,
\* and nothing of the others.
LEMMA SeenByCapture ==
  ASSUME MultiInv, [MNext]_allvars
  PROVE  [Next]_cvars
<1>1. ASSUME NEW r \in Reqs, MTry(r) PROVE [Next]_cvars
  <2>1. CASE Arrive(r, Host, fwd[r].body, "none")
    <3>1. fwd[r].body \in Bodies
      BY <1>1 DEF MultiInv, OnItsWay, MTry, MAt
    <3> QED
      BY <2>1, <3>1, MultiAssumption DEF Next
  <2> QED
    BY <1>1, <2>1 DEF MTry
<1>2. ASSUME NEW r \in Reqs,
             \/ Collect(r) \/ MFinish(r) \/ FromSource(r) \/ \E b \in Bodies : MArrive(r, b)
      PROVE  [Next]_cvars
  BY <1>2 DEF Collect, MFinish, FromSource, SourceFails, StreamStalls, SourceServes,
              SourceErrs, MArrive
<1>3. CASE MultiMidnight
  BY <1>3 DEF MultiMidnight, Next, Clock
<1>4. CASE \E s \in Sources : ShortEnds(s)
  BY <1>4 DEF ShortEnds
<1>5. CASE \/ \E r \in Reqs : Own(r)
           \/ \E f \in Fams : CooldownEnds(f)
           \/ resetDaily
           \/ \E c \in Clients : WindowEnds(c) \/ BanEnds(c) \/ cleanup(c)
  BY <1>5 DEF Next, Clock
<1>6. CASE UNCHANGED allvars
  BY <1>6 DEF allvars
<1> QED
  BY <1>1, <1>2, <1>3, <1>4, <1>5, <1>6 DEF MNext, MHandler

\* An answer to the client.
LEMMA AnswerForwarded ==
  ASSUME NEW a \in Words, healthy # {} => a \in {"200", "400", "413"}
  PROVE  OnItsWay([MIdle EXCEPT !.pc = "done", !.ans = a])
<1>1. MIdle \in FwdType
  <2>1. Local \in Nat \ {0}
    BY DEF Local
  <2>2. {"none", "502"} \subseteq Words
    BY DEF Words
  <2> QED
    BY <2>1, <2>2 DEF MIdle, FwdType
<1> DEFINE x == [MIdle EXCEPT !.pc = "done", !.ans = a]
<1>2. x \in FwdType /\ x.pc = "done" /\ x.ans = a
  BY <1>1 DEF FwdType
<1> QED
  BY <1>2 DEF OnItsWay

LEMMA MArriveOK ==
  ASSUME MultiInv, CaptureInv', NEW r \in Reqs, NEW b \in Bodies, MArrive(r, b)
  PROVE  MultiInv'
<1>1. UNCHANGED <<healthy, ucool, ustatus>>
  BY DEF MArrive
<1>2. CASE \E a \in {"400", "413"} : MAnswer(r, a)
  <2>1. PICK a \in {"400", "413"} : MAnswer(r, a)
    BY <1>2
  <2>2. OnItsWay([MIdle EXCEPT !.pc = "done", !.ans = a])
    BY AnswerForwarded DEF Words
  <2> QED
    BY <1>1, <2>1, <2>2, ForwardStep DEF MAnswer
<1>3. CASE fwd' = [fwd EXCEPT ![r] = [@ EXCEPT !.pc = "loop", !.body = b]]
  <2> DEFINE x == [fwd[r] EXCEPT !.pc = "loop", !.body = b]
  <2>1. fwd[r] \in FwdType /\ fwd[r].pc = "idle" /\ fwd[r].src = Local
    BY DEF MultiInv, OnItsWay, MArrive, MAt
  <2>2. x \in FwdType /\ x.pc = "loop" /\ x.body = b /\ x.src = Local
    BY <2>1 DEF FwdType
  <2>3. OnItsWay(x)
    BY <2>2, HealthyBehind DEF OnItsWay, Local
  <2>4. fwd' = [fwd EXCEPT ![r] = x]
    BY <1>3
  <2> HIDE DEF x
  <2> QED
    BY <1>1, <2>3, <2>4, ForwardStep
<1> QED
  BY <1>2, <1>3 DEF MArrive

\* A source in cool-down is not healthy, so the request that passes it over
\* stays before the healthy ones.
LEMMA MTryOK ==
  ASSUME MultiInv, CaptureInv', NEW r \in Reqs, MTry(r)
  PROVE  MultiInv'
<1>1. UNCHANGED <<healthy, ucool, ustatus>>
  BY DEF MTry
<1>2. /\ fwd[r] \in FwdType /\ fwd[r].pc = "loop" /\ fwd[r].body \in Bodies
      /\ \A h \in healthy : fwd[r].src <= h
  BY DEF MultiInv, OnItsWay, MTry, MAt
<1>3. CASE ucool[Src(r)] # "none" /\ NextSource(r)
  <2> DEFINE x == [fwd[r] EXCEPT !.src = @ + 1]
  <2>1. x \in FwdType /\ x.pc = "loop" /\ x.body \in Bodies /\ x.src = fwd[r].src + 1
    BY <1>2 DEF FwdType
  <2>2. fwd[r].src \notin healthy
    BY <1>3 DEF MultiInv, HealthyAsked, Src
  <2>3. fwd[r].src \in Nat
    BY <1>2 DEF FwdType
  <2>4. \A h \in healthy : x.src <= h
    BY <1>2, <2>1, <2>2, <2>3, HealthyBehind
  <2>5. fwd' = [fwd EXCEPT ![r] = x]
    BY <1>3 DEF NextSource, MultiInv
  <2>6. OnItsWay(x)
    BY <2>1, <2>4 DEF OnItsWay
  <2> HIDE DEF x
  <2> QED
    BY <1>1, <2>5, <2>6, ForwardStep
<1>4. CASE fwd' = [fwd EXCEPT ![r].pc = "call", ![r].tried = TRUE]
  <2>0. fwd[r].src \in Sources
    BY DEF MTry, Src
  <2> DEFINE x == [fwd[r] EXCEPT !.pc = "call", !.tried = TRUE]
  <2>1. x \in FwdType /\ x.pc = "call" /\ x.body \in Bodies /\ x.src = fwd[r].src
    BY <1>2 DEF FwdType
  <2>2. OnItsWay(x)
    BY <1>2, <2>0, <2>1 DEF OnItsWay
  <2>3. fwd' = [fwd EXCEPT ![r] = x]
    BY <1>4 DEF MultiInv
  <2> HIDE DEF x
  <2> QED
    BY <1>1, <2>2, <2>3, ForwardStep
<1> QED
  BY <1>3, <1>4 DEF MTry

\* A source that does not serve the request is not healthy.
LEMMA NotServed ==
  ASSUME MultiInv, CaptureInv', NEW r \in Reqs, MAt(r, "call"), NEW a \in Answers(r),
         a # "200", MGoto(r, "collect"), healthy' = healthy,
         \E v \in {"none", "short", "midnight"} : ucool' = [ucool EXCEPT ![Src(r)] = v],
         \/ ustatus' = ustatus
         \/ ustatus' = [ustatus EXCEPT ![Src(r)] = a]
  PROVE  MultiInv'
<1>1. /\ fwd[r] \in FwdType /\ fwd[r].pc = "call" /\ fwd[r].body \in Bodies
      /\ fwd[r].src \in Sources
      /\ \A h \in healthy : fwd[r].src <= h
  BY DEF MultiInv, OnItsWay, MAt
<1>2. Src(r) \notin healthy /\ a \in Words
  BY AnswerWords
<1> DEFINE x == [fwd[r] EXCEPT !.pc = "collect"]
<1>3. x \in FwdType /\ x.pc = "collect" /\ x.body \in Bodies /\ x.src = fwd[r].src
  BY <1>1 DEF FwdType
<1>4. fwd[r].src \in Nat
  BY <1>1 DEF FwdType
<1>5. \A h \in healthy : x.src < h
  BY <1>1, <1>2, <1>3, <1>4, HealthyBehind DEF Src
<1>6. OnItsWay(x)
  BY <1>1, <1>3, <1>5 DEF OnItsWay
<1>7. fwd' = [fwd EXCEPT ![r] = x]
  BY DEF MGoto, MultiInv
<1> HIDE DEF x
<1> QED
  BY <1>2, <1>6, <1>7, ForwardStep

LEMMA FromSourceOK ==
  ASSUME MultiInv, CaptureInv', NEW r \in Reqs, FromSource(r)
  PROVE  MultiInv'
<1>1. CASE SourceFails(r)
  BY <1>1, NotServed DEF SourceFails
<1>2. CASE StreamStalls(r)
  BY <1>2, NotServed DEF StreamStalls
<1>3. ASSUME NEW a \in Answers(r), SourceErrs(r, a) PROVE MultiInv'
  <2>1. \E v \in {"none", "short", "midnight"} : ucool' = [ucool EXCEPT ![Src(r)] = v]
    <3>1. CASE isExceed(a)
      BY <1>3, <3>1 DEF SourceErrs
    <3>2. CASE ~isExceed(a)
      <4>1. ucool' = [ucool EXCEPT ![Src(r)] = ucool[Src(r)]]
        BY <1>3, <3>2 DEF SourceErrs, MultiInv
      <4>2. CASE Src(r) \in Sources
        BY <4>1, <4>2 DEF MultiInv
      <4>3. CASE Src(r) \notin Sources
        BY <4>1, <4>3 DEF MultiInv
      <4> QED
        BY <4>2, <4>3
    <3> QED
      BY <3>1, <3>2
  <2> QED
    BY <1>3, <2>1, NotServed DEF SourceErrs
<1>4. CASE SourceServes(r)
  <2>1. OnItsWay([MIdle EXCEPT !.pc = "done", !.ans = "200"])
    BY AnswerForwarded DEF Words
  <2> QED
    BY <1>4, <2>1, ForwardStep DEF SourceServes, MAnswer
<1> QED
  BY <1>1, <1>2, <1>3, <1>4 DEF FromSource

LEMMA CollectOK ==
  ASSUME MultiInv, CaptureInv', NEW r \in Reqs, Collect(r)
  PROVE  MultiInv'
<1>1. /\ fwd[r] \in FwdType /\ fwd[r].pc = "collect" /\ fwd[r].body \in Bodies
      /\ fwd[r].src \in Sources
      /\ \A h \in healthy : fwd[r].src < h
  BY DEF MultiInv, OnItsWay, Collect, MAt
<1> DEFINE x == [fwd[r] EXCEPT !.pc = "loop", !.src = @ + 1, !.status = ustatus[Src(r)]]
<1>2. fwd[r].src \in Nat
  BY <1>1 DEF FwdType
<1>3. Src(r) \in Sources
  BY <1>1 DEF Src
<1>4. x \in FwdType /\ x.pc = "loop" /\ x.body \in Bodies /\ x.src = fwd[r].src + 1
  <2>1. ustatus[Src(r)] \in Words /\ fwd[r].src + 1 \in Nat \ {0}
    BY <1>2, <1>3 DEF MultiInv
  <2> QED
    BY <1>1, <2>1 DEF FwdType
<1>5. \A h \in healthy : x.src <= h
  BY <1>1, <1>2, <1>4, HealthyBehind
<1>6. OnItsWay(x)
  BY <1>4, <1>5 DEF OnItsWay
<1>7. fwd' = [fwd EXCEPT ![r] = x]
  BY DEF Collect, Src
<1> HIDE DEF x
<1> QED
  BY <1>6, <1>7, ForwardStep DEF Collect

\* The loop does not end while a healthy source is there.
LEMMA MFinishOK ==
  ASSUME MultiInv, CaptureInv', NEW r \in Reqs, MFinish(r)
  PROVE  MultiInv'
<1>1. fwd[r] \in FwdType /\ fwd[r].pc = "loop" /\ \A h \in healthy : fwd[r].src <= h
  BY DEF MultiInv, OnItsWay, MFinish, MAt
<1>2. fwd[r].src \in Nat \ {0}
  BY <1>1 DEF FwdType
<1>3. healthy = {}
  <2>0. fwd[r].src \notin 1..NSources
    BY DEF MFinish, Src, Sources
  <2>1. fwd[r].src > NSources
    BY <1>2, <2>0, MultiAssumption
  <2>2. \A h \in healthy : h <= NSources /\ fwd[r].src <= h /\ h \in Nat
    BY <1>1, HealthyBehind, MultiAssumption DEF Sources
  <2> QED
    BY <1>2, <2>1, <2>2, MultiAssumption
<1>4. PICK a \in Words : MAnswer(r, a)
  BY <1>1 DEF MFinish, FwdType, Words
<1>5. OnItsWay([MIdle EXCEPT !.pc = "done", !.ans = a])
  BY <1>3, AnswerForwarded
<1> QED
  BY <1>4, <1>5, ForwardStep DEF MFinish, MAnswer

\* The clocks of multi-proxy, and what capture-proxy does by itself.
LEMMA OthersOK ==
  ASSUME MultiInv, CaptureInv', UNCHANGED <<healthy, ustatus, fwd>>,
         \/ ucool' = ucool
         \/ \E s \in Sources : ucool' = [ucool EXCEPT ![s] = "none"]
         \/ ucool' = [s \in Sources |-> IF ucool[s] = "midnight" THEN "none" ELSE ucool[s]]
  PROVE  MultiInv'
<1>1. ucool' \in [Sources -> {"none", "short", "midnight"}]
  BY DEF MultiInv
<1>2. HealthyAsked'
  BY DEF MultiInv, HealthyAsked
<1> QED
  BY <1>1, <1>2 DEF MultiInv, OnItsWay

LEMMA MultiInit ==
  ASSUME MInit
  PROVE  MultiInv
<1>1. CaptureInv
  BY InitOK DEF MInit
<1>2. Local \in Nat \ {0} /\ {"none", "502", "zero"} \subseteq Words
  BY DEF Local, Words
<1>3. MIdle \in FwdType /\ OnItsWay(MIdle)
  BY <1>2 DEF MIdle, FwdType, OnItsWay
<1>4. HealthyAsked
  BY DEF MInit, HealthyAsked
<1> QED
  BY <1>1, <1>2, <1>3, <1>4 DEF MInit, MultiInv

LEMMA MultiStep ==
  ASSUME MultiInv, [MNext]_allvars
  PROVE  MultiInv'
<1>1. CaptureInv'
  BY SeenByCapture, StepOK DEF MultiInv
<1>2. CASE \E r \in Reqs : MHandler(r) \/ FromSource(r) \/ \E b \in Bodies : MArrive(r, b)
  BY <1>1, <1>2, MTryOK, CollectOK, MFinishOK, FromSourceOK, MArriveOK DEF MHandler
<1>3. CASE \E s \in Sources : ShortEnds(s)
  BY <1>1, <1>3, OthersOK DEF ShortEnds
<1>4. CASE MultiMidnight
  BY <1>1, <1>4, OthersOK DEF MultiMidnight
<1>5. CASE UNCHANGED mvars
  BY <1>1, <1>5, OthersOK DEF mvars
<1>6. CASE UNCHANGED allvars
  BY <1>5, <1>6 DEF allvars
<1> QED
  BY <1>2, <1>3, <1>4, <1>5, <1>6 DEF MNext

\* While a source is healthy every well-formed request is served, for any
\* number of sources, requests and clients (multi-proxy/main.go, handleProxy).
THEOREM HealthyAlwaysServes == MSpec => []HealthyServes
<1>1. MultiInv => HealthyServes
  BY DEF MultiInv, OnItsWay, HealthyServes, MAt
<1> QED
  BY <1>1, MultiInit, MultiStep, PTL DEF MSpec

\* The capture-proxy behind multi-proxy is the one of CaptureProxy, used by
\* one client: what is proved of it holds of the two together.
THEOREM MultiRefinesCapture == MSpec => Spec
<1>1. MInit => CInit
  BY DEF MInit
<1> QED
  BY <1>1, MultiInit, MultiStep, SeenByCapture, PTL DEF MSpec, Spec

\* So its counters add up, and a ban that hits multi-proxy, the one client
\* it has, leaves no count behind.
THEOREM BehindMultiProxy == MSpec => [](CountersAddUp /\ BanStartsAfresh)
  BY MultiRefinesCapture, CountersAlwaysAddUp, BansAlwaysStartAfresh, PTL
=============================================================================
