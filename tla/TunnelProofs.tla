---------------------------- MODULE TunnelProofs ----------------------------
(***************************************************************************)
(* Bodies go through the tunnel in order and whole, for any number of      *)
(* streams, any bodies and queues of any size.  The next chunk the target  *)
(* of a stream will be given is the one after those it has read, those in  *)
(* the queue and the one the callback waits with; the frames still on      *)
(* their way carry on from there without a gap.  The same holds of the     *)
(* browser, in the other direction.                                        *)
(***************************************************************************)
EXTENDS HttpTunnel, SequenceTheorems, TLAPS

Frames == [id : Streams, typ : {"head", "body", "end"}, n : Nat]

Is(fr, s, typ) == fr.id = s /\ fr.typ = typ

\* The frames of stream s among fs: none at all, one of this type,
Free(fs, s)     == \A i \in DOMAIN fs : fs[i].id # s
Has(fs, s, typ) == \E i \in DOMAIN fs : Is(fs[i], s, typ)
\* chunks from e on, in order and without a gap,
Ordered(fs, s, e) ==
  \A j \in DOMAIN fs : Is(fs[j], s, "body") =>
    /\ fs[j].n >= e
    /\ \A i \in DOMAIN fs : i < j /\ Is(fs[i], s, "body") => fs[i].n < fs[j].n
    /\ \A m \in Nat : e <= m /\ m < fs[j].n =>
         \E i \in DOMAIN fs : Is(fs[i], s, "body") /\ fs[i].n = m
\* chunks up to t,
Below(fs, s, t) == \A i \in DOMAIN fs : Is(fs[i], s, "body") => fs[i].n <= t
\* all of the chunks from e to t,
Full(fs, s, e, t) ==
  /\ e <= t + 1
  /\ \A m \in Nat : e <= m /\ m <= t =>
       \E i \in DOMAIN fs : Is(fs[i], s, "body") /\ fs[i].n = m
\* nothing after the end, all of the chunks from e to t before it,
EndIsLast(fs, s) ==
  \A i, j \in DOMAIN fs : i < j /\ Is(fs[i], s, "end") => fs[j].id # s
Whole(fs, s, e, t) == Has(fs, s, "end") => Full(fs, s, e, t)
\* one head at most; the head before the rest.
OneHead(fs, s) ==
  \A i, j \in DOMAIN fs : Is(fs[i], s, "head") /\ Is(fs[j], s, "head") => i = j
HeadFirst(fs, s) ==
  \A j \in DOMAIN fs : fs[j].id = s =>
    \E i \in DOMAIN fs : i <= j /\ Is(fs[i], s, "head")

-----------------------------------------------------------------------------
(* What is true of the frames of a stream when the first one is taken.     *)

\* The tail of a sequence of frames.
LEMMA TailIs ==
  ASSUME NEW fs \in Seq(Frames), fs # <<>>
  PROVE  /\ Head(fs) = fs[1] /\ Head(fs) \in Frames /\ 1 \in DOMAIN fs
         /\ Tail(fs) \in Seq(Frames) /\ Len(fs) \in Nat \ {0}
         /\ DOMAIN fs = 1 .. Len(fs) /\ DOMAIN Tail(fs) = 1 .. Len(fs) - 1
         /\ \A i \in DOMAIN Tail(fs) : Tail(fs)[i] = fs[i + 1] /\ i + 1 \in DOMAIN fs
         /\ \A i \in DOMAIN fs : i # 1 => i - 1 \in DOMAIN Tail(fs) /\ Tail(fs)[i - 1] = fs[i]
<1>1. /\ Head(fs) = fs[1] /\ Head(fs) \in Frames /\ Len(fs) \in Nat \ {0}
      /\ Tail(fs) \in Seq(Frames) /\ Len(Tail(fs)) = Len(fs) - 1
      /\ \A i \in 1 .. Len(fs) - 1 : Tail(fs)[i] = fs[i + 1]
  BY HeadTailProperties, EmptySeq
<1>2. DOMAIN Tail(fs) = 1 .. Len(fs) - 1 /\ DOMAIN fs = 1 .. Len(fs)
  BY <1>1
<1> QED
  BY <1>1, <1>2

\* A frame of another stream, or a head, is taken: the chunks stay.
LEMMA TakeOther ==
  ASSUME NEW fs \in Seq(Frames), fs # <<>>, NEW s, NEW e \in Nat, NEW t \in Nat,
         ~Is(Head(fs), s, "body")
  PROVE  /\ Ordered(fs, s, e) => Ordered(Tail(fs), s, e)
         /\ Full(fs, s, e, t) => Full(Tail(fs), s, e, t)
<1> DEFINE g == Tail(fs)
<1>1. /\ Head(fs) = fs[1] /\ Len(fs) \in Nat \ {0}
      /\ DOMAIN fs = 1 .. Len(fs) /\ DOMAIN g = 1 .. Len(fs) - 1
      /\ \A i \in DOMAIN g : g[i] = fs[i + 1] /\ i + 1 \in DOMAIN fs
      /\ \A i \in DOMAIN fs : i # 1 => i - 1 \in DOMAIN g /\ g[i - 1] = fs[i]
  BY TailIs
<1> HIDE DEF g
<1>2. \A m \in Nat : (\E i \in DOMAIN fs : Is(fs[i], s, "body") /\ fs[i].n = m)
                       => \E i \in DOMAIN g : Is(g[i], s, "body") /\ g[i].n = m
  BY <1>1
<1>3. ASSUME Ordered(fs, s, e), NEW j \in DOMAIN g, Is(g[j], s, "body")
      PROVE  /\ g[j].n >= e
             /\ \A i \in DOMAIN g : i < j /\ Is(g[i], s, "body") => g[i].n < g[j].n
             /\ \A m \in Nat : e <= m /\ m < g[j].n =>
                  \E i \in DOMAIN g : Is(g[i], s, "body") /\ g[i].n = m
  <2>1. j + 1 \in DOMAIN fs /\ g[j] = fs[j + 1]
    BY <1>1
  <2>2. g[j].n >= e
    BY <1>3, <2>1 DEF Ordered
  <2>3. \A i \in DOMAIN g : i < j /\ Is(g[i], s, "body") => g[i].n < g[j].n
    BY <1>1, <1>3, <2>1 DEF Ordered
  <2>4. \A m \in Nat : e <= m /\ m < g[j].n =>
          \E i \in DOMAIN fs : Is(fs[i], s, "body") /\ fs[i].n = m
    BY <1>3, <2>1 DEF Ordered
  <2> QED
    BY <1>2, <2>2, <2>3, <2>4
<1>4. Ordered(fs, s, e) => Ordered(g, s, e)
  BY <1>3 DEF Ordered
<1>5. Full(fs, s, e, t) => Full(g, s, e, t)
  BY <1>2 DEF Full
<1> QED
  BY <1>4, <1>5 DEF g

\* A chunk is taken: it is the next one.
LEMMA TakeBody ==
  ASSUME NEW fs \in Seq(Frames), fs # <<>>, NEW s, NEW e \in Nat, NEW t \in Nat,
         Is(Head(fs), s, "body"), Ordered(fs, s, e)
  PROVE  /\ Head(fs).n = e
         /\ Ordered(Tail(fs), s, e + 1)
         /\ Below(fs, s, t) /\ Full(fs, s, e, t) => Full(Tail(fs), s, e + 1, t)
<1> DEFINE g == Tail(fs)
<1>1. /\ Head(fs) = fs[1] /\ Len(fs) \in Nat \ {0} /\ 1 \in DOMAIN fs /\ fs[1] \in Frames
      /\ DOMAIN fs = 1 .. Len(fs) /\ DOMAIN g = 1 .. Len(fs) - 1 /\ g \in Seq(Frames)
      /\ \A i \in DOMAIN g : g[i] = fs[i + 1] /\ i + 1 \in DOMAIN fs
      /\ \A i \in DOMAIN fs : i # 1 => i - 1 \in DOMAIN g /\ g[i - 1] = fs[i]
  BY TailIs
<1> HIDE DEF g
<1>2. \A i \in DOMAIN fs : fs[i].n \in Nat
  <2> SUFFICES ASSUME NEW i \in DOMAIN fs PROVE fs[i].n \in Nat
    OBVIOUS
  <2>1. fs[i] \in Frames
    BY <1>1, ElementOfSeq
  <2> QED
    BY <2>1 DEF Frames
<1>3. fs[1].n = e
  <2>1. fs[1].n >= e /\ fs[1].n \in Nat
    BY <1>1, <1>2, Zenon DEF Ordered
  <2>2. ASSUME fs[1].n # e PROVE FALSE
    <3>0. e <= e /\ e < fs[1].n /\ Is(fs[1], s, "body")
      BY <1>1, <2>1, <2>2
    <3>1. PICK i \in DOMAIN fs : Is(fs[i], s, "body") /\ fs[i].n = e
      BY <1>1, <3>0 DEF Ordered
    <3>2. i # 1 /\ 1 < i
      BY <1>1, <2>2, <3>1
    <3>3. fs[1].n < fs[i].n
      BY SMTT(40), <1>1, <3>1, <3>2 DEF Ordered
    <3> QED
      BY <2>1, <3>1, <3>3
  <2> QED
    BY <2>2
<1>4. \A i \in DOMAIN fs : Is(fs[i], s, "body") /\ i # 1 => fs[i].n > e
  <2> SUFFICES ASSUME NEW i \in DOMAIN fs, Is(fs[i], s, "body"), i # 1 PROVE fs[i].n > e
    OBVIOUS
  <2>1. 1 < i /\ Is(fs[1], s, "body") /\ fs[i].n \in Nat
    BY <1>1, <1>2
  <2>2. fs[1].n < fs[i].n
    BY <1>1, <2>1 DEF Ordered
  <2> QED
    BY <1>3, <2>1, <2>2
<1>5. \A m \in Nat : m > e /\ (\E i \in DOMAIN fs : Is(fs[i], s, "body") /\ fs[i].n = m)
                       => \E i \in DOMAIN g : Is(g[i], s, "body") /\ g[i].n = m
  BY <1>1, <1>3
<1>6. ASSUME NEW j \in DOMAIN g, Is(g[j], s, "body")
      PROVE  /\ g[j].n >= e + 1
             /\ \A i \in DOMAIN g : i < j /\ Is(g[i], s, "body") => g[i].n < g[j].n
             /\ \A m \in Nat : e + 1 <= m /\ m < g[j].n =>
                  \E i \in DOMAIN g : Is(g[i], s, "body") /\ g[i].n = m
  <2>1. j + 1 \in DOMAIN fs /\ g[j] = fs[j + 1] /\ j + 1 # 1 /\ g[j].n \in Nat
    BY <1>1, <1>2
  <2>2. g[j].n >= e + 1
    BY <1>4, <1>6, <2>1
  <2>3. \A i \in DOMAIN g : i < j /\ Is(g[i], s, "body") => g[i].n < g[j].n
    BY SMTT(40), <1>1, <1>6, <2>1 DEF Ordered
  <2>4. \A m \in Nat : e + 1 <= m /\ m < g[j].n =>
          \E i \in DOMAIN fs : Is(fs[i], s, "body") /\ fs[i].n = m
    BY <1>6, <2>1 DEF Ordered
  <2> QED
    BY <1>5, <2>2, <2>3, <2>4
<1>7. Ordered(g, s, e + 1)
  BY <1>6 DEF Ordered
<1>8. ASSUME Below(fs, s, t), Full(fs, s, e, t) PROVE Full(g, s, e + 1, t)
  <2>1. e <= t
    BY <1>1, <1>3, <1>8 DEF Below
  <2>2. \A m \in Nat : e + 1 <= m /\ m <= t =>
          \E i \in DOMAIN g : Is(g[i], s, "body") /\ g[i].n = m
    BY <1>5, <1>8 DEF Full
  <2> QED
    BY <2>1, <2>2 DEF Full
<1> QED
  BY <1>1, <1>3, <1>7, <1>8 DEF g

\* What else survives when a frame is taken.
LEMMA TakeAny ==
  ASSUME NEW fs \in Seq(Frames), fs # <<>>, NEW s, NEW t \in Nat
  PROVE  /\ Free(fs, s) => Free(Tail(fs), s) /\ Head(fs).id # s
         /\ Below(fs, s, t) => Below(Tail(fs), s, t)
         /\ EndIsLast(fs, s) => EndIsLast(Tail(fs), s)
         /\ OneHead(fs, s) => OneHead(Tail(fs), s)
         /\ \A typ : Has(Tail(fs), s, typ) => Has(fs, s, typ)
         /\ \A typ : Is(Head(fs), s, typ) => Has(fs, s, typ)
         /\ \A typ : Has(fs, s, typ) => Is(Head(fs), s, typ) \/ Has(Tail(fs), s, typ)
<1> DEFINE g == Tail(fs)
<1>1. /\ Head(fs) = fs[1] /\ Len(fs) \in Nat \ {0} /\ 1 \in DOMAIN fs
      /\ DOMAIN fs = 1 .. Len(fs) /\ DOMAIN g = 1 .. Len(fs) - 1
      /\ \A i \in DOMAIN g : g[i] = fs[i + 1] /\ i + 1 \in DOMAIN fs
      /\ \A i \in DOMAIN fs : i # 1 => i - 1 \in DOMAIN g /\ g[i - 1] = fs[i]
  BY TailIs
<1> HIDE DEF g
<1>2. Free(fs, s) => Free(g, s) /\ Head(fs).id # s
  BY <1>1 DEF Free
<1>3. Below(fs, s, t) => Below(g, s, t)
  BY <1>1 DEF Below
<1>4. EndIsLast(fs, s) => EndIsLast(g, s)
  BY <1>1 DEF EndIsLast
<1>5. OneHead(fs, s) => OneHead(g, s)
  BY <1>1 DEF OneHead
<1>6. \A typ : Has(g, s, typ) => Has(fs, s, typ)
  BY <1>1 DEF Has
<1>7. \A typ : Is(Head(fs), s, typ) => Has(fs, s, typ)
  BY <1>1 DEF Has
<1>8. \A typ : Has(fs, s, typ) => Is(Head(fs), s, typ) \/ Has(g, s, typ)
  BY <1>1 DEF Has
<1> QED
  BY <1>2, <1>3, <1>4, <1>5, <1>6, <1>7, <1>8 DEF g

\* What the first frame says about the rest.
LEMMA FirstFrame ==
  ASSUME NEW fs \in Seq(Frames), fs # <<>>, NEW s
  PROVE  /\ EndIsLast(fs, s) /\ Is(Head(fs), s, "end") => Free(Tail(fs), s)
         /\ OneHead(fs, s) /\ Is(Head(fs), s, "head") => ~Has(Tail(fs), s, "head")
         /\ HeadFirst(fs, s) /\ Head(fs).id = s => Is(Head(fs), s, "head")
         /\ HeadFirst(fs, s) /\ Head(fs).id # s => HeadFirst(Tail(fs), s)
         /\ Is(Head(fs), s, "end") /\ EndIsLast(fs, s)
              => \A e, t \in Nat : Full(fs, s, e, t) => e = t + 1
<1> DEFINE g == Tail(fs)
<1>1. /\ Head(fs) = fs[1] /\ Len(fs) \in Nat \ {0} /\ 1 \in DOMAIN fs
      /\ DOMAIN fs = 1 .. Len(fs) /\ DOMAIN g = 1 .. Len(fs) - 1
      /\ \A i \in DOMAIN g : g[i] = fs[i + 1] /\ i + 1 \in DOMAIN fs
      /\ \A i \in DOMAIN fs : i # 1 => i - 1 \in DOMAIN g /\ g[i - 1] = fs[i]
  BY TailIs
<1> HIDE DEF g
<1>2. ASSUME EndIsLast(fs, s), Is(fs[1], s, "end")
      PROVE  \A i \in DOMAIN fs : i # 1 => fs[i].id # s
  BY <1>1, <1>2 DEF EndIsLast
<1>3. EndIsLast(fs, s) /\ Is(Head(fs), s, "end") => Free(g, s)
  BY <1>1, <1>2 DEF Free
<1>4. OneHead(fs, s) /\ Is(Head(fs), s, "head") => ~Has(g, s, "head")
  BY <1>1 DEF OneHead, Has
<1>5. HeadFirst(fs, s) /\ Head(fs).id = s => Is(Head(fs), s, "head")
  BY <1>1 DEF HeadFirst
<1>6. ASSUME HeadFirst(fs, s), Head(fs).id # s, NEW j \in DOMAIN g, g[j].id = s
      PROVE  \E i \in DOMAIN g : i <= j /\ Is(g[i], s, "head")
  <2>1. PICK i \in DOMAIN fs : i <= j + 1 /\ Is(fs[i], s, "head")
    BY <1>1, <1>6 DEF HeadFirst
  <2>2. i # 1
    BY <1>1, <1>6, <2>1 DEF Is
  <2>3. i - 1 \in DOMAIN g /\ Is(g[i - 1], s, "head") /\ i - 1 <= j
    BY <1>1, <2>1, <2>2
  <2> QED
    BY <2>3
<1>7. HeadFirst(fs, s) /\ Head(fs).id # s => HeadFirst(g, s)
  BY <1>6 DEF HeadFirst
<1>8. ASSUME Is(fs[1], s, "end"), EndIsLast(fs, s), NEW e \in Nat, NEW t \in Nat,
             Full(fs, s, e, t), e # t + 1
      PROVE  FALSE
  <2>1. PICK i \in DOMAIN fs : Is(fs[i], s, "body") /\ fs[i].n = e
    BY <1>8 DEF Full
  <2> QED
    BY <1>2, <1>8, <2>1 DEF Is
<1> QED
  BY <1>1, <1>3, <1>4, <1>5, <1>7, <1>8 DEF g

-----------------------------------------------------------------------------
(* And when a frame is sent.                                               *)

\* A sequence with a frame more.
LEMMA AppendIs ==
  ASSUME NEW fs \in Seq(Frames), NEW fr \in Frames
  PROVE  /\ Append(fs, fr) \in Seq(Frames) /\ Len(fs) \in Nat
         /\ DOMAIN fs = 1 .. Len(fs) /\ DOMAIN Append(fs, fr) = 1 .. Len(fs) + 1
         /\ Append(fs, fr)[Len(fs) + 1] = fr
         /\ \A i \in DOMAIN fs : Append(fs, fr)[i] = fs[i]
         /\ \A i \in DOMAIN Append(fs, fr) : i \in DOMAIN fs \/ i = Len(fs) + 1
  BY AppendProperties

\* A frame that is no chunk of the stream.
LEMMA SendOther ==
  ASSUME NEW fs \in Seq(Frames), NEW fr \in Frames, NEW s, NEW e \in Nat, NEW t \in Nat,
         ~Is(fr, s, "body")
  PROVE  /\ Ordered(fs, s, e) => Ordered(Append(fs, fr), s, e)
         /\ Full(fs, s, e, t) => Full(Append(fs, fr), s, e, t)
         /\ Below(fs, s, t) => Below(Append(fs, fr), s, t)
<1> DEFINE g == Append(fs, fr)
<1>1. /\ Len(fs) \in Nat /\ DOMAIN fs = 1 .. Len(fs) /\ DOMAIN g = 1 .. Len(fs) + 1
      /\ g[Len(fs) + 1] = fr /\ \A i \in DOMAIN fs : g[i] = fs[i] /\ i \in DOMAIN g
      /\ \A i \in DOMAIN g : Is(g[i], s, "body") => i \in DOMAIN fs
  BY AppendIs
<1> HIDE DEF g
<1>2. ASSUME Ordered(fs, s, e), NEW j \in DOMAIN g, Is(g[j], s, "body")
      PROVE  /\ g[j].n >= e
             /\ \A i \in DOMAIN g : i < j /\ Is(g[i], s, "body") => g[i].n < g[j].n
             /\ \A m \in Nat : e <= m /\ m < g[j].n =>
                  \E i \in DOMAIN g : Is(g[i], s, "body") /\ g[i].n = m
  <2>1. j \in DOMAIN fs /\ g[j] = fs[j]
    BY <1>1, <1>2
  <2>2. g[j].n >= e
    BY <1>2, <2>1 DEF Ordered
  <2>3. \A i \in DOMAIN g : i < j /\ Is(g[i], s, "body") => g[i].n < g[j].n
    BY <1>1, <1>2, <2>1 DEF Ordered
  <2>4. \A m \in Nat : e <= m /\ m < g[j].n =>
          \E i \in DOMAIN fs : Is(fs[i], s, "body") /\ fs[i].n = m
    BY <1>2, <2>1 DEF Ordered
  <2> QED
    BY <1>1, <2>2, <2>3, <2>4
<1>3. Ordered(fs, s, e) => Ordered(g, s, e)
  BY <1>2 DEF Ordered
<1>4. Full(fs, s, e, t) => Full(g, s, e, t)
  BY <1>1 DEF Full
<1>5. Below(fs, s, t) => Below(g, s, t)
  BY <1>1 DEF Below
<1> QED
  BY <1>3, <1>4, <1>5 DEF g

\* The next chunk of the stream.
LEMMA SendChunk ==
  ASSUME NEW fs \in Seq(Frames), NEW fr \in Frames, NEW s, NEW e \in Nat, NEW t \in Nat,
         Is(fr, s, "body"), fr.n = t + 1,
         Ordered(fs, s, e), Below(fs, s, t), Full(fs, s, e, t)
  PROVE  /\ Ordered(Append(fs, fr), s, e)
         /\ Below(Append(fs, fr), s, t + 1)
         /\ Full(Append(fs, fr), s, e, t + 1)
<1> DEFINE g == Append(fs, fr)
           k == Len(fs) + 1
<1>1. /\ Len(fs) \in Nat /\ DOMAIN fs = 1 .. Len(fs) /\ DOMAIN g = 1 .. k
      /\ g[k] = fr /\ \A i \in DOMAIN fs : g[i] = fs[i] /\ i \in DOMAIN g /\ i < k
      /\ \A i \in DOMAIN g : i \in DOMAIN fs \/ i = k
      /\ k \in DOMAIN g /\ k \in Nat
  BY AppendIs
<1> HIDE DEF g, k
<1>2. \A i \in DOMAIN fs : Is(fs[i], s, "body") => fs[i].n <= t /\ fs[i].n \in Nat
  <2> SUFFICES ASSUME NEW i \in DOMAIN fs, Is(fs[i], s, "body")
               PROVE  fs[i].n <= t /\ fs[i].n \in Nat
    OBVIOUS
  <2>1. fs[i] \in Frames
    BY <1>1, ElementOfSeq
  <2> QED
    BY <2>1 DEF Below, Frames
<1>3. \A m \in Nat : e <= m /\ m <= t =>
        \E i \in DOMAIN g : Is(g[i], s, "body") /\ g[i].n = m
  BY <1>1 DEF Full
<1>4. ASSUME NEW j \in DOMAIN g, Is(g[j], s, "body")
      PROVE  /\ g[j].n >= e
             /\ \A i \in DOMAIN g : i < j /\ Is(g[i], s, "body") => g[i].n < g[j].n
             /\ \A m \in Nat : e <= m /\ m < g[j].n =>
                  \E i \in DOMAIN g : Is(g[i], s, "body") /\ g[i].n = m
  <2>1. CASE j = k
    <3>1. g[j].n = t + 1 /\ g[j].n >= e
      BY <1>1, <2>1 DEF Full
    <3>2. \A i \in DOMAIN g : i < j /\ Is(g[i], s, "body") => g[i].n < g[j].n
      BY <1>1, <1>2, <2>1, <3>1
    <3> QED
      BY <1>3, <3>1, <3>2
  <2>2. CASE j \in DOMAIN fs
    <3>1. g[j] = fs[j] /\ g[j].n <= t /\ g[j].n \in Nat /\ j <= Len(fs) /\ j \in Nat
      BY <1>1, <1>2, <1>4, <2>2
    <3>2. g[j].n >= e
      BY <1>4, <2>2, <3>1 DEF Ordered
    <3>3. \A i \in DOMAIN g : i < j => i \in DOMAIN fs /\ g[i] = fs[i]
      BY <1>1, <2>2 DEF k
    <3>4. \A i \in DOMAIN g : i < j /\ Is(g[i], s, "body") => g[i].n < g[j].n
      BY <1>4, <2>2, <3>1, <3>3 DEF Ordered
    <3> QED
      BY <1>3, <3>1, <3>2, <3>4
  <2> QED
    BY <1>1, <2>1, <2>2
<1>5. Ordered(g, s, e)
  BY <1>4 DEF Ordered
<1>6. Below(g, s, t + 1)
  BY <1>1, <1>2 DEF Below
<1>7. \A m \in Nat : e <= m /\ m <= t + 1 =>
        \E i \in DOMAIN g : Is(g[i], s, "body") /\ g[i].n = m
  <2> SUFFICES ASSUME NEW m \in Nat, e <= m, m <= t + 1
               PROVE  \E i \in DOMAIN g : Is(g[i], s, "body") /\ g[i].n = m
    OBVIOUS
  <2>1. CASE m <= t
    BY <1>3, <2>1
  <2>2. CASE m = t + 1
    BY <1>1, <2>2
  <2> QED
    BY <2>1, <2>2
<1>8. e <= (t + 1) + 1
  BY DEF Full
<1>9. Full(g, s, e, t + 1)
  BY <1>7, <1>8 DEF Full
<1> QED
  BY <1>5, <1>6, <1>9 DEF g

\* What else survives when a frame is sent.
LEMMA SendAny ==
  ASSUME NEW fs \in Seq(Frames), NEW fr \in Frames, NEW s
  PROVE  /\ Free(fs, s) /\ fr.id # s => Free(Append(fs, fr), s)
         /\ EndIsLast(fs, s) /\ (fr.id = s => ~Has(fs, s, "end"))
              => EndIsLast(Append(fs, fr), s)
         /\ OneHead(fs, s) /\ (Is(fr, s, "head") => ~Has(fs, s, "head"))
              => OneHead(Append(fs, fr), s)
         /\ HeadFirst(fs, s) /\ (fr.id = s => Is(fr, s, "head") \/ Has(fs, s, "head"))
              => HeadFirst(Append(fs, fr), s)
         /\ \A typ : Has(Append(fs, fr), s, typ) <=> Has(fs, s, typ) \/ Is(fr, s, typ)
<1> DEFINE g == Append(fs, fr)
           k == Len(fs) + 1
<1>1. /\ Len(fs) \in Nat /\ DOMAIN fs = 1 .. Len(fs) /\ DOMAIN g = 1 .. k
      /\ g[k] = fr /\ \A i \in DOMAIN fs : g[i] = fs[i] /\ i \in DOMAIN g /\ i < k
      /\ \A i \in DOMAIN g : i \in DOMAIN fs \/ i = k
      /\ k \in DOMAIN g /\ k \in Nat
  BY AppendIs
<1> HIDE DEF g, k
<1>2. Free(fs, s) /\ fr.id # s => Free(g, s)
  BY <1>1 DEF Free
<1>3. EndIsLast(fs, s) /\ (fr.id = s => ~Has(fs, s, "end")) => EndIsLast(g, s)
  BY <1>1 DEF EndIsLast, Has
<1>4. OneHead(fs, s) /\ (Is(fr, s, "head") => ~Has(fs, s, "head")) => OneHead(g, s)
  BY <1>1 DEF OneHead, Has
<1>5. HeadFirst(fs, s) /\ (fr.id = s => Is(fr, s, "head") \/ Has(fs, s, "head"))
        => HeadFirst(g, s)
  <2> SUFFICES ASSUME HeadFirst(fs, s), fr.id = s => Is(fr, s, "head") \/ Has(fs, s, "head"),
                      NEW j \in DOMAIN g, g[j].id = s
               PROVE  \E i \in DOMAIN g : i <= j /\ Is(g[i], s, "head")
    BY DEF HeadFirst
  <2>1. CASE j \in DOMAIN fs
    BY <1>1, <2>1 DEF HeadFirst
  <2>2. CASE j = k
    BY <1>1, <2>2 DEF Has
  <2> QED
    BY <1>1, <2>1, <2>2
<1>6. \A typ : Has(g, s, typ) <=> Has(fs, s, typ) \/ Is(fr, s, typ)
  BY <1>1 DEF Has
<1> QED
  BY <1>2, <1>3, <1>4, <1>5, <1>6 DEF g

\* No frames at all.
LEMMA NoFrames ==
  ASSUME NEW s, NEW e \in Nat, NEW t \in Nat
  PROVE  /\ <<>> \in Seq(Frames) /\ Free(<<>>, s) /\ Ordered(<<>>, s, e) /\ Below(<<>>, s, t)
         /\ EndIsLast(<<>>, s) /\ OneHead(<<>>, s) /\ HeadFirst(<<>>, s)
         /\ \A typ : ~Has(<<>>, s, typ)
  BY DEF Free, Ordered, Below, EndIsLast, OneHead, HeadFirst, Has

\* No frames of the stream.
LEMMA FreeIs ==
  ASSUME NEW fs, NEW s, Free(fs, s), NEW e \in Nat, NEW t \in Nat
  PROVE  /\ Ordered(fs, s, e) /\ Below(fs, s, t) /\ EndIsLast(fs, s) /\ OneHead(fs, s)
         /\ HeadFirst(fs, s) /\ \A typ : ~Has(fs, s, typ)
         /\ Full(fs, s, t + 1, t)
  BY DEF Free, Ordered, Below, EndIsLast, OneHead, HeadFirst, Has, Full, Is

-----------------------------------------------------------------------------
(* Bodies.                                                                 *)

\* The chunks of q are those after chunk n.
From(q, n) == \A i \in DOMAIN q : q[i] = n + i

\* A body that gets its next chunk.
LEMMA UptoMore ==
  ASSUME NEW w \in Seq(Nat), w = Upto(Len(w)), NEW m, m = Len(w) + 1
  PROVE  /\ Append(w, m) \in Seq(Nat) /\ Len(Append(w, m)) = Len(w) + 1
         /\ Append(w, m) = Upto(Len(Append(w, m)))
<1> DEFINE g == Append(w, m)
           k == Len(w)
<1>1. /\ g \in Seq(Nat) /\ Len(g) = k + 1 /\ k \in Nat /\ DOMAIN g = 1 .. k + 1
      /\ g[k + 1] = k + 1 /\ \A i \in 1 .. k : g[i] = w[i]
      /\ g = [i \in 1 .. k + 1 |-> g[i]]
  BY AppendProperties
<1>2. \A i \in 1 .. k : w[i] = i
  BY DEF Upto
<1> HIDE DEF g, k
<1>3. \A i \in 1 .. k + 1 : g[i] = i
  <2> SUFFICES ASSUME NEW i \in 1 .. k + 1 PROVE g[i] = i
    OBVIOUS
  <2>1. i \in 1 .. k \/ i = k + 1
    BY <1>1
  <2> QED
    BY <1>1, <1>2, <2>1, Zenon
<1>4. g = Upto(k + 1)
  BY <1>1, <1>3 DEF Upto
<1> QED
  BY <1>1, <1>4 DEF g, k

\* A queue of chunks gives its first,
LEMMA FromTail ==
  ASSUME NEW q \in Seq(Nat), q # <<>>, NEW n \in Nat
  PROVE  /\ Tail(q) \in Seq(Nat) /\ Len(Tail(q)) = Len(q) - 1 /\ Len(q) \in Nat \ {0}
         /\ Head(q) \in Nat
         /\ From(q, n) => Head(q) = n + 1 /\ From(Tail(q), n + 1)
<1>1. /\ Head(q) = q[1] /\ Head(q) \in Nat /\ Len(q) \in Nat \ {0}
      /\ Tail(q) \in Seq(Nat) /\ Len(Tail(q)) = Len(q) - 1
      /\ \A i \in 1 .. Len(q) - 1 : Tail(q)[i] = q[i + 1]
      /\ DOMAIN q = 1 .. Len(q) /\ DOMAIN Tail(q) = 1 .. Len(q) - 1
  BY HeadTailProperties, EmptySeq
<1> QED
  BY SMTT(40), <1>1 DEF From

\* and takes another one.
LEMMA FromAppend ==
  ASSUME NEW q \in Seq(Nat), NEW n \in Nat, NEW m \in Nat
  PROVE  /\ Append(q, m) \in Seq(Nat) /\ Len(Append(q, m)) = Len(q) + 1
         /\ From(q, n) /\ m = n + Len(q) + 1 => From(Append(q, m), n)
<1>1. /\ Append(q, m) \in Seq(Nat) /\ Len(Append(q, m)) = Len(q) + 1 /\ Len(q) \in Nat
      /\ DOMAIN q = 1 .. Len(q) /\ DOMAIN Append(q, m) = 1 .. Len(q) + 1
      /\ Append(q, m)[Len(q) + 1] = m
      /\ \A i \in 1 .. Len(q) : Append(q, m)[i] = q[i]
  BY AppendProperties
<1> QED
  BY SMTT(40), <1>1 DEF From

\* An empty body, an empty queue.
LEMMA NoBody ==
  /\ <<>> \in Seq(Nat) /\ Len(<<>>) = 0 /\ <<>> = Upto(Len(<<>>))
  /\ \A n \in Nat : From(<<>>, n)
  BY DEF Upto, From

-----------------------------------------------------------------------------
(* The invariant.                                                          *)

Bodies == [id : Streams, typ : {"body"}, n : Nat]
Sending == {"wait", "relay", "select", "returned"}
Waits(cb, s) == cb # NoFrame /\ cb.id = s
Held(cb, s)  == IF Waits(cb, s) THEN 1 ELSE 0

Types ==
  /\ dc \in {"open", "closed"} /\ toServe \in Seq(Frames) /\ toClient \in Seq(Frames)
  /\ dc = "closed" => toServe = <<>> /\ toClient = <<>>
  /\ h \in [Streams -> {"idle", "head", "body"} \union Sending]
  /\ sentBody \in [Streams -> Nat] /\ cut \in [Streams -> BOOLEAN]
  /\ known \subseteq Streams /\ \A s \in known : h[s] \notin {"idle", "returned"}
  /\ \A s \in Streams : h[s] \notin {"idle", "returned"} => s \in known
  /\ bodyCh \in [Streams -> Seq(Nat)] /\ written \in [Streams -> Seq(Nat)]
  /\ done \in [Streams -> BOOLEAN] /\ cbC \in Bodies \union {NoFrame}
  /\ f \in [Streams -> {"none", "do", "resp", "returned"}]
  /\ queue \in [Streams -> Seq(Nat)] /\ got \in [Streams -> Seq(Nat)]
  /\ eof \in [Streams -> BOOLEAN] /\ gotEof \in [Streams -> BOOLEAN]
  /\ live \subseteq Streams /\ \A s \in Streams : s \in live <=> f[s] \in {"do", "resp"}
  /\ respSent \in [Streams -> Nat] /\ cbS \in Bodies \union {NoFrame}

\* The chunk that the target, or the browser, is to get after those that wait.
NextUp(s)   == Len(got[s]) + Len(queue[s]) + Held(cbS, s) + 1
NextDown(s) == Len(written[s]) + Len(bodyCh[s]) + Held(cbC, s) + 1

\* The way of the request: before the stream is known on the serve side,
UpBefore(s) ==
  /\ h[s] \in {"idle", "head"} => Free(toServe, s) /\ f[s] = "none" /\ sentBody[s] = 0
  /\ f[s] = "none" => /\ HeadFirst(toServe, s) /\ got[s] = <<>> /\ queue[s] = <<>>
                      /\ ~Waits(cbS, s) /\ ~eof[s] /\ ~gotEof[s]
  /\ f[s] # "none" => ~Has(toServe, s, "head")
  /\ OneHead(toServe, s)
  /\ h[s] = "body" /\ f[s] = "none" /\ dc = "open" => Has(toServe, s, "head")
\* as long as the request is being performed,
UpDuring(s) ==
  /\ From(queue[s], Len(got[s]))
  /\ Waits(cbS, s) => cbS.n + 1 = NextUp(s)
  /\ Ordered(toServe, s, NextUp(s)) /\ Below(toServe, s, sentBody[s])
  /\ h[s] = "body" /\ dc = "open" => Full(toServe, s, NextUp(s), sentBody[s])
  /\ Has(toServe, s, "end") => Full(toServe, s, NextUp(s), sentBody[s])
  /\ eof[s] => /\ Free(toServe, s) /\ NextUp(s) = sentBody[s] + 1 /\ ~Waits(cbS, s)
\* and always.
UpAlways(s) ==
  /\ got[s] = Upto(Len(got[s])) /\ sentBody[s] <= Up[s]
  /\ EndIsLast(toServe, s)
  /\ eof[s] \/ gotEof[s] \/ Has(toServe, s, "end") =>
       h[s] \in Sending /\ (~cut[s] => sentBody[s] = Up[s])
  /\ gotEof[s] => Len(got[s]) = sentBody[s]

UpPath(s) == UpBefore(s) /\ (f[s] # "returned" => UpDuring(s)) /\ UpAlways(s)

\* The way of the response: as long as the handler wants it,
DownDuring(s) ==
  /\ From(bodyCh[s], Len(written[s]))
  /\ Waits(cbC, s) => cbC.n + 1 = NextDown(s)
  /\ Ordered(toClient, s, NextDown(s))
  /\ f[s] = "resp" /\ dc = "open" => Full(toClient, s, NextDown(s), respSent[s])
  /\ f[s] = "resp" => Below(toClient, s, respSent[s])
  /\ done[s] => f[s] = "returned" /\ Free(toClient, s) /\ ~Waits(cbC, s)
\* and always.
DownAlways(s) ==
  /\ written[s] = Upto(Len(written[s]))
  /\ f[s] \in {"none", "do"} => /\ Free(toClient, s) /\ written[s] = <<>> /\ bodyCh[s] = <<>>
                                /\ ~Waits(cbC, s) /\ respSent[s] = 0
  /\ h[s] = "idle" => ~done[s]
  /\ EndIsLast(toClient, s)
  /\ Has(toClient, s, "end") => f[s] = "returned"

DownPath(s) == (s \in known => DownDuring(s)) /\ DownAlways(s)

TunnelInv == Types /\ \A s \in Streams : UpPath(s) /\ DownPath(s)

\* The beginning.
LEMMA InitOK == Init => TunnelInv
<1> SUFFICES ASSUME Init PROVE TunnelInv
  OBVIOUS
<1>1. Types
  BY NoFrames, NoBody DEF Init, Types, Sending
<1> SUFFICES ASSUME NEW s \in Streams PROVE UpPath(s) /\ DownPath(s)
  BY <1>1 DEF TunnelInv
<1>2. /\ got[s] = <<>> /\ queue[s] = <<>> /\ ~Waits(cbS, s) /\ Held(cbS, s) = 0
      /\ NextUp(s) = 1 /\ sentBody[s] = 0 /\ f[s] = "none" /\ h[s] = "idle"
      /\ ~eof[s] /\ ~gotEof[s] /\ toServe = <<>> /\ Up[s] \in Nat
  BY NoBody, TunnelAssumption DEF Init, NextUp, Held, Waits
<1>3. UpPath(s)
  <2>1. /\ Free(toServe, s) /\ Ordered(toServe, s, 1) /\ Below(toServe, s, 0)
        /\ EndIsLast(toServe, s) /\ OneHead(toServe, s) /\ HeadFirst(toServe, s)
        /\ ~Has(toServe, s, "head") /\ ~Has(toServe, s, "end")
    BY <1>2, NoFrames
  <2>2. UpBefore(s)
    BY <1>2, <2>1 DEF UpBefore
  <2>3. UpDuring(s)
    BY <1>2, <2>1, NoBody DEF UpDuring
  <2>4. UpAlways(s)
    BY <1>2, <2>1, NoBody DEF UpAlways
  <2> QED
    BY <2>2, <2>3, <2>4 DEF UpPath
<1>4. /\ written[s] = <<>> /\ bodyCh[s] = <<>> /\ ~Waits(cbC, s) /\ respSent[s] = 0
      /\ ~done[s] /\ toClient = <<>> /\ s \notin known
  BY DEF Init, Waits
<1>5. DownPath(s)
  BY <1>2, <1>4, NoFrames, NoBody, Zenon DEF DownPath, DownAlways
<1> QED
  BY <1>3, <1>5

-----------------------------------------------------------------------------
(* Frames of other streams.                                                *)

\* What is true of the frames of s in fs is true of those in g.
Same(fs, g, s) ==
  /\ Free(fs, s) => Free(g, s)
  /\ HeadFirst(fs, s) => HeadFirst(g, s)
  /\ OneHead(fs, s) => OneHead(g, s)
  /\ EndIsLast(fs, s) => EndIsLast(g, s)
  /\ \A typ : Has(g, s, typ) <=> Has(fs, s, typ)
  /\ \A e, t \in Nat : /\ Ordered(fs, s, e) => Ordered(g, s, e)
                       /\ Below(fs, s, t) => Below(g, s, t)
                       /\ Full(fs, s, e, t) => Full(g, s, e, t)

\* From fs to g no frame of s is sent or taken.
NotOf(fs, g, s) ==
  \/ g = fs
  \/ \E fr \in Frames : fr.id # s /\ g = Append(fs, fr)
  \/ fs # <<>> /\ Head(fs).id # s /\ g = Tail(fs)

\* Then the frames of s stay what they are.
LEMMA OthersKeep ==
  ASSUME NEW fs \in Seq(Frames), NEW g, NEW s, NotOf(fs, g, s)
  PROVE  Same(fs, g, s)
<1>1. CASE g = fs
  BY <1>1 DEF Same
<1>2. ASSUME NEW fr \in Frames, fr.id # s, g = Append(fs, fr) PROVE Same(fs, g, s)
  <2>1. \A typ : ~Is(fr, s, typ)
    BY <1>2 DEF Is
  <2>2. ASSUME NEW e \in Nat, NEW t \in Nat
        PROVE  /\ Ordered(fs, s, e) => Ordered(g, s, e)
               /\ Below(fs, s, t) => Below(g, s, t)
               /\ Full(fs, s, e, t) => Full(g, s, e, t)
    BY <1>2, <2>1, SendOther
  <2>3. /\ Free(fs, s) => Free(g, s)
        /\ HeadFirst(fs, s) => HeadFirst(g, s)
        /\ OneHead(fs, s) => OneHead(g, s)
        /\ EndIsLast(fs, s) => EndIsLast(g, s)
        /\ \A typ : Has(g, s, typ) <=> Has(fs, s, typ)
    BY <1>2, <2>1, SendAny
  <2> QED
    BY <2>2, <2>3 DEF Same
<1>3. CASE fs # <<>> /\ Head(fs).id # s /\ g = Tail(fs)
  <2>1. \A typ : ~Is(Head(fs), s, typ)
    BY <1>3 DEF Is
  <2>2. ASSUME NEW e \in Nat, NEW t \in Nat
        PROVE  /\ Ordered(fs, s, e) => Ordered(g, s, e)
               /\ Below(fs, s, t) => Below(g, s, t)
               /\ Full(fs, s, e, t) => Full(g, s, e, t)
    BY <1>3, <2>1, TakeOther, TakeAny
  <2>3. /\ Free(fs, s) => Free(g, s)
        /\ OneHead(fs, s) => OneHead(g, s)
        /\ EndIsLast(fs, s) => EndIsLast(g, s)
        /\ \A typ : Has(g, s, typ) <=> Has(fs, s, typ)
    <3>1. 0 \in Nat
      OBVIOUS
    <3> QED
      BY <1>3, <2>1, <3>1, TakeAny, Zenon
  <2>4. HeadFirst(fs, s) => HeadFirst(g, s)
    BY <1>3, FirstFrame
  <2> QED
    BY <2>2, <2>3, <2>4 DEF Same
<1> QED
  BY <1>1, <1>2, <1>3 DEF NotOf

\* A sum of numbers.
LEMMA SumIs ==
  ASSUME NEW a \in Nat, NEW b \in Nat, NEW c \in Nat
  PROVE  a + b + c + 1 \in Nat
  OBVIOUS

\* One more chunk waits.
LEMMA OneMore ==
  ASSUME NEW a \in Nat, NEW b \in Nat, NEW c, c = b + 1
  PROVE  /\ a + c + 0 + 1 = (a + b + 0 + 1) + 1
         /\ a + b + 1 + 1 = (a + b + 0 + 1) + 1
         /\ a + b + 0 + 1 = a + b + 1
  OBVIOUS

\* The next chunks are numbers.
LEMMA NextIs ==
  ASSUME Types, NEW s \in Streams
  PROVE  /\ NextUp(s) \in Nat /\ NextDown(s) \in Nat
         /\ sentBody[s] \in Nat /\ respSent[s] \in Nat
         /\ Len(got[s]) \in Nat /\ Len(queue[s]) \in Nat
         /\ Len(written[s]) \in Nat /\ Len(bodyCh[s]) \in Nat
         /\ got[s] \in Seq(Nat) /\ queue[s] \in Seq(Nat)
         /\ written[s] \in Seq(Nat) /\ bodyCh[s] \in Seq(Nat)
<1>1. /\ got[s] \in Seq(Nat) /\ queue[s] \in Seq(Nat)
      /\ written[s] \in Seq(Nat) /\ bodyCh[s] \in Seq(Nat)
      /\ sentBody[s] \in Nat /\ respSent[s] \in Nat
  BY DEF Types
<1>2. /\ Len(got[s]) \in Nat /\ Len(queue[s]) \in Nat
      /\ Len(written[s]) \in Nat /\ Len(bodyCh[s]) \in Nat
  BY <1>1, LenProperties
<1>3. Held(cbS, s) \in Nat /\ Held(cbC, s) \in Nat
  BY DEF Held
<1>4. NextUp(s) \in Nat
  BY <1>2, <1>3, SumIs, Zenon DEF NextUp
<1>5. NextDown(s) \in Nat
  BY <1>2, <1>3, SumIs, Zenon DEF NextDown
<1> QED
  BY <1>1, <1>2, <1>4, <1>5

\* The callback goes on waiting for s, or neither did nor does.
SameWait(cb, cc, s) == cc = cb \/ (~Waits(cb, s) /\ ~Waits(cc, s))

\* A step that is of no concern to the request of s.
LEMMA UpFrame ==
  ASSUME Types, NEW s \in Streams, UpPath(s),
         UNCHANGED <<dc, h[s], sentBody[s], cut[s], f[s], queue[s], eof[s], got[s], gotEof[s]>>,
         SameWait(cbS, cbS', s), Same(toServe, toServe', s)
  PROVE  UpPath(s)'
<1> DEFINE e == NextUp(s)
           t == sentBody[s]
<1>1. NextUp(s)' = e /\ (Waits(cbS', s) <=> Waits(cbS, s))
      /\ (Waits(cbS', s) => cbS' = cbS)
  BY Zenon DEF NextUp, Held, SameWait
<1>3. e \in Nat /\ t \in Nat
  BY NextIs
<1> HIDE DEF e
<1>4. UpBefore(s)'
  BY <1>1 DEF UpPath, UpBefore, Same
<1>5. UpDuring(s) => UpDuring(s)'
  BY <1>1, <1>3 DEF UpDuring, Same, e
<1>6. UpAlways(s)'
  BY DEF UpPath, UpAlways, Same
<1> QED
  BY <1>4, <1>5, <1>6 DEF UpPath

\* A step that is of no concern to the response to s.
LEMMA DownFrame ==
  ASSUME Types, NEW s \in Streams, DownPath(s),
         UNCHANGED <<dc, f[s], bodyCh[s], written[s], done[s], respSent[s]>>,
         h'[s] = "idle" => h[s] = "idle", s \in known' => s \in known,
         SameWait(cbC, cbC', s), Same(toClient, toClient', s)
  PROVE  DownPath(s)'
<1> DEFINE e == NextDown(s)
           t == respSent[s]
<1>1. NextDown(s)' = e /\ (Waits(cbC', s) <=> Waits(cbC, s))
      /\ (Waits(cbC', s) => cbC' = cbC)
  BY Zenon DEF NextDown, Held, SameWait
<1>3. e \in Nat /\ t \in Nat
  BY NextIs
<1> HIDE DEF e
<1>4. DownDuring(s) => DownDuring(s)'
  BY <1>1, <1>3 DEF DownDuring, Same, e
<1>5. DownAlways(s)'
  BY <1>1 DEF DownPath, DownAlways, Same
<1> QED
  BY <1>4, <1>5 DEF DownPath

\* A step that is of no concern to s at all.
Unmoved(s) ==
  /\ UNCHANGED <<h[s], sentBody[s], cut[s], f[s], queue[s], eof[s], got[s], gotEof[s],
                 bodyCh[s], written[s], done[s], respSent[s]>>
  /\ s \in known' => s \in known
  /\ SameWait(cbS, cbS', s) /\ Same(toServe, toServe', s)
  /\ SameWait(cbC, cbC', s) /\ Same(toClient, toClient', s)

\* A step of stream s.
LEMMA Others ==
  ASSUME TunnelInv, Types', dc' = dc, NEW s \in Streams,
         \A q \in Streams \ {s} : Unmoved(q), UpPath(s)', DownPath(s)'
  PROVE  TunnelInv'
<1> SUFFICES ASSUME NEW q \in Streams, q # s PROVE UpPath(q)' /\ DownPath(q)'
  BY DEF TunnelInv
<1>1. Types /\ UpPath(q) /\ DownPath(q) /\ Unmoved(q)
  BY DEF TunnelInv
<1>2. UpPath(q)'
  BY <1>1, UpFrame DEF Unmoved
<1>3. DownPath(q)'
  BY <1>1, DownFrame DEF Unmoved
<1> QED
  BY <1>2, <1>3

\* The handler of s goes on from its request, or before it.
LEMMA UpLater ==
  ASSUME Types, NEW s \in Streams, UpPath(s),
         UNCHANGED <<dc, toServe, cbS, sentBody[s], cut[s], f[s], queue[s], eof[s], got[s],
                     gotEof[s]>>,
         h'[s] \in Sending \/ (h[s] = "idle" /\ h'[s] = "head")
  PROVE  UpPath(s)'
<1>1. NextUp(s)' = NextUp(s)
  BY DEF NextUp, Held, Waits
<1>2. UpBefore(s)'
  BY DEF UpPath, UpBefore, Sending, Waits
<1>3. UpDuring(s) => UpDuring(s)'
  BY <1>1 DEF UpDuring, Sending, Waits
<1>4. UpAlways(s)'
  BY DEF UpPath, UpBefore, UpAlways, Sending, NoFrames, FreeIs
<1> QED
  BY <1>2, <1>3, <1>4 DEF UpPath

\* The handler of s returns.
LEMMA DownReturns ==
  ASSUME Types, NEW s \in Streams, DownPath(s),
         UNCHANGED <<toClient, cbC, f[s], respSent[s]>>,
         h'[s] = "returned", s \notin known', bodyCh'[s] = <<>>,
         written'[s] = Upto(Len(written'[s])),
         bodyCh[s] = <<>> => written'[s] = written[s]
  PROVE  DownPath(s)'
  BY DEF DownPath, DownAlways, Waits

-----------------------------------------------------------------------------
(* One lemma per action.                                                   *)

\* A request arrives.
LEMMA StartOK ==
  ASSUME TunnelInv, NEW s \in Streams, Start(s)
  PROVE  TunnelInv'
<1>1. /\ Types /\ UpPath(s) /\ DownPath(s)
      /\ UNCHANGED <<dc, toServe, toClient, cbS, cbC, sentBody, cut, f, queue, eof, got, gotEof,
                     live, bodyCh, done, written, respSent>>
      /\ h[s] = "idle"
      /\ \/ h' = [h EXCEPT ![s] = "head"] /\ known' = known \union {s}
         \/ h' = [h EXCEPT ![s] = "returned"] /\ known' = known
  BY DEF TunnelInv, Start, Goto, chanvars, svars
<1>2. h'[s] \in {"head", "returned"} /\ \A q \in Streams \ {s} : h'[q] = h[q]
  BY <1>1 DEF Types
<1>3. Types'
  BY <1>1, Zenon DEF Types, Sending
<1>4. \A q \in Streams \ {s} : Unmoved(q)
  BY <1>1, <1>2 DEF Unmoved, SameWait, Same
<1>5. UpPath(s)'
  BY <1>1, <1>2, UpLater DEF Sending
<1>6. f[s] = "none"
  BY <1>1 DEF UpPath, UpBefore
<1>7. DownAlways(s)'
  BY <1>1, <1>2 DEF DownPath, DownAlways, Waits
<1>8. DownDuring(s)'
  <2>1. /\ Free(toClient, s) /\ written[s] = <<>> /\ bodyCh[s] = <<>> /\ ~Waits(cbC, s)
        /\ ~done[s]
    BY <1>1, <1>6 DEF DownPath, DownAlways
  <2>2. Ordered(toClient, s, NextDown(s)) /\ From(bodyCh[s], Len(written[s]))
    BY <1>1, <2>1, FreeIs, NextIs, NoBody
  <2>3. NextDown(s)' = NextDown(s)
    BY <1>1 DEF NextDown, Held, Waits
  <2> QED
    BY <1>1, <1>6, <2>1, <2>2, <2>3 DEF DownDuring, Waits
<1> QED
  BY <1>1, <1>3, <1>4, <1>5, <1>7, <1>8, Others DEF DownPath

\* The handler goes on without a word to anybody.
LEMMA SilentOK ==
  ASSUME TunnelInv, NEW s \in Streams, TakeHead(s) \/ NothingPending(s)
  PROVE  TunnelInv'
<1>1. /\ Types /\ UpPath(s) /\ DownPath(s)
      /\ UNCHANGED <<dc, toServe, toClient, cbS, cbC, sentBody, cut, f, queue, eof, got, gotEof,
                     live, known, bodyCh, done, written, respSent>>
      /\ h[s] \in {"wait", "relay"}
      /\ h' = [h EXCEPT ![s] = "relay"] \/ h' = [h EXCEPT ![s] = "select"]
  BY DEF TunnelInv, TakeHead, NothingPending, Goto, chanvars, svars
<1>2. h'[s] \in {"relay", "select"} /\ \A q \in Streams \ {s} : h'[q] = h[q]
  BY <1>1 DEF Types
<1>3. Types'
  BY <1>1, <1>2, Zenon DEF Types, Sending
<1>4. \A q \in Streams \ {s} : Unmoved(q)
  BY <1>1, <1>2 DEF Unmoved, SameWait, Same
<1>5. UpPath(s)'
  BY <1>1, <1>2, UpLater DEF Sending
<1>6. DownPath(s)'
  BY <1>1, <1>2, DownFrame DEF SameWait, Same
<1> QED
  BY <1>1, <1>3, <1>4, <1>5, <1>6, Others

\* The handler gives up, or writes a last chunk and returns.
LEMMA GivesUpOK ==
  ASSUME TunnelInv, NEW s \in Streams, NoHead(s) \/ LastChunk(s) \/ RelayTimeout(s)
  PROVE  TunnelInv'
<1>1. /\ Types /\ UpPath(s) /\ DownPath(s)
      /\ UNCHANGED <<dc, toServe, toClient, cbS, cbC, sentBody, cut, f, queue, eof, got, gotEof,
                     live, respSent>>
      /\ h[s] \in {"wait", "select"}
      /\ h' = [h EXCEPT ![s] = "returned"] /\ known' = known \ {s}
      /\ bodyCh' = [bodyCh EXCEPT ![s] = <<>>] /\ done' = [done EXCEPT ![s] = TRUE]
      /\ \/ written' = written
         \/ /\ bodyCh[s] # <<>>
            /\ written' = [written EXCEPT ![s] = Append(written[s], Head(bodyCh[s]))]
  BY DEF TunnelInv, NoHead, LastChunk, RelayTimeout, Finish, Write, Goto, chanvars, svars
<1>2. s \in known /\ DownDuring(s) /\ written[s] = Upto(Len(written[s]))
  BY <1>1 DEF Types, DownPath, DownAlways
<1>3. /\ written[s] \in Seq(Nat) /\ bodyCh[s] \in Seq(Nat)
      /\ bodyCh[s] # <<>> => Head(bodyCh[s]) = Len(written[s]) + 1 /\ Head(bodyCh[s]) \in Nat
  <2>1. written[s] \in Seq(Nat) /\ bodyCh[s] \in Seq(Nat) /\ Len(written[s]) \in Nat
    BY <1>1, NextIs
  <2> QED
    BY <1>2, <2>1, FromTail DEF DownDuring
<1>4. /\ written'[s] \in Seq(Nat) /\ written'[s] = Upto(Len(written'[s]))
      /\ bodyCh[s] = <<>> => written'[s] = written[s]
  <2>1. CASE written' = written
    BY <1>2, <1>3, <2>1
  <2>2. CASE /\ bodyCh[s] # <<>>
             /\ written' = [written EXCEPT ![s] = Append(written[s], Head(bodyCh[s]))]
    <3>1. written'[s] = Append(written[s], Head(bodyCh[s]))
      BY <1>1, <2>2 DEF Types
    <3> QED
      BY <1>2, <1>3, <2>2, <3>1, UptoMore, Zenon
  <2> QED
    BY <1>1, <2>1, <2>2
<1>5. /\ h'[s] = "returned" /\ s \notin known' /\ bodyCh'[s] = <<>>
      /\ \A q \in Streams \ {s} : UNCHANGED <<h[q], bodyCh[q], done[q], written[q]>>
      /\ \A q \in known' : q \in known
  BY <1>1 DEF Types
<1>6. written' \in [Streams -> Seq(Nat)]
  BY <1>1, <1>3, <1>4, Zenon DEF Types
<1>7. Types'
  BY <1>1, <1>6, NoBody, Zenon DEF Types, Sending
<1>8. \A q \in Streams \ {s} : Unmoved(q)
  BY <1>1, <1>5 DEF Unmoved, SameWait, Same
<1>9. UpPath(s)'
  BY <1>1, <1>5, UpLater DEF Sending
<1>10. DownPath(s)'
  BY <1>1, <1>4, <1>5, DownReturns
<1> QED
  BY <1>1, <1>7, <1>8, <1>9, <1>10, Others

\* The browser is given a chunk.
LEMMA RelayBodyOK ==
  ASSUME TunnelInv, NEW s \in Streams, RelayBody(s)
  PROVE  TunnelInv'
<1>1. /\ Types /\ UpPath(s) /\ DownPath(s)
      /\ UNCHANGED <<dc, toServe, toClient, cbS, cbC, sentBody, cut, f, queue, eof, got, gotEof,
                     live, known, done, respSent>>
      /\ h[s] \in {"relay", "select"} /\ bodyCh[s] # <<>>
      /\ h' = [h EXCEPT ![s] = "relay"]
      /\ bodyCh' = [bodyCh EXCEPT ![s] = Tail(bodyCh[s])]
      /\ written' = [written EXCEPT ![s] = Append(written[s], Head(bodyCh[s]))]
  BY DEF TunnelInv, RelayBody, Write, Goto, chanvars, svars
<1>2. s \in known /\ DownDuring(s) /\ DownAlways(s)
  BY <1>1, Zenon DEF Types, DownPath
<1>3. /\ written[s] \in Seq(Nat) /\ bodyCh[s] \in Seq(Nat) /\ Len(written[s]) \in Nat
      /\ Len(bodyCh[s]) \in Nat
  BY <1>1, NextIs
<1>4. /\ h'[s] = "relay" /\ bodyCh'[s] = Tail(bodyCh[s])
      /\ written'[s] = Append(written[s], Head(bodyCh[s]))
      /\ \A q \in Streams \ {s} : UNCHANGED <<h[q], bodyCh[q], written[q]>>
  BY <1>1 DEF Types
<1>5. /\ Head(bodyCh[s]) = Len(written[s]) + 1 /\ Tail(bodyCh[s]) \in Seq(Nat)
      /\ Len(Tail(bodyCh[s])) = Len(bodyCh[s]) - 1
      /\ From(Tail(bodyCh[s]), Len(written[s]) + 1)
  BY <1>1, <1>2, <1>3, FromTail DEF DownDuring
<1>6. /\ written'[s] \in Seq(Nat) /\ Len(written'[s]) = Len(written[s]) + 1
      /\ written'[s] = Upto(Len(written'[s]))
  <2> DEFINE m == Head(bodyCh[s])
  <2>1. m = Len(written[s]) + 1 /\ written'[s] = Append(written[s], m)
    BY <1>4, <1>5
  <2>2. written[s] \in Seq(Nat) /\ written[s] = Upto(Len(written[s]))
    BY <1>2, <1>3 DEF DownAlways
  <2> HIDE DEF m
  <2> QED
    BY <2>1, <2>2, UptoMore
<1>7. written' \in [Streams -> Seq(Nat)] /\ bodyCh' \in [Streams -> Seq(Nat)]
  BY <1>1, <1>4, <1>5, <1>6 DEF Types
<1>8. Types'
  BY <1>1, <1>7, Zenon DEF Types, Sending
<1>9. \A q \in Streams \ {s} : Unmoved(q)
  BY <1>1, <1>4 DEF Unmoved, SameWait, Same
<1>10. UpPath(s)'
  BY <1>1, <1>4, UpLater DEF Sending
<1>11. NextDown(s)' = NextDown(s)
  <2> DEFINE a == Len(written[s])
             b == Len(bodyCh[s])
             c == Held(cbC, s)
  <2>1. a \in Nat /\ b \in Nat /\ c \in Nat
    BY <1>3 DEF Held
  <2>2. NextDown(s) = a + b + c + 1
    BY DEF NextDown
  <2>3. Len(written'[s]) = a + 1 /\ Len(bodyCh'[s]) = b - 1 /\ Held(cbC', s) = c
    BY <1>1, <1>4, <1>5, <1>6, Zenon
  <2>4. NextDown(s)' = Len(written'[s]) + Len(bodyCh'[s]) + Held(cbC', s) + 1
    BY DEF NextDown
  <2> HIDE DEF a, b, c
  <2> QED
    BY <2>1, <2>2, <2>3, <2>4
<1>12. DownDuring(s)'
  BY <1>1, <1>2, <1>4, <1>5, <1>6, <1>11 DEF DownDuring, Waits
<1>13. DownAlways(s)'
  BY <1>1, <1>2, <1>4, <1>6 DEF DownAlways, Waits
<1> QED
  BY <1>1, <1>8, <1>9, <1>10, <1>12, <1>13, Others DEF DownPath

\* The header of the request is sent.
LEMMA SendHeadOK ==
  ASSUME TunnelInv, NEW s \in Streams, SendHead(s)
  PROVE  TunnelInv'
<1> DEFINE fr == Frame(s, "head", 0)
<1>1. /\ Types /\ UpPath(s) /\ DownPath(s)
      /\ UNCHANGED <<dc, toClient, cbS, cbC, sentBody, cut, f, queue, eof, got, gotEof,
                     live, written, respSent>>
      /\ h[s] = "head"
      /\ toServe' = IF dc = "open" THEN Append(toServe, fr) ELSE toServe
      /\ dc = "open" => /\ h' = [h EXCEPT ![s] = "body"]
                        /\ UNCHANGED <<known, bodyCh, done>>
      /\ dc # "open" => /\ h' = [h EXCEPT ![s] = "returned"] /\ known' = known \ {s}
                        /\ bodyCh' = [bodyCh EXCEPT ![s] = <<>>]
                        /\ done' = [done EXCEPT ![s] = TRUE]
  BY DEF TunnelInv, SendHead, ToServe, Finish, Goto, svars
<1>2. /\ toServe \in Seq(Frames) /\ s \in known /\ fr \in Frames /\ Is(fr, s, "head")
      /\ fr.id = s
  BY <1>1, Zenon DEF Types, Frames, Frame, Is
<1> HIDE DEF fr
<1>3. /\ Free(toServe, s) /\ f[s] = "none" /\ sentBody[s] = 0
      /\ got[s] = <<>> /\ queue[s] = <<>> /\ ~Waits(cbS, s) /\ ~eof[s] /\ ~gotEof[s]
  BY <1>1 DEF UpPath, UpBefore
<1>4. NextUp(s) = 1 /\ NextUp(s)' = NextUp(s)
  BY <1>1, <1>3, NoBody DEF NextUp, Held, Waits
<1>5. /\ \A q \in Streams \ {s} : UNCHANGED <<h[q], bodyCh[q], done[q]>>
      /\ \A q \in Streams : q \in known' => q \in known
      /\ h'[s] = IF dc = "open" THEN "body" ELSE "returned"
  BY <1>1 DEF Types
<1>6. \A q \in Streams \ {s} : NotOf(toServe, toServe', q)
  BY <1>1, <1>2 DEF NotOf
<1>7. \A q \in Streams \ {s} : Unmoved(q)
  BY <1>1, <1>2, <1>5, <1>6, OthersKeep DEF Unmoved, SameWait, Same
<1>8. Types'
  <2>1. toServe' \in Seq(Frames) /\ (dc = "closed" => toServe' = <<>>)
    BY <1>1, <1>2, AppendIs DEF Types
  <2>2. CASE dc = "open"
    BY <1>1, <1>2, <2>1, <2>2, Zenon DEF Types, Sending
  <2>3. CASE dc # "open"
    <3>1. /\ h' = [h EXCEPT ![s] = "returned"] /\ known' = known \ {s}
          /\ bodyCh' = [bodyCh EXCEPT ![s] = <<>>] /\ done' = [done EXCEPT ![s] = TRUE]
      BY <1>1, <2>3
    <3>2. bodyCh' \in [Streams -> Seq(Nat)] /\ done' \in [Streams -> BOOLEAN]
      BY <1>1, <3>1, NoBody DEF Types
    <3>3. /\ h' \in [Streams -> {"idle", "head", "body"} \union Sending]
          /\ known' \subseteq Streams /\ \A q \in known' : h'[q] \notin {"idle", "returned"}
          /\ \A q \in Streams : h'[q] \notin {"idle", "returned"} => q \in known'
      BY SMTT(40), <1>1, <3>1 DEF Types, Sending
    <3>4. sentBody' \in [Streams -> Nat]
      BY <1>1, <1>2 DEF Types
    <3> QED
      BY <1>1, <2>1, <2>3, <3>2, <3>3, <3>4, Zenon DEF Types
  <2> QED
    BY <2>2, <2>3
<1>9. UpPath(s)'
  <2>1. CASE dc = "open"
    <3>1. toServe' = Append(toServe, fr) /\ ~Is(fr, s, "body") /\ ~Is(fr, s, "end")
      BY <1>1, <1>2, <2>1 DEF Is
    <3>2. /\ OneHead(toServe, s) /\ HeadFirst(toServe, s) /\ EndIsLast(toServe, s)
          /\ Ordered(toServe, s, 1) /\ Below(toServe, s, 0) /\ Full(toServe, s, 1, 0)
          /\ \A typ : ~Has(toServe, s, typ)
      BY <1>3, FreeIs
    <3>3. /\ Ordered(toServe', s, 1) /\ Below(toServe', s, 0) /\ Full(toServe', s, 1, 0)
      BY <1>2, <3>1, <3>2, SendOther
    <3>4. /\ OneHead(toServe', s) /\ HeadFirst(toServe', s) /\ EndIsLast(toServe', s)
          /\ Has(toServe', s, "head") /\ ~Has(toServe', s, "end")
      BY <1>2, <3>1, <3>2, SendAny
    <3>5. UpBefore(s)'
      BY <1>1, <1>3, <1>5, <2>1, <3>4 DEF UpBefore, Waits
    <3>6. UpDuring(s)'
      BY <1>1, <1>3, <1>4, <3>3, <3>4, NoBody DEF UpDuring, Waits
    <3>7. UpAlways(s)'
      BY <1>1, <1>3, <3>4, NoBody DEF UpPath, UpAlways
    <3> QED
      BY <3>5, <3>6, <3>7 DEF UpPath
  <2>2. CASE dc # "open"
    BY <1>1, <1>5, <2>2, UpLater DEF Sending
  <2> QED
    BY <2>1, <2>2
<1>10. DownPath(s)'
  <2>1. CASE dc = "open"
    BY <1>1, <1>5, <2>1, DownFrame DEF SameWait, Same
  <2>2. CASE dc # "open"
    <3>1. /\ s \notin known' /\ bodyCh'[s] = <<>> /\ h'[s] = "returned"
          /\ written[s] = Upto(Len(written[s]))
      BY <1>1, <1>5, <2>2 DEF Types, DownPath, DownAlways
    <3> QED
      BY <1>1, <3>1, DownReturns
  <2> QED
    BY <2>1, <2>2
<1> QED
  BY <1>1, <1>7, <1>8, <1>9, <1>10, Others

\* A chunk of the request is sent.
LEMMA SendBodyOK ==
  ASSUME TunnelInv, NEW s \in Streams, SendBody(s)
  PROVE  TunnelInv'
<1> DEFINE fr == Frame(s, "body", sentBody[s] + 1)
<1>1. /\ Types /\ UpPath(s) /\ DownPath(s)
      /\ UNCHANGED <<dc, toClient, cbS, cbC, cut, f, queue, eof, got, gotEof,
                     live, written, respSent>>
      /\ h[s] = "body" /\ sentBody[s] < Up[s]
      /\ sentBody' = [sentBody EXCEPT ![s] = sentBody[s] + 1]
      /\ toServe' = IF dc = "open" THEN Append(toServe, fr) ELSE toServe
      /\ dc = "open" => UNCHANGED <<h, known, bodyCh, done>>
      /\ dc # "open" => /\ h' = [h EXCEPT ![s] = "returned"] /\ known' = known \ {s}
                        /\ bodyCh' = [bodyCh EXCEPT ![s] = <<>>]
                        /\ done' = [done EXCEPT ![s] = TRUE]
  BY DEF TunnelInv, SendBody, ToServe, Finish, Goto, svars
<1>2. /\ toServe \in Seq(Frames) /\ s \in known /\ fr \in Frames /\ Is(fr, s, "body")
      /\ fr.id = s /\ fr.n = sentBody[s] + 1 /\ sentBody[s] \in Nat /\ Up[s] \in Nat
      /\ sentBody[s] + 1 \in Nat
  <2>1. /\ toServe \in Seq(Frames) /\ s \in known /\ sentBody[s] \in Nat
    BY <1>1, Zenon DEF Types
  <2>2. Up[s] \in Nat
    BY TunnelAssumption
  <2>3. sentBody[s] + 1 \in Nat
    BY <2>1
  <2> QED
    BY <2>1, <2>2, <2>3 DEF Frames, Frame, Is
<1> HIDE DEF fr
<1>3. /\ ~eof[s] /\ ~gotEof[s] /\ ~Has(toServe, s, "end")
  BY <1>1 DEF UpPath, UpAlways, Sending
<1>4. NextUp(s)' = NextUp(s) /\ NextUp(s) \in Nat
  BY <1>1, NextIs, Zenon DEF NextUp, Held, Waits
<1>5. /\ \A q \in Streams \ {s} : UNCHANGED <<h[q], sentBody[q], bodyCh[q], done[q]>>
      /\ \A q \in Streams : q \in known' => q \in known
      /\ h'[s] = IF dc = "open" THEN "body" ELSE "returned"
      /\ sentBody'[s] = sentBody[s] + 1
  BY <1>1 DEF Types
<1>6. \A q \in Streams \ {s} : NotOf(toServe, toServe', q)
  BY <1>1, <1>2 DEF NotOf
<1>7. \A q \in Streams \ {s} : Unmoved(q)
  BY <1>1, <1>2, <1>5, <1>6, OthersKeep DEF Unmoved, SameWait, Same
<1>8. Types'
  <2>1. toServe' \in Seq(Frames) /\ (dc = "closed" => toServe' = <<>>)
    BY <1>1, <1>2, AppendIs DEF Types
  <2>2. CASE dc = "open"
    BY <1>1, <1>2, <2>1, <2>2 DEF Types, Sending
  <2>3. CASE dc # "open"
    <3>1. /\ h' = [h EXCEPT ![s] = "returned"] /\ known' = known \ {s}
          /\ bodyCh' = [bodyCh EXCEPT ![s] = <<>>] /\ done' = [done EXCEPT ![s] = TRUE]
      BY <1>1, <2>3
    <3>2. bodyCh' \in [Streams -> Seq(Nat)] /\ done' \in [Streams -> BOOLEAN]
      BY <1>1, <3>1, NoBody DEF Types
    <3>3. /\ h' \in [Streams -> {"idle", "head", "body"} \union Sending]
          /\ known' \subseteq Streams /\ \A q \in known' : h'[q] \notin {"idle", "returned"}
          /\ \A q \in Streams : h'[q] \notin {"idle", "returned"} => q \in known'
      BY <1>1, <3>1 DEF Types, Sending
    <3>4. sentBody' \in [Streams -> Nat]
      BY <1>1, <1>2 DEF Types
    <3> QED
      BY <1>1, <2>1, <2>3, <3>2, <3>3, <3>4 DEF Types
  <2> QED
    BY <2>2, <2>3
<1>9. UpPath(s)'
  <2>1. CASE dc = "open"
    <3>1. toServe' = Append(toServe, fr) /\ ~Is(fr, s, "head") /\ ~Is(fr, s, "end")
      BY <1>1, <1>2, <2>1 DEF Is
    <3>2. /\ OneHead(toServe, s) /\ EndIsLast(toServe, s)
          /\ f[s] = "none" => HeadFirst(toServe, s) /\ Has(toServe, s, "head")
          /\ f[s] # "none" => ~Has(toServe, s, "head")
      BY <1>1, <2>1 DEF UpPath, UpBefore, UpAlways
    <3>3. /\ OneHead(toServe', s) /\ EndIsLast(toServe', s) /\ ~Has(toServe', s, "end")
          /\ f[s] = "none" => HeadFirst(toServe', s) /\ Has(toServe', s, "head")
          /\ f[s] # "none" => ~Has(toServe', s, "head")
      BY <1>2, <1>3, <3>1, <3>2, SendAny
    <3>4. UpBefore(s)'
      BY <1>1, <1>5, <2>1, <3>3 DEF UpPath, UpBefore, Waits
    <3>5. ASSUME UpDuring(s) PROVE UpDuring(s)'
      <4>1. /\ Ordered(toServe, s, NextUp(s)) /\ Below(toServe, s, sentBody[s])
            /\ Full(toServe, s, NextUp(s), sentBody[s])
        BY <1>1, <2>1, <3>5 DEF UpDuring
      <4>2. /\ Ordered(toServe', s, NextUp(s)) /\ Below(toServe', s, sentBody[s] + 1)
            /\ Full(toServe', s, NextUp(s), sentBody[s] + 1)
        BY <1>2, <1>4, <3>1, <4>1, SendChunk
      <4> QED
        BY <1>1, <1>3, <1>4, <1>5, <3>3, <3>5, <4>2 DEF UpDuring, Waits
    <3>6. UpAlways(s)'
      BY <1>1, <1>2, <1>3, <1>5, <3>3 DEF UpPath, UpAlways
    <3> QED
      BY <1>1, <3>4, <3>5, <3>6 DEF UpPath
  <2>2. CASE dc # "open"
    <3>1. toServe = <<>> /\ toServe' = <<>>
      BY <1>1, <2>2 DEF Types
    <3>2. /\ HeadFirst(<<>>, s) /\ OneHead(<<>>, s) /\ EndIsLast(<<>>, s)
          /\ ~Has(<<>>, s, "head") /\ ~Has(<<>>, s, "end")
          /\ Ordered(<<>>, s, NextUp(s)) /\ Below(<<>>, s, sentBody[s] + 1)
      BY <1>2, <1>4, NoFrames
    <3>3. UpBefore(s)'
      BY <1>1, <1>5, <2>2, <3>1, <3>2 DEF UpPath, UpBefore, Waits
    <3>4. UpDuring(s) => UpDuring(s)'
      BY <1>1, <1>3, <1>4, <1>5, <2>2, <3>1, <3>2 DEF UpDuring, Waits
    <3>5. UpAlways(s)'
      BY <1>1, <1>2, <1>3, <1>5, <3>1, <3>2 DEF UpPath, UpAlways
    <3> QED
      BY <1>1, <3>3, <3>4, <3>5 DEF UpPath
  <2> QED
    BY <2>1, <2>2
<1>10. DownPath(s)'
  <2>1. CASE dc = "open"
    BY <1>1, <1>5, <2>1, DownFrame DEF SameWait, Same
  <2>2. CASE dc # "open"
    <3>1. /\ s \notin known' /\ bodyCh'[s] = <<>> /\ h'[s] = "returned"
          /\ written[s] = Upto(Len(written[s]))
      BY <1>1, <1>5, <2>2 DEF Types, DownPath, DownAlways
    <3> QED
      BY <1>1, <3>1, DownReturns
  <2> QED
    BY <2>1, <2>2
<1> QED
  BY <1>1, <1>7, <1>8, <1>9, <1>10, Others

\* The end of the request is sent.
LEMMA SendEndOK ==
  ASSUME TunnelInv, NEW s \in Streams, SendEnd(s)
  PROVE  TunnelInv'
<1> DEFINE fr == Frame(s, "end", 0)
<1>1. /\ Types /\ UpPath(s) /\ DownPath(s)
      /\ UNCHANGED <<dc, toClient, cbS, cbC, sentBody, f, queue, eof, got, gotEof,
                     live, known, bodyCh, done, written, respSent>>
      /\ h[s] = "body" /\ h' = [h EXCEPT ![s] = "wait"]
      /\ cut' = [cut EXCEPT ![s] = sentBody[s] < Up[s]]
      /\ toServe' = IF dc = "open" THEN Append(toServe, fr) ELSE toServe
  BY DEF TunnelInv, SendEnd, ToServe, Goto, svars
<1>2. /\ toServe \in Seq(Frames) /\ s \in known /\ fr \in Frames /\ Is(fr, s, "end")
      /\ fr.id = s /\ sentBody[s] \in Nat /\ Up[s] \in Nat
  BY <1>1, TunnelAssumption, Zenon DEF Types, Frames, Frame, Is
<1> HIDE DEF fr
<1>3. /\ ~eof[s] /\ ~gotEof[s] /\ ~Has(toServe, s, "end") /\ sentBody[s] <= Up[s]
  BY <1>1 DEF UpPath, UpAlways, Sending
<1>4. NextUp(s)' = NextUp(s) /\ NextUp(s) \in Nat
  BY <1>1, NextIs, Zenon DEF NextUp, Held, Waits
<1>5. /\ \A q \in Streams \ {s} : UNCHANGED <<h[q], cut[q]>>
      /\ h'[s] = "wait" /\ (~cut'[s] => sentBody[s] = Up[s])
  <2>1. cut'[s] <=> sentBody[s] < Up[s]
    BY <1>1, Zenon DEF Types
  <2>2. ~(sentBody[s] < Up[s]) => sentBody[s] = Up[s]
    BY <1>2, <1>3
  <2>3. /\ \A q \in Streams \ {s} : UNCHANGED <<h[q], cut[q]>>
        /\ h'[s] = "wait"
    BY <1>1 DEF Types
  <2> QED
    BY <2>1, <2>2, <2>3
<1>6. \A q \in Streams \ {s} : NotOf(toServe, toServe', q)
  BY <1>1, <1>2 DEF NotOf
<1>7. \A q \in Streams \ {s} : Unmoved(q)
  BY <1>1, <1>2, <1>5, <1>6, OthersKeep DEF Unmoved, SameWait, Same
<1>8. Types'
  <2>1. cut' \in [Streams -> BOOLEAN]
    BY <1>1 DEF Types
  <2>2. toServe' \in Seq(Frames) /\ (dc = "closed" => toServe' = <<>>)
    BY <1>1, <1>2, AppendIs DEF Types
  <2> QED
    BY <1>1, <1>2, <2>1, <2>2 DEF Types, Sending
<1>9. UpPath(s)'
  <2>1. CASE dc = "open"
    <3>1. toServe' = Append(toServe, fr) /\ ~Is(fr, s, "head") /\ ~Is(fr, s, "body")
      BY <1>1, <1>2, <2>1 DEF Is
    <3>2. /\ OneHead(toServe, s) /\ EndIsLast(toServe, s)
          /\ f[s] = "none" => HeadFirst(toServe, s) /\ Has(toServe, s, "head")
          /\ f[s] # "none" => ~Has(toServe, s, "head")
      BY <1>1, <2>1 DEF UpPath, UpBefore, UpAlways
    <3>3. /\ OneHead(toServe', s) /\ EndIsLast(toServe', s)
          /\ f[s] = "none" => HeadFirst(toServe', s)
          /\ f[s] # "none" => ~Has(toServe', s, "head")
      BY <1>2, <1>3, <3>1, <3>2, SendAny
    <3>4. UpBefore(s)'
      BY <1>1, <1>5, <2>1, <3>3 DEF UpPath, UpBefore, Waits
    <3>5. ASSUME UpDuring(s) PROVE UpDuring(s)'
      <4>1. /\ Ordered(toServe, s, NextUp(s)) /\ Below(toServe, s, sentBody[s])
            /\ Full(toServe, s, NextUp(s), sentBody[s])
        BY <1>1, <2>1, <3>5 DEF UpDuring
      <4>2. /\ Ordered(toServe', s, NextUp(s)) /\ Below(toServe', s, sentBody[s])
            /\ Full(toServe', s, NextUp(s), sentBody[s])
        BY <1>2, <1>4, <3>1, <4>1, SendOther
      <4> QED
        BY <1>1, <1>3, <1>4, <1>5, <3>5, <4>2 DEF UpDuring, Waits
    <3>6. UpAlways(s)'
      BY <1>1, <1>2, <1>3, <1>5, <3>3 DEF UpPath, UpAlways, Sending
    <3> QED
      BY <1>1, <3>4, <3>5, <3>6 DEF UpPath
  <2>2. CASE dc # "open"
    <3>1. toServe' = toServe
      BY <1>1, <2>2
    <3>2. UpBefore(s)'
      BY <1>1, <1>5, <2>2, <3>1 DEF UpPath, UpBefore, Waits
    <3>3. UpDuring(s) => UpDuring(s)'
      BY <1>1, <1>4, <1>5, <3>1 DEF UpDuring, Waits
    <3>4. UpAlways(s)'
      BY <1>1, <1>3, <1>5, <3>1 DEF UpPath, UpAlways, Sending
    <3> QED
      BY <1>1, <3>2, <3>3, <3>4 DEF UpPath
  <2> QED
    BY <2>1, <2>2
<1>10. DownPath(s)'
  BY <1>1, <1>5, DownFrame DEF SameWait, Same
<1> QED
  BY <1>1, <1>7, <1>8, <1>9, <1>10, Others

\* A frame is a header, a chunk or an end.
LEMMA FrameIs ==
  ASSUME NEW fr \in Frames
  PROVE  /\ fr.id \in Streams /\ fr.n \in Nat /\ fr.typ \in {"head", "body", "end"}
         /\ fr.typ = "body" => fr \in Bodies /\ fr # NoFrame
         /\ \A typ : Is(fr, fr.id, typ) <=> fr.typ = typ
  BY DEF Frames, Bodies, NoFrame, Frame, Is

\* A step of the callback of the serve side is of no concern to the response.
LEMMA DownServe ==
  ASSUME Types, NEW s \in Streams, DownPath(s),
         UNCHANGED <<dc, toClient, cbC, h, known, bodyCh, written, done, respSent>>,
         f'[s] = f[s] \/ (f[s] = "none" /\ f'[s] = "do")
  PROVE  DownPath(s)'
<1>1. CASE f'[s] = f[s]
  BY <1>1, DownFrame DEF SameWait, Same
<1>2. CASE f[s] = "none" /\ f'[s] = "do"
  <2>1. NextDown(s)' = NextDown(s)
    BY DEF NextDown, Held, Waits
  <2>2. DownDuring(s) => DownDuring(s)'
    BY <1>2, <2>1 DEF DownDuring, Waits
  <2>3. DownAlways(s)'
    BY <1>2 DEF DownPath, DownAlways, Waits
  <2> QED
    BY <2>2, <2>3 DEF DownPath
<1> QED
  BY <1>1, <1>2

\* The first chunk on its way to the serve side joins those that wait there.
LEMMA UpTakes ==
  ASSUME Types, NEW s \in Streams, UpPath(s), f[s] \in {"do", "resp"},
         toServe # <<>>, Is(Head(toServe), s, "body"), toServe' = Tail(toServe),
         UNCHANGED <<dc, h[s], sentBody[s], cut[s], f[s], eof[s], got[s], gotEof[s]>>,
         NextUp(s)' = NextUp(s) + 1,
         From(queue[s], Len(got[s])) =>
           From(queue'[s], Len(got[s])) /\ (Waits(cbS', s) => cbS' = Head(toServe))
  PROVE  UpPath(s)'
<1> DEFINE e == NextUp(s)
           t == sentBody[s]
<1>1. toServe \in Seq(Frames) /\ e \in Nat /\ t \in Nat
  BY NextIs DEF Types
<1>2. UpDuring(s)
  BY DEF UpPath
<1>3. /\ Head(toServe).n = e /\ Ordered(toServe', s, e + 1) /\ Below(toServe, s, t)
      /\ Full(toServe, s, e, t) => Full(toServe', s, e + 1, t)
  BY <1>1, <1>2, TakeBody DEF UpDuring
<1>4. /\ Below(toServe', s, t) /\ (OneHead(toServe, s) => OneHead(toServe', s))
      /\ (EndIsLast(toServe, s) => EndIsLast(toServe', s))
      /\ \A typ : Has(toServe', s, typ) => Has(toServe, s, typ)
  BY <1>1, <1>3, TakeAny
<1>5. ~Free(toServe, s)
  BY <1>1, TakeAny, Zenon DEF Is
<1> HIDE DEF e, t
<1>6. UpBefore(s)'
  BY <1>4, <1>5 DEF UpPath, UpBefore
<1>7. UpDuring(s)'
  BY <1>2, <1>3, <1>4, <1>5 DEF UpDuring, e, t
<1>8. UpAlways(s)'
  BY <1>4 DEF UpPath, UpAlways
<1> QED
  BY <1>6, <1>7, <1>8 DEF UpPath

\* The callback of the serve side takes a frame.
LEMMA ServeReceivesOK ==
  ASSUME TunnelInv, ServeReceives,
         NEW fr \in Frames, NEW s \in Streams, fr = Head(toServe), s = fr.id
  PROVE  TunnelInv'
<1>1. /\ Types /\ \A q \in Streams : UpPath(q) /\ DownPath(q)
      /\ UNCHANGED <<dc, toClient, h, sentBody, cut, known, bodyCh, done, written, cbC,
                     got, gotEof, respSent>>
      /\ cbS = NoFrame /\ toServe # <<>> /\ toServe' = Tail(toServe)
      /\ \/ /\ fr.typ = "head" /\ live' = live \union {s} /\ f' = [f EXCEPT ![s] = "do"]
            /\ UNCHANGED <<eof, queue, cbS>>
         \/ /\ fr.typ = "body" /\ s \in live /\ UNCHANGED <<live, f, eof>>
            /\ \/ queue' = [queue EXCEPT ![s] = Append(queue[s], fr.n)] /\ cbS' = cbS
               \/ cbS' = fr /\ queue' = queue
         \/ /\ fr.typ = "end" /\ s \in live
            /\ eof' = [eof EXCEPT ![s] = TRUE] /\ UNCHANGED <<live, f, queue, cbS>>
         \/ /\ fr.typ # "head" /\ s \notin live /\ UNCHANGED <<live, f, eof, queue, cbS>>
  <2>1. toServe \in Seq(Frames) /\ toServe # <<>>
    BY DEF TunnelInv, Types, ServeReceives
  <2>2. fr.typ \in {"head", "body", "end"}
    BY <2>1, TailIs, FrameIs
  <2> QED
    BY <2>2 DEF TunnelInv, ServeReceives, push, cvars
<1>2. toServe \in Seq(Frames) /\ fr \in Frames
  BY <1>1 DEF Types
<1>3. /\ s \in Streams /\ fr.n \in Nat /\ (fr.typ = "body" => fr \in Bodies /\ fr # NoFrame)
      /\ \A typ : Is(fr, s, typ) <=> fr.typ = typ
  BY <1>2, FrameIs, Zenon
<1>4. \A q \in Streams \ {s} : NotOf(toServe, toServe', q)
  BY <1>1 DEF NotOf
<1>5. \A q \in Streams \ {s} : UNCHANGED <<f[q], queue[q], eof[q]>> /\ SameWait(cbS, cbS', q)
  BY <1>1, <1>3, ZenonT(60) DEF Types, SameWait, Waits
<1>6. \A q \in Streams \ {s} : Unmoved(q)
  <2> SUFFICES ASSUME NEW q \in Streams \ {s} PROVE Unmoved(q)
    BY Zenon
  <2>1. Same(toServe, toServe', q)
    BY <1>2, <1>4, OthersKeep
  <2> QED
    BY <1>1, <1>5, <2>1 DEF Unmoved, SameWait, Same
<1>7. Types'
  <2>1. toServe' \in Seq(Frames) /\ dc = "open"
    BY <1>1, <1>2, TailIs DEF Types
  <2>2. queue' \in [Streams -> Seq(Nat)]
    <3>1. queue[s] \in Seq(Nat) /\ Append(queue[s], fr.n) \in Seq(Nat)
      BY <1>1, <1>3, NextIs, AppendProperties
    <3> DEFINE q == Append(queue[s], fr.n)
    <3>2. queue' = queue \/ queue' = [queue EXCEPT ![s] = q]
      BY <1>1
    <3>3. queue \in [Streams -> Seq(Nat)] /\ q \in Seq(Nat)
      BY <1>1, <3>1 DEF Types
    <3> HIDE DEF q
    <3> QED
      BY <1>3, <3>2, <3>3
  <2>3. eof' \in [Streams -> BOOLEAN]
    BY <1>1, <1>3, Zenon DEF Types
  <2>4. cbS' \in Bodies \union {NoFrame}
    BY <1>1, <1>3 DEF Types
  <2>5. /\ f' \in [Streams -> {"none", "do", "resp", "returned"}]
        /\ live' \subseteq Streams /\ \A q \in Streams : q \in live' <=> f'[q] \in {"do", "resp"}
    BY <1>1, <1>3, ZenonT(60) DEF Types
  <2> QED
    BY <1>1, <2>1, <2>2, <2>3, <2>4, <2>5, Zenon DEF Types
<1>8. /\ Types /\ UpPath(s) /\ DownPath(s) /\ NextUp(s) \in Nat /\ sentBody[s] \in Nat
      /\ ~Waits(cbS, s)
  BY <1>1, <1>3, NextIs DEF Waits
<1>9. fr.typ = "head" => f[s] = "none" /\ ~Has(toServe', s, "head")
  <2>1. OneHead(toServe, s) /\ (f[s] # "none" => ~Has(toServe, s, "head"))
    BY <1>8 DEF UpPath, UpBefore
  <2>2. fr.typ = "head" => Has(toServe, s, "head") /\ ~Has(toServe', s, "head")
    BY <1>1, <1>2, <1>3, <1>8, <2>1, TakeAny, FirstFrame, Zenon
  <2> QED
    BY <2>1, <2>2
<1>10. f'[s] = f[s] \/ (f[s] = "none" /\ f'[s] = "do")
  BY <1>1, <1>3, <1>9, Zenon DEF Types
<1>11. DownPath(s)'
  BY <1>1, <1>3, <1>8, <1>10, DownServe
<1>12. /\ OneHead(toServe, s) => OneHead(toServe', s)
       /\ EndIsLast(toServe, s) => EndIsLast(toServe', s)
       /\ Free(toServe, s) => FALSE
       /\ Below(toServe, s, sentBody[s]) => Below(toServe', s, sentBody[s])
       /\ \A typ : Has(toServe', s, typ) => Has(toServe, s, typ)
  BY <1>1, <1>2, <1>8, TakeAny, Zenon
<1>13. h[s] \notin {"idle", "head"}
  BY <1>8, <1>12 DEF UpPath, UpBefore
<1>14. fr.typ # "body" =>
         /\ Ordered(toServe, s, NextUp(s)) => Ordered(toServe', s, NextUp(s))
         /\ Full(toServe, s, NextUp(s), sentBody[s]) => Full(toServe', s, NextUp(s), sentBody[s])
  BY <1>1, <1>2, <1>3, <1>8, TakeOther, Zenon
<1>15. UpPath(s)'
  <2>1. CASE /\ fr.typ = "head" /\ f' = [f EXCEPT ![s] = "do"]
             /\ UNCHANGED <<eof, queue, cbS>>
    <3>1. f'[s] = "do" /\ f[s] = "none" /\ NextUp(s)' = NextUp(s)
      BY <1>1, <1>3, <1>9, <2>1 DEF Types, NextUp, Held, Waits
    <3>2. UpBefore(s)'
      BY SMTT(40), <1>1, <1>8, <1>9, <1>12, <1>13, <2>1, <3>1 DEF UpPath, UpBefore
    <3>3. UpDuring(s)'
      BY <1>1, <1>8, <1>12, <1>14, <2>1, <3>1 DEF UpPath, UpBefore, UpDuring, Waits
    <3>4. UpAlways(s)'
      BY <1>1, <1>8, <1>12, <2>1 DEF UpPath, UpAlways
    <3> QED
      BY <3>2, <3>3, <3>4 DEF UpPath
  <2>2. CASE /\ fr.typ = "body" /\ s \in live /\ UNCHANGED <<live, f, eof>>
             /\ \/ queue' = [queue EXCEPT ![s] = Append(queue[s], fr.n)] /\ cbS' = cbS
                \/ cbS' = fr /\ queue' = queue
    <3>1. f[s] \in {"do", "resp"} /\ Is(fr, s, "body") /\ UpDuring(s)
      BY <1>1, <1>3, <1>8, <2>2, Zenon DEF Types, UpPath
    <3>2. fr.n = NextUp(s)
      BY <1>1, <1>2, <1>8, <3>1, TakeBody DEF UpDuring
    <3>3. /\ Len(got[s]) \in Nat /\ Len(queue[s]) \in Nat /\ queue[s] \in Seq(Nat)
          /\ NextUp(s) = Len(got[s]) + Len(queue[s]) + 0 + 1
      BY <1>3, <1>8, NextIs, Zenon DEF NextUp, Held
    <3>4. CASE queue' = [queue EXCEPT ![s] = Append(queue[s], fr.n)] /\ cbS' = cbS
      <4>1. queue'[s] = Append(queue[s], fr.n) /\ ~Waits(cbS', s) /\ got' = got
        BY <1>1, <1>3, <1>8, <3>4, Zenon DEF Types, Waits
      <4> DEFINE a == Len(got[s])
                 b == Len(queue[s])
                 q == queue[s]
                 r == queue'[s]
                 m == fr.n
      <4>2. NextUp(s)' = a + Len(r) + 0 + 1
        BY <4>1 DEF NextUp, Held
      <4>3. /\ a \in Nat /\ b \in Nat /\ b = Len(q) /\ q \in Seq(Nat) /\ m \in Nat
            /\ r = Append(q, m) /\ m = a + b + 0 + 1 /\ NextUp(s) = a + b + 0 + 1
        BY <1>3, <3>2, <3>3, <4>1, Zenon
      <4> HIDE DEF a, b, q, r, m
      <4>4. m = a + Len(q) + 1
        BY <4>3
      <4>5. Len(r) = b + 1 /\ (From(q, a) => From(r, a))
        BY <4>3, <4>4, FromAppend
      <4>6. NextUp(s)' = NextUp(s) + 1
        BY <4>2, <4>3, <4>5, OneMore
      <4> QED
        BY <1>1, <1>3, <1>8, <2>2, <3>1, <4>1, <4>5, <4>6, UpTakes, Zenon DEF a, q, r
    <3>5. CASE cbS' = fr /\ queue' = queue
      <4>1. Waits(cbS', s) /\ got' = got
        BY <1>1, <1>3, <2>2, <3>5 DEF Waits
      <4>2. NextUp(s)' = Len(got[s]) + Len(queue[s]) + 1 + 1
        BY <3>5, <4>1 DEF NextUp, Held
      <4>3. NextUp(s)' = NextUp(s) + 1
        <5>1. Len(queue[s]) + 1 = Len(queue[s]) + 1
          OBVIOUS
        <5> QED
          BY <3>3, <4>2, <5>1, OneMore, ZenonT(60)
      <4> QED
        BY <1>1, <1>3, <1>8, <2>2, <3>1, <3>5, <4>1, <4>3, UpTakes
    <3> QED
      BY <2>2, <3>4, <3>5
  <2>3. CASE /\ fr.typ = "end" /\ s \in live
             /\ eof' = [eof EXCEPT ![s] = TRUE] /\ UNCHANGED <<live, f, queue, cbS>>
    <3>1. /\ f[s] \in {"do", "resp"} /\ UpDuring(s) /\ eof'[s]
          /\ NextUp(s)' = NextUp(s)
      BY <1>1, <1>3, <1>8, <2>3, Zenon DEF Types, UpPath, NextUp, Held, Waits
    <3>2. EndIsLast(toServe, s) /\ Has(toServe, s, "end")
      BY <1>1, <1>2, <1>3, <1>8, <2>3, TakeAny, Zenon DEF UpPath, UpAlways
    <3>3. Free(toServe', s) /\ NextUp(s) = sentBody[s] + 1
      <4>1. Full(toServe, s, NextUp(s), sentBody[s])
        BY <3>1, <3>2 DEF UpDuring
      <4> QED
        BY <1>1, <1>2, <1>3, <1>8, <2>3, <3>2, <4>1, FirstFrame
    <3>4. /\ Ordered(toServe', s, NextUp(s)) /\ Below(toServe', s, sentBody[s])
          /\ EndIsLast(toServe', s) /\ OneHead(toServe', s) /\ HeadFirst(toServe', s)
          /\ \A typ : ~Has(toServe', s, typ)
      BY <1>8, <3>3, FreeIs
    <3>5. h[s] \in Sending /\ (~cut[s] => sentBody[s] = Up[s])
      BY <1>8, <3>2 DEF UpPath, UpAlways
    <3>6. UpBefore(s)'
      BY SMTT(40), <1>1, <1>8, <1>13, <2>3, <3>1, <3>4 DEF UpPath, UpBefore
    <3>7. UpDuring(s)'
      BY SMTT(40), <1>1, <1>8, <2>3, <3>1, <3>3, <3>4, <3>5 DEF UpDuring, Waits, Sending
    <3>8. UpAlways(s)'
      BY <1>1, <1>8, <3>4, <3>5 DEF UpPath, UpAlways
    <3> QED
      BY <3>6, <3>7, <3>8 DEF UpPath
  <2>4. CASE fr.typ # "head" /\ s \notin live /\ UNCHANGED <<live, f, eof, queue, cbS>>
    <3>1. f[s] \notin {"do", "resp"} /\ f[s] \in {"none", "do", "resp", "returned"}
      BY <1>1, <1>3, <2>4 DEF Types
    <3>2. f[s] # "none"
      <4>1. f[s] = "none" => HeadFirst(toServe, s)
        BY <1>8 DEF UpPath, UpBefore
      <4>2. HeadFirst(toServe, s) => Is(fr, s, "head")
        BY <1>1, <1>2, FirstFrame
      <4> QED
        BY <1>3, <2>4, <4>1, <4>2
    <3>3. f'[s] = "returned"
      BY <2>4, <3>1, <3>2
    <3>4. UpBefore(s)'
      BY <1>1, <1>8, <1>12, <1>13, <2>4, <3>2, <3>3 DEF UpPath, UpBefore
    <3>5. UpAlways(s)'
      BY <1>1, <1>8, <1>12, <2>4 DEF UpPath, UpAlways
    <3> QED
      BY <3>3, <3>4, <3>5 DEF UpPath
  <2> QED
    BY <1>1, <2>1, <2>2, <2>3, <2>4
<1> QED
  BY <1>1, <1>3, <1>6, <1>7, <1>11, <1>15, Others

\* The callback of the serve side finds room, or drops the chunk.
LEMMA ServeUnblocksOK ==
  ASSUME TunnelInv, ServeUnblocks, NEW s \in Streams, cbS.id = s
  PROVE  TunnelInv'
<1> DEFINE m == cbS.n
<1>1. /\ Types /\ UpPath(s) /\ DownPath(s)
      /\ UNCHANGED <<dc, toServe, toClient, h, sentBody, cut, known, bodyCh, done, written, cbC,
                     f, eof, live, got, gotEof, respSent>>
      /\ cbS # NoFrame /\ cbS' = NoFrame /\ cbS \in Bodies
      /\ \/ f[s] = "returned" /\ queue' = queue
         \/ f[s] # "returned" /\ queue' = [queue EXCEPT ![s] = Append(queue[s], m)]
  BY DEF TunnelInv, Types, ServeUnblocks, aborted, push, chanvars, cvars
<1>2. /\ m \in Nat /\ Waits(cbS, s) /\ ~Waits(cbS', s)
      /\ \A q \in Streams \ {s} : SameWait(cbS, cbS', q)
  BY <1>1 DEF Bodies, Waits, SameWait
<1> HIDE DEF m
<1>3. queue[s] \in Seq(Nat) /\ Len(got[s]) \in Nat /\ Len(queue[s]) \in Nat
  BY <1>1, NextIs
<1>4. f[s] # "none"
  BY <1>1, <1>2 DEF UpPath, UpBefore
<1>5. \A q \in Streams \ {s} : queue'[q] = queue[q]
  BY <1>1 DEF Types
<1>6. \A q \in Streams \ {s} : Unmoved(q)
  BY <1>1, <1>2, <1>5 DEF Unmoved, SameWait, Same
<1>7. Types'
  <2> DEFINE q == Append(queue[s], m)
  <2>1. q \in Seq(Nat) /\ queue \in [Streams -> Seq(Nat)]
    BY <1>1, <1>2, <1>3, AppendProperties DEF Types
  <2>2. queue' = queue \/ queue' = [queue EXCEPT ![s] = q]
    BY <1>1
  <2> HIDE DEF q
  <2>3. queue' \in [Streams -> Seq(Nat)]
    BY <2>1, <2>2
  <2> QED
    BY <1>1, <2>3 DEF Types
<1>8. DownPath(s)'
  BY <1>1, DownFrame DEF SameWait, Same
<1>9. UpBefore(s)'
  BY <1>1, <1>2, <1>4 DEF UpPath, UpBefore
<1>10. UpAlways(s)'
  BY <1>1 DEF UpPath, UpAlways
<1>11. ASSUME f[s] # "returned" PROVE UpDuring(s)'
  <2> DEFINE a == Len(got[s])
             b == Len(queue[s])
             q == queue[s]
             r == queue'[s]
             e == NextUp(s)
  <2>1. /\ a \in Nat /\ b \in Nat /\ q \in Seq(Nat) /\ b = Len(q) /\ r = Append(q, m)
        /\ e = a + b + 1 + 1
    BY <1>1, <1>2, <1>3, <1>11 DEF Types, NextUp, Held
  <2>2. e' = a + Len(r) + 0 + 1
    BY <1>1, <1>2 DEF NextUp, Held
  <2>3. UpDuring(s)
    BY <1>1, <1>11 DEF UpPath
  <2>4. m + 1 = e /\ From(q, a)
    BY <1>2, <2>3 DEF UpDuring, m
  <2>5. NextUp(s)' = e'
    OBVIOUS
  <2> HIDE DEF a, b, q, r, e
  <2>6. m = a + Len(q) + 1
    <3>1. m \in Nat /\ m + 1 = a + b + 1 + 1 /\ a \in Nat /\ b \in Nat
      BY <1>2, <2>1, <2>4
    <3>2. m = a + b + 1
      BY <3>1
    <3> QED
      BY <2>1, <3>2
  <2>7. Len(r) = b + 1 /\ From(r, a)
    BY <1>2, <2>1, <2>4, <2>6, FromAppend
  <2>8. NextUp(s)' = NextUp(s)
    BY <2>1, <2>2, <2>5, <2>7, OneMore DEF e
  <2>9. From(queue[s], Len(got[s]))'
    BY <1>1, <2>7 DEF a, r
  <2> QED
    BY <1>1, <1>2, <2>3, <2>8, <2>9 DEF UpDuring
<1> QED
  BY <1>1, <1>6, <1>7, <1>8, <1>9, <1>10, <1>11, Others DEF UpPath

\* The target reads a chunk, or the end.
LEMMA ReadOK ==
  ASSUME TunnelInv, NEW s \in Streams, Read(s)
  PROVE  TunnelInv'
<1> DEFINE m == Head(queue[s])
<1>1. /\ Types /\ UpPath(s) /\ DownPath(s)
      /\ UNCHANGED <<dc, toServe, toClient, h, sentBody, cut, known, bodyCh, done, written, cbC,
                     f, eof, live, respSent, cbS>>
      /\ f[s] \in {"do", "resp"} /\ ~gotEof[s]
      /\ \/ /\ queue[s] # <<>> /\ gotEof' = gotEof
            /\ got' = [got EXCEPT ![s] = Append(got[s], m)]
            /\ queue' = [queue EXCEPT ![s] = Tail(queue[s])]
         \/ /\ queue[s] = <<>> /\ eof[s] /\ UNCHANGED <<got, queue>>
            /\ gotEof' = [gotEof EXCEPT ![s] = TRUE]
  BY DEF TunnelInv, Read, chanvars, cvars
<1>2. UpBefore(s) /\ UpDuring(s) /\ UpAlways(s)
  BY <1>1 DEF UpPath
<1>3. /\ queue[s] \in Seq(Nat) /\ got[s] \in Seq(Nat) /\ Len(got[s]) \in Nat
      /\ Len(queue[s]) \in Nat
  BY <1>1, NextIs
<1>4. \A q \in Streams \ {s} : UNCHANGED <<queue[q], got[q], gotEof[q]>>
  BY SMTT(40), <1>1 DEF Types
<1>5. \A q \in Streams \ {s} : Unmoved(q)
  BY <1>1, <1>4 DEF Unmoved, SameWait, Same
<1>6. DownPath(s)'
  BY <1>1, DownFrame DEF SameWait, Same
<1>7. CASE /\ queue[s] # <<>> /\ gotEof' = gotEof
           /\ got' = [got EXCEPT ![s] = Append(got[s], m)]
           /\ queue' = [queue EXCEPT ![s] = Tail(queue[s])]
  <2> DEFINE a == Len(got[s])
             b == Len(queue[s])
             q == queue[s]
             w == got[s]
             v == got'[s]
             r == queue'[s]
  <2>1. /\ a \in Nat /\ b \in Nat /\ q \in Seq(Nat) /\ w \in Seq(Nat) /\ b = Len(q)
        /\ a = Len(w) /\ v = Append(w, m) /\ r = Tail(q) /\ q # <<>> /\ m = Head(q)
        /\ From(q, a) /\ w = Upto(a)
    BY <1>1, <1>2, <1>3, <1>7 DEF Types, UpDuring, UpAlways
  <2>2. got' = [got EXCEPT ![s] = v] /\ queue' = [queue EXCEPT ![s] = r]
    BY <1>1, <1>7 DEF Types
  <2>3. /\ NextUp(s) = a + b + Held(cbS, s) + 1 /\ Held(cbS, s) \in Nat
        /\ NextUp(s)' = Len(v) + Len(r) + Held(cbS, s) + 1
    BY <1>1 DEF NextUp, Held, Waits
  <2> HIDE DEF a, b, q, w, v, r, m
  <2>4. /\ m = a + 1 /\ r \in Seq(Nat) /\ Len(r) = b - 1 /\ From(r, a + 1)
    BY <2>1, FromTail
  <2>5. /\ v \in Seq(Nat) /\ Len(v) = a + 1 /\ v = Upto(Len(v))
    BY <2>1, <2>4, UptoMore
  <2>6. NextUp(s)' = NextUp(s)
    BY <2>1, <2>3, <2>4, <2>5
  <2>7. got' \in [Streams -> Seq(Nat)] /\ queue' \in [Streams -> Seq(Nat)]
    BY <1>1, <2>2, <2>4, <2>5 DEF Types
  <2>8. Types'
    BY <1>1, <1>7, <2>7 DEF Types
  <2>9. UpBefore(s)'
    BY <1>1, <1>2, <1>7 DEF UpBefore, Waits
  <2>10. From(queue[s], Len(got[s]))'
    BY <2>4, <2>5 DEF v, r
  <2>11. UpDuring(s)'
    BY <1>1, <1>2, <1>7, <2>6, <2>10 DEF UpDuring, Waits
  <2>12. UpAlways(s)'
    BY <1>1, <1>2, <1>7, <2>5 DEF UpAlways, v
  <2> QED
    BY <1>1, <1>5, <1>6, <2>8, <2>9, <2>11, <2>12, Others DEF UpPath
<1>8. CASE /\ queue[s] = <<>> /\ eof[s] /\ UNCHANGED <<got, queue>>
           /\ gotEof' = [gotEof EXCEPT ![s] = TRUE]
  <2>1. NextUp(s)' = NextUp(s)
    BY <1>1, <1>8, Zenon DEF NextUp, Held, Waits
  <2>2. Len(got[s]) = sentBody[s]
    <3>1. ~Waits(cbS, s) /\ NextUp(s) = sentBody[s] + 1 /\ sentBody[s] \in Nat
      BY <1>1, <1>2, <1>8, NextIs DEF UpDuring
    <3>2. NextUp(s) = Len(got[s]) + 0 + 0 + 1
      BY <1>8, <3>1, NoBody DEF NextUp, Held
    <3> QED
      BY <1>3, <3>1, <3>2
  <2>3. Types'
    <3>1. gotEof' \in [Streams -> BOOLEAN]
      BY <1>1, <1>8 DEF Types
    <3> QED
      BY <1>1, <1>8, <3>1 DEF Types
  <2>4. UpBefore(s)'
    BY <1>1, <1>2, <1>8 DEF UpBefore, Waits
  <2>5. UpDuring(s)'
    BY <1>1, <1>2, <1>8, <2>1 DEF UpDuring, Waits
  <2>6. UpAlways(s)'
    BY <1>1, <1>2, <1>8, <2>2 DEF UpAlways
  <2> QED
    BY <1>1, <1>5, <1>6, <2>3, <2>4, <2>5, <2>6, Others DEF UpPath
<1> QED
  BY <1>1, <1>7, <1>8

-----------------------------------------------------------------------------
(* Frames that are sent to the client.                                     *)

\* One frame, or three.
LEMMA SentIs ==
  ASSUME NEW fs \in Seq(Frames)
  PROVE  /\ \A a \in Frames : fs \o <<a>> = Append(fs, a)
         /\ \A a, b, c \in Frames :
              fs \o <<a, b, c>> = Append(Append(Append(fs, a), b), c)
<1>1. \A a \in Frames : fs \o <<a>> = Append(fs, a)
  BY AppendIsConcat
<1>2. \A a, b, c \in Frames :
        fs \o <<a, b, c>> = Append(Append(Append(fs, a), b), c)
  <2> SUFFICES ASSUME NEW a \in Frames, NEW b \in Frames, NEW c \in Frames
               PROVE  fs \o <<a, b, c>> = Append(Append(Append(fs, a), b), c)
    OBVIOUS
  <2>1. /\ Append(fs, a) \in Seq(Frames) /\ Append(Append(fs, a), b) \in Seq(Frames)
        /\ Append(Append(Append(fs, a), b), c) \in Seq(Frames)
    BY AppendProperties
  <2> QED
    BY <2>1
<1> QED
  BY <1>1, <1>2

\* What one more frame of s means for the response to s: the end of it is not
\* there yet.
LEMMA DownSends ==
  ASSUME NEW fs \in Seq(Frames), NEW fr \in Frames, NEW s \in Streams, fr.id = s,
         EndIsLast(fs, s), ~Has(fs, s, "end")
  PROVE  /\ Append(fs, fr) \in Seq(Frames) /\ EndIsLast(Append(fs, fr), s)
         /\ Has(Append(fs, fr), s, "end") => fr.typ = "end"
         /\ \A q \in Streams \ {s} : Same(fs, Append(fs, fr), q)
<1>1. \A q \in Streams \ {s} : NotOf(fs, Append(fs, fr), q)
  BY DEF NotOf
<1>2. \A q \in Streams \ {s} : Same(fs, Append(fs, fr), q)
  BY <1>1, OthersKeep, Zenon
<1> QED
  BY <1>2, AppendIs, SendAny DEF Is

\* The goroutine that performs the request of s is over.
LEMMA UpReturns ==
  ASSUME Types, NEW s \in Streams, UpPath(s), f[s] \in {"do", "resp"},
         UNCHANGED <<dc, toServe, cbS, h, sentBody, cut, got, gotEof>>,
         f'[s] = "returned", ~eof'[s]
  PROVE  UpPath(s)'
<1>1. UpBefore(s)'
  BY DEF UpPath, UpBefore, Waits
<1>2. UpAlways(s)'
  BY DEF UpPath, UpAlways
<1> QED
  BY <1>1, <1>2 DEF UpPath

\* The target answers.
LEMMA TargetAnswersOK ==
  ASSUME TunnelInv, NEW s \in Streams, TargetAnswers(s)
  PROVE  TunnelInv'
<1> DEFINE fr == Frame(s, "head", 0)
<1>1. /\ Types /\ UpPath(s) /\ DownPath(s)
      /\ UNCHANGED <<dc, toServe, h, sentBody, cut, known, bodyCh, done, written, cbC,
                     queue, eof, live, got, gotEof, respSent, cbS>>
      /\ f[s] = "do" /\ f' = [f EXCEPT ![s] = "resp"]
      /\ toClient' = IF dc = "open" THEN toClient \o <<fr>> ELSE toClient
  BY DEF TunnelInv, TargetAnswers, ToClient, cvars
<1>2. /\ toClient \in Seq(Frames) /\ fr \in Frames /\ fr.id = s /\ fr.typ = "head"
      /\ ~Is(fr, s, "body")
  BY <1>1 DEF Types, Frames, Frame, Is
<1> HIDE DEF fr
<1>3. /\ Free(toClient, s) /\ written[s] = <<>> /\ bodyCh[s] = <<>> /\ ~Waits(cbC, s)
      /\ respSent[s] = 0 /\ EndIsLast(toClient, s) /\ ~Has(toClient, s, "end")
      /\ Ordered(toClient, s, 1) /\ Full(toClient, s, 1, 0) /\ Below(toClient, s, 0)
  BY SMTT(40), <1>1, FreeIs DEF DownPath, DownAlways
<1>4. toClient' = toClient \/ toClient' = Append(toClient, fr)
  BY <1>1, <1>2, SentIs
<1>5. /\ EndIsLast(toClient', s) /\ ~Has(toClient', s, "end") /\ toClient' \in Seq(Frames)
      /\ \A q \in Streams \ {s} : Same(toClient, toClient', q)
  <2>1. CASE toClient' = toClient
    BY <1>2, <1>3, <2>1 DEF Same
  <2>2. CASE toClient' = Append(toClient, fr)
    BY <1>2, <1>3, <2>2, DownSends
  <2> QED
    BY <1>4, <2>1, <2>2
<1>6. Ordered(toClient', s, 1) /\ Full(toClient', s, 1, 0) /\ Below(toClient', s, 0)
  <2>1. 0 \in Nat /\ 1 \in Nat
    OBVIOUS
  <2>2. CASE toClient' = Append(toClient, fr)
    BY <1>2, <1>3, <2>1, <2>2, SendOther
  <2> QED
    BY <1>3, <1>4, <2>2
<1>7. f'[s] = "resp" /\ \A q \in Streams \ {s} : f'[q] = f[q]
  BY <1>1 DEF Types
<1>8. Types'
  BY <1>1, <1>5, <1>7 DEF Types
<1>9. \A q \in Streams \ {s} : Unmoved(q)
  BY <1>1, <1>5, <1>7 DEF Unmoved, SameWait, Same
<1>10. NextUp(s)' = NextUp(s) /\ NextDown(s)' = 1
  <2>1. NextUp(s)' = NextUp(s)
    BY <1>1 DEF NextUp, Held, Waits
  <2>2. NextDown(s)' = 1
    BY <1>1, <1>3, NoBody DEF NextDown, Held, Waits
  <2> QED
    BY <2>1, <2>2
<1>11. UpBefore(s)' /\ UpDuring(s)' /\ UpAlways(s)'
  <2>1. UpBefore(s)'
    BY <1>1, <1>7 DEF UpPath, UpBefore, Waits
  <2>2. UpDuring(s)'
    BY <1>1, <1>7, <1>10 DEF UpPath, UpDuring, Waits
  <2>3. UpAlways(s)'
    BY <1>1, <1>7 DEF UpPath, UpAlways
  <2> QED
    BY <2>1, <2>2, <2>3
<1>12. s \in known => DownDuring(s)'
  BY <1>1, <1>3, <1>6, <1>7, <1>10, NoBody DEF DownPath, DownDuring, Waits
<1>13. DownAlways(s)'
  BY <1>1, <1>3, <1>5, <1>7 DEF DownPath, DownAlways
<1> QED
  BY <1>1, <1>8, <1>9, <1>11, <1>12, <1>13, Others DEF UpPath, DownPath

\* A chunk of the response is sent.
LEMMA RespBodyOK ==
  ASSUME TunnelInv, NEW s \in Streams, RespBody(s)
  PROVE  TunnelInv'
<1> DEFINE fr == Frame(s, "body", respSent[s] + 1)
           e  == NextDown(s)
           t  == respSent[s]
<1>1. /\ Types /\ UpPath(s) /\ DownPath(s)
      /\ UNCHANGED <<dc, toServe, h, sentBody, cut, known, bodyCh, done, written, cbC,
                     f, queue, eof, live, got, gotEof, cbS>>
      /\ f[s] = "resp" /\ respSent' = [respSent EXCEPT ![s] = t + 1]
      /\ toClient' = IF dc = "open" THEN toClient \o <<fr>> ELSE toClient
  BY DEF TunnelInv, RespBody, ToClient, cvars
<1>2. t \in Nat /\ t + 1 \in Nat /\ e \in Nat
  BY <1>1, NextIs
<1>3. /\ toClient \in Seq(Frames) /\ fr \in Frames /\ fr.id = s /\ fr.typ = "body"
      /\ fr.n = t + 1 /\ Is(fr, s, "body")
  BY <1>1, <1>2 DEF Types, Frames, Frame, Is
<1> HIDE DEF fr, e, t
<1>4. EndIsLast(toClient, s) /\ ~Has(toClient, s, "end")
  BY <1>1 DEF DownPath, DownAlways
<1>5. /\ dc = "open" => toClient' = Append(toClient, fr)
      /\ dc # "open" => toClient' = toClient /\ toClient' = <<>>
  BY <1>1, <1>3, SentIs DEF Types
<1>6. /\ EndIsLast(toClient', s) /\ ~Has(toClient', s, "end") /\ toClient' \in Seq(Frames)
      /\ \A q \in Streams \ {s} : Same(toClient, toClient', q)
  <2>1. CASE dc # "open"
    BY <1>3, <1>4, <1>5, <2>1 DEF Same
  <2>2. CASE dc = "open"
    BY <1>3, <1>4, <1>5, <2>2, DownSends, Zenon
  <2> QED
    BY <2>1, <2>2
<1>7. respSent'[s] = t + 1 /\ \A q \in Streams \ {s} : respSent'[q] = respSent[q]
  BY <1>1 DEF Types
<1>8. Types'
  <2>1. respSent' \in [Streams -> Nat]
    BY <1>1, <1>2 DEF Types
  <2> QED
    BY <1>1, <1>5, <1>6, <2>1 DEF Types
<1>9. \A q \in Streams \ {s} : Unmoved(q)
  BY <1>1, <1>6, <1>7 DEF Unmoved, SameWait, Same
<1>10. UpPath(s)'
  BY <1>1, UpFrame DEF SameWait, Same
<1>11. NextDown(s)' = e
  BY <1>1 DEF NextDown, Held, Waits, e
<1>12. ASSUME s \in known PROVE DownDuring(s)'
  <2>1. DownDuring(s)
    BY <1>1, <1>12 DEF DownPath
  <2>2. Ordered(toClient, s, e) /\ Below(toClient, s, t) /\ (dc = "open" => Full(toClient, s, e, t))
    BY <1>1, <2>1 DEF DownDuring, e, t
  <2>3. /\ Ordered(toClient', s, e) /\ Below(toClient', s, t + 1)
        /\ dc = "open" => Full(toClient', s, e, t + 1)
    <3>1. CASE dc = "open"
      BY <1>2, <1>3, <1>5, <2>2, <3>1, SendChunk, Zenon
    <3>2. CASE dc # "open"
      BY <1>2, <1>5, <3>2, NoFrames
    <3> QED
      BY <3>1, <3>2
  <2> QED
    BY <1>1, <1>7, <1>11, <2>1, <2>3 DEF DownDuring, Waits, e
<1>13. DownAlways(s)'
  BY <1>1, <1>6, <1>7 DEF DownPath, DownAlways
<1> QED
  BY <1>1, <1>8, <1>9, <1>10, <1>12, <1>13, Others DEF DownPath

\* The response ends.
LEMMA RespEndOK ==
  ASSUME TunnelInv, NEW s \in Streams, RespEnd(s)
  PROVE  TunnelInv'
<1> DEFINE fr == Frame(s, "end", 0)
           e  == NextDown(s)
<1>1. /\ Types /\ UpPath(s) /\ DownPath(s)
      /\ UNCHANGED <<dc, toServe, h, sentBody, cut, known, bodyCh, done, written, cbC,
                     got, gotEof, respSent, cbS>>
      /\ f[s] = "resp" /\ f' = [f EXCEPT ![s] = "returned"] /\ live' = live \ {s}
      /\ queue' = [queue EXCEPT ![s] = <<>>] /\ eof' = [eof EXCEPT ![s] = FALSE]
      /\ toClient' = IF dc = "open" THEN toClient \o <<fr>> ELSE toClient
  BY DEF TunnelInv, RespEnd, ForwardReturns, ToClient, cvars
<1>2. /\ toClient \in Seq(Frames) /\ fr \in Frames /\ fr.id = s /\ fr.typ = "end"
      /\ ~Is(fr, s, "body") /\ e \in Nat
  BY <1>1, NextIs, Zenon DEF Types, Frames, Frame, Is
<1> HIDE DEF fr, e
<1>3. EndIsLast(toClient, s) /\ ~Has(toClient, s, "end")
  BY <1>1 DEF DownPath, DownAlways
<1>4. /\ dc = "open" => toClient' = Append(toClient, fr)
      /\ dc # "open" => toClient' = toClient /\ toClient' = <<>>
  BY <1>1, <1>2, SentIs DEF Types
<1>5. /\ EndIsLast(toClient', s) /\ toClient' \in Seq(Frames)
      /\ \A q \in Streams \ {s} : Same(toClient, toClient', q)
  <2>1. CASE dc # "open"
    BY <1>2, <1>3, <1>4, <2>1 DEF Same
  <2>2. CASE dc = "open"
    BY <1>2, <1>3, <1>4, <2>2, DownSends, Zenon
  <2> QED
    BY <2>1, <2>2
<1>6. /\ f'[s] = "returned" /\ ~eof'[s] /\ eof' \in [Streams -> BOOLEAN]
      /\ queue' \in [Streams -> Seq(Nat)]
      /\ \A q \in Streams \ {s} : UNCHANGED <<f[q], queue[q], eof[q]>>
  BY <1>1, NoBody DEF Types
<1>7. Types'
  BY <1>1, <1>4, <1>5, <1>6, Zenon DEF Types
<1>8. \A q \in Streams \ {s} : Unmoved(q)
  BY <1>1, <1>5, <1>6 DEF Unmoved, SameWait, Same
<1>9. UpPath(s)'
  BY <1>1, <1>6, UpReturns
<1>10. NextDown(s)' = e
  BY <1>1 DEF NextDown, Held, Waits, e
<1>11. ASSUME s \in known PROVE DownDuring(s)'
  <2>1. DownDuring(s) /\ ~done[s]
    BY <1>1, <1>11 DEF DownPath, DownDuring
  <2>2. Ordered(toClient', s, e)
    <3>1. Ordered(toClient, s, e) /\ 0 \in Nat
      BY <2>1 DEF DownDuring, e
    <3>2. CASE dc = "open"
      BY <1>2, <1>4, <3>1, <3>2, SendOther, Zenon
    <3> QED
      BY <1>4, <3>1, <3>2
  <2> QED
    BY <1>1, <1>6, <1>10, <2>1, <2>2 DEF DownDuring, Waits, e
<1>12. DownAlways(s)'
  BY <1>1, <1>5, <1>6 DEF DownPath, DownAlways
<1> QED
  BY <1>1, <1>7, <1>8, <1>9, <1>11, <1>12, Others DEF DownPath

\* The target cannot be reached: the client is sent a response that says so.
LEMMA DoFailsOK ==
  ASSUME TunnelInv, NEW s \in Streams, DoFails(s)
  PROVE  TunnelInv'
<1> DEFINE a == Frame(s, "head", 0)
           b == Frame(s, "body", 1)
           c == Frame(s, "end", 0)
           f1 == Append(toClient, a)
           f2 == Append(f1, b)
           f3 == Append(f2, c)
<1>1. /\ Types /\ UpPath(s) /\ DownPath(s)
      /\ UNCHANGED <<dc, toServe, h, sentBody, cut, known, bodyCh, done, written, cbC,
                     got, gotEof, respSent, cbS>>
      /\ f[s] = "do" /\ f' = [f EXCEPT ![s] = "returned"] /\ live' = live \ {s}
      /\ queue' = [queue EXCEPT ![s] = <<>>] /\ eof' = [eof EXCEPT ![s] = FALSE]
      /\ toClient' = IF dc = "open" THEN toClient \o <<a, b, c>> ELSE toClient
  BY DEF TunnelInv, DoFails, ForwardReturns, ToClient, cvars
<1>2. /\ toClient \in Seq(Frames) /\ a \in Frames /\ b \in Frames /\ c \in Frames
      /\ a.id = s /\ a.typ = "head" /\ ~Is(a, s, "body")
      /\ b.id = s /\ b.typ = "body" /\ Is(b, s, "body") /\ b.n = 0 + 1
      /\ c.id = s /\ c.typ = "end" /\ ~Is(c, s, "body")
  BY <1>1 DEF Types, Frames, Frame, Is
<1> HIDE DEF a, b, c
<1>3. /\ Free(toClient, s) /\ written[s] = <<>> /\ bodyCh[s] = <<>> /\ ~Waits(cbC, s)
      /\ EndIsLast(toClient, s) /\ ~Has(toClient, s, "end")
      /\ Ordered(toClient, s, 1) /\ Full(toClient, s, 1, 0) /\ Below(toClient, s, 0)
  BY <1>1, FreeIs DEF DownPath, DownAlways
<1>4. /\ dc = "open" => toClient' = f3
      /\ dc # "open" => toClient' = toClient /\ toClient' = <<>>
  BY SMTT(40), <1>1, <1>2, SentIs DEF Types
<1>5. /\ f1 \in Seq(Frames) /\ EndIsLast(f1, s) /\ ~Has(f1, s, "end")
      /\ \A q \in Streams \ {s} : Same(toClient, f1, q)
  BY <1>2, <1>3, DownSends
<1>6. Ordered(f1, s, 1) /\ Full(f1, s, 1, 0) /\ Below(f1, s, 0)
  <2>1. 0 \in Nat /\ 1 \in Nat
    OBVIOUS
  <2> QED
    BY <1>2, <1>3, <2>1, SendOther
<1> HIDE DEF f1
<1>7. /\ f2 \in Seq(Frames) /\ EndIsLast(f2, s) /\ ~Has(f2, s, "end")
      /\ \A q \in Streams \ {s} : Same(f1, f2, q)
  BY <1>2, <1>5, DownSends
<1>8. Ordered(f2, s, 1)
  <2>1. 0 \in Nat /\ 1 \in Nat
    OBVIOUS
  <2> QED
    BY <1>2, <1>5, <1>6, <2>1, SendChunk
<1> HIDE DEF f2
<1>9. /\ f3 \in Seq(Frames) /\ EndIsLast(f3, s)
      /\ \A q \in Streams \ {s} : Same(f2, f3, q)
  BY <1>2, <1>7, DownSends
<1>10. Ordered(f3, s, 1)
  <2>1. 0 \in Nat /\ 1 \in Nat
    OBVIOUS
  <2> QED
    BY <1>2, <1>7, <1>8, <2>1, SendOther
<1> HIDE DEF f3
<1>11. /\ EndIsLast(toClient', s) /\ toClient' \in Seq(Frames) /\ Ordered(toClient', s, 1)
       /\ \A q \in Streams \ {s} : Same(toClient, toClient', q)
  <2>1. CASE dc # "open"
    BY <1>2, <1>3, <1>4, <2>1 DEF Same
  <2>2. CASE dc = "open"
    <3>1. \A q \in Streams \ {s} : Same(toClient, f3, q)
      BY <1>5, <1>7, <1>9, Zenon DEF Same
    <3> QED
      BY <1>4, <1>9, <1>10, <2>2, <3>1
  <2> QED
    BY <2>1, <2>2
<1>12. /\ f'[s] = "returned" /\ ~eof'[s] /\ eof' \in [Streams -> BOOLEAN]
       /\ queue' \in [Streams -> Seq(Nat)]
       /\ \A q \in Streams \ {s} : UNCHANGED <<f[q], queue[q], eof[q]>>
  BY <1>1, NoBody DEF Types
<1>13. Types'
  BY <1>1, <1>4, <1>11, <1>12, Zenon DEF Types
<1>14. \A q \in Streams \ {s} : Unmoved(q)
  BY <1>1, <1>11, <1>12, Zenon DEF Unmoved, SameWait, Same
<1>15. UpPath(s)'
  BY <1>1, <1>12, UpReturns
<1>16. NextDown(s)' = 1
  BY <1>1, <1>3, NoBody DEF NextDown, Held, Waits
<1>17. ASSUME s \in known PROVE DownDuring(s)'
  <2>1. ~done[s]
    BY <1>1, <1>17 DEF DownPath, DownDuring
  <2> QED
    BY <1>1, <1>3, <1>11, <1>12, <1>16, <2>1, NoBody DEF DownDuring, Waits
<1>18. DownAlways(s)'
  BY <1>1, <1>11, <1>12 DEF DownPath, DownAlways
<1> QED
  BY <1>1, <1>13, <1>14, <1>15, <1>17, <1>18, Others DEF DownPath

-----------------------------------------------------------------------------
(* The callback of the client side.                                        *)

\* The callback takes a frame.
LEMMA ClientReceivesOK ==
  ASSUME TunnelInv, ClientReceives,
         NEW fr \in Frames, NEW s \in Streams, fr = Head(toClient), s = fr.id
  PROVE  TunnelInv'
<1>1. /\ Types /\ UpPath(s) /\ DownPath(s)
      /\ UNCHANGED <<dc, toServe, h, sentBody, cut, known, written, cbS,
                     f, queue, eof, live, got, gotEof, respSent>>
      /\ cbC = NoFrame /\ toClient # <<>> /\ toClient' = Tail(toClient)
      /\ \/ fr.typ = "head" /\ s \in known /\ UNCHANGED <<bodyCh, done, cbC>>
         \/ /\ fr.typ = "body" /\ s \in known /\ UNCHANGED done
            /\ \/ bodyCh' = [bodyCh EXCEPT ![s] = Append(bodyCh[s], fr.n)] /\ cbC' = cbC
               \/ cbC' = fr /\ bodyCh' = bodyCh
         \/ /\ fr.typ = "end" /\ s \in known
            /\ done' = [done EXCEPT ![s] = TRUE] /\ UNCHANGED <<bodyCh, cbC>>
         \/ s \notin known /\ UNCHANGED <<bodyCh, done, cbC>>
  <2>1. fr.typ \in {"head", "body", "end"}
    BY FrameIs
  <2> QED
    BY <2>1 DEF TunnelInv, ClientReceives, Deliver, svars
<1>2. /\ toClient \in Seq(Frames) /\ NextDown(s) \in Nat /\ respSent[s] \in Nat
      /\ ~Waits(cbC, s)
  BY <1>1, NextIs DEF Types, Waits
<1>3. /\ fr.n \in Nat /\ (fr.typ = "body" => fr \in Bodies /\ fr # NoFrame)
      /\ \A typ : Is(fr, s, typ) <=> fr.typ = typ
  BY FrameIs
<1>4. /\ \A q \in Streams \ {s} : UNCHANGED <<bodyCh[q], done[q]>> /\ SameWait(cbC, cbC', q)
  BY <1>1, <1>3, Zenon DEF Types, SameWait, Waits
<1>5. \A q \in Streams \ {s} : Unmoved(q)
  <2> SUFFICES ASSUME NEW q \in Streams \ {s} PROVE Unmoved(q)
    BY Zenon
  <2>1. NotOf(toClient, toClient', q)
    BY <1>1 DEF NotOf
  <2>2. Same(toClient, toClient', q)
    BY <1>2, <2>1, OthersKeep
  <2> QED
    BY <1>1, <1>4, <2>2 DEF Unmoved, SameWait, Same
<1>6. Types'
  <2>1. toClient' \in Seq(Frames) /\ dc = "open"
    BY <1>1, <1>2, TailIs DEF Types
  <2>2. bodyCh' \in [Streams -> Seq(Nat)]
    <3> DEFINE q == Append(bodyCh[s], fr.n)
    <3>1. bodyCh \in [Streams -> Seq(Nat)] /\ q \in Seq(Nat)
      BY <1>1, <1>3, NextIs, AppendProperties DEF Types
    <3>2. bodyCh' = bodyCh \/ bodyCh' = [bodyCh EXCEPT ![s] = q]
      BY <1>1
    <3> HIDE DEF q
    <3> QED
      BY <3>1, <3>2, Zenon
  <2>3. done' \in [Streams -> BOOLEAN]
    BY <1>1, <1>3, Zenon DEF Types
  <2>4. cbC' \in Bodies \union {NoFrame}
    BY <1>1, <1>3 DEF Types
  <2> QED
    BY <1>1, <2>1, <2>2, <2>3, <2>4, Zenon DEF Types
<1>7. UpPath(s)'
  BY <1>1, UpFrame DEF SameWait, Same
<1>8. /\ EndIsLast(toClient, s) => EndIsLast(toClient', s)
      /\ Free(toClient, s) => FALSE
      /\ Below(toClient, s, respSent[s]) => Below(toClient', s, respSent[s])
      /\ \A typ : Has(toClient', s, typ) => Has(toClient, s, typ)
      /\ fr.typ = "end" => Has(toClient, s, "end")
  BY <1>1, <1>2, <1>3, TakeAny, Zenon
<1>9. f[s] \notin {"none", "do"} /\ (h[s] = "idle" => s \notin known)
  BY <1>1, <1>8 DEF DownPath, DownAlways, Types
<1>10. DownAlways(s)'
  BY <1>1, <1>8, <1>9 DEF DownPath, DownAlways
<1>11. fr.typ # "body" =>
         /\ Ordered(toClient, s, NextDown(s)) => Ordered(toClient', s, NextDown(s))
         /\ Full(toClient, s, NextDown(s), respSent[s])
              => Full(toClient', s, NextDown(s), respSent[s])
  BY <1>1, <1>2, <1>3, TakeOther, Zenon
<1>12. ASSUME s \in known PROVE DownDuring(s)'
  <2>1. DownDuring(s)
    BY <1>1, <1>12 DEF DownPath
  <2>2. CASE fr.typ = "head" /\ UNCHANGED <<bodyCh, done, cbC>>
    <3>1. NextDown(s)' = NextDown(s)
      BY SMTT(40), <1>1, <2>2 DEF NextDown, Held, Waits
    <3> QED
      BY <1>1, <1>2, <1>8, <1>11, <2>1, <2>2, <3>1 DEF DownDuring, Waits
  <2>3. CASE /\ fr.typ = "body" /\ UNCHANGED done
             /\ \/ bodyCh' = [bodyCh EXCEPT ![s] = Append(bodyCh[s], fr.n)] /\ cbC' = cbC
                \/ cbC' = fr /\ bodyCh' = bodyCh
    <3> DEFINE e == NextDown(s)
               t == respSent[s]
               a == Len(written[s])
               b == Len(bodyCh[s])
               q == bodyCh[s]
               r == bodyCh'[s]
               m == fr.n
    <3>1. /\ Ordered(toClient, s, e) /\ (f[s] = "resp" => Below(toClient, s, t))
          /\ (f[s] = "resp" /\ dc = "open" => Full(toClient, s, e, t))
      BY SMTT(40), <2>1 DEF DownDuring
    <3>2. /\ m = e /\ Ordered(toClient', s, e + 1)
          /\ f[s] = "resp" /\ dc = "open" => Full(toClient', s, e + 1, t)
      BY <1>1, <1>2, <1>3, <2>3, <3>1, TakeBody
    <3>3. ~done[s]
      BY <1>8, <2>1 DEF DownDuring
    <3>4. /\ a \in Nat /\ b \in Nat /\ q \in Seq(Nat) /\ b = Len(q) /\ From(q, a)
          /\ e = a + b + 0 + 1
      BY <1>1, <1>2, <2>1, NextIs, Zenon DEF DownDuring, NextDown, Held
    <3>5. NextDown(s)' = e + 1 /\ From(r, a) /\ (Waits(cbC', s) => cbC'.n = m)
      <4>1. CASE bodyCh' = [bodyCh EXCEPT ![s] = Append(bodyCh[s], fr.n)] /\ cbC' = cbC
        <5>1. r = Append(q, m) /\ ~Waits(cbC', s)
          BY <1>1, <1>2, <4>1 DEF Types, Waits
        <5>2. NextDown(s)' = a + Len(r) + 0 + 1
          BY <1>1, <5>1 DEF NextDown, Held
        <5>3. m \in Nat
          BY <1>3
        <5> HIDE DEF e, t, a, b, q, r, m
        <5>4. m = a + Len(q) + 1
          BY <3>2, <3>4, <5>3
        <5>5. Len(r) = b + 1 /\ From(r, a)
          BY <3>4, <5>1, <5>3, <5>4, FromAppend
        <5> QED
          BY SMTT(40), <3>4, <5>1, <5>2, <5>5, OneMore
      <4>2. CASE cbC' = fr /\ bodyCh' = bodyCh
        <5>1. Waits(cbC', s) /\ r = q /\ cbC'.n = m
          BY <1>1, <1>3, <2>3, <4>2 DEF Waits
        <5>2. NextDown(s)' = a + b + 1 + 1
          BY <1>1, <4>2, <5>1 DEF NextDown, Held
        <5> HIDE DEF e, t, a, b, q, r, m
        <5>3. b + 1 = b + 1
          OBVIOUS
        <5> QED
          BY <3>4, <5>1, <5>2, <5>3, OneMore
      <4> QED
        BY <2>3, <4>1, <4>2
    <3>6. f[s] = "resp" => Below(toClient', s, t)
      BY <1>8, <3>1
    <3> HIDE DEF e, t, b, q, m
    <3>7. From(bodyCh[s], Len(written[s]))'
      BY <1>1, <3>5 DEF a, r
    <3>8. Waits(cbC, s)' => cbC'.n + 1 = NextDown(s)'
      BY <3>2, <3>5
    <3>9. /\ Ordered(toClient, s, NextDown(s))'
          /\ (f[s] = "resp" /\ dc = "open" => Full(toClient, s, NextDown(s), respSent[s]))'
      BY <1>1, <3>2, <3>5 DEF t
    <3> QED
      BY <1>1, <2>3, <3>3, <3>6, <3>7, <3>8, <3>9 DEF DownDuring, Waits, t
  <2>4. CASE /\ fr.typ = "end" /\ done' = [done EXCEPT ![s] = TRUE]
             /\ UNCHANGED <<bodyCh, cbC>>
    <3>1. NextDown(s)' = NextDown(s)
      BY <1>1, <2>4 DEF NextDown, Held, Waits
    <3>2. f[s] = "returned" /\ EndIsLast(toClient, s)
      BY <1>1, <1>8, <2>4 DEF DownPath, DownAlways
    <3>3. Free(toClient', s)
      BY <1>1, <1>2, <1>3, <2>4, <3>2, FirstFrame
    <3> QED
      BY <1>1, <1>2, <1>8, <1>11, <2>1, <2>4, <3>1, <3>2, <3>3 DEF DownDuring, Waits
  <2> QED
    BY <1>1, <1>12, <2>2, <2>3, <2>4
<1> QED
  BY <1>1, <1>5, <1>6, <1>7, <1>10, <1>12, Others DEF DownPath

\* The callback finds room, or drops the chunk.
LEMMA ClientUnblocksOK ==
  ASSUME TunnelInv, ClientUnblocks, NEW s \in Streams, cbC.id = s
  PROVE  TunnelInv'
<1> DEFINE m == cbC.n
<1>1. /\ Types /\ UpPath(s) /\ DownPath(s)
      /\ UNCHANGED <<dc, toServe, toClient, h, sentBody, cut, known, done, written, cbS,
                     f, queue, eof, live, got, gotEof, respSent>>
      /\ cbC # NoFrame /\ cbC' = NoFrame /\ cbC \in Bodies
      /\ \/ done[s] /\ bodyCh' = bodyCh
         \/ s \in known /\ bodyCh' = [bodyCh EXCEPT ![s] = Append(bodyCh[s], m)]
  BY DEF TunnelInv, Types, ClientUnblocks, Deliver, chanvars, svars
<1>2. /\ m \in Nat /\ Waits(cbC, s) /\ ~Waits(cbC', s)
      /\ \A q \in Streams \ {s} : SameWait(cbC, cbC', q)
  BY <1>1 DEF Bodies, Waits, SameWait
<1> HIDE DEF m
<1>3. bodyCh[s] \in Seq(Nat) /\ Len(written[s]) \in Nat /\ Len(bodyCh[s]) \in Nat
  BY <1>1, NextIs
<1>4. f[s] \notin {"none", "do"}
  BY <1>1, <1>2 DEF DownPath, DownAlways
<1>5. \A q \in Streams \ {s} : bodyCh'[q] = bodyCh[q]
  BY <1>1 DEF Types
<1>6. \A q \in Streams \ {s} : Unmoved(q)
  BY <1>1, <1>2, <1>5 DEF Unmoved, SameWait, Same
<1>7. Types'
  <2> DEFINE q == Append(bodyCh[s], m)
  <2>1. q \in Seq(Nat) /\ bodyCh \in [Streams -> Seq(Nat)]
    BY <1>1, <1>2, <1>3, AppendProperties DEF Types
  <2>2. bodyCh' = bodyCh \/ bodyCh' = [bodyCh EXCEPT ![s] = q]
    BY <1>1
  <2> HIDE DEF q
  <2>3. bodyCh' \in [Streams -> Seq(Nat)]
    BY <2>1, <2>2
  <2> QED
    BY <1>1, <2>3 DEF Types
<1>8. UpPath(s)'
  BY <1>1, UpFrame DEF SameWait, Same
<1>9. DownAlways(s)'
  BY <1>1, <1>4 DEF DownPath, DownAlways
<1>10. ASSUME s \in known PROVE DownDuring(s)'
  <2> DEFINE a == Len(written[s])
             b == Len(bodyCh[s])
             q == bodyCh[s]
             r == bodyCh'[s]
             e == NextDown(s)
  <2>1. DownDuring(s) /\ ~done[s]
    BY <1>1, <1>2, <1>10 DEF DownPath, DownDuring
  <2>2. /\ a \in Nat /\ b \in Nat /\ q \in Seq(Nat) /\ b = Len(q) /\ r = Append(q, m)
        /\ e = a + b + 1 + 1
    BY <1>1, <1>2, <1>3, <2>1 DEF Types, NextDown, Held
  <2>3. NextDown(s)' = a + Len(r) + 0 + 1
    BY <1>1, <1>2 DEF NextDown, Held
  <2>4. m + 1 = e /\ From(q, a)
    BY <1>2, <2>1 DEF DownDuring, m
  <2> HIDE DEF a, b, q, r, e
  <2>5. m = a + Len(q) + 1
    <3>1. m \in Nat /\ m + 1 = a + b + 1 + 1 /\ a \in Nat /\ b \in Nat
      BY <1>2, <2>2, <2>4
    <3>2. m = a + b + 1
      BY <3>1
    <3> QED
      BY <2>2, <3>2
  <2>6. Len(r) = b + 1 /\ From(r, a)
    BY <1>2, <2>2, <2>4, <2>5, FromAppend
  <2>7. NextDown(s)' = NextDown(s)
    BY <2>2, <2>3, <2>6, OneMore DEF e
  <2>8. From(bodyCh[s], Len(written[s]))'
    BY <1>1, <2>6 DEF a, r
  <2> QED
    BY <1>1, <1>2, <2>1, <2>7, <2>8 DEF DownDuring, Waits
<1> QED
  BY <1>1, <1>6, <1>7, <1>8, <1>9, <1>10, Others DEF DownPath

-----------------------------------------------------------------------------
(* The channel, and all steps.                                             *)

\* The channel closes.
LEMMA DisconnectOK ==
  ASSUME TunnelInv, Disconnect
  PROVE  TunnelInv'
<1>1. /\ Types /\ dc' = "closed" /\ toServe' = <<>> /\ toClient' = <<>>
      /\ UNCHANGED <<h, sentBody, cut, known, bodyCh, done, written, cbC,
                     f, queue, eof, live, got, gotEof, respSent, cbS>>
  BY DEF TunnelInv, Disconnect, cvars, svars
<1>2. Types'
  BY <1>1 DEF Types
<1> SUFFICES ASSUME NEW s \in Streams PROVE UpPath(s)' /\ DownPath(s)'
  BY <1>2 DEF TunnelInv
<1>3. /\ UpPath(s) /\ DownPath(s) /\ NextUp(s) \in Nat /\ NextDown(s) \in Nat
      /\ sentBody[s] \in Nat /\ respSent[s] \in Nat
  BY <1>1, NextIs DEF TunnelInv
<1>4. NextUp(s)' = NextUp(s) /\ NextDown(s)' = NextDown(s)
  BY <1>1 DEF NextUp, NextDown, Held, Waits
<1>5. /\ Free(<<>>, s) /\ EndIsLast(<<>>, s) /\ OneHead(<<>>, s) /\ HeadFirst(<<>>, s)
      /\ Ordered(<<>>, s, NextUp(s)) /\ Below(<<>>, s, sentBody[s])
      /\ Ordered(<<>>, s, NextDown(s)) /\ Below(<<>>, s, respSent[s])
      /\ \A typ : ~Has(<<>>, s, typ)
  BY <1>3, NoFrames
<1>6. UpBefore(s)'
  BY <1>1, <1>3, <1>5 DEF UpPath, UpBefore, Waits
<1>7. UpDuring(s) => UpDuring(s)'
  BY <1>1, <1>4, <1>5 DEF UpDuring, Waits
<1>8. UpAlways(s)'
  BY <1>1, <1>3, <1>5 DEF UpPath, UpAlways
<1>9. DownDuring(s) => DownDuring(s)'
  BY <1>1, <1>4, <1>5 DEF DownDuring, Waits
<1>10. DownAlways(s)'
  BY <1>1, <1>3, <1>5 DEF DownPath, DownAlways, Waits
<1> QED
  BY <1>1, <1>3, <1>6, <1>7, <1>8, <1>9, <1>10 DEF UpPath, DownPath

\* A step that changes nothing.
LEMMA StutterOK ==
  ASSUME TunnelInv, UNCHANGED vars
  PROVE  TunnelInv'
<1>1. Types'
  BY DEF TunnelInv, Types, vars, chanvars, cvars, svars
<1> SUFFICES ASSUME NEW s \in Streams PROVE UpPath(s)' /\ DownPath(s)'
  BY <1>1 DEF TunnelInv
<1>2. UpPath(s)'
  BY UpFrame DEF TunnelInv, SameWait, Same, vars, chanvars, cvars, svars
<1>3. DownPath(s)'
  BY DownFrame DEF TunnelInv, SameWait, Same, vars, chanvars, cvars, svars
<1> QED
  BY <1>2, <1>3

\* Every step keeps the invariant.
LEMMA StepOK == TunnelInv /\ [Next]_vars => TunnelInv'
<1> SUFFICES ASSUME TunnelInv, [Next]_vars PROVE TunnelInv'
  OBVIOUS
<1>1. ASSUME NEW s \in Streams, Start(s) \/ Handler(s) PROVE TunnelInv'
  BY <1>1, StartOK, SendHeadOK, SendBodyOK, SendEndOK, SilentOK, GivesUpOK, RelayBodyOK
     DEF Handler
<1>2. CASE ClientReceives
  <2>1. toClient \in Seq(Frames) /\ toClient # <<>>
    BY <1>2 DEF TunnelInv, Types, ClientReceives
  <2>2. Head(toClient) \in Frames
    BY <2>1, TailIs
  <2>3. Head(toClient).id \in Streams
    BY <2>2, FrameIs
  <2> QED
    BY <1>2, <2>2, <2>3, ClientReceivesOK
<1>3. CASE ClientUnblocks
  <2>1. cbC.id \in Streams
    BY <1>3 DEF TunnelInv, Types, ClientUnblocks, Bodies
  <2> QED
    BY <1>3, <2>1, ClientUnblocksOK
<1>4. CASE ServeReceives
  <2>1. toServe \in Seq(Frames) /\ toServe # <<>>
    BY <1>4 DEF TunnelInv, Types, ServeReceives
  <2>2. Head(toServe) \in Frames
    BY <2>1, TailIs
  <2>3. Head(toServe).id \in Streams
    BY <2>2, FrameIs
  <2> QED
    BY <1>4, <2>2, <2>3, ServeReceivesOK
<1>5. CASE ServeUnblocks
  <2>1. cbS.id \in Streams
    BY <1>5 DEF TunnelInv, Types, ServeUnblocks, Bodies
  <2> QED
    BY <1>5, <2>1, ServeUnblocksOK
<1>6. ASSUME NEW s \in Streams, Read(s) \/ Forward(s) \/ TargetAnswers(s) \/ RespBody(s)
      PROVE  TunnelInv'
  BY <1>6, ReadOK, DoFailsOK, RespEndOK, TargetAnswersOK, RespBodyOK DEF Forward
<1>7. CASE Disconnect
  BY <1>7, DisconnectOK
<1>8. CASE UNCHANGED vars
  BY <1>8, StutterOK
<1> QED
  BY <1>1, <1>2, <1>3, <1>4, <1>5, <1>6, <1>7, <1>8 DEF Next

\* The invariant holds all the time.
LEMMA AlwaysTunnelInv == Spec => []TunnelInv
  BY InitOK, StepOK, PTL DEF Spec

\* The target and the browser are given the beginning of a body, in order and
\* without a gap, whatever the queues hold and whenever the channel closes.
THEOREM BodiesAlwaysInOrder == Spec => []BodiesInOrder
<1>1. TunnelInv => BodiesInOrder
  BY Zenon DEF TunnelInv, UpPath, UpAlways, DownPath, DownAlways, BodiesInOrder
<1> QED
  BY <1>1, AlwaysTunnelInv, PTL

\* The end of a request body is never seen before the whole of it, unless the
\* browser broke the upload off.
THEOREM EndAlwaysMeansWhole == Spec => []EndMeansWhole
<1>1. ASSUME TunnelInv, NEW s \in Streams, gotEof[s], ~cut[s]
      PROVE  Len(got[s]) = Up[s]
  BY <1>1 DEF TunnelInv, UpPath, UpAlways
<1>2. TunnelInv => EndMeansWhole
  BY <1>1 DEF EndMeansWhole
<1> QED
  BY <1>2, AlwaysTunnelInv, PTL

-----------------------------------------------------------------------------
(* How the client side gets its data channel (TunnelConnect): main sets    *)
(* onOpen when Connect has returned, Connect returns when openCh is        *)
(* closed, and pion's callback reads onOpen before it closes openCh.       *)
VARIABLES dial, channel, fired, onOpen, callback, opened, conn, served

Dialled == INSTANCE TunnelConnect

\* The inductive invariant: onOpen is set too late in every turn of the loop, so
\* that the callback finds nothing to run and nothing it would do is done.
TooLate ==
  /\ dial = "got" \/ onOpen => fired \in {"woke", "done"}
  /\ ~callback /\ ~opened /\ ~conn /\ ~served

\* A new client has not dialled.
LEMMA DialledInit == Dialled!Init => TooLate
  BY DEF Dialled!Init, TooLate

\* Every step of the dialling goroutine, of pion and of the browser keeps it so.
LEMMA DialledNext == TooLate /\ [Dialled!Next]_Dialled!vars => TooLate'
<1> SUFFICES ASSUME TooLate, [Dialled!Next]_Dialled!vars PROVE TooLate'
  OBVIOUS
<1> USE DEF TooLate
<1>1. CASE Dialled!Connect \/ Dialled!Connected \/ Dialled!Again \/ Dialled!OnOpen \/ Dialled!Opened
  BY <1>1 DEF Dialled!Connect, Dialled!Connected, Dialled!Again, Dialled!OnOpen, Dialled!Opened
<1>2. CASE Dialled!ConnectFails \/ Dialled!NotOpened \/ Dialled!ChannelUp
  BY <1>2 DEF Dialled!ConnectFails, Dialled!NotOpened, Dialled!ChannelUp
<1>3. CASE Dialled!ReadOnOpen
  BY <1>3 DEF Dialled!ReadOnOpen
<1>4. CASE Dialled!CloseOpenCh \/ Dialled!RunCallback
  BY <1>4 DEF Dialled!CloseOpenCh, Dialled!RunCallback
<1>5. CASE Dialled!Request
  BY <1>5, Zenon DEF Dialled!Request
<1>6. CASE UNCHANGED Dialled!vars
  BY <1>6 DEF Dialled!vars
<1> QED
  BY <1>1, <1>2, <1>3, <1>4, <1>5, <1>6 DEF Dialled!Next, Dialled!Dialler, Dialled!Pion

\* However often the client dials and whatever opens, fails or closes, its callback
\* never runs, client.conn is never set and no request is sent through the tunnel
\* (cmd/webrtc-proxy/main.go, peerjs/peer.go, peerjs/connection.go).
THEOREM NeverTunnelled == Dialled!Spec => [](~opened /\ ~conn /\ ~served)
<1>1. TooLate => ~opened /\ ~conn /\ ~served
  BY DEF TooLate
<1> QED
  BY <1>1, DialledInit, DialledNext, PTL DEF Dialled!Spec

\* The promise of main.go:8-9 is broken by every fair behaviour in which Connect
\* succeeds again and again, and not only by the one TLC shows.
THEOREM PromiseAlwaysBroken ==
  Dialled!Spec /\ []<>(dial = "got") => ~Dialled!RequestsAreTunnelled
  BY NeverTunnelled, PTL DEF Dialled!RequestsAreTunnelled
=============================================================================
