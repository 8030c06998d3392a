---------------------------- MODULE RelayPromise ----------------------------
(***************************************************************************)
(* What capture-proxy promises of a stream it relays, seen from the client *)
(* and from the handler that called forwardStream: either nothing was sent *)
(* and the handler may try the next stack, or the stream that was begun is *)
(* ended by exactly one [DONE], unless the client has left.                *)
(***************************************************************************)
EXTENDS Naturals

VARIABLES
  head,   \* the response header has been sent
  seals,  \* [DONE] lines the client was sent
  left,   \* the client has gone away
  back    \* what the caller is told: "none" yet, "retry" or "served"

pvars == <<head, seals, left, back>>

Init == head = FALSE /\ seals = 0 /\ left = FALSE /\ back = "none"

Leave == left' = TRUE /\ UNCHANGED <<head, seals, back>>

\* Nothing usable came: the next stack may be tried.
HandBack ==
  /\ back = "none" /\ ~head
  /\ back' = "retry" /\ UNCHANGED <<head, seals, left>>

Open ==
  /\ back = "none" /\ ~head
  /\ head' = TRUE /\ UNCHANGED <<seals, left, back>>

Seal ==
  /\ back = "none" /\ head /\ seals = 0
  /\ seals' = 1 /\ UNCHANGED <<head, left, back>>

End ==
  /\ back = "none" /\ head /\ (seals = 1 \/ left)
  /\ back' = "served" /\ UNCHANGED <<head, seals, left>>

Next == Leave \/ HandBack \/ Open \/ Seal \/ End

\* The caller is told in the end, whatever the upstream does.
Told == <>(back # "none")

Safe == Init /\ [][Next]_pvars
Spec == Safe /\ Told
=============================================================================
