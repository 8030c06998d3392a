--------------------------- MODULE MCCaptureProxy ---------------------------
(* capture-proxy alone, asked by two requests at once.  Earlier requests    *)
(* have left up to two limit errors in a row behind, whose cool-downs are   *)
(* over, so that the third one, which locks a family until midnight, is     *)
(* within reach of two requests.                                            *)
EXTENDS CaptureProxy, TLC

Symmetry == Permutations(Reqs)

MCInit ==
  /\ limFails \in [Fams -> None..Minutes5]
  /\ cooldown = [f \in Fams |-> None]
  /\ unsettled = [f \in Fams |-> 0]
  /\ banCount = [c \in Clients |-> 0]
  /\ banned = [c \in Clients |-> "no"]
  /\ req = [r \in Reqs |-> Idle]
  /\ resetDue = FALSE /\ days = 0

MCSpec == MCInit /\ [][Next]_cvars
=============================================================================
