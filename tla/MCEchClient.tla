---------------------------- MODULE MCEchClient ----------------------------
(* A small instance of EchClient.                                           *)
EXTENDS EchClient

CONSTANTS c1, c2
============================================================================
