---------------------------- MODULE MCHttpTunnel ----------------------------
(* An upload and a download through one data channel.                      *)
EXTENDS HttpTunnel, TLC

CONSTANTS upload, download

MCStreams == {upload, download}
MCUp      == upload :> 2 @@ download :> 0
MCDown    == upload :> 0 @@ download :> 2
=============================================================================
