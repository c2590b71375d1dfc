--------------------------- MODULE MCPoolServer ---------------------------
(* Bounds for PoolServer: a client that does as it should, one that may     *)
(* stall or hang up, and one that may also reset or send what cannot be     *)
(* parsed.                                                                  *)
EXTENDS PoolServer

CONSTANTS good, slow, bad

MCConns == {good, slow, bad}
MCPrompt == {good}
MCFaulty == {bad}
=============================================================================
