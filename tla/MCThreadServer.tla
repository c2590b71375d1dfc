-------------------------- MODULE MCThreadServer --------------------------
(* Bounds for ThreadServer: the same three kinds of client as MCForkServer. *)
EXTENDS ThreadServer

CONSTANTS good, slow, bad

MCConns == {good, slow, bad}
MCGentle == {good, slow}
MCNone == {}
MCPrompt == {good}
MCFaulty == {bad}
=============================================================================
