--------------------------- MODULE MCForkServer ---------------------------
(* Bounds for ForkServer.  Clients come in three kinds, so that one of each *)
(* meets the others: one that does as it should, one that may stall or hang *)
(* up, and one that may also reset or send what cannot be parsed.           *)
EXTENDS ForkServer, TLC

CONSTANTS good, good2, slow, bad

MCConns == {good, good2, bad}
MCPair == {good, slow}
MCNone == {}
MCPrompt == {good}
MCBoth == {good, good2}
MCFaulty == {bad}

(* SIGINT reaches the parent and all children but one.                      *)
MCSigint == {Main} \cup (Pids \ {CHOOSE p \in Pids : TRUE})

(* Nothing tells the children apart, nor the two clients that do as they    *)
(* should; used for safety only.                                            *)
MCSymmetry == Permutations(Pids) \cup Permutations(MCBoth)
=============================================================================
