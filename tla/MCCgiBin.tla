------------------------------ MODULE MCCgiBin ------------------------------
(* Bounds for CgiBin: a program that fills the pipe, with a NUL in what it  *)
(* writes, one that writes more, and a module, which pth may hold as it is  *)
(* or with something behind it.                                             *)
EXTENDS CgiBin

CONSTANTS small, large, module, longer

MCPrograms == {small, large}
MCModules == {module}
MCNames == {module, longer}
MCPth == [m \in MCModules |-> MCNames]
MCOutput == [p \in MCPrograms |-> IF p = large THEN PipeCap + 1 ELSE PipeCap]
MCText == [p \in MCPrograms |-> IF p = large THEN PipeCap + 1 ELSE 1]
=============================================================================
