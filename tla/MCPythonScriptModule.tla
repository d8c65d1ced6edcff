-------------------------- MODULE MCPythonScriptModule --------------------------
(***************************************************************************)
(* Values for the constants of PythonScriptModule.                         *)
(***************************************************************************)
EXTENDS PythonScriptModule, TLC

GoodScripts == {"good"}

Interchangeable == Permutations(Module)
=================================================================================
