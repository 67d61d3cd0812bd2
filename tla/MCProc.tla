------------------------------- MODULE MCProc -------------------------------
(* Proc has no constants: the instance is the whole process.               *)
EXTENDS Proc
=============================================================================
