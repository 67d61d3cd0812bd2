---------------------------- MODULE MCProcStore -----------------------------
(* Model-checking instances of ProcStore.                                  *)
EXTENDS ProcStore, TLC

(* No order to close comes: the user's own operation of the store.         *)
MCOpenNext == Next /\ ~exit'

MCOpenSpec == Init /\ [][MCOpenNext]_vars

Symmetry == Permutations(Users) \cup Permutations(Procs) \cup Permutations(Clients)
=============================================================================
