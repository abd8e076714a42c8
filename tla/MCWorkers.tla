----------------------------- MODULE MCWorkers -----------------------------
(* Workers with interchangeable connections.                                *)
EXTENDS Workers, TLC

MCSymmetry == Permutations(Client)
=============================================================================
