------------------------------- MODULE MCDSFQ -------------------------------
(* Values of the constants of DSFQ for model checking. *)
EXTENDS DSFQ

MCRate == [a \in Apps |-> a + 1]

Symmetry == Permutations(Proxies)
=============================================================================
