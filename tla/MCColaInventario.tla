-------------------------- MODULE MCColaInventario --------------------------
(***************************************************************************)
(* Instances of ColaInventario for TLC: the constants a .cfg cannot write. *)
(***************************************************************************)
EXTENDS ColaInventario, TLC

CONSTANTS w1, w2, w3, c1, c2, k1, k2

MCStock == [k \in Keys |-> 5]

(* One producto, in as many bodegas as there are keys.                       *)
MCProducto == [k \in Keys |-> "papa"]

Simetria == Permutations(Workers) \cup Permutations(Clientes)
            \cup Permutations(Keys)
=============================================================================
