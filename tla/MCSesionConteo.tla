--------------------------- MODULE MCSesionConteo ---------------------------
(* Instances: a product in two bodegas, and one in one.                      *)
EXTENDS SesionConteo, TLC
CONSTANTS c1, c2, t1, t2, papa, ajo

MCUnProducto == {<<papa, 1>>, <<papa, 2>>}
MCUnaClave == {<<ajo, 2>>}

(* Nothing tells one LLM request from another.                               *)
Simetria == Permutations(Tareas)
=============================================================================
