-------------------------- MODULE MCInterpretacion --------------------------
EXTENDS Interpretacion, TLC

(* Products as in the shipped catalogue: by weight, by weight with a weight  *)
(* in its name ("passatta x 2500 gramos"), by unit, and by volume.           *)
MCProductos ==
    "papa"     :> [unidad |-> "Kilogram", bodegas |-> {1, 2}, uni |-> "", num |-> Nada] @@
    "passatta" :> [unidad |-> "Kilogram", bodegas |-> {1}, uni |-> "gr", num |-> 2500000] @@
    "huevo"    :> [unidad |-> "Unidad", bodegas |-> {1}, uni |-> "", num |-> Nada] @@
    "aceite"   :> [unidad |-> "Liter", bodegas |-> {2}, uni |-> "", num |-> Nada]

MCFrases ==
    {f \in [verbo : {"agrega", "retira", "hay", ""},
            num : {Nada, 0, 1500, 500000}, uni : {"", "g", "kg", "pzs"},
            prod : DOMAIN MCProductos \cup {"otro"}] : f.num = Nada => f.uni = ""}
=============================================================================
