----------------------------- MODULE LibroStock -----------------------------
(***************************************************************************)
(* What the inventory promises, with no queue, worker, lock or filter:     *)
(* every request is resolved at most once, and the stock of a product in a *)
(* bodega changes only when one request is applied, by what it asked for.  *)
(***************************************************************************)
EXTENDS Integers

CONSTANTS
    Keys,           (* what has a stock                                      *)
    NoKey,          (* the key of a request that is about no stock           *)
    Ids,            (* the requests                                          *)
    StockInicial    (* stock of every key at the beginning                   *)

VARIABLES
    estado,   (* "libre", "abierto", "aplicado" or "cerrado", per request    *)
    pedido,   (* the key and the change each request asks for                *)
    saldo     (* stock of each key                                           *)

vars == <<estado, pedido, saldo>>

Peticiones == [key: Keys \cup {NoKey}, delta: Int]

Init ==
    /\ estado = [i \in Ids |-> "libre"]
    /\ pedido = [i \in Ids |-> [key |-> NoKey, delta |-> 0]]
    /\ saldo = StockInicial

Pedir(i) ==
    /\ estado[i] = "libre"
    /\ estado' = [estado EXCEPT ![i] = "abierto"]
    /\ pedido'[i] \in Peticiones
    /\ pedido' = [pedido EXCEPT ![i] = pedido'[i]]
    /\ UNCHANGED saldo

(* One open request is applied; in the same instant others may be closed.    *)
Aplicar(i, S) ==
    /\ estado[i] = "abierto"
    /\ \A j \in S : j # i /\ estado[j] = "abierto"
    /\ pedido[i].key \in Keys
    /\ estado' = [j \in Ids |-> IF j = i THEN "aplicado"
                                ELSE IF j \in S THEN "cerrado" ELSE estado[j]]
    /\ saldo' = [saldo EXCEPT ![pedido[i].key] = @ + pedido[i].delta]
    /\ UNCHANGED pedido

(* Open requests are closed with no effect on the stock.                     *)
Cerrar(S) ==
    /\ \A j \in S : estado[j] = "abierto"
    /\ estado' = [j \in Ids |-> IF j \in S THEN "cerrado" ELSE estado[j]]
    /\ UNCHANGED <<pedido, saldo>>

Next ==
    \/ \E i \in Ids : Pedir(i)
    \/ \E i \in Ids, S \in SUBSET Ids : Aplicar(i, S)
    \/ \E S \in SUBSET Ids : Cerrar(S)

Spec == Init /\ [][Next]_vars
=============================================================================
