--------------------------- MODULE ColaInventario ---------------------------
(***************************************************************************)
(* The inventory system around its queue: request handlers (Encolador) and *)
(* the worker pool (KalmanWorker) over one database (InventarioDB), with   *)
(* the properties of the composition.                                      *)
(***************************************************************************)
EXTENDS Encolador, KalmanWorker, FiniteSetsExt

vars == <<dbVars, req, caidas>>

Init == DBInit /\ EncoladorInit /\ WorkerInit

(* Every request within the bound was made and resolved; a handler may have  *)
(* read the stock for a conteo that no longer fits in the bound.             *)
Terminado ==
    /\ siguiente > MaxPend
    /\ \A c \in Clientes : req[c].fase \in {"idle", "leido"}
    /\ \A w \in Workers : tx[w].fase = "idle"
    /\ \A i \in Ids : status[i] # "PENDING"

Next ==
    \/ \E c \in Clientes : PasoEncolador(c) /\ UNCHANGED caidas
    \/ InsertarAMano /\ UNCHANGED caidas
    \/ \E w \in Workers : PasoWorker(w) /\ UNCHANGED req
    \/ Terminado /\ UNCHANGED vars

Spec == Init /\ [][Next]_vars

(* PostgreSQL breaks a cycle of waits at the expense of one of its members.  *)
Deadlock ==
    \/ \E w \in Workers : AbortarPorDeadlock(w) /\ UNCHANGED req
    \/ \E c \in Clientes : AbortarRegistro(c) /\ UNCHANGED caidas

(* The goroutines poll for ever, and the server runs every statement it can, *)
(* that of a handler which holds locks too, and breaks every cycle of waits. *)
(* Nothing obliges a user to ask anything.                                   *)
FairSpec ==
    /\ Spec
    /\ \A w \in Workers : /\ \A i \in Ids : SF_vars(Tomar(w, i) /\ UNCHANGED req)
                          /\ WF_vars(Avanzar(w) /\ UNCHANGED req)
                          /\ WF_vars(Esperar(w) /\ UNCHANGED req)
    /\ \A c \in Clientes : WF_vars(InsertarRegistro(c) /\ UNCHANGED caidas)
    /\ WF_vars(Deadlock)

-----------------------------------------------------------------------------
(* Type invariant of the whole state. *)
TypeOK == DBTypeOK /\ EncoladorTypeOK /\ WorkerTypeOK

(* A row of the queue or of stock is locked by at most one transaction, and  *)
(* the row a worker is processing stays PENDING and locked until the commit: *)
(* the reason processOne keeps FOR UPDATE to the end (main.go:246-250).      *)
FilaProtegida ==
    /\ \A u, v \in Workers : u # v =>
          /\ Bloqueadas(u) \cap Bloqueadas(v) = {}
          /\ \A k \in tx[u].stocks : ~RetieneStock(v, k)
    /\ \A w \in Workers : tx[w].fase # "idle" =>
          /\ Tomada(w) \in tx[w].forUpdate
          /\ status[Tomada(w)] = "PENDING"

ConMovimiento(i) == \E n \in DOMAIN movimientos : movimientos[n].pend = i

(* No request is ever applied twice to the stock, whoever applies it (the    *)
(* worker that evaluates it or the one that runs its confirmation), and the  *)
(* rows of inventario_movimientos are exactly those of the requests resolved *)
(* as applied, a conteo without changes excepted.                            *)
AplicadoUnaVez ==
    /\ \A m, n \in DOMAIN movimientos :
          movimientos[m].pend = movimientos[n].pend => m = n
    /\ \A i \in Ids : Existe(i) =>
          (ConMovimiento(i) <=> /\ fila[i].tool \in Movimientos
                                /\ ~SinCambios(i)
                                /\ status[i] \in {"ACEPTADA", "CONFIRMADA_MANUAL"})

(* The last movement of key k up to position n, 0 if there is none.          *)
UltimoDe(k, n) ==
    LET P == {m \in 1..n : movimientos[m].key = k} IN IF P = {} THEN 0 ELSE Max(P)

ResultanteHasta(k, n) ==
    LET u == UltimoDe(k, n)
    IN  IF u = 0 THEN StockInicial[k] ELSE movimientos[u].resultante

(* The movements of a key chain: each stock_resultante is the one before it  *)
(* plus the movement's own quantity, and the stock row agrees with the last. *)
(* A lost update of the stock row would break the chain.                     *)
CadenaDeMovimientos ==
    /\ \A n \in DOMAIN movimientos :
          movimientos[n].resultante =
              ResultanteHasta(movimientos[n].key, n - 1) + movimientos[n].delta
    /\ \A k \in Keys : stock[k] = ResultanteHasta(k, Len(movimientos))

(* An accepted or confirmed conteo leaves the stock at the counted quantity, *)
(* plus what other movements changed since the stock it was compared with    *)
(* was read, though they were committed by other workers between the two     *)
(* (db/migrations/003_conteo_absoluto.sql:9-21).                             *)
ConteoComponeMovimientos ==
    \A n \in DOMAIN movimientos :
        LET m == movimientos[n]
            f == fila[m.pend]
            enMedio == ResultanteHasta(m.key, n - 1) - ResultanteHasta(m.key, f.base)
        IN  f.tool = "registrar_conteo" => m.resultante = f.contada + enMedio

Aceptados == {"ACEPTADA", "CONFIRMADA_MANUAL"}

(* When a conteo has been accepted or confirmed, every other conteo of the   *)
(* same product and bodega that was in the queue when its invalidation ran   *)
(* is out of play, whether it was waiting, being evaluated by another worker *)
(* or being confirmed (main.go:450-456).                                     *)
InvalidacionCompleta ==
    \A i \in Ids : Existe(i) /\ EsConteo(i) /\ status[i] \in Aceptados =>
        \A j \in Rivales(i) : j \in corte[i] => status[j] \in Terminales

(* An entry of a counting session shown as an alert (decision_kalman         *)
(* SOSPECHOSA) still waits for the user's answer: resolving a pending, by    *)
(* answer or by invalidation, always takes the alert away                    *)
(* (db/init.sql:475-478, 513-514).                                           *)
AlertaVigente ==
    \A i \in Ids : registro[i] = "SOSPECHOSA" => status[i] = "SOSPECHOSA"

(* A resolved request never changes its status again, and never loses it: a  *)
(* SOSPECHOSA row never goes back to the queue.                              *)
ResolucionDefinitiva ==
    [][\A i \in Ids :
          /\ status[i] \in Terminales => status'[i] = status[i]
          /\ status[i] = "SOSPECHOSA" => status'[i] # "PENDING"]_status

(* Every request put in the queue is eventually evaluated or resolved,       *)
(* whatever waits, retries and (finitely many) crashes happen, unless        *)
(* PostgreSQL has to break deadlocks between the workers for ever.           *)
TodoSeEvalua ==
    \/ []<><<Deadlock>>_vars
    \/ \A i \in Ids : status[i] = "PENDING" ~> status[i] # "PENDING"

-----------------------------------------------------------------------------
(* The queue implements the ledger. *)

EstadoLibro ==
    [i \in Ids |-> CASE status[i] = "LIBRE" -> "libre"
                     [] status[i] \in Resolubles -> "abierto"
                     [] status[i] \in Terminales /\ ConMovimiento(i) -> "aplicado"
                     [] OTHER -> "cerrado"]

Libro == INSTANCE LibroStock WITH
             estado <- EstadoLibro,
             pedido <- [i \in Ids |-> [key |-> fila[i].key,
                                       delta |-> fila[i].delta]],
             saldo <- stock

(* Seen through its tables, the system behaves as the ledger: at most one    *)
(* request applied per step, never one already resolved, and no change of    *)
(* stock but that request's.                                                 *)
ImplementaLibro == Libro!Spec

-----------------------------------------------------------------------------
(* What the documentation says and the code does not do. *)

(* The conteos of one key resolved by their acceptance. *)
ConteoAplicado(n) == fila[movimientos[n].pend].tool = "registrar_conteo"

(* "dos conteos no se componen sumando": no conteo is applied on a stock     *)
(* that another conteo of the key changed after the first one's baseline was *)
(* read (main.go:336-338, 450-456).                                          *)
ConteosNoSeSuman ==
    \A n \in DOMAIN movimientos : ConteoAplicado(n) =>
        \A m \in (fila[movimientos[n].pend].base + 1)..(n - 1) :
            ~(movimientos[m].key = movimientos[n].key /\ ConteoAplicado(m))

(* A movement accepted by the filter is within the threshold of the mean at  *)
(* the moment it is applied: "Si |y| > 2.0 * sqrt(P_pred + R) -> FALLA", with *)
(* y the new stock minus the mean (README.md:303-307).                       *)
AceptadoDentroDelUmbral ==
    \A n \in DOMAIN movimientos : movimientos[n].decision = "ACEPTADA" =>
        Pasa(movimientos[n].resultante - movimientos[n].mediaPrevia)
=============================================================================
