---------------------------- MODULE InventarioDB ----------------------------
(***************************************************************************)
(* The PostgreSQL database every service of the inventory shares           *)
(* (db/init.sql): the rows of stock, inventario_movimientos, auditoria_log,*)
(* pending_evaluations and registros_conteo, and the open transactions of  *)
(* the kalman-worker with the row locks they hold.  All the variables here *)
(* except tx are the COMMITTED contents of the tables: a transaction       *)
(* writes only rows it has locked, so its writes are applied together when *)
(* it commits, and a reader at READ COMMITTED sees none of them before.    *)
(*                                                                         *)
(* Quantities are integers.  The Kalman filter is taken in its steady      *)
(* state: a constant threshold Umbral and a constant gain 1/GananciaInv.   *)
(***************************************************************************)
EXTENDS Integers, Sequences, FiniteSets

CONSTANTS
    Keys,          (* the (producto, bodega) pairs that have a stock row      *)
    NoKey,         (* producto_id and bodega_id NULL                          *)
    Producto,      (* the producto of each key: several bodegas may share it  *)
    Workers,       (* the goroutines of the worker pool                       *)
    Clientes,      (* the concurrent request handlers of the services         *)
    MaxPend,       (* bound: number of rows ever inserted in the queue        *)
    StockInicial,  (* stock_actual of every key when the system starts        *)
    Umbral,        (* umbral_sigma * sqrt(P_pred + R)                         *)
    GananciaInv,   (* 1 / k_ganancia                                          *)
    Null           (* SQL NULL                                                *)

Ids == 1..MaxPend

ASSUME DBAssumption ==
    /\ NoKey \notin Keys
    /\ DOMAIN Producto = Keys
    /\ Workers \cap Clientes = {}
    /\ MaxPend \in Nat \ {0}
    /\ StockInicial \in [Keys -> Int]
    /\ Umbral \in Nat
    /\ GananciaInv \in Nat \ {0}
    /\ Null \notin Int

VARIABLES
    stock,        (* stock.stock_actual                                       *)
    media,        (* stock.media_kalman                                       *)
    movimientos,  (* inventario_movimientos, in order of insertion            *)
    auditoria,    (* the pendings whose movement has a row in auditoria_log   *)
    siguiente,    (* next value of the BIGSERIAL of pending_evaluations       *)
    fila,         (* pending_evaluations: the columns written by the INSERT   *)
    status,       (* pending_evaluations.status; "LIBRE" before the INSERT    *)
    decision,     (* pending_evaluations.decision                             *)
    residual,     (* pending_evaluations.residual                             *)
    registro,     (* registros_conteo.decision_kalman; "no" if no row         *)
    tx,           (* the open transaction of each worker                      *)
    referencia,   (* the pending whose registros_conteo row each handler is   *)
                  (* inserting, 0 if none                                     *)
    corte         (* history: the rows visible to the invalidation of a conteo *)

tablas == <<stock, media, movimientos, auditoria, siguiente, fila, status,
            decision, residual, registro, corte>>
dbVars == <<tablas, tx, referencia>>

-----------------------------------------------------------------------------
Movimientos == {"agregar_inventario", "remover_inventario", "registrar_conteo"}
Lecturas    == {"consultar_inventario", "investigar_sospechosos"}
Tools       == Movimientos \cup Lecturas \cup {"confirmar_movimiento", "otra"}

Resolubles == {"PENDING", "SOSPECHOSA"}
Terminales == {"ACEPTADA", "CONFIRMADA_MANUAL", "RECHAZADA"}
Estados    == Resolubles \cup Terminales

(* The columns an INSERT fills: delta is cantidad with the sign of tipo;     *)
(* contada and base are, for a conteo, the number the user said and how many *)
(* movements the stock it was compared with already contained; sesion says   *)
(* that session_id is all digits, so that the row belongs to a counting      *)
(* session.                                                                  *)
Filas == [tool: Tools, key: Keys \cup {NoKey}, delta: Int, contada: Int,
          base: Nat, target: Int, confirmar: BOOLEAN, sesion: BOOLEAN]

FilaVacia == [tool |-> "otra", key |-> NoKey, delta |-> 0, contada |-> 0,
              base |-> 0, target |-> 0, confirmar |-> FALSE, sesion |-> FALSE]

EsConteo(i) == fila[i].tool = "registrar_conteo"
Existe(i)   == i \in Ids /\ status[i] # "LIBRE"

(* The other conteos of the same producto and bodega as conteo i.            *)
Rivales(i) == {j \in Ids \ {i} : /\ Existe(j) /\ EsConteo(j)
                                 /\ fila[j].key = fila[i].key}

-----------------------------------------------------------------------------
(* Transactions and row locks. *)

Fases == {"idle", "tomada", "aplicar", "objetivo", "stockObjetivo",
          "invalidar", "invalidando", "commit"}

Veredictos == {"", "PASA", "FALLA", "sin_cambios", "confirmar", "rechazar",
               "sin_efecto", "descarte"}

Transacciones ==
    [fase: Fases,
     id: Int,                     (* the row taken from the queue            *)
     veredicto: Veredictos,
     residual: Int,               (* of the evaluation, or of the target     *)
     forUpdate: SUBSET Ids,       (* rows locked by SELECT ... FOR UPDATE    *)
     noKey: SUBSET Ids,           (* rows locked by the invalidating UPDATE  *)
     stocks: SUBSET Keys,         (* stock rows locked ...                   *)
     prod: [stock: Int, media: Int],         (* ... and what was read there  *)
     vistas: SUBSET Ids,          (* rows of its snapshot still to be locked *)
     inval: SUBSET Ids,           (* rows it sets to RECHAZADA               *)
     regs: SUBSET Ids,            (* registros it sets to RECHAZADA          *)
     corte: SUBSET Ids]

TxIdle == [fase |-> "idle", id |-> 0, veredicto |-> "", residual |-> 0,
           forUpdate |-> {}, noKey |-> {}, stocks |-> {},
           prod |-> [stock |-> 0, media |-> 0], vistas |-> {},
           inval |-> {}, regs |-> {}, corte |-> {}]

Tomada(w)   == tx[w].id
Objetivo(w) == fila[Tomada(w)].target
Key(w)      == fila[Tomada(w)].key

Bloqueadas(w) == tx[w].forUpdate \cup tx[w].noKey

FilaLibrePara(i, w) == \A v \in Workers \ {w} : i \notin Bloqueadas(v)

MismoProducto(j, k) == {j, k} \subseteq Keys /\ Producto[j] = Producto[k]

(* "FROM stock s JOIN productos p ... FOR UPDATE" locks the row of both       *)
(* tables, so a transaction that holds a stock row holds its producto too.   *)
RetieneStock(v, k) == \E j \in tx[v].stocks : MismoProducto(j, k)

(* INSERT INTO registros_conteo checks producto_id before pending_id (the    *)
(* order of its REFERENCES), each FOR KEY SHARE: it holds the producto while *)
(* it waits for the pending row.  Only FOR UPDATE excludes FOR KEY SHARE.    *)
RetieneReferencia(c, k) == referencia[c] # 0 /\ MismoProducto(fila[referencia[c]].key, k)

StockLibrePara(k, w) == /\ \A v \in Workers \ {w} : ~RetieneStock(v, k)
                        /\ \A c \in Clientes : ~RetieneReferencia(c, k)

ProductoReferenciable(k) == \A v \in Workers : ~RetieneStock(v, k)
PendingReferenciable(i)  == \A v \in Workers : i \notin tx[v].forUpdate

(* The transactions p waits for.                                             *)
Procesos == Workers \cup Clientes

Retiene(q, k) == \/ q \in Workers /\ RetieneStock(q, k)
                 \/ q \in Clientes /\ RetieneReferencia(q, k)

EsperaWorker(w) ==
    {q \in Procesos \ {w} :
        \/ tx[w].fase = "aplicar" /\ Retiene(q, Key(w))
        \/ tx[w].fase = "stockObjetivo" /\ Retiene(q, fila[Objetivo(w)].key)
        \/ /\ q \in Workers
           /\ \/ tx[w].fase = "objetivo" /\ Objetivo(w) \in Bloqueadas(q)
              \/ tx[w].fase = "invalidando" /\ tx[w].vistas \cap Bloqueadas(q) # {}}

EsperaCliente(c) ==
    {v \in Workers : referencia[c] # 0 /\ referencia[c] \in tx[v].forUpdate}

EsperaDe(p) == IF p \in Workers THEN EsperaWorker(p) ELSE EsperaCliente(p)

(* p waits for itself through others: PostgreSQL aborts one of them.         *)
EnDeadlock(p) ==
    \A S \in SUBSET Procesos :
        EsperaDe(p) \subseteq S /\ (\A q \in S : EsperaDe(q) \subseteq S) => p \in S

-----------------------------------------------------------------------------
(* The SQL functions. *)

Residual(k, d) == stock[k] + d - media[k]
Pasa(r)        == -Umbral <= r /\ r <= Umbral

Asignar(f, S, v) == [i \in DOMAIN f |-> IF i \in S THEN v ELSE f[i]]

(* The effect shared by aplicar_movimiento_aceptado() and                    *)
(* confirmar_movimiento(): stock and filter are computed from what w read    *)
(* when it locked the stock row, and one movement is inserted.               *)
AplicarMovimiento(w, i, dec) ==
    LET k  == fila[i].key
        ns == tx[w].prod.stock + fila[i].delta
    IN  /\ stock' = [stock EXCEPT ![k] = ns]
        /\ media' = [media EXCEPT
                        ![k] = tx[w].prod.media + (tx[w].residual \div GananciaInv)]
        /\ movimientos' = Append(movimientos,
              [pend |-> i, key |-> k, delta |-> fila[i].delta, decision |-> dec,
               resultante |-> ns, mediaPrevia |-> tx[w].prod.media])

(* UPDATE registros_conteo SET decision_kalman = v WHERE pending_id IN S.    *)
ConRegistros(f, S, v) ==
    [i \in DOMAIN f |-> IF i \in S /\ f[i] # "no" THEN v ELSE f[i]]

DBInit ==
    /\ stock = StockInicial
    /\ media = StockInicial
    /\ movimientos = << >>
    /\ auditoria = {}
    /\ siguiente = 1
    /\ fila = [i \in Ids |-> FilaVacia]
    /\ status = [i \in Ids |-> "LIBRE"]
    /\ decision = [i \in Ids |-> ""]
    /\ residual = [i \in Ids |-> Null]
    /\ registro = [i \in Ids |-> "no"]
    /\ tx = [w \in Workers |-> TxIdle]
    /\ referencia = [c \in Clientes |-> 0]
    /\ corte = [i \in Ids |-> {}]

(* INSERT INTO pending_evaluations: row i becomes visible as PENDING.        *)
InsertarPending(i, f) ==
    /\ fila' = [fila EXCEPT ![i] = f]
    /\ status' = [status EXCEPT ![i] = "PENDING"]
    /\ UNCHANGED <<stock, media, movimientos, auditoria, decision, residual,
                   registro, tx, referencia, corte>>

Decisiones == {"", "PASA", "FALLA", "sin_cambios", "invalidado", "unknown_tool"}

Apuntes == [pend: Ids, key: Keys, delta: Int, resultante: Int,
            mediaPrevia: Int, decision: {"ACEPTADA", "CONFIRMADA_MANUAL"}]

DBTypeOK ==
    /\ stock \in [Keys -> Int]
    /\ media \in [Keys -> Int]
    /\ movimientos \in Seq(Apuntes)
    /\ auditoria \subseteq Ids
    /\ siguiente \in 1..(MaxPend + 1)
    /\ fila \in [Ids -> Filas]
    /\ status \in [Ids -> Estados \cup {"LIBRE"}]
    /\ decision \in [Ids -> Decisiones]
    /\ residual \in [Ids -> Int \cup {Null}]
    /\ registro \in [Ids -> Terminales \cup {"no", "PENDIENTE", "SOSPECHOSA"}]
    /\ tx \in [Workers -> Transacciones]
    /\ referencia \in [Clientes -> Ids \cup {0}]
    /\ corte \in [Ids -> SUBSET Ids]
=============================================================================
