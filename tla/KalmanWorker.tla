---------------------------- MODULE KalmanWorker ----------------------------
(***************************************************************************)
(* The consumer of the queue (kalman-worker/main.go): a pool of goroutines *)
(* that take PENDING rows with SELECT ... FOR UPDATE SKIP LOCKED and       *)
(* resolve each inside one READ COMMITTED transaction.  A statement that   *)
(* needs a row locked by another transaction is an action whose guard is   *)
(* that the row is free: the worker waits until it is.                     *)
(***************************************************************************)
EXTENDS InventarioDB

CONSTANT MaxCaidas   (* bound: transactions cut short by a crash or shutdown *)

ASSUME WorkerAssumption == MaxCaidas \in Nat

VARIABLE caidas      (* how many there have been *)

WorkerInit   == caidas = 0
WorkerTypeOK == caidas \in 0..MaxCaidas

workerVars == <<dbVars, caidas>>

(* The conteo whose acceptance invalidates its rivals: the row taken, or the *)
(* target of the confirmation taken.                                         *)
Resuelto(w) == IF tx[w].veredicto = "confirmar" THEN Objetivo(w) ELSE Tomada(w)

(* A step inside the transaction of w: no committed row changes.             *)
EnTx(w, t) ==
    /\ tx' = [tx EXCEPT ![w] = t]
    /\ UNCHANGED <<tablas, referencia, caidas>>

-----------------------------------------------------------------------------
(* Variant: FOR UPDATE forgotten, or released before processing.             *)
TomableSinLock(i) == status[i] = "PENDING"

(* processOne: the lowest PENDING row nobody has locked.                     *)
Tomable(i) == status[i] = "PENDING" /\ \A v \in Workers : i \notin Bloqueadas(v)

Tomar(w, i) ==
    /\ tx[w].fase = "idle"
    /\ Tomable(i)
    /\ \A j \in Ids : j < i => ~Tomable(j)
    /\ EnTx(w, [TxIdle EXCEPT !.fase = "tomada", !.id = i, !.forUpdate = {i}])

(* A read or an unknown tool in the queue: resolved at once.                 *)
Descartar(w) ==
    /\ tx[w].fase = "tomada"
    /\ fila[Tomada(w)].tool \notin Movimientos \cup {"confirmar_movimiento"}
    /\ EnTx(w, [tx[w] EXCEPT !.fase = "commit", !.veredicto = "descarte"])

-----------------------------------------------------------------------------
(* evalMovimiento *)

SinCambios(i) == EsConteo(i) /\ fila[i].delta = 0

(* A conteo that found exactly the stock: no movement, but it still          *)
(* invalidates the other conteos.                                            *)
EvaluarSinCambios(w) ==
    /\ tx[w].fase = "tomada"
    /\ SinCambios(Tomada(w))
    /\ EnTx(w, [tx[w] EXCEPT !.fase = "invalidar", !.veredicto = "sin_cambios"])

(* kalman_evaluar(): reads stock and filter without locking them.            *)
KalmanEvaluar(w) ==
    /\ tx[w].fase = "tomada"
    /\ fila[Tomada(w)].tool \in Movimientos
    /\ ~SinCambios(Tomada(w))
    /\ LET r == Residual(Key(w), fila[Tomada(w)].delta)
       IN  \/ /\ Pasa(r)
              /\ EnTx(w, [tx[w] EXCEPT !.fase = "aplicar", !.veredicto = "PASA",
                                       !.residual = r])
           \/ /\ ~Pasa(r)
              /\ EnTx(w, [tx[w] EXCEPT !.fase = "commit", !.veredicto = "FALLA",
                                       !.residual = r])

Leer(k) == [stock |-> stock[k], media |-> media[k]]

(* Variant: the stock row is read without FOR UPDATE.                        *)
BloquearStockSinEsperar(w) ==
    /\ tx[w].fase = "aplicar"
    /\ EnTx(w, [tx[w] EXCEPT !.stocks = {Key(w)}, !.prod = Leer(Key(w)),
                             !.fase = IF EsConteo(Tomada(w)) THEN "invalidar"
                                                             ELSE "commit"])

(* aplicar_movimiento_aceptado(): SELECT ... FROM stock ... FOR UPDATE.      *)
BloquearStock(w) ==
    /\ tx[w].fase = "aplicar"
    /\ StockLibrePara(Key(w), w)
    /\ EnTx(w, [tx[w] EXCEPT !.stocks = {Key(w)}, !.prod = Leer(Key(w)),
                             !.fase = IF EsConteo(Tomada(w)) THEN "invalidar"
                                                             ELSE "commit"])

-----------------------------------------------------------------------------
(* evalConfirmacion, and confirmar_movimiento() which it calls *)

(* Variant: the NULL producto_id of a confirmation breaks its scan, so the   *)
(* transaction fails and the row is tried again (main.go:261-264).           *)
EvaluarConfirmacionNull(w) ==
    /\ tx[w].fase = "tomada"
    /\ fila[Tomada(w)].tool = "confirmar_movimiento"
    /\ EnTx(w, TxIdle)

EvaluarConfirmacion(w) ==
    /\ tx[w].fase = "tomada"
    /\ fila[Tomada(w)].tool = "confirmar_movimiento"
    /\ EnTx(w, [tx[w] EXCEPT !.fase = "objetivo"])

(* Variant: the target is read without FOR UPDATE.                           *)
LeerObjetivoSinEsperar(w) == tx[w].fase = "objetivo"

(* SELECT * FROM pending_evaluations WHERE id = ... FOR UPDATE               *)
LeerObjetivo(w) ==
    /\ tx[w].fase = "objetivo"
    /\ FilaLibrePara(Objetivo(w), w)

(* Variant: the status of the target is not tested.                          *)
ResolubleSiempre(w) == Existe(Objetivo(w))

Resoluble(w) == Existe(Objetivo(w)) /\ status[Objetivo(w)] \in Resolubles

ConObjetivo(w) ==
    [tx[w] EXCEPT !.forUpdate = @ \cup {i \in {Objetivo(w)} : Existe(i)}]

(* 'Pending no encontrado', 'no esta en estado resoluble', 'sin              *)
(* bodega/producto': a text is returned and nothing is written to the target. *)
ObjetivoSinEfecto(w) ==
    /\ LeerObjetivo(w)
    /\ \/ ~Resoluble(w)
       \/ fila[Tomada(w)].confirmar /\ fila[Objetivo(w)].key = NoKey
    /\ EnTx(w, [ConObjetivo(w) EXCEPT !.fase = "commit",
                                      !.veredicto = "sin_efecto"])

RechazarObjetivo(w) ==
    /\ LeerObjetivo(w)
    /\ Resoluble(w)
    /\ ~fila[Tomada(w)].confirmar
    /\ EnTx(w, [ConObjetivo(w) EXCEPT !.fase = "commit",
                                      !.veredicto = "rechazar"])

ConfirmarObjetivo(w) ==
    /\ LeerObjetivo(w)
    /\ Resoluble(w)
    /\ fila[Tomada(w)].confirmar
    /\ fila[Objetivo(w)].key # NoKey
    /\ EnTx(w, [ConObjetivo(w) EXCEPT !.fase = "stockObjetivo",
                                      !.veredicto = "confirmar"])

(* Variant: confirmar_movimiento() reads the stock without FOR UPDATE.       *)
BloquearStockObjetivoSinEsperar(w) ==
    LET o == Objetivo(w)
    IN  /\ tx[w].fase = "stockObjetivo"
        /\ residual[o] # Null
        /\ EnTx(w, [tx[w] EXCEPT !.stocks = {fila[o].key},
                                 !.prod = Leer(fila[o].key),
                                 !.residual = residual[o],
                                 !.fase = IF EsConteo(o) THEN "invalidar"
                                                         ELSE "commit"])

(* Stock locked and updated with the residual stored in the target row.      *)
BloquearStockObjetivo(w) ==
    LET o == Objetivo(w)
    IN  /\ tx[w].fase = "stockObjetivo"
        /\ StockLibrePara(fila[o].key, w)
        /\ residual[o] # Null
        /\ EnTx(w, [tx[w] EXCEPT !.stocks = {fila[o].key},
                                 !.prod = Leer(fila[o].key),
                                 !.residual = residual[o],
                                 !.fase = IF EsConteo(o) THEN "invalidar"
                                                         ELSE "commit"])

(* A target not evaluated yet has no residual: media_kalman would be NULL,   *)
(* the UPDATE fails, the transaction is rolled back and the row retried.     *)
ResidualNulo(w) ==
    /\ tx[w].fase = "stockObjetivo"
    /\ StockLibrePara(fila[Objetivo(w)].key, w)
    /\ residual[Objetivo(w)] = Null
    /\ EnTx(w, TxIdle)

-----------------------------------------------------------------------------
(* invalidarConteosDuplicados, and its twin in confirmar_movimiento()        *)

(* Variant: only the suspicious conteos are invalidated.                     *)
AbrirInvalidacionSospechosas(w) ==
    /\ tx[w].fase = "invalidar"
    /\ EnTx(w, [tx[w] EXCEPT
           !.fase = "invalidando",
           !.vistas = {j \in Rivales(Resuelto(w)) : status[j] = "SOSPECHOSA"},
           !.corte = {j \in Ids : Existe(j)}])

(* The UPDATE starts: its snapshot fixes the rows it will try to write.      *)
AbrirInvalidacion(w) ==
    /\ tx[w].fase = "invalidar"
    /\ EnTx(w, [tx[w] EXCEPT
           !.fase = "invalidando",
           !.vistas = {j \in Rivales(Resuelto(w)) : status[j] \in Resolubles},
           !.corte = {j \in Ids : Existe(j)}])

(* One row of the snapshot: wait for its lock, then test the WHERE again on  *)
(* the version committed meanwhile.  The lock is kept either way.            *)
InvalidarFila(w, j) ==
    /\ tx[w].fase = "invalidando"
    /\ j \in tx[w].vistas
    /\ FilaLibrePara(j, w)
    /\ EnTx(w, [tx[w] EXCEPT
           !.vistas = @ \ {j},
           !.noKey = @ \cup {j},
           !.inval = @ \cup {i \in {j} : status[i] \in Resolubles}])

(* Variant: the entries of the invalidated conteos are left as they were.    *)
SincronizarNada(w) ==
    /\ tx[w].fase = "invalidando"
    /\ tx[w].vistas = {}
    /\ EnTx(w, [tx[w] EXCEPT !.fase = "commit"])

(* UPDATE registros_conteo: the worker names the rows it just invalidated;   *)
(* confirmar_movimiento() names every row ever invalidated for the same key. *)
SincronizarInvalidados(w) ==
    /\ tx[w].fase = "invalidando"
    /\ tx[w].vistas = {}
    /\ LET antes == IF tx[w].veredicto = "confirmar"
                    THEN {j \in Rivales(Resuelto(w)) : decision[j] = "invalidado"}
                    ELSE {}
       IN  EnTx(w, [tx[w] EXCEPT
               !.fase = "commit",
               !.regs = {j \in tx[w].inval \cup antes : registro[j] # "no"}])

-----------------------------------------------------------------------------
(* Commit, one action per way a transaction ends well.  All the writes of the *)
(* transaction become visible and its locks are released.                     *)

PorCommit(w, v) ==
    /\ tx[w].fase = "commit"
    /\ tx[w].veredicto = v
    /\ tx' = [tx EXCEPT ![w] = TxIdle]
    /\ UNCHANGED <<siguiente, fila, referencia, caidas>>

SinMovimiento == UNCHANGED <<stock, media, movimientos, auditoria>>

StatusInvalidados(w)   == Asignar(status, tx[w].inval, "RECHAZADA")
DecisionInvalidados(w) == Asignar(decision, tx[w].inval, "invalidado")
RegistroInvalidados(w) == Asignar(registro, tx[w].regs, "RECHAZADA")

CommitPasa(w) ==
    LET i == Tomada(w)
    IN  /\ PorCommit(w, "PASA")
        /\ AplicarMovimiento(w, i, "ACEPTADA")
        /\ auditoria' = auditoria \cup {i}
        /\ status' = [StatusInvalidados(w) EXCEPT ![i] = "ACEPTADA"]
        /\ decision' = [DecisionInvalidados(w) EXCEPT ![i] = "PASA"]
        /\ residual' = [residual EXCEPT ![i] = tx[w].residual]
        /\ registro' = ConRegistros(RegistroInvalidados(w), {i}, "ACEPTADA")
        /\ corte' = [corte EXCEPT ![i] = tx[w].corte]

CommitFalla(w) ==
    LET i == Tomada(w)
    IN  /\ PorCommit(w, "FALLA")
        /\ SinMovimiento
        /\ status' = [status EXCEPT ![i] = "SOSPECHOSA"]
        /\ decision' = [decision EXCEPT ![i] = "FALLA"]
        /\ residual' = [residual EXCEPT ![i] = tx[w].residual]
        /\ registro' = ConRegistros(registro, {i}, "SOSPECHOSA")
        /\ UNCHANGED corte

CommitSinCambios(w) ==
    LET i == Tomada(w)
    IN  /\ PorCommit(w, "sin_cambios")
        /\ SinMovimiento
        /\ status' = [StatusInvalidados(w) EXCEPT ![i] = "ACEPTADA"]
        /\ decision' = [DecisionInvalidados(w) EXCEPT ![i] = "sin_cambios"]
        /\ residual' = [residual EXCEPT ![i] = 0]
        /\ registro' = ConRegistros(RegistroInvalidados(w), {i}, "ACEPTADA")
        /\ corte' = [corte EXCEPT ![i] = tx[w].corte]

(* The status evalConfirmacion gives to the confirmation itself and to the   *)
(* registro of its target, whatever confirmar_movimiento() answered.         *)
Respuesta(w) ==
    IF fila[Tomada(w)].confirmar THEN "CONFIRMADA_MANUAL" ELSE "RECHAZADA"

CommitConfirmar(w) ==
    LET i == Tomada(w)
        o == Objetivo(w)
    IN  /\ PorCommit(w, "confirmar")
        /\ AplicarMovimiento(w, o, "CONFIRMADA_MANUAL")
        /\ status' = [StatusInvalidados(w) EXCEPT ![o] = "CONFIRMADA_MANUAL",
                                                  ![i] = Respuesta(w)]
        /\ decision' = DecisionInvalidados(w)
        /\ registro' = ConRegistros(RegistroInvalidados(w), {o}, Respuesta(w))
        /\ corte' = [corte EXCEPT ![o] = tx[w].corte]
        /\ UNCHANGED <<auditoria, residual>>

CommitRechazar(w) ==
    /\ PorCommit(w, "rechazar")
    /\ SinMovimiento
    /\ status' = [status EXCEPT ![Objetivo(w)] = "RECHAZADA",
                                ![Tomada(w)] = Respuesta(w)]
    /\ registro' = ConRegistros(registro, {Objetivo(w)}, Respuesta(w))
    /\ UNCHANGED <<decision, residual, corte>>

CommitSinEfecto(w) ==
    /\ PorCommit(w, "sin_efecto")
    /\ SinMovimiento
    /\ status' = [status EXCEPT ![Tomada(w)] = Respuesta(w)]
    /\ registro' = ConRegistros(registro, {Objetivo(w)}, Respuesta(w))
    /\ UNCHANGED <<decision, residual, corte>>

CommitDescarte(w) ==
    LET i == Tomada(w)
        lectura == fila[i].tool \in Lecturas
    IN  /\ PorCommit(w, "descarte")
        /\ SinMovimiento
        /\ status' = [status EXCEPT ![i] = IF lectura THEN "ACEPTADA"
                                                      ELSE "RECHAZADA"]
        /\ decision' = [decision EXCEPT ![i] = IF lectura THEN @
                                                          ELSE "unknown_tool"]
        /\ UNCHANGED <<residual, registro, corte>>

-----------------------------------------------------------------------------
(* Rollback *)

(* PostgreSQL finds w in a cycle of waits and aborts its transaction.        *)
AbortarPorDeadlock(w) == EnDeadlock(w) /\ EnTx(w, TxIdle)

(* The process stops, the context is cancelled or the connection is lost:    *)
(* the server rolls the transaction back and the row is PENDING as before.   *)
Caer(w) ==
    /\ tx[w].fase # "idle"
    /\ caidas < MaxCaidas
    /\ caidas' = caidas + 1
    /\ tx' = [tx EXCEPT ![w] = TxIdle]
    /\ UNCHANGED <<tablas, referencia>>

-----------------------------------------------------------------------------
(* Statements that may have to wait for a row lock: FOR UPDATE on stock, FOR *)
(* UPDATE on the target of a confirmation, and the invalidating UPDATE.      *)
Esperar(w) ==
    \/ BloquearStock(w)
    \/ ObjetivoSinEfecto(w)
    \/ RechazarObjetivo(w)
    \/ ConfirmarObjetivo(w)
    \/ BloquearStockObjetivo(w)
    \/ ResidualNulo(w)
    \/ \E j \in Ids : InvalidarFila(w, j)

(* The statements that never wait.                                           *)
Avanzar(w) ==
    \/ Descartar(w)
    \/ EvaluarSinCambios(w)
    \/ KalmanEvaluar(w)
    \/ EvaluarConfirmacion(w)
    \/ AbrirInvalidacion(w)
    \/ SincronizarInvalidados(w)
    \/ CommitPasa(w)
    \/ CommitFalla(w)
    \/ CommitSinCambios(w)
    \/ CommitConfirmar(w)
    \/ CommitRechazar(w)
    \/ CommitSinEfecto(w)
    \/ CommitDescarte(w)

PasoWorker(w) ==
    \/ \E i \in Ids : Tomar(w, i)
    \/ Esperar(w)
    \/ Avanzar(w)
    \/ AbortarPorDeadlock(w)
    \/ Caer(w)
=============================================================================
