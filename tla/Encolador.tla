----------------------------- MODULE Encolador -----------------------------
(***************************************************************************)
(* The producers of the queue (services/llm_common/db.py): a handler of an *)
(* LLM service or of the api-gateway turns a request into a row of         *)
(* pending_evaluations and, when the session id is numeric, into a row of  *)
(* registros_conteo.  Every statement is its own transaction (asyncpg      *)
(* autocommit), so the worker runs between any two of them, and the        *)
(* process may fail between them.                                          *)
(***************************************************************************)
EXTENDS InventarioDB

CONSTANTS
    Pedidos,             (* the tools asked for                               *)
    Cantidades,          (* quantities added or removed                       *)
    Conteos,             (* absolute quantities counted                       *)
    Sesiones,            (* kinds of session id: TRUE if it is all digits     *)
    ConfirmaAdelantada,  (* may a confirmation name an id not issued yet?     *)
    Abandonan            (* may a handler stop between two statements?        *)

ASSUME EncoladorAssumption ==
    /\ Pedidos \subseteq Tools
    /\ Cantidades \subseteq Nat \ {0}
    /\ Conteos \subseteq Nat
    /\ Sesiones \subseteq BOOLEAN
    /\ ConfirmaAdelantada \in BOOLEAN
    /\ Abandonan \in BOOLEAN

VARIABLE req     (* where each handler is between its statements *)

ReqIdle == [fase |-> "idle", key |-> NoKey, leido |-> 0, base |-> 0, id |-> 0,
            fila |-> FilaVacia]

Reqs == [fase: {"idle", "leido", "insertar", "registrar", "referir"},
         key: Keys \cup {NoKey}, leido: Int, base: Nat, id: Ids \cup {0},
         fila: Filas]

EncoladorInit == req = [c \in Clientes |-> ReqIdle]

EncoladorTypeOK == req \in [Clientes -> Reqs]

-----------------------------------------------------------------------------
(* INSERT INTO pending_evaluations, first half: the BIGSERIAL gives the id.  *)
TomarId(c, f) ==
    /\ siguiente <= MaxPend
    /\ siguiente' = siguiente + 1
    /\ req' = [req EXCEPT ![c] = [ReqIdle EXCEPT !.fase = "insertar",
                                                 !.id = siguiente, !.fila = f]]
    /\ UNCHANGED <<stock, media, movimientos, auditoria, fila, status, decision,
                   residual, registro, tx, referencia, corte>>

(* agregar_inventario and remover_inventario: the delta does not depend on   *)
(* the stock that resolving the product reads.                               *)
EncolarMovimiento(c) ==
    /\ req[c].fase = "idle"
    /\ \E t \in Pedidos \cap {"agregar_inventario", "remover_inventario"},
          k \in Keys, n \in Cantidades, s \in Sesiones :
          TomarId(c, [FilaVacia EXCEPT
              !.tool = t, !.key = k, !.sesion = s,
              !.delta = IF t = "agregar_inventario" THEN n ELSE -n])

(* registrar_conteo, first statement: the product row with its stock_actual. *)
LeerStock(c) ==
    /\ req[c].fase = "idle"
    /\ "registrar_conteo" \in Pedidos
    /\ siguiente <= MaxPend
    /\ \E k \in Keys :
          req' = [req EXCEPT ![c] = [ReqIdle EXCEPT
                     !.fase = "leido", !.key = k, !.leido = stock[k],
                     !.base = Len(movimientos)]]
    /\ UNCHANGED dbVars

(* Variant: the count itself is queued, as if "hay N" meant "agregue N".     *)
EncolarConteoSinRestar(c) ==
    /\ req[c].fase = "leido"
    /\ \E n \in Conteos, s \in Sesiones :
          TomarId(c, [FilaVacia EXCEPT
              !.tool = "registrar_conteo", !.key = req[c].key, !.sesion = s,
              !.delta = n, !.contada = n, !.base = req[c].base])

(* registrar_conteo, second statement: "hay N" is stored as N - stock_actual *)
(* with the stock that was read before.                                      *)
EncolarConteo(c) ==
    /\ req[c].fase = "leido"
    /\ \E n \in Conteos, s \in Sesiones :
          TomarId(c, [FilaVacia EXCEPT
              !.tool = "registrar_conteo", !.key = req[c].key, !.sesion = s,
              !.delta = n - req[c].leido, !.contada = n, !.base = req[c].base])

(* confirmar_movimiento carries the id the user answers to.                  *)
EncolarConfirmacion(c) ==
    /\ req[c].fase = "idle"
    /\ "confirmar_movimiento" \in Pedidos
    /\ \E t \in Ids, si \in BOOLEAN :
          /\ Existe(t) \/ ConfirmaAdelantada
          /\ TomarId(c, [FilaVacia EXCEPT !.tool = "confirmar_movimiento",
                                          !.target = t, !.confirmar = si])

(* Second half: the INSERT waits until its producto can be referenced (FOR   *)
(* KEY SHARE) and commits.  The registro is next if the session is numeric;  *)
(* a confirmation has no producto, so no registro either.                    *)
Insertar(c) ==
    /\ req[c].fase = "insertar"
    /\ ProductoReferenciable(req[c].fila.key)
    /\ InsertarPending(req[c].id, req[c].fila)
    /\ req' = [req EXCEPT ![c] =
                  IF @.fila.sesion /\ @.fila.key # NoKey
                  THEN [ReqIdle EXCEPT !.fase = "registrar", !.id = req[c].id]
                  ELSE ReqIdle]
    /\ UNCHANGED siguiente

(* INSERT INTO registros_conteo ... 'PENDIENTE', first check of references.  *)
ReferirProducto(c) ==
    /\ req[c].fase = "registrar"
    /\ ProductoReferenciable(fila[req[c].id].key)
    /\ referencia' = [referencia EXCEPT ![c] = req[c].id]
    /\ req' = [req EXCEPT ![c].fase = "referir"]
    /\ UNCHANGED <<tablas, tx>>

(* Variant: the registro is created with the status of the queue.            *)
InsertarRegistroPending(c) ==
    /\ req[c].fase = "referir"
    /\ PendingReferenciable(req[c].id)
    /\ registro' = [registro EXCEPT ![req[c].id] = "PENDING"]
    /\ referencia' = [referencia EXCEPT ![c] = 0]
    /\ req' = [req EXCEPT ![c] = ReqIdle]
    /\ UNCHANGED <<stock, media, movimientos, auditoria, siguiente, fila,
                   status, decision, residual, tx, corte>>

(* Last check, and commit of the registro.                                   *)
InsertarRegistro(c) ==
    /\ req[c].fase = "referir"
    /\ PendingReferenciable(req[c].id)
    /\ registro' = [registro EXCEPT ![req[c].id] = "PENDIENTE"]
    /\ referencia' = [referencia EXCEPT ![c] = 0]
    /\ req' = [req EXCEPT ![c] = ReqIdle]
    /\ UNCHANGED <<stock, media, movimientos, auditoria, siguiente, fila,
                   status, decision, residual, tx, corte>>

Rendirse(c) ==
    /\ req' = [req EXCEPT ![c] = ReqIdle]
    /\ referencia' = [referencia EXCEPT ![c] = 0]
    /\ UNCHANGED <<tablas, tx>>

(* The handler ends between two statements: its process stops, or an INSERT  *)
(* fails (sesion_id is not a row of sesiones_conteo).  Its id is lost.       *)
AbandonarPedido(c) ==
    /\ Abandonan
    /\ req[c].fase # "idle"
    /\ Rendirse(c)

(* PostgreSQL chooses the INSERT of the registro to break a deadlock: the    *)
(* exception ends the handler.                                               *)
AbortarRegistro(c) ==
    /\ req[c].fase = "referir"
    /\ EnDeadlock(c)
    /\ Rendirse(c)

(* A row put in the queue by hand with psql (scripts/seed_test.sql): the only *)
(* way a tool that is neither a movement nor a confirmation gets there.      *)
InsertarAMano ==
    /\ siguiente <= MaxPend
    /\ siguiente' = siguiente + 1
    /\ \E t \in Pedidos \ (Movimientos \cup {"confirmar_movimiento"}) :
          InsertarPending(siguiente, [FilaVacia EXCEPT !.tool = t])
    /\ UNCHANGED req

PasoEncolador(c) ==
    \/ EncolarMovimiento(c)
    \/ LeerStock(c)
    \/ EncolarConteo(c)
    \/ EncolarConfirmacion(c)
    \/ Insertar(c)
    \/ ReferirProducto(c)
    \/ InsertarRegistro(c)
    \/ AbandonarPedido(c)
    \/ AbortarRegistro(c)
=============================================================================
