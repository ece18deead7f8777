---------------------------- MODULE SesionConteo ----------------------------
(***************************************************************************)
(* Counting sessions: the endpoints of the api-gateway that open, feed,    *)
(* close and report a session (services/api-gateway/main.py), and the LLM  *)
(* services that registrar-voz calls, down to the statements they run.     *)
(* Each handler is a coroutine and each statement a transaction, so other  *)
(* handlers and the worker run between two of them; a gateway that stops   *)
(* waiting for an LLM service does not stop it.                            *)
(* The queue with its workers is LibroStock here: a request is applied or  *)
(* closed in one step, with the session entries it synchronises.           *)
(***************************************************************************)
EXTENDS Integers, Sequences, FiniteSets

CONSTANTS
    Manejadores,   (* concurrent HTTP requests                               *)
    Registran,     (* those that may be a registrar-manual or registrar-voz  *)
    Revisan,       (* those that may be a finalizar or a report              *)
    Tareas,        (* concurrent /infer requests in the LLM services         *)
    Sesiones,      (* ids that sesiones_conteo may take                      *)
    Productos, Bodegas,
    Claves,        (* the rows of stock: pairs <<producto, bodega>>          *)
    Inicial,       (* their stock_actual at the start                        *)
    Cantidades,    (* what people say they counted or moved                  *)
    Operaciones,   (* what people do, among "manual", "voz", "cerrar",       *)
                   (* "reporte" and "contestar"                              *)
    Herramientas,  (* the tools that an LLM finds in a text                  *)
    MaxPend        (* bound on the requests queued                           *)

ASSUME SesionAssumption ==
    /\ Registran \cup Revisan \subseteq Manejadores
    /\ Claves \subseteq Productos \X Bodegas
    /\ \A p \in Productos : \E b \in Bodegas : <<p, b>> \in Claves
    /\ Bodegas \cup Sesiones \cup Cantidades \subseteq Nat
    /\ Inicial \in Nat /\ MaxPend \in Nat
    /\ Manejadores \cap Tareas = {} /\ IsFiniteSet(Productos)
    /\ Herramientas \subseteq {"agregar_inventario", "remover_inventario", "registrar_conteo"}

VARIABLES
    sesion,        (* sesiones_conteo: estado and bodega_id                  *)
    stock,         (* stock_actual of each row                               *)
    cola,          (* pending_evaluations, by id                             *)
    registros,     (* registros_conteo, in order of insertion                *)
    h              (* the local state of each coroutine                      *)

vars == <<sesion, stock, cola, registros, h>>

Actores == Manejadores \cup Tareas

Claro == <<CHOOSE p \in Productos : TRUE, 0>>
(* antes is history: the session was closed while the coroutine was at work. *)
Libre == [fase |-> "libre", ses |-> 0, antes |-> FALSE, via |-> "manual", clave |-> Claro,
          leido |-> 0, tool |-> "registrar_conteo", cant |-> 0, pend |-> 0,
          contados |-> {}, faltan |-> {}, resumen |-> {}]

EnBodega(b) == {p \in Productos : <<p, b>> \in Claves}
DeSesion(s) == {i \in DOMAIN registros : registros[i].ses = s}

(* Variant: an entry counts only when it was accepted.                       *)
CatalogoPendienteAceptado(s) ==
    {p \in EnBodega(sesion[s].bodega) :
        ~\E i \in DeSesion(s) : /\ registros[i].clave = <<p, sesion[s].bodega>>
                               /\ registros[i].decision = "ACEPTADA"}

(* get_catalogo_bodega with solo_pendientes: the LEFT JOIN that found no     *)
(* entry of the session for the product in that bodega.                      *)
CatalogoPendiente(s) ==
    {p \in EnBodega(sesion[s].bodega) :
        ~\E i \in DeSesion(s) : registros[i].clave = <<p, sesion[s].bodega>>}

(* /api/sesion/{id}/estado *)
Estado(s) == [contados   |-> Cardinality(DeSesion(s)),
              pendientes |-> Cardinality(EnBodega(sesion[s].bodega))
                             - Cardinality(DeSesion(s))]

Init ==
    /\ sesion = [s \in Sesiones |-> [estado |-> "no", bodega |-> 0]]
    /\ stock = [k \in Claves |-> Inicial]
    /\ cola = <<>> /\ registros = <<>>
    /\ h = [a \in Actores |-> Libre]

-----------------------------------------------------------------------------
(* POST /api/sesion/iniciar: the id is the next of the table.                *)
IniciarSesion ==
    /\ \E s \in Sesiones, b \in Bodegas :
          /\ \A t \in Sesiones : sesion[t].estado = "no" <=> t >= s
          /\ sesion' = [sesion EXCEPT ![s] = [estado |-> "activa", bodega |-> b]]
    /\ UNCHANGED <<stock, cola, registros, h>>

Pasa(a, nuevo) ==
    /\ h' = [h EXCEPT ![a] = nuevo]
    /\ UNCHANGED <<sesion, stock, cola, registros>>

(* The first statement of finalizar, registrar-manual and registrar-voz: the *)
(* row of the session.  Not found is 404, not active 400: nothing follows.   *)
VerParaCerrar(c) ==
    /\ h[c].fase = "libre" /\ c \in Revisan /\ "cerrar" \in Operaciones
    /\ \E s \in Sesiones :
          /\ sesion[s].estado = "activa"
          /\ Pasa(c, [Libre EXCEPT !.fase = "cerrar", !.ses = s])

VerParaRegistrar(c) ==
    /\ h[c].fase = "libre" /\ c \in Registran
    /\ \E s \in Sesiones, f \in {"manual", "voz"} \cap Operaciones :
          /\ sesion[s].estado = "activa"
          /\ Pasa(c, [Libre EXCEPT !.fase = f, !.ses = s])

(* enqueue_registro_manual, first statement: the rows of productos_en_bodega *)
(* with that id, of which fetchrow keeps the first, whatever its bodega.     *)
LeerProducto(c, p, f) ==
    \E k \in {q \in Claves : q[1] = p}, n \in Cantidades :
        Pasa(c, [h[c] EXCEPT !.fase = f, !.via = "manual", !.clave = k,
                             !.leido = stock[k], !.cant = n])

(* registrar-manual: the page sends a product of the catalogue.              *)
RegistrarManual(c) ==
    /\ h[c].fase = "manual"
    /\ \E p \in Productos : LeerProducto(c, p, "encolar")

(* registrar-voz when the text is "<number> <product>" and the name is close *)
(* to one of the bodega: its id goes through the same function.  The verb    *)
(* (agrega, saca) is matched and ignored.                                    *)
RegistrarVozRapido(c) ==
    /\ h[c].fase = "voz"
    /\ \E p \in EnBodega(sesion[h[c].ses].bodega) : LeerProducto(c, p, "encolar")

(* registrar-voz otherwise: _post_with_fallback.  The first POST goes to the *)
(* cloud or, without one, to the local service; when the cloud fails, times  *)
(* out or cannot be reached the text goes to the local one, whatever the     *)
(* first has queued and goes on queueing.                                    *)
PostLlm(c) ==
    /\ h[c].fase \in {"voz", "nube"}
    /\ \E t \in Tareas, v \in IF h[c].fase = "voz" THEN {"nube", "local"} ELSE {"local"} :
          /\ h[t].fase = "libre"
          /\ h' = [h EXCEPT ![c].fase = v,
                            ![t] = [Libre EXCEPT !.fase = "infiere", !.via = v,
                                                 !.ses = h[c].ses, !.antes = h[c].antes]]
    /\ UNCHANGED <<sesion, stock, cola, registros>>

(* The next tool call of the list, if there is one: enqueue_pending finds    *)
(* the product in the catalogue of the bodega and reads its row.  The        *)
(* session is not looked at again.  A ValueError only skips the call, a read *)
(* is not queued and a confirmation is the Confirmar of below.               *)
LlamadaLlm(t) ==
    /\ h[t].fase = "infiere"
    /\ \E p \in EnBodega(sesion[h[t].ses].bodega), n \in Cantidades, tool \in Herramientas :
          LET k == <<p, sesion[h[t].ses].bodega>>
          IN  /\ tool # "registrar_conteo" => n > 0
              /\ Pasa(t, [h[t] EXCEPT !.fase = "encolar", !.clave = k, !.leido = stock[k],
                                      !.tool = tool, !.cant = n])

(* enqueue_pending reads the stock again for stock_sistema.  Variant: both do. *)
TrasEncolarReleer(via) == "releer"
TrasEncolar(via)       == IF via = "manual" THEN "registrar" ELSE "releer"

Delta(l) == CASE l.tool = "registrar_conteo"   -> l.cant - l.leido
              [] l.tool = "agregar_inventario" -> l.cant
              [] OTHER                         -> -l.cant

(* INSERT INTO pending_evaluations.                                          *)
Encolar(a) ==
    /\ h[a].fase = "encolar"
    /\ Len(cola) < MaxPend
    /\ cola' = Append(cola, [tool |-> h[a].tool, clave |-> h[a].clave,
                             delta |-> Delta(h[a]), via |-> h[a].via,
                             status |-> "PENDING", inval |-> FALSE])
    /\ h' = [h EXCEPT ![a] = [Libre EXCEPT
          !.fase = TrasEncolar(h[a].via), !.ses = h[a].ses, !.antes = h[a].antes,
          !.via = h[a].via, !.clave = h[a].clave,
          !.leido = IF h[a].via = "manual" THEN h[a].leido ELSE 0,
          !.cant = h[a].cant, !.pend = Len(cola) + 1]]
    /\ UNCHANGED <<sesion, stock, registros>>

ReleerStock(a) ==
    /\ h[a].fase = "releer"
    /\ Pasa(a, [h[a] EXCEPT !.fase = "registrar", !.leido = stock[h[a].clave]])

(* After an entry the list of the cloud model goes on; needle makes one call *)
(* of a text, and the manual path is over.                                   *)
TrasRegistrar(l) ==
    IF l.via = "nube" THEN [Libre EXCEPT !.fase = "infiere", !.via = l.via,
                                         !.ses = l.ses, !.antes = l.antes]
                      ELSE Libre

(* INSERT INTO registros_conteo.                                             *)
Registrar(a) ==
    /\ h[a].fase = "registrar"
    /\ registros' = Append(registros,
          [ses |-> h[a].ses, antes |-> h[a].antes, clave |-> h[a].clave, contada |-> h[a].cant,
           sistema |-> h[a].leido, pend |-> h[a].pend, decision |-> "PENDIENTE"])
    /\ h' = [h EXCEPT ![a] = TrasRegistrar(h[a])]
    /\ UNCHANGED <<sesion, stock, cola>>

(* Those that may still add entries to a session.                            *)
PorRegistrar(s) ==
    {a \in Actores : h[a].ses = s /\
        h[a].fase \in {"manual", "voz", "nube", "infiere", "encolar", "releer", "registrar"}}

(* finalizar, second statement: the UPDATE does not test estado again.       *)
CerrarSesion(c, de, a) ==
    LET s == h[c].ses
        tocan == IF sesion[s].estado = "activa" THEN PorRegistrar(s) ELSE {}
    IN  /\ h[c].fase = de
        /\ sesion' = [sesion EXCEPT ![s].estado = "finalizada"]
        /\ h' = [d \in Actores |-> IF d = c THEN [h[c] EXCEPT !.fase = a]
                                   ELSE [h[d] EXCEPT !.antes = @ \/ d \in tocan]]
        /\ UNCHANGED <<stock, cola, registros>>

(* Third statement: the entries that the counters of the response count.     *)
Resumir(c, de, a) ==
    /\ h[c].fase = de
    /\ Pasa(c, [h[c] EXCEPT !.fase = a, !.resumen = DeSesion(h[c].ses)])

(* Variant: the counters are read before the session is closed.              *)
FinalizarAlReves(c) == Resumir(c, "cerrar", "cerrar2") \/ CerrarSesion(c, "cerrar2", "cerrado")
FinalizarSesion(c)  == CerrarSesion(c, "cerrar", "resumir") \/ Resumir(c, "resumir", "cerrado")

(* /api/reporte/diferencias: the entries joined with the catalogue, and in   *)
(* another statement the products of the bodega with no entry.               *)
Contados(c, s, a) ==
    Pasa(c, [h[c] EXCEPT !.fase = a, !.ses = s,
                         !.contados = {registros[i].clave : i \in DeSesion(s)}])
NoContados(c, s, a) ==
    Pasa(c, [h[c] EXCEPT !.fase = a, !.ses = s,
                !.faltan = {<<p, sesion[s].bodega>> : p \in CatalogoPendiente(s)}])

ReporteAlReves(c, s) ==
    \/ h[c].fase = "libre" /\ NoContados(c, s, "reporte")
    \/ h[c].fase = "reporte" /\ s = h[c].ses /\ Contados(c, s, "reportado")
ReporteDiferencias(c, s) ==
    \/ h[c].fase = "libre" /\ Contados(c, s, "reporte")
    \/ h[c].fase = "reporte" /\ s = h[c].ses /\ NoContados(c, s, "reportado")

(* A coroutine has answered, or failed at any of its statements.  The end of *)
(* a handler is not the end of the LLM services it called.                   *)
Terminar(a) == h[a].fase # "libre" /\ Pasa(a, Libre)

Atender(c) ==
    \/ VerParaCerrar(c) \/ VerParaRegistrar(c)
    \/ RegistrarManual(c) \/ RegistrarVozRapido(c) \/ PostLlm(c)
    \/ FinalizarSesion(c)
    \/ /\ c \in Revisan /\ "reporte" \in Operaciones
       /\ \E s \in Sesiones : sesion[s].estado # "no" /\ ReporteDiferencias(c, s)

(* What a handler and an LLM service have in common: llm_common/db.py.       *)
Seguir(a) == Encolar(a) \/ ReleerStock(a) \/ Registrar(a) \/ Terminar(a)

-----------------------------------------------------------------------------
(* The requests whose entries a resolution writes: its own, those it closes, *)
(* and when confirmar_movimiento() runs every count of the row of stock that *)
(* was ever closed that way.  Variant: only its own.                         *)
SincronizadosSinRivales(i, st, cierra) == {i}
Sincronizados(i, st, cierra) ==
    {i} \cup cierra
    \cup {j \in DOMAIN cola : /\ st = "CONFIRMADA_MANUAL" /\ j # i
                              /\ cola[i].tool = "registrar_conteo"
                              /\ cola[j].inval /\ cola[j].clave = cola[i].clave}

(* The worker: the status of i, the one of the rows closed with it, and the  *)
(* entries that exist for them, in one transaction.                          *)
Resolucion(i, st, cierra) ==
    LET nuevo == [j \in DOMAIN cola |->
                    IF j = i THEN st ELSE IF j \in cierra THEN "RECHAZADA"
                    ELSE cola[j].status]
    IN  /\ cola' = [j \in DOMAIN cola |->
                      [cola[j] EXCEPT !.status = nuevo[j], !.inval = @ \/ j \in cierra]]
        /\ registros' = [n \in DOMAIN registros |->
              IF registros[n].pend \in Sincronizados(i, st, cierra)
              THEN [registros[n] EXCEPT !.decision = nuevo[registros[n].pend]]
              ELSE registros[n]]
        /\ stock' = IF st \in {"ACEPTADA", "CONFIRMADA_MANUAL"}
                    THEN [stock EXCEPT ![cola[i].clave] = @ + cola[i].delta] ELSE stock
        /\ UNCHANGED <<sesion, h>>

(* Variant: a count closes the others whether they wait or not.              *)
RivalesDeSiempre(i) ==
    IF cola[i].tool # "registrar_conteo" THEN {}
    ELSE {j \in DOMAIN cola \ {i} : /\ cola[j].tool = "registrar_conteo"
                                    /\ cola[j].clave = cola[i].clave}

(* The other counts of the same row of stock that wait, closed with i.       *)
Rivales(i) ==
    IF cola[i].tool # "registrar_conteo" THEN {}
    ELSE {j \in DOMAIN cola \ {i} : /\ cola[j].tool = "registrar_conteo"
                                    /\ cola[j].clave = cola[i].clave
                                    /\ cola[j].status \in {"PENDING", "SOSPECHOSA"}}

Evaluar(i) ==
    /\ cola[i].status = "PENDING"
    /\ \/ Resolucion(i, "ACEPTADA", Rivales(i))
       \/ Resolucion(i, "SOSPECHOSA", {})

(* The worker runs a confirmation whose target waits.  A yes to a request    *)
(* not evaluated yet fails on its NULL residual and is rolled back.          *)
Confirmar(i) ==
    \/ cola[i].status = "SOSPECHOSA" /\ Resolucion(i, "CONFIRMADA_MANUAL", Rivales(i))
    \/ cola[i].status \in {"PENDING", "SOSPECHOSA"} /\ Resolucion(i, "RECHAZADA", {})

(* And one that comes late, repeated or wrong: confirmar_movimiento() does   *)
(* nothing, and evalConfirmacion writes the answer on the entry all the same. *)
ConfirmarTarde(i) ==
    /\ cola[i].status \notin {"PENDING", "SOSPECHOSA"}
    /\ \E d \in {"CONFIRMADA_MANUAL", "RECHAZADA"} :
          registros' = [n \in DOMAIN registros |->
              IF registros[n].pend = i THEN [registros[n] EXCEPT !.decision = d]
                                       ELSE registros[n]]
    /\ UNCHANGED <<sesion, stock, cola, h>>

Next ==
    \/ IniciarSesion
    \/ \E c \in Manejadores : Atender(c)
    \/ \E t \in Tareas : LlamadaLlm(t)
    \/ \E a \in Actores : Seguir(a)
    \/ \E i \in DOMAIN cola :
          \/ Evaluar(i)
          \/ "contestar" \in Operaciones /\ (Confirmar(i) \/ ConfirmarTarde(i))

Spec == Init /\ [][Next]_vars

-----------------------------------------------------------------------------
Decisiones == {"PENDIENTE", "ACEPTADA", "SOSPECHOSA", "CONFIRMADA_MANUAL", "RECHAZADA"}

(* Rows refer to rows that exist: an entry to an open session, a stock row   *)
(* and a request of the same stock row.  The entry has one of five decisions: *)
(* an alert or an acceptance is the status of its request, and an answer is  *)
(* written only where there is nothing left to decide.                       *)
TypeOK ==
    \A n \in DOMAIN registros :
        LET r == registros[n] IN
        /\ sesion[r.ses].estado # "no" /\ r.clave \in Claves
        /\ r.decision \in Decisiones
        /\ r.pend \in DOMAIN cola /\ cola[r.pend].clave = r.clave
        /\ r.decision \in {"SOSPECHOSA", "ACEPTADA"} => r.decision = cola[r.pend].status
        /\ r.decision \in {"CONFIRMADA_MANUAL", "RECHAZADA"} =>
              cola[r.pend].status \notin {"PENDING", "SOSPECHOSA"}

(* The difference a report shows for a manual count, counted minus           *)
(* stock_sistema, is the delta the worker judged, whatever happened to the   *)
(* stock between the statements of the handler.                              *)
DiferenciaEsDelta ==
    \A n \in DOMAIN registros :
        LET r == registros[n] IN
        cola[r.pend].via = "manual" => r.contada - r.sistema = cola[r.pend].delta

(* No report lists a product of its bodega as counted and as not counted.    *)
ReporteSinRepetir ==
    \A c \in Manejadores :
        h[c].fase = "reportado" => h[c].contados \cap h[c].faltan = {}

(* The summary returned when a session is finalised misses no entry but     *)
(* those of requests that had already found it active and were still at work *)
(* when it was closed, in the gateway or in an LLM service that outlives     *)
(* them: however many entries each one adds, and however late.               *)
CierreCuentaTodo ==
    \A c \in Manejadores : h[c].fase = "cerrado" =>
        \A i \in DeSesion(h[c].ses) \ h[c].resumen :
            registros[i].antes

(* The counter "pendientes" of a session is the number of products its       *)
(* catalogue and its report show as not counted, as long as no product was   *)
(* counted twice and no entry fell in another bodega.                        *)
PendientesCoinciden ==
    \A s \in Sesiones : sesion[s].estado # "no" =>
        LET claves == {registros[i].clave : i \in DeSesion(s)}
        IN  (/\ Cardinality(claves) = Cardinality(DeSesion(s))
             /\ \A k \in claves : k[2] = sesion[s].bodega)
            => Estado(s).pendientes = Cardinality(CatalogoPendiente(s))

(* The queue of the sessions keeps the promise of LibroStock: a request is   *)
(* resolved once, a rival is closed only while it waits, and the stock moves *)
(* by the delta that a handler computed from an older reading, once.         *)
EstadoLibro ==
    [i \in 1..MaxPend |->
        IF i \notin DOMAIN cola THEN "libre"
        ELSE CASE cola[i].status \in {"PENDING", "SOSPECHOSA"}         -> "abierto"
               [] cola[i].status \in {"ACEPTADA", "CONFIRMADA_MANUAL"} -> "aplicado"
               [] cola[i].status = "RECHAZADA"                         -> "cerrado"]

PedidoLibro ==
    [i \in 1..MaxPend |->
        IF i \in DOMAIN cola THEN [key |-> cola[i].clave, delta |-> cola[i].delta]
                             ELSE [key |-> <<>>, delta |-> 0]]

Libro == INSTANCE LibroStock WITH
             Keys <- Claves, NoKey <- <<>>, Ids <- 1..MaxPend,
             StockInicial <- [k \in Claves |-> Inicial],
             estado <- EstadoLibro, pedido <- PedidoLibro, saldo <- stock

ImplementaLibro == Libro!Spec

(* An entry waits for a verdict only while its request does (PLAN.md:164-165: *)
(* evalMovimiento synchronises registros_conteo when it accepts or suspects). *)
RegistroSincronizado ==
    \A n \in DOMAIN registros :
        registros[n].decision = "PENDIENTE" => cola[registros[n].pend].status = "PENDING"
=============================================================================
