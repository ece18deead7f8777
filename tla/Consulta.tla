------------------------------ MODULE Consulta ------------------------------
(***************************************************************************)
(* One query from the CLI to the queue and back: handle_query of src/cli.py *)
(* asks the api-gateway, which sends it to the cloud LLM service and, when  *)
(* that fails or takes too long, to the local one; each of them turns the   *)
(* text into tool calls and enqueues them one by one; the CLI then polls    *)
(* what was enqueued and remembers the last alert, which travels with the   *)
(* next query.  Giving up on an HTTP call does not stop its handler.        *)
(* The worker is LibroStock: it resolves a row of the queue in one step.    *)
(***************************************************************************)
EXTENDS Integers, Sequences

CONSTANTS
    Clis,          (* CLI processes                                          *)
    Textos,        (* what users say: see below                              *)
    MaxConsultas,  (* bound on the queries that reach an LLM                 *)
    MaxFallas      (* bound on timeouts, refused calls and exceptions        *)

ASSUME ConsultaAssumption ==
    /\ Textos \subseteq {"si", "no", "agrega", "varios", "mmm"}
    /\ MaxConsultas \in Nat /\ MaxFallas \in Nat

VARIABLES
    cli,       (* per CLI: where it is, its query, last_sospechoso, to poll   *)
    pet,       (* the queries that reached an LLM, by number                  *)
    cola,      (* pending_evaluations, by id                                  *)
    fallas     (* failures so far                                             *)

vars == <<cli, pet, cola, fallas>>

Escritura == [tool |-> "agregar_inventario", target |-> 0, conf |-> FALSE]
Lectura   == [tool |-> "consultar_inventario", target |-> 0, conf |-> FALSE]
Confirma(id, b) == [tool |-> "confirmar_movimiento", target |-> id, conf |-> b]

Servicio == [fase |-> "no", faltan |-> <<>>, pend |-> {}]
Peticiones == DOMAIN pet

Init ==
    /\ cli = [c \in Clis |-> [fase |-> "lista", n |-> 0, alerta |-> 0, pend |-> {}]]
    /\ pet = <<>> /\ cola = <<>> /\ fallas = 0

Falla == fallas < MaxFallas /\ fallas' = fallas + 1

-----------------------------------------------------------------------------
(* _is_inventory_query: words alone such as "si" or "mmm" are conversation.  *)
EsInventario(texto) == texto \in {"agrega", "varios"}

(* Which queries go to the LLM with tools.  Variant: the answer to an alert  *)
(* is routed by its words.                                                   *)
VaAlLlmPorPalabras(texto, alerta) == EsInventario(texto)
VaAlLlm(texto, alerta)            == alerta # 0 \/ EsInventario(texto)

(* handle_query, up to the POST.  The pick of the gateway is its config's.   *)
Preguntar(c, texto) ==
    /\ cli[c].fase = "lista"
    /\ IF VaAlLlm(texto, cli[c].alerta)
       THEN /\ Len(pet) < MaxConsultas
            /\ \E pick \in {"nube", "local"} :
                 pet' = Append(pet, [cli |-> c, texto |-> texto, alerta |-> cli[c].alerta,
                          fase |-> pick, respaldo |-> FALSE,
                          nube |-> [Servicio EXCEPT !.fase = IF pick = "nube" THEN "infiere" ELSE "no"],
                          local |-> [Servicio EXCEPT !.fase = IF pick = "local" THEN "infiere" ELSE "no"]])
            /\ cli' = [cli EXCEPT ![c].fase = "espera", ![c].n = Len(pet) + 1]
       ELSE /\ cli' = [cli EXCEPT ![c].fase = "charla"]
            /\ pet' = pet
    /\ UNCHANGED <<cola, fallas>>

(* B-Link: the conversational model, tried again after a 429, or else a      *)
(* fixed sentence.  Either way a response with no tool calls.                *)
Charlar(c) ==
    /\ cli[c].fase = "charla"
    /\ cli' = [cli EXCEPT ![c].fase = "lista"]
    /\ UNCHANGED <<pet, cola, fallas>>

-----------------------------------------------------------------------------
(* The tool calls each service can make of a text.  With an alert, a yes or  *)
(* a no is decided by parse_confirmacion; otherwise needle is asked with the *)
(* schema of confirmar_movimiento only, and openrouter with every tool, and  *)
(* both write the id of the alert over the one the model gave.               *)
Ids(alerta) == IF alerta # 0 THEN {alerta} ELSE 0..Len(cola)

(* Variant: openrouter keeps the id that its model gave.                     *)
IdsDelModelo(alerta) == 0..Len(cola)
IdsNube(alerta)      == Ids(alerta)

LlamadasNube(texto, alerta) ==
    CASE texto \in {"si", "no"} -> {<<Confirma(alerta, texto = "si")>>}
      [] alerta = 0 /\ texto = "agrega" -> {<<Escritura>>}
      [] OTHER -> {<<>>, <<Lectura, Escritura>>, <<Escritura, Escritura>>}
                  \cup {<<Confirma(i, TRUE)>> : i \in IdsNube(alerta)}

(* What a model may invent: any call with any id, none, or two different     *)
(* ones (_parse_tool_calls drops the repeated).                              *)
Invenciones == {Escritura, Lectura}
               \cup {Confirma(i, b) : i \in 0..Len(cola), b \in BOOLEAN}
RespuestasModelo == {<<>>} \cup {<<x>> : x \in Invenciones}
                    \cup {r \in Invenciones \X Invenciones : r[1] # r[2]}

(* _confirmacion_fast_path keeps the first confirmation of the answer r of   *)
(* needle, with the id of the alert.  Variant: the answer is taken as it is. *)
Primeras(r) == {i \in DOMAIN r : /\ r[i].tool = "confirmar_movimiento"
                                 /\ \A j \in 1..(i - 1) : r[j].tool # "confirmar_movimiento"}
SinFiltro(alerta, r) == {r}
SoloConfirma(alerta, r) ==
    IF Primeras(r) = {} THEN {<<>>}
    ELSE {<<Confirma(alerta, r[i].conf)>> : i \in Primeras(r)}

LocalConAlerta(alerta) == UNION {SoloConfirma(alerta, r) : r \in RespuestasModelo}

LlamadasLocal(texto, alerta) ==
    CASE texto \in {"si", "no"} -> {<<Confirma(alerta, texto = "si")>>}
      [] alerta = 0 /\ texto = "agrega" -> {<<Escritura>>}
      [] alerta = 0 /\ texto # "agrega" -> {<<>>, <<Lectura>>, <<Escritura>>}
      [] OTHER -> LocalConAlerta(alerta)

Svc(n, s, r) == pet' = [pet EXCEPT ![n][s] = r]

Inferir(n, s) ==
    /\ pet[n][s].fase = "infiere"
    /\ \/ /\ \E ll \in IF s = "nube" THEN LlamadasNube(pet[n].texto, pet[n].alerta)
                                     ELSE LlamadasLocal(pet[n].texto, pet[n].alerta) :
                Svc(n, s, [fase |-> "encola", faltan |-> ll, pend |-> {}])
          /\ UNCHANGED fallas
       \/ Falla /\ Svc(n, s, [Servicio EXCEPT !.fase = "error"])
    /\ UNCHANGED <<cli, cola>>

EnCola(n, ll) == Append(cola, [tool |-> ll.tool, target |-> ll.target, conf |-> ll.conf,
                               n |-> n, status |-> "PENDING"])
Encolable(ll) == ll.tool # "consultar_inventario"

(* What an exception of enqueue_pending after its INSERT does to the loop:   *)
(* it ends with 500.  Variant: it goes on, as after a ValueError.            *)
TrasExcepcionSeguir(r) == [r EXCEPT !.faltan = Tail(@)]
TrasExcepcion(r)       == [r EXCEPT !.fase = "error"]

(* One turn of the enqueue loop.  Its list is the set of its ids, which the  *)
(* table gives in increasing order; a read has the id 0, and a ValueError    *)
(* leaves the call without a pending; the connection may be lost before or   *)
(* after the row is committed.                                               *)
EncolarUna(n, s) ==
    LET r == pet[n][s]  ll == Head(r.faltan) IN
    /\ r.fase = "encola" /\ r.faltan # <<>>
    /\ \/ /\ Encolable(ll)
          /\ cola' = EnCola(n, ll)
          /\ \/ /\ Svc(n, s, [r EXCEPT !.faltan = Tail(@), !.pend = @ \cup {Len(cola) + 1}])
                /\ UNCHANGED fallas
             \/ Falla /\ Svc(n, s, TrasExcepcion(r))
       \/ /\ ~Encolable(ll)
          /\ Svc(n, s, [r EXCEPT !.faltan = Tail(@), !.pend = @ \cup {0}])
          /\ UNCHANGED <<cola, fallas>>
       \/ /\ ll.tool = "agregar_inventario"
          /\ Svc(n, s, [r EXCEPT !.faltan = Tail(@)])
          /\ UNCHANGED <<cola, fallas>>
       \/ /\ Encolable(ll) /\ Falla
          /\ Svc(n, s, [r EXCEPT !.fase = "error"])
          /\ UNCHANGED cola
    /\ UNCHANGED cli

-----------------------------------------------------------------------------
(* _post_with_fallback.  200 is the answer; anything else, a refused         *)
(* connection or a timeout sends the same payload to the local service.      *)
Listo(r) == r.fase = "encola" /\ r.faltan = <<>>

ResponderNube(n) ==
    /\ pet[n].fase = "nube"
    /\ Listo(pet[n].nube)
    /\ pet' = [pet EXCEPT ![n].fase = "hecha"]
    /\ UNCHANGED <<cli, cola, fallas>>

(* The cloud service may still be working on it.                             *)
Respaldar(n) ==
    /\ pet[n].fase = "nube"
    /\ \/ pet[n].nube.fase = "error" /\ UNCHANGED fallas
       \/ Falla
    /\ pet' = [pet EXCEPT ![n].fase = "local", ![n].respaldo = TRUE,
                          ![n].local.fase = "infiere"]
    /\ UNCHANGED <<cli, cola>>

(* The service was not running: nothing of the query reached it.             *)
NubeCaida(n) ==
    /\ pet[n].fase = "nube" /\ pet[n].nube.fase = "infiere"
    /\ Falla
    /\ pet' = [pet EXCEPT ![n].fase = "local", ![n].respaldo = TRUE,
                          ![n].nube.fase = "no", ![n].local.fase = "infiere"]
    /\ UNCHANGED <<cli, cola>>

ResponderLocal(n) ==
    /\ pet[n].fase = "local"
    /\ \/ /\ Listo(pet[n].local)
          /\ pet' = [pet EXCEPT ![n].fase = "hecha"]
          /\ UNCHANGED fallas
       \/ /\ pet[n].local.fase = "error"
          /\ pet' = [pet EXCEPT ![n].fase = "fallida"]
          /\ UNCHANGED fallas
       \/ /\ Falla
          /\ pet' = [pet EXCEPT ![n].fase = "fallida"]
    /\ UNCHANGED <<cli, cola>>

Respuesta(n) == IF pet[n].local.fase # "no" THEN pet[n].local ELSE pet[n].nube

-----------------------------------------------------------------------------
(* write_actions and confirm_actions.  Variant: what is not a confirmation.  *)
EscriturasNoConfirma(ids) ==
    {i \in ids : i \notin DOMAIN cola \/ cola[i].tool # "confirmar_movimiento"}
Escrituras(ids) == {i \in ids \ {0} : cola[i].tool = "agregar_inventario"}
Confirmas(ids)  == {i \in ids \ {0} : cola[i].tool = "confirmar_movimiento"}

Sigue(c, r) ==
    cli' = [cli EXCEPT ![c] = [r EXCEPT !.fase = IF r.pend = {} THEN "lista" ELSE "sondea"]]

(* handle_query after the POST.  An error or no tool calls leave the alert   *)
(* as it was; otherwise what was queued is polled.                           *)
RecibirRespuesta(c) ==
    LET n == cli[c].n IN
    /\ cli[c].fase = "espera"
    /\ \/ /\ pet[n].fase = "hecha"
          /\ Sigue(c, [cli[c] EXCEPT !.pend =
                          Escrituras(Respuesta(n).pend) \cup Confirmas(Respuesta(n).pend)])
          /\ UNCHANGED fallas
       \/ /\ pet[n].fase = "fallida"
          /\ Sigue(c, cli[c])
          /\ UNCHANGED fallas
       \/ /\ pet[n].fase \in {"nube", "local"}     (* 60 s, as in the gateway *)
          /\ Falla
          /\ Sigue(c, cli[c])
    /\ UNCHANGED <<pet, cola>>

(* _render_pending: last_sospechoso after showing a row.  Variant: a row     *)
(* that timed out is taken for an alert.                                     *)
AlertaTrasTimeout(st, id, alerta) == IF st \in {"SOSPECHOSA", "TIMEOUT"} THEN id
                                     ELSE 0
AlertaTras(st, id, alerta) == CASE st = "SOSPECHOSA" -> id
                                [] st = "TIMEOUT" -> alerta
                                [] OTHER -> 0

(* The order of the poll: first the writes, then the confirmations.          *)
Antes(i, j) == \/ cola[i].tool = cola[j].tool /\ i <= j
               \/ cola[i].tool # "confirmar_movimiento" /\ cola[j].tool = "confirmar_movimiento"

(* poll_until_resolved and _render_pending, for the next row to poll.        *)
Sondear(c) ==
    \E id \in cli[c].pend :
        LET Con(st) == Sigue(c, [cli[c] EXCEPT !.pend = @ \ {id},
                                               !.alerta = AlertaTras(st, id, @)])
        IN  /\ cli[c].fase = "sondea"
            /\ \A j \in cli[c].pend : Antes(id, j)
            /\ \/ cola[id].status # "PENDING" /\ Con(cola[id].status) /\ UNCHANGED fallas
               \/ cola[id].status = "PENDING" /\ Falla /\ Con("TIMEOUT")
            /\ UNCHANGED <<pet, cola>>

-----------------------------------------------------------------------------
(* The worker.  A confirmation of a row still PENDING is retried later.      *)
Resuelve(i, st) == cola' = [cola EXCEPT ![i].status = st] /\ UNCHANGED <<cli, pet, fallas>>

Evaluar(i) ==
    /\ cola[i].status = "PENDING"
    /\ IF cola[i].tool = "agregar_inventario"
       THEN Resuelve(i, "ACEPTADA") \/ Resuelve(i, "SOSPECHOSA")
       ELSE LET t == cola[i].target
                st == IF cola[i].conf THEN "CONFIRMADA_MANUAL" ELSE "RECHAZADA"
            IN  IF t \in DOMAIN cola /\ cola[t].status \in {"PENDING", "SOSPECHOSA"}
                THEN /\ cola[t].status = "SOSPECHOSA"
                     /\ cola' = [cola EXCEPT ![i].status = st, ![t].status = st]
                     /\ UNCHANGED <<cli, pet, fallas>>
                ELSE Resuelve(i, st)

Gateway(n) == \/ ResponderNube(n) \/ Respaldar(n) \/ NubeCaida(n) \/ ResponderLocal(n)
LLM(n)     == \E s \in {"nube", "local"} : Inferir(n, s) \/ EncolarUna(n, s)
Cliente(c) == Charlar(c) \/ RecibirRespuesta(c) \/ Sondear(c)

Next ==
    \/ \E c \in Clis : Cliente(c) \/ \E x \in Textos : Preguntar(c, x)
    \/ \E n \in Peticiones : Gateway(n) \/ LLM(n)
    \/ \E i \in DOMAIN cola : Evaluar(i)

(* Every process goes on by itself; the user answers an alert sooner or      *)
(* later, whatever else is said in between.                                  *)
Spec ==
    /\ Init /\ [][Next]_vars
    /\ \A c \in Clis : WF_vars(Cliente(c)) /\ SF_vars(cli[c].alerta # 0 /\ Preguntar(c, "no"))
    /\ \A n \in 1..MaxConsultas :
          WF_vars(n \in Peticiones /\ Gateway(n)) /\ WF_vars(n \in Peticiones /\ LLM(n))
    /\ \A i \in 1..(4 * MaxConsultas) : WF_vars(i \in DOMAIN cola /\ Evaluar(i))

-----------------------------------------------------------------------------
(* Types; in particular a CLI polls only ids that exist.                     *)
TypeOK ==
    /\ \A c \in Clis :
          /\ cli[c].fase \in {"lista", "charla", "espera", "sondea"}
          /\ cli[c].n \in 0..Len(pet) /\ cli[c].alerta \in 0..Len(cola)
          /\ cli[c].pend \subseteq DOMAIN cola
    /\ \A n \in Peticiones :
          /\ pet[n].fase \in {"nube", "local", "hecha", "fallida"}
          /\ \A s \in {"nube", "local"} :
                pet[n][s].fase \in {"no", "infiere", "encola", "error"}
    /\ \A i \in DOMAIN cola :
          cola[i].status \in {"PENDING", "ACEPTADA", "SOSPECHOSA",
                              "CONFIRMADA_MANUAL", "RECHAZADA"}

(* A confirmation enqueued for a query that was sent with an alert resolves  *)
(* that alert and no other, whichever service and model produced it.         *)
ConfirmaLoMostrado ==
    \A i \in DOMAIN cola :
        cola[i].tool = "confirmar_movimiento" /\ pet[cola[i].n].alerta # 0
            => cola[i].target = pet[cola[i].n].alerta

(* An answer that did not need the fallback names every row that its query   *)
(* put in the queue: nothing will move the stock behind the user's back.     *)
RespuestaCompleta ==
    \A n \in Peticiones :
        pet[n].fase = "hecha" /\ ~pet[n].respaldo =>
            {i \in DOMAIN cola : cola[i].n = n} \subseteq Respuesta(n).pend

(* The alert a CLI remembers is a movement that one of its own queries       *)
(* queued and that the filter did hold, answered meanwhile or not.           *)
AlertaFueSospechosa ==
    \A c \in Clis : cli[c].alerta # 0 =>
        LET r == cola[cli[c].alerta] IN
        /\ r.tool = "agregar_inventario" /\ pet[r.n].cli = c
        /\ r.status \in {"SOSPECHOSA", "CONFIRMADA_MANUAL", "RECHAZADA"}

(* needle never turns the answer to an alert into a movement, whatever its   *)
(* model makes of it, alone or after the cloud service gave up               *)
(* (_confirmacion_fast_path: "NUNCA cae al pipeline generico").              *)
SinEscriturasFantasma ==
    \A n \in Peticiones : pet[n].alerta # 0 =>
        \A i \in pet[n].local.pend \ {0} :
            cola[i].tool = "confirmar_movimiento"

(* A user who keeps answering no gets rid of the alert.  The instance lets   *)
(* go when its queries are used up, by failures or by other sentences.       *)
Agotada(c) ==
    /\ Len(pet) = MaxConsultas
    /\ \/ fallas > 0
       \/ pet[MaxConsultas].texto # "no" \/ pet[MaxConsultas].alerta # cli[c].alerta

AlertaSeResuelve ==
    \A c \in Clis : cli[c].alerta # 0 ~> (cli[c].alerta = 0 \/ Agotada(c))
=============================================================================
