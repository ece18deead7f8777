--------------------------- MODULE Interpretacion ---------------------------
(***************************************************************************)
(* From a sentence to a row of the queue: the deterministic parsing of     *)
(* llm_common/nlu.py, the L1/L2/L3 pipeline of needle-service with its      *)
(* retries, the single call of openrouter-service, the fast path of         *)
(* /api/sesion/registrar-voz, and the conversions and checks of the         *)
(* enqueueing functions of llm_common/db.py.                                *)
(* A sentence is what the regular expressions tell apart: verb, number,     *)
(* unit word and product.  Quantities are thousandths of the unit.          *)
(***************************************************************************)
EXTENDS Integers, Sequences, FiniteSets

CONSTANTS
    Frases,      (* sentences: [verbo, num, uni, prod]                       *)
    Productos,   (* product -> [unidad, bodegas, uni, num]: its unit in the  *)
                 (* catalogue, where it is, unit word and number of its name *)
    Bodegas,
    Stock        (* stock_actual of every row, a whole number of units       *)

Nada == -1       (* no number *)

Verbos == [agregar |-> {"agrega", "sube"}, remover |-> {"saca", "retira"},
           conteo  |-> {"hay"},            rapido  |-> {"agrega", "saca", ""}]

ASSUME InterpretacionAssumption ==
    /\ \A f \in Frases : /\ f.num \in Nat \cup {Nada}
                         /\ f.num = Nada => f.uni = ""
                         /\ f.prod \in DOMAIN Productos \cup {"otro"}
    /\ Frases # {}
    /\ \A x \in DOMAIN Productos : /\ Productos[x].bodegas \subseteq Bodegas
                                  /\ Productos[x].num \in Nat \cup {Nada}
    /\ Bodegas \subseteq Nat \ {0} /\ Stock \in Nat /\ Stock % 1000 = 0

VARIABLES
    p,           (* the request: entry, service, sentence, phase, arguments  *)
    m,           (* needle: round, choices of L1 and L2, first answer        *)
    cola,        (* what the request put in pending_evaluations              *)
    registros    (* and in registros_conteo                                  *)

vars == <<p, m, cola, registros>>

Lecturas   == {"consultar_inventario", "investigar_sospechosos"}
Escrituras == {"agregar_inventario", "remover_inventario", "registrar_conteo"}
Args(t, prod, cant, uni) == [tool |-> t, prod |-> prod, cant |-> cant, uni |-> uni]
Ninguna == Args("ninguna", "", Nada, "")

-----------------------------------------------------------------------------
(* nlu.py                                                                    *)

(* _normalizar_unidad_raw: what _UNIDAD_MAP gives, "" for None.  Canonical   *)
(* names map to themselves; "pzs" is matched by the patterns and not mapped. *)
UnidadMap(u) == CASE u \in {"kg", "Kilogram"} -> "Kilogram" [] u = "Liter" -> "Liter"
                  [] u \in {"un", "Unidad"} -> "Unidad" [] u \in {"g", "gr"} -> "g"
                  [] u = "ml" -> "ml" [] OTHER -> ""

(* normalize_unidad.  Without a factor the number is kept as it is.          *)
Convertir(q, uni, catalogo) ==
    IF <<UnidadMap(uni), catalogo>> \in {<<"g", "Kilogram">>, <<"ml", "Liter">>}
    THEN q \div 1000 ELSE q

(* The catalogue the services work with, get_producto_nombres_bodega: every  *)
(* name when no bodega is given.  Variant: always the global one.            *)
CatalogoGlobal(b) == DOMAIN Productos
Catalogo(b)       == {x \in DOMAIN Productos : b = 0 \/ b \in Productos[x].bodegas}

(* extract_producto, extract_unidad (whose pattern has no lone "g"), and the *)
(* last number of the sentence, which may be one of the product's name.      *)
ExtraeProducto(f, nombres) == IF f.prod \in nombres THEN f.prod ELSE ""
DelNombre(f) == IF f.prod \in DOMAIN Productos THEN Productos[f.prod]
                ELSE [uni |-> "", num |-> Nada]
ExtraeUnidad(f) == UnidadMap(IF f.uni \notin {"", "g"} THEN f.uni ELSE DelNombre(f).uni)
UltimoNumero(f) == IF DelNombre(f).num # Nada THEN DelNombre(f).num
                   ELSE IF f.num # Nada THEN f.num ELSE 0
TieneNumero(f)  == f.num # Nada \/ DelNombre(f).num # Nada

(* normalize_args.  A count of 0 stands when the sentence says 0.            *)
NormalizeArgs(a, f, nombres) ==
    IF a.tool \notin Escrituras
    THEN [a EXCEPT !.prod = IF @ \in nombres THEN @ ELSE ExtraeProducto(f, nombres)]
    ELSE [a EXCEPT
        !.prod = IF @ \in nombres THEN @ ELSE ExtraeProducto(f, nombres),
        !.cant = IF @ \in {Nada, 0} /\ ~(a.tool = "registrar_conteo" /\ f.num = 0)
                 THEN UltimoNumero(f) ELSE IF @ = Nada THEN 0 ELSE @,
        !.uni  = IF @ # "" THEN @ ELSE ExtraeUnidad(f)]

(* parse_conteo_absoluto_rapido, then parse_escritura_rapida.                *)
Herramienta(f) ==
    CASE f.num = Nada -> "ninguna"
      [] f.num # Nada /\ f.verbo \in Verbos.conteo  -> "registrar_conteo"
      [] f.num # Nada /\ f.verbo \in Verbos.agregar -> "agregar_inventario"
      [] f.num # Nada /\ f.verbo \in Verbos.remover -> "remover_inventario"
      [] OTHER -> "ninguna"

(* The fast path of the services: the tool call when the sentence parses and *)
(* the product is known.  openrouter normalises these arguments again.       *)
Regla(svc, f, nombres) ==
    LET a == Args(Herramienta(f), ExtraeProducto(f, nombres), f.num, UnidadMap(f.uni))
    IN  IF a.tool = "ninguna" \/ a.prod = "" THEN Ninguna
        ELSE IF svc = "nube" THEN NormalizeArgs(a, f, nombres) ELSE a

-----------------------------------------------------------------------------
Inicio == [fase |-> "libre", via |-> "query", svc |-> "local", bodega |-> 0,
           sesion |-> FALSE, frase |-> CHOOSE f \in Frases : TRUE, args |-> Ninguna,
           origen |-> ""]
Pipeline == [ronda |-> "primera", l1 |-> "", l2 |-> "", primero |-> Ninguna]

Init == p = Inicio /\ m = Pipeline /\ cola = <<>> /\ registros = <<>>

(* POST /query with the bodega and session the page sends (the CLI sends no  *)
(* bodega), or POST /api/sesion/registrar-voz with those of the session.     *)
Recibir ==
    /\ p.fase = "libre"
    /\ \E f \in Frases, svc \in {"nube", "local"}, b \in Bodegas \cup {0}, s \in BOOLEAN :
          \/ p' = [Inicio EXCEPT !.fase = "servicio", !.frase = f, !.svc = svc,
                                 !.bodega = b, !.sesion = s]
          \/ /\ b # 0 /\ s
             /\ p' = [Inicio EXCEPT !.fase = "voz", !.via = "voz", !.frase = f,
                                    !.svc = svc, !.bodega = b, !.sesion = TRUE]
    /\ m' = Pipeline /\ cola' = <<>> /\ registros' = <<>>

(* The unit registrar-voz hands on, already that of the catalogue.  Variant: *)
(* the one of the text.                                                      *)
UnidadFinalTexto(f) == UnidadMap(f.uni)
UnidadFinal(f)      == Productos[f.prod].unidad

(* registrar-voz: parse_conteo_rapido, any verb alike, and a product of the  *)
(* bodega; otherwise the LLM.                                                *)
RegistrarVoz ==
    LET f == p.frase
        rapido == /\ f.num # Nada /\ f.verbo \in Verbos.rapido
                  /\ f.prod \in DOMAIN Productos /\ p.bodega \in Productos[f.prod].bodegas
    IN  /\ p.fase = "voz"
        /\ p' = IF ~rapido THEN [p EXCEPT !.fase = "servicio"]
                ELSE [p EXCEPT !.fase = "encolar", !.origen = "voz",
                        !.args = Args("registrar_conteo", f.prod,
                                      Convertir(f.num, UnidadMap(f.uni), Productos[f.prod].unidad),
                                      UnidadFinal(f))]
        /\ UNCHANGED <<m, cola, registros>>

(* POST /infer: the fast path, else the model.                               *)
Inferir ==
    LET r == Regla(p.svc, p.frase, Catalogo(p.bodega)) IN
    /\ p.fase = "servicio"
    /\ p' = IF r # Ninguna THEN [p EXCEPT !.fase = "encolar", !.args = r, !.origen = "regla"]
            ELSE [p EXCEPT !.fase = IF p.svc = "nube" THEN "modelo" ELSE "L1"]
    /\ UNCHANGED <<m, cola, registros>>

(* What a model may put in a call: a product of the sentence, of another     *)
(* place or none, a number of its own or none, a unit or none.               *)
Cantidades  == {Nada, 0, 2000}
Inventos(t) ==
    [tool: {t}, prod: DOMAIN Productos \cup {""}, cant: Cantidades, uni: {"", "gr"}]
Responde(a, origen) ==
    /\ p' = [p EXCEPT !.fase = "encolar", !.origen = origen,
                      !.args = NormalizeArgs(a, p.frase, Catalogo(p.bodega))]
    /\ UNCHANGED <<cola, registros>>
SinLlamada == [p EXCEPT !.fase = "fin"]

(* _call_openrouter: a call of any tool, or none.                            *)
LlamarOpenrouter ==
    /\ p.fase = "modelo"
    /\ \/ \E t \in Lecturas \cup Escrituras : \E a \in Inventos(t) : Responde(a, "modelo")
       \/ p' = SinLlamada /\ UNCHANGED <<cola, registros>>
    /\ UNCHANGED m

-----------------------------------------------------------------------------
(* needle: _pipeline and _run_inference                                      *)

L2(l1) == IF l1 = "leer_inventario" THEN Lecturas ELSE Escrituras

HasP == ExtraeProducto(p.frase, Catalogo(p.bodega)) # ""
Contradice(t) == HasP /\ t \in IF TieneNumero(p.frase) THEN Lecturas ELSE Escrituras

(* _is_suspicious.  Variant: written before there were counts.               *)
SospechosaSinConteo(t) == Contradice(t) /\ t # "registrar_conteo"
Sospechosa(t)          == Contradice(t)

(* The end of a pipeline: an answer a (or Ninguna), in the round it was made.*)
(* The other branch of L1 is taken as it comes; if it gives nothing, the     *)
(* first answer stands.                                                      *)
Concluir(a, l1, l2) ==
    LET otraL1 == [m EXCEPT !.ronda = "otraL1", !.l1 = l1, !.l2 = l2,
                            !.primero = IF m.ronda = "primera" THEN a ELSE @]
        entrega(r) == p' = IF r = Ninguna THEN SinLlamada
                           ELSE [p EXCEPT !.fase = "encolar", !.args = r, !.origen = "modelo"]
    IN  CASE m.ronda = "primera" /\ a # Ninguna /\ ~Sospechosa(a.tool) ->
                 entrega(a) /\ m' = [m EXCEPT !.primero = a]
          [] m.ronda = "primera" /\ (a = Ninguna \/ Sospechosa(a.tool)) /\ l1 = "" ->
                 p' = SinLlamada /\ m' = m
          [] m.ronda = "primera" /\ (a = Ninguna \/ Sospechosa(a.tool)) /\ l1 # "" ->
                 IF Contradice(l2)
                 THEN /\ p' = [p EXCEPT !.fase = "L2"]
                      /\ m' = [otraL1 EXCEPT !.ronda = "otraL2"]
                 ELSE p' = [p EXCEPT !.fase = "L1"] /\ m' = otraL1
          [] m.ronda = "otraL2" ->
                 IF a # Ninguna THEN entrega(a) /\ m' = m
                 ELSE p' = [p EXCEPT !.fase = "L1"] /\ m' = otraL1
          [] m.ronda = "otraL1" -> entrega(IF a # Ninguna THEN a ELSE m.primero) /\ m' = m

ElegirL1 ==
    /\ p.fase = "L1"
    /\ \/ \E l1 \in {"leer_inventario", "modificar_inventario"} :
             /\ m.ronda = "otraL1" => l1 # m.l1
             /\ p' = [p EXCEPT !.fase = "L2"]
             /\ m' = [m EXCEPT !.l1 = l1, !.l2 = ""]
       \/ Concluir(Ninguna, "", "")
    /\ UNCHANGED <<cola, registros>>

(* In the second try of L2 a choice that still contradicts is not followed.  *)
ElegirL2 ==
    /\ p.fase = "L2"
    /\ \/ \E t \in L2(m.l1) :
             /\ m.ronda = "otraL2" => t # m.l2
             /\ IF m.ronda = "otraL2" /\ Contradice(t)
                THEN Concluir(Ninguna, m.l1, t)
                ELSE p' = [p EXCEPT !.fase = "L3"] /\ m' = [m EXCEPT !.l2 = t]
       \/ Concluir(Ninguna, m.l1, m.l2)
    /\ UNCHANGED <<cola, registros>>

ExtraerL3 ==
    /\ p.fase = "L3"
    /\ \/ \E a \in Inventos(m.l2) :
             Concluir(NormalizeArgs(a, p.frase, Catalogo(p.bodega)), m.l1, m.l2)
       \/ Concluir(Ninguna, m.l1, m.l2)
    /\ UNCHANGED <<cola, registros>>

-----------------------------------------------------------------------------
(* enqueue_pending and enqueue_registro_manual                               *)

(* The product by name: fuzzy in the bodega, else the lowest bodega that has *)
(* it.  By id, in the fast path of registrar-voz: the first row, any bodega. *)
Resolver(prod, b) ==
    LET bs == Productos[prod].bodegas IN
    IF p.origen = "voz" THEN bs
    ELSE IF b \in bs THEN {b} ELSE {x \in bs : \A y \in bs : x <= y}

(* check_cantidad_unidad, on pending_evaluations and on registros_conteo.    *)
(* Variant: the queue is not checked.                                        *)
Entero(prod, q) == Productos[prod].unidad = "Unidad" => q % 1000 = 0
CabePendienteSiempre(prod, q) == TRUE
CabePendiente(prod, q)        == Entero(prod, q)

(* The column cantidad: what moved, or how far the count is from the stock;  *)
(* the direction is the column tipo.  Variant: the difference with its sign. *)
CantidadConSigno(t, q) == IF t # "registrar_conteo" THEN q ELSE q - Stock
Cantidad(t, q) == IF t = "registrar_conteo" /\ q < Stock THEN Stock - q
                  ELSE CantidadConSigno(t, q)

(* Reads are not queued.  An unknown product, a movement of 0 or the trigger *)
(* end it without a row; the entry of the session follows the row.           *)
Encolar ==
    LET a == p.args
        q == Convertir(a.cant, a.uni, Productos[a.prod].unidad)
        delta == Cantidad(a.tool, q)
        cabe == /\ a.tool # "registrar_conteo" => q > 0
                /\ CabePendiente(a.prod, delta)
    IN  /\ p.fase = "encolar"
        /\ IF a.tool \in Lecturas \/ a.prod = "" THEN UNCHANGED <<cola, registros>>
           ELSE IF ~cabe THEN UNCHANGED <<cola, registros>>
           ELSE \E b \in Resolver(a.prod, p.bodega) :
                  /\ cola' = <<[tool |-> a.tool, prod |-> a.prod, bodega |-> b,
                                delta |-> delta, cant |-> q]>>
                  /\ registros' = IF p.sesion /\ Entero(a.prod, q)
                                  THEN <<[prod |-> a.prod, cant |-> q]>> ELSE <<>>
        /\ p' = [p EXCEPT !.fase = "fin"]
        /\ UNCHANGED m

Responder ==
    /\ p.fase = "fin"
    /\ p' = Inicio /\ m' = Pipeline /\ cola' = <<>> /\ registros' = <<>>

Next == \/ Recibir \/ RegistrarVoz \/ Inferir \/ LlamarOpenrouter
        \/ ElegirL1 \/ ElegirL2 \/ ExtraerL3 \/ Encolar \/ Responder

Spec == Init /\ [][Next]_vars

-----------------------------------------------------------------------------
TypeOK ==
    /\ p.fase \in {"libre", "voz", "servicio", "modelo", "L1", "L2", "L3", "encolar", "fin"}
    /\ p.args.cant \in Nat \cup {Nada} /\ p.args.prod \in DOMAIN Productos \cup {"", "otro"}
    /\ m.ronda \in {"primera", "otraL2", "otraL1"}
    /\ \A i \in DOMAIN cola : cola[i].delta \in Nat /\ cola[i].bodega \in Bodegas

(* Whoever parses the sentence, by rule in either service or in the voice    *)
(* endpoint, the quantity that is queued is the one said, converted once     *)
(* (with a unit and other than 0: what is missing openrouter takes from the  *)
(* rest of the sentence, the name of the product included).                  *)
UnaConversion ==
    p.origen \in {"regla", "voz"} /\ p.frase.uni # "" /\ p.frase.num > 0 =>
        \A i \in DOMAIN cola :
            cola[i].cant = Convertir(p.frase.num, p.frase.uni, Productos[cola[i].prod].unidad)

(* A request that names a bodega queues nothing in another one: the fallback *)
(* of enqueue_pending to any bodega is never taken by the LLM services.      *)
FilaEnSuBodega ==
    p.bodega # 0 /\ p.origen # "voz" => \A i \in DOMAIN cola : cola[i].bodega = p.bodega

(* The trigger never rejects the entry of a session after the row it is for  *)
(* was committed to the queue.                                               *)
PendienteConRegistro == p.sesion /\ cola # <<>> => registros # <<>>

(* needle hands over a call that contradicts the sentence (a write without a *)
(* number, a read with one) only after it tried the other branch of L1.      *)
ContradiccionAgotada ==
    p.svc = "local" /\ p.origen = "modelo" /\ Contradice(p.args.tool) => m.ronda = "otraL1"
=============================================================================
