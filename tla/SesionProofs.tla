---------------------------- MODULE SesionProofs ----------------------------
(***************************************************************************)
(* Theorems about SesionConteo, for any number of concurrent requests, LLM *)
(* tasks, sessions, products, bodegas and rows of stock.  The inductive    *)
(* invariant has three parts: the tables are typed (TablasBien), an entry  *)
(* agrees with its request (RegistroBien), and what a coroutine holds in   *)
(* its local variables is still true of the tables when it uses it         *)
(* (LocalBien).                                                            *)
(***************************************************************************)
EXTENDS SesionConteo, FiniteSetTheorems, TLAPS

-----------------------------------------------------------------------------
(* Types. *)

EnCamino == {"manual", "voz", "nube", "infiere", "encolar", "releer", "registrar"}
Fases == EnCamino \cup {"libre", "local", "cerrar", "resumir", "cerrado", "reporte", "reportado"}
Tools == {"registrar_conteo", "agregar_inventario", "remover_inventario"}
Vias == {"manual", "nube", "local"}

Filas == [estado: {"no", "activa", "finalizada"}, bodega: Nat]
(* A request closed by another count is refused, and nothing opens it again. *)
Pendientes ==
    {q \in [tool: Tools, clave: Claves, delta: Int, via: Vias,
            status: (Decisiones \ {"PENDIENTE"}) \cup {"PENDING"}, inval: BOOLEAN] :
        q.inval => q.status = "RECHAZADA"}
Registros == [ses: Sesiones, antes: BOOLEAN, clave: Claves, contada: Int, sistema: Int,
              pend: Nat, decision: Decisiones]
Locales == [fase: Fases, ses: Sesiones \cup {0}, antes: BOOLEAN, via: Vias,
            clave: Claves \cup {Claro}, leido: Int, tool: Tools, cant: Int, pend: Nat,
            contados: SUBSET Claves, faltan: SUBSET (Productos \X Nat), resumen: SUBSET Nat]

TablasBien ==
    /\ sesion \in [Sesiones -> Filas]
    /\ stock \in [Claves -> Int]
    /\ cola \in Seq(Pendientes)
    /\ registros \in Seq(Registros)
    /\ h \in [Actores -> Locales]

-----------------------------------------------------------------------------
(* The inductive invariant. *)

RegistroBien(r) ==
    /\ sesion[r.ses].estado # "no"
    /\ r.pend \in DOMAIN cola /\ cola[r.pend].clave = r.clave
    /\ r.decision \in {"SOSPECHOSA", "ACEPTADA"} => r.decision = cola[r.pend].status
    /\ r.decision \in {"CONFIRMADA_MANUAL", "RECHAZADA"} =>
          cola[r.pend].status \notin {"PENDING", "SOSPECHOSA"}
    /\ cola[r.pend].via = "manual" => r.contada - r.sistema = cola[r.pend].delta

ClavesDe(s) == {registros[i].clave : i \in DeSesion(s)}

(* What the local variables l of a coroutine say of the tables, statement by *)
(* statement.                                                                *)
ManejadorBien(l) ==
    /\ l.fase # "libre" => l.ses \in Sesiones /\ sesion[l.ses].estado # "no"
    /\ l.fase \in {"encolar", "releer", "registrar"} => l.clave \in Claves
    /\ l.fase \in {"manual", "voz"} => l.tool = "registrar_conteo"
    /\ l.fase = "encolar" /\ l.via = "manual" => l.tool = "registrar_conteo"
    /\ l.fase = "infiere" => l.via # "manual"
    /\ l.fase \in {"releer", "registrar"} =>
          l.pend \in DOMAIN cola /\ cola[l.pend].clave = l.clave
    /\ l.fase = "releer" => cola[l.pend].via # "manual"
    /\ l.fase = "registrar" /\ cola[l.pend].via = "manual" =>
          l.cant - l.leido = cola[l.pend].delta
    /\ l.fase = "reporte" => l.contados \subseteq ClavesDe(l.ses)
    /\ l.fase = "reportado" => l.contados \cap l.faltan = {}
    /\ l.fase \in {"resumir", "cerrado"} => sesion[l.ses].estado = "finalizada"

(* Who may still add an entry to a session that closed was at work when it   *)
(* did, and what the summary misses was added by them.                       *)
AntesBien(l) ==
    l.fase \in EnCamino /\ sesion[l.ses].estado = "finalizada" => l.antes
CierreBien(l) ==
    l.fase = "cerrado" => \A i \in DeSesion(l.ses) \ l.resumen : registros[i].antes

LocalBien(l) == ManejadorBien(l) /\ AntesBien(l) /\ CierreBien(l)

IInv ==
    /\ TablasBien
    /\ \A n \in DOMAIN registros : RegistroBien(registros[n])
    /\ \A a \in Actores : LocalBien(h[a])

-----------------------------------------------------------------------------
(* The tables only grow, what an entry or a request is about never changes,  *)
(* and a new entry of a closed session comes from a coroutine that was at    *)
(* work when it closed: what every step of anybody owes the others.          *)

ColaCrece ==
    /\ DOMAIN cola \subseteq DOMAIN cola'
    /\ \A i \in DOMAIN cola : /\ cola'[i].clave = cola[i].clave
                              /\ cola'[i].delta = cola[i].delta
                              /\ cola'[i].via = cola[i].via

RegistrosCrecen ==
    /\ DOMAIN registros \subseteq DOMAIN registros'
    /\ \A i \in DOMAIN registros : /\ registros'[i].ses = registros[i].ses
                                   /\ registros'[i].clave = registros[i].clave
                                   /\ registros'[i].antes = registros[i].antes
    /\ \A i \in DOMAIN registros' \ DOMAIN registros :
          sesion[registros'[i].ses].estado = "finalizada" => registros'[i].antes

SesionesAvanzan ==
    \A s \in Sesiones :
        /\ sesion[s].estado # "no" => sesion'[s].estado # "no"
        /\ sesion[s].estado = "finalizada" => sesion'[s].estado = "finalizada"

Crecen == ColaCrece /\ RegistrosCrecen /\ SesionesAvanzan

(* All steps but one: finalizar_sesion.                                      *)
NadieCierra ==
    \A s \in Sesiones : sesion'[s].estado = "finalizada" => sesion[s].estado = "finalizada"

LEMMA LocalEstable ==
    ASSUME Crecen, NEW l \in Locales, ManejadorBien(l), CierreBien(l)
    PROVE  ManejadorBien(l)' /\ CierreBien(l)'
<1>1. ClavesDe(l.ses) \subseteq ClavesDe(l.ses)'
    BY DEF ClavesDe, DeSesion, Crecen, RegistrosCrecen
<1>2. l.fase # "libre" => l.ses \in Sesiones /\ sesion'[l.ses].estado # "no"
    BY DEF ManejadorBien, Crecen, SesionesAvanzan
<1>3. l.fase \in {"resumir", "cerrado"} =>
         sesion[l.ses].estado = "finalizada" /\ sesion'[l.ses].estado = "finalizada"
    BY DEF ManejadorBien, Crecen, SesionesAvanzan
<1>4. l.fase \in {"releer", "registrar"} =>
         /\ l.pend \in DOMAIN cola' /\ cola'[l.pend].clave = l.clave
         /\ cola'[l.pend].via = cola[l.pend].via
         /\ cola'[l.pend].delta = cola[l.pend].delta
    BY DEF ManejadorBien, Crecen, ColaCrece
<1>5. ManejadorBien(l)'
    BY <1>1, <1>2, <1>3, <1>4 DEF ManejadorBien
<1>6. ASSUME l.fase = "cerrado", NEW i \in DOMAIN registros', registros'[i].ses = l.ses,
             i \notin l.resumen
      PROVE  registros'[i].antes
  <2>1. CASE i \in DOMAIN registros
    BY <1>6, <2>1 DEF CierreBien, DeSesion, Crecen, RegistrosCrecen
  <2>2. CASE i \notin DOMAIN registros
    BY <1>3, <1>6, <2>2 DEF Crecen, RegistrosCrecen
  <2> QED
    BY <2>1, <2>2
<1>7. CierreBien(l)'
    BY <1>6 DEF CierreBien, DeSesion
<1> QED
    BY <1>5, <1>7

LEMMA AntesEstable ==
    ASSUME NadieCierra, NEW l \in Locales, ManejadorBien(l), AntesBien(l)
    PROVE  AntesBien(l)'
<1>1. l.fase \in EnCamino => l.ses \in Sesiones
    BY DEF ManejadorBien, EnCamino
<1> QED
    BY <1>1 DEF AntesBien, NadieCierra

LEMMA LocalDe ==
    ASSUME IInv, NEW a \in Actores
    PROVE  h[a] \in Locales /\ LocalBien(h[a]) /\ ManejadorBien(h[a])
BY DEF IInv, TablasBien, LocalBien

(* A step of the coroutines of C, and of nobody else.                        *)
LEMMA OtrosEstables ==
    ASSUME IInv, Crecen, NadieCierra, NEW C, h' \in [Actores -> Locales],
           \A d \in Actores \ C : h'[d] = h[d],
           \A d \in Actores \cap C : LocalBien(h[d])'
    PROVE  \A d \in Actores : LocalBien(h[d])'
<1> SUFFICES ASSUME NEW d \in Actores \ C PROVE LocalBien(h[d])'
    OBVIOUS
<1>1. PICK l : l = h[d]
    OBVIOUS
<1>2. l \in Locales /\ ManejadorBien(l) /\ AntesBien(l) /\ CierreBien(l) /\ h'[d] = l
    BY <1>1, LocalDe DEF LocalBien
<1>3. ManejadorBien(l)' /\ AntesBien(l)' /\ CierreBien(l)'
    BY <1>2, LocalEstable, AntesEstable
<1>4. LocalBien(l)'
    BY <1>3 DEF LocalBien
<1> QED
    BY <1>2, <1>4 DEF LocalBien, ManejadorBien, AntesBien, CierreBien, ClavesDe, DeSesion

(* A step of one coroutine a, to the local variables l.                      *)
LEMMA UnoCambia ==
    ASSUME IInv, Crecen, NadieCierra, NEW a \in Actores, NEW l \in Locales, LocalBien(l)',
           h' = [h EXCEPT ![a] = l]
    PROVE  h' \in [Actores -> Locales] /\ \A d \in Actores : LocalBien(h[d])'
<1>1. h \in [Actores -> Locales]
    BY DEF IInv, TablasBien
<1>2. h' \in [Actores -> Locales] /\ h'[a] = l /\ \A d \in Actores \ {a} : h'[d] = h[d]
    BY <1>1
<1>3. LocalBien(h[a])'
    BY <1>2 DEF LocalBien, ManejadorBien, AntesBien, CierreBien, ClavesDe, DeSesion
<1>4. \A d \in Actores \cap {a} : LocalBien(h[d])'
    BY <1>3
<1> QED
    BY <1>2, <1>4, OtrosEstables

LEMMA TablasIguales ==
    ASSUME UNCHANGED <<sesion, cola, registros>>
    PROVE  /\ Crecen /\ NadieCierra
           /\ \A l : LocalBien(l) => LocalBien(l)'
<1>1. Crecen /\ NadieCierra
    BY DEF Crecen, ColaCrece, RegistrosCrecen, SesionesAvanzan, NadieCierra
<1>2. \A l : LocalBien(l) => LocalBien(l)'
    BY DEF LocalBien, ManejadorBien, AntesBien, CierreBien, ClavesDe, DeSesion
<1> QED
    BY <1>1, <1>2

(* A statement that reads, and the local variables it leaves.                *)
LEMMA PasaPreserva ==
    ASSUME IInv, NEW a \in Actores, NEW l \in Locales, Pasa(a, l), LocalBien(l)
    PROVE  IInv'
<1>1. h' = [h EXCEPT ![a] = l] /\ UNCHANGED <<sesion, stock, cola, registros>>
    BY DEF Pasa
<1>2. Crecen /\ NadieCierra /\ LocalBien(l)'
    BY <1>1, TablasIguales
<1>3. h' \in [Actores -> Locales] /\ \A d \in Actores : LocalBien(h[d])'
    BY <1>1, <1>2, UnoCambia
<1>4. TablasBien'
    BY <1>1, <1>3 DEF IInv, TablasBien
<1>5. \A n \in DOMAIN registros' : RegistroBien(registros[n])'
    BY <1>1 DEF IInv, RegistroBien
<1> QED
    BY <1>3, <1>4, <1>5 DEF IInv

-----------------------------------------------------------------------------
(* The statements that read. *)

(* A coroutine with nothing to remember of the session when it closed.       *)
LEMMA FueraDelCamino ==
    ASSUME NEW l, ManejadorBien(l), l.fase \notin EnCamino, l.fase # "cerrado"
    PROVE  LocalBien(l)
BY DEF LocalBien, AntesBien, CierreBien

LEMMA LibreBien == Libre \in Locales /\ Libre.fase = "libre" /\ LocalBien(Libre)
<1>1. Libre \in Locales
    BY DEF Libre, Locales, Fases, Tools, Vias
<1>2. Libre.fase = "libre"
    BY DEF Libre
<1> QED
    BY <1>1, <1>2 DEF LocalBien, ManejadorBien, AntesBien, CierreBien, EnCamino

LEMMA TerminarPreserva ==
    ASSUME IInv, NEW a \in Actores, Terminar(a)
    PROVE  IInv'
<1>1. PICK l : l = Libre
    OBVIOUS
<1> QED
    BY <1>1, LibreBien, PasaPreserva DEF Terminar

(* A request that finds the session active owes nothing to its closing.      *)
LEMMA VerPreserva ==
    ASSUME IInv, NEW a \in Actores, NEW s \in Sesiones, NEW f \in {"cerrar", "manual", "voz"},
           sesion[s].estado = "activa", Pasa(a, [Libre EXCEPT !.fase = f, !.ses = s])
    PROVE  IInv'
<1> DEFINE l == [Libre EXCEPT !.fase = f, !.ses = s]
<1>1. l \in Locales /\ l.fase = f /\ l.ses = s /\ l.tool = "registrar_conteo"
  <2>1. Libre.tool = "registrar_conteo" /\ Libre \in Locales
    BY LibreBien DEF Libre
  <2> QED
    BY <2>1 DEF Locales, Fases, EnCamino
<1>2. Pasa(a, l)
    OBVIOUS
<1> HIDE DEF l
<1>3. ManejadorBien(l) /\ AntesBien(l) /\ CierreBien(l)
    BY <1>1 DEF ManejadorBien, AntesBien, CierreBien
<1> QED
    BY <1>1, <1>2, <1>3, PasaPreserva DEF LocalBien

(* The product of a manual entry, or of a voice entry that needs no LLM: the *)
(* delta of the request will be what was counted minus what was read here.   *)
LEMMA LeerProductoPreserva ==
    ASSUME IInv, NEW c \in Manejadores, NEW p, h[c].fase \in {"manual", "voz"},
           LeerProducto(c, p, "encolar")
    PROVE  IInv'
<1>1. PICK k \in {q \in Claves : q[1] = p}, n \in Cantidades :
         Pasa(c, [h[c] EXCEPT !.fase = "encolar", !.via = "manual", !.clave = k,
                              !.leido = stock[k], !.cant = n])
    BY DEF LeerProducto
<1> DEFINE l == [h[c] EXCEPT !.fase = "encolar", !.via = "manual", !.clave = k,
                             !.leido = stock[k], !.cant = n]
<1>2. c \in Actores /\ h[c] \in Locales /\ ManejadorBien(h[c]) /\ AntesBien(h[c])
    BY LocalDe DEF Actores, LocalBien
<1>3. stock[k] \in Int /\ n \in Int /\ k \in Claves
    BY SesionAssumption DEF IInv, TablasBien
<1>4. l \in Locales
    BY <1>2, <1>3 DEF Locales, Fases, EnCamino, Vias
<1>5. /\ l.fase = "encolar" /\ l.via = "manual" /\ l.clave = k
      /\ l.tool = h[c].tool /\ l.ses = h[c].ses /\ l.antes = h[c].antes
    BY <1>2 DEF Locales
<1>6. Pasa(c, l)
    BY <1>1
<1> HIDE DEF l
<1>7. ManejadorBien(l) /\ AntesBien(l) /\ CierreBien(l)
    BY <1>2, <1>3, <1>5 DEF ManejadorBien, AntesBien, CierreBien, EnCamino
<1> QED
    BY <1>2, <1>4, <1>6, <1>7, PasaPreserva DEF LocalBien

(* The POST to an LLM service: the task inherits the session and what the    *)
(* handler owes of it, and both go on.                                       *)
LEMMA PostLlmPreserva ==
    ASSUME IInv, NEW c \in Manejadores, PostLlm(c)
    PROVE  IInv'
<1>1. PICK t \in Tareas, v \in {"nube", "local"} :
         /\ h[c].fase \in {"voz", "nube"}
         /\ h' = [h EXCEPT ![c].fase = v,
                           ![t] = [Libre EXCEPT !.fase = "infiere", !.via = v,
                                                !.ses = h[c].ses, !.antes = h[c].antes]]
    BY DEF PostLlm
<1>2. UNCHANGED <<sesion, stock, cola, registros>>
    BY DEF PostLlm
<1>3. c \in Actores /\ t \in Actores /\ c # t
    BY SesionAssumption DEF Actores
<1>4. h \in [Actores -> Locales] /\ h[c] \in Locales
      /\ ManejadorBien(h[c]) /\ AntesBien(h[c])
    BY <1>3, LocalDe DEF IInv, TablasBien, LocalBien
<1>5. PICK lc : lc = [h[c] EXCEPT !.fase = v]
    OBVIOUS
<1>6. PICK lt : lt = [Libre EXCEPT !.fase = "infiere", !.via = v,
                                   !.ses = h[c].ses, !.antes = h[c].antes]
    OBVIOUS
<1>7. /\ lc \in Locales /\ lc.fase = v /\ lc.ses = h[c].ses /\ lc.antes = h[c].antes
    BY <1>4, <1>5 DEF Locales, Fases, EnCamino
<1>8. /\ lt \in Locales /\ lt.fase = "infiere" /\ lt.via = v
      /\ lt.ses = h[c].ses /\ lt.antes = h[c].antes
    BY <1>4, <1>6, LibreBien DEF Locales, Fases, EnCamino, Vias
<1>9. h' = [h EXCEPT ![c] = lc, ![t] = lt]
    BY <1>1, <1>3, <1>4, <1>5, <1>6
<1>10. h[c].ses \in Sesiones /\ sesion[h[c].ses].estado # "no"
       /\ (sesion[h[c].ses].estado = "finalizada" => h[c].antes)
    BY <1>1, <1>4 DEF ManejadorBien, AntesBien, EnCamino
<1>11. LocalBien(lc) /\ LocalBien(lt)
    BY <1>1, <1>7, <1>8, <1>10 DEF LocalBien, ManejadorBien, AntesBien, CierreBien, EnCamino
<1>12. Crecen /\ NadieCierra /\ LocalBien(lc)' /\ LocalBien(lt)'
    BY <1>2, <1>11, TablasIguales
<1>13. /\ h' \in [Actores -> Locales] /\ h'[c] = lc /\ h'[t] = lt
       /\ \A d \in Actores \ {c, t} : h'[d] = h[d]
    BY <1>3, <1>4, <1>7, <1>8, <1>9
<1>14. LocalBien(h[c])' /\ LocalBien(h[t])'
    BY <1>12, <1>13 DEF LocalBien, ManejadorBien, AntesBien, CierreBien, ClavesDe, DeSesion
<1>15. \A d \in Actores : LocalBien(h[d])'
  <2>1. \A d \in Actores \cap {c, t} : LocalBien(h[d])'
    BY <1>14
  <2> QED
    BY <1>12, <1>13, <2>1, OtrosEstables
<1>16. TablasBien'
    BY <1>2, <1>13 DEF IInv, TablasBien
<1>17. \A n \in DOMAIN registros' : RegistroBien(registros[n])'
    BY <1>2 DEF IInv, RegistroBien
<1> QED
    BY <1>15, <1>16, <1>17 DEF IInv

LEMMA LlamadaLlmPreserva ==
    ASSUME IInv, NEW t \in Tareas, LlamadaLlm(t)
    PROVE  IInv'
<1>a. PICK p \in EnBodega(sesion[h[t].ses].bodega), n \in Cantidades, tool \in Herramientas :
         Pasa(t, [h[t] EXCEPT !.fase = "encolar", !.clave = <<p, sesion[h[t].ses].bodega>>,
                              !.leido = stock[<<p, sesion[h[t].ses].bodega>>],
                              !.tool = tool, !.cant = n])
    BY DEF LlamadaLlm
<1>b. PICK k : k = <<p, sesion[h[t].ses].bodega>>
    OBVIOUS
<1>1. /\ k \in Claves
      /\ Pasa(t, [h[t] EXCEPT !.fase = "encolar", !.clave = k, !.leido = stock[k],
                              !.tool = tool, !.cant = n])
    BY <1>a, <1>b DEF EnBodega
<1> DEFINE l == [h[t] EXCEPT !.fase = "encolar", !.clave = k, !.leido = stock[k],
                             !.tool = tool, !.cant = n]
<1>2. /\ t \in Actores /\ h[t].fase = "infiere" /\ h[t] \in Locales
      /\ ManejadorBien(h[t]) /\ AntesBien(h[t])
    BY LocalDe DEF Actores, LocalBien, LlamadaLlm
<1>3. stock[k] \in Int /\ n \in Int /\ tool \in Tools
    BY <1>1, <1>a, SesionAssumption DEF IInv, TablasBien, Tools
<1>4. l \in Locales
    BY <1>1, <1>2, <1>3 DEF Locales, Fases, EnCamino
<1>5. /\ l.fase = "encolar" /\ l.clave = k /\ l.via = h[t].via
      /\ l.ses = h[t].ses /\ l.antes = h[t].antes
    BY <1>2 DEF Locales
<1>6. Pasa(t, l)
    BY <1>1
<1> HIDE DEF l
<1>7. ManejadorBien(l) /\ AntesBien(l) /\ CierreBien(l)
    BY <1>1, <1>2, <1>5 DEF ManejadorBien, AntesBien, CierreBien, EnCamino
<1> QED
    BY <1>2, <1>4, <1>6, <1>7, PasaPreserva DEF LocalBien

LEMMA ReleerStockPreserva ==
    ASSUME IInv, NEW a \in Actores, ReleerStock(a)
    PROVE  IInv'
<1> DEFINE l == [h[a] EXCEPT !.fase = "registrar", !.leido = stock[h[a].clave]]
<1>1. /\ a \in Actores /\ h[a] \in Locales /\ h[a].fase = "releer" /\ Pasa(a, l)
      /\ ManejadorBien(h[a]) /\ AntesBien(h[a])
    BY LocalDe DEF Actores, LocalBien, ReleerStock
<1>2. stock[h[a].clave] \in Int
    BY <1>1 DEF IInv, TablasBien, ManejadorBien
<1>3. /\ l \in Locales
      /\ l.fase = "registrar" /\ l.ses = h[a].ses /\ l.clave = h[a].clave /\ l.pend = h[a].pend
      /\ l.antes = h[a].antes
    BY <1>1, <1>2 DEF Locales, Fases, EnCamino
<1> HIDE DEF l
<1>4. ManejadorBien(l) /\ AntesBien(l) /\ CierreBien(l)
    BY <1>1, <1>3 DEF ManejadorBien, AntesBien, CierreBien, EnCamino
<1> QED
    BY <1>1, <1>3, <1>4, PasaPreserva DEF LocalBien

(* The counters of a session that is closed miss no entry yet.               *)
LEMMA ResumirPreserva ==
    ASSUME IInv, NEW c \in Manejadores, Resumir(c, "resumir", "cerrado")
    PROVE  IInv'
<1> DEFINE l == [h[c] EXCEPT !.fase = "cerrado", !.resumen = DeSesion(h[c].ses)]
<1>1. /\ c \in Actores /\ h[c] \in Locales /\ h[c].fase = "resumir" /\ Pasa(c, l)
      /\ ManejadorBien(h[c])
    BY LocalDe DEF Actores, Resumir
<1>2. PICK s : s = h[c].ses
    OBVIOUS
<1>3. s \in Sesiones /\ sesion[s].estado = "finalizada"
    BY <1>1, <1>2 DEF ManejadorBien
<1>4. DeSesion(s) \subseteq Nat
    BY DEF DeSesion, IInv, TablasBien
<1>5. /\ l \in Locales
      /\ l.fase = "cerrado" /\ l.ses = s /\ l.resumen = DeSesion(s)
    BY <1>1, <1>2, <1>4 DEF Locales, Fases
<1> HIDE DEF l
<1>6. ManejadorBien(l) /\ AntesBien(l) /\ CierreBien(l)
    BY <1>3, <1>5 DEF ManejadorBien, AntesBien, CierreBien, EnCamino
<1> QED
    BY <1>1, <1>5, <1>6, PasaPreserva DEF LocalBien

(* The report: first the entries, then the products with none.               *)
LEMMA ReportePreserva ==
    ASSUME IInv, NEW c \in Manejadores, NEW s \in Sesiones, sesion[s].estado # "no",
           ReporteDiferencias(c, s)
    PROVE  IInv'
<1>1. c \in Actores /\ h[c] \in Locales /\ ManejadorBien(h[c])
    BY LocalDe DEF Actores
<1>2. TablasBien
    BY DEF IInv
<1>3. CASE h[c].fase = "libre" /\ Contados(c, s, "reporte")
  <2> DEFINE l == [h[c] EXCEPT !.fase = "reporte", !.ses = s, !.contados = ClavesDe(s)]
  <2>1. Pasa(c, l)
    BY <1>3 DEF Contados, ClavesDe
  <2>2. ClavesDe(s) \subseteq Claves
    <3>1. \A i \in DOMAIN registros : registros[i] \in Registros
      BY <1>2 DEF TablasBien
    <3>2. \A i \in DOMAIN registros : registros[i].clave \in Claves
      BY <3>1 DEF Registros
    <3> QED
      BY <3>2 DEF ClavesDe, DeSesion
  <2>3. /\ l \in Locales
        /\ l.fase = "reporte" /\ l.ses = s /\ l.contados = ClavesDe(s)
    BY <1>1, <2>2 DEF Locales, Fases
  <2> HIDE DEF l
  <2>4. ManejadorBien(l) /\ l.fase \notin EnCamino
    BY <2>3 DEF ManejadorBien, EnCamino
  <2> QED
    BY <1>1, <2>1, <2>3, <2>4, FueraDelCamino, PasaPreserva
<1>4. CASE h[c].fase = "reporte" /\ s = h[c].ses /\ NoContados(c, s, "reportado")
  <2> DEFINE falta == {<<p, sesion[s].bodega>> : p \in CatalogoPendiente(s)}
             l == [h[c] EXCEPT !.fase = "reportado", !.ses = s, !.faltan = falta]
  <2>1. Pasa(c, l)
    BY <1>4 DEF NoContados
  <2>2. falta \subseteq Productos \X Nat
    <3>1. sesion[s] \in Filas
      BY <1>2 DEF TablasBien
    <3>2. sesion[s].bodega \in Nat /\ CatalogoPendiente(s) \subseteq Productos
      BY <3>1 DEF Filas, CatalogoPendiente, EnBodega
    <3> QED
      BY <3>2
  <2>3. ClavesDe(s) \cap falta = {}
    BY DEF ClavesDe, CatalogoPendiente
  <2> HIDE DEF falta
  <2>4. /\ l \in Locales
        /\ l.fase = "reportado" /\ l.ses = s /\ l.faltan = falta /\ l.contados = h[c].contados
    BY <1>1, <2>2 DEF Locales, Fases
  <2> HIDE DEF l
  <2>5. h[c].contados \subseteq ClavesDe(s)
    BY <1>1, <1>4 DEF ManejadorBien
  <2>6. ManejadorBien(l) /\ l.fase \notin EnCamino
    BY <2>3, <2>4, <2>5 DEF ManejadorBien, EnCamino
  <2> QED
    BY <1>1, <2>1, <2>4, <2>6, FueraDelCamino, PasaPreserva
<1> QED
    BY <1>3, <1>4 DEF ReporteDiferencias

-----------------------------------------------------------------------------
(* The statements that write. *)

LEMMA InitIInv == Init => IInv
<1> SUFFICES ASSUME Init PROVE IInv
    OBVIOUS
<1>1. Inicial \in Int
    BY SesionAssumption
<1>2. TablasBien
    BY <1>1, LibreBien DEF Init, TablasBien, Filas
<1>3. \A a \in Actores : LocalBien(h[a])
  <2>1. PICK l : l = Libre
    OBVIOUS
  <2>2. LocalBien(l) /\ \A a \in Actores : h[a] = l
    BY <2>1, LibreBien DEF Init
  <2> QED
    BY <2>2
<1> QED
    BY <1>2, <1>3 DEF Init, IInv

(* A step of nobody: the local variables are as they were.                   *)
LEMMA NadieCambia ==
    ASSUME IInv, Crecen, NadieCierra, UNCHANGED h
    PROVE  h' \in [Actores -> Locales] /\ \A a \in Actores : LocalBien(h[a])'
<1>1. PICK C : C = {}
    OBVIOUS
<1>2. /\ h' \in [Actores -> Locales]
      /\ \A a \in Actores \ C : h'[a] = h[a]
      /\ \A a \in Actores \cap C : LocalBien(h[a])'
    BY <1>1 DEF IInv, TablasBien
<1> QED
    BY <1>2, OtrosEstables

(* Entries that no step touches, in tables that only grow.                   *)
LEMMA RegistroEstable ==
    ASSUME IInv, Crecen, NEW n \in DOMAIN registros, registros'[n] = registros[n],
           cola'[registros[n].pend].status = cola[registros[n].pend].status
    PROVE  RegistroBien(registros[n])'
<1>1. PICK r : r = registros[n]
    OBVIOUS
<1>2. RegistroBien(r) /\ r \in Registros /\ registros'[n] = r
    BY <1>1 DEF IInv, TablasBien
<1>3. r.ses \in Sesiones
    BY <1>2 DEF Registros
<1>4. RegistroBien(r)'
    BY <1>1, <1>2, <1>3 DEF RegistroBien, Crecen, ColaCrece, SesionesAvanzan
<1> QED
    BY <1>2, <1>4 DEF RegistroBien

LEMMA IniciarPreserva ==
    ASSUME IInv, IniciarSesion
    PROVE  IInv'
<1>1. UNCHANGED <<stock, cola, registros, h>> /\ TablasBien
    BY DEF IniciarSesion, IInv
<1>2. PICK s \in Sesiones, b \in Bodegas :
         /\ \A t \in Sesiones : sesion[t].estado = "no" <=> t >= s
         /\ sesion' = [sesion EXCEPT ![s] = [estado |-> "activa", bodega |-> b]]
    BY DEF IniciarSesion
<1>3. sesion[s].estado = "no"
    BY <1>2, SesionAssumption
<1>4. /\ sesion' \in [Sesiones -> Filas]
      /\ sesion'[s].estado = "activa"
      /\ \A t \in Sesiones \ {s} : sesion'[t] = sesion[t]
    BY <1>1, <1>2, SesionAssumption DEF TablasBien, Filas
<1>5. Crecen /\ NadieCierra
    BY <1>1, <1>3, <1>4 DEF Crecen, SesionesAvanzan, ColaCrece, RegistrosCrecen, NadieCierra
<1>6. h' \in [Actores -> Locales] /\ \A a \in Actores : LocalBien(h[a])'
    BY <1>1, <1>5, NadieCambia
<1>7. \A n \in DOMAIN registros' : RegistroBien(registros[n])'
    BY <1>1, <1>5, RegistroEstable
<1>8. TablasBien'
    BY <1>1, <1>4 DEF TablasBien
<1> QED
    BY <1>6, <1>7, <1>8 DEF IInv, RegistroBien

(* A request in the queue, of the row and with the delta that the coroutine  *)
(* holds.                                                                    *)
LEMMA EncolarPreserva ==
    ASSUME IInv, NEW a \in Actores, Encolar(a)
    PROVE  IInv'
<1> DEFINE q == h[a]
<1>0. PICK delta : delta = Delta(q)
    OBVIOUS
<1> DEFINE pet == [tool |-> q.tool, clave |-> q.clave, delta |-> delta, via |-> q.via,
                   status |-> "PENDING", inval |-> FALSE]
           lx == [Libre EXCEPT
                    !.fase = TrasEncolar(q.via), !.ses = q.ses, !.antes = q.antes,
                    !.via = q.via, !.clave = q.clave,
                    !.leido = IF q.via = "manual" THEN q.leido ELSE 0,
                    !.cant = q.cant, !.pend = Len(cola) + 1]
<1>1. /\ q.fase = "encolar" /\ cola' = Append(cola, pet) /\ h' = [h EXCEPT ![a] = lx]
      /\ UNCHANGED <<sesion, stock, registros>>
    BY <1>0 DEF Encolar
<1>2. q \in Locales /\ ManejadorBien(q) /\ AntesBien(q) /\ TablasBien
    BY LocalDe DEF IInv, LocalBien
<1>3. /\ q.clave \in Claves /\ q.cant \in Int /\ q.leido \in Int /\ q.tool \in Tools
      /\ q.via \in Vias /\ q.ses \in Sesiones /\ q.antes \in BOOLEAN
      /\ q.via = "manual" => q.tool = "registrar_conteo"
      /\ sesion[q.ses].estado # "no" /\ (sesion[q.ses].estado = "finalizada" => q.antes)
    BY <1>1, <1>2 DEF Locales, ManejadorBien, AntesBien, EnCamino
<1>4. cola \in Seq(Pendientes) /\ Len(cola) \in Nat /\ DOMAIN cola = 1..Len(cola)
    BY <1>2 DEF TablasBien
<1>5. delta \in Int /\ (q.via = "manual" => delta = q.cant - q.leido)
  <2>1. CASE q.tool = "registrar_conteo"
    BY <1>0, <1>3, <2>1 DEF Delta
  <2>2. CASE q.tool = "agregar_inventario"
    BY <1>0, <1>3, <2>2 DEF Delta
  <2>3. CASE q.tool = "remover_inventario"
    BY <1>0, <1>3, <2>3 DEF Delta
  <2> QED
    BY <1>3, <2>1, <2>2, <2>3 DEF Tools
<1>6. /\ pet \in Pendientes /\ pet.clave = q.clave /\ pet.via = q.via
      /\ pet.delta = delta
    BY <1>3, <1>5 DEF Pendientes
<1>7. /\ lx \in Locales /\ lx.fase = TrasEncolar(q.via) /\ lx.antes = q.antes
      /\ lx.ses = q.ses /\ lx.clave = q.clave /\ lx.cant = q.cant /\ lx.pend = Len(cola) + 1
      /\ q.via = "manual" => lx.leido = q.leido
  <2>1. TrasEncolar(q.via) \in Fases
    BY DEF TrasEncolar, Fases, EnCamino
  <2>2. (IF q.via = "manual" THEN q.leido ELSE 0) \in Int
    BY <1>3
  <2>3. Len(cola) + 1 \in Nat
    BY <1>4
  <2>4. PICK f, b, m : /\ f = TrasEncolar(q.via) /\ m = Len(cola) + 1
                       /\ b = (IF q.via = "manual" THEN q.leido ELSE 0)
    OBVIOUS
  <2>5. lx = [Libre EXCEPT !.fase = f, !.ses = q.ses, !.antes = q.antes, !.via = q.via,
                          !.clave = q.clave, !.leido = b, !.cant = q.cant, !.pend = m]
    BY <2>4
  <2>6. /\ lx \in Locales /\ lx.fase = f /\ lx.ses = q.ses /\ lx.antes = q.antes
        /\ lx.clave = q.clave /\ lx.cant = q.cant /\ lx.pend = m /\ lx.leido = b
    BY <1>3, <2>1, <2>2, <2>3, <2>4, <2>5, LibreBien DEF Locales
  <2> HIDE DEF lx
  <2> QED
    BY <2>4, <2>6
<1> HIDE DEF q, pet, lx
<1>a. PICK l : l = lx
    OBVIOUS
<1>8. /\ cola' \in Seq(Pendientes) /\ DOMAIN cola' = 1..(Len(cola) + 1)
      /\ \A i \in DOMAIN cola : cola'[i] = cola[i]
      /\ cola'[Len(cola) + 1] = pet
    BY <1>1, <1>4, <1>6
<1>9. Crecen /\ NadieCierra
    BY <1>1, <1>4, <1>8
       DEF Crecen, ColaCrece, RegistrosCrecen, SesionesAvanzan, NadieCierra
<1>10. LocalBien(l)'
  <2>1. l.fase = IF q.via = "manual" THEN "registrar" ELSE "releer"
    BY <1>7, <1>a DEF TrasEncolar
  <2>2. l.pend \in DOMAIN cola' /\ cola'[l.pend] = pet
    BY <1>4, <1>7, <1>a, <1>8
  <2>3. /\ l.ses \in Sesiones /\ sesion'[l.ses].estado # "no"
        /\ sesion'[l.ses].estado = "finalizada" => l.antes
    BY <1>1, <1>3, <1>7, <1>a
  <2>4. ManejadorBien(l)'
    BY <2>1, <2>2, <2>3, <1>3, <1>5, <1>6, <1>7, <1>a DEF ManejadorBien
  <2> QED
    BY <2>1, <2>3, <2>4 DEF LocalBien, AntesBien, CierreBien
<1>11. h' \in [Actores -> Locales] /\ \A d \in Actores : LocalBien(h[d])'
    BY <1>1, <1>7, <1>a, <1>9, <1>10, UnoCambia
<1>12. TablasBien'
    BY <1>1, <1>2, <1>8, <1>11 DEF TablasBien
<1>13. \A n \in DOMAIN registros' : RegistroBien(registros[n])'
  <2> TAKE n \in DOMAIN registros'
  <2>1. n \in DOMAIN registros /\ registros'[n] = registros[n]
        /\ registros[n].pend \in DOMAIN cola
    BY <1>1 DEF IInv, RegistroBien
  <2> QED
    BY <1>8, <1>9, <2>1, RegistroEstable
<1> QED
    BY <1>11, <1>12, <1>13 DEF IInv, RegistroBien

(* The entry of a request: in a closed session, one of those that were on    *)
(* their way.                                                                *)
LEMMA RegistrarPreserva ==
    ASSUME IInv, NEW a \in Actores, Registrar(a)
    PROVE  IInv'
<1> DEFINE q == h[a]
           r == [ses |-> q.ses, antes |-> q.antes, clave |-> q.clave, contada |-> q.cant,
                 sistema |-> q.leido, pend |-> q.pend, decision |-> "PENDIENTE"]
<1>0. PICK l : l = TrasRegistrar(q)
    OBVIOUS
<1>1. /\ q.fase = "registrar" /\ registros' = Append(registros, r)
      /\ h' = [h EXCEPT ![a] = l] /\ UNCHANGED <<sesion, stock, cola>>
    BY <1>0 DEF Registrar
<1>2. q \in Locales /\ ManejadorBien(q) /\ AntesBien(q) /\ TablasBien
    BY LocalDe DEF IInv, LocalBien
<1>3. /\ q.clave \in Claves /\ q.cant \in Int /\ q.leido \in Int /\ q.pend \in Nat
      /\ q.ses \in Sesiones /\ sesion[q.ses].estado # "no" /\ q.antes \in BOOLEAN
      /\ q.pend \in DOMAIN cola /\ cola[q.pend].clave = q.clave
      /\ cola[q.pend].via = "manual" => q.cant - q.leido = cola[q.pend].delta
      /\ sesion[q.ses].estado = "finalizada" => q.antes
    BY <1>1, <1>2 DEF Locales, ManejadorBien, AntesBien, EnCamino
<1>4. r \in Registros
    BY <1>3 DEF Registros, Decisiones
<1>5. RegistroBien(r)
    BY <1>3 DEF RegistroBien
<1>6. r.ses = q.ses /\ r.antes = q.antes
    OBVIOUS
<1>7. l \in Locales /\ LocalBien(l)
  <2>1. CASE q.via = "nube"
    <3>1. l = [Libre EXCEPT !.fase = "infiere", !.via = q.via, !.ses = q.ses, !.antes = q.antes]
      BY <1>0, <2>1 DEF TrasRegistrar
    <3>2. l \in Locales /\ l.fase = "infiere" /\ l.via = q.via /\ l.ses = q.ses
          /\ l.antes = q.antes
      BY <1>3, <2>1, <3>1, LibreBien DEF Locales, Fases, EnCamino, Vias
    <3> QED
      BY <1>3, <2>1, <3>2 DEF LocalBien, ManejadorBien, AntesBien, CierreBien
  <2>2. CASE q.via # "nube"
    BY <1>0, <2>2, LibreBien DEF TrasRegistrar
  <2> QED
    BY <2>1, <2>2
<1> HIDE DEF q, r
<1>8. registros \in Seq(Registros) /\ Len(registros) \in Nat /\ DOMAIN registros = 1..Len(registros)
    BY <1>2 DEF TablasBien
<1>9. /\ registros' \in Seq(Registros) /\ DOMAIN registros' = 1..(Len(registros) + 1)
      /\ \A n \in DOMAIN registros : registros'[n] = registros[n]
      /\ registros'[Len(registros) + 1] = r
    BY <1>1, <1>4, <1>8
<1>10. \A i \in DOMAIN registros' \ DOMAIN registros :
          sesion[registros'[i].ses].estado = "finalizada" => registros'[i].antes
    BY <1>3, <1>6, <1>8, <1>9
<1>11. Crecen /\ NadieCierra
    BY <1>1, <1>8, <1>9, <1>10
       DEF Crecen, ColaCrece, RegistrosCrecen, SesionesAvanzan, NadieCierra
<1>12. LocalBien(l)'
    BY <1>7, <1>11, LocalEstable, AntesEstable DEF LocalBien
<1>13. h' \in [Actores -> Locales] /\ \A d \in Actores : LocalBien(h[d])'
    BY <1>1, <1>7, <1>11, <1>12, UnoCambia
<1>14. TablasBien'
    BY <1>1, <1>2, <1>9, <1>13 DEF TablasBien
<1>15. \A n \in DOMAIN registros' : RegistroBien(registros[n])'
  <2> TAKE n \in DOMAIN registros'
  <2>1. n \in DOMAIN registros \/ n = Len(registros) + 1
    BY <1>8, <1>9
  <2>2. RegistroBien(registros'[n])
    BY <1>5, <1>9, <2>1 DEF IInv
  <2> QED
    BY <1>1, <2>2 DEF RegistroBien
<1> QED
    BY <1>13, <1>14, <1>15 DEF IInv

(* The second statement of finalizar.  Those at work in the session when it  *)
(* closes are marked; when it was closed already they are marked since then. *)
LEMMA CerrarSesionPreserva ==
    ASSUME IInv, NEW c \in Manejadores, CerrarSesion(c, "cerrar", "resumir")
    PROVE  IInv'
<1>1. /\ c \in Actores /\ h[c] \in Locales /\ ManejadorBien(h[c]) /\ TablasBien
      /\ h \in [Actores -> Locales]
    BY LocalDe DEF Actores, IInv, TablasBien
<1>2. PICK s : s = h[c].ses
    OBVIOUS
<1>a. PICK tocan : tocan = IF sesion[s].estado = "activa" THEN PorRegistrar(s) ELSE {}
    OBVIOUS
<1>b. PICK lc : lc = [h[c] EXCEPT !.fase = "resumir"]
    OBVIOUS
<1>3. /\ h[c].fase = "cerrar" /\ UNCHANGED <<stock, cola, registros>>
      /\ sesion' = [sesion EXCEPT ![s].estado = "finalizada"]
      /\ h' = [d \in Actores |-> IF d = c THEN lc
                                 ELSE [h[d] EXCEPT !.antes = h[d].antes \/ d \in tocan]]
    BY <1>2, <1>a, <1>b DEF CerrarSesion
<1>4. lc \in Locales /\ lc.fase = "resumir" /\ lc.ses = s
    BY <1>1, <1>2, <1>b DEF Locales, Fases
<1>5. s \in Sesiones /\ sesion[s].estado # "no"
    BY <1>1, <1>2, <1>3 DEF ManejadorBien
<1>6. /\ sesion' \in [Sesiones -> Filas] /\ sesion'[s].estado = "finalizada"
      /\ \A t \in Sesiones \ {s} : sesion'[t] = sesion[t]
      /\ sesion[s].estado \in {"activa", "finalizada"}
  <2>1. sesion \in [Sesiones -> Filas] /\ sesion[s] \in Filas
    BY <1>1, <1>5 DEF TablasBien
  <2>2. [sesion[s] EXCEPT !.estado = "finalizada"] \in Filas
        /\ [sesion[s] EXCEPT !.estado = "finalizada"].estado = "finalizada"
        /\ sesion[s].estado \in {"activa", "finalizada"}
    BY <1>5, <2>1 DEF Filas
  <2> QED
    BY <1>3, <1>5, <2>1, <2>2
<1>7. Crecen
    BY <1>3, <1>6 DEF Crecen, ColaCrece, RegistrosCrecen, SesionesAvanzan
<1>8. ASSUME NEW d \in Actores, d # c
      PROVE  h'[d] \in Locales /\ LocalBien(h[d])'
  <2>1. PICK l : l = h[d]
    OBVIOUS
  <2>2. l \in Locales /\ ManejadorBien(l) /\ AntesBien(l) /\ CierreBien(l)
    BY <2>1, LocalDe DEF LocalBien
  <2>3. PICK b \in BOOLEAN : b = (l.antes \/ d \in tocan)
    OBVIOUS
  <2>4. PICK m : m = [l EXCEPT !.antes = b]
    OBVIOUS
  <2>5. h'[d] = m
    BY <1>3, <1>8, <2>1, <2>3, <2>4
  <2>6. /\ m \in Locales /\ m.antes = b
        /\ m.fase = l.fase /\ m.ses = l.ses /\ m.via = l.via /\ m.clave = l.clave
        /\ m.leido = l.leido /\ m.tool = l.tool /\ m.cant = l.cant /\ m.pend = l.pend
        /\ m.contados = l.contados /\ m.faltan = l.faltan /\ m.resumen = l.resumen
    BY <2>2, <2>3, <2>4 DEF Locales
  <2>7. ManejadorBien(m) /\ CierreBien(m)
    BY <2>2, <2>6 DEF ManejadorBien, CierreBien
  <2>8. ManejadorBien(m)' /\ CierreBien(m)'
    BY <1>7, <2>6, <2>7, LocalEstable
  <2>9. ASSUME m.fase \in EnCamino, sesion'[m.ses].estado = "finalizada" PROVE b
    <3>1. m.ses \in Sesiones
      BY <2>7, <2>9 DEF ManejadorBien, EnCamino
    <3>2. CASE sesion[m.ses].estado = "finalizada"
      BY <2>2, <2>3, <2>6, <2>9, <3>2 DEF AntesBien
    <3>3. CASE sesion[m.ses].estado # "finalizada"
      <4>1. m.ses = s /\ sesion[s].estado = "activa"
        BY <1>6, <2>9, <3>1, <3>3
      <4>2. d \in PorRegistrar(s)
        BY <2>1, <2>6, <2>9, <4>1 DEF PorRegistrar, EnCamino
      <4> QED
        BY <1>a, <2>3, <4>1, <4>2
    <3> QED
      BY <3>2, <3>3
  <2>10. AntesBien(m)'
    BY <2>6, <2>9 DEF AntesBien
  <2>11. LocalBien(m)'
    BY <2>8, <2>10 DEF LocalBien
  <2> QED
    BY <2>5, <2>6, <2>11
       DEF LocalBien, ManejadorBien, AntesBien, CierreBien, ClavesDe, DeSesion
<1>9. h'[c] \in Locales /\ LocalBien(h[c])'
  <2>1. LocalBien(lc)'
    BY <1>4, <1>5, <1>6 DEF LocalBien, ManejadorBien, AntesBien, CierreBien, EnCamino
  <2>2. h'[c] = lc
    BY <1>1, <1>3
  <2> QED
    BY <1>4, <2>1, <2>2
       DEF LocalBien, ManejadorBien, AntesBien, CierreBien, ClavesDe, DeSesion
<1>10. h' \in [Actores -> Locales]
  <2>1. \A d \in Actores : h'[d] \in Locales
    BY <1>8, <1>9
  <2>2. h' = [d \in Actores |-> h'[d]]
    BY <1>3
  <2> QED
    BY <2>1, <2>2
<1>11. TablasBien'
    BY <1>1, <1>3, <1>6, <1>10 DEF TablasBien
<1>12. \A n \in DOMAIN registros' : RegistroBien(registros[n])'
    BY <1>3, <1>7, RegistroEstable
<1> QED
    BY <1>8, <1>9, <1>11, <1>12 DEF IInv

(* The worker resolves i: the entries of the requests it changes say so.     *)
LEMMA ResolucionPreserva ==
    ASSUME IInv, NEW i \in DOMAIN cola, NEW cierra \in SUBSET DOMAIN cola,
           NEW st \in {"ACEPTADA", "SOSPECHOSA", "CONFIRMADA_MANUAL", "RECHAZADA"},
           cola[i].status \in {"PENDING", "SOSPECHOSA"}, i \notin cierra,
           \A j \in cierra : cola[j].status \in {"PENDING", "SOSPECHOSA"},
           Resolucion(i, st, cierra)
    PROVE  IInv'
<1> DEFINE nuevo == [j \in DOMAIN cola |->
                       IF j = i THEN st ELSE IF j \in cierra THEN "RECHAZADA" ELSE cola[j].status]
           cerrado == [j \in DOMAIN cola |-> cola[j].inval \/ j \in cierra]
           toca == Sincronizados(i, st, cierra)
<1>1. /\ cola' = [j \in DOMAIN cola |->
                    [cola[j] EXCEPT !.status = nuevo[j], !.inval = cerrado[j]]]
      /\ registros' = [n \in DOMAIN registros |->
            IF registros[n].pend \in toca
            THEN [registros[n] EXCEPT !.decision = nuevo[registros[n].pend]] ELSE registros[n]]
      /\ stock' = IF st \in {"ACEPTADA", "CONFIRMADA_MANUAL"}
                  THEN [stock EXCEPT ![cola[i].clave] = @ + cola[i].delta] ELSE stock
      /\ UNCHANGED <<sesion, h>>
    BY DEF Resolucion
<1>2. /\ cola \in Seq(Pendientes) /\ Len(cola) \in Nat /\ DOMAIN cola = 1..Len(cola)
      /\ registros \in Seq(Registros) /\ Len(registros) \in Nat
      /\ DOMAIN registros = 1..Len(registros)
      /\ \A j \in DOMAIN cola : cola[j] \in Pendientes
      /\ \A n \in DOMAIN registros : registros[n] \in Registros
    BY DEF IInv, TablasBien
<1>3. /\ {i} \cup cierra \subseteq toca /\ toca \subseteq DOMAIN cola
      /\ \A j \in toca \ ({i} \cup cierra) : cola[j].inval
    BY DEF Sincronizados
<1>4. /\ nuevo[i] = st
      /\ \A j \in cierra : nuevo[j] = "RECHAZADA"
      /\ \A j \in DOMAIN cola \ ({i} \cup cierra) : nuevo[j] = cola[j].status
      /\ \A j \in DOMAIN cola : cerrado[j] \in BOOLEAN
      /\ \A j \in DOMAIN cola : cerrado[j] => cola[j].inval \/ j \in cierra
    OBVIOUS
<1> HIDE DEF nuevo, cerrado, toca
<1>a. \A j \in toca : nuevo[j] \in Decisiones \ {"PENDIENTE"}
  <2> TAKE j \in toca
  <2>1. CASE j \in {i} \cup cierra
    BY <1>4, <2>1 DEF Decisiones
  <2>2. CASE j \notin {i} \cup cierra
    BY <1>2, <1>3, <1>4, <2>2 DEF Pendientes, Decisiones
  <2> QED
    BY <2>1, <2>2
<1>5. /\ \A j \in DOMAIN cola : nuevo[j] \in (Decisiones \ {"PENDIENTE"}) \cup {"PENDING"}
      /\ \A j \in DOMAIN cola : cerrado[j] => nuevo[j] = "RECHAZADA"
  <2>1. ASSUME NEW j \in DOMAIN cola, j \notin toca
        PROVE  nuevo[j] = cola[j].status
    BY <1>3, <1>4, <2>1
  <2>2. ASSUME NEW j \in DOMAIN cola, cerrado[j]
        PROVE  nuevo[j] = "RECHAZADA"
    <3>1. CASE j \in cierra
      BY <1>4, <3>1
    <3>2. CASE j \notin cierra
      <4>1. cola[j].inval /\ cola[j].status = "RECHAZADA"
        BY <1>2, <1>4, <2>2, <3>2 DEF Pendientes
      <4>2. j # i
        BY <4>1
      <4> QED
        BY <1>4, <3>2, <4>1, <4>2
    <3> QED
      BY <3>1, <3>2
  <2> QED
    BY <1>2, <1>a, <2>1, <2>2 DEF Pendientes
<1>6. /\ DOMAIN cola' = DOMAIN cola
      /\ \A j \in DOMAIN cola : /\ cola'[j] \in Pendientes
                                /\ cola'[j].status = nuevo[j] /\ cola'[j].clave = cola[j].clave
                                /\ cola'[j].delta = cola[j].delta /\ cola'[j].via = cola[j].via
  <2>1. DOMAIN cola' = DOMAIN cola
        /\ \A j \in DOMAIN cola :
              cola'[j] = [cola[j] EXCEPT !.status = nuevo[j], !.inval = cerrado[j]]
    BY <1>1
  <2>2. ASSUME NEW j \in DOMAIN cola
        PROVE  LET p == [cola[j] EXCEPT !.status = nuevo[j], !.inval = cerrado[j]]
               IN  /\ p \in Pendientes /\ p.status = nuevo[j] /\ p.clave = cola[j].clave
                   /\ p.delta = cola[j].delta /\ p.via = cola[j].via
    BY <1>2, <1>4, <1>5 DEF Pendientes
  <2> QED
    BY <2>1, <2>2
<1>7. cola' \in Seq(Pendientes)
  <2>1. cola' \in [1..Len(cola) -> Pendientes]
    BY <1>1, <1>2, <1>6
  <2> QED
    BY <2>1, <1>2
<1>8. ASSUME NEW n \in DOMAIN registros
      PROVE  /\ registros'[n] \in Registros
             /\ registros'[n].ses = registros[n].ses /\ registros'[n].clave = registros[n].clave
             /\ registros'[n].antes = registros[n].antes
             /\ registros'[n].contada = registros[n].contada
             /\ registros'[n].sistema = registros[n].sistema
             /\ registros'[n].pend = registros[n].pend
             /\ registros'[n].decision = IF registros[n].pend \in toca
                                         THEN nuevo[registros[n].pend] ELSE registros[n].decision
  <2>1. CASE registros[n].pend \in toca
    <3>1. registros'[n] = [registros[n] EXCEPT !.decision = nuevo[registros[n].pend]]
      BY <1>1, <2>1
    <3>2. nuevo[registros[n].pend] \in Decisiones /\ registros[n] \in Registros
      BY <1>2, <1>a, <2>1
    <3> QED
      BY <2>1, <3>1, <3>2 DEF Registros
  <2>2. CASE registros[n].pend \notin toca
    BY <1>1, <1>2, <2>2
  <2> QED
    BY <2>1, <2>2
<1>9. DOMAIN registros' = DOMAIN registros
    BY <1>1
<1>10. registros' \in Seq(Registros)
  <2>1. registros' \in [1..Len(registros) -> Registros]
    BY <1>1, <1>2, <1>8, <1>9
  <2> QED
    BY <2>1, <1>2
<1>11. Crecen /\ NadieCierra
    BY <1>1, <1>6, <1>8, <1>9
       DEF Crecen, ColaCrece, RegistrosCrecen, SesionesAvanzan, NadieCierra
<1>12. ASSUME NEW n \in DOMAIN registros PROVE RegistroBien(registros[n])'
  <2>1. RegistroBien(registros[n]) /\ registros[n].pend \in DOMAIN cola
    BY DEF IInv, RegistroBien
  <2>2. /\ registros'[n].pend \in DOMAIN cola' /\ cola'[registros'[n].pend].clave = registros'[n].clave
        /\ sesion'[registros'[n].ses].estado # "no"
    <3>1. PICK r, q : r = registros[n] /\ q = registros'[n]
      OBVIOUS
    <3>2. r.pend \in DOMAIN cola /\ cola[r.pend].clave = r.clave /\ sesion[r.ses].estado # "no"
      BY <2>1, <3>1 DEF RegistroBien
    <3>3. q.pend = r.pend /\ q.clave = r.clave /\ q.ses = r.ses /\ sesion' = sesion
      BY <1>1, <1>8, <3>1
    <3> QED
      BY <1>6, <3>1, <3>2, <3>3
  <2>3. cola'[registros'[n].pend].via = "manual" =>
           registros'[n].contada - registros'[n].sistema = cola'[registros'[n].pend].delta
    BY <1>6, <1>8, <2>1 DEF RegistroBien
  <2>4. CASE registros[n].pend \in toca
    <3>1. registros'[n].decision = cola'[registros'[n].pend].status
          /\ (registros'[n].decision = "RECHAZADA" \/ registros'[n].decision = "CONFIRMADA_MANUAL"
                => registros'[n].decision \notin {"PENDING", "SOSPECHOSA"})
      BY <1>6, <1>8, <2>1, <2>4
    <3> QED
      BY <2>2, <2>3, <3>1 DEF RegistroBien
  <2>5. CASE registros[n].pend \notin toca
    <3>1. registros'[n].decision = registros[n].decision
          /\ cola'[registros'[n].pend].status = cola[registros[n].pend].status
      BY <1>3, <1>4, <1>6, <1>8, <2>1, <2>5
    <3> QED
      BY <2>1, <2>2, <2>3, <3>1 DEF RegistroBien
  <2> QED
    BY <2>4, <2>5
<1>13. h' \in [Actores -> Locales] /\ \A a \in Actores : LocalBien(h[a])'
    BY <1>1, <1>11, NadieCambia
<1>14. stock' \in [Claves -> Int]
  <2>1. cola[i].clave \in Claves /\ cola[i].delta \in Int /\ stock \in [Claves -> Int]
    BY <1>2 DEF Pendientes, IInv, TablasBien
  <2>2. stock[cola[i].clave] + cola[i].delta \in Int
    BY <2>1
  <2> QED
    BY <1>1, <2>1, <2>2
<1> QED
    BY <1>1, <1>7, <1>9, <1>10, <1>12, <1>13, <1>14 DEF IInv, TablasBien

(* The answer written on the entry of a request that is resolved already.    *)
LEMMA ConfirmarTardePreserva ==
    ASSUME IInv, NEW i \in DOMAIN cola, ConfirmarTarde(i)
    PROVE  IInv'
<1>1. PICK d \in {"CONFIRMADA_MANUAL", "RECHAZADA"} :
         registros' = [n \in DOMAIN registros |->
             IF registros[n].pend = i THEN [registros[n] EXCEPT !.decision = d]
                                      ELSE registros[n]]
    BY DEF ConfirmarTarde
<1>2. UNCHANGED <<sesion, stock, cola, h>> /\ cola[i].status \notin {"PENDING", "SOSPECHOSA"}
    BY DEF ConfirmarTarde
<1>3. /\ TablasBien /\ registros \in Seq(Registros) /\ Len(registros) \in Nat
      /\ DOMAIN registros = 1..Len(registros)
      /\ \A n \in DOMAIN registros : registros[n] \in Registros
    BY DEF IInv, TablasBien
<1>4. ASSUME NEW n \in DOMAIN registros
      PROVE  /\ registros'[n] \in Registros
             /\ registros'[n].ses = registros[n].ses /\ registros'[n].clave = registros[n].clave
             /\ registros'[n].antes = registros[n].antes
             /\ registros'[n].contada = registros[n].contada
             /\ registros'[n].sistema = registros[n].sistema
             /\ registros'[n].pend = registros[n].pend
             /\ registros'[n].decision = IF registros[n].pend = i THEN d
                                         ELSE registros[n].decision
    BY <1>1, <1>3 DEF Registros, Decisiones
<1>5. DOMAIN registros' = DOMAIN registros /\ registros' \in Seq(Registros)
  <2>1. registros' \in [1..Len(registros) -> Registros]
    BY <1>1, <1>3, <1>4
  <2> QED
    BY <1>1, <1>3, <2>1
<1>6. Crecen /\ NadieCierra
    BY <1>2, <1>4, <1>5
       DEF Crecen, ColaCrece, RegistrosCrecen, SesionesAvanzan, NadieCierra
<1>7. h' \in [Actores -> Locales] /\ \A a \in Actores : LocalBien(h[a])'
    BY <1>2, <1>6, NadieCambia
<1>8. ASSUME NEW n \in DOMAIN registros PROVE RegistroBien(registros[n])'
  <2>1. RegistroBien(registros[n])
    BY DEF IInv
  <2> QED
    BY <1>1, <1>2, <1>4, <2>1 DEF RegistroBien
<1> QED
    BY <1>2, <1>3, <1>5, <1>7, <1>8 DEF IInv, TablasBien

-----------------------------------------------------------------------------
(* The theorems. *)

LEMMA AtenderPreserva ==
    ASSUME IInv, NEW c \in Manejadores, Atender(c)
    PROVE  IInv'
<1>1. CASE VerParaCerrar(c)
    BY <1>1, VerPreserva DEF VerParaCerrar, Actores
<1>2. CASE VerParaRegistrar(c)
    BY <1>2, VerPreserva DEF VerParaRegistrar, Actores
<1>3. CASE RegistrarManual(c) \/ RegistrarVozRapido(c)
    BY <1>3, LeerProductoPreserva DEF RegistrarManual, RegistrarVozRapido
<1>4. CASE FinalizarSesion(c)
    BY <1>4, CerrarSesionPreserva, ResumirPreserva DEF FinalizarSesion
<1> QED
    BY <1>1, <1>2, <1>3, <1>4, PostLlmPreserva, ReportePreserva DEF Atender

LEMMA NextIInv == IInv /\ [Next]_vars => IInv'
<1> SUFFICES ASSUME IInv, [Next]_vars PROVE IInv'
    OBVIOUS
<1>1. CASE IniciarSesion
    BY <1>1, IniciarPreserva
<1>2. ASSUME NEW c \in Manejadores, Atender(c) PROVE IInv'
    BY <1>2, AtenderPreserva
<1>3. ASSUME NEW t \in Tareas, LlamadaLlm(t) PROVE IInv'
    BY <1>3, LlamadaLlmPreserva
<1>4. ASSUME NEW a \in Actores, Seguir(a) PROVE IInv'
    BY <1>4, EncolarPreserva, ReleerStockPreserva, RegistrarPreserva, TerminarPreserva DEF Seguir
<1>5. ASSUME NEW i \in DOMAIN cola, Evaluar(i) \/ Confirmar(i) PROVE IInv'
  <2>1. /\ Rivales(i) \in SUBSET DOMAIN cola /\ i \notin Rivales(i)
        /\ \A j \in Rivales(i) : cola[j].status \in {"PENDING", "SOSPECHOSA"}
    BY DEF Rivales
  <2>2. cola[i].status \in {"PENDING", "SOSPECHOSA"}
    BY <1>5 DEF Evaluar, Confirmar
  <2> QED
    BY <1>5, <2>1, <2>2, ResolucionPreserva DEF Evaluar, Confirmar
<1>6. ASSUME NEW i \in DOMAIN cola, ConfirmarTarde(i) PROVE IInv'
    BY <1>6, ConfirmarTardePreserva
<1>7. CASE UNCHANGED vars
  <2>1. UNCHANGED <<sesion, stock, cola, registros, h>>
    BY <1>7 DEF vars
  <2>2. \A a \in Actores : LocalBien(h[a])'
    BY <2>1, TablasIguales, NadieCambia
  <2> QED
    BY <2>1, <2>2 DEF IInv, TablasBien, RegistroBien
<1> QED
    BY <1>1, <1>2, <1>3, <1>4, <1>5, <1>6, <1>7 DEF Next

(* The invariant on which the rest stands holds however the statements of    *)
(* any requests of the gateway, the LLM services and the worker alternate.   *)
THEOREM SesionInvariante == Spec => []IInv
<1> QED
    BY InitIInv, NextIInv, PTL DEF Spec

(* An entry refers to an open session and to a request of its own row of     *)
(* stock; as an alert or an acceptance it says what its request says, and an *)
(* answer stands only on an entry whose request is resolved, even when a     *)
(* rival count closed it or the answer came late.                            *)
THEOREM RegistroDeAcuerdo == Spec => []TypeOK
<1>1. IInv => TypeOK
  <2> SUFFICES ASSUME IInv, NEW n \in DOMAIN registros
               PROVE  LET r == registros[n] IN
                      /\ sesion[r.ses].estado # "no" /\ r.clave \in Claves
                      /\ r.decision \in Decisiones
                      /\ r.pend \in DOMAIN cola /\ cola[r.pend].clave = r.clave
                      /\ r.decision \in {"SOSPECHOSA", "ACEPTADA"} =>
                            r.decision = cola[r.pend].status
                      /\ r.decision \in {"CONFIRMADA_MANUAL", "RECHAZADA"} =>
                            cola[r.pend].status \notin {"PENDING", "SOSPECHOSA"}
    BY DEF TypeOK
  <2>1. registros[n] \in Registros /\ RegistroBien(registros[n])
    BY DEF IInv, TablasBien
  <2> QED
    BY <2>1 DEF Registros, RegistroBien
<1> QED
    BY <1>1, SesionInvariante, PTL

(* The difference of the report is the delta that the worker judges, for a   *)
(* manual count or one by voice without LLM: enqueue_registro_manual keeps   *)
(* the one reading it made of the stock.                                     *)
THEOREM DiferenciaSiempreDelta == Spec => []DiferenciaEsDelta
<1>1. IInv => DiferenciaEsDelta
    BY DEF IInv, DiferenciaEsDelta, RegistroBien
<1> QED
    BY <1>1, SesionInvariante, PTL

(* The two statements of /api/reporte/diferencias never put a product on     *)
(* both sides, whatever is registered between them.                          *)
THEOREM ReporteNuncaRepite == Spec => []ReporteSinRepetir
<1>1. IInv => ReporteSinRepetir
    BY DEF IInv, ReporteSinRepetir, LocalBien, ManejadorBien, Actores
<1> QED
    BY <1>1, SesionInvariante, PTL

(* What the summary of finalizar misses comes from requests that had found   *)
(* the session active and were at work when it closed, for any number of     *)
(* requests in flight, of tool calls in each, of LLM services that go on     *)
(* after their request is over and of repeated finalizar.                    *)
THEOREM CierreSiempreCuenta == Spec => []CierreCuentaTodo
<1>1. IInv => CierreCuentaTodo
    BY DEF IInv, CierreCuentaTodo, LocalBien, CierreBien, Actores
<1> QED
    BY <1>1, SesionInvariante, PTL

(* The counter of /api/sesion/{id}/estado and the catalogue agree while no   *)
(* product was counted twice or in another bodega: the entries are then as   *)
(* many as the products of the bodega that have one.                         *)
THEOREM PendientesSiempreCoinciden == Spec => []PendientesCoinciden
<1>1. IInv => PendientesCoinciden
  <2> SUFFICES ASSUME IInv, NEW s \in Sesiones, sesion[s].estado # "no",
                      Cardinality(ClavesDe(s)) = Cardinality(DeSesion(s)),
                      \A k \in ClavesDe(s) : k[2] = sesion[s].bodega
               PROVE  Estado(s).pendientes = Cardinality(CatalogoPendiente(s))
    BY DEF PendientesCoinciden, ClavesDe
  <2> DEFINE b == sesion[s].bodega
             con == {p \in EnBodega(b) : <<p, b>> \in ClavesDe(s)}
  <2>1. CatalogoPendiente(s) = EnBodega(b) \ con
    BY DEF CatalogoPendiente, ClavesDe
  <2>2. IsFiniteSet(EnBodega(b))
    BY SesionAssumption, FS_Subset DEF EnBodega
  <2>3. con \subseteq EnBodega(b) /\ IsFiniteSet(con)
    BY <2>2, FS_Subset
  <2>4. \A k \in ClavesDe(s) : \E p \in con : k = <<p, b>>
    <3>1. \A i \in DOMAIN registros : registros[i] \in Registros
      BY DEF IInv, TablasBien
    <3>2. ClavesDe(s) \subseteq Productos \X Bodegas /\ ClavesDe(s) \subseteq Claves
      BY <3>1, SesionAssumption DEF ClavesDe, DeSesion, Registros
    <3>3. \A k \in ClavesDe(s) : k = <<k[1], b>> /\ k[1] \in Productos
      BY <3>2
    <3> QED
      BY <3>2, <3>3 DEF EnBodega
  <2>5. Cardinality(ClavesDe(s)) = Cardinality(con)
    <3> DEFINE f == [p \in con |-> <<p, b>>]
    <3>1. f \in Bijection(con, ClavesDe(s))
      <4>1. f \in [con -> ClavesDe(s)]
        OBVIOUS
      <4>2. \A p, q \in con : f[p] = f[q] => p = q
        OBVIOUS
      <4>3. \A k \in ClavesDe(s) : \E p \in con : f[p] = k
        BY <2>4
      <4> HIDE DEF f, con
      <4> QED
        BY <4>1, <4>2, <4>3 DEF Bijection, Injection, Surjection, IsInjective
    <3> HIDE DEF f, con
    <3> QED
      BY <2>3, <3>1, FS_Bijection DEF ExistsBijection
  <2>6. Cardinality(EnBodega(b) \ con) = Cardinality(EnBodega(b)) - Cardinality(con)
    <3>1. EnBodega(b) \cap con = con
      BY <2>3
    <3> HIDE DEF con, b
    <3>2. Cardinality(EnBodega(b) \ con)
             = Cardinality(EnBodega(b)) - Cardinality(EnBodega(b) \cap con)
      BY <2>2, FS_Difference
    <3> QED
      BY <3>1, <3>2
  <2> HIDE DEF con
  <2> QED
    BY <2>1, <2>5, <2>6 DEF Estado
<1> QED
    BY <1>1, SesionInvariante, PTL

-----------------------------------------------------------------------------
(* The refinement of LibroStock.  The ledger has MaxPend requests, and the   *)
(* queue no more than those.                                                 *)

Ids == 1..MaxPend
ColaCabe == Len(cola) <= MaxPend

Abiertos == {"PENDING", "SOSPECHOSA"}
Aplicados == {"ACEPTADA", "CONFIRMADA_MANUAL"}

EnCola ==
    /\ cola \in Seq(Pendientes) /\ Len(cola) \in Nat /\ Len(cola) <= MaxPend
    /\ DOMAIN cola = 1..Len(cola) /\ DOMAIN cola \subseteq Ids
    /\ \A i \in DOMAIN cola : cola[i] \in Pendientes

LEMMA ColaEnIds ==
    ASSUME IInv, ColaCabe
    PROVE  EnCola
<1>1. cola \in Seq(Pendientes) /\ MaxPend \in Nat
    BY SesionAssumption DEF IInv, TablasBien
<1> QED
    BY <1>1 DEF EnCola, ColaCabe, Ids

(* The state in the ledger of the request i of the queue q.                  *)
ValorEn(s) == CASE s \in {"PENDING", "SOSPECHOSA"}         -> "abierto"
                [] s \in {"ACEPTADA", "CONFIRMADA_MANUAL"} -> "aplicado"
                [] s = "RECHAZADA"                         -> "cerrado"
Valor(q, i) == IF i \notin DOMAIN q THEN "libre" ELSE ValorEn(q[i].status)

LEMMA EstadoLibroValor ==
    /\ EstadoLibro = [i \in Ids |-> Valor(cola, i)]
    /\ EstadoLibro' = [i \in Ids |-> Valor(cola', i)]
    BY DEF EstadoLibro, Valor, ValorEn, Ids

LEMMA ValorIgual ==
    ASSUME NEW q, NEW r, NEW i, i \in DOMAIN q <=> i \in DOMAIN r,
           i \in DOMAIN q => q[i].status = r[i].status
    PROVE  Valor(q, i) = Valor(r, i)
BY DEF Valor

LEMMA ValorDe ==
    ASSUME IInv, ColaCabe, NEW i \in Ids
    PROVE  /\ i \notin DOMAIN cola => EstadoLibro[i] = "libre"
           /\ i \in DOMAIN cola =>
                 /\ cola[i].status \in Abiertos => EstadoLibro[i] = "abierto"
                 /\ cola[i].status \in Aplicados => EstadoLibro[i] = "aplicado"
                 /\ cola[i].status = "RECHAZADA" => EstadoLibro[i] = "cerrado"
<1>1. EstadoLibro[i] =
        IF i \notin DOMAIN cola THEN "libre"
        ELSE CASE cola[i].status \in {"PENDING", "SOSPECHOSA"}         -> "abierto"
               [] cola[i].status \in {"ACEPTADA", "CONFIRMADA_MANUAL"} -> "aplicado"
               [] cola[i].status = "RECHAZADA"                         -> "cerrado"
    BY DEF EstadoLibro, Ids
<1>2. ASSUME i \in DOMAIN cola, cola[i].status \in Abiertos
      PROVE  EstadoLibro[i] = "abierto"
    BY <1>1, <1>2 DEF Abiertos
<1>3. ASSUME i \in DOMAIN cola, cola[i].status \in Aplicados
      PROVE  EstadoLibro[i] = "aplicado"
    BY <1>1, <1>3 DEF Aplicados
<1>4. ASSUME i \in DOMAIN cola, cola[i].status = "RECHAZADA"
      PROVE  EstadoLibro[i] = "cerrado"
    BY <1>1, <1>4
<1> QED
    BY <1>1, <1>2, <1>3, <1>4

LEMMA InitLibro == Init => ColaCabe /\ Libro!Init
<1> SUFFICES ASSUME Init PROVE ColaCabe /\ Libro!Init
    OBVIOUS
<1>1. cola = <<>> /\ DOMAIN cola = {} /\ stock = [k \in Claves |-> Inicial]
    BY DEF Init
<1>2. ColaCabe
    BY <1>1, SesionAssumption DEF ColaCabe
<1>3. EstadoLibro = [i \in 1..MaxPend |-> "libre"]
    BY <1>1 DEF EstadoLibro
<1>4. PedidoLibro = [i \in 1..MaxPend |-> [key |-> <<>>, delta |-> 0]]
    BY <1>1 DEF PedidoLibro
<1> QED
    BY <1>1, <1>2, <1>3, <1>4 DEF Libro!Init

(* The INSERT of a handler enters a free request.                            *)
LEMMA EncolarLibro ==
    ASSUME IInv, IInv', ColaCabe, NEW a \in Actores, Encolar(a)
    PROVE  ColaCabe' /\ Libro!Next
<1>1. PICK pet : cola' = Append(cola, pet) /\ pet.status = "PENDING"
    BY DEF Encolar
<1>2. Len(cola) < MaxPend /\ UNCHANGED stock
    BY DEF Encolar
<1>3. PICK n : n = Len(cola) + 1
    OBVIOUS
<1>4. EnCola /\ MaxPend \in Nat
    BY ColaEnIds, SesionAssumption
<1>5. /\ n \in Ids /\ n \notin DOMAIN cola
      /\ Len(cola') = n /\ DOMAIN cola' = DOMAIN cola \cup {n}
      /\ \A j \in DOMAIN cola : cola'[j] = cola[j]
      /\ cola'[n] = pet
    BY <1>1, <1>2, <1>3, <1>4 DEF EnCola, Ids
<1>6. ColaCabe'
    BY <1>2, <1>3, <1>4, <1>5 DEF EnCola, ColaCabe
<1>7. cola' \in Seq(Pendientes) /\ pet \in Pendientes
    BY <1>5 DEF IInv, TablasBien
<1>8. EstadoLibro[n] = "libre"
    BY <1>5, ValorDe
<1>9. EstadoLibro' = [EstadoLibro EXCEPT ![n] = "abierto"]
  <2>1. \A j \in Ids : j # n => Valor(cola', j) = Valor(cola, j)
    BY <1>5, ValorIgual
  <2>2. Valor(cola', n) = "abierto"
    BY <1>1, <1>5 DEF Valor, ValorEn
  <2> QED
    BY <1>5, <2>1, <2>2, EstadoLibroValor
<1>10. PedidoLibro' = [PedidoLibro EXCEPT ![n] = [key |-> pet.clave, delta |-> pet.delta]]
    BY <1>5 DEF PedidoLibro, Ids
<1>11. PedidoLibro'[n] = [key |-> pet.clave, delta |-> pet.delta]
    BY <1>5, <1>10 DEF PedidoLibro, Ids
<1>12. PedidoLibro'[n] \in Libro!Peticiones
    BY <1>7, <1>11 DEF Libro!Peticiones, Pendientes
<1>13. Libro!Pedir(n)
    BY <1>2, <1>8, <1>9, <1>10, <1>11, <1>12 DEF Libro!Pedir
<1> QED
    BY <1>5, <1>6, <1>13 DEF Libro!Next, Ids

(* What a resolution of i that closes cierra leaves in the queue.            *)
LEMMA ResolucionCola ==
    ASSUME IInv, ColaCabe, NEW i \in DOMAIN cola, NEW st, NEW cierra \in SUBSET DOMAIN cola,
           Resolucion(i, st, cierra)
    PROVE  /\ DOMAIN cola' = DOMAIN cola /\ Len(cola') = Len(cola)
           /\ \A j \in DOMAIN cola :
                 /\ cola'[j].clave = cola[j].clave /\ cola'[j].delta = cola[j].delta
                 /\ cola'[j].status = IF j = i THEN st ELSE IF j \in cierra THEN "RECHAZADA"
                                      ELSE cola[j].status
<1>1. EnCola
    BY ColaEnIds
<1> DEFINE nuevo == [j \in DOMAIN cola |->
                       IF j = i THEN st ELSE IF j \in cierra THEN "RECHAZADA" ELSE cola[j].status]
           cerrado == [j \in DOMAIN cola |-> cola[j].inval \/ j \in cierra]
<1>2. cola' = [j \in DOMAIN cola |->
                [cola[j] EXCEPT !.status = nuevo[j], !.inval = cerrado[j]]]
    BY DEF Resolucion
<1>3. \A j \in DOMAIN cola :
         nuevo[j] = IF j = i THEN st ELSE IF j \in cierra THEN "RECHAZADA" ELSE cola[j].status
    OBVIOUS
<1> HIDE DEF nuevo, cerrado
<1>4. \A j \in DOMAIN cola : cola[j] \in Pendientes
    BY <1>1 DEF EnCola
<1>5. ASSUME NEW j \in DOMAIN cola
      PROVE  /\ cola'[j].clave = cola[j].clave /\ cola'[j].delta = cola[j].delta
             /\ cola'[j].status = nuevo[j]
    BY <1>2, <1>4 DEF Pendientes
<1>6. DOMAIN cola' = DOMAIN cola
    BY <1>2
<1>7. Len(cola') = Len(cola)
  <2>1. PICK f : f = [j \in DOMAIN cola |->
                        [cola[j] EXCEPT !.status = nuevo[j], !.inval = cerrado[j]]]
    OBVIOUS
  <2>2. cola' = f /\ DOMAIN f = 1..Len(cola) /\ Len(cola) \in Nat
    BY <1>1, <1>2, <2>1 DEF EnCola
  <2> QED
    BY <2>2
<1> QED
    BY <1>3, <1>5, <1>6, <1>7

LEMMA ResolucionLibro ==
    ASSUME IInv, IInv', ColaCabe, NEW i \in DOMAIN cola, NEW cierra \in SUBSET DOMAIN cola,
           NEW st \in {"ACEPTADA", "SOSPECHOSA", "CONFIRMADA_MANUAL", "RECHAZADA"},
           cola[i].status \in Abiertos,
           \A j \in cierra : j # i /\ cola[j].status \in Abiertos,
           st \notin Aplicados => cierra = {},
           Resolucion(i, st, cierra)
    PROVE  ColaCabe' /\ [Libro!Next]_(Libro!vars)
<1>1. /\ DOMAIN cola' = DOMAIN cola /\ Len(cola') = Len(cola)
      /\ \A j \in DOMAIN cola :
            /\ cola'[j].clave = cola[j].clave /\ cola'[j].delta = cola[j].delta
            /\ cola'[j].status = IF j = i THEN st ELSE IF j \in cierra THEN "RECHAZADA"
                                 ELSE cola[j].status
    BY ResolucionCola
<1>2. ColaCabe'
    BY <1>1 DEF ColaCabe
<1>3. DOMAIN cola \subseteq Ids /\ i \in Ids /\ cierra \subseteq Ids
    BY ColaEnIds DEF EnCola
<1>4. UNCHANGED PedidoLibro
    BY <1>1 DEF PedidoLibro
<1>5. EstadoLibro[i] = "abierto" /\ \A j \in cierra : EstadoLibro[j] = "abierto"
    BY <1>3, ValorDe
<1>6. \A j \in cierra : EstadoLibro'[j] = "cerrado"
  <2> TAKE j \in cierra
  <2>1. j \in DOMAIN cola' /\ cola'[j].status = "RECHAZADA" /\ j \in Ids
    BY <1>1, <1>3
  <2> QED
    BY <2>1 DEF EstadoLibro, Ids
<1>7. \A j \in Ids \ ({i} \cup cierra) : EstadoLibro'[j] = EstadoLibro[j]
  <2> TAKE j \in Ids \ ({i} \cup cierra)
  <2>1. Valor(cola', j) = Valor(cola, j)
    BY <1>1, ValorIgual
  <2> QED
    BY <2>1, EstadoLibroValor
<1>8. /\ EstadoLibro = [j \in Ids |-> EstadoLibro[j]]
      /\ EstadoLibro' = [j \in Ids |-> EstadoLibro'[j]]
    BY EstadoLibroValor
<1>9. CASE st \in Aplicados
  <2>1. EstadoLibro'[i] = "aplicado"
    BY <1>1, <1>3, <1>9 DEF EstadoLibro, Ids, Aplicados
  <2>2. EstadoLibro' = [j \in Ids |-> IF j = i THEN "aplicado"
                                      ELSE IF j \in cierra THEN "cerrado" ELSE EstadoLibro[j]]
    BY <1>6, <1>7, <1>8, <2>1
  <2>3. /\ PedidoLibro[i].key = cola[i].clave /\ PedidoLibro[i].delta = cola[i].delta
        /\ cola[i].clave \in Claves
    BY <1>3, ColaEnIds DEF PedidoLibro, Ids, EnCola, Pendientes
  <2>4. stock' = [stock EXCEPT ![PedidoLibro[i].key] = @ + PedidoLibro[i].delta]
    BY <1>9, <2>3 DEF Resolucion, Aplicados
  <2>5. Libro!Aplicar(i, cierra)
    BY <1>4, <1>5, <2>2, <2>3, <2>4 DEF Libro!Aplicar, Ids
  <2> QED
    BY <1>2, <1>3, <2>5 DEF Libro!Next, Ids
<1>10. CASE st = "RECHAZADA"
  <2>1. cierra = {} /\ UNCHANGED stock
    BY <1>10 DEF Resolucion, Aplicados
  <2>2. EstadoLibro'[i] = "cerrado"
    BY <1>1, <1>3, <1>10 DEF EstadoLibro, Ids
  <2>3. EstadoLibro' = [j \in Ids |-> IF j \in {i} THEN "cerrado" ELSE EstadoLibro[j]]
    BY <1>7, <1>8, <2>1, <2>2
  <2>4. Libro!Cerrar({i})
    BY <1>4, <1>5, <2>1, <2>3 DEF Libro!Cerrar, Ids
  <2> QED
    BY <1>2, <1>3, <2>4 DEF Libro!Next, Ids
<1>11. CASE st = "SOSPECHOSA"
  <2>1. cierra = {} /\ UNCHANGED stock
    BY <1>11 DEF Resolucion, Aplicados
  <2>2. EstadoLibro'[i] = "abierto"
    BY <1>1, <1>3, <1>11 DEF EstadoLibro, Ids
  <2>3. EstadoLibro' = EstadoLibro
    BY <1>5, <1>7, <1>8, <2>1, <2>2
  <2> QED
    BY <1>2, <1>4, <2>1, <2>3 DEF Libro!vars
<1> QED
    BY <1>9, <1>10, <1>11 DEF Aplicados

LEMMA PasoLibro ==
    ASSUME IInv, IInv', ColaCabe, [Next]_vars
    PROVE  ColaCabe' /\ [Libro!Next]_(Libro!vars)
<1>1. CASE UNCHANGED <<cola, stock>>
    BY <1>1 DEF ColaCabe, EstadoLibro, PedidoLibro, Libro!vars
<1>2. CASE \E a \in Actores : Encolar(a)
    BY <1>2, EncolarLibro
<1>3. CASE \E i \in DOMAIN cola : Evaluar(i) \/ Confirmar(i)
  <2>1. PICK i \in DOMAIN cola : Evaluar(i) \/ Confirmar(i)
    BY <1>3
  <2>2. /\ cola[i].status \in Abiertos /\ Rivales(i) \in SUBSET DOMAIN cola
        /\ \A j \in Rivales(i) : j # i /\ cola[j].status \in Abiertos
    BY <2>1 DEF Evaluar, Confirmar, Rivales, Abiertos
  <2>3. CASE \E st \in Aplicados : Resolucion(i, st, Rivales(i))
    BY <2>2, <2>3, ResolucionLibro DEF Aplicados
  <2>4. CASE \E st \in {"SOSPECHOSA", "RECHAZADA"} : Resolucion(i, st, {})
    BY <2>2, <2>4, ResolucionLibro
  <2> QED
    BY <2>1, <2>3, <2>4 DEF Evaluar, Confirmar, Aplicados
<1>4. ASSUME NEW c \in Manejadores, Atender(c)
      PROVE  UNCHANGED <<cola, stock>>
    BY <1>4 DEF Atender, VerParaCerrar, VerParaRegistrar, RegistrarManual, RegistrarVozRapido,
                LeerProducto, PostLlm, FinalizarSesion, CerrarSesion, Resumir,
                ReporteDiferencias, Contados, NoContados, Pasa
<1>5. ASSUME NEW a \in Actores, Registrar(a) \/ Terminar(a) \/ LlamadaLlm(a) \/ ReleerStock(a)
      PROVE  UNCHANGED <<cola, stock>>
    BY <1>5 DEF Registrar, Terminar, LlamadaLlm, ReleerStock, Pasa
<1>6. CASE IniciarSesion \/ UNCHANGED vars \/ \E i \in DOMAIN cola : ConfirmarTarde(i)
    BY <1>1, <1>6 DEF IniciarSesion, ConfirmarTarde, vars
<1> QED
    BY <1>1, <1>2, <1>3, <1>4, <1>5, <1>6 DEF Next, Seguir, Actores

(* A counting session sees the queue as the ledger promises it, whatever the *)
(* order of the statements of its handlers: the delta of a request is        *)
(* applied to the stock once, and a rival count is closed while it waits or  *)
(* not at all (main.go:458-490).                                             *)
THEOREM SesionImplementaLibro == Spec => ImplementaLibro
<1>1. Init => ColaCabe /\ Libro!Init
    BY InitLibro
<1>2. IInv /\ IInv' /\ ColaCabe /\ [Next]_vars => ColaCabe' /\ [Libro!Next]_(Libro!vars)
    BY PasoLibro
<1> QED
    BY <1>1, <1>2, SesionInvariante, PTL DEF Spec, ImplementaLibro, Libro!Spec
=============================================================================
