---------------------------- MODULE ConsultaProofs ----------------------------
(***************************************************************************)
(* Theorems about Consulta, for any number of CLI processes and queries    *)
(* and any failures.  The inductive invariant says what the three places   *)
(* that hold a query know of the queue: the two services (ServicioBien,    *)
(* Completa), the row that a call became (FilaBien), and the CLI that      *)
(* polls rows and remembers one (ClienteBien).                             *)
(***************************************************************************)
EXTENDS Consulta, TLAPS

-----------------------------------------------------------------------------
(* Types. *)

Movs == {"agregar_inventario", "confirmar_movimiento"}
Estados == {"PENDING", "ACEPTADA", "SOSPECHOSA", "CONFIRMADA_MANUAL", "RECHAZADA"}
Llamadas == [tool: Movs \cup {"consultar_inventario"}, target: Nat, conf: BOOLEAN]
Servicios == [fase: {"no", "infiere", "encola", "error"}, faltan: Seq(Llamadas),
              pend: SUBSET Nat]
Consultas == [cli: Clis, texto: Textos, alerta: Nat, fase: {"nube", "local", "hecha", "fallida"},
              respaldo: BOOLEAN, nube: Servicios, local: Servicios]
Filas == [tool: Movs, target: Nat, conf: BOOLEAN, n: Nat, status: Estados]
Clientes == [fase: {"lista", "charla", "espera", "sondea"}, n: Nat, alerta: Nat,
             pend: SUBSET Nat]

TablasBien ==
    /\ cli \in [Clis -> Clientes]
    /\ pet \in Seq(Consultas)
    /\ cola \in Seq(Filas)

-----------------------------------------------------------------------------
(* The inductive invariant. *)

(* The service r of query n, which was sent with the alert a: its list holds *)
(* rows of n, and what it has still to enqueue resolves a and nothing else.  *)
ServicioBien(n, a, r) ==
    /\ r.fase \in {"no", "infiere"} => r.pend = {} /\ r.faltan = <<>>
    /\ \A i \in r.pend \ {0} : i \in DOMAIN cola /\ cola[i].n = n
    /\ a # 0 => \A j \in DOMAIN r.faltan :
                   r.faltan[j].tool = "confirmar_movimiento" => r.faltan[j].target = a

(* needle answers an alert with confirmations only.                          *)
LocalBien(a, r) ==
    a # 0 => /\ \A j \in DOMAIN r.faltan : r.faltan[j].tool = "confirmar_movimiento"
             /\ \A i \in r.pend \ {0} : cola[i].tool = "confirmar_movimiento"

(* The only service of a query lists every row of it, as long as it runs.    *)
Completa(n, r) ==
    r.fase \notin {"no", "error"} => \A i \in DOMAIN cola : cola[i].n = n => i \in r.pend

ConsultaBien(n, p) ==
    /\ ServicioBien(n, p.alerta, p.nube) /\ ServicioBien(n, p.alerta, p.local)
    /\ LocalBien(p.alerta, p.local)
    /\ ~p.respaldo => /\ p.nube.fase = "no" \/ p.local.fase = "no"
                      /\ Completa(n, p.nube) /\ Completa(n, p.local)
    /\ p.fase = "nube" => ~p.respaldo /\ p.local.fase = "no" /\ p.nube.fase # "no"
    /\ p.fase = "local" => p.local.fase # "no"
    /\ p.fase = "hecha" => IF p.local.fase # "no" THEN Listo(p.local) ELSE Listo(p.nube)

FilaBien(f) ==
    /\ f.n \in DOMAIN pet
    /\ f.tool = "confirmar_movimiento" /\ pet[f.n].alerta # 0 => f.target = pet[f.n].alerta
    /\ f.status = "SOSPECHOSA" => f.tool = "agregar_inventario"

DeSuCli(c, i) == i \in DOMAIN cola /\ pet[cola[i].n].cli = c

ClienteBien(c, r) ==
    /\ r.n \in 0..Len(pet)
    /\ r.fase = "espera" => r.n \in DOMAIN pet /\ pet[r.n].cli = c
    /\ \A i \in r.pend : DeSuCli(c, i)
    /\ r.alerta # 0 => /\ DeSuCli(c, r.alerta)
                       /\ cola[r.alerta].tool = "agregar_inventario"
                       /\ cola[r.alerta].status \in {"SOSPECHOSA", "CONFIRMADA_MANUAL", "RECHAZADA"}

IInv ==
    /\ TablasBien
    /\ \A n \in DOMAIN pet : ConsultaBien(n, pet[n])
    /\ \A i \in DOMAIN cola : FilaBien(cola[i])
    /\ \A c \in Clis : ClienteBien(c, cli[c])

-----------------------------------------------------------------------------
(* What every step owes to the places it does not touch. *)

PetCrece ==
    /\ DOMAIN pet \subseteq DOMAIN pet' /\ Len(pet) <= Len(pet')
    /\ Len(pet) \in Nat /\ Len(pet') \in Nat
    /\ \A n \in DOMAIN pet : pet'[n].cli = pet[n].cli /\ pet'[n].alerta = pet[n].alerta

(* A row keeps what it is about, and one the filter held never looks as if   *)
(* it had been accepted.                                                     *)
ColaCrece ==
    /\ DOMAIN cola \subseteq DOMAIN cola'
    /\ \A i \in DOMAIN cola :
          /\ cola'[i].tool = cola[i].tool /\ cola'[i].target = cola[i].target
          /\ cola'[i].n = cola[i].n
          /\ cola[i].status \in {"SOSPECHOSA", "CONFIRMADA_MANUAL", "RECHAZADA"} =>
                cola'[i].status \in {"SOSPECHOSA", "CONFIRMADA_MANUAL", "RECHAZADA"}

SinFilasDe(n) == \A i \in DOMAIN cola' \ DOMAIN cola : cola'[i].n # n

LEMMA ClienteEstable ==
    ASSUME IInv, PetCrece, ColaCrece, NEW c, NEW r \in Clientes, ClienteBien(c, r)
    PROVE  ClienteBien(c, r)'
<1>1. \A i \in DOMAIN cola : cola[i].n \in DOMAIN pet
    BY DEF IInv, FilaBien
<1>2. ASSUME NEW i, DeSuCli(c, i) PROVE DeSuCli(c, i)'
    BY <1>1, <1>2 DEF DeSuCli, PetCrece, ColaCrece
<1>3. r.n \in 0..Len(pet') /\ (r.fase = "espera" => r.n \in DOMAIN pet' /\ pet'[r.n].cli = c)
    BY DEF ClienteBien, PetCrece
<1>4. \A i \in r.pend : DeSuCli(c, i)'
    BY <1>2 DEF ClienteBien
<1>5. r.alerta # 0 => /\ DeSuCli(c, r.alerta)'
                      /\ cola'[r.alerta].tool = "agregar_inventario"
                      /\ cola'[r.alerta].status \in {"SOSPECHOSA", "CONFIRMADA_MANUAL", "RECHAZADA"}
    BY <1>2 DEF ClienteBien, DeSuCli, ColaCrece
<1> QED
    BY <1>3, <1>4, <1>5 DEF ClienteBien

LEMMA ConsultaEstable ==
    ASSUME IInv, ColaCrece, NEW n, NEW p \in Consultas, ConsultaBien(n, p),
           p.respaldo \/ SinFilasDe(n)
    PROVE  ConsultaBien(n, p)'
<1>1. ASSUME NEW a, NEW r, ServicioBien(n, a, r) PROVE ServicioBien(n, a, r)'
    BY <1>1 DEF ServicioBien, ColaCrece
<1>2. LocalBien(p.alerta, p.local)'
    BY DEF ConsultaBien, LocalBien, ServicioBien, ColaCrece
<1>3. ASSUME NEW r, Completa(n, r), SinFilasDe(n) PROVE Completa(n, r)'
    BY <1>3 DEF Completa, ColaCrece, SinFilasDe
<1> QED
    BY <1>1, <1>2, <1>3 DEF ConsultaBien, Listo

LEMMA FilaEstable ==
    ASSUME IInv, PetCrece, NEW f \in Filas, FilaBien(f)
    PROVE  FilaBien(f)'
BY DEF FilaBien, PetCrece

(* A step of one CLI. *)
LEMMA PasoDeCli ==
    ASSUME IInv, NEW c \in Clis, NEW r \in Clientes, ClienteBien(c, r),
           cli' = [cli EXCEPT ![c] = r], UNCHANGED <<pet, cola>>
    PROVE  IInv'
<1>1. cli \in [Clis -> Clientes]
    BY DEF IInv, TablasBien
<1>2. cli' \in [Clis -> Clientes] /\ \A d \in Clis : cli'[d] = IF d = c THEN r ELSE cli[d]
    BY <1>1
<1>3. TablasBien'
    BY <1>2 DEF IInv, TablasBien
<1>4. \A d \in Clis : ClienteBien(d, cli[d])'
    BY <1>2 DEF IInv, ClienteBien, DeSuCli
<1> QED
    BY <1>3, <1>4 DEF IInv, ConsultaBien, ServicioBien, LocalBien, Completa, Listo, FilaBien

(* A step of one query, which enqueues rows of its own if any. *)
LEMMA PasoDeConsulta ==
    ASSUME IInv, NEW n \in DOMAIN pet, NEW p \in Consultas, ConsultaBien(n, p)',
           p.cli = pet[n].cli, p.alerta = pet[n].alerta,
           pet' = [pet EXCEPT ![n] = p], UNCHANGED cli,
           cola' \in Seq(Filas), DOMAIN cola \subseteq DOMAIN cola',
           \A i \in DOMAIN cola : cola'[i] = cola[i],
           \A i \in DOMAIN cola' \ DOMAIN cola : cola'[i].n = n /\ FilaBien(cola'[i])
    PROVE  IInv'
<1>1. pet \in Seq(Consultas) /\ Len(pet) \in Nat /\ DOMAIN pet = 1..Len(pet)
    BY DEF IInv, TablasBien
<1>2. /\ pet' \in Seq(Consultas) /\ Len(pet') = Len(pet) /\ DOMAIN pet' = DOMAIN pet
      /\ \A m \in DOMAIN pet : pet'[m] = IF m = n THEN p ELSE pet[m]
    BY <1>1
<1>3. PetCrece /\ ColaCrece /\ \A m : m # n => SinFilasDe(m)
    BY <1>1, <1>2 DEF PetCrece, ColaCrece, SinFilasDe
<1>4. TablasBien'
    BY <1>2 DEF IInv, TablasBien
<1>5. ASSUME NEW m \in DOMAIN pet PROVE ConsultaBien(m, pet[m])'
  <2>1. PICK q : q = pet'[m]
    OBVIOUS
  <2>2. ConsultaBien(m, q)'
    <3>1. CASE m = n
      BY <1>2, <2>1, <3>1
    <3>2. CASE m # n
      <4>1. q = pet[m] /\ q \in Consultas
        BY <1>1, <1>2, <2>1, <3>2
      <4> QED
        BY <1>3, <3>2, <4>1, ConsultaEstable DEF IInv
    <3> QED
      BY <3>1, <3>2
  <2> QED
    BY <2>1, <2>2 DEF ConsultaBien, ServicioBien, LocalBien, Completa, Listo
<1>6. ASSUME NEW i \in DOMAIN cola' PROVE FilaBien(cola[i])'
  <2>1. PICK f : f = cola'[i]
    OBVIOUS
  <2>2. f \in Filas /\ FilaBien(f)
    BY <2>1 DEF IInv, TablasBien
  <2>3. FilaBien(f)'
    BY <1>3, <2>2, FilaEstable
  <2> QED
    BY <2>1, <2>3 DEF FilaBien
<1>7. ASSUME NEW c \in Clis PROVE ClienteBien(c, cli[c])'
  <2>1. PICK r \in Clientes : r = cli[c]
    BY DEF IInv, TablasBien
  <2>2. ClienteBien(c, r)'
    BY <1>3, <2>1, ClienteEstable DEF IInv
  <2> QED
    BY <2>1, <2>2 DEF ClienteBien, DeSuCli
<1> QED
    BY <1>2, <1>4, <1>5, <1>6, <1>7 DEF IInv

-----------------------------------------------------------------------------
(* The services. *)

(* The query with a new state of one of its services. *)
Con(p, s, r) == IF s = "nube" THEN [p EXCEPT !.nube = r] ELSE [p EXCEPT !.local = r]

LEMMA SvcCambia ==
    ASSUME IInv, NEW n \in DOMAIN pet, NEW s \in {"nube", "local"}, NEW r \in Servicios, Svc(n, s, r)
    PROVE  LET p == Con(pet[n], s, r) IN
           /\ p \in Consultas /\ p.cli = pet[n].cli /\ p.alerta = pet[n].alerta
           /\ pet' = [pet EXCEPT ![n] = p]
<1>1. pet[n] \in Consultas
    BY DEF IInv, TablasBien
<1>2. CASE s = "nube"
    BY <1>1, <1>2 DEF Svc, Con, Consultas
<1>3. CASE s = "local"
    BY <1>1, <1>3 DEF Svc, Con, Consultas
<1> QED
    BY <1>2, <1>3

(* What a service that was working on n must keep for the rest of n to stay  *)
(* true.                                                                     *)
LEMMA ServicioEnConsulta ==
    ASSUME IInv, ColaCrece, NEW n \in DOMAIN pet, NEW s \in {"nube", "local"}, NEW r \in Servicios,
           NEW p0, p0 = pet[n],
           p0[s].fase = "infiere" \/ (p0[s].fase = "encola" /\ p0[s].faltan # <<>>),
           r.fase \in {"encola", "error"}, ServicioBien(n, p0.alerta, r)',
           s = "local" => LocalBien(p0.alerta, r)',
           ~p0.respaldo => Completa(n, r)'
    PROVE  ConsultaBien(n, Con(p0, s, r))'
<1> DEFINE p == Con(p0, s, r)
<1>1. p0 \in Consultas /\ ConsultaBien(n, p0)
    BY DEF IInv, TablasBien
<1>2. /\ p.alerta = p0.alerta /\ p.fase = p0.fase /\ p.respaldo = p0.respaldo
      /\ p.nube = (IF s = "nube" THEN r ELSE p0.nube)
      /\ p.local = (IF s = "nube" THEN p0.local ELSE r)
    BY <1>1 DEF Con, Consultas
<1>3. p0[s] = IF s = "nube" THEN p0.nube ELSE p0.local
    OBVIOUS
<1> HIDE DEF p
<1>4. ASSUME NEW q, ServicioBien(n, p0.alerta, q) PROVE ServicioBien(n, p0.alerta, q)'
    BY <1>4 DEF ServicioBien, ColaCrece
<1>5. LocalBien(p0.alerta, p0.local)'
    BY <1>1 DEF ConsultaBien, LocalBien, ServicioBien, ColaCrece
<1>6. ~p0.respaldo => IF s = "nube" THEN p0.local.fase = "no" ELSE p0.nube.fase = "no"
    BY <1>1, <1>3 DEF ConsultaBien
<1>7. /\ ServicioBien(n, p.alerta, p.nube)' /\ ServicioBien(n, p.alerta, p.local)'
      /\ LocalBien(p.alerta, p.local)'
    BY <1>1, <1>2, <1>4, <1>5 DEF ConsultaBien
<1>8. ~p.respaldo => /\ p.nube.fase = "no" \/ p.local.fase = "no"
                     /\ Completa(n, p.nube)' /\ Completa(n, p.local)'
    BY <1>2, <1>6 DEF Completa
<1>9. /\ p.fase = "nube" => ~p.respaldo /\ p.local.fase = "no" /\ p.nube.fase # "no"
      /\ p.fase = "local" => p.local.fase # "no"
      /\ p.fase = "hecha" => IF p.local.fase # "no" THEN Listo(p.local) ELSE Listo(p.nube)
    BY <1>1, <1>2, <1>3 DEF ConsultaBien, Listo
<1>10. ConsultaBien(n, p)'
    BY <1>7, <1>8, <1>9 DEF ConsultaBien, Listo
<1> QED
    BY <1>10 DEF p

(* What the models may ask for, with an alert or without.                    *)
LEMMA LlamadaTipo ==
    /\ Escritura \in Llamadas /\ Lectura \in Llamadas
    /\ Escritura.tool = "agregar_inventario" /\ Lectura.tool = "consultar_inventario"
    /\ \A i \in Nat, b \in BOOLEAN : /\ Confirma(i, b) \in Llamadas
                                     /\ Confirma(i, b).tool = "confirmar_movimiento"
                                     /\ Confirma(i, b).target = i
BY DEF Escritura, Lectura, Confirma, Llamadas, Movs

LEMMA UnaLlamada ==
    ASSUME NEW x \in Llamadas, NEW y \in Llamadas
    PROVE  /\ <<>> \in Seq(Llamadas) /\ DOMAIN <<>> = {}
           /\ <<x>> \in Seq(Llamadas) /\ DOMAIN <<x>> = {1} /\ <<x>>[1] = x
           /\ <<x, y>> \in Seq(Llamadas) /\ DOMAIN <<x, y>> = {1, 2}
           /\ <<x, y>>[1] = x /\ <<x, y>>[2] = y
OBVIOUS

LEMMA LlamadasNubeBien ==
    ASSUME TablasBien, NEW t, NEW a \in Nat, NEW ll \in LlamadasNube(t, a)
    PROVE  /\ ll \in Seq(Llamadas)
           /\ a # 0 => \A j \in DOMAIN ll :
                          ll[j].tool = "confirmar_movimiento" => ll[j].target = a
<1>1. 0..Len(cola) \subseteq Nat
    BY DEF TablasBien
<1>2. IdsNube(a) \subseteq Nat /\ (a # 0 => IdsNube(a) = {a})
    BY <1>1 DEF IdsNube, Ids
<1>3. \/ ll = <<>> \/ ll = <<Escritura>> \/ ll = <<Lectura, Escritura>>
      \/ ll = <<Escritura, Escritura>>
      \/ \E i \in Nat, b \in BOOLEAN : ll = <<Confirma(i, b)>> /\ (a # 0 => i = a)
    BY <1>2 DEF LlamadasNube
<1>4. CASE \E i \in Nat, b \in BOOLEAN : ll = <<Confirma(i, b)>> /\ (a # 0 => i = a)
  <2>1. PICK i \in Nat, b \in BOOLEAN : ll = <<Confirma(i, b)>> /\ (a # 0 => i = a)
    BY <1>4
  <2>2. PICK x \in Llamadas : x = Confirma(i, b) /\ x.tool = "confirmar_movimiento" /\ x.target = i
    BY LlamadaTipo
  <2> QED
    BY <2>1, <2>2, UnaLlamada
<1>5. CASE ll = <<>> \/ ll = <<Escritura>> \/ ll = <<Lectura, Escritura>> \/ ll = <<Escritura, Escritura>>
  <2>1. PICK x \in Llamadas, y \in Llamadas :
           x = Escritura /\ y = Lectura /\ x.tool # "confirmar_movimiento" /\ y.tool # "confirmar_movimiento"
    BY LlamadaTipo
  <2>2. CASE ll = <<>> \/ ll = <<x>>
    <3>1. CASE ll = <<>>
      <4>1. <<>> \in Seq(Llamadas) /\ DOMAIN <<>> = {}
        OBVIOUS
      <4> QED
        BY <3>1, <4>1
    <3>2. CASE ll = <<x>>
      BY <2>1, <3>2, UnaLlamada
    <3> QED
      BY <2>2, <3>1, <3>2
  <2>3. ASSUME NEW z \in Llamadas, z.tool # "confirmar_movimiento", ll = <<z, x>>
        PROVE  /\ ll \in Seq(Llamadas)
               /\ \A j \in DOMAIN ll : ll[j].tool # "confirmar_movimiento"
    BY <2>1, <2>3, UnaLlamada
  <2> QED
    BY <1>5, <2>1, <2>2, <2>3
<1> QED
    BY <1>3, <1>4, <1>5

(* What passes the filter of needle, whatever its model answered.            *)
LEMMA FiltroDeAlerta ==
    ASSUME NEW a, NEW ll \in LocalConAlerta(a)
    PROVE  ll = <<>> \/ \E b \in BOOLEAN : ll = <<Confirma(a, b)>>
<1>1. PICK r \in RespuestasModelo : ll \in SoloConfirma(a, r)
    BY DEF LocalConAlerta
<1>2. \A x \in Invenciones : x.conf \in BOOLEAN
  <2>1. Escritura.conf \in BOOLEAN /\ Lectura.conf \in BOOLEAN
    BY DEF Escritura, Lectura
  <2>2. ASSUME NEW i, NEW b \in BOOLEAN PROVE Confirma(i, b).conf \in BOOLEAN
    BY DEF Confirma
  <2> QED
    BY <2>1, <2>2 DEF Invenciones
<1>3. \A i \in DOMAIN r : r[i] \in Invenciones
    BY DEF RespuestasModelo
<1>4. \A i \in Primeras(r) : r[i].conf \in BOOLEAN
    BY <1>2, <1>3 DEF Primeras
<1> QED
    BY <1>1, <1>4 DEF SoloConfirma

LEMMA LlamadasLocalBien ==
    ASSUME NEW t, NEW a \in Nat, NEW ll \in LlamadasLocal(t, a)
    PROVE  /\ ll \in Seq(Llamadas)
           /\ a # 0 => \A j \in DOMAIN ll :
                          ll[j].tool = "confirmar_movimiento" /\ ll[j].target = a
<1>1. \/ ll = <<>>
      \/ a = 0 /\ (ll = <<Escritura>> \/ ll = <<Lectura>>)
      \/ \E b \in BOOLEAN : ll = <<Confirma(a, b)>>
    BY FiltroDeAlerta DEF LlamadasLocal
<1>2. CASE \E b \in BOOLEAN : ll = <<Confirma(a, b)>>
  <2>1. PICK b \in BOOLEAN : ll = <<Confirma(a, b)>>
    BY <1>2
  <2>2. PICK x \in Llamadas : x = Confirma(a, b) /\ x.tool = "confirmar_movimiento" /\ x.target = a
    BY LlamadaTipo
  <2> QED
    BY <2>1, <2>2, UnaLlamada
<1>3. CASE ll = <<>> \/ (a = 0 /\ (ll = <<Escritura>> \/ ll = <<Lectura>>))
  <2>1. PICK x \in Llamadas, y \in Llamadas : x = Escritura /\ y = Lectura
    BY LlamadaTipo
  <2> QED
    BY <1>3, <2>1, UnaLlamada
<1> QED
    BY <1>1, <1>2, <1>3

LEMMA ColaQuieta ==
    ASSUME IInv, UNCHANGED cola
    PROVE  /\ ColaCrece /\ cola' \in Seq(Filas) /\ DOMAIN cola \subseteq DOMAIN cola'
           /\ \A i \in DOMAIN cola : cola'[i] = cola[i]
           /\ DOMAIN cola' \ DOMAIN cola = {}
BY DEF IInv, TablasBien, ColaCrece

(* A service that goes on without touching the queue.                        *)
LEMMA PasoDeServicio ==
    ASSUME IInv, NEW n \in DOMAIN pet, NEW s \in {"nube", "local"}, NEW r \in Servicios,
           Svc(n, s, r), UNCHANGED <<cli, cola>>,
           \/ pet[n][s].fase = "infiere"
           \/ pet[n][s].fase = "encola" /\ pet[n][s].faltan # <<>>,
           r.fase \in {"encola", "error"}, ServicioBien(n, pet[n].alerta, r),
           s = "local" => LocalBien(pet[n].alerta, r),
           ~pet[n].respaldo => Completa(n, r)
    PROVE  IInv'
<1>1. PICK p0 : p0 = pet[n]
    OBVIOUS
<1>2. PICK p : p = Con(p0, s, r)
    OBVIOUS
<1>3. /\ p \in Consultas /\ p.cli = pet[n].cli /\ p.alerta = pet[n].alerta
      /\ pet' = [pet EXCEPT ![n] = p]
    BY <1>1, <1>2, SvcCambia
<1>4. /\ ColaCrece /\ cola' \in Seq(Filas) /\ DOMAIN cola \subseteq DOMAIN cola'
      /\ \A i \in DOMAIN cola : cola'[i] = cola[i]
      /\ DOMAIN cola' \ DOMAIN cola = {}
    BY ColaQuieta
<1>5. /\ ServicioBien(n, p0.alerta, r)' /\ (s = "local" => LocalBien(p0.alerta, r)')
      /\ ~p0.respaldo => Completa(n, r)'
    BY <1>1 DEF ServicioBien, LocalBien, Completa
<1>6. ConsultaBien(n, p)'
    BY <1>1, <1>2, <1>4, <1>5, ServicioEnConsulta
<1> QED
    BY <1>3, <1>4, <1>6, PasoDeConsulta

LEMMA ServicioDe ==
    ASSUME IInv, NEW n \in DOMAIN pet, NEW s \in {"nube", "local"}
    PROVE  /\ pet[n] \in Consultas /\ ConsultaBien(n, pet[n]) /\ pet[n].alerta \in Nat
           /\ pet[n][s] \in Servicios /\ ServicioBien(n, pet[n].alerta, pet[n][s])
           /\ s = "local" => LocalBien(pet[n].alerta, pet[n][s])
           /\ ~pet[n].respaldo => Completa(n, pet[n][s])
<1>1. pet[n] \in Consultas /\ ConsultaBien(n, pet[n])
    BY DEF IInv, TablasBien
<1>2. pet[n][s] = IF s = "nube" THEN pet[n].nube ELSE pet[n].local
    OBVIOUS
<1>3. pet[n].alerta \in Nat /\ pet[n].nube \in Servicios /\ pet[n].local \in Servicios
    BY <1>1 DEF Consultas
<1> QED
    BY <1>1, <1>2, <1>3 DEF ConsultaBien

LEMMA InferirPreserva ==
    ASSUME IInv, NEW n \in DOMAIN pet, NEW s \in {"nube", "local"}, Inferir(n, s)
    PROVE  IInv'
<1>1. /\ pet[n].alerta \in Nat /\ pet[n][s].fase = "infiere"
      /\ ServicioBien(n, pet[n].alerta, pet[n][s])
      /\ ~pet[n].respaldo => Completa(n, pet[n][s])
    BY ServicioDe DEF Inferir
<1>2. ~pet[n].respaldo => \A i \in DOMAIN cola : cola[i].n # n
    BY <1>1 DEF ServicioBien, Completa
<1>3. CASE Svc(n, s, [Servicio EXCEPT !.fase = "error"])
  <2> DEFINE r == [Servicio EXCEPT !.fase = "error"]
  <2>1. r \in Servicios /\ r.fase = "error" /\ r.pend = {} /\ r.faltan = <<>>
    <3>1. Servicio \in Servicios /\ Servicio.faltan = <<>> /\ Servicio.pend = {}
      BY DEF Servicio, Servicios
    <3> QED
      BY <3>1 DEF Servicios
  <2> HIDE DEF r
  <2>2. /\ ServicioBien(n, pet[n].alerta, r) /\ LocalBien(pet[n].alerta, r) /\ Completa(n, r)
    BY <2>1 DEF ServicioBien, LocalBien, Completa
  <2> QED
    BY <1>1, <1>3, <2>1, <2>2, PasoDeServicio DEF Inferir, r
<1>4. ASSUME NEW ll, ll \in IF s = "nube" THEN LlamadasNube(pet[n].texto, pet[n].alerta)
                                          ELSE LlamadasLocal(pet[n].texto, pet[n].alerta),
             Svc(n, s, [fase |-> "encola", faltan |-> ll, pend |-> {}])
      PROVE  IInv'
  <2> DEFINE r == [fase |-> "encola", faltan |-> ll, pend |-> {}]
  <2>1. /\ ll \in Seq(Llamadas)
        /\ pet[n].alerta # 0 =>
              \A j \in DOMAIN ll : /\ ll[j].tool = "confirmar_movimiento" => ll[j].target = pet[n].alerta
                                   /\ s = "local" => ll[j].tool = "confirmar_movimiento"
    <3>1. CASE s = "nube"
      BY <1>1, <1>4, <3>1, LlamadasNubeBien DEF IInv
    <3>2. CASE s = "local"
      BY <1>1, <1>4, <3>2, LlamadasLocalBien
    <3> QED
      BY <3>1, <3>2
  <2>2. r \in Servicios /\ r.fase = "encola" /\ r.pend = {} /\ r.faltan = ll
    BY <2>1 DEF Servicios
  <2> HIDE DEF r
  <2>3. /\ ServicioBien(n, pet[n].alerta, r) /\ (s = "local" => LocalBien(pet[n].alerta, r))
        /\ ~pet[n].respaldo => Completa(n, r)
    BY <1>2, <2>1, <2>2 DEF ServicioBien, LocalBien, Completa
  <2> QED
    BY <1>1, <1>4, <2>2, <2>3, PasoDeServicio DEF Inferir, r
<1> QED
    BY <1>3, <1>4 DEF Inferir

(* One turn of the enqueue loop.                                             *)
LEMMA EncolarUnaPreserva ==
    ASSUME IInv, NEW n \in DOMAIN pet, NEW s \in {"nube", "local"}, EncolarUna(n, s)
    PROVE  IInv'
<1>1. PICK p0 : p0 = pet[n]
    OBVIOUS
<1>2. PICK q : q = p0[s]
    OBVIOUS
<1>3. PICK a : a = p0.alerta
    OBVIOUS
<1>4. /\ a \in Nat /\ q.fase = "encola" /\ q.faltan # <<>> /\ q \in Servicios
      /\ ServicioBien(n, a, q) /\ (s = "local" => LocalBien(a, q))
      /\ ~p0.respaldo => Completa(n, q)
    BY <1>1, <1>2, <1>3, ServicioDe DEF EncolarUna
<1>5. PICK ll : ll = Head(q.faltan)
    OBVIOUS
<1>6. PICK cdr : cdr = Tail(q.faltan)
    OBVIOUS
<1>7. q.faltan \in Seq(Llamadas) /\ q.pend \subseteq Nat
    BY <1>4 DEF Servicios
<1>8. /\ ll \in Llamadas /\ cdr \in Seq(Llamadas)
      /\ 1 \in DOMAIN q.faltan /\ q.faltan[1] = ll
      /\ \A j \in DOMAIN cdr : j + 1 \in DOMAIN q.faltan /\ cdr[j] = q.faltan[j + 1]
    BY <1>4, <1>5, <1>6, <1>7
<1>9. cola \in Seq(Filas) /\ Len(cola) \in Nat /\ DOMAIN cola = 1..Len(cola)
    BY DEF IInv, TablasBien
<1>10. ASSUME NEW P \in SUBSET Nat,
              NEW r, r = [q EXCEPT !.faltan = cdr, !.pend = P]
       PROVE  r \in Servicios /\ r.fase = "encola" /\ r.pend = P /\ r.faltan = cdr
    BY <1>4, <1>8, <1>10 DEF Servicios
<1>11. ASSUME NEW r, r = [q EXCEPT !.fase = "error"]
       PROVE  r \in Servicios /\ r.fase = "error" /\ r.pend = q.pend /\ r.faltan = q.faltan
    BY <1>4, <1>11 DEF Servicios
<1>12. ASSUME NEW r, r = [q EXCEPT !.fase = "error"] PROVE ServicioBien(n, a, r) /\ Completa(n, r)
              /\ (s = "local" => LocalBien(a, r))
    BY <1>4, <1>11, <1>12 DEF ServicioBien, Completa, LocalBien
<1> DEFINE SinFila == {[q EXCEPT !.faltan = cdr, !.pend = q.pend],
                       [q EXCEPT !.faltan = cdr, !.pend = q.pend \cup {0}],
                       [q EXCEPT !.fase = "error"]}
           ConFila == {[q EXCEPT !.faltan = cdr, !.pend = q.pend \cup {Len(cola) + 1}],
                       [q EXCEPT !.fase = "error"]}
<1>a. /\ UNCHANGED cli
      /\ \/ /\ Encolable(ll) /\ cola' = EnCola(n, ll)
            /\ \E r : Svc(n, s, r) /\ r \in ConFila
         \/ /\ UNCHANGED cola
            /\ \E r : Svc(n, s, r) /\ r \in SinFila
  <2>1. [q EXCEPT !.faltan = Tail(@)] = [q EXCEPT !.faltan = cdr, !.pend = q.pend]
    BY <1>4, <1>6 DEF Servicios
  <2> QED
    BY <2>1, <1>1, <1>2, <1>5, <1>6 DEF EncolarUna, TrasExcepcion
<1>13. CASE UNCHANGED cola /\ \E r : Svc(n, s, r) /\ r \in SinFila
  <2>1. PICK r : Svc(n, s, r) /\ r \in SinFila
    BY <1>13
  <2>2. CASE r = [q EXCEPT !.fase = "error"]
    BY <1>1, <1>2, <1>3, <1>4, <1>11, <1>12, <1>13, <2>1, <2>2, PasoDeServicio DEF EncolarUna
  <2>3. CASE r # [q EXCEPT !.fase = "error"]
    <3>1. /\ r \in Servicios /\ r.fase = "encola" /\ r.pend \in {q.pend, q.pend \cup {0}}
          /\ r.faltan = cdr
      <4>1. q.pend \in SUBSET Nat /\ q.pend \cup {0} \in SUBSET Nat
        BY <1>7
      <4>2. CASE r = [q EXCEPT !.faltan = cdr, !.pend = q.pend]
        BY <1>10, <4>1, <4>2
      <4>3. CASE r = [q EXCEPT !.faltan = cdr, !.pend = q.pend \cup {0}]
        BY <1>10, <4>1, <4>3
      <4> QED
        BY <2>1, <2>3, <4>2, <4>3
    <3>2. /\ ServicioBien(n, a, r) /\ (s = "local" => LocalBien(a, r))
          /\ ~p0.respaldo => Completa(n, r)
      BY <1>4, <1>8, <3>1 DEF ServicioBien, LocalBien, Completa
    <3> QED
      BY <1>1, <1>2, <1>3, <1>4, <1>13, <2>1, <3>1, <3>2, PasoDeServicio DEF EncolarUna
  <2> QED
    BY <2>2, <2>3
<1>14. CASE /\ cola' = EnCola(n, ll) /\ Encolable(ll)
            /\ \E r : Svc(n, s, r) /\ r \in ConFila
  <2>1. PICK r : Svc(n, s, r) /\ r \in ConFila
    BY <1>14
  <2>2. PICK f : f = [tool |-> ll.tool, target |-> ll.target, conf |-> ll.conf,
                      n |-> n, status |-> "PENDING"]
    OBVIOUS
  <2>3. /\ f \in Filas /\ f.n = n /\ f.tool = ll.tool /\ f.target = ll.target
        /\ f.status = "PENDING"
    <3>1. n \in Nat
      BY DEF IInv, TablasBien
    <3>2. ll.tool \in Movs /\ ll.target \in Nat /\ ll.conf \in BOOLEAN
      BY <1>8, <1>14 DEF Llamadas, Encolable, Movs
    <3> QED
      BY <2>2, <3>1, <3>2 DEF Filas, Estados
  <2>4. /\ cola' \in Seq(Filas) /\ DOMAIN cola' = 1..(Len(cola) + 1)
        /\ \A i \in DOMAIN cola : cola'[i] = cola[i]
        /\ cola'[Len(cola) + 1] = f
    BY <1>9, <1>14, <2>2, <2>3 DEF EnCola
  <2>5. /\ DOMAIN cola \subseteq DOMAIN cola' /\ DOMAIN cola' \ DOMAIN cola = {Len(cola) + 1}
        /\ Len(cola) + 1 # 0
    BY <1>9, <2>4
  <2>6. ColaCrece
    BY <2>4, <2>5 DEF ColaCrece
  <2>7. FilaBien(f)
    BY <1>1, <1>3, <1>4, <1>8, <2>3 DEF FilaBien, ServicioBien
  <2>8. /\ r \in Servicios /\ r.fase \in {"encola", "error"}
        /\ ServicioBien(n, a, r)' /\ (s = "local" => LocalBien(a, r)')
        /\ ~p0.respaldo => Completa(n, r)'
    <3>1. CASE r = [q EXCEPT !.fase = "error"]
      <4>1. /\ r \in Servicios /\ r.fase = "error" /\ ServicioBien(n, a, r)
            /\ (s = "local" => LocalBien(a, r))
        BY <1>11, <1>12, <3>1
      <4> QED
        BY <4>1, <2>4, <2>5 DEF ServicioBien, LocalBien, Completa
    <3>2. CASE r = [q EXCEPT !.faltan = cdr, !.pend = q.pend \cup {Len(cola) + 1}]
      <4>1. q.pend \cup {Len(cola) + 1} \in SUBSET Nat
        BY <1>7, <1>9
      <4>2. /\ r \in Servicios /\ r.fase = "encola" /\ r.faltan = cdr
            /\ r.pend = q.pend \cup {Len(cola) + 1}
        BY <1>10, <3>2, <4>1
      <4>3. ServicioBien(n, a, r)'
        BY <1>4, <1>8, <2>3, <2>4, <2>5, <4>2 DEF ServicioBien
      <4>4. s = "local" => LocalBien(a, r)'
        BY <1>4, <1>8, <2>3, <2>4, <2>5, <4>2 DEF LocalBien, ServicioBien
      <4>5. ~p0.respaldo => Completa(n, r)'
        BY <1>4, <2>4, <2>5, <4>2 DEF Completa
      <4> QED
        BY <4>2, <4>3, <4>4, <4>5
    <3> QED
      BY <2>1, <3>1, <3>2
  <2>9. PICK p : p = Con(p0, s, r)
    OBVIOUS
  <2>10. /\ p \in Consultas /\ p.cli = pet[n].cli /\ p.alerta = pet[n].alerta
         /\ pet' = [pet EXCEPT ![n] = p]
    BY <1>1, <2>1, <2>8, <2>9, SvcCambia
  <2>11. ConsultaBien(n, p)'
    BY <1>1, <1>2, <1>3, <1>4, <2>6, <2>8, <2>9, ServicioEnConsulta
  <2> QED
    BY <2>3, <2>4, <2>5, <2>7, <2>10, <2>11, PasoDeConsulta DEF EncolarUna
<1> QED
    BY <1>a, <1>13, <1>14

-----------------------------------------------------------------------------
(* The gateway. *)

LEMMA GatewayPreserva ==
    ASSUME IInv, NEW n \in DOMAIN pet, Gateway(n)
    PROVE  IInv'
<1>1. PICK q : q = pet[n]
    OBVIOUS
<1>2. q \in Consultas /\ ConsultaBien(n, q)
    BY <1>1 DEF IInv, TablasBien
<1>3. q.nube \in Servicios /\ q.local \in Servicios
    BY <1>2 DEF Consultas
<1>4. UNCHANGED <<cli, cola>>
    BY DEF Gateway, ResponderNube, Respaldar, NubeCaida, ResponderLocal
<1>5. PICK p \in Consultas : /\ ConsultaBien(n, p) /\ p.cli = q.cli /\ p.alerta = q.alerta
                             /\ pet' = [pet EXCEPT ![n] = p]
  <2>1. CASE ResponderNube(n)
    <3>1. PICK p : p = [q EXCEPT !.fase = "hecha"]
      OBVIOUS
    <3>2. /\ p \in Consultas /\ p.cli = q.cli /\ p.alerta = q.alerta /\ p.fase = "hecha"
          /\ p.respaldo = q.respaldo /\ p.nube = q.nube /\ p.local = q.local
      BY <1>2, <3>1 DEF Consultas
    <3>3. ConsultaBien(n, p)
      BY <1>1, <1>2, <2>1, <3>2 DEF ConsultaBien, ResponderNube
    <3>4. pet' = [pet EXCEPT ![n] = p]
      BY <1>1, <2>1, <3>1 DEF ResponderNube
    <3> QED
      BY <3>2, <3>3, <3>4
  <2>2. CASE Respaldar(n)
    <3>1. PICK l : l = [q.local EXCEPT !.fase = "infiere"]
      OBVIOUS
    <3>2. PICK p : p = [q EXCEPT !.fase = "local", !.respaldo = TRUE, !.local = l]
      OBVIOUS
    <3>3. /\ l \in Servicios /\ l.fase = "infiere" /\ l.pend = q.local.pend
          /\ l.faltan = q.local.faltan
      BY <1>3, <3>1 DEF Servicios
    <3>4. /\ p \in Consultas /\ p.cli = q.cli /\ p.alerta = q.alerta /\ p.fase = "local"
          /\ p.respaldo = TRUE /\ p.nube = q.nube /\ p.local = l
      BY <1>2, <3>2, <3>3 DEF Consultas
    <3>5. q.local.fase = "no"
      BY <1>1, <1>2, <2>2 DEF Respaldar, ConsultaBien
    <3>6. ConsultaBien(n, p)
      BY <1>2, <3>3, <3>4, <3>5 DEF ConsultaBien, ServicioBien, LocalBien
    <3>7. pet' = [pet EXCEPT ![n] = p]
      BY <1>1, <2>2, <3>1, <3>2 DEF Respaldar
    <3> QED
      BY <3>4, <3>6, <3>7
  <2>3. CASE NubeCaida(n)
    <3>1. PICK l, u : l = [q.local EXCEPT !.fase = "infiere"] /\ u = [q.nube EXCEPT !.fase = "no"]
      OBVIOUS
    <3>2. PICK p : p = [q EXCEPT !.fase = "local", !.respaldo = TRUE, !.nube = u, !.local = l]
      OBVIOUS
    <3>3. /\ l \in Servicios /\ l.fase = "infiere" /\ l.pend = q.local.pend
          /\ l.faltan = q.local.faltan
          /\ u \in Servicios /\ u.fase = "no" /\ u.pend = q.nube.pend /\ u.faltan = q.nube.faltan
      BY <1>3, <3>1 DEF Servicios
    <3>4. /\ p \in Consultas /\ p.cli = q.cli /\ p.alerta = q.alerta /\ p.fase = "local"
          /\ p.respaldo = TRUE /\ p.nube = u /\ p.local = l
      BY <1>2, <3>2, <3>3 DEF Consultas
    <3>5. q.local.fase = "no" /\ q.nube.fase = "infiere"
      BY <1>1, <1>2, <2>3 DEF NubeCaida, ConsultaBien
    <3>6. ConsultaBien(n, p)
      BY <1>2, <3>3, <3>4, <3>5 DEF ConsultaBien, ServicioBien, LocalBien
    <3>7. pet' = [pet EXCEPT ![n] = p]
      BY <1>1, <2>3, <3>1, <3>2 DEF NubeCaida
    <3> QED
      BY <3>4, <3>6, <3>7
  <2>4. CASE ResponderLocal(n)
    <3>1. PICK f : /\ f \in {"hecha", "fallida"}
                   /\ f = "hecha" => Listo(q.local)
                   /\ pet' = [pet EXCEPT ![n].fase = f]
      BY <1>1, <2>4 DEF ResponderLocal
    <3>2. PICK p : p = [q EXCEPT !.fase = f]
      OBVIOUS
    <3>3. /\ p \in Consultas /\ p.cli = q.cli /\ p.alerta = q.alerta /\ p.fase = f
          /\ p.respaldo = q.respaldo /\ p.nube = q.nube /\ p.local = q.local
      BY <1>2, <3>1, <3>2 DEF Consultas
    <3>4. q.local.fase # "no"
      BY <1>1, <1>2, <2>4 DEF ResponderLocal, ConsultaBien
    <3>5. ConsultaBien(n, p)
      BY <1>2, <3>1, <3>3, <3>4 DEF ConsultaBien
    <3>6. pet' = [pet EXCEPT ![n] = p]
      BY <1>1, <3>1, <3>2
    <3> QED
      BY <3>3, <3>5, <3>6
  <2> QED
    BY <2>1, <2>2, <2>3, <2>4 DEF Gateway
<1>6. /\ ColaCrece /\ cola' \in Seq(Filas) /\ DOMAIN cola \subseteq DOMAIN cola'
      /\ \A i \in DOMAIN cola : cola'[i] = cola[i]
      /\ DOMAIN cola' \ DOMAIN cola = {}
    BY <1>4, ColaQuieta
<1>7. ConsultaBien(n, p)'
    BY <1>4, <1>5 DEF ConsultaBien, ServicioBien, LocalBien, Completa, Listo
<1> QED
    BY <1>1, <1>4, <1>5, <1>6, <1>7, PasoDeConsulta

-----------------------------------------------------------------------------
(* The CLI. *)

LEMMA CharlarPreserva ==
    ASSUME IInv, NEW c \in Clis, Charlar(c)
    PROVE  IInv'
<1>1. cli[c] \in Clientes /\ ClienteBien(c, cli[c])
    BY DEF IInv, TablasBien
<1>2. PICK r : r = [cli[c] EXCEPT !.fase = "lista"]
    OBVIOUS
<1>3. /\ r \in Clientes /\ r.n = cli[c].n /\ r.pend = cli[c].pend /\ r.alerta = cli[c].alerta
      /\ r.fase = "lista"
    BY <1>1, <1>2 DEF Clientes
<1>4. ClienteBien(c, r)
    BY <1>1, <1>3 DEF ClienteBien
<1>5. cli' = [cli EXCEPT ![c] = r] /\ UNCHANGED <<pet, cola>>
    BY <1>2 DEF Charlar
<1> QED
    BY <1>3, <1>4, <1>5, PasoDeCli

(* Where a CLI goes with what it has still to poll. *)
LEMMA SiguePreserva ==
    ASSUME IInv, NEW c \in Clis, NEW r \in Clientes, Sigue(c, r), UNCHANGED <<pet, cola>>,
           r.n = cli[c].n, \A i \in r.pend : DeSuCli(c, i),
           r.alerta # 0 => /\ DeSuCli(c, r.alerta)
                           /\ cola[r.alerta].tool = "agregar_inventario"
                           /\ cola[r.alerta].status \in {"SOSPECHOSA", "CONFIRMADA_MANUAL", "RECHAZADA"}
    PROVE  IInv'
<1>1. PICK l : l = [r EXCEPT !.fase = IF r.pend = {} THEN "lista" ELSE "sondea"]
    OBVIOUS
<1>2. /\ l \in Clientes /\ l.n = r.n /\ l.pend = r.pend /\ l.alerta = r.alerta
      /\ l.fase \in {"lista", "sondea"}
    BY <1>1 DEF Clientes
<1>3. r.n \in 0..Len(pet)
    BY DEF IInv, ClienteBien
<1>4. ClienteBien(c, l)
    BY <1>2, <1>3 DEF ClienteBien
<1>5. cli' = [cli EXCEPT ![c] = l]
    BY <1>1 DEF Sigue
<1> QED
    BY <1>2, <1>4, <1>5, PasoDeCli

LEMMA RecibirRespuestaPreserva ==
    ASSUME IInv, NEW c \in Clis, RecibirRespuesta(c)
    PROVE  IInv'
<1>1. cli[c] \in Clientes /\ ClienteBien(c, cli[c]) /\ UNCHANGED <<pet, cola>>
    BY DEF IInv, TablasBien, RecibirRespuesta
<1>2. PICK n : n = cli[c].n
    OBVIOUS
<1>3. n \in DOMAIN pet /\ pet[n].cli = c
    BY <1>1, <1>2 DEF RecibirRespuesta, ClienteBien
<1>4. CASE Sigue(c, cli[c])
    BY <1>1, <1>4, SiguePreserva DEF ClienteBien
<1>5. CASE Sigue(c, [cli[c] EXCEPT !.pend = Escrituras(Respuesta(n).pend) \cup Confirmas(Respuesta(n).pend)])
  <2>1. PICK ids : ids = Escrituras(Respuesta(n).pend) \cup Confirmas(Respuesta(n).pend)
    OBVIOUS
  <2>2. /\ pet[n].nube \in Servicios /\ pet[n].local \in Servicios
        /\ ServicioBien(n, pet[n].alerta, pet[n].nube) /\ ServicioBien(n, pet[n].alerta, pet[n].local)
    <3>1. pet[n] \in Consultas /\ ConsultaBien(n, pet[n])
      BY <1>3 DEF IInv, TablasBien
    <3> QED
      BY <3>1 DEF Consultas, ConsultaBien
  <2>3. ids \subseteq Respuesta(n).pend \ {0} /\ Respuesta(n).pend \subseteq Nat
    BY <2>1, <2>2 DEF Escrituras, Confirmas, Respuesta, Servicios
  <2>4. \A i \in ids : DeSuCli(c, i)
    BY <1>3, <2>2, <2>3 DEF Respuesta, ServicioBien, DeSuCli
  <2>5. PICK r : r = [cli[c] EXCEPT !.pend = ids]
    OBVIOUS
  <2>6. r \in Clientes /\ r.n = cli[c].n /\ r.pend = ids /\ r.alerta = cli[c].alerta
    BY <1>1, <2>3, <2>5 DEF Clientes
  <2> QED
    BY <1>1, <1>5, <2>1, <2>4, <2>5, <2>6, SiguePreserva DEF ClienteBien
<1> QED
    BY <1>2, <1>4, <1>5 DEF RecibirRespuesta

(* What is shown of a row, and the alert that it leaves. *)
LEMMA SondearPreserva ==
    ASSUME IInv, NEW c \in Clis, Sondear(c)
    PROVE  IInv'
<1>1. cli[c] \in Clientes /\ ClienteBien(c, cli[c]) /\ UNCHANGED <<pet, cola>>
    BY DEF IInv, TablasBien, Sondear
<1>0. PICK id \in cli[c].pend : \E st \in {cola[id].status, "TIMEOUT"} :
         Sigue(c, [cli[c] EXCEPT !.pend = cli[c].pend \ {id},
                                 !.alerta = AlertaTras(st, id, cli[c].alerta)])
    BY <1>1 DEF Sondear, Clientes
<1>2. PICK st \in {cola[id].status, "TIMEOUT"} :
         Sigue(c, [cli[c] EXCEPT !.pend = cli[c].pend \ {id},
                                 !.alerta = AlertaTras(st, id, cli[c].alerta)])
    BY <1>0
<1>3. PICK a : a = AlertaTras(st, id, cli[c].alerta)
    OBVIOUS
<1>4. id \in Nat /\ DeSuCli(c, id)
    BY <1>1, <1>2 DEF Clientes, ClienteBien
<1>5. cola[id] \in Filas /\ FilaBien(cola[id])
    BY <1>4 DEF DeSuCli, IInv, TablasBien
<1>6. /\ a \in Nat
      /\ a # 0 => \/ a = cli[c].alerta
                  \/ a = id /\ st = "SOSPECHOSA" /\ cola[id].status = "SOSPECHOSA"
    BY <1>1, <1>2, <1>3, <1>4 DEF AlertaTras, Clientes
<1>7. PICK r : r = [cli[c] EXCEPT !.pend = cli[c].pend \ {id}, !.alerta = a]
    OBVIOUS
<1>8. r \in Clientes /\ r.n = cli[c].n /\ r.pend = cli[c].pend \ {id} /\ r.alerta = a
    BY <1>1, <1>6, <1>7 DEF Clientes
<1>9. \A i \in r.pend : DeSuCli(c, i)
    BY <1>1, <1>8 DEF ClienteBien
<1>10. r.alerta # 0 => /\ DeSuCli(c, r.alerta)
                       /\ cola[r.alerta].tool = "agregar_inventario"
                       /\ cola[r.alerta].status \in {"SOSPECHOSA", "CONFIRMADA_MANUAL", "RECHAZADA"}
    BY <1>1, <1>4, <1>5, <1>6, <1>8 DEF ClienteBien, FilaBien
<1>11. Sigue(c, r)
    BY <1>2, <1>3, <1>7
<1> QED
    BY <1>1, <1>8, <1>9, <1>10, <1>11, SiguePreserva

(* A query that goes to an LLM, with the alert that the CLI remembers. *)
LEMMA PreguntarPreserva ==
    ASSUME IInv, NEW c \in Clis, NEW x \in Textos, Preguntar(c, x)
    PROVE  IInv'
<1>1. /\ cli[c] \in Clientes /\ ClienteBien(c, cli[c])
      /\ pet \in Seq(Consultas) /\ Len(pet) \in Nat /\ DOMAIN pet = 1..Len(pet)
      /\ cli \in [Clis -> Clientes] /\ UNCHANGED cola /\ cola \in Seq(Filas)
    BY DEF IInv, TablasBien, Preguntar
<1>2. CASE ~VaAlLlm(x, cli[c].alerta)
  <2>1. PICK r : r = [cli[c] EXCEPT !.fase = "charla"]
    OBVIOUS
  <2>2. /\ r \in Clientes /\ r.n = cli[c].n /\ r.pend = cli[c].pend /\ r.alerta = cli[c].alerta
        /\ r.fase = "charla"
    BY <1>1, <2>1 DEF Clientes
  <2>3. ClienteBien(c, r)
    BY <1>1, <2>2 DEF ClienteBien
  <2>4. cli' = [cli EXCEPT ![c] = r] /\ UNCHANGED <<pet, cola>>
    BY <1>2, <2>1 DEF Preguntar
  <2> QED
    BY <2>2, <2>3, <2>4, PasoDeCli
<1>3. CASE VaAlLlm(x, cli[c].alerta)
  <2>1. PICK pick \in {"nube", "local"} :
           pet' = Append(pet, [cli |-> c, texto |-> x, alerta |-> cli[c].alerta,
                        fase |-> pick, respaldo |-> FALSE,
                        nube |-> [Servicio EXCEPT !.fase = IF pick = "nube" THEN "infiere" ELSE "no"],
                        local |-> [Servicio EXCEPT !.fase = IF pick = "local" THEN "infiere" ELSE "no"]])
    BY <1>3 DEF Preguntar
  <2>2. PICK u, l : /\ u = [Servicio EXCEPT !.fase = IF pick = "nube" THEN "infiere" ELSE "no"]
                    /\ l = [Servicio EXCEPT !.fase = IF pick = "local" THEN "infiere" ELSE "no"]
    OBVIOUS
  <2>3. /\ u \in Servicios /\ u.faltan = <<>> /\ u.pend = {}
        /\ u.fase = (IF pick = "nube" THEN "infiere" ELSE "no")
        /\ l \in Servicios /\ l.faltan = <<>> /\ l.pend = {}
        /\ l.fase = (IF pick = "local" THEN "infiere" ELSE "no")
    <3>1. Servicio \in Servicios /\ Servicio.faltan = <<>> /\ Servicio.pend = {}
      BY DEF Servicio, Servicios
    <3> QED
      BY <2>2, <3>1 DEF Servicios
  <2>4. PICK p : p = [cli |-> c, texto |-> x, alerta |-> cli[c].alerta, fase |-> pick,
                      respaldo |-> FALSE, nube |-> u, local |-> l]
    OBVIOUS
  <2>5. /\ p \in Consultas /\ p.cli = c /\ p.fase = pick /\ p.respaldo = FALSE
        /\ p.nube = u /\ p.local = l /\ p.alerta = cli[c].alerta
    BY <1>1, <2>3, <2>4 DEF Consultas, Clientes
  <2>6. PICK m : m = Len(pet) + 1
    OBVIOUS
  <2>7. /\ pet' \in Seq(Consultas) /\ Len(pet') = m /\ DOMAIN pet' = 1..m /\ m \in Nat \ {0}
        /\ \A n \in DOMAIN pet : pet'[n] = pet[n]
        /\ pet'[m] = p /\ m \notin DOMAIN pet /\ DOMAIN pet' = DOMAIN pet \cup {m}
    BY <1>1, <2>1, <2>2, <2>4, <2>5, <2>6
  <2>8. PetCrece /\ ColaCrece
    BY <1>1, <2>6, <2>7 DEF PetCrece, ColaCrece
  <2>9. PICK r : r = [cli[c] EXCEPT !.fase = "espera", !.n = m]
    OBVIOUS
  <2>10. /\ r \in Clientes /\ r.fase = "espera" /\ r.n = m /\ r.pend = cli[c].pend
         /\ r.alerta = cli[c].alerta
    BY <1>1, <2>7, <2>9 DEF Clientes
  <2>11. cli' = [cli EXCEPT ![c] = r]
    BY <1>1, <1>3, <2>6, <2>9 DEF Preguntar
  <2>12. /\ cli' \in [Clis -> Clientes]
         /\ \A d \in Clis : cli'[d] = IF d = c THEN r ELSE cli[d]
    BY <1>1, <2>10, <2>11
  <2>13. TablasBien'
    BY <1>1, <2>7, <2>12 DEF TablasBien
  <2>14. ASSUME NEW n \in DOMAIN pet' PROVE ConsultaBien(n, pet[n])'
    <3>1. CASE n = m
      <4>1. \A i \in DOMAIN cola : cola[i].n # m
        BY <2>7 DEF IInv, FilaBien
      <4>2. DOMAIN <<>> = {}
        OBVIOUS
      <4>3. ServicioBien(m, p.alerta, u) /\ ServicioBien(m, p.alerta, l) /\ LocalBien(p.alerta, l)
        BY <2>3, <4>2 DEF ServicioBien, LocalBien
      <4>4. ConsultaBien(m, p)
        BY <2>3, <2>5, <4>1, <4>3 DEF ConsultaBien, Completa
      <4> QED
        BY <1>1, <2>7, <3>1, <4>4 DEF ConsultaBien, ServicioBien, LocalBien, Completa, Listo
    <3>2. CASE n # m
      <4>1. n \in DOMAIN pet /\ ConsultaBien(n, pet[n])
        BY <2>7, <3>2 DEF IInv
      <4> QED
        BY <1>1, <2>7, <4>1 DEF ConsultaBien, ServicioBien, LocalBien, Completa, Listo
    <3> QED
      BY <3>1, <3>2
  <2>15. \A i \in DOMAIN cola' : FilaBien(cola[i])'
    BY <1>1, <2>8 DEF IInv, FilaBien, PetCrece
  <2>16. ASSUME NEW d \in Clis PROVE ClienteBien(d, cli[d])'
    <3>1. CASE d # c
      <4>1. PICK q \in Clientes : q = cli[d]
        BY <1>1
      <4>2. ClienteBien(d, q)'
        BY <2>8, <4>1, ClienteEstable DEF IInv
      <4>3. cli'[d] = q
        BY <2>12, <3>1, <4>1
      <4> QED
        BY <4>2, <4>3 DEF ClienteBien, DeSuCli
    <3>2. CASE d = c
      <4>1. PICK q \in Clientes : q = cli[c]
        BY <1>1
      <4>2. ClienteBien(c, q)'
        BY <1>1, <2>8, <4>1, ClienteEstable
      <4>3. ClienteBien(c, r)'
        BY <2>5, <2>7, <2>10, <4>1, <4>2 DEF ClienteBien
      <4>4. cli'[d] = r
        BY <2>12, <3>2
      <4> QED
        BY <3>2, <4>3, <4>4 DEF ClienteBien, DeSuCli
    <3> QED
      BY <3>1, <3>2
  <2> QED
    BY <2>13, <2>14, <2>15, <2>16 DEF IInv
<1> QED
    BY <1>2, <1>3

-----------------------------------------------------------------------------
(* The worker. *)

(* A step that changes the status of some rows only. *)
LEMMA PasoDeCola ==
    ASSUME IInv, ColaCrece, UNCHANGED <<cli, pet>>,
           cola' \in Seq(Filas), DOMAIN cola' = DOMAIN cola,
           \A i \in DOMAIN cola : cola'[i].status = "SOSPECHOSA" => cola[i].tool = "agregar_inventario"
    PROVE  IInv'
<1>1. PetCrece
    BY DEF PetCrece, IInv, TablasBien
<1>2. TablasBien'
    BY DEF IInv, TablasBien
<1>3. ASSUME NEW n \in DOMAIN pet PROVE ConsultaBien(n, pet[n])'
  <2>1. PICK p \in Consultas : p = pet[n]
    BY DEF IInv, TablasBien
  <2>2. SinFilasDe(n)
    BY DEF SinFilasDe
  <2>3. ConsultaBien(n, p)'
    BY <2>1, <2>2, ConsultaEstable DEF IInv
  <2> QED
    BY <2>1, <2>3 DEF ConsultaBien, ServicioBien, LocalBien, Completa, Listo
<1>4. ASSUME NEW i \in DOMAIN cola PROVE FilaBien(cola[i])'
    BY DEF IInv, FilaBien, ColaCrece
<1>5. ASSUME NEW c \in Clis PROVE ClienteBien(c, cli[c])'
  <2>1. PICK r \in Clientes : r = cli[c]
    BY DEF IInv, TablasBien
  <2>2. ClienteBien(c, r)'
    BY <1>1, <2>1, ClienteEstable DEF IInv
  <2> QED
    BY <2>1, <2>2 DEF ClienteBien, DeSuCli
<1> QED
    BY <1>2, <1>3, <1>4, <1>5 DEF IInv

LEMMA EvaluarPreserva ==
    ASSUME IInv, NEW i \in DOMAIN cola, Evaluar(i)
    PROVE  IInv'
<1>1. cola \in Seq(Filas) /\ cola[i] \in Filas /\ FilaBien(cola[i])
    BY DEF IInv, TablasBien
<1>2. cola[i].status = "PENDING" /\ UNCHANGED <<cli, pet>>
    BY DEF Evaluar, Resuelve
<1>3. ASSUME NEW j \in DOMAIN cola, NEW st \in Estados, NEW f, f = [cola[j] EXCEPT !.status = st]
      PROVE  /\ f \in Filas /\ f.tool = cola[j].tool /\ f.target = cola[j].target
             /\ f.n = cola[j].n /\ f.status = st
  <2>1. cola[j] \in Filas
    BY <1>1
  <2> QED
    BY <1>3, <2>1 DEF Filas
<1>4. CASE \E st \in Estados : /\ Resuelve(i, st)
                               /\ st = "SOSPECHOSA" => cola[i].tool = "agregar_inventario"
  <2>1. PICK st \in Estados : /\ Resuelve(i, st)
                              /\ st = "SOSPECHOSA" => cola[i].tool = "agregar_inventario"
    BY <1>4
  <2>2. PICK f : f = [cola[i] EXCEPT !.status = st]
    OBVIOUS
  <2>3. /\ f \in Filas /\ f.tool = cola[i].tool /\ f.target = cola[i].target
        /\ f.n = cola[i].n /\ f.status = st
    BY <1>3, <2>2
  <2>4. cola' = [cola EXCEPT ![i] = f]
    BY <2>1, <2>2 DEF Resuelve
  <2>5. /\ cola' \in Seq(Filas) /\ DOMAIN cola' = DOMAIN cola
        /\ \A j \in DOMAIN cola : cola'[j] = IF j = i THEN f ELSE cola[j]
    BY <1>1, <2>3, <2>4
  <2>6. ColaCrece
    BY <1>2, <2>3, <2>5 DEF ColaCrece
  <2>7. \A j \in DOMAIN cola : cola'[j].status = "SOSPECHOSA" => cola[j].tool = "agregar_inventario"
    BY <2>1, <2>3, <2>5 DEF IInv, FilaBien
  <2> QED
    BY <1>2, <2>5, <2>6, <2>7, PasoDeCola
<1>5. CASE \E t \in DOMAIN cola, st \in {"CONFIRMADA_MANUAL", "RECHAZADA"} :
              /\ cola[t].status = "SOSPECHOSA"
              /\ cola' = [cola EXCEPT ![i].status = st, ![t].status = st]
  <2>1. PICK t \in DOMAIN cola, st \in {"CONFIRMADA_MANUAL", "RECHAZADA"} :
              /\ cola[t].status = "SOSPECHOSA"
              /\ cola' = [cola EXCEPT ![i].status = st, ![t].status = st]
    BY <1>5
  <2>2. PICK f : f = [cola[i] EXCEPT !.status = st]
    OBVIOUS
  <2>3. PICK g : g = [cola[t] EXCEPT !.status = st]
    OBVIOUS
  <2>4. st \in Estados /\ t # i
    BY <1>2, <2>1 DEF Estados
  <2>5. /\ f \in Filas /\ f.tool = cola[i].tool /\ f.target = cola[i].target
        /\ f.n = cola[i].n /\ f.status = st
    BY <1>3, <2>2, <2>4
  <2>6. /\ g \in Filas /\ g.tool = cola[t].tool /\ g.target = cola[t].target
        /\ g.n = cola[t].n /\ g.status = st
    BY <1>3, <2>3, <2>4
  <2>7. cola' = [cola EXCEPT ![i] = f, ![t] = g]
    BY <1>1, <2>1, <2>2, <2>3, <2>4
  <2>8. /\ cola' \in Seq(Filas) /\ DOMAIN cola' = DOMAIN cola
        /\ \A j \in DOMAIN cola : cola'[j] = IF j = t THEN g ELSE IF j = i THEN f ELSE cola[j]
    BY <1>1, <2>4, <2>5, <2>6, <2>7
  <2>9. ColaCrece
    BY <1>2, <2>1, <2>5, <2>6, <2>8 DEF ColaCrece
  <2>10. \A j \in DOMAIN cola : cola'[j].status = "SOSPECHOSA" => cola[j].tool = "agregar_inventario"
    BY <2>1, <2>5, <2>6, <2>8 DEF IInv, FilaBien
  <2> QED
    BY <1>2, <2>8, <2>9, <2>10, PasoDeCola
<1> QED
    BY <1>4, <1>5 DEF Evaluar, Estados

-----------------------------------------------------------------------------
(* The theorems. *)

LEMMA InitIInv == Init => IInv
<1> SUFFICES ASSUME Init PROVE IInv
    OBVIOUS
<1>1. pet = <<>> /\ cola = <<>> /\ DOMAIN pet = {} /\ DOMAIN cola = {} /\ Len(pet) = 0
    BY DEF Init
<1>2. cli \in [Clis -> Clientes]
    BY DEF Init, Clientes
<1>3. TablasBien
    BY <1>1, <1>2 DEF TablasBien
<1>4. \A c \in Clis : ClienteBien(c, cli[c])
  <2>1. TAKE c \in Clis
  <2>2. PICK r : r = cli[c] /\ r.n = 0 /\ r.fase = "lista" /\ r.pend = {} /\ r.alerta = 0
    BY DEF Init
  <2> QED
    BY <1>1, <2>2 DEF ClienteBien
<1> QED
    BY <1>1, <1>3, <1>4 DEF IInv

LEMMA NextIInv ==
    ASSUME IInv, [Next]_vars
    PROVE  IInv'
<1>1. CASE UNCHANGED vars
    BY <1>1 DEF vars, IInv, TablasBien, ConsultaBien, ServicioBien, LocalBien, Completa, Listo,
                FilaBien, ClienteBien, DeSuCli
<1>2. ASSUME NEW c \in Clis, Cliente(c) PROVE IInv'
    BY <1>2, CharlarPreserva, RecibirRespuestaPreserva, SondearPreserva DEF Cliente
<1>3. ASSUME NEW c \in Clis, NEW x \in Textos, Preguntar(c, x) PROVE IInv'
    BY <1>3, PreguntarPreserva
<1>4. ASSUME NEW n \in Peticiones, Gateway(n) PROVE IInv'
    BY <1>4, GatewayPreserva DEF Peticiones
<1>5. ASSUME NEW n \in Peticiones, LLM(n) PROVE IInv'
    BY <1>5, InferirPreserva, EncolarUnaPreserva DEF Peticiones, LLM
<1>6. ASSUME NEW i \in DOMAIN cola, Evaluar(i) PROVE IInv'
    BY <1>6, EvaluarPreserva
<1> QED
    BY <1>1, <1>2, <1>3, <1>4, <1>5, <1>6 DEF Next

(* In every behaviour, whatever fails, the services, the queue and the CLIs  *)
(* know of each query what the invariant says (src/cli.py handle_query,      *)
(* api-gateway _post_with_fallback, the enqueue loops, the worker).          *)
THEOREM ConsultaInvariante == Spec => []IInv
BY InitIInv, NextIInv, PTL DEF Spec

(* Types; a CLI polls only ids that exist (poll_until_resolved).             *)
THEOREM PollSoloDeFilas == Spec => []TypeOK
<1>1. ASSUME IInv PROVE TypeOK
  <2>1. ASSUME NEW c \in Clis
        PROVE  /\ cli[c].fase \in {"lista", "charla", "espera", "sondea"}
               /\ cli[c].n \in 0..Len(pet) /\ cli[c].alerta \in 0..Len(cola)
               /\ cli[c].pend \subseteq DOMAIN cola
    <3>1. cli[c] \in Clientes /\ ClienteBien(c, cli[c]) /\ cola \in Seq(Filas)
      BY <1>1 DEF IInv, TablasBien
    <3>2. cli[c].alerta \in Nat /\ (cli[c].alerta # 0 => cli[c].alerta \in 1..Len(cola))
      BY <3>1 DEF Clientes, ClienteBien, DeSuCli
    <3>3. Len(cola) \in Nat
      BY <3>1
    <3> QED
      BY <3>1, <3>2, <3>3 DEF Clientes, ClienteBien, DeSuCli
  <2>2. ASSUME NEW n \in Peticiones
        PROVE  /\ pet[n].fase \in {"nube", "local", "hecha", "fallida"}
               /\ \A s \in {"nube", "local"} :
                     pet[n][s].fase \in {"no", "infiere", "encola", "error"}
    <3>1. pet[n] \in Consultas
      BY <1>1 DEF IInv, TablasBien, Peticiones
    <3>2. \A s \in {"nube", "local"} : pet[n][s] \in Servicios
      BY <1>1, ServicioDe DEF Peticiones
    <3> QED
      BY <3>1, <3>2 DEF Consultas, Servicios
  <2>3. ASSUME NEW i \in DOMAIN cola PROVE cola[i].status \in Estados
    <3>1. cola[i] \in Filas
      BY <1>1, <2>3 DEF IInv, TablasBien
    <3> QED
      BY <3>1 DEF Filas
  <2> QED
    BY <2>1, <2>2, <2>3 DEF TypeOK, Estados
<1> QED
    BY <1>1, ConsultaInvariante, PTL

(* The id of the alert overwrites the one a model gave, in both services.    *)
THEOREM SiempreConfirmaLoMostrado == Spec => []ConfirmaLoMostrado
<1>1. ASSUME IInv PROVE ConfirmaLoMostrado
    BY <1>1 DEF IInv, FilaBien, ConfirmaLoMostrado
<1> QED
    BY <1>1, ConsultaInvariante, PTL

(* Without the fallback of _post_with_fallback, the answer lists every row.  *)
THEOREM RespuestaSiempreCompleta == Spec => []RespuestaCompleta
<1>1. ASSUME IInv PROVE RespuestaCompleta
    BY <1>1 DEF IInv, ConsultaBien, Completa, Listo, RespuestaCompleta, Respuesta, Peticiones
<1> QED
    BY <1>1, ConsultaInvariante, PTL

(* last_sospechoso of src/cli.py names a movement of its own that the filter *)
(* held.                                                                     *)
THEOREM AlertaSiempreFueSospechosa == Spec => []AlertaFueSospechosa
<1>1. ASSUME IInv PROVE AlertaFueSospechosa
    BY <1>1 DEF IInv, ClienteBien, DeSuCli, AlertaFueSospechosa
<1> QED
    BY <1>1, ConsultaInvariante, PTL

(* Whatever the model of needle answers when there is an alert, what passes  *)
(* _confirmacion_fast_path (FiltroDeAlerta) and reaches the queue, through   *)
(* any fallback and failure, are confirmations.                              *)
THEOREM NuncaEscriturasFantasma == Spec => []SinEscriturasFantasma
<1>1. ASSUME IInv PROVE SinEscriturasFantasma
    BY <1>1 DEF IInv, ConsultaBien, LocalBien, SinEscriturasFantasma, Peticiones
<1> QED
    BY <1>1, ConsultaInvariante, PTL
=============================================================================
