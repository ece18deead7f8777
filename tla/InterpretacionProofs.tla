------------------------- MODULE InterpretacionProofs -------------------------
(***************************************************************************)
(* Theorems about Interpretacion, for any sentences, products, places and  *)
(* stock, and whatever the models answer.  The inductive invariant follows *)
(* one request: what may be handed to the enqueueing functions (Llamada),  *)
(* what it must still say of the sentence (Dicho, Contra), and what the    *)
(* rows it left say (FilasBien).                                           *)
(***************************************************************************)
EXTENDS Interpretacion, TLAPS

-----------------------------------------------------------------------------
(* Types. *)

Herramientas == Lecturas \cup Escrituras
Unidades == {"Kilogram", "Liter", "Unidad", "g", "gr", "ml", ""}
            \cup {Productos[x].unidad : x \in DOMAIN Productos}
ArgsTipo == [tool: Herramientas \cup {"ninguna"}, prod: DOMAIN Productos \cup {""},
             cant: Nat \cup {Nada}, uni: Unidades]
Peticiones == [fase: {"libre", "voz", "servicio", "modelo", "L1", "L2", "L3", "encolar", "fin"},
               via: {"query", "voz"}, svc: {"nube", "local"}, bodega: Bodegas \cup {0},
               sesion: BOOLEAN, frase: Frases, args: ArgsTipo,
               origen: {"", "regla", "modelo", "voz"}]
Pipelines == [ronda: {"primera", "otraL2", "otraL1"}, l1: {"", "leer_inventario", "modificar_inventario"},
              l2: Herramientas \cup {""}, primero: ArgsTipo]
Filas == [tool: Escrituras, prod: DOMAIN Productos, bodega: Bodegas, delta: Nat, cant: Nat]

-----------------------------------------------------------------------------
(* The inductive invariant. *)

(* A call that may be enqueued for the place b. *)
Llamada(a, b) ==
    /\ a.tool \in Herramientas
    /\ a.tool \in Escrituras => a.cant \in Nat
    /\ a.prod \in Catalogo(b) \cup {""}

(* The quantity of the call a, once converted, is the one that f says.       *)
Dicho(a, f) ==
    f.uni # "" /\ f.num > 0 =>
        /\ a.prod \in DOMAIN Productos
        /\ Convertir(a.cant, a.uni, Productos[a.prod].unidad)
              = Convertir(f.num, f.uni, Productos[a.prod].unidad)

(* Contradice, of any sentence. *)
Contra(f, b, t) ==
    /\ ExtraeProducto(f, Catalogo(b)) # ""
    /\ t \in IF TieneNumero(f) THEN Lecturas ELSE Escrituras

FilasBien(r, c, g) ==
    /\ r.fase # "fin" => c = <<>>
    /\ \A i \in DOMAIN c :
          /\ r.bodega # 0 /\ r.origen # "voz" => c[i].bodega = r.bodega
          /\ r.origen \in {"regla", "voz"} /\ r.frase.uni # "" /\ r.frase.num > 0 =>
                c[i].cant = Convertir(r.frase.num, r.frase.uni, Productos[c[i].prod].unidad)
    /\ r.sesion /\ c # <<>> => g # <<>>

PeticionBien(r, n) ==
    /\ r.fase \notin {"encolar", "fin"} => r.origen = ""
    /\ r.fase \in {"L1", "L2", "L3"} => r.svc = "local"
    /\ r.fase = "modelo" => r.svc = "nube"
    /\ r.fase = "encolar" => Llamada(r.args, r.bodega)
    /\ r.fase = "encolar" /\ r.origen \in {"regla", "voz"} => Dicho(r.args, r.frase)
    /\ r.svc = "local" /\ r.origen = "modelo" /\ Contra(r.frase, r.bodega, r.args.tool) =>
          n.ronda = "otraL1"
    /\ n.primero = Ninguna \/ Llamada(n.primero, r.bodega)
    /\ r.fase = "L3" => /\ n.l2 \in Herramientas
                        /\ n.ronda = "otraL2" => ~Contra(r.frase, r.bodega, n.l2)

IInv ==
    /\ p \in Peticiones /\ m \in Pipelines /\ cola \in Seq(Filas)
    /\ PeticionBien(p, m)
    /\ FilasBien(p, cola, registros)

-----------------------------------------------------------------------------
(* nlu.py *)

LEMMA UnidadMapTipo == \A u : UnidadMap(u) \in Unidades
BY DEF UnidadMap, Unidades

LEMMA ConvertirTipo ==
    ASSUME NEW q \in Nat, NEW u, NEW c
    PROVE  Convertir(q, u, c) \in Nat
<1>1. q \div 1000 \in Nat
    OBVIOUS
<1> QED
    BY <1>1 DEF Convertir

(* A unit that was mapped once is mapped to itself. *)
LEMMA ConvertirMapa ==
    ASSUME NEW q, NEW u, NEW c
    PROVE  Convertir(q, UnidadMap(u), c) = Convertir(q, u, c)
<1>1. UnidadMap(UnidadMap(u)) = UnidadMap(u)
    BY DEF UnidadMap
<1> QED
    BY <1>1 DEF Convertir

(* A quantity in the unit of the catalogue is not converted again. *)
LEMMA ConvertirFinal ==
    ASSUME NEW q, NEW c
    PROVE  Convertir(q, c, c) = q
<1>1. /\ UnidadMap(c) = "g" => c # "Kilogram"
      /\ UnidadMap(c) = "ml" => c # "Liter"
    BY DEF UnidadMap
<1> QED
    BY <1>1 DEF Convertir

LEMMA FraseTipo ==
    ASSUME NEW f \in Frases
    PROVE  /\ f.num \in Nat \cup {Nada} /\ (f.num = Nada => f.uni = "")
           /\ UltimoNumero(f) \in Nat /\ ExtraeUnidad(f) \in Unidades
<1>1. f.num \in Nat \cup {Nada} /\ (f.num = Nada => f.uni = "")
    BY InterpretacionAssumption
<1>2. DelNombre(f).num \in Nat \cup {Nada}
    BY InterpretacionAssumption DEF DelNombre
<1>3. UltimoNumero(f) \in Nat
    BY <1>1, <1>2 DEF UltimoNumero
<1> QED
    BY <1>1, <1>3, UnidadMapTipo DEF ExtraeUnidad

LEMMA ProductoTipo ==
    ASSUME NEW x \in DOMAIN Productos
    PROVE  Productos[x].bodegas \subseteq Bodegas /\ Productos[x].unidad \in Unidades
<1>1. Productos[x].bodegas \subseteq Bodegas
    BY InterpretacionAssumption
<1>2. Productos[x].unidad \in Unidades
    BY DEF Unidades
<1> QED
    BY <1>1, <1>2

LEMMA CatalogoTipo ==
    ASSUME NEW b
    PROVE  /\ Catalogo(b) \subseteq DOMAIN Productos
           /\ \A x \in Catalogo(b) : b = 0 \/ b \in Productos[x].bodegas
           /\ \A f : ExtraeProducto(f, Catalogo(b)) \in Catalogo(b) \cup {""}
BY DEF Catalogo, ExtraeProducto

(* normalize_args leaves a call that can be enqueued, of the same tool.      *)
Normalizada(r, a, f, b) ==
    /\ r \in ArgsTipo /\ r.tool = a.tool /\ Llamada(r, b)
    /\ r.prod = IF a.prod \in Catalogo(b) THEN a.prod ELSE ExtraeProducto(f, Catalogo(b))
    /\ a.tool \in Escrituras /\ a.cant # Nada /\ a.cant # 0 => r.cant = a.cant
    /\ a.tool \in Escrituras => r.uni = IF a.uni # "" THEN a.uni ELSE ExtraeUnidad(f)

LEMMA NormalizaBien ==
    ASSUME NEW a \in ArgsTipo, a.tool \in Herramientas, NEW f \in Frases, NEW b,
           NEW r, r = NormalizeArgs(a, f, Catalogo(b))
    PROVE  Normalizada(r, a, f, b)
<1>1. PICK x : x = IF a.prod \in Catalogo(b) THEN a.prod ELSE ExtraeProducto(f, Catalogo(b))
    OBVIOUS
<1>2. x \in Catalogo(b) \cup {""} /\ x \in DOMAIN Productos \cup {""}
    BY <1>1, CatalogoTipo
<1>3. CASE a.tool \notin Escrituras
  <2>1. r = [a EXCEPT !.prod = x]
    BY <1>1, <1>3 DEF NormalizeArgs, ArgsTipo
  <2>2. r \in ArgsTipo /\ r.tool = a.tool /\ r.prod = x
    BY <1>2, <2>1 DEF ArgsTipo
  <2> QED
    BY <1>1, <1>2, <1>3, <2>2 DEF Llamada, Normalizada
<1>4. CASE a.tool \in Escrituras
  <2>1. PICK q : q = IF a.cant \in {Nada, 0} /\ ~(a.tool = "registrar_conteo" /\ f.num = 0)
                     THEN UltimoNumero(f) ELSE IF a.cant = Nada THEN 0 ELSE a.cant
    OBVIOUS
  <2>2. PICK u : u = IF a.uni # "" THEN a.uni ELSE ExtraeUnidad(f)
    OBVIOUS
  <2>3. r = [a EXCEPT !.prod = x, !.cant = q, !.uni = u]
    BY <1>1, <1>4, <2>1, <2>2 DEF NormalizeArgs, ArgsTipo
  <2>4. q \in Nat /\ (a.cant # Nada /\ a.cant # 0 => q = a.cant)
    BY <2>1, FraseTipo DEF ArgsTipo
  <2>5. u \in Unidades
    BY <2>2, FraseTipo DEF ArgsTipo
  <2>6. r \in ArgsTipo /\ r.tool = a.tool /\ r.prod = x /\ r.cant = q /\ r.uni = u
    BY <1>2, <2>3, <2>4, <2>5 DEF ArgsTipo
  <2> QED
    BY <1>1, <1>2, <1>4, <2>2, <2>4, <2>6 DEF Llamada, Normalizada
<1> QED
    BY <1>3, <1>4

(* The fast path says what the sentence says, in either service.             *)
LEMMA ReglaBien ==
    ASSUME NEW svc, NEW f \in Frases, NEW b, NEW r, r = Regla(svc, f, Catalogo(b)), r # Ninguna
    PROVE  r \in ArgsTipo /\ Llamada(r, b) /\ Dicho(r, f)
<1>1. PICK a : a = Args(Herramienta(f), ExtraeProducto(f, Catalogo(b)), f.num, UnidadMap(f.uni))
    OBVIOUS
<1>2. /\ a.tool # "ninguna" /\ a.prod # ""
      /\ r = IF svc = "nube" THEN NormalizeArgs(a, f, Catalogo(b)) ELSE a
    BY <1>1 DEF Regla
<1>3. /\ a.tool \in Escrituras /\ a.prod \in Catalogo(b) /\ a.cant = f.num /\ f.num \in Nat
      /\ a.uni = UnidadMap(f.uni) /\ a \in ArgsTipo
  <2>1. a.tool = Herramienta(f) /\ a.prod = ExtraeProducto(f, Catalogo(b)) /\ a.cant = f.num
        /\ a.uni = UnidadMap(f.uni)
    BY <1>1 DEF Args
  <2>2. Herramienta(f) \in Escrituras /\ f.num # Nada
    BY <1>2, <2>1 DEF Herramienta, Escrituras
  <2>3. a.prod \in Catalogo(b) /\ a.prod \in DOMAIN Productos /\ f.num \in Nat
    <3>1. a.prod \in Catalogo(b) \cup {""}
      BY <2>1, CatalogoTipo
    <3>2. a.prod \in Catalogo(b) /\ a.prod \in DOMAIN Productos
      BY <1>2, <3>1, CatalogoTipo
    <3>3. f.num \in Nat \cup {Nada}
      BY FraseTipo
    <3> QED
      BY <2>2, <3>2, <3>3
  <2>4. a \in ArgsTipo
    BY <1>1, <2>1, <2>2, <2>3, UnidadMapTipo DEF Args, ArgsTipo, Herramientas
  <2> QED
    BY <2>1, <2>2, <2>3, <2>4
<1>4. a.tool \in Herramientas
    BY <1>3 DEF Herramientas
<1>5. \A c : Convertir(f.num, UnidadMap(f.uni), c) = Convertir(f.num, f.uni, c)
    BY ConvertirMapa
<1>6. a.prod \in DOMAIN Productos
    BY <1>3, CatalogoTipo
<1>7. CASE svc # "nube"
  <2>1. r = a
    BY <1>2, <1>7
  <2> QED
    BY <1>3, <1>4, <1>5, <1>6, <2>1 DEF Llamada, Dicho
<1>8. CASE svc = "nube"
  <2>1. r = NormalizeArgs(a, f, Catalogo(b))
    BY <1>2, <1>8
  <2>2. /\ r \in ArgsTipo /\ Llamada(r, b) /\ r.prod = a.prod
        /\ f.num # Nada /\ f.num # 0 => r.cant = f.num
        /\ r.uni = IF UnidadMap(f.uni) # "" THEN UnidadMap(f.uni) ELSE ExtraeUnidad(f)
    <3>1. /\ r \in ArgsTipo /\ Llamada(r, b)
          /\ r.prod = IF a.prod \in Catalogo(b) THEN a.prod ELSE ExtraeProducto(f, Catalogo(b))
          /\ a.tool \in Escrituras => r.uni = IF a.uni # "" THEN a.uni ELSE ExtraeUnidad(f)
      BY <1>3, <1>4, <2>1, NormalizaBien DEF Normalizada
    <3>2. a.tool \in Escrituras /\ a.cant # Nada /\ a.cant # 0 => r.cant = a.cant
      BY <1>3, <1>4, <2>1, NormalizaBien DEF Normalizada
    <3> QED
      BY <1>3, <3>1, <3>2
  <2>3. f.uni # "" => r.uni = UnidadMap(f.uni)
    BY <2>2 DEF ExtraeUnidad, UnidadMap
  <2>4. f.num > 0 => r.cant = f.num
    <3>1. f.num > 0 => f.num # 0 /\ f.num # Nada
      BY <1>3 DEF Nada
    <3> QED
      BY <2>2, <3>1
  <2> QED
    BY <1>5, <1>6, <2>2, <2>3, <2>4 DEF Dicho
<1> QED
    BY <1>7, <1>8

LEMMA ContradiceEsContra ==
    /\ \A t : Contradice(t) = Contra(p.frase, p.bodega, t)
BY DEF Contradice, Contra, HasP

-----------------------------------------------------------------------------
(* What a step owes to the request. *)

LEMMA NingunaTipo == Ninguna \in ArgsTipo /\ Ninguna.tool = "ninguna"
<1>1. {"ninguna"} \subseteq Herramientas \cup {"ninguna"} /\ "" \in Unidades
    BY DEF Unidades
<1> QED
    BY <1>1 DEF Ninguna, Args, ArgsTipo

LEMMA Vacia == ASSUME NEW S PROVE <<>> \in Seq(S) /\ DOMAIN <<>> = {}
OBVIOUS

(* Before the rows are queued there are none. *)
LEMMA PasoPeticion ==
    ASSUME IInv, p.fase # "fin", NEW r \in Peticiones, NEW n \in Pipelines, PeticionBien(r, n),
           p' = r, m' = n, UNCHANGED <<cola, registros>>
    PROVE  IInv'
<1>1. cola = <<>>
    BY DEF IInv, FilasBien
<1>2. FilasBien(r, cola, registros)
    BY <1>1, Vacia DEF FilasBien
<1> QED
    BY <1>2 DEF IInv

(* Goes on, or ends without a call. *)
LEMMA Sigue ==
    ASSUME IInv, p.fase \notin {"encolar", "fin"},
           NEW f \in {"servicio", "modelo", "L1", "L2", "L3", "fin"}, p' = [p EXCEPT !.fase = f],
           f \in {"L1", "L2", "L3"} => p.svc = "local", f = "modelo" => p.svc = "nube",
           NEW n \in Pipelines, m' = n, n.primero = Ninguna \/ Llamada(n.primero, p.bodega),
           f = "L3" => /\ n.l2 \in Herramientas
                       /\ n.ronda = "otraL2" => ~Contra(p.frase, p.bodega, n.l2),
           UNCHANGED <<cola, registros>>
    PROVE  IInv'
<1>1. p \in Peticiones /\ p.origen = ""
    BY DEF IInv, PeticionBien
<1>2. PICK r : r = [p EXCEPT !.fase = f]
    OBVIOUS
<1>3. /\ r \in Peticiones /\ r.fase = f /\ r.svc = p.svc /\ r.bodega = p.bodega
      /\ r.frase = p.frase /\ r.origen = ""
    BY <1>1, <1>2 DEF Peticiones
<1>4. PeticionBien(r, n)
    BY <1>3 DEF PeticionBien
<1> QED
    BY <1>2, <1>3, <1>4, PasoPeticion

(* The call to enqueue is decided. *)
LEMMA Entrega ==
    ASSUME IInv, p.fase # "fin", NEW a \in ArgsTipo, Llamada(a, p.bodega),
           NEW o \in {"regla", "voz", "modelo"}, o # "modelo" => Dicho(a, p.frase),
           p' = [p EXCEPT !.fase = "encolar", !.args = a, !.origen = o],
           NEW n \in Pipelines, m' = n, n.primero = Ninguna \/ Llamada(n.primero, p.bodega),
           p.svc = "local" /\ o = "modelo" /\ Contra(p.frase, p.bodega, a.tool) => n.ronda = "otraL1",
           UNCHANGED <<cola, registros>>
    PROVE  IInv'
<1>1. p \in Peticiones
    BY DEF IInv
<1>2. PICK r : r = [p EXCEPT !.fase = "encolar", !.args = a, !.origen = o]
    OBVIOUS
<1>3. /\ r \in Peticiones /\ r.fase = "encolar" /\ r.svc = p.svc /\ r.bodega = p.bodega
      /\ r.frase = p.frase /\ r.origen = o /\ r.args = a
    BY <1>1, <1>2 DEF Peticiones
<1>4. PeticionBien(r, n)
    BY <1>3 DEF PeticionBien
<1> QED
    BY <1>2, <1>3, <1>4, PasoPeticion

-----------------------------------------------------------------------------
(* The actions. *)

LEMMA InicioBien ==
    /\ Inicio \in Peticiones /\ Pipeline \in Pipelines
    /\ Inicio.fase = "libre" /\ Inicio.origen = "" /\ Inicio.svc = "local" /\ Inicio.sesion = FALSE
    /\ Pipeline.primero = Ninguna
<1>1. (CHOOSE f \in Frases : TRUE) \in Frases
  <2>1. Frases # {}
    BY InterpretacionAssumption
  <2> QED
    BY <2>1, Zenon
<1> QED
    BY <1>1, NingunaTipo DEF Inicio, Pipeline, Peticiones, Pipelines

(* Nothing is queued of a request that has just begun. *)
LEMMA NuevaBien ==
    ASSUME NEW r \in Peticiones, r.fase \in {"libre", "voz", "servicio"}, r.origen = "",
           p' = r, m' = Pipeline, cola' = <<>>, registros' = <<>>
    PROVE  IInv'
<1>1. PeticionBien(r, Pipeline)
    BY InicioBien DEF PeticionBien
<1>2. <<>> \in Seq(Filas) /\ DOMAIN <<>> = {}
    BY Vacia
<1>3. FilasBien(r, <<>>, <<>>)
    BY <1>2 DEF FilasBien
<1> QED
    BY <1>1, <1>2, <1>3, InicioBien DEF IInv

LEMMA RecibirPreserva == ASSUME IInv, Recibir PROVE IInv'
<1>1. PICK f \in Frases, svc \in {"nube", "local"}, b \in Bodegas \cup {0}, s \in BOOLEAN :
          \/ p' = [Inicio EXCEPT !.fase = "servicio", !.frase = f, !.svc = svc,
                                 !.bodega = b, !.sesion = s]
          \/ p' = [Inicio EXCEPT !.fase = "voz", !.via = "voz", !.frase = f,
                                 !.svc = svc, !.bodega = b, !.sesion = TRUE]
    BY DEF Recibir
<1>2. p' \in Peticiones /\ p'.fase \in {"voz", "servicio"} /\ p'.origen = ""
  <2>1. PICK r : r = p'
    OBVIOUS
  <2>2. r \in Peticiones /\ r.fase \in {"voz", "servicio"} /\ r.origen = ""
    BY <1>1, <2>1, InicioBien DEF Peticiones
  <2> QED
    BY <2>1, <2>2
<1> QED
    BY <1>2, NuevaBien DEF Recibir

LEMMA ResponderPreserva == ASSUME IInv, Responder PROVE IInv'
BY InicioBien, NuevaBien DEF Responder

(* The quantity that registrar-voz converts is not converted again. *)
LEMMA RegistrarVozPreserva == ASSUME IInv, RegistrarVoz PROVE IInv'
<1>1. /\ p \in Peticiones /\ m \in Pipelines /\ PeticionBien(p, m) /\ p.fase = "voz"
      /\ UNCHANGED <<m, cola, registros>>
    BY DEF IInv, RegistrarVoz
<1>2. m.primero = Ninguna \/ Llamada(m.primero, p.bodega)
    BY <1>1 DEF PeticionBien
<1>3. CASE p' = [p EXCEPT !.fase = "servicio"]
    BY <1>1, <1>2, <1>3, Sigue
<1>4. PICK f : f = p.frase
    OBVIOUS
<1>5. PICK q : q = Convertir(f.num, UnidadMap(f.uni), Productos[f.prod].unidad)
    OBVIOUS
<1>6. PICK a : a = Args("registrar_conteo", f.prod, q, UnidadFinal(f))
    OBVIOUS
<1>7. CASE /\ f.num # Nada /\ f.prod \in DOMAIN Productos /\ p.bodega \in Productos[f.prod].bodegas
           /\ p' = [p EXCEPT !.fase = "encolar", !.origen = "voz", !.args = a]
  <2>1. f \in Frases
    BY <1>1, <1>4 DEF Peticiones
  <2>2. f.num \in Nat
    BY <1>7, <2>1, FraseTipo
  <2>3. q \in Nat
    BY <1>5, <2>2, ConvertirTipo
  <2>4. Productos[f.prod].unidad \in Unidades
    BY <1>7, ProductoTipo
  <2>5. /\ a.tool = "registrar_conteo" /\ a.prod = f.prod /\ a.cant = q
        /\ a.uni = Productos[f.prod].unidad
    BY <1>6 DEF Args, UnidadFinal
  <2>6. a \in ArgsTipo
    <3>1. "registrar_conteo" \in Herramientas \cup {"ninguna"}
      BY DEF Herramientas, Escrituras
    <3> QED
      BY <1>6, <1>7, <2>3, <2>4, <3>1 DEF Args, UnidadFinal, ArgsTipo
  <2>7. Llamada(a, p.bodega)
    BY <1>7, <2>3, <2>5 DEF Llamada, Catalogo, Herramientas, Escrituras
  <2>8. Convertir(q, Productos[f.prod].unidad, Productos[f.prod].unidad) = q
        /\ q = Convertir(f.num, f.uni, Productos[f.prod].unidad)
    BY <1>5, ConvertirFinal, ConvertirMapa
  <2>9. Dicho(a, f)
    BY <1>7, <2>5, <2>8 DEF Dicho
  <2>10. p' = [p EXCEPT !.fase = "encolar", !.args = a, !.origen = "voz"]
    BY <1>1, <1>7 DEF Peticiones
  <2> QED
    BY <1>1, <1>2, <1>4, <2>6, <2>7, <2>9, <2>10, Entrega
<1> QED
    BY <1>3, <1>4, <1>5, <1>6, <1>7 DEF RegistrarVoz

LEMMA InferirPreserva == ASSUME IInv, Inferir PROVE IInv'
<1>1. /\ p \in Peticiones /\ m \in Pipelines /\ PeticionBien(p, m) /\ p.fase = "servicio"
      /\ UNCHANGED <<m, cola, registros>>
    BY DEF IInv, Inferir
<1>2. m.primero = Ninguna \/ Llamada(m.primero, p.bodega)
    BY <1>1 DEF PeticionBien
<1>3. PICK r : r = Regla(p.svc, p.frase, Catalogo(p.bodega))
    OBVIOUS
<1>4. CASE r # Ninguna
  <2>1. p.frase \in Frases
    BY <1>1 DEF Peticiones
  <2>2. r \in ArgsTipo /\ Llamada(r, p.bodega) /\ Dicho(r, p.frase)
    BY <1>3, <1>4, <2>1, ReglaBien
  <2>3. p' = [p EXCEPT !.fase = "encolar", !.args = r, !.origen = "regla"]
    BY <1>3, <1>4 DEF Inferir
  <2> QED
    BY <1>1, <1>2, <2>2, <2>3, Entrega
<1>5. CASE r = Ninguna
  <2>1. p' = [p EXCEPT !.fase = IF p.svc = "nube" THEN "modelo" ELSE "L1"]
    BY <1>3, <1>5 DEF Inferir
  <2>2. p.svc \in {"nube", "local"}
    BY <1>1 DEF Peticiones
  <2>3. CASE p.svc = "nube"
    BY <1>1, <1>2, <2>1, <2>3, Sigue
  <2>4. CASE p.svc = "local"
    BY <1>1, <1>2, <2>1, <2>4, Sigue
  <2> QED
    BY <2>2, <2>3, <2>4
<1> QED
    BY <1>4, <1>5

(* What the models may answer. *)
LEMMA InventosTipo ==
    ASSUME NEW t \in Herramientas, NEW a \in Inventos(t)
    PROVE  a \in ArgsTipo /\ a.tool = t
<1>1. Cantidades \subseteq Nat \cup {Nada}
    BY DEF Cantidades
<1>2. {"", "gr"} \subseteq Unidades
    BY DEF Unidades
<1>3. a.tool = t /\ a.prod \in DOMAIN Productos \cup {""} /\ a.cant \in Cantidades /\ a.uni \in {"", "gr"}
      /\ a = [tool |-> a.tool, prod |-> a.prod, cant |-> a.cant, uni |-> a.uni]
    BY DEF Inventos
<1> QED
    BY <1>1, <1>2, <1>3 DEF ArgsTipo

LEMMA NormalizaInvento ==
    ASSUME IInv, NEW t \in Herramientas, NEW a \in Inventos(t),
           NEW r, r = NormalizeArgs(a, p.frase, Catalogo(p.bodega))
    PROVE  r \in ArgsTipo /\ r.tool = t /\ Llamada(r, p.bodega)
<1>1. PICK f \in Frases : f = p.frase
    BY DEF IInv, Peticiones
<1>2. a \in ArgsTipo /\ a.tool = t
    BY InventosTipo
<1>3. a.tool \in Herramientas
    BY <1>2
<1>4. PICK b : b = p.bodega
    OBVIOUS
<1>5. r = NormalizeArgs(a, f, Catalogo(b))
    BY <1>1, <1>4
<1>6. Normalizada(r, a, f, b)
    BY <1>1, <1>2, <1>3, <1>5, NormalizaBien
<1> QED
    BY <1>2, <1>4, <1>6 DEF Normalizada

LEMMA LlamarOpenrouterPreserva == ASSUME IInv, LlamarOpenrouter PROVE IInv'
<1>1. /\ p \in Peticiones /\ m \in Pipelines /\ PeticionBien(p, m) /\ p.fase = "modelo"
      /\ UNCHANGED <<m, cola, registros>>
    BY DEF IInv, LlamarOpenrouter, Responde
<1>2. /\ m.primero = Ninguna \/ Llamada(m.primero, p.bodega)
      /\ p.svc = "nube"
    BY <1>1 DEF PeticionBien
<1>3. CASE p' = SinLlamada
    BY <1>1, <1>2, <1>3, Sigue DEF SinLlamada
<1>4. CASE \E t \in Herramientas : \E a \in Inventos(t) : Responde(a, "modelo")
  <2>1. PICK t \in Herramientas : \E a \in Inventos(t) : Responde(a, "modelo")
    BY <1>4
  <2>2. PICK a \in Inventos(t) : Responde(a, "modelo")
    BY <2>1
  <2>3. PICK r : r = NormalizeArgs(a, p.frase, Catalogo(p.bodega))
    OBVIOUS
  <2>4. r \in ArgsTipo /\ Llamada(r, p.bodega)
    BY <2>3, NormalizaInvento
  <2>5. p' = [p EXCEPT !.fase = "encolar", !.args = r, !.origen = "modelo"]
    BY <1>1, <2>2, <2>3 DEF Responde, Peticiones
  <2> QED
    BY <1>1, <1>2, <2>4, <2>5, Entrega
<1> QED
    BY <1>3, <1>4 DEF LlamarOpenrouter, Herramientas

-----------------------------------------------------------------------------
(* needle: the three rounds. *)

(* What a pipeline hands over, or nothing. *)
LEMMA EntregaODeja ==
    ASSUME IInv, p.fase \in {"L1", "L2", "L3"}, NEW r \in ArgsTipo,
           r = Ninguna \/ Llamada(r, p.bodega),
           p' = IF r = Ninguna THEN SinLlamada
                ELSE [p EXCEPT !.fase = "encolar", !.args = r, !.origen = "modelo"],
           NEW n \in Pipelines, m' = n, n.primero = Ninguna \/ Llamada(n.primero, p.bodega),
           r # Ninguna /\ Contra(p.frase, p.bodega, r.tool) => n.ronda = "otraL1",
           UNCHANGED <<cola, registros>>
    PROVE  IInv'
<1>1. CASE r = Ninguna
  <2>1. p' = [p EXCEPT !.fase = "fin"]
    BY <1>1 DEF SinLlamada
  <2> QED
    BY <2>1, Sigue
<1>2. CASE r # Ninguna
  <2>1. p' = [p EXCEPT !.fase = "encolar", !.args = r, !.origen = "modelo"]
    BY <1>2
  <2> QED
    BY <1>2, <2>1, Entrega
<1> QED
    BY <1>1, <1>2

LEMMA ConcluirBien ==
    ASSUME IInv, p.fase \in {"L1", "L2", "L3"}, NEW a \in ArgsTipo,
           a = Ninguna \/ Llamada(a, p.bodega),
           NEW l1 \in {"", "leer_inventario", "modificar_inventario"},
           NEW l2 \in Herramientas \cup {""},
           m.ronda = "otraL2" /\ a # Ninguna => ~Contra(p.frase, p.bodega, a.tool),
           Concluir(a, l1, l2), UNCHANGED <<cola, registros>>
    PROVE  IInv'
<1>1. /\ p \in Peticiones /\ m \in Pipelines /\ p.svc = "local"
      /\ m.primero = Ninguna \/ Llamada(m.primero, p.bodega)
    BY DEF IInv, PeticionBien
<1>2. PICK o : o = [m EXCEPT !.ronda = "otraL1", !.l1 = l1, !.l2 = l2,
                            !.primero = IF m.ronda = "primera" THEN a ELSE @]
    OBVIOUS
<1>3. /\ o \in Pipelines /\ o.ronda = "otraL1"
      /\ o.primero = Ninguna \/ Llamada(o.primero, p.bodega)
  <2>1. o \in Pipelines /\ o.ronda = "otraL1"
        /\ o.primero = IF m.ronda = "primera" THEN a ELSE m.primero
    BY <1>1, <1>2 DEF Pipelines
  <2> QED
    BY <1>1, <2>1
<1>4. CASE p' = [p EXCEPT !.fase = "L1"] /\ m' = o
    BY <1>1, <1>3, <1>4, Sigue
<1>5. CASE p' = [p EXCEPT !.fase = "L2"] /\ m' = [o EXCEPT !.ronda = "otraL2"]
  <2>1. PICK n : n = [o EXCEPT !.ronda = "otraL2"]
    OBVIOUS
  <2>2. n \in Pipelines /\ n.primero = o.primero
    BY <1>3, <2>1 DEF Pipelines
  <2> QED
    BY <1>1, <1>3, <1>5, <2>1, <2>2, Sigue
<1>6. CASE p' = SinLlamada /\ m' = m
    BY <1>1, <1>6, Sigue DEF SinLlamada
<1>7. CASE m.ronda = "primera" /\ a # Ninguna /\ ~Sospechosa(a.tool)
  <2>1. PICK n : n = [m EXCEPT !.primero = a]
    OBVIOUS
  <2>2. n \in Pipelines /\ n.primero = a
    BY <1>1, <2>1 DEF Pipelines
  <2>3. ~Contra(p.frase, p.bodega, a.tool)
    BY <1>7, ContradiceEsContra DEF Sospechosa
  <2>4. /\ p' = IF a = Ninguna THEN SinLlamada
                 ELSE [p EXCEPT !.fase = "encolar", !.args = a, !.origen = "modelo"]
        /\ m' = n
    BY <1>7, <2>1 DEF Concluir
  <2> QED
    BY <2>2, <2>3, <2>4, EntregaODeja
<1>8. CASE m.ronda = "primera" /\ (a = Ninguna \/ Sospechosa(a.tool))
    BY <1>2, <1>4, <1>5, <1>6, <1>8 DEF Concluir
<1>9. CASE m.ronda = "otraL2"
  <2>1. CASE a # Ninguna
    <3>1. /\ p' = IF a = Ninguna THEN SinLlamada
                   ELSE [p EXCEPT !.fase = "encolar", !.args = a, !.origen = "modelo"]
          /\ m' = m
      BY <1>9, <2>1 DEF Concluir
    <3> QED
      BY <1>1, <1>9, <2>1, <3>1, EntregaODeja
  <2>2. CASE a = Ninguna
    BY <1>2, <1>4, <1>9, <2>2 DEF Concluir
  <2> QED
    BY <2>1, <2>2
<1>10. CASE m.ronda = "otraL1"
  <2>1. PICK r : r = IF a # Ninguna THEN a ELSE m.primero
    OBVIOUS
  <2>2. r \in ArgsTipo /\ (r = Ninguna \/ Llamada(r, p.bodega))
    BY <1>1, <2>1 DEF Pipelines
  <2>3. /\ p' = IF r = Ninguna THEN SinLlamada
                 ELSE [p EXCEPT !.fase = "encolar", !.args = r, !.origen = "modelo"]
        /\ m' = m
    BY <1>10, <2>1 DEF Concluir
  <2> QED
    BY <1>1, <1>10, <2>2, <2>3, EntregaODeja
<1> QED
    BY <1>1, <1>7, <1>8, <1>9, <1>10 DEF Pipelines

LEMMA ElegirL1Preserva == ASSUME IInv, ElegirL1 PROVE IInv'
<1>1. /\ p \in Peticiones /\ m \in Pipelines /\ p.svc = "local" /\ p.fase = "L1"
      /\ m.primero = Ninguna \/ Llamada(m.primero, p.bodega)
      /\ UNCHANGED <<cola, registros>>
    BY DEF IInv, PeticionBien, ElegirL1
<1>2. CASE Concluir(Ninguna, "", "")
    BY <1>1, <1>2, NingunaTipo, ConcluirBien
<1>3. ASSUME NEW l1 \in {"leer_inventario", "modificar_inventario"},
             p' = [p EXCEPT !.fase = "L2"], m' = [m EXCEPT !.l1 = l1, !.l2 = ""]
      PROVE  IInv'
  <2>1. PICK n : n = [m EXCEPT !.l1 = l1, !.l2 = ""]
    OBVIOUS
  <2>2. n \in Pipelines /\ n.primero = m.primero
    BY <1>1, <2>1 DEF Pipelines
  <2> QED
    BY <1>1, <1>3, <2>1, <2>2, Sigue
<1> QED
    BY <1>2, <1>3 DEF ElegirL1

(* In the second try of L2 no tool that contradicts the sentence reaches L3. *)
LEMMA ElegirL2Preserva == ASSUME IInv, ElegirL2 PROVE IInv'
<1>1. /\ p \in Peticiones /\ m \in Pipelines /\ p.svc = "local" /\ p.fase = "L2"
      /\ m.primero = Ninguna \/ Llamada(m.primero, p.bodega)
      /\ UNCHANGED <<cola, registros>>
    BY DEF IInv, PeticionBien, ElegirL2
<1>2. /\ m.l1 \in {"", "leer_inventario", "modificar_inventario"}
      /\ m.l2 \in Herramientas \cup {""}
    BY <1>1 DEF Pipelines
<1>3. CASE Concluir(Ninguna, m.l1, m.l2)
    BY <1>1, <1>2, <1>3, NingunaTipo, ConcluirBien
<1>4. ASSUME NEW t \in L2(m.l1),
             IF m.ronda = "otraL2" /\ Contradice(t)
             THEN Concluir(Ninguna, m.l1, t)
             ELSE p' = [p EXCEPT !.fase = "L3"] /\ m' = [m EXCEPT !.l2 = t]
      PROVE  IInv'
  <2>1. t \in Herramientas
    BY DEF L2, Herramientas
  <2>2. CASE Concluir(Ninguna, m.l1, t)
    BY <1>1, <1>2, <2>1, <2>2, NingunaTipo, ConcluirBien
  <2>3. CASE /\ m.ronda = "otraL2" => ~Contradice(t)
             /\ p' = [p EXCEPT !.fase = "L3"] /\ m' = [m EXCEPT !.l2 = t]
    <3>1. PICK n : n = [m EXCEPT !.l2 = t]
      OBVIOUS
    <3>2. n \in Pipelines /\ n.primero = m.primero /\ n.l2 = t /\ n.ronda = m.ronda
      BY <1>1, <2>1, <3>1 DEF Pipelines
    <3>3. n.ronda = "otraL2" => ~Contra(p.frase, p.bodega, n.l2)
      BY <2>3, <3>2, ContradiceEsContra
    <3> QED
      BY <1>1, <2>1, <2>3, <3>1, <3>2, <3>3, Sigue
  <2> QED
    BY <1>4, <2>2, <2>3
<1> QED
    BY <1>3, <1>4 DEF ElegirL2

LEMMA ExtraerL3Preserva == ASSUME IInv, ExtraerL3 PROVE IInv'
<1>1. /\ p.fase = "L3" /\ m \in Pipelines /\ m.l2 \in Herramientas
      /\ m.ronda = "otraL2" => ~Contra(p.frase, p.bodega, m.l2)
      /\ UNCHANGED <<cola, registros>>
    BY DEF IInv, PeticionBien, ExtraerL3
<1>2. m.l1 \in {"", "leer_inventario", "modificar_inventario"}
    BY <1>1 DEF Pipelines
<1>3. CASE Concluir(Ninguna, m.l1, m.l2)
    BY <1>1, <1>2, <1>3, NingunaTipo, ConcluirBien
<1>4. ASSUME NEW a \in Inventos(m.l2),
             Concluir(NormalizeArgs(a, p.frase, Catalogo(p.bodega)), m.l1, m.l2)
      PROVE  IInv'
  <2>1. PICK r : r = NormalizeArgs(a, p.frase, Catalogo(p.bodega))
    OBVIOUS
  <2>2. r \in ArgsTipo /\ r.tool = m.l2 /\ Llamada(r, p.bodega)
    BY <1>1, <2>1, NormalizaInvento
  <2>3. Concluir(r, m.l1, m.l2)
    BY <1>4, <2>1
  <2> QED
    BY <1>1, <1>2, <2>2, <2>3, ConcluirBien
<1> QED
    BY <1>3, <1>4 DEF ExtraerL3

-----------------------------------------------------------------------------
(* enqueue_pending and enqueue_registro_manual. *)

LEMMA ResolverBien ==
    ASSUME NEW b, NEW x \in Catalogo(b), NEW c \in Resolver(x, b)
    PROVE  c \in Bodegas /\ (b # 0 /\ p.origen # "voz" => c = b)
<1>1. x \in DOMAIN Productos /\ (b = 0 \/ b \in Productos[x].bodegas)
    BY DEF Catalogo
<1>2. Productos[x].bodegas \subseteq Bodegas
    BY <1>1, ProductoTipo
<1> QED
    BY <1>1, <1>2 DEF Resolver

(* The stock is a whole number, so a count is whole when its difference is.  *)
LEMMA CantidadBien ==
    ASSUME NEW t, NEW x, NEW q \in Nat
    PROVE  Cantidad(t, q) \in Nat /\ (Entero(x, Cantidad(t, q)) => Entero(x, q))
<1>1. Stock \in Nat /\ Stock % 1000 = 0
    BY InterpretacionAssumption
<1>2. PICK d : d = Cantidad(t, q)
    OBVIOUS
<1>3. d = q \/ (d = Stock - q /\ q < Stock) \/ (d = q - Stock /\ ~(q < Stock))
    BY <1>2 DEF Cantidad, CantidadConSigno
<1>4. d \in Nat
    BY <1>1, <1>3
<1>5. d % 1000 = 0 => q % 1000 = 0
    BY <1>1, <1>3, <1>4
<1> QED
    BY <1>2, <1>4, <1>5 DEF Entero

LEMMA EncolarPreserva == ASSUME IInv, Encolar PROVE IInv'
<1>1. /\ p \in Peticiones /\ m \in Pipelines /\ PeticionBien(p, m) /\ cola = <<>>
      /\ p.fase = "encolar" /\ Llamada(p.args, p.bodega) /\ UNCHANGED m
    BY DEF IInv, PeticionBien, FilasBien, Encolar
<1>2. PICK r : r = [p EXCEPT !.fase = "fin"]
    OBVIOUS
<1>3. /\ r \in Peticiones /\ r.fase = "fin" /\ r.svc = p.svc /\ r.bodega = p.bodega
      /\ r.frase = p.frase /\ r.origen = p.origen /\ r.args = p.args /\ r.sesion = p.sesion
    BY <1>1, <1>2 DEF Peticiones
<1>4. p' = r
    BY <1>2 DEF Encolar
<1>5. PeticionBien(r, m)
    BY <1>1, <1>3 DEF PeticionBien
<1>6. CASE UNCHANGED <<cola, registros>>
    BY <1>1, <1>3, <1>4, <1>5, <1>6, PasoPeticion
<1>7. CASE ~UNCHANGED <<cola, registros>>
  <2>1. PICK a : a = p.args
    OBVIOUS
  <2>2. PICK q : q = Convertir(a.cant, a.uni, Productos[a.prod].unidad)
    OBVIOUS
  <2>3. PICK d : d = Cantidad(a.tool, q)
    OBVIOUS
  <2>4. /\ a.tool \notin Lecturas /\ a.prod # "" /\ Entero(a.prod, d)
        /\ \E b \in Resolver(a.prod, p.bodega) :
              /\ cola' = <<[tool |-> a.tool, prod |-> a.prod, bodega |-> b,
                            delta |-> d, cant |-> q]>>
              /\ registros' = IF p.sesion /\ Entero(a.prod, q)
                              THEN <<[prod |-> a.prod, cant |-> q]>> ELSE <<>>
    BY <1>7, <2>1, <2>2, <2>3 DEF Encolar, CabePendiente
  <2>5. PICK b \in Resolver(a.prod, p.bodega) :
              /\ cola' = <<[tool |-> a.tool, prod |-> a.prod, bodega |-> b,
                            delta |-> d, cant |-> q]>>
              /\ registros' = IF p.sesion /\ Entero(a.prod, q)
                              THEN <<[prod |-> a.prod, cant |-> q]>> ELSE <<>>
    BY <2>4
  <2>6. a.tool \in Escrituras /\ a.cant \in Nat /\ a.prod \in Catalogo(p.bodega)
    BY <1>1, <2>1, <2>4 DEF Llamada, Herramientas
  <2>7. a.prod \in DOMAIN Productos
    BY <2>6, CatalogoTipo
  <2>8. q \in Nat
    BY <2>2, <2>6, ConvertirTipo
  <2>9. d \in Nat /\ Entero(a.prod, q)
    BY <2>3, <2>4, <2>8, CantidadBien
  <2>10. b \in Bodegas /\ (p.bodega # 0 /\ p.origen # "voz" => b = p.bodega)
    BY <2>5, <2>6, ResolverBien
  <2>11. PICK fila : fila = [tool |-> a.tool, prod |-> a.prod, bodega |-> b, delta |-> d, cant |-> q]
    OBVIOUS
  <2>12. /\ fila \in Filas /\ fila.bodega = b /\ fila.cant = q /\ fila.prod = a.prod
    BY <2>6, <2>7, <2>8, <2>9, <2>10, <2>11 DEF Filas
  <2>13. PICK g : g = registros'
    OBVIOUS
  <2>14. cola' = <<fila>> /\ registros' = g
    BY <2>5, <2>11, <2>13
  <2>15. <<fila>> \in Seq(Filas) /\ \A i \in DOMAIN <<fila>> : <<fila>>[i] = fila
    BY <2>12
  <2>16. r.sesion => g # <<>>
    BY <1>3, <2>5, <2>9, <2>13
  <2>17. r.origen \in {"regla", "voz"} /\ r.frase.uni # "" /\ r.frase.num > 0 =>
           q = Convertir(r.frase.num, r.frase.uni, Productos[a.prod].unidad)
    BY <1>1, <1>3, <2>1, <2>2 DEF PeticionBien, Dicho
  <2>18. FilasBien(r, <<fila>>, g)
    BY <1>3, <2>10, <2>12, <2>15, <2>16, <2>17 DEF FilasBien
  <2> QED
    BY <1>1, <1>3, <1>4, <1>5, <2>14, <2>15, <2>18 DEF IInv
<1> QED
    BY <1>6, <1>7

-----------------------------------------------------------------------------
(* The invariant, and what follows from it. *)

LEMMA InitIInv == Init => IInv
<1>1. PeticionBien(Inicio, Pipeline)
    BY InicioBien DEF PeticionBien
<1>2. <<>> \in Seq(Filas) /\ DOMAIN <<>> = {}
    BY Vacia
<1>3. FilasBien(Inicio, <<>>, <<>>)
    BY <1>2 DEF FilasBien
<1> QED
    BY <1>1, <1>2, <1>3, InicioBien DEF Init, IInv

LEMMA NextIInv == IInv /\ [Next]_vars => IInv'
<1> SUFFICES ASSUME IInv, [Next]_vars PROVE IInv'
    OBVIOUS
<1>1. CASE Recibir
    BY <1>1, RecibirPreserva
<1>2. CASE RegistrarVoz
    BY <1>2, RegistrarVozPreserva
<1>3. CASE Inferir
    BY <1>3, InferirPreserva
<1>4. CASE LlamarOpenrouter
    BY <1>4, LlamarOpenrouterPreserva
<1>5. CASE ElegirL1
    BY <1>5, ElegirL1Preserva
<1>6. CASE ElegirL2
    BY <1>6, ElegirL2Preserva
<1>7. CASE ExtraerL3
    BY <1>7, ExtraerL3Preserva
<1>8. CASE Encolar
    BY <1>8, EncolarPreserva
<1>9. CASE Responder
    BY <1>9, ResponderPreserva
<1>10. CASE UNCHANGED vars
    BY <1>10 DEF vars, IInv
<1> QED
    BY <1>1, <1>2, <1>3, <1>4, <1>5, <1>6, <1>7, <1>8, <1>9, <1>10 DEF Next

(* Every call on its way to the queue is well formed and, when a rule parsed *)
(* the sentence, says it (nlu.py, needle-service, openrouter-service).       *)
THEOREM InterpretacionInvariante == Spec => []IInv
<1> QED
    BY InitIInv, NextIInv, PTL DEF Spec

(* The amounts that reach pending_evaluations are never negative and its     *)
(* rows name a place that exists (enqueue_pending).                          *)
THEOREM FilasSiempreValidas == Spec => []TypeOK
<1>1. IInv => TypeOK
  <2> SUFFICES ASSUME IInv PROVE TypeOK
    OBVIOUS
  <2>1. /\ p.fase \in {"libre", "voz", "servicio", "modelo", "L1", "L2", "L3", "encolar", "fin"}
        /\ p.args \in ArgsTipo /\ m.ronda \in {"primera", "otraL2", "otraL1"}
    BY DEF IInv, Peticiones, Pipelines
  <2>2. p.args.cant \in Nat \cup {Nada} /\ p.args.prod \in DOMAIN Productos \cup {"", "otro"}
    BY <2>1 DEF ArgsTipo
  <2>3. cola \in Seq(Filas)
    BY DEF IInv
  <2>4. \A i \in DOMAIN cola : cola[i] \in Filas
    BY <2>3
  <2>5. \A i \in DOMAIN cola : cola[i].delta \in Nat /\ cola[i].bodega \in Bodegas
    BY <2>4 DEF Filas
  <2> QED
    BY <2>1, <2>2, <2>5 DEF TypeOK
<1> QED
    BY <1>1, InterpretacionInvariante, PTL

(* A quantity that a rule read is converted once on its way to the queue,    *)
(* through whichever of the three parsers (UnaConversion).                   *)
THEOREM SiempreUnaConversion == Spec => []UnaConversion
<1>1. IInv => UnaConversion
    BY DEF IInv, FilasBien, UnaConversion
<1> QED
    BY <1>1, InterpretacionInvariante, PTL

(* The services never fall back to another place than the one they were      *)
(* asked about (FilaEnSuBodega).                                             *)
THEOREM FilaSiempreEnSuBodega == Spec => []FilaEnSuBodega
<1>1. IInv => FilaEnSuBodega
    BY DEF IInv, FilasBien, FilaEnSuBodega
<1> QED
    BY <1>1, InterpretacionInvariante, PTL

(* The entry of the session never fails on the trigger once the row of the   *)
(* queue was accepted by it, for any whole stock (PendienteConRegistro).     *)
THEOREM PendienteSiempreConRegistro == Spec => []PendienteConRegistro
<1>1. IInv => PendienteConRegistro
    BY DEF IInv, FilasBien, PendienteConRegistro
<1> QED
    BY <1>1, InterpretacionInvariante, PTL

(* However the local models answer, _run_inference gives a call that         *)
(* contradicts the sentence only from its last round (ContradiccionAgotada). *)
THEOREM ContradiccionSiempreAgotada == Spec => []ContradiccionAgotada
<1>1. IInv => ContradiccionAgotada
    BY ContradiceEsContra DEF IInv, PeticionBien, ContradiccionAgotada
<1> QED
    BY <1>1, InterpretacionInvariante, PTL
=============================================================================
