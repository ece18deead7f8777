--------------------------- MODULE NarracionProofs ---------------------------
(***************************************************************************)
(* Theorems about Narracion, for any events, models, sizes of the cache    *)
(* and length of an audio, any number of overlapping narrations and any    *)
(* changes of configuration.  They rest on one inductive invariant, IInv,  *)
(* in three parts: the configuration is well typed, the cache is bounded   *)
(* and each of its phrases stands under the key of its own event           *)
(* (CacheBien), and what a thread may assume of its cancel event at each   *)
(* point of its life (TareaBien).                                          *)
(***************************************************************************)
EXTENDS Narracion, TLAPS

-----------------------------------------------------------------------------
(* Types. *)

Evs == Eventos \cup EventosPwa

(* A task whose thread has not taken the lock yet, or never will. *)
SinHilo == {"pide", "sintetiza", "hilo", "muda"}
ConHilo == {"abre", "revisa", "escribe", "sonada", "interrumpida", "sin audio"}

Tareas ==
    [via: {"evento", "demo", "aviso", "tts", "pwa"}, ev: Evs, fase: SinHilo \cup ConHilo,
     gw: {"llega", "llm", "hecha", "elevenlabs", "kokoro"}, modelo: Modelos,
     dice: Evs, cancel: BOOLEAN, resta: Int, tras: {0, 1}]

Entradas == [clave: {CacheKey(ev) : ev \in Evs}, texto: [ev: Evs, autor: Modelos]]

CfgBien ==
    /\ cfg \in [nube: BOOLEAN, narrador: {"auto", "default", "llm"},
                modelo: {"auto"} \cup Modelos]
    /\ narr \in [backend: {"default", "llm"}, modelo: Modelos]

-----------------------------------------------------------------------------
(* The inductive invariant. *)

CacheBien ==
    /\ cache \in Seq(Entradas)
    /\ Len(cache) <= MaxCache
    /\ \A i \in DOMAIN cache : cache[i].clave = CacheKey(cache[i].texto.ev)
    /\ \A i, j \in DOMAIN cache : cache[i].clave = cache[j].clave => i = j

(* What is true of the task t, being r, when u is the last one that took the *)
(* lock.  A thread that took it is cancelled exactly when it is not the last *)
(* one; a thread writes nothing after it has seen its event set, and one     *)
(* block at most before.                                                     *)
TareaBien(t, r, u) ==
    /\ r.dice = r.ev
    /\ r.fase \in SinHilo => r.cancel = FALSE /\ t # u
    /\ r.fase \in ConHilo => (IF t = u THEN r.cancel = FALSE ELSE r.cancel = TRUE)
    /\ r.cancel = FALSE => r.tras = 0
    /\ r.fase = "escribe" => r.tras = 0

TareasBien ==
    /\ tareas \in Seq(Tareas)
    /\ ultimo \in 0..Len(tareas)
    /\ \A t \in DOMAIN tareas : TareaBien(t, tareas[t], ultimo)

IInv == CfgBien /\ CacheBien /\ TareasBien

-----------------------------------------------------------------------------
(* Initial states, and the configuration. *)

LEMMA VigenteTipo ==
    ASSUME NEW c \in [nube: BOOLEAN, narrador: {"auto", "default", "llm"},
                      modelo: {"auto"} \cup Modelos]
    PROVE  Vigente(c) \in [backend: {"default", "llm"}, modelo: Modelos]
<1>1. PickNarrador(c) \in {"default", "llm"}
    BY DEF PickNarrador
<1>2. ModeloActivo(c) \in Modelos
    BY NarracionAssumption DEF ModeloActivo
<1> QED
    BY <1>1, <1>2 DEF Vigente

LEMMA InitIInv == Init => IInv
<1> SUFFICES ASSUME Init PROVE IInv
    OBVIOUS
<1> USE NarracionAssumption DEF Init
<1>1. CfgBien
    BY DEF CfgBien
<1>2. CacheBien
    BY DEF CacheBien
<1>3. TareasBien
    BY DEF TareasBien
<1> QED
    BY <1>1, <1>2, <1>3 DEF IInv

LEMMA ConfigurarPreserva ==
    ASSUME IInv, Configurar
    PROVE  IInv'
<1> DEFINE Cfgs == [nube: BOOLEAN, narrador: {"auto", "default", "llm"},
                    modelo: {"auto"} \cup Modelos]
<1>1. UNCHANGED <<cache, tareas, ultimo>>
    BY DEF Configurar
<1>2. cfg' \in Cfgs /\ narr' \in [backend: {"default", "llm"}, modelo: Modelos]
  <2>1. CASE UpdateConfig
    <3>1. PICK r \in Pedidos : UpdateConfig!(r)
      BY <2>1 DEF UpdateConfig
    <3> DEFINE c1 == [cfg EXCEPT !.nube = IF r.nube = "nada" THEN @ ELSE r.nube = "si"]
               c2 == [c1 EXCEPT !.narrador = Campo(@, r.narrador),
                                !.modelo = Campo(@, r.modelo)]
               mal == "mal" \in {r.otros, r.narrador}
    <3>2. r \in PedidosPosibles
      BY NarracionAssumption
    <3>3. c1 \in Cfgs
      BY DEF IInv, CfgBien
    <3>4. ~mal => c2 \in Cfgs
      <4>1. ~mal => Campo(c1.narrador, r.narrador) \in {"auto", "default", "llm"}
        BY <3>2, <3>3 DEF Campo, PedidosPosibles
      <4>2. Campo(c1.modelo, r.modelo) \in {"auto"} \cup Modelos
        BY <3>2, <3>3 DEF Campo, PedidosPosibles
      <4> HIDE DEF c1
      <4> QED
        BY <3>3, <4>1, <4>2
    <3>5. cfg' = (IF mal THEN c1 ELSE c2) /\ narr' = (IF mal THEN narr ELSE Vigente(c2))
      BY <3>1
    <3> HIDE DEF c1, c2, mal
    <3> QED
      BY <3>3, <3>4, <3>5, VigenteTipo DEF IInv, CfgBien
  <2>2. CASE SelectModel
    <3>1. PICK m \in Modelos \cup {"auto"} :
             cfg' = [cfg EXCEPT !.modelo = m] /\ narr' = Vigente([cfg EXCEPT !.modelo = m])
      BY <2>2 DEF SelectModel
    <3>2. [cfg EXCEPT !.modelo = m] \in Cfgs
      BY DEF IInv, CfgBien
    <3> QED
      BY <3>1, <3>2, VigenteTipo
  <2> QED
    BY <2>1, <2>2 DEF Configurar
<1> QED
    BY <1>1, <1>2 DEF IInv, CfgBien, CacheBien, TareasBien

-----------------------------------------------------------------------------
(* The cache. *)

(* Whatever subset of its suffixes is kept, a cache stays a cache. *)
LEMMA CortarCache ==
    ASSUME CacheBien, NEW m \in 1..(Len(cache) + 1)
    PROVE  LET resto == SubSeq(cache, m, Len(cache))
           IN  /\ resto \in Seq(Entradas)
               /\ Len(resto) = Len(cache) - m + 1
               /\ \A i \in DOMAIN resto : resto[i].clave = CacheKey(resto[i].texto.ev)
               /\ \A i, j \in DOMAIN resto : resto[i].clave = resto[j].clave => i = j
<1> DEFINE resto == SubSeq(cache, m, Len(cache))
<1>1. cache \in Seq(Entradas) /\ Len(cache) \in Nat /\ DOMAIN cache = 1..Len(cache)
    BY DEF CacheBien
<1>2. \A i \in m..Len(cache) : cache[i] \in Entradas
    BY <1>1
<1>3. /\ resto \in Seq(Entradas)
      /\ Len(resto) = Len(cache) - m + 1
      /\ \A i \in 1..Len(resto) : resto[i] = cache[m + i - 1]
    BY <1>1, <1>2
<1>4. DOMAIN resto = 1..Len(resto)
    BY <1>3
<1>5. \A i \in DOMAIN resto : m + i - 1 \in DOMAIN cache
    BY <1>1, <1>3, <1>4
<1> HIDE DEF resto
<1>6. \A i \in DOMAIN resto : resto[i].clave = CacheKey(resto[i].texto.ev)
    BY <1>3, <1>4, <1>5 DEF CacheBien
<1>7. ASSUME NEW i \in DOMAIN resto, NEW j \in DOMAIN resto, resto[i].clave = resto[j].clave
      PROVE  i = j
  <2>1. m + i - 1 = m + j - 1
    BY <1>3, <1>4, <1>5, <1>7 DEF CacheBien
  <2> QED
    BY <2>1, <1>4, <1>3, <1>1
<1> QED
    BY <1>3, <1>6, <1>7 DEF resto

(* What narrate() stores: under the key of the event, a phrase about it. *)
LEMMA GuardarPreserva ==
    ASSUME CacheBien, NEW ev \in Evs, NEW a \in Modelos,
           Guardar(ev, [ev |-> ev, autor |-> a])
    PROVE  CacheBien'
<1> DEFINE resto == IF Llena THEN SubSeq(cache, (MaxCache \div 2) + 1, Len(cache)) ELSE cache
           nuevo == [clave |-> CacheKey(ev), texto |-> [ev |-> ev, autor |-> a]]
<1>1. cache \in Seq(Entradas) /\ Len(cache) \in Nat /\ DOMAIN cache = 1..Len(cache)
    BY DEF CacheBien
<1>2. MaxCache \in Nat /\ MaxCache > 1
    BY NarracionAssumption
<1>3. /\ resto \in Seq(Entradas)
      /\ Len(resto) < MaxCache
      /\ \A i \in DOMAIN resto : resto[i].clave = CacheKey(resto[i].texto.ev)
      /\ \A i, j \in DOMAIN resto : resto[i].clave = resto[j].clave => i = j
  <2>1. CASE Llena
    <3>1. Len(cache) = MaxCache
      <4>1. Len(cache) <= MaxCache
        BY DEF CacheBien
      <4>2. Len(cache) >= MaxCache
        BY <2>1 DEF Llena
      <4>3. \A x, y \in Nat : x <= y /\ x >= y => x = y
        OBVIOUS
      <4> HIDE DEF resto, nuevo
      <4> QED
        BY <4>1, <4>2, <4>3, <1>1, <1>2
    <3>2. (MaxCache \div 2) \in Nat /\ MaxCache \div 2 >= 1 /\ MaxCache \div 2 <= MaxCache
      BY <1>2
    <3>3. (MaxCache \div 2) + 1 \in 1..(Len(cache) + 1)
      BY <3>1, <3>2, <1>2
    <3> QED
      BY <2>1, <3>1, <3>2, <3>3, <1>2, CortarCache
  <2>2. CASE ~Llena
    BY <2>2, <1>1, <1>2 DEF Llena, CacheBien
  <2> QED
    BY <2>1, <2>2
<1>4. nuevo \in Entradas
    BY DEF Entradas
<1>5. cache' = IF \A i \in DOMAIN resto : resto[i].clave # nuevo.clave
               THEN Append(resto, nuevo)
               ELSE [i \in DOMAIN resto |-> IF resto[i].clave = nuevo.clave THEN nuevo ELSE resto[i]]
    BY DEF Guardar
<1>6. nuevo.clave = CacheKey(nuevo.texto.ev)
    OBVIOUS
<1> HIDE DEF resto, nuevo
<1>7. Len(resto) \in Nat /\ DOMAIN resto = 1..Len(resto)
    BY <1>3
<1>8. CASE \A i \in DOMAIN resto : resto[i].clave # nuevo.clave
  <2>1. cache' = Append(resto, nuevo)
    BY <1>8, <1>5
  <2>2. /\ cache' \in Seq(Entradas) /\ Len(cache') = Len(resto) + 1
        /\ DOMAIN cache' = 1..(Len(resto) + 1)
        /\ \A i \in DOMAIN resto : cache'[i] = resto[i]
        /\ cache'[Len(resto) + 1] = nuevo
    BY <2>1, <1>3, <1>4, <1>7
  <2>3. \A i \in DOMAIN cache' : i \in DOMAIN resto \/ i = Len(resto) + 1
    BY <2>2, <1>7
  <2>4. Len(cache') <= MaxCache
    BY <2>2, <1>3, <1>2, <1>7
  <2>5. \A i \in DOMAIN cache' : cache'[i].clave = CacheKey(cache'[i].texto.ev)
    BY <2>2, <2>3, <1>3, <1>6
  <2>6. \A i, j \in DOMAIN cache' : cache'[i].clave = cache'[j].clave => i = j
    BY <2>2, <2>3, <1>3, <1>8
  <2> QED
    BY <2>2, <2>4, <2>5, <2>6 DEF CacheBien
<1>9. CASE ~\A i \in DOMAIN resto : resto[i].clave # nuevo.clave
  <2>1. cache' = [i \in DOMAIN resto |-> IF resto[i].clave = nuevo.clave THEN nuevo ELSE resto[i]]
    BY <1>9, <1>5
  <2>2. DOMAIN cache' = DOMAIN resto
    BY <2>1
  <2>3. \A i \in DOMAIN resto : cache'[i] = IF resto[i].clave = nuevo.clave THEN nuevo ELSE resto[i]
    BY <2>1
  <2>4. \A i \in DOMAIN resto : cache'[i] \in Entradas
    BY <2>3, <1>3, <1>4, <1>7
  <2>5. cache' \in [1..Len(resto) -> Entradas]
    BY <2>1, <2>4, <1>7
  <2>6. cache' \in Seq(Entradas) /\ Len(cache') = Len(resto)
    BY <2>5, <1>7
  <2>7. \A i \in DOMAIN resto : cache'[i].clave = resto[i].clave
    BY <2>3
  <2>8. \A i \in DOMAIN cache' : cache'[i].clave = CacheKey(cache'[i].texto.ev)
    BY <2>2, <2>3, <1>3, <1>6
  <2>9. \A i, j \in DOMAIN cache' : cache'[i].clave = cache'[j].clave => i = j
    BY <2>2, <2>7, <1>3
  <2> QED
    BY <2>6, <2>8, <2>9, <1>3, <1>7, <1>2 DEF CacheBien
<1> QED
    BY <1>8, <1>9

-----------------------------------------------------------------------------
(* The tasks. *)

(* A step of one task that takes no lock. *)
LEMMA CambiaTarea ==
    ASSUME TareasBien, NEW t \in DOMAIN tareas, NEW r \in Tareas, TareaBien(t, r, ultimo),
           tareas' = [tareas EXCEPT ![t] = r], ultimo' = ultimo
    PROVE  TareasBien'
<1>1. tareas \in Seq(Tareas) /\ Len(tareas) \in Nat /\ DOMAIN tareas = 1..Len(tareas)
    BY DEF TareasBien
<1>2. tareas' \in Seq(Tareas) /\ Len(tareas') = Len(tareas) /\ DOMAIN tareas' = DOMAIN tareas
    BY <1>1
<1>3. \A u \in DOMAIN tareas : tareas'[u] = IF u = t THEN r ELSE tareas[u]
    BY <1>1
<1> QED
    BY <1>1, <1>2, <1>3 DEF TareasBien

LEMMA TareaTipo ==
    ASSUME TareasBien, NEW t \in DOMAIN tareas
    PROVE  /\ tareas[t] \in Tareas
           /\ TareaBien(t, tareas[t], ultimo)
           /\ t \in Nat \ {0}
<1>1. tareas \in Seq(Tareas) /\ Len(tareas) \in Nat /\ DOMAIN tareas = 1..Len(tareas)
    BY DEF TareasBien
<1> QED
    BY <1>1 DEF TareasBien

LEMMA LanzaPreserva ==
    ASSUME TareasBien, NEW via, NEW ev, NEW fase, NEW gw,
           via \in {"evento", "demo", "aviso", "tts", "pwa"}, ev \in Evs,
           fase \in SinHilo, gw \in {"llega", "hecha", "elevenlabs"},
           Lanza(via, ev, fase, gw)
    PROVE  TareasBien'
<1> DEFINE r == Tarea(via, ev, fase, gw)
<1>1. tareas \in Seq(Tareas) /\ Len(tareas) \in Nat /\ DOMAIN tareas = 1..Len(tareas)
    BY DEF TareasBien
<1>2. ModeloBase \in Modelos /\ Bloques \in Int
    BY NarracionAssumption
<1>3. r \in Tareas
    BY <1>2 DEF Tarea, Tareas
<1>4. tareas' = Append(tareas, r) /\ ultimo' = ultimo
    BY DEF Lanza
<1>5. ultimo \in 0..Len(tareas)
    BY DEF TareasBien
<1>6. TareaBien(Len(tareas) + 1, r, ultimo)
  <2>1. Len(tareas) + 1 # ultimo
    BY <1>1, <1>5
  <2>2. /\ r.dice = r.ev /\ r.fase = fase /\ r.cancel = FALSE /\ r.tras = 0
    BY DEF Tarea
  <2>3. fase \notin ConHilo
    BY DEF SinHilo, ConHilo
  <2> HIDE DEF r
  <2> QED
    BY <2>1, <2>2, <2>3 DEF TareaBien
<1> HIDE DEF r
<1>7. /\ tareas' \in Seq(Tareas) /\ Len(tareas') = Len(tareas) + 1
      /\ DOMAIN tareas' = 1..(Len(tareas) + 1)
      /\ \A t \in DOMAIN tareas : tareas'[t] = tareas[t]
      /\ tareas'[Len(tareas) + 1] = r
    BY <1>1, <1>3, <1>4
<1>8. \A t \in DOMAIN tareas' : TareaBien(t, tareas'[t], ultimo')
  <2> TAKE t \in DOMAIN tareas'
  <2>1. CASE t \in DOMAIN tareas
    BY <2>1, <1>4, <1>7 DEF TareasBien
  <2>2. CASE t = Len(tareas) + 1
    BY <2>2, <1>4, <1>6, <1>7
  <2> QED
    BY <2>1, <2>2, <1>1, <1>7
<1>9. ultimo' \in 0..Len(tareas')
    BY <1>1, <1>4, <1>5, <1>7
<1> QED
    BY <1>7, <1>8, <1>9 DEF TareasBien

LEMMA LanzarPreserva ==
    ASSUME IInv, Lanzar
    PROVE  IInv'
<1>1. UNCHANGED <<cfg, narr, cache>>
    BY DEF Lanzar, NarrateEvent, NarratePwa, NarrateDemo, Narrate, ComandoTts, Decir, Lanza
<1>2. Cualquiera \in Evs
    BY NarracionAssumption DEF Cualquiera, Evs
<1>3. TareasBien'
  <2>1. ASSUME NEW ev \in Eventos, NarrateEvent(ev) PROVE TareasBien'
    BY <2>1, LanzaPreserva DEF NarrateEvent, Decir, IInv, Evs, SinHilo
  <2>2. ASSUME NEW ev \in EventosPwa, NarratePwa(ev) PROVE TareasBien'
    BY <2>2, LanzaPreserva DEF NarratePwa, IInv, Evs, SinHilo
  <2>3. CASE NarrateDemo(Cualquiera)
    BY <2>3, <1>2, LanzaPreserva DEF NarrateDemo, Decir, IInv, SinHilo
  <2>4. CASE Narrate(Cualquiera)
    BY <2>4, <1>2, LanzaPreserva DEF Narrate, Decir, IInv, SinHilo
  <2>5. CASE ComandoTts(Cualquiera)
    BY <2>5, <1>2, LanzaPreserva DEF ComandoTts, Decir, IInv, SinHilo
  <2> QED
    BY <2>1, <2>2, <2>3, <2>4, <2>5 DEF Lanzar
<1> QED
    BY <1>1, <1>3 DEF IInv, CfgBien, CacheBien

-----------------------------------------------------------------------------
(* The gateway. *)

(* An event is told by its key, so what is under its key is about it. *)
LEMMA ClaveDeSuEvento ==
    ASSUME CacheBien, NEW ev \in Evs, NEW i \in EnCache(ev)
    PROVE  cache[i].texto.ev = ev
<1>1. /\ i \in DOMAIN cache
      /\ cache[i].clave = CacheKey(ev)
      /\ cache[i].clave = CacheKey(cache[i].texto.ev)
    BY DEF EnCache, CacheBien
<1>2. cache[i].texto.ev \in Evs
  <2>1. cache[i] \in Entradas
    BY <1>1 DEF CacheBien
  <2> QED
    BY <2>1 DEF Entradas
<1>3. \A e \in Evs : e = [tipo |-> e.tipo, datos |-> e.datos]
    BY NarracionAssumption DEF Evs
<1> QED
    BY <1>1, <1>2, <1>3 DEF CacheKey

(* A step of the gateway or of a wait: the thread has not started, or it     *)
(* goes on by itself.                                                        *)
LEMMA AtenderPreserva ==
    ASSUME IInv, NEW t \in DOMAIN tareas, AtenderNarrate(t)
    PROVE  IInv'
<1> DEFINE n == RefreshNarrator
<1>1. tareas[t] \in Tareas /\ TareaBien(t, tareas[t], ultimo)
    BY TareaTipo DEF IInv
<1>2. n \in [backend: {"default", "llm"}, modelo: Modelos]
    BY VigenteTipo DEF IInv, CfgBien, RefreshNarrator
<1>3. UNCHANGED <<cfg, cache, ultimo>> /\ narr' = n
    BY DEF AtenderNarrate
<1> HIDE DEF n
<1>4. PICK r \in Tareas : TareaBien(t, r, ultimo) /\ tareas' = [tareas EXCEPT ![t] = r]
  <2> USE DEF Tareas, TareaBien, SinHilo, ConHilo
  <2>1. CASE tareas' = [tareas EXCEPT ![t] = [tareas[t] EXCEPT !.gw = "hecha",
                                                 !.dice = Plantilla(tareas[t].ev).ev]]
    <3> DEFINE r == [tareas[t] EXCEPT !.gw = "hecha", !.dice = Plantilla(tareas[t].ev).ev]
    <3>1. r \in Tareas /\ TareaBien(t, r, ultimo)
      BY <1>1 DEF Plantilla
    <3> QED
      BY <2>1, <3>1
  <2>2. CASE tareas' = [tareas EXCEPT ![t] = [tareas[t] EXCEPT !.gw = "llm", !.modelo = n.modelo]]
    <3> DEFINE r == [tareas[t] EXCEPT !.gw = "llm", !.modelo = n.modelo]
    <3>1. r \in Tareas /\ TareaBien(t, r, ultimo)
      BY <1>1, <1>2
    <3> QED
      BY <2>2, <3>1
  <2>3. ASSUME NEW i \in EnCache(tareas[t].ev),
               tareas' = [tareas EXCEPT ![t] = [tareas[t] EXCEPT !.gw = "hecha",
                                                   !.dice = cache[i].texto.ev]]
        PROVE  \E r \in Tareas : TareaBien(t, r, ultimo) /\ tareas' = [tareas EXCEPT ![t] = r]
    <3> DEFINE r == [tareas[t] EXCEPT !.gw = "hecha", !.dice = cache[i].texto.ev]
    <3>1. cache[i].texto.ev = tareas[t].ev
      BY <1>1, ClaveDeSuEvento DEF IInv
    <3>2. r \in Tareas /\ TareaBien(t, r, ultimo)
      BY <1>1, <3>1
    <3> QED
      BY <2>3, <3>2
  <2> QED
    BY <2>1, <2>2, <2>3 DEF AtenderNarrate, Tar, n
<1>5. TareasBien'
    BY <1>3, <1>4, CambiaTarea DEF IInv
<1> QED
    BY <1>2, <1>3, <1>5 DEF IInv, CfgBien, CacheBien

LEMMA RecibirLlmPreserva ==
    ASSUME IInv, NEW t \in DOMAIN tareas, RecibirLlm(t)
    PROVE  IInv'
<1>1. tareas[t] \in Tareas /\ TareaBien(t, tareas[t], ultimo)
    BY TareaTipo DEF IInv
<1>2. UNCHANGED <<cfg, narr, ultimo>>
    BY DEF RecibirLlm
<1>3. CacheBien'
  <2>1. CASE Guardar(tareas[t].ev, [ev |-> tareas[t].ev, autor |-> tareas[t].modelo])
    BY <2>1, <1>1, GuardarPreserva DEF IInv, Tareas
  <2>2. CASE UNCHANGED cache
    BY <2>2 DEF IInv, CacheBien
  <2> QED
    BY <2>1, <2>2 DEF RecibirLlm, SinReescribir
<1>4. TareasBien'
  <2> DEFINE R(d) == [tareas[t] EXCEPT !.gw = "hecha", !.modelo = ModeloBase, !.dice = d]
  <2>1. tareas' = [tareas EXCEPT ![t] = R(tareas[t].ev)]
    BY <1>1 DEF RecibirLlm, Tar, Plantilla, TareaBien
  <2>2. R(tareas[t].ev) \in Tareas /\ TareaBien(t, R(tareas[t].ev), ultimo)
    BY <1>1, NarracionAssumption DEF Tareas, TareaBien, SinHilo, ConHilo
  <2> HIDE DEF R
  <2> QED
    BY <1>2, <2>1, <2>2, CambiaTarea DEF IInv
<1> QED
    BY <1>2, <1>3, <1>4 DEF IInv, CfgBien

LEMMA AudioSpeakPreserva ==
    ASSUME IInv, NEW t \in DOMAIN tareas, AudioSpeak(t)
    PROVE  IInv'
<1>1. tareas[t] \in Tareas /\ TareaBien(t, tareas[t], ultimo)
    BY TareaTipo DEF IInv
<1>2. UNCHANGED <<cfg, narr, cache, ultimo>>
    BY DEF AudioSpeak, Sin
<1>3. PICK r \in {[tareas[t] EXCEPT !.fase = "hilo"], [tareas[t] EXCEPT !.gw = "kokoro"],
                  [tareas[t] EXCEPT !.fase = "muda"]} :
         tareas' = [tareas EXCEPT ![t] = r]
    BY DEF AudioSpeak, Sin, Tar
<1>4. r \in Tareas /\ TareaBien(t, r, ultimo)
    BY <1>1, <1>3 DEF Tareas, TareaBien, SinHilo, ConHilo, AudioSpeak
<1>5. TareasBien'
    BY <1>2, <1>3, <1>4, CambiaTarea DEF IInv
<1> QED
    BY <1>2, <1>5 DEF IInv, CfgBien, CacheBien

-----------------------------------------------------------------------------
(* The threads. *)

(* Steps of a thread that has the lock or waits for a phrase. *)
LEMMA SinPreserva ==
    ASSUME IInv, NEW t \in DOMAIN tareas, NEW r \in Tareas, TareaBien(t, r, ultimo), Sin(t, r)
    PROVE  IInv'
<1>1. UNCHANGED <<cfg, narr, cache, ultimo>> /\ tareas' = [tareas EXCEPT ![t] = r]
    BY DEF Sin, Tar
<1>2. TareasBien'
    BY <1>1, CambiaTarea DEF IInv
<1> QED
    BY <1>1, <1>2 DEF IInv, CfgBien, CacheBien

LEMMA RecibirFrasePreserva ==
    ASSUME IInv, NEW t \in DOMAIN tareas, RecibirFrase(t)
    PROVE  IInv'
<1> DEFINE r == [tareas[t] EXCEPT !.fase = "hilo"]
<1>1. tareas[t] \in Tareas /\ TareaBien(t, tareas[t], ultimo)
    BY TareaTipo DEF IInv
<1>2. Sin(t, r) /\ tareas[t].fase = "pide"
    BY DEF RecibirFrase
<1>3. r \in Tareas /\ TareaBien(t, r, ultimo)
    BY <1>1, <1>2 DEF Tareas, TareaBien, SinHilo, ConHilo
<1> QED
    BY <1>2, <1>3, SinPreserva

LEMMA AgotarNarratePreserva ==
    ASSUME IInv, NEW t \in DOMAIN tareas, AgotarNarrate(t)
    PROVE  IInv'
<1> DEFINE r == [tareas[t] EXCEPT !.fase = SinFrase(tareas[t].via),
                                  !.dice = RespaldoLocal(tareas[t].ev)]
<1>1. tareas[t] \in Tareas /\ TareaBien(t, tareas[t], ultimo)
    BY TareaTipo DEF IInv
<1>2. Sin(t, r) /\ tareas[t].fase = "pide"
    BY DEF AgotarNarrate
<1>3. r \in Tareas /\ TareaBien(t, r, ultimo)
    BY <1>1, <1>2 DEF Tareas, TareaBien, SinHilo, ConHilo, SinFrase, RespaldoLocal
<1> QED
    BY <1>2, <1>3, SinPreserva

(* The lock: t becomes the last one, and the one before it is cancelled. *)
LEMMA SpeakBlockingPreserva ==
    ASSUME IInv, NEW t \in DOMAIN tareas, SpeakBlocking(t)
    PROVE  IInv'
<1>1. tareas[t] \in Tareas /\ TareaBien(t, tareas[t], ultimo) /\ t \in Nat \ {0}
    BY TareaTipo DEF IInv
<1>2. tareas \in Seq(Tareas) /\ Len(tareas) \in Nat /\ DOMAIN tareas = 1..Len(tareas)
    BY DEF IInv, TareasBien
<1>3. /\ tareas[t].fase = "hilo" /\ ultimo' = t
      /\ UNCHANGED <<cfg, narr, cache>>
      /\ tareas' = Interrumpir(t, [tareas EXCEPT ![t].fase = "abre"])
    BY DEF SpeakBlocking
<1>4. t # ultimo /\ ultimo \in 0..Len(tareas)
    BY <1>1, <1>3 DEF TareaBien, SinHilo, IInv, TareasBien
<1>5. /\ DOMAIN tareas' = DOMAIN tareas
      /\ tareas'[t] = [tareas[t] EXCEPT !.fase = "abre"]
      /\ ultimo # 0 => tareas'[ultimo] = [tareas[ultimo] EXCEPT !.cancel = TRUE]
      /\ \A u \in DOMAIN tareas \ {t, ultimo} : tareas'[u] = tareas[u]
      /\ tareas' \in [1..Len(tareas) -> Tareas]
  <2> DEFINE ts == [tareas EXCEPT ![t].fase = "abre"]
  <2>1. [tareas[t] EXCEPT !.fase = "abre"] \in Tareas
    BY <1>1 DEF Tareas, ConHilo
  <2>2. /\ ts \in [1..Len(tareas) -> Tareas]
        /\ ts[t] = [tareas[t] EXCEPT !.fase = "abre"]
        /\ \A u \in DOMAIN tareas \ {t} : ts[u] = tareas[u]
    BY <1>2, <2>1
  <2> HIDE DEF ts
  <2>3. CASE ultimo = 0
    BY <2>2, <2>3, <1>2, <1>3 DEF Interrumpir, ts
  <2>4. CASE ultimo # 0
    <3>1. ultimo \in DOMAIN tareas
      BY <2>4, <1>2, <1>4
    <3>2. tareas' = [ts EXCEPT ![ultimo].cancel = TRUE]
      BY <2>4, <1>3 DEF Interrumpir, ts
    <3>3. [ts[ultimo] EXCEPT !.cancel = TRUE] \in Tareas
      <4>1. ts[ultimo] \in Tareas
        BY <2>2, <3>1, <1>2
      <4> QED
        BY <4>1 DEF Tareas
    <3> QED
      BY <2>2, <3>1, <3>2, <3>3, <1>2, <1>4
  <2> QED
    BY <2>3, <2>4
<1>6. tareas' \in Seq(Tareas) /\ Len(tareas') = Len(tareas)
    BY <1>2, <1>5
<1>7. \A u \in DOMAIN tareas' : TareaBien(u, tareas'[u], t)
  <2> TAKE u \in DOMAIN tareas'
  <2>1. tareas[u] \in Tareas /\ TareaBien(u, tareas[u], ultimo)
    BY <1>5, TareaTipo DEF IInv
  <2>2. CASE u = t
    BY <2>1, <2>2, <1>3, <1>5 DEF TareaBien, Tareas, SinHilo, ConHilo
  <2>3. CASE u = ultimo /\ u # t
    <3>1. tareas'[u] = [tareas[u] EXCEPT !.cancel = TRUE] /\ tareas[u].fase \notin SinHilo
      BY <2>1, <2>3, <1>2, <1>5 DEF TareaBien
    <3> QED
      BY <2>1, <2>3, <3>1 DEF TareaBien, Tareas, SinHilo, ConHilo
  <2>4. CASE u # ultimo /\ u # t
    BY <2>1, <2>4, <1>5 DEF TareaBien
  <2> QED
    BY <2>2, <2>3, <2>4
<1>8. t \in 0..Len(tareas')
    BY <1>1, <1>2, <1>6
<1>9. TareasBien'
    BY <1>3, <1>6, <1>7, <1>8 DEF TareasBien
<1> QED
    BY <1>3, <1>9 DEF IInv, CfgBien, CacheBien

(* A thread that goes on with the lock, or ends. *)
Pasa(r, f) == [r EXCEPT !.fase = f]

LEMMA SigueBien ==
    ASSUME NEW t, NEW u, NEW r \in Tareas, TareaBien(t, r, u), r.fase \in ConHilo,
           NEW f \in ConHilo, f = "escribe" => r.cancel = FALSE
    PROVE  /\ Pasa(r, f) \in Tareas /\ TareaBien(t, Pasa(r, f), u)
           /\ Fin(r, f) \in Tareas /\ TareaBien(t, Fin(r, f), u)
<1>1. [r EXCEPT !.fase = f] \in Tareas /\ Fin(r, f) \in Tareas
  <2>1. [r EXCEPT !.fase = f] \in Tareas
    BY DEF Tareas
  <2> DEFINE n == 0
  <2>2. n \in Int
    OBVIOUS
  <2> HIDE DEF n
  <2>3. [r EXCEPT !.fase = f, !.resta = n] \in Tareas
    BY <2>2 DEF Tareas
  <2> QED
    BY <2>1, <2>3 DEF Fin, n
<1>2. f \notin SinHilo
    BY DEF SinHilo, ConHilo
<1>3. ASSUME NEW s \in {[r EXCEPT !.fase = f], Fin(r, f)} PROVE TareaBien(t, s, u)
  <2>1. /\ s.fase = f /\ s.dice = r.dice /\ s.ev = r.ev
        /\ s.cancel = r.cancel /\ s.tras = r.tras
    BY <1>3 DEF Fin, Tareas
  <2> QED
    BY <2>1, <1>2 DEF TareaBien
<1> QED
    BY <1>1, <1>3 DEF Pasa

LEMMA AbrirAudioPreserva ==
    ASSUME IInv, NEW t \in DOMAIN tareas, AbrirAudio(t)
    PROVE  IInv'
<1>1. tareas[t] \in Tareas /\ TareaBien(t, tareas[t], ultimo) /\ tareas[t].fase = "abre"
    BY TareaTipo DEF IInv, AbrirAudio
<1>2. PICK r \in {Pasa(tareas[t], "revisa"), Fin(tareas[t], "sin audio")} : Sin(t, r)
    BY DEF AbrirAudio, Pasa
<1>3. tareas[t].fase \in ConHilo /\ {"revisa", "sin audio"} \subseteq ConHilo
    BY <1>1 DEF ConHilo
<1>4. r \in Tareas /\ TareaBien(t, r, ultimo)
    BY <1>1, <1>2, <1>3, SigueBien
<1> QED
    BY <1>2, <1>4, SinPreserva

LEMMA SpeakWithCancelPreserva ==
    ASSUME IInv, NEW t \in DOMAIN tareas, SpeakWithCancel(t)
    PROVE  IInv'
<1>1. tareas[t] \in Tareas /\ TareaBien(t, tareas[t], ultimo) /\ tareas[t].fase = "revisa"
    BY TareaTipo DEF IInv, SpeakWithCancel
<1>a. /\ tareas[t].fase \in ConHilo
      /\ "sonada" \in ConHilo /\ "escribe" \in ConHilo /\ "interrumpida" \in ConHilo
    BY <1>1 DEF ConHilo
<1>b. ASSUME NEW f \in {"sonada", "interrumpida"}
      PROVE  Fin(tareas[t], f) \in Tareas /\ TareaBien(t, Fin(tareas[t], f), ultimo)
    BY <1>1, <1>a, SigueBien
<1>c. tareas[t].cancel = FALSE =>
         Pasa(tareas[t], "escribe") \in Tareas /\ TareaBien(t, Pasa(tareas[t], "escribe"), ultimo)
    BY <1>1, <1>a, SigueBien
<1>2. CASE tareas[t].cancel = FALSE
  <2>1. PICK r \in {Fin(tareas[t], "sonada"), Pasa(tareas[t], "escribe")} : Sin(t, r)
    BY <1>2 DEF SpeakWithCancel, Cancelado, Pasa
  <2>2. r \in Tareas /\ TareaBien(t, r, ultimo)
    BY <1>b, <1>c, <1>2, <2>1
  <2> QED
    BY <2>1, <2>2, SinPreserva
<1>3. CASE tareas[t].cancel = TRUE
  <2>1. PICK r \in {Fin(tareas[t], "sonada"), Fin(tareas[t], "interrumpida")} : Sin(t, r)
    BY <1>3 DEF SpeakWithCancel, Cancelado
  <2>2. r \in Tareas /\ TareaBien(t, r, ultimo)
    BY <1>b, <1>3, <2>1
  <2> QED
    BY <2>1, <2>2, SinPreserva
<1> QED
    BY <1>1, <1>2, <1>3 DEF Tareas

(* A block is written by a task that had not seen its event set. *)
LEMMA OtroBloque ==
    ASSUME NEW t, NEW u, NEW q \in Tareas, TareaBien(t, q, u), q.fase = "escribe"
    PROVE  LET s == [q EXCEPT !.fase = "revisa", !.resta = q.resta - 1,
                              !.tras = IF q.cancel THEN q.tras + 1 ELSE q.tras]
           IN  s \in Tareas /\ TareaBien(t, s, u)
<1> DEFINE a == q.resta - 1
           b == IF q.cancel THEN q.tras + 1 ELSE q.tras
           s == [q EXCEPT !.fase = "revisa", !.resta = a, !.tras = b]
<1>1. q.tras = 0 /\ q.resta \in Int
    BY DEF TareaBien, Tareas
<1>2. a \in Int
    BY <1>1
<1>3. b = (IF q.cancel THEN 1 ELSE 0)
    BY <1>1
<1> HIDE DEF a, b
<1>4. /\ s \in Tareas /\ s.fase = "revisa" /\ s.tras = b
      /\ s.dice = q.dice /\ s.ev = q.ev /\ s.cancel = q.cancel
    BY <1>2, <1>3 DEF Tareas, ConHilo
<1> HIDE DEF s
<1>5. TareaBien(t, s, u)
    BY <1>3, <1>4 DEF TareaBien, SinHilo, ConHilo
<1> QED
    BY <1>4, <1>5 DEF s, a, b

LEMMA EscribirBloquePreserva ==
    ASSUME IInv, NEW t \in DOMAIN tareas, EscribirBloque(t)
    PROVE  IInv'
<1> DEFINE q == tareas[t]
           s == [q EXCEPT !.fase = "revisa", !.resta = q.resta - 1,
                          !.tras = IF q.cancel THEN q.tras + 1 ELSE q.tras]
<1>1. tareas[t] \in Tareas /\ TareaBien(t, tareas[t], ultimo) /\ tareas[t].fase = "escribe"
    BY TareaTipo DEF IInv, EscribirBloque
<1>2. PICK r \in {s, Fin(tareas[t], "sin audio")} : Sin(t, r)
    BY DEF EscribirBloque
<1>3. s \in Tareas /\ TareaBien(t, s, ultimo)
    BY <1>1, OtroBloque
<1>4. Fin(tareas[t], "sin audio") \in Tareas /\ TareaBien(t, Fin(tareas[t], "sin audio"), ultimo)
    BY <1>1, SigueBien DEF ConHilo
<1> HIDE DEF q, s
<1> QED
    BY <1>2, <1>3, <1>4, SinPreserva DEF q

-----------------------------------------------------------------------------
(* The theorems. *)

LEMMA NextIInv == IInv /\ [Next]_vars => IInv'
<1> SUFFICES ASSUME IInv, [Next]_vars PROVE IInv'
    OBVIOUS
<1>1. CASE Configurar
    BY <1>1, ConfigurarPreserva
<1>2. CASE Lanzar
    BY <1>2, LanzarPreserva
<1>3. ASSUME NEW t \in DOMAIN tareas, Pasarela(t) PROVE IInv'
    BY <1>3, AtenderPreserva, RecibirLlmPreserva, AudioSpeakPreserva DEF Pasarela
<1>4. ASSUME NEW t \in DOMAIN tareas, Hilo(t) PROVE IInv'
    BY <1>4, RecibirFrasePreserva, SpeakBlockingPreserva, AbrirAudioPreserva,
       SpeakWithCancelPreserva, EscribirBloquePreserva DEF Hilo
<1>5. ASSUME NEW t \in DOMAIN tareas, AgotarNarrate(t) PROVE IInv'
    BY <1>5, AgotarNarratePreserva
<1>6. CASE UNCHANGED vars
    BY <1>6 DEF vars, IInv, CfgBien, CacheBien, TareasBien
<1> QED
    BY <1>1, <1>2, <1>3, <1>4, <1>5, <1>6 DEF Next

(* The invariant on which the rest stands is one of every reachable state:   *)
(* no interleaving of requests, awaits, threads and changes of configuration *)
(* breaks it.                                                                *)
THEOREM NarracionInvariante == Spec => []IInv
<1> QED
    BY InitIInv, NextIInv, PTL DEF Spec

(* Types, and the bound of the cache of narrator.py with one entry per key,  *)
(* however many requests were waiting for the LLM at once.                   *)
THEOREM NarracionTipo == Spec => []TypeOK
<1>1. IInv => TypeOK
  <2> SUFFICES ASSUME IInv PROVE TypeOK
    OBVIOUS
  <2>1. \A t \in DOMAIN tareas : tareas[t].fase \in SinHilo \cup ConHilo
    BY TareaTipo DEF IInv, Tareas
  <2> QED
    BY <2>1 DEF IInv, CfgBien, CacheBien, TareasBien, TypeOK, SinHilo, ConHilo, Terminales
<1> QED
    BY <1>1, NarracionInvariante, PTL

(* The thread of tts_client.py that took the lock last is the only one whose *)
(* event is not set: "el usuario siempre escucha lo mas reciente".           *)
THEOREM UnaSolaVozSiempre == Spec => []UnaSolaVoz
<1>1. IInv => UnaSolaVoz
  <2> SUFFICES ASSUME IInv, NEW t \in DOMAIN tareas,
                      tareas[t].fase \in {"abre", "revisa", "escribe", "interrumpida"}
               PROVE  tareas[t].cancel <=> t # ultimo
    BY DEF UnaSolaVoz
  <2>1. IF t = ultimo THEN tareas[t].cancel = FALSE ELSE tareas[t].cancel = TRUE
    BY TareaTipo DEF IInv, TareaBien, ConHilo
  <2> QED
    BY <2>1
<1> QED
    BY <1>1, NarracionInvariante, PTL

(* An interrupted playback writes at most the block it was about to write.   *)
THEOREM UnBloqueSiempre == Spec => []UnBloqueTrasCancelar
<1>1. IInv => UnBloqueTrasCancelar
    BY TareaTipo DEF IInv, UnBloqueTrasCancelar, Tareas
<1> QED
    BY <1>1, NarracionInvariante, PTL

(* What is said of an event is about that event, from the cache, from the    *)
(* LLM, from the template or in the words of the CLI.                        *)
THEOREM FraseSiempreDeSuEvento == Spec => []FraseDeSuEvento
<1>1. IInv => FraseDeSuEvento
    BY TareaTipo DEF IInv, FraseDeSuEvento, TareaBien
<1> QED
    BY <1>1, NarracionInvariante, PTL

(* A template is never cached in the place of a phrase of the LLM.           *)
THEOREM SiempreReescritas == Spec => []SoloReescritas
<1>1. IInv => SoloReescritas
  <2> SUFFICES ASSUME IInv, NEW i \in DOMAIN cache PROVE cache[i].texto.autor \in Modelos
    BY DEF SoloReescritas
  <2>1. cache[i] \in Entradas
    BY DEF IInv, CacheBien
  <2> QED
    BY <2>1 DEF Entradas
<1> QED
    BY <1>1, NarracionInvariante, PTL

-----------------------------------------------------------------------------
(* /api/narrate *)

(* What the gateway does with the request of t when it takes it up. *)
AlDia(t) ==
    tareas[t].gw = "llega" /\ tareas'[t].gw # "llega" =>
        IF PickNarrador(cfg) = "llm" /\ EnCache(tareas[t].ev) = {}
        THEN tareas'[t].gw = "llm" /\ tareas'[t].modelo = ModeloActivo(cfg)
        ELSE tareas'[t].gw = "hecha"

(* Any other step leaves the request of t as it was, or is one of another    *)
(* task.                                                                     *)
LEMMA OtraTarea ==
    ASSUME TareasBien, NEW t \in DOMAIN tareas, NEW u \in DOMAIN tareas, NEW r,
           tareas' = [tareas EXCEPT ![u] = r],
           r.gw = tareas[u].gw \/ tareas[u].gw # "llega"
    PROVE  AlDia(t)
<1>1. tareas'[t] = IF t = u THEN r ELSE tareas[t]
    BY DEF TareasBien
<1> QED
    BY <1>1 DEF AlDia

LEMMA AtenderAlDia ==
    ASSUME IInv, NEW t \in DOMAIN tareas, NEW u \in DOMAIN tareas, AtenderNarrate(u)
    PROVE  AlDia(t)
<1>1. tareas[u] \in Tareas /\ tareas \in Seq(Tareas)
    BY TareaTipo DEF IInv, TareasBien
<1>2. CASE t # u
  <2>1. tareas'[t] = tareas[t]
    BY <1>1, <1>2 DEF AtenderNarrate, Tar
  <2> QED
    BY <2>1 DEF AlDia
<1>3. CASE t = u
  <2>1. CASE PickNarrador(cfg) # "llm"
    <3>1. tareas'[t] = [tareas[t] EXCEPT !.gw = "hecha", !.dice = Plantilla(tareas[t].ev).ev]
      BY <1>1, <1>3, <2>1 DEF AtenderNarrate, Tar, RefreshNarrator, Vigente
    <3>2. tareas'[t].gw = "hecha"
      BY <1>1, <1>3, <3>1 DEF Tareas
    <3> QED
      BY <2>1, <3>2 DEF AlDia
  <2>2. CASE PickNarrador(cfg) = "llm" /\ EnCache(tareas[t].ev) = {}
    <3>1. tareas'[t] = [tareas[t] EXCEPT !.gw = "llm", !.modelo = ModeloActivo(cfg)]
      BY <1>1, <1>3, <2>2 DEF AtenderNarrate, Tar, RefreshNarrator, Vigente
    <3>2. tareas'[t].gw = "llm" /\ tareas'[t].modelo = ModeloActivo(cfg)
      BY <1>1, <1>3, <3>1 DEF Tareas
    <3> QED
      BY <2>2, <3>2 DEF AlDia
  <2>3. CASE PickNarrador(cfg) = "llm" /\ EnCache(tareas[t].ev) # {}
    <3>1. PICK i : tareas'[t] = [tareas[t] EXCEPT !.gw = "hecha", !.dice = cache[i].texto.ev]
      BY <1>1, <1>3, <2>3 DEF AtenderNarrate, Tar, RefreshNarrator, Vigente
    <3>2. tareas'[t].gw = "hecha"
      BY <1>1, <1>3, <3>1 DEF Tareas
    <3> QED
      BY <2>3, <3>2 DEF AlDia
  <2> QED
    BY <2>1, <2>2, <2>3
<1> QED
    BY <1>2, <1>3

LEMMA PasarelaAlDia ==
    ASSUME IInv, NEW t \in DOMAIN tareas, NEW u \in DOMAIN tareas, Pasarela(u)
    PROVE  AlDia(t)
<1> DEFINE q == tareas[u]
<1>1. TareasBien /\ q \in Tareas
    BY TareaTipo DEF IInv
<1>2. CASE RecibirLlm(u)
  <2>1. q.gw = "llm"
    BY <1>2 DEF RecibirLlm
  <2>2. PICK r : tareas' = [tareas EXCEPT ![u] = r]
    BY <1>2 DEF RecibirLlm, Tar
  <2> QED
    BY <1>1, <2>1, <2>2, OtraTarea
<1>3. CASE AudioSpeak(u)
  <2>1. PICK r : tareas' = [tareas EXCEPT ![u] = r] /\ (r.gw = q.gw \/ q.gw # "llega")
    <3>1. [q EXCEPT !.fase = "hilo"].gw = q.gw /\ [q EXCEPT !.fase = "muda"].gw = q.gw
      BY <1>1 DEF Tareas
    <3>2. \/ \E r \in {[q EXCEPT !.fase = "hilo"], [q EXCEPT !.fase = "muda"]} :
                tareas' = [tareas EXCEPT ![u] = r]
          \/ /\ q.gw = "elevenlabs"
             /\ tareas' = [tareas EXCEPT ![u] = [q EXCEPT !.gw = "kokoro"]]
      BY <1>3 DEF AudioSpeak, Sin, Tar
    <3> HIDE DEF q
    <3> QED
      BY <3>1, <3>2
  <2> QED
    BY <1>1, <2>1, OtraTarea
<1> QED
    BY <1>2, <1>3, AtenderAlDia DEF Pasarela

LEMMA HiloAlDia ==
    ASSUME IInv, NEW t \in DOMAIN tareas, NEW u \in DOMAIN tareas, Hilo(u) \/ AgotarNarrate(u)
    PROVE  AlDia(t)
<1> DEFINE q == tareas[u]
<1>1. TareasBien /\ q \in Tareas /\ tareas \in Seq(Tareas)
    BY TareaTipo DEF IInv, TareasBien
<1>2. \A f : [q EXCEPT !.fase = f].gw = q.gw /\ Fin(q, f).gw = q.gw
    BY <1>1 DEF Tareas, Fin
<1>3. CASE SpeakBlocking(u)
  <2> DEFINE ts == [tareas EXCEPT ![u].fase = "abre"]
  <2>1. /\ DOMAIN ts = DOMAIN tareas
        /\ \A v \in DOMAIN tareas : ts[v].gw = tareas[v].gw /\ DOMAIN ts[v] = DOMAIN tareas[v]
    BY <1>1 DEF Tareas
  <2>2. tareas' = Interrumpir(u, ts)
    BY <1>3 DEF SpeakBlocking
  <2> HIDE DEF ts
  <2>3. \A x : [x EXCEPT !.cancel = TRUE].gw = x.gw \/ "gw" \notin DOMAIN x
    OBVIOUS
  <2>4. "gw" \in DOMAIN tareas[t]
    <3>1. tareas[t] \in Tareas
      BY TareaTipo DEF IInv
    <3> QED
      BY <3>1 DEF Tareas
  <2>5. tareas'[t].gw = tareas[t].gw
    BY <2>1, <2>2, <2>3, <2>4 DEF Interrumpir
  <2> QED
    BY <2>5 DEF AlDia
<1>4. CASE ~SpeakBlocking(u)
  <2>1. \E r : tareas' = [tareas EXCEPT ![u] = r] /\ r.gw = q.gw
    <3>1. CASE EscribirBloque(u)
      <4> DEFINE s == [q EXCEPT !.fase = "revisa", !.resta = @ - 1,
                                !.tras = IF q.cancel THEN @ + 1 ELSE @]
      <4>1. s.gw = q.gw
        BY <1>1 DEF Tareas
      <4> QED
        BY <1>2, <3>1, <4>1 DEF EscribirBloque, Sin, Tar
    <3>2. CASE AgotarNarrate(u)
      <4> DEFINE s == [q EXCEPT !.fase = SinFrase(q.via), !.dice = RespaldoLocal(q.ev)]
      <4>1. s.gw = q.gw
        BY <1>1 DEF Tareas
      <4> QED
        BY <3>2, <4>1 DEF AgotarNarrate, Sin, Tar
    <3>3. CASE RecibirFrase(u) \/ AbrirAudio(u)
      BY <1>2, <3>3 DEF RecibirFrase, AbrirAudio, Sin, Tar
    <3>4. CASE SpeakWithCancel(u)
      BY <1>2, <3>4 DEF SpeakWithCancel, Sin, Tar
    <3> QED
      BY <1>4, <3>1, <3>2, <3>3, <3>4 DEF Hilo
  <2> QED
    BY <1>1, <2>1, OtraTarea
<1> QED
    BY <1>3, <1>4

(* /api/narrate works with the configuration in force, stale as the narrator *)
(* may have been.                                                            *)
THEOREM NarradorSiempreAlDia == Spec => NarradorAlDia
<1>1. ASSUME IInv, [Next]_vars, NEW t \in DOMAIN tareas PROVE AlDia(t)
  <2>1. CASE Configurar \/ UNCHANGED vars
    BY <2>1 DEF Configurar, vars, AlDia
  <2>2. CASE Lanzar
    <3>1. PICK r : tareas' = Append(tareas, r)
      BY <2>2 DEF Lanzar, NarrateEvent, NarratePwa, NarrateDemo, Narrate, ComandoTts, Decir, Lanza
    <3>2. tareas \in Seq(Tareas)
      BY <1>1 DEF IInv, TareasBien
    <3>3. tareas'[t] = tareas[t]
      BY <3>1, <3>2
    <3> QED
      BY <3>3 DEF AlDia
  <2> QED
    BY <1>1, <2>1, <2>2, PasarelaAlDia, HiloAlDia DEF Next
<1>2. IInv /\ [Next]_vars => [\A t \in DOMAIN tareas : AlDia(t)]_vars
    BY <1>1
<1> QED
    BY <1>2, NarracionInvariante, PTL DEF Spec, NarradorAlDia, AlDia
=============================================================================
