----------------------------- MODULE Narracion -----------------------------
(***************************************************************************)
(* What the CLI says aloud.  An event of handle_query becomes a task that   *)
(* asks /api/narrate for a phrase, whose Narrator (llm_common/narrator.py)  *)
(* rewrites a template with an LLM and caches it; a thread of tts_client    *)
(* plays it and interrupts the one before.  Meanwhile anybody may change    *)
(* the configuration of the api-gateway.  A phrase is the event it is about *)
(* and its author; an audio, a number of blocks.                            *)
(***************************************************************************)
EXTENDS Integers, Sequences, FiniteSets

CONSTANTS
    CloudEnabled, (* CLOUD_ENABLED                                           *)
    Eventos,      (* events of the CLI with their data: [tipo, datos]        *)
    EventosPwa,   (* and of the PWA                                          *)
    Modelos,      (* slugs of OpenRouter                                     *)
    Pedidos,      (* bodies of POST /api/config: see PedidosPosibles         *)
    ModeloBase,   (* NARRATOR_MODEL                                          *)
    MaxCache,     (* _cache_max                                              *)
    Bloques,      (* length of an audio                                      *)
    MaxCarga,     (* bound on what is to be said: 2 a task of the CLI, 1 the *)
                  (* request of a PWA                                        *)
    MaxCambios,   (* bound on changes of configuration                       *)
    MaxFallas     (* bound on failures and timeouts                          *)

(* "nada" is a field left out.  "otros" stands for llm, stt and tts, which   *)
(* say nothing to the narrator.                                              *)
PedidosPosibles ==
    [nube: {"nada", "si", "no"}, otros: {"bien", "mal"},
     narrador: {"nada", "auto", "default", "llm", "mal"},
     modelo: {"nada", "auto"} \cup Modelos]

ASSUME NarracionAssumption ==
    /\ CloudEnabled \in BOOLEAN /\ Pedidos \subseteq PedidosPosibles
    /\ ModeloBase \in Modelos /\ Eventos # {}
    /\ \A ev \in Eventos \cup EventosPwa : ev = [tipo |-> ev.tipo, datos |-> ev.datos]
    /\ Modelos \cap {"auto", "nada"} = {}
    /\ {MaxCache, Bloques, MaxCarga, MaxCambios, MaxFallas} \subseteq Nat
    /\ MaxCache > 1

VARIABLES
    cfg,       (* _cloud_toggle and the overrides for the narrator           *)
    narr,      (* _narrator.config                                           *)
    cache,     (* _narrator._cache, in order of insertion                    *)
    tareas,    (* what is to be said: the task, its request and its thread   *)
    ultimo,    (* whose event _cancel_event is, 0 at the start               *)
    cambios, fallas

vars == <<cfg, narr, cache, tareas, ultimo, cambios, fallas>>

PickNarrador(c) == IF c.narrador # "auto" THEN c.narrador
                   ELSE IF c.nube THEN "llm" ELSE "default"
ModeloActivo(c) == IF c.modelo = "auto" THEN ModeloBase ELSE c.modelo

(* _refresh_narrator *)
Vigente(c) == [backend |-> PickNarrador(c), modelo |-> ModeloActivo(c)]

Init ==
    /\ cfg = [nube |-> CloudEnabled, narrador |-> "auto", modelo |-> "auto"]
    /\ narr = [backend |-> "default", modelo |-> ModeloBase]
    /\ cache = <<>> /\ tareas = <<>>
    /\ ultimo = 0 /\ cambios = 0 /\ fallas = 0

Falla == fallas < MaxFallas /\ fallas' = fallas + 1

-----------------------------------------------------------------------------
(* Configuration                                                             *)

Campo(viejo, v) == IF v = "nada" THEN viejo ELSE v

(* POST /api/config: field by field, and the first invalid one is a 400 that *)
(* leaves the earlier ones changed and the narrator as it was.               *)
UpdateConfig ==
    \E r \in Pedidos :
        LET c1 == [cfg EXCEPT !.nube = IF r.nube = "nada" THEN @ ELSE r.nube = "si"]
            c2 == [c1 EXCEPT !.narrador = Campo(@, r.narrador),
                             !.modelo = Campo(@, r.modelo)]
            mal == "mal" \in {r.otros, r.narrador}
        IN  /\ cfg' = IF mal THEN c1 ELSE c2
            /\ narr' = IF mal THEN narr ELSE Vigente(c2)

(* POST /api/models/select, without the lock of the other.                   *)
SelectModel ==
    \E m \in Modelos \cup {"auto"} :
        /\ cfg' = [cfg EXCEPT !.modelo = m]
        /\ narr' = Vigente([cfg EXCEPT !.modelo = m])

Configurar ==
    /\ cambios < MaxCambios /\ cambios' = cambios + 1
    /\ UpdateConfig \/ SelectModel
    /\ UNCHANGED <<cache, tareas, ultimo, fallas>>

-----------------------------------------------------------------------------
(* The CLI launches what it has to say                                       *)

Plantilla(ev) == [ev |-> ev, autor |-> "plantilla"]    (* _build_default      *)
RespaldoLocal(ev) == ev                                (* _narrate_fallback   *)

Tarea(via, ev, fase, gw) ==
    [via |-> via, ev |-> ev, fase |-> fase, gw |-> gw, modelo |-> ModeloBase,
     dice |-> ev, cancel |-> FALSE, resta |-> Bloques, tras |-> 0]

Terminales == {"sonada", "interrumpida", "sin audio", "muda"}

DeLaCli == {t \in DOMAIN tareas : tareas[t].via # "pwa"}

Lanza(via, ev, fase, gw) ==
    /\ Len(tareas) + Cardinality(DeLaCli) + (IF via = "pwa" THEN 1 ELSE 2) <= MaxCarga
    /\ tareas' = Append(tareas, Tarea(via, ev, fase, gw))
    /\ UNCHANGED <<cfg, narr, cache, ultimo, cambios, fallas>>

(* Events and warnings go in tasks of their own; the commands tts and        *)
(* narrate are awaited, and the CLI reads nothing else meanwhile.            *)
Decir(via, ev, fase, gw) ==
    /\ \A t \in DeLaCli :
          tareas[t].via \in {"tts", "demo"} => tareas[t].fase \in Terminales
    /\ Lanza(via, ev, fase, gw)

NarrateEvent(ev) == Decir("evento", ev, "pide", "llega")
NarrateDemo(ev)  == Decir("demo", ev, "pide", "llega")
Narrate(ev)      == Decir("aviso", ev, "hilo", "hecha")
ComandoTts(ev)   == Decir("tts", ev, "sintetiza", "elevenlabs")

(* The PWA asks for phrases too, and plays them by itself.                   *)
NarratePwa(ev)   == Lanza("pwa", ev, "muda", "llega")

(* A playback that is over keeps how it ended.                               *)
Fin(r, fase) == [r EXCEPT !.fase = fase, !.resta = 0]

Tar(t, r) == tareas' = [tareas EXCEPT ![t] = r]
Sin(t, r) == Tar(t, r) /\ UNCHANGED <<cfg, narr, cache, ultimo, cambios>>

-----------------------------------------------------------------------------
(* The gateway                                                               *)

(* _cache_key: the event and every datum that goes into the text, but        *)
(* top_unidad, which every caller sets to "Unidad".  Variant: the kind of    *)
(* event alone.                                                              *)
CacheKeyTipo(ev) == <<ev.tipo>>
CacheKey(ev)     == <<ev.tipo, ev.datos>>

EnCache(ev) == {i \in DOMAIN cache : cache[i].clave = CacheKey(ev)}

(* What /api/narrate does to the singleton first.  Variant: nothing, because *)
(* every change of configuration refreshes it.                               *)
RefreshNarratorNada == narr
RefreshNarrator     == Vigente(cfg)

AtenderNarrate(t) ==
    LET r == tareas[t]  n == RefreshNarrator IN
    /\ r.gw = "llega"
    /\ narr' = n
    /\ IF n.backend # "llm"
       THEN Tar(t, [r EXCEPT !.gw = "hecha", !.dice = Plantilla(r.ev).ev])
       ELSE IF EnCache(r.ev) = {} THEN Tar(t, [r EXCEPT !.gw = "llm", !.modelo = n.modelo])
       ELSE \E i \in EnCache(r.ev) :
               Tar(t, [r EXCEPT !.gw = "hecha", !.dice = cache[i].texto.ev])
    /\ UNCHANGED <<cfg, cache, ultimo, cambios, fallas>>

(* Half of it goes when it is full.  Variant: when it is more than full.     *)
LlenaTarde == Len(cache) > MaxCache
Llena      == Len(cache) >= MaxCache

(* The insertion after the await: another request may have filled the cache, *)
(* or written the same key, which keeps its place.                           *)
Guardar(ev, texto) ==
    LET resto == IF Llena THEN SubSeq(cache, (MaxCache \div 2) + 1, Len(cache)) ELSE cache
        nuevo == [clave |-> CacheKey(ev), texto |-> texto]
    IN  cache' = IF \A i \in DOMAIN resto : resto[i].clave # nuevo.clave
                 THEN Append(resto, nuevo)
                 ELSE [i \in DOMAIN resto |->
                          IF resto[i].clave = nuevo.clave THEN nuevo ELSE resto[i]]

(* What is done with the template when the LLM fails.  Variant: cached too.  *)
SinReescribirGuarda(ev) == Guardar(ev, Plantilla(ev))
SinReescribir(ev)       == UNCHANGED cache

RecibirLlm(t) ==
    LET r == tareas[t]
        Con(texto) == Tar(t, [r EXCEPT !.gw = "hecha",
                              !.modelo = ModeloBase,
                              !.dice = IF r.fase = "pide" \/ r.via = "pwa" THEN texto.ev ELSE @])
    IN  /\ r.gw = "llm"
        /\ \/ /\ Con([ev |-> r.ev, autor |-> r.modelo])
              /\ Guardar(r.ev, [ev |-> r.ev, autor |-> r.modelo])
              /\ UNCHANGED fallas
           \/ Falla /\ Con(Plantilla(r.ev)) /\ SinReescribir(r.ev)
        /\ UNCHANGED <<cfg, narr, ultimo, cambios>>

(* /api/audio/speak, for the command tts: ElevenLabs and then Kokoro.        *)
AudioSpeak(t) ==
    LET r == tareas[t] IN
    /\ r.fase = "sintetiza"
    /\ \/ Sin(t, [r EXCEPT !.fase = "hilo"]) /\ UNCHANGED fallas
       \/ /\ Falla
          /\ Sin(t, IF r.gw = "elevenlabs" THEN [r EXCEPT !.gw = "kokoro"]
                    ELSE [r EXCEPT !.fase = "muda"])

-----------------------------------------------------------------------------
(* The tasks and threads of the CLI                                          *)

RecibirFrase(t) ==
    LET r == tareas[t] IN
    /\ r.fase = "pide" /\ r.gw = "hecha"
    /\ Sin(t, [r EXCEPT !.fase = "hilo"]) /\ UNCHANGED fallas

(* Without a phrase, an event is said in words of the CLI; the demo gives    *)
(* up.  Variant: so does the event.                                          *)
SinFraseMuda(via) == "muda"
SinFrase(via)     == IF via = "evento" THEN "hilo" ELSE "muda"

(* The 5 s (15 s, the demo) are over, or the gateway answers with an error.  *)
(* Its handler goes on until the 30 s of the LLM.                            *)
AgotarNarrate(t) ==
    LET r == tareas[t] IN
    /\ r.fase = "pide"
    /\ Falla
    /\ Sin(t, [r EXCEPT !.fase = SinFrase(r.via), !.dice = RespaldoLocal(r.ev)])

(* The events of the threads when t takes the lock: the previous one is set, *)
(* then t has a new one.  Variant: in the other order.                       *)
InterrumpirAlReves(t, ts) == [ts EXCEPT ![t].cancel = TRUE]
Interrumpir(t, ts) ==
    IF ultimo = 0 THEN ts ELSE [ts EXCEPT ![ultimo].cancel = TRUE]

(* _speak_blocking and _play_pcm_blocking, under _play_lock.                 *)
SpeakBlocking(t) ==
    /\ tareas[t].fase = "hilo"
    /\ tareas' = Interrumpir(t, [tareas EXCEPT ![t].fase = "abre"])
    /\ ultimo' = t
    /\ UNCHANGED <<cfg, narr, cache, cambios, fallas>>

(* Kokoro's whole answer, unless the audio came with the command, and then   *)
(* the device.  Nothing here looks at the event.                             *)
AbrirAudio(t) ==
    LET r == tareas[t] IN
    /\ r.fase = "abre"
    /\ \/ Sin(t, [r EXCEPT !.fase = "revisa"]) /\ UNCHANGED fallas
       \/ Falla /\ Sin(t, Fin(r, "sin audio"))

(* The loop over the blocks: end of the audio, interrupted, or write one.    *)
(* Variant: only the first block is preceded by a look at the event.         *)
CanceladoAlEmpezar(r) == r.cancel /\ r.resta = Bloques
Cancelado(r)          == r.cancel

SpeakWithCancel(t) ==
    LET r == tareas[t] IN
    /\ r.fase = "revisa"
    /\ Sin(t, IF r.resta = 0 THEN Fin(r, "sonada")
              ELSE IF Cancelado(r) THEN Fin(r, "interrumpida")
              ELSE [r EXCEPT !.fase = "escribe"])
    /\ UNCHANGED fallas

EscribirBloque(t) ==
    LET r == tareas[t] IN
    /\ r.fase = "escribe"
    /\ \/ /\ Sin(t, [r EXCEPT !.fase = "revisa", !.resta = @ - 1,
                              !.tras = IF r.cancel THEN @ + 1 ELSE @])
          /\ UNCHANGED fallas
       \/ Falla /\ Sin(t, Fin(r, "sin audio"))

-----------------------------------------------------------------------------
Pasarela(t) == AtenderNarrate(t) \/ RecibirLlm(t) \/ AudioSpeak(t)
Hilo(t) == \/ RecibirFrase(t) \/ SpeakBlocking(t) \/ AbrirAudio(t)
           \/ SpeakWithCancel(t) \/ EscribirBloque(t)

(* What a warning, the demo or the text of tts says is no matter.            *)
Cualquiera == CHOOSE ev \in Eventos : TRUE

Lanzar == \/ \E ev \in Eventos : NarrateEvent(ev)
          \/ \E ev \in EventosPwa : NarratePwa(ev)
          \/ NarrateDemo(Cualquiera) \/ Narrate(Cualquiera) \/ ComandoTts(Cualquiera)

Next ==
    \/ Configurar \/ Lanzar
    \/ \E t \in DOMAIN tareas : Pasarela(t) \/ Hilo(t) \/ AgotarNarrate(t)

(* Every wait has a timeout: 30 s the LLM, 120 s the audio.                  *)
Spec ==
    /\ Init /\ [][Next]_vars
    /\ \A t \in 1..MaxCarga : /\ WF_vars(t \in DOMAIN tareas /\ Pasarela(t))
                              /\ WF_vars(t \in DOMAIN tareas /\ Hilo(t))

-----------------------------------------------------------------------------
(* Types; the cache has one entry per key and never outgrows _cache_max,     *)
(* however many requests were waiting for the LLM at once.                   *)
TypeOK ==
    /\ cfg \in [nube: BOOLEAN, narrador: {"auto", "default", "llm"},
                modelo: {"auto"} \cup Modelos]
    /\ narr \in [backend: {"default", "llm"}, modelo: Modelos]
    /\ Len(cache) <= MaxCache
    /\ \A i, j \in DOMAIN cache : cache[i].clave = cache[j].clave => i = j
    /\ ultimo \in 0..Len(tareas)
    /\ \A t \in DOMAIN tareas : tareas[t].fase \in Terminales \cup
          {"pide", "sintetiza", "hilo", "abre", "revisa", "escribe"}

(* Among the threads that took the lock, the last one to take it is the only *)
(* one whose event is not set: it is never interrupted, and all the others   *)
(* are ("el usuario siempre escucha lo mas reciente").                       *)
UnaSolaVoz ==
    \A t \in DOMAIN tareas :
        tareas[t].fase \in {"abre", "revisa", "escribe", "interrumpida"} =>
            (tareas[t].cancel <=> t # ultimo)

(* An interrupted playback writes at most the block it was about to write.   *)
UnBloqueTrasCancelar == \A t \in DOMAIN tareas : tareas[t].tras <= 1

(* Nobody hears the data of another event, whatever was in the cache.        *)
FraseDeSuEvento == \A t \in DOMAIN tareas : tareas[t].dice = tareas[t].ev

(* The cache holds phrases of an LLM only: a template said because the LLM   *)
(* failed is tried again the next time ("sin cache, asi reintenta").         *)
SoloReescritas == \A i \in DOMAIN cache : cache[i].texto.autor \in Modelos

(* A phrase is asked of the LLM exactly when the narrator in force is the    *)
(* LLM and there is none in the cache, and of the model in force, whatever   *)
(* the singleton missed: CLOUD_ENABLED at the start, or a configuration      *)
(* refused half way.                                                         *)
NarradorAlDia ==
    [][\A t \in DOMAIN tareas :
          tareas[t].gw = "llega" /\ tareas'[t].gw # "llega" =>
              IF PickNarrador(cfg) = "llm" /\ EnCache(tareas[t].ev) = {}
              THEN tareas'[t].gw = "llm" /\ tareas'[t].modelo = ModeloActivo(cfg)
              ELSE tareas'[t].gw = "hecha"]_vars

(* "Nunca se pierde el aviso": in the end every event has been said, but     *)
(* those interrupted by a later one or left without audio.                   *)
EventoSeDice ==
    <>[](\A t \in DOMAIN tareas : tareas[t].via = "evento" =>
            tareas[t].fase \in Terminales \ {"muda"})
=============================================================================
