# A formal model of phylloinventory

phylloinventory (CACTUS) is a warehouse inventory driven by voice or text: a
language model turns what a person says into tool calls, every change of stock
goes through a queue in PostgreSQL, and a pool of workers accepts each change or
holds it as suspicious with a Kalman filter. This directory holds TLA+ modules
of the way from a spoken sentence to the stock and back to a spoken answer, the TLC
configurations that check them, and proofs, checked by TLAPS, of everything they say but
what is eventual.

Identifiers keep the (Spanish) names of the source.

## 1. Inventory of the system

| component | source | state it keeps | operations | interacts with |
|---|---|---|---|---|
| database | `db/init.sql` | `productos`, `bodegas`, `stock` (with the filter's mean and variance), `inventario_movimientos`, `auditoria_log`, `pending_evaluations` (the queue), `sesiones_conteo`, `registros_conteo` | `kalman_evaluar`, `aplicar_movimiento_aceptado`, `confirmar_movimiento`, `investigar_sospechosos`, the triggers `notify_pending_insert` and `check_cantidad_unidad` | everyone: it is the only shared memory |
| kalman-worker | `kalman-worker/main.go` | none of its own but counters; open transactions | take a row, evaluate a movement, invalidate competing counts, run a confirmation, shut down | database |
| queue producers | `services/llm_common/db.py` | a connection pool | `enqueue_pending`, `enqueue_registro_manual`, queries | database; called by LLM services and gateway |
| needle-service, openrouter-service | `services/needle_svc`, `services/openrouter` | a model, a prompt cache | `/infer`: text to tool calls, then enqueue | producers; external LLM |
| api-gateway | `services/api-gateway/main.py` | runtime overrides of backends and models, the narrator | proxy of queries with cloud-to-local fallback, `/api/config`, counting sessions, transcription | all services, database |
| narrator | `services/llm_common/narrator.py` | a bounded cache of phrases | `narrate` | gateway; external LLM |
| NLU, fuzzy search | `services/llm_common/nlu.py`, `fuzzy_search.py` | none | quantities, units, product names | producers, LLM services |
| voice-service, speech services | `services/voice`, `elevenlabs*`, `kokoro_svc` | the loaded model, the buffer of each stream | transcribe, speak | gateway, CLI |
| CLI and its clients | `src/cli.py`, `api_client.py`, `tts_client.py`, `voice_client.py` | the last alert, the event that cancels playback | ask, poll until resolved, answer alerts, play, record | gateway, speech services |
| manager, migrations | `src/manager.py`, `db/migrations` | `_migrations` | start containers, apply migrations | database, docker |
| importer | `src/importer.py` | none | load catalogue and stock from CSV | database |
| frontend | `frontend/` | page state | count, list sessions, report | gateway |

A request travels like this: a handler inserts a row into `pending_evaluations`
(and, in a counting session, a row into `registros_conteo`); some goroutine of
the worker takes it with `FOR UPDATE SKIP LOCKED`, evaluates it, and in the same
transaction either applies the movement (`ACEPTADA`) or leaves it `SOSPECHOSA`;
the client polls the row; a person answers an alert with a
`confirmar_movimiento`, which is another row of the same queue, and the worker
that takes it resolves the first one. Nothing but row locks orders the workers
among themselves, nor the workers and the handlers.

What makes each component correct:

- database and worker: a request is applied at most once and its resolution is
  final; no update of the stock is lost; a row being processed is protected until
  the commit; of several counts of the same thing only one counts; everything in
  the queue is eventually evaluated; a crash changes nothing;
- producers: a count is compared with the stock the person could see; each request
  of a session has its entry, and the entry tells what happened to the request;
- gateway: a configuration is applied as a whole; a query is queued once;
  a finalised session stays as it was;
- narrator: a cached phrase belongs to the model in use;
- audio: of the playbacks that overlap only the last one to start goes on; a transcription is faithful and ends;
- manager: a migration applied twice does no harm;
- NLU: a converted quantity is the same amount.

The hard behaviours are the interleavings of row locks at READ COMMITTED (the
re-evaluation of a `WHERE` after waiting, snapshots of one statement, deadlocks
that PostgreSQL breaks), the reads made before a wait and used after it,
statements that should be one transaction and are two, crashes, and retries.
`PROJECT.json` lists each of them at its line under `hazards`.

## 2. Modules

The queue is one composition of modules with everything it does to rows and locks. The
other five are the components around it, each with the ones it talks to in one module, and
each seeing the queue only as the ledger `LibroStock` promises: a request is resolved in
one step.

| module | models |
|---|---|
| `InventarioDB` | the tables, the row locks, the deadlock detector and the SQL arithmetic |
| `Encolador` | `enqueue_pending` and `enqueue_registro_manual`, one action per statement |
| `KalmanWorker` | `processOne` and everything it calls, one action per statement that reads or may wait, and one commit action per way a transaction ends |
| `ColaInventario` | the composition: `Init`, `Next`, fairness, and all the properties |
| `LibroStock` | the abstract ledger: what the system promises with no queue or lock |
| `MCColaInventario` | the constants of the TLC instances |
| `ColaInventarioProofs` | the inductive invariant and its proof, type correctness, exclusion of locks |
| `LibroProofs` | what a step can do to requests and stock; single application, final resolution, no lost update, refinement |
| `ConteoProofs` | what an open transaction has secured of the queue: invalidation of rival counts, alerts, composition of a count with other movements |
| `SesionConteo` | the counting sessions of the gateway and of the LLM services it calls, statement by statement, with the report |
| `Consulta` | a query: CLI, gateway with its fallback, both LLM services, worker, polling, alerts |
| `Interpretacion` | a sentence: the rules of `nlu.py`, the pipeline of needle, the call of openrouter, what is queued |
| `Voz` | a dictated command: recorder, `/api/audio/transcribir`, the WebSocket of voice-service |
| `Narracion` | what is said aloud: configuration, narrator and its cache, playback threads that interrupt each other |
| `SesionProofs`, `ConsultaProofs`, `InterpretacionProofs`, `VozProofs`, `NarracionProofs` | the inductive invariant of each, and its properties from it |
| `MCSesionConteo`, `MCConsulta`, `MCInterpretacion`, `MCVoz`, `MCNarracion` | their TLC instances |

### State of the queue

Variables of `InventarioDB` other than `tx`, `referencia` and `corte` are the
**committed** contents of the tables; `fila` holds the columns the INSERT fills,
`status`, `decision` and `residual` those the worker writes. `tx[w]` is the open transaction
of goroutine `w`: its position (`fase`), the row it took, its verdict, the rows
and stock it has locked, what it read from them, and the rows its invalidating
`UPDATE` still has to lock (`vistas`) or has decided to reject (`inval`). The
writes of a transaction are applied in its commit action. That is exact, not a
simplification: every row it writes is locked by it, and at READ COMMITTED no
other transaction sees them earlier. `referencia[c]` is the
`registros_conteo` row that handler `c` is inserting, which holds locks while it
waits. `corte` is a history variable for one property.

### Correspondence of the actions of the queue

| actions | code |
|---|---|
| `EncolarMovimiento`, `EncolarConfirmacion`, `TomarId` | `enqueue_pending` up to the `nextval` of the INSERT (`db.py:221-256, 302-328`) |
| `LeerStock`, `EncolarConteo` | the query of the product, then the delta against it (`db.py:258-300`, `384-430`) |
| `Insertar` | the INSERT becomes visible, once the producto can be locked `FOR KEY SHARE` |
| `ReferirProducto`, `InsertarRegistro` | the INSERT of `registros_conteo`: foreign keys checked in order producto, pending |
| `AbandonarPedido`, `AbortarRegistro` | the handler ends between two statements; PostgreSQL aborts its INSERT |
| `InsertarAMano` | `scripts/seed_test.sql`: the only way a read or an unknown tool gets in the queue |
| `Tomar`, `Descartar` | `processOne` (`main.go:252-323`) |
| `EvaluarSinCambios`, `KalmanEvaluar`, `BloquearStock` | `evalMovimiento`, `kalman_evaluar`, the `FOR UPDATE` of `aplicar_movimiento_aceptado` |
| `EvaluarConfirmacion`, `ObjetivoSinEfecto`, `RechazarObjetivo`, `ConfirmarObjetivo`, `BloquearStockObjetivo`, `ResidualNulo` | `evalConfirmacion` and `confirmar_movimiento` |
| `AbrirInvalidacion`, `InvalidarFila`, `SincronizarInvalidados` | `invalidarConteosDuplicados` and its twin in SQL: snapshot, one locked row at a time, then the session entries |
| `Commit*` | all the writes of a transaction |
| `AbortarPorDeadlock`, `Caer` | rollback by PostgreSQL, by a crash, by `Shutdown` |

Three facts about PostgreSQL carry much of the behaviour and are stated here
because nothing in the repository spells them out. A BIGSERIAL value is taken
before the row is visible, so rows can become visible out of order. `FROM stock s
JOIN productos p ... FOR UPDATE` locks the rows of both tables, so it conflicts
with any INSERT that references the producto. And an `UPDATE` that waited for a row
tests its `WHERE` again on the version committed meanwhile, and keeps the lock
whatever the outcome.

### Abstractions of the queue

- Quantities are integers. The filter is in its steady state: a constant threshold
  (`Umbral`) and a constant gain (`1/GananciaInv`, rounded down); the variance is not
  modelled. Only `AceptadoDentroDelUmbral` compares quantities with the threshold.
- `locked_by`, `locked_at`, timestamps, `umbral`, `movimiento_id`, payload texts,
  statistics counters, logs and `LISTEN/NOTIFY` are left out: no decision reads them.
- Three branches cannot be reached and are omitted: "Stock no existe" in both SQL functions
  (a queued key comes from a row of `stock`, and no code deletes one) and
  the `ERROR` case of `main.go:434-442` (its NULL columns fail the `Scan` into
  `float64` before the `switch`).
- A confirmation whose payload has no id behaves as one with an id that does not exist.
- Waits for rows of `registros_conteo` are not modelled: an entry is written only by
  transactions that hold its pending row, or by the handler that creates it.
- The trigger `check_cantidad_unidad` rejects only fractions, and quantities are whole
  here: it is in `Interpretacion`.

### The modules around the queue

**`SesionConteo`.** `h[a]` is the coroutine of one HTTP request, of the gateway (`Manejadores`) or of an LLM service
(`Tareas`): its phase is the statement it is about to run and the other fields what it has read. A handler that
calls a service waits or gives up, and the service goes on either way. The queue of the model holds whole requests, and
`Resolucion` is a transaction of the worker: statuses, stock and the entries that exist by then.

| actions | code (`api-gateway/main.py`, `llm_common/db.py`, `kalman-worker/main.go`) |
|---|---|
| `IniciarSesion`; `VerParaCerrar`, `VerParaRegistrar` | `iniciar_sesion`; the test of `estado` that opens each of the other endpoints |
| `RegistrarManual`, `RegistrarVozRapido` | two ways to name a product and a quantity, and the read of its row |
| `PostLlm` | the third: `_post_with_fallback`, where the local service may get a text that the cloud one is still working on |
| `LlamadaLlm` | the next tool call of the service's list (a count, an addition or a removal), any number of them for openrouter |
| `Encolar`, `ReleerStock`, `Registrar` | INSERT of the pending, the second read of the stock (LLM path only), INSERT of the entry |
| `CerrarSesion`, `Resumir` | the UPDATE of `finalizar_sesion`, its counters |
| `ReporteDiferencias` | the two queries of `/api/reporte/diferencias` |
| `Terminar` | the response, or a failure at any statement, of one coroutine; no other ends with it |
| `Evaluar`, `Confirmar`, `ConfirmarTarde` | a verdict, an answer to a request that waits, and an answer that is late, repeated or wrong |

`antes` is a history variable: a coroutine carries it when the session was closed while it was at work,
hands it on to the service it calls, and leaves it on its entries.

**`Consulta`.** `cli[c]` is a CLI with its `last_sospechoso`, `pet[n]` the n-th query with one record for each LLM
service that got it. The three go on independently: a client that stops waiting does not stop the handler
that it called. Texts are five classes: a yes, a no, a sentence whose meaning a rule
settles, one of several movements or none, and noise that does not look like inventory.
`Inferir` allows whatever calls the service could make of the text. With an alert and an unclear text needle's
model may answer anything of `RespuestasModelo` (writes, reads, confirmations of any id, up to two calls), and `SoloConfirma` is
what `_confirmacion_fast_path` lets through. `EncolarUna` is a turn of
the enqueue loop with its failures before and after the commit. `Respaldar`, `NubeCaida`,
`ResponderNube` and `ResponderLocal` are `_post_with_fallback`; `RecibirRespuesta` and
`Sondear` the rest of `handle_query` with `poll_until_resolved` and `_render_pending`. A list of ids
is a set, since ids are issued in the order of the list; `Antes` is the order in which the CLI polls them.

**`Interpretacion`.** One request at a time (`p`), because nothing here is shared. A sentence is verb, number, unit word and product,
all that the regular expressions tell apart; a quantity is counted in thousandths,
so that a conversion of grams is exact and a fraction can be told from a whole. A model may
answer anything of `Inventos`, with an amount of `Cantidades`: none, zero, or a plain one. `ElegirL1`, `ElegirL2`, `ExtraerL3` and `Concluir` are `_pipeline` and
the retries of `_run_inference`, with `m` for its half-results; `Regla` is the fast path of both
services; `RegistrarVoz` the one of `registrar-voz`; `Encolar` the resolution of the product, the
conversion, the sign, the trigger, and the session entry.

**`Voz`.** Audio is numbered blocks and a text is the blocks it was made of, which makes losses and reorderings visible.
`cli` is the recorder (callback thread, collector, thread that waits for
Enter), `gw` the request in the gateway, `ws` both ends of the connection: `canal` towards
the service, `sal` back. Whether a block carries voice, and whether the sender is slow or silent, are choices.
`Callar` is the wait of 0.25 s in vain that cuts an utterance.

**`Narracion`.** `tareas[t]` is something to be said: an asyncio task of the CLI with its request
in the gateway (`gw`) and its playback thread (`fase`), which outlive each other's timeouts.
`narr` is the singleton narrator and `cache` its dictionary in order of insertion; a phrase is the
event it is about and its author. `AtenderNarrate` and `RecibirLlm` are `narrate()` before and after its
`await`. `SpeakBlocking` takes the lock, sets the event of the previous thread and installs its own;
`SpeakWithCancel` looks at it before each block. `UpdateConfig` keeps the fields before the first invalid one.

## 3. Properties and runs

| run | properties | instance |
|---|---|---|
| `Cola_pedidos` | `TypeOK`, `FilaProtegida`, `InvalidacionCompleta`, `AlertaVigente`, `AplicadoUnaVez`, `ResolucionDefinitiva` | 2 workers, 2 handlers, 1 key, every tool but additions, counts of 4 and 9, removals of 3, session entries, 3 requests, 1 crash |
| `Cola_mezcla` | `ConteoComponeMovimientos`, `CadenaDeMovimientos`, `ImplementaLibro` | 2 workers, 1 handler that may give up, 2 bodegas of one product, counts of 6, additions of 3 and confirmations, 4 requests |
| `Cola_viva` | `TodoSeEvalua` | 2 workers, 1 handler, counts of 4 with their session entries, confirmations, 3 requests, 1 crash, no symmetry, fairness |
| `Sesion_registros` | `TypeOK`, `DiferenciaEsDelta`, `PendientesCoinciden`, `ImplementaLibro` | 1 handler that feeds and 1 LLM service that removes, answers of every kind, a product in 2 bodegas, 2 pendings |
| `Sesion_revision` | `CierreCuentaTodo`, `ReporteSinRepetir` | 1 handler that feeds by voice (by rule or by an LLM), 1 that finalises or reports and 2 LLM services (cloud and local may both work on one text), 1 product, 2 pendings |
| `Consulta_alerta` | `TypeOK`, `ConfirmaLoMostrado`, `RespuestaCompleta`, `AlertaFueSospechosa`, `SinEscriturasFantasma`, `AlertaSeResuelve` | 1 CLI, 4 kinds of text (a yes is among the answers of the models to the unclear one), 2 queries, 1 failure anywhere |
| `Interpretacion_frases` | `TypeOK`, `UnaConversion`, `FilaEnSuBodega`, `PendienteConRegistro`, `ContradiccionAgotada` | 260 sentences (4 verbs, 4 numbers, 4 unit words, 5 products) through every door, 2 bodegas |
| `Voz_dictado` | `TypeOK`, `TextoFiel`, `SinAudioResidual`, `PeticionTermina` | 4 blocks, a buffer of 3, 2 waits in vain, 2 failures |
| `Narracion_frases` | `TypeOK`, `UnaSolaVoz`, `UnBloqueTrasCancelar`, `FraseDeSuEvento`, `SoloReescritas`, `NarradorAlDia`, `EventoSeDice` | up to 4 phrases with a cache of 2, audio of 2 blocks, 2 models, 1 change of configuration, 1 failure |

The queue (`MCColaInventario`, a stock of 5 in every key, a threshold of 2 and a gain of 1/2,
so that a count of 4 passes, one of 9 and a change of 3 are held, and what comes after them may fall either way):

- **`FilaProtegida`**: no two transactions lock the same row, and the row a worker
  processes is `PENDING` and locked until it commits.
- **`AplicadoUnaVez`**: a request has at most one movement, whoever applies it, and
  has one exactly when its status says it was applied.
- **`CadenaDeMovimientos`**: every `stock_resultante` continues the one before it;
  a lost update would break the chain.
- **`ConteoComponeMovimientos`**: a count leaves the stock at the counted quantity plus what changed between the
  reading of its baseline and its application, which by `CadenaDeMovimientos` is the sum of the movements between the two.
- **`InvalidacionCompleta`**: when a count is accepted or confirmed, every other count of the same
  key that the invalidating statement could see is resolved, even if another
  worker was evaluating or confirming it at that moment.
- **`AlertaVigente`**: an alert shown in a session still waits for an answer.
- **`ResolucionDefinitiva`** (of steps): a resolved request never changes again and a
  suspicious one never returns to the queue.
- **`ImplementaLibro`**: refinement. `LibroStock` has requests that are free, open,
  applied or closed, and one action that applies one request to the balance while
  closing others; the mapping reads those states from `status` and
  `inventario_movimientos`, and the balance from `stock`.
- **`TodoSeEvalua`**: every queued request is eventually evaluated or resolved.

Sessions:

- **`DiferenciaEsDelta`**: the difference a report shows for a manual count is the delta the worker
  judged, though both come from reads of a stock that moves.
- **`ReporteSinRepetir`**: no report shows a product as counted and as not counted. It rests on the order
  of the two queries; the opposite order fails.
- **`CierreCuentaTodo`**: the summary of a session misses only entries of requests that had found it active and were
  at work when it was closed, in the gateway or in a service it called, however many each one adds and however late. Those
  do exist: closing is not atomic with them.
- **`PendientesCoinciden`**: the counter and the catalogue agree, given that no product was counted twice
  or elsewhere; without that condition they do not, and the counter may be negative.
- **`ImplementaLibro`**: the queue of the sessions refines `LibroStock` as well. A count is applied once, by a delta that
  came from an older reading, and closes only rivals that still wait: one already applied would move the stock and look closed.

Queries:

- **`ConfirmaLoMostrado`**: an answer to an alert resolves that alert, whichever service or model read it.
- **`RespuestaCompleta`**: an answer without fallback names every row its query queued.
- **`AlertaFueSospechosa`**: the alert remembered is a movement of this CLI that the filter held.
- **`SinEscriturasFantasma`**: needle never turns the answer to an alert into a movement, though its model may answer
  with one; without the filter it does.
- **`AlertaSeResuelve`**: a user who keeps answering gets rid of the alert.

Sentences:

- **`UnaConversion`**: by whatever rule the sentence is parsed, what is queued is what was said, converted once.
- **`FilaEnSuBodega`**: a request that names a bodega queues nothing elsewhere, by rule or by a model that names
  a product of another place.
- **`PendienteConRegistro`**: the unit trigger never rejects the session entry of a row that it let into the queue, though
  the two are checked on different columns.
- **`ContradiccionAgotada`**: needle hands over a call that contradicts the sentence only after trying the
  other branch.

Voice and narration:

- **`TextoFiel`**: a text is one stretch of the recording and, unless the service cut for silence, reaches its end.
- **`SinAudioResidual`**: no file and no buffer outlives its command, however it ends.
- **`PeticionTermina`**: every transcription ends, though the gateway reads the WebSocket without a timeout.
- **`UnaSolaVoz`**, **`UnBloqueTrasCancelar`**: of the playbacks that took the lock only the last is not
  cancelled, and a cancelled one writes at most one more block.
- **`FraseDeSuEvento`**, **`SoloReescritas`**: a phrase is about its own event whatever was cached, and the
  cache holds no template.
- **`NarradorAlDia`** (of steps): a phrase is asked of the narrator and model in force, though the singleton is stale at the start and after a
  configuration refused half way.
- **`EventoSeDice`**: every event of the CLI is said in the end, interrupted by a later one, or left without audio.

The type invariants also bound what the code bounds: the cache of phrases, the buffer of a stream. That of `Voz` bounds the
recording too, but only by the audio there is in the model: the limit that the code's comments give it does not hold (see below).
That of `SesionConteo` relates decisions: an acceptance or an alert shown by an entry is the status of its request, and
an answer is written only where nothing is left to decide.

**Bounds.** In the queue `MaxPend` bounds the requests and `MaxCaidas` the crashes. Every conflict of the code
is between two transactions, or two transactions and a handler, over one key or one target: two
workers, two handlers, and three requests (two counts and the confirmation of
one; a movement, its confirmation and a repetition) reach each of them. `Cola_mezcla` uses four so
that a count is confirmed while two others compete, and two bodegas because locks on a product are shared by its rows of stock. The two runs of the sessions differ in who works at once: the constants `Registran`, `Revisan` and `Operaciones`
say who feeds or reviews it and how, `Herramientas` what an LLM finds in a text. Two entries are enough to
repeat a product, to make one fall between the statements of a report, and to be added after a summary by two services or by one twice. A query meets its alert in the next query, so two of them, with two
tool calls each, show an alert replaced, answered and answered late. Three
blocks of buffer for four of audio overflow it, and two blocks are an utterance
(`MinVoz`); two failures let the cloud and then the connection fail. Two narrations of the CLI overlap and two requests of the PWA
fill a cache of two while one of them waits: `MaxCarga` counts 2 for a task of
the CLI and 1 for a PWA request. Every action of the next-state relations is taken in some passing run.

**Fairness.** In `FairSpec` of the queue each goroutine polls on a ticker and loops
until the queue is empty (`main.go:218-244`), so it is weakly fair in every step inside a
transaction; an INSERT of a session entry that has been sent is weakly fair, because it holds locks and PostgreSQL runs it
whatever becomes of its handler; a deadlock is always broken, also the one between that INSERT and a worker (`db.py:343`). Taking a given row is strongly fair:
`SKIP LOCKED` makes a row unavailable now and then, and the row taken is always the lowest free id,
so weak fairness would let the scheduler offer it only while locked. Requests and crashes are not fair.
In `Consulta`, `Voz` and `Narracion` every process is weakly fair, because every wait of theirs
has a timeout or an answer; what a person does (speaking, asking, pressing Enter) and every
failure is not, but for `AlertaSeResuelve`, which is about a user who does answer: that
answer is strongly fair, since the CLI cannot take it while it polls.
The specifications of `SesionConteo` and `Interpretacion` have no fairness: only safety is claimed of them.

`Consulta_alerta`, `Narracion_frases` and `Sesion_revision` do not check deadlock: an instance stops when its
queries, or the phrases it may say, are used up, or when its only session is over and everything queued is resolved. `AlertaSeResuelve` is stated up to that
point (`Agotada`).

**Liveness of the queue has a real exception.** `TodoSeEvalua` holds only up to
executions in which deadlock aborts repeat for ever: two workers resolving counts of
one key each wait for the other's row, one is aborted and retried, and nothing
in the code breaks the symmetry. Two more livelocks show when fairness or
constants are weakened: two confirmations of a request that has not been
evaluated keep it locked in turns, each rolled back by its NULL residual; and a
confirmation that names an id not issued yet blocks a lone worker
when that request arrives (`ConfirmaAdelantada`).

### Where the code and what is said of it disagree

Each of these runs checks one sentence of the repository and TLC finds an execution
of the model against it. Details and quotations are under `findings` in `PROJECT.json`.

| run | said | what happens |
|---|---|---|
| `V_conteos_suman` | two counts do not compose by adding | stock 5, two people count 4: the stock ends at 3 |
| `V_veredicto_viejo` | beyond the threshold means `FALLA` | accepted on a stale verdict |
| `V_registro_rezagado` | a verdict is synchronised to the entry of the session | the entry is inserted after the verdict and stays `PENDIENTE` |

The models reach other states worth knowing, which no run is spent on:

- the INSERT of a session entry that is the victim of a deadlock leaves a request without one;
- a second, late answer to a request writes the entry of its session whatever `confirmar_movimiento()` returned: the entry may say
  `CONFIRMADA_MANUAL` of a request that was rejected, with nothing applied (`main.go:531`; PLAN.md:166 says "segun resultado");
- a manual count of a product that is in two bodegas is taken against whichever row comes first and adjusts that one, whatever
  bodega the session counts (`db.py:384`; FRONTEND.md:61 has a session count one bodega);
- a recording never reaches `RECORD_SECS_MAX` while audio arrives, though `voice_client.py:38` and `:89` promise a limit: only silence
  of the device counts towards it;
- a movement confirmed by hand never reaches `auditoria_log`;
- a cloud call that times out after queuing its movements is answered by the local service, which
  queues them again;
- with a product whose name holds a quantity and no unit in the sentence ("agrega 5 passatta x 2500
  gramos"), openrouter-service normalises the arguments of its fast path and takes the unit of the name:
  0.005 kg are queued where needle-service queues 5 kg (`UnaConversion` asks for a unit for that reason);
- an event whose phrase took longer interrupts a newer one, because the order is that of the playbacks.

Each property of a passing run is also checked against a plausible bug
(`mutants`): a lock not taken, a test not made, a registro not synchronised, a cache key without its data. The operators called
"Variant" in the modules are those bugs.

## 4. Proofs

Every invariant and every action property that a run checks is proved for **every** value of the
constants, and so are the two refinements of `LibroStock`, by the queue with its locks and by the queue that the
sessions see. Liveness is not (see the end of this section). Each module
of theorems has one inductive invariant, checked by TLC before it was proved, and this shape: the initial states,
one lemma per action, the induction, and a theorem per property.

| module | inductive invariant | theorem: property |
|---|---|---|
| `ColaInventarioProofs` | `IInv` (`InvarianteInductivo`) | `TipoCorrecto`: `TypeOK`; `FilaProtegidaSiempre`: `FilaProtegida` |
| `LibroProofs` | + `IMov`, `ICadena` | `ResolucionSiempreDefinitiva`: `ResolucionDefinitiva`; `AplicadoUnaVezSiempre`: `AplicadoUnaVez`; `CadenaSiempre`: `CadenaDeMovimientos`; `ImplementaElLibro`: `ImplementaLibro` |
| `ConteoProofs` | + `ICorte`, `IAlerta`, `IConteo` | `InvalidacionSiempreCompleta`: `InvalidacionCompleta`; `AlertaSiempreVigente`: `AlertaVigente`; `ConteoSiempreCompone`: `ConteoComponeMovimientos` |
| `SesionProofs` | `IInv` (`SesionInvariante`) | `RegistroDeAcuerdo`: `TypeOK`; `DiferenciaSiempreDelta`: `DiferenciaEsDelta`; `ReporteNuncaRepite`: `ReporteSinRepetir`; `CierreSiempreCuenta`: `CierreCuentaTodo`; `PendientesSiempreCoinciden`: `PendientesCoinciden`; `SesionImplementaLibro`: `ImplementaLibro` |
| `ConsultaProofs` | `IInv` (`ConsultaInvariante`) | `PollSoloDeFilas`: `TypeOK`; `SiempreConfirmaLoMostrado`: `ConfirmaLoMostrado`; `RespuestaSiempreCompleta`: `RespuestaCompleta`; `AlertaSiempreFueSospechosa`: `AlertaFueSospechosa`; `NuncaEscriturasFantasma`: `SinEscriturasFantasma` |
| `InterpretacionProofs` | `IInv` (`InterpretacionInvariante`) | `FilasSiempreValidas`: `TypeOK`; `SiempreUnaConversion`: `UnaConversion`; `FilaSiempreEnSuBodega`: `FilaEnSuBodega`; `PendienteSiempreConRegistro`: `PendienteConRegistro`; `ContradiccionSiempreAgotada`: `ContradiccionAgotada` |
| `VozProofs` | `IInv` (`VozInvariante`) | `BuferAcotado`: `TypeOK`; `TextoSiempreFiel`: `TextoFiel`; `NuncaAudioResidual`: `SinAudioResidual` |
| `NarracionProofs` | `IInv` (`NarracionInvariante`) | `NarracionTipo`: `TypeOK`; `UnaSolaVozSiempre`: `UnaSolaVoz`; `UnBloqueSiempre`: `UnBloqueTrasCancelar`; `FraseSiempreDeSuEvento`: `FraseDeSuEvento`; `SiempreReescritas`: `SoloReescritas`; `NarradorSiempreAlDia`: `NarradorAlDia` |

**Assumptions.** Only those named in the modules, and they say what the code can be configured with:
`DBAssumption`, `EncoladorAssumption` and `WorkerAssumption` (the queue); `SesionAssumption` (products are finitely many and each has a row of stock,
coroutines of the gateway and of the LLM services are different ones, quantities are natural); `ConsultaAssumption`; `InterpretacionAssumption`
(there is a sentence to say, its number is natural or absent, a unit comes with a number, the catalogue
names bodegas that exist, stock is whole); `VozAssumption` (positive bounds); `NarracionAssumption` (a cache
of two or more, there is an event to tell, a model is not called `auto` nor `nada`).
TLC evaluates each of them in the runs.

### The queue

`FilaProtegida` is not inductive: that a row stays `PENDING` while a worker holds it
depends on every other transaction writing only rows it has locked itself, and that
depends on where each transaction is. The inductive invariant `IInv` has five
parts: the types; `ColaBien` (ids not issued are free, a stored residual
belongs to a request that moves stock); `ReqBien` (a handler between `nextval` and INSERT owns a
free id nobody else has); `TxBien` for each transaction (what a worker read of rows it
has locked is still true: status of the row taken and of the target, the stock
read, the rows it is about to invalidate); and `Exclusion` (locked sets are disjoint). The
argument is the same for each action: a step of worker `w` inside its transaction
changes only `tx[w]` (`EnTxPreserva`); a commit changes only rows `w` has locked, so, by
`Exclusion`, nothing another transaction remembers (`CommitPreserva`); and a handler
only fills a free row (`InsertarPreserva`).

The results of `LibroProofs` rest on one lemma, `PasoEfecto`: in a state of `IInv`, whatever
a step does to locks and snapshots, it does one of four things to the requests and the
stock. Nothing; one request enters (`Entra`); some unresolved requests are closed
without moving stock (`SoloCierra`); or one unresolved request is applied, and others
closed in the same instant (`Aplica`). It is here that `TxBien` is used: the statuses a commit
overwrites are unresolved, and the stock it adds to is the committed one. From it:

- a resolved status is never written over (`ResolucionSiempreDefinitiva`);
- `IMov` is invariant: `AplicadoUnaVez` stated for every id, free ones included. A new movement
  is of a request that had none, because it was unresolved (`PasoIMov`);
- `ICadena` is invariant: the chain stated key by key, with the fact that `UltimoDe` is a position (what saves an
  induction over the sequence). An applied request appends a movement whose `resultante` is the committed
  stock plus its quantity (`AplicaICadena`);
- each of the four effects is a step of `LibroStock` or a stutter under the mapping
  (`EntraRefina`, `SoloCierraRefina`, `AplicaRefina`); `IMov` tells an applied request from a closed one.

`ConteoProofs` needs what a transaction knows before its commit:

- `ICorte`: while it invalidates, each rival in its snapshot is resolved, still to be locked (`vistas`) or about to
  be rejected (`inval`), and at its commit nothing is left to lock; so the commit leaves them resolved, and a
  resolved status is final (`Cubierto`, `CubiertoSigue`);
- `IAlerta`: of the rows a transaction is about to reject, those that show as alerts are among the entries it updates.
  No other transaction can raise an alert on them meanwhile, because they are locked;
- `IConteo`: what a handler read is the stock after the first `base` movements, and the delta it queued is
  the count minus that. Movements are only appended, so this never ceases to be true (`PasoEstable`), and with `ICadena` it
  gives the composition. The movements in between are told by the difference of two `stock_resultante` and not by their
  sum, because what a sum over data computes is out of the prover's reach.

### Around the queue

- **Sessions.** Every step lets the tables only grow (`ColaCrece`, `RegistrosCrecen`, `SesionesAvanzan`), so what a handler
  remembers between two statements (`ManejadorBien`) stays true of the tables whoever runs in between. `CierreCuentaTodo`
  rests on two facts. Whoever is on the way to an entry of a session that is closed was at work when it was closed (`AntesBien`): the
  UPDATE marks all of them, nobody joins them because each handler tests `estado` first, and a service that is
  called, or goes on to its next tool call, inherits the mark. And an entry that is in no summary bears it (`CierreBien`), since the
  summary is read after the UPDATE. No bound on how many entries each one adds is needed.
  The same `LibroStock` that the queue with its workers and locks implements is implemented by the queue of the sessions
  (`SesionImplementaLibro`): an INSERT enters a request, a verdict applies or closes it (`EncolarLibro`, `ResolucionLibro`),
  and every other statement is a stutter. Both
  queues thus keep one contract; that the real one does nothing else to a session is read from the code, not proved.
- **Queries.** What the three holders of a query know: a service's list holds rows of that query and, when it was sent with
  an alert, resolves that alert only (`ServicioBien`, from `FiltroDeAlerta`: whatever the model answers, what passes the filter is at most one
  confirmation of that alert); the only service of a query lists all its rows (`Completa`, which
  fails with the second service and so is asked only without fallback); a CLI polls rows of its own (`ClienteBien`). An alert is stable, because a
  row that the filter held never looks accepted (`ColaCrece`).
- **Sentences.** A call that may be queued is well formed for the place it is about (`Llamada`) and, if a rule made it,
  says what the sentence says (`Dicho`), stated through `Convertir`, so that a unit normalised early or late is the
  same. A model's answer is constrained by nothing but its form.
- **Voice.** The place of each block follows from the number of messages in flight between gateway and service: what the
  channel holds, what the buffer holds and what was said are stretches that join at that number (`Enlace`).
- **Narration.** The last thread to take the lock is the only one not cancelled, and a thread that is cancelled has at most
  one block left to write (`TareaBien`, in terms of `ultimo`); each entry of the cache stands under the key of
  its own event and no key twice (`CacheBien`), which bounds the cache though several requests fill it after their `await`.

### What stays with TLC

`TodoSeEvalua`, `AlertaSeResuelve`, `PeticionTermina` and `EventoSeDice` are liveness under fairness,
which this prover does not reach: the runs check them. The constants that bound a run (`MaxPend`,
`MaxFallas`, `MaxCarga`...) are in the specifications too, so a theorem holds for every value of them.

## 5. Not modelled, and what remains

Left out because TLC or this kind of model has nothing to add:

- the variance of the filter: real arithmetic that converges to the constant threshold and gain used here;
- similarity scores of names, the parsers of read-only queries, the wording of templates: text processing without state;
- Whisper, ElevenLabs, Kokoro and the language models: external, represented by any answer or a failure;
- listings, health checks, authentication and the list of models of the gateway, the pages of the frontend, the TUI and
  docker commands: they read or display, and change no state that the modules follow;
- `env_loader.py`: read once, sequentially, when a process starts;
- migrations and the CSV importer: an operator's tools, run while nothing else works. A crash between
  a migration and its mark makes it run twice, which its statements are written to bear.

- a CLI started with a number as its session id, whose queries would add entries to that counting session without testing it: the
  ids it generates are not numbers, and the entries of `SesionConteo` are those of its endpoints;
- the wording of a late answer: what `confirmar_movimiento()` returns is only logged.

Worth doing next: a stock in `Consulta`, whose rows have a verdict and no quantity, so that it too refines `LibroStock`; two CLIs in the run of `Consulta` (the theorems already
hold for any number).
