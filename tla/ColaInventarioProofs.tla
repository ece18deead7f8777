------------------------ MODULE ColaInventarioProofs ------------------------
(***************************************************************************)
(* Theorems about ColaInventario, for any number of workers, handlers,     *)
(* keys and requests.  They rest on one inductive invariant, IInv: what a  *)
(* worker remembers of the rows it works on (TxBien) stays true because    *)
(* those rows are locked, and a row is locked by one worker only.          *)
(***************************************************************************)
EXTENDS ColaInventario, TLAPS

-----------------------------------------------------------------------------
(* The inductive invariant. *)

(* Only the requests about a stock have a producto and a bodega. *)
FilaCoherente(f) == f.key \in Keys <=> f.tool \in Movimientos

MueveStock(i) == fila[i].tool \in Movimientos /\ ~SinCambios(i)

ColaBien ==
    \A i \in Ids :
        /\ FilaCoherente(fila[i])
        /\ i >= siguiente => status[i] = "LIBRE"
        /\ status[i] = "LIBRE" => residual[i] = Null
        /\ status[i] \in Resolubles /\ residual[i] # Null => MueveStock(i)

(* A handler between nextval and INSERT owns an id nobody else has. *)
ReqBien ==
    /\ \A c \in Clientes :
          /\ req[c].fase = "leido" => req[c].key \in Keys
          /\ req[c].fase = "insertar" =>
                /\ FilaCoherente(req[c].fila)
                /\ req[c].id \in Ids
                /\ req[c].id < siguiente
                /\ status[req[c].id] = "LIBRE"
    /\ \A c, d \in Clientes :
          /\ c # d
          /\ req[c].fase = "insertar"
          /\ req[d].fase = "insertar"
          => req[c].id # req[d].id

(* The request a transaction applies to the stock, if it applies one. *)
Movido(T) == IF T.veredicto = "confirmar" THEN fila[T.id].target ELSE T.id

(* What a transaction knows of the rows it has locked. *)
EnCurso(T) ==
    /\ T.fase # "idle"
    /\ T.id \in T.forUpdate
    /\ status[T.id] = "PENDING"
    /\ T.fase = "aplicar" => T.veredicto = "PASA"
    /\ T.veredicto \in {"PASA", "FALLA"} => MueveStock(T.id)
    /\ T.veredicto = "sin_cambios" => SinCambios(T.id)
    /\ T.veredicto = "descarte" => fila[T.id].tool \notin Movimientos
    /\ T.fase = "objetivo" \/ T.veredicto \in {"confirmar", "rechazar", "sin_efecto"} =>
          fila[T.id].tool = "confirmar_movimiento"
    /\ T.veredicto \in {"confirmar", "rechazar"} =>
          /\ fila[T.id].target \in T.forUpdate
          /\ status[fila[T.id].target] \in Resolubles
    /\ T.fase = "stockObjetivo" => T.veredicto = "confirmar"
    /\ T.veredicto = "confirmar" =>
          /\ fila[fila[T.id].target].key \in Keys
          /\ T.fase # "stockObjetivo" => residual[fila[T.id].target] # Null
    /\ T.veredicto \in {"PASA", "confirmar"} /\ T.fase \notin {"aplicar", "stockObjetivo"} =>
          /\ T.stocks = {fila[Movido(T)].key}
          /\ T.prod.stock = stock[fila[Movido(T)].key]
    /\ T.fase \notin {"invalidando", "commit"} => T.vistas = {} /\ T.inval = {}
    /\ {T.id, Movido(T)} \cap (T.vistas \cup T.inval) = {}
    /\ T.inval \subseteq T.noKey
    /\ \A j \in T.inval : status[j] \in Resolubles

TxBien(T) == T = TxIdle \/ EnCurso(T)

Exclusion ==
    \A u, v \in Workers : u # v =>
        /\ Bloqueadas(u) \cap Bloqueadas(v) = {}
        /\ \A k \in tx[u].stocks : ~RetieneStock(v, k)

IInv ==
    /\ TypeOK
    /\ ColaBien
    /\ ReqBien
    /\ \A w \in Workers : TxBien(tx[w])
    /\ Exclusion

-----------------------------------------------------------------------------
(* Initial states. *)

LEMMA TxIdleTipo == TxIdle \in Transacciones
    BY DEF TxIdle, Transacciones, Fases, Veredictos

LEMMA InitIInv == Init => IInv
<1> SUFFICES ASSUME Init PROVE IInv
    OBVIOUS
<1> USE DBAssumption, EncoladorAssumption, WorkerAssumption
<1>1. FilaVacia \in Filas /\ FilaCoherente(FilaVacia)
    BY DEF FilaVacia, Filas, FilaCoherente, Tools, Movimientos, Lecturas
<1>2. TxIdle \in Transacciones
    BY TxIdleTipo
<1>3. DBTypeOK
  <2>1. /\ stock \in [Keys -> Int]
        /\ media \in [Keys -> Int]
        /\ movimientos \in Seq(Apuntes)
        /\ auditoria \subseteq Ids
        /\ siguiente \in 1..(MaxPend + 1)
    <3>1. /\ stock = StockInicial /\ media = StockInicial /\ movimientos = << >>
          /\ auditoria = {} /\ siguiente = 1
      BY DEF Init, DBInit
    <3>2. StockInicial \in [Keys -> Int] /\ MaxPend \in Nat
      BY DEF DBAssumption
    <3> QED
      BY <3>1, <3>2
  <2>2. /\ fila \in [Ids -> Filas]
        /\ status \in [Ids -> Estados \cup {"LIBRE"}]
        /\ decision \in [Ids -> Decisiones]
        /\ residual \in [Ids -> Int \cup {Null}]
        /\ registro \in [Ids -> Terminales \cup {"no", "PENDIENTE", "SOSPECHOSA"}]
    BY <1>1 DEF Init, DBInit, Decisiones
  <2>3. /\ tx \in [Workers -> Transacciones]
        /\ referencia \in [Clientes -> Ids \cup {0}]
        /\ corte \in [Ids -> SUBSET Ids]
    BY <1>2 DEF Init, DBInit
  <2> QED
    BY <2>1, <2>2, <2>3 DEF DBTypeOK
<1>4. EncoladorTypeOK
    BY <1>1 DEF Init, EncoladorInit, EncoladorTypeOK, Reqs, ReqIdle
<1>5. WorkerTypeOK
    BY DEF Init, WorkerInit, WorkerTypeOK
<1>6. ColaBien
    BY <1>1 DEF Init, DBInit, ColaBien, Resolubles
<1>7. ReqBien
    BY DEF Init, EncoladorInit, ReqBien, ReqIdle
<1>8. \A w \in Workers : TxBien(tx[w])
    BY DEF Init, DBInit, TxBien
<1>9. Exclusion
    BY DEF Init, DBInit, Exclusion, Bloqueadas, RetieneStock, TxIdle
<1> QED
    BY <1>3, <1>4, <1>5, <1>6, <1>7, <1>8, <1>9 DEF IInv, TypeOK

-----------------------------------------------------------------------------
(* Steps inside a transaction: no committed row changes. *)

(* w may replace its transaction by t if t knows only true things and locks  *)
(* only rows that no other worker has locked.                                *)
LEMMA EnTxPreserva ==
    ASSUME IInv,
           NEW w \in Workers, NEW t \in Transacciones,
           tx' = [tx EXCEPT ![w] = t],
           UNCHANGED <<tablas, referencia, req>>, WorkerTypeOK',
           TxBien(t),
           \A v \in Workers \ {w} :
               /\ (t.forUpdate \cup t.noKey) \cap Bloqueadas(v) = {}
               /\ \A k \in t.stocks : ~RetieneStock(v, k)
    PROVE  IInv'
<1>1. tx \in [Workers -> Transacciones]
    BY DEF IInv, TypeOK, DBTypeOK
<1>2. tx'[w] = t /\ \A v \in Workers \ {w} : tx'[v] = tx[v]
    BY <1>1
<1>3. TypeOK'
    BY <1>1 DEF IInv, TypeOK, DBTypeOK, EncoladorTypeOK, WorkerTypeOK, tablas
<1>4. ColaBien' /\ ReqBien'
    BY <1>1 DEF IInv, ColaBien, ReqBien, tablas, FilaCoherente, MueveStock, SinCambios,
       EsConteo
<1>5. \A v \in Workers : TxBien(tx[v])'
  <2> TAKE v \in Workers
  <2>1. PICK T : tx'[v] = T /\ TxBien(T)
    BY <1>2 DEF IInv
  <2>2. EnCurso(T) => EnCurso(tx[v])'
    BY <2>1 DEF EnCurso, Movido, tablas, MueveStock, SinCambios, EsConteo
  <2> QED
    BY <2>1, <2>2 DEF TxBien, TxIdle
<1>6. Exclusion'
    BY <1>1, <1>2 DEF IInv, Exclusion, Bloqueadas, RetieneStock, MismoProducto
<1> QED
    BY <1>3, <1>4, <1>5, <1>6 DEF IInv

(* What IInv says of a worker that is not idle. *)
LEMMA Trabajando ==
    ASSUME IInv, NEW w \in Workers, tx[w].fase # "idle"
    PROVE  /\ tx[w] \in Transacciones
           /\ EnCurso(tx[w])
           /\ Tomada(w) \in Ids
           /\ fila[Tomada(w)] \in Filas
           /\ \A v \in Workers \ {w} :
                  /\ Bloqueadas(w) \cap Bloqueadas(v) = {}
                  /\ \A k \in tx[w].stocks : ~RetieneStock(v, k)
<1>1. tx[w] \in Transacciones
    BY DEF IInv, TypeOK, DBTypeOK
<1>2. EnCurso(tx[w])
  <2>1. TxBien(tx[w])
    BY DEF IInv
  <2>2. TxIdle.fase = "idle"
    BY DEF TxIdle
  <2> QED
    BY <2>1, <2>2 DEF TxBien
<1>3. Tomada(w) \in Ids
    BY <1>1, <1>2 DEF EnCurso, Transacciones, Tomada
<1>4. fila[Tomada(w)] \in Filas
    BY <1>3 DEF IInv, TypeOK, DBTypeOK
<1> QED
    BY <1>1, <1>2, <1>3, <1>4 DEF IInv, Exclusion

(* A rollback: the transaction forgets everything. *)
LEMMA RollbackPreserva ==
    ASSUME IInv, NEW w \in Workers,
           tx' = [tx EXCEPT ![w] = TxIdle],
           UNCHANGED <<tablas, referencia, req>>, WorkerTypeOK'
    PROVE  IInv'
<1>1. TxIdle \in Transacciones
    BY TxIdleTipo
<1>2. TxBien(TxIdle)
    BY DEF TxBien
<1>3. TxIdle.forUpdate = {} /\ TxIdle.noKey = {} /\ TxIdle.stocks = {}
    BY DEF TxIdle
<1> QED
    BY <1>1, <1>2, <1>3, EnTxPreserva

LEMMA TomarPreserva ==
    ASSUME IInv, UNCHANGED req, NEW w \in Workers, NEW i \in Ids, Tomar(w, i)
    PROVE  IInv'
<1> DEFINE t == [TxIdle EXCEPT !.fase = "tomada", !.id = i, !.forUpdate = {i}]
<1>1. tx' = [tx EXCEPT ![w] = t] /\ UNCHANGED <<tablas, referencia, caidas>>
    BY DEF Tomar, EnTx
<1>2. WorkerTypeOK'
    BY <1>1 DEF IInv, TypeOK, WorkerTypeOK
<1>3. t \in Transacciones
  <2>1. i \in Int
    BY DEF Ids
  <2> QED
    BY <2>1, TxIdleTipo DEF Transacciones, Fases
<1>4. TxBien(t)
    BY DEF TxBien, EnCurso, TxIdle, Tomar, Tomable
<1>5. \A v \in Workers \ {w} : /\ (t.forUpdate \cup t.noKey) \cap Bloqueadas(v) = {}
                                /\ \A k \in t.stocks : ~RetieneStock(v, k)
    BY DEF TxIdle, Tomar, Tomable
<1> HIDE DEF t
<1> QED
    BY <1>1, <1>2, <1>3, <1>4, <1>5, EnTxPreserva

(* A step that locks nothing more. *)
LEMMA SeguirPreserva ==
    ASSUME IInv, NEW w \in Workers, tx[w].fase # "idle",
           NEW t \in Transacciones, EnTx(w, t), UNCHANGED req,
           EnCurso(t),
           t.forUpdate = tx[w].forUpdate,
           t.noKey = tx[w].noKey,
           t.stocks = tx[w].stocks
    PROVE  IInv'
<1>1. \A v \in Workers \ {w} : /\ (t.forUpdate \cup t.noKey) \cap Bloqueadas(v) = {}
                                /\ \A k \in t.stocks : ~RetieneStock(v, k)
    BY Trabajando DEF Bloqueadas
<1>2. /\ tx' = [tx EXCEPT ![w] = t]
      /\ UNCHANGED <<tablas, referencia>>
      /\ WorkerTypeOK'
    BY DEF EnTx, IInv, TypeOK, WorkerTypeOK
<1>3. TxBien(t)
    BY DEF TxBien
<1> QED
    BY <1>1, <1>2, <1>3, EnTxPreserva

LEMMA DescartarPreserva ==
    ASSUME IInv, UNCHANGED req, NEW w \in Workers, Descartar(w)
    PROVE  IInv'
<1> DEFINE t == [tx[w] EXCEPT !.fase = "commit", !.veredicto = "descarte"]
<1>1. /\ tx[w].fase = "tomada"
      /\ fila[tx[w].id].tool \notin Movimientos
      /\ EnTx(w, t)
    BY DEF Descartar, Tomada
<1>2. tx[w] \in Transacciones /\ EnCurso(tx[w])
    BY <1>1, Trabajando
<1>3. t \in Transacciones
    BY <1>2 DEF Transacciones, Fases, Veredictos
<1>4. EnCurso(t)
    BY <1>1, <1>2 DEF EnCurso, Transacciones
<1>5. /\ t.forUpdate = tx[w].forUpdate
      /\ t.noKey = tx[w].noKey
      /\ t.stocks = tx[w].stocks
    BY <1>2 DEF Transacciones
<1> HIDE DEF t
<1> QED
    BY <1>1, <1>3, <1>4, <1>5, SeguirPreserva

LEMMA EvaluarSinCambiosPreserva ==
    ASSUME IInv, UNCHANGED req, NEW w \in Workers, EvaluarSinCambios(w)
    PROVE  IInv'
<1> DEFINE t == [tx[w] EXCEPT !.fase = "invalidar", !.veredicto = "sin_cambios"]
<1>1. /\ tx[w].fase = "tomada"
      /\ SinCambios(tx[w].id)
      /\ EnTx(w, t)
    BY DEF EvaluarSinCambios, Tomada
<1>2. tx[w] \in Transacciones /\ EnCurso(tx[w])
    BY <1>1, Trabajando
<1>3. t \in Transacciones
    BY <1>2 DEF Transacciones, Fases, Veredictos
<1>4. EnCurso(t)
    BY <1>1, <1>2 DEF EnCurso, Transacciones
<1>5. /\ t.forUpdate = tx[w].forUpdate
      /\ t.noKey = tx[w].noKey
      /\ t.stocks = tx[w].stocks
    BY <1>2 DEF Transacciones
<1> HIDE DEF t
<1> QED
    BY <1>1, <1>3, <1>4, <1>5, SeguirPreserva

(* The filter gives a number: the row has a producto and a bodega. *)
LEMMA ResidualEntero ==
    ASSUME IInv, NEW w \in Workers, tx[w].fase # "idle", MueveStock(Tomada(w))
    PROVE  /\ Key(w) \in Keys
           /\ Residual(Key(w), fila[Tomada(w)].delta) \in Int
<1>1. Tomada(w) \in Ids /\ fila[Tomada(w)] \in Filas
    BY Trabajando
<1>2. Key(w) \in Keys
    BY <1>1 DEF IInv, ColaBien, FilaCoherente, MueveStock, Key
<1>3. fila[Tomada(w)].delta \in Int
    BY <1>1 DEF Filas
<1>4. stock[Key(w)] \in Int /\ media[Key(w)] \in Int
    BY <1>2 DEF IInv, TypeOK, DBTypeOK
<1> QED
    BY <1>2, <1>3, <1>4 DEF Residual

LEMMA KalmanEvaluarPreserva ==
    ASSUME IInv, UNCHANGED req, NEW w \in Workers, KalmanEvaluar(w)
    PROVE  IInv'
<1> DEFINE r == Residual(Key(w), fila[Tomada(w)].delta)
           a == [tx[w] EXCEPT !.fase = "aplicar", !.veredicto = "PASA", !.residual = r]
           b == [tx[w] EXCEPT !.fase = "commit", !.veredicto = "FALLA", !.residual = r]
<1>1. /\ tx[w].fase = "tomada"
      /\ MueveStock(Tomada(w))
      /\ EnTx(w, a) \/ EnTx(w, b)
    BY DEF KalmanEvaluar, MueveStock
<1>2. tx[w] \in Transacciones /\ EnCurso(tx[w])
    BY <1>1, Trabajando
<1>3. r \in Int
    BY <1>1, ResidualEntero
<1> HIDE DEF r
<1>4. a \in Transacciones /\ b \in Transacciones
    BY <1>2, <1>3 DEF Transacciones, Fases, Veredictos
<1>5. EnCurso(a) /\ EnCurso(b)
    BY <1>1, <1>2 DEF EnCurso, Transacciones, Tomada
<1>6. /\ a.forUpdate = tx[w].forUpdate /\ b.forUpdate = tx[w].forUpdate
      /\ a.noKey = tx[w].noKey /\ b.noKey = tx[w].noKey
      /\ a.stocks = tx[w].stocks /\ b.stocks = tx[w].stocks
    BY <1>2 DEF Transacciones
<1> HIDE DEF a, b
<1> QED
    BY <1>1, <1>4, <1>5, <1>6, SeguirPreserva

(* Locking the stock row of a key nobody else has locked. *)
LEMMA BloquearPreserva ==
    ASSUME IInv, UNCHANGED req, NEW w \in Workers, tx[w].fase # "idle",
           NEW k \in Keys, StockLibrePara(k, w),
           NEW t \in Transacciones, EnTx(w, t), EnCurso(t),
           t.forUpdate = tx[w].forUpdate,
           t.noKey = tx[w].noKey,
           t.stocks = {k}
    PROVE  IInv'
<1>1. \A v \in Workers \ {w} : /\ (t.forUpdate \cup t.noKey) \cap Bloqueadas(v) = {}
                                /\ \A j \in t.stocks : ~RetieneStock(v, j)
  <2> TAKE v \in Workers \ {w}
  <2>1. (t.forUpdate \cup t.noKey) \cap Bloqueadas(v) = {}
    BY Trabajando DEF Bloqueadas
  <2>2. ~RetieneStock(v, k)
    BY DEF StockLibrePara
  <2> QED
    BY <2>1, <2>2
<1>2. /\ tx' = [tx EXCEPT ![w] = t]
      /\ UNCHANGED <<tablas, referencia>>
      /\ WorkerTypeOK'
    BY DEF EnTx, IInv, TypeOK, WorkerTypeOK
<1>3. TxBien(t)
    BY DEF TxBien
<1> QED
    BY <1>1, <1>2, <1>3, EnTxPreserva

LEMMA LeerTipo ==
    ASSUME IInv, NEW k \in Keys
    PROVE  Leer(k) \in [stock: Int, media: Int]
BY DEF Leer, IInv, TypeOK, DBTypeOK

LEMMA BloquearStockPreserva ==
    ASSUME IInv, UNCHANGED req, NEW w \in Workers, BloquearStock(w)
    PROVE  IInv'
<1> DEFINE f == IF EsConteo(Tomada(w)) THEN "invalidar" ELSE "commit"
           p == Leer(Key(w))
           t == [tx[w] EXCEPT !.stocks = {Key(w)}, !.prod = p, !.fase = f]
<1>1. /\ tx[w].fase = "aplicar"
      /\ StockLibrePara(Key(w), w)
      /\ EnTx(w, t)
    BY DEF BloquearStock
<1>2. tx[w] \in Transacciones /\ EnCurso(tx[w])
    BY <1>1, Trabajando
<1>3. Key(w) \in Keys
    BY <1>1, <1>2, ResidualEntero DEF EnCurso, Tomada
<1>4. p \in [stock: Int, media: Int] /\ p.stock = stock[fila[tx[w].id].key]
    BY <1>3, LeerTipo DEF Leer, Key, Tomada
<1>5. f \in {"invalidar", "commit"} /\ Key(w) = fila[tx[w].id].key
    BY DEF Key, Tomada
<1> HIDE DEF f, p
<1>6. t \in Transacciones
    BY <1>2, <1>3, <1>4, <1>5 DEF Transacciones, Fases
<1>7. EnCurso(t)
  <2>1. /\ tx[w].veredicto = "PASA"
        /\ tx[w].vistas = {} /\ tx[w].inval = {}
    BY <1>1, <1>2 DEF EnCurso
  <2> QED
    BY <1>1, <1>2, <1>4, <1>5, <2>1 DEF EnCurso, Transacciones, Movido
<1>8. /\ t.forUpdate = tx[w].forUpdate
      /\ t.noKey = tx[w].noKey
      /\ t.stocks = {Key(w)}
    BY <1>2 DEF Transacciones
<1> HIDE DEF t
<1> QED
    BY <1>1, <1>3, <1>6, <1>7, <1>8, BloquearPreserva

LEMMA EvaluarConfirmacionPreserva ==
    ASSUME IInv, UNCHANGED req, NEW w \in Workers, EvaluarConfirmacion(w)
    PROVE  IInv'
<1> DEFINE t == [tx[w] EXCEPT !.fase = "objetivo"]
<1>1. /\ tx[w].fase = "tomada"
      /\ fila[tx[w].id].tool = "confirmar_movimiento"
      /\ EnTx(w, t)
    BY DEF EvaluarConfirmacion, Tomada
<1>2. tx[w] \in Transacciones /\ EnCurso(tx[w])
    BY <1>1, Trabajando
<1>3. t \in Transacciones
    BY <1>2 DEF Transacciones, Fases
<1>4. EnCurso(t)
    BY <1>1, <1>2 DEF EnCurso, Transacciones, Movido
<1>5. /\ t.forUpdate = tx[w].forUpdate
      /\ t.noKey = tx[w].noKey
      /\ t.stocks = tx[w].stocks
    BY <1>2 DEF Transacciones
<1> HIDE DEF t
<1> QED
    BY <1>1, <1>3, <1>4, <1>5, SeguirPreserva

(* The target of a confirmation is locked when nobody else has it. *)
LEMMA ObjetivoPreserva ==
    ASSUME IInv, UNCHANGED req, NEW w \in Workers, LeerObjetivo(w),
           NEW t \in Transacciones, EnTx(w, t), EnCurso(t),
           t.forUpdate = tx[w].forUpdate \cup {i \in {Objetivo(w)} : Existe(i)},
           t.noKey = tx[w].noKey,
           t.stocks = tx[w].stocks
    PROVE  IInv'
<1>1. tx[w].fase # "idle" /\ FilaLibrePara(Objetivo(w), w)
    BY DEF LeerObjetivo
<1>2. \A v \in Workers \ {w} : /\ (t.forUpdate \cup t.noKey) \cap Bloqueadas(v) = {}
                                /\ \A k \in t.stocks : ~RetieneStock(v, k)
  <2> TAKE v \in Workers \ {w}
  <2>1. Objetivo(w) \notin Bloqueadas(v)
    BY <1>1 DEF FilaLibrePara
  <2>2. Bloqueadas(w) \cap Bloqueadas(v) = {} /\ \A k \in tx[w].stocks : ~RetieneStock(v, k)
    BY <1>1, Trabajando
  <2>3. t.forUpdate \cup t.noKey \subseteq Bloqueadas(w) \cup {Objetivo(w)}
    BY DEF Bloqueadas
  <2> QED
    BY <2>1, <2>2, <2>3
<1>3. /\ tx' = [tx EXCEPT ![w] = t]
      /\ UNCHANGED <<tablas, referencia>>
      /\ WorkerTypeOK'
    BY DEF EnTx, IInv, TypeOK, WorkerTypeOK
<1>4. TxBien(t)
    BY DEF TxBien
<1> QED
    BY <1>2, <1>3, <1>4, EnTxPreserva

LEMMA ObjetivoSinEfectoPreserva ==
    ASSUME IInv, UNCHANGED req, NEW w \in Workers, ObjetivoSinEfecto(w)
    PROVE  IInv'
<1> DEFINE L == tx[w].forUpdate \cup {i \in {Objetivo(w)} : Existe(i)}
           t == [tx[w] EXCEPT !.forUpdate = L, !.fase = "commit",
                              !.veredicto = "sin_efecto"]
<1>1. tx[w].fase = "objetivo" /\ LeerObjetivo(w)
    BY DEF ObjetivoSinEfecto, LeerObjetivo
<1>2. tx[w] \in Transacciones /\ EnCurso(tx[w])
    BY <1>1, Trabajando
<1>3. EnTx(w, t)
    BY <1>2 DEF ObjetivoSinEfecto, ConObjetivo, Transacciones
<1>4. L \in SUBSET Ids /\ tx[w].forUpdate \subseteq L
    BY <1>2 DEF Existe, Transacciones
<1> HIDE DEF L
<1>5. t \in Transacciones
    BY <1>2, <1>4 DEF Transacciones, Fases, Veredictos
<1>6. EnCurso(t)
    BY <1>1, <1>2, <1>4 DEF EnCurso, Transacciones
<1>7. /\ t.forUpdate = L
      /\ t.noKey = tx[w].noKey
      /\ t.stocks = tx[w].stocks
    BY <1>2 DEF Transacciones
<1> HIDE DEF t
<1> QED
    BY <1>1, <1>3, <1>5, <1>6, <1>7, ObjetivoPreserva DEF L

LEMMA RechazarObjetivoPreserva ==
    ASSUME IInv, UNCHANGED req, NEW w \in Workers, RechazarObjetivo(w)
    PROVE  IInv'
<1> DEFINE o == fila[tx[w].id].target
           L == tx[w].forUpdate \cup {i \in {Objetivo(w)} : Existe(i)}
           t == [tx[w] EXCEPT !.forUpdate = L, !.fase = "commit",
                              !.veredicto = "rechazar"]
<1>1. tx[w].fase = "objetivo" /\ LeerObjetivo(w)
    BY DEF RechazarObjetivo, LeerObjetivo
<1>2. tx[w] \in Transacciones /\ EnCurso(tx[w])
    BY <1>1, Trabajando
<1>3. EnTx(w, t)
    BY <1>2 DEF RechazarObjetivo, ConObjetivo, Transacciones
<1>4. o \in L /\ status[o] \in Resolubles
    BY DEF RechazarObjetivo, Resoluble, Objetivo, Tomada
<1>5. L \in SUBSET Ids /\ tx[w].forUpdate \subseteq L
    BY <1>2 DEF Existe, Transacciones
<1> HIDE DEF L
<1>6. t \in Transacciones
    BY <1>2, <1>5 DEF Transacciones, Fases, Veredictos
<1>7. EnCurso(t)
    BY <1>1, <1>2, <1>4, <1>5 DEF EnCurso, Transacciones
<1>8. /\ t.forUpdate = L
      /\ t.noKey = tx[w].noKey
      /\ t.stocks = tx[w].stocks
    BY <1>2 DEF Transacciones
<1> HIDE DEF t, o
<1> QED
    BY <1>1, <1>3, <1>6, <1>7, <1>8, ObjetivoPreserva DEF L

LEMMA ConfirmarObjetivoPreserva ==
    ASSUME IInv, UNCHANGED req, NEW w \in Workers, ConfirmarObjetivo(w)
    PROVE  IInv'
<1> DEFINE o == fila[tx[w].id].target
           L == tx[w].forUpdate \cup {i \in {Objetivo(w)} : Existe(i)}
           t == [tx[w] EXCEPT !.forUpdate = L, !.fase = "stockObjetivo",
                              !.veredicto = "confirmar"]
<1>1. tx[w].fase = "objetivo" /\ LeerObjetivo(w)
    BY DEF ConfirmarObjetivo, LeerObjetivo
<1>2. tx[w] \in Transacciones /\ EnCurso(tx[w])
    BY <1>1, Trabajando
<1>3. EnTx(w, t)
    BY <1>2 DEF ConfirmarObjetivo, ConObjetivo, Transacciones
<1>4. o \in L /\ o \in Ids /\ status[o] \in Resolubles /\ fila[o].key # NoKey
    BY DEF ConfirmarObjetivo, Resoluble, Existe, Objetivo, Tomada
<1>5. fila[o].key \in Keys
    BY <1>4 DEF IInv, TypeOK, DBTypeOK, Filas
<1>6. L \in SUBSET Ids /\ tx[w].forUpdate \subseteq L
    BY <1>2 DEF Existe, Transacciones
<1> HIDE DEF L
<1>7. t \in Transacciones
    BY <1>2, <1>6 DEF Transacciones, Fases, Veredictos
<1>8. EnCurso(t)
    BY <1>1, <1>2, <1>4, <1>5, <1>6 DEF EnCurso, Transacciones
<1>9. /\ t.forUpdate = L
      /\ t.noKey = tx[w].noKey
      /\ t.stocks = tx[w].stocks
    BY <1>2 DEF Transacciones
<1> HIDE DEF t, o
<1> QED
    BY <1>1, <1>3, <1>7, <1>8, <1>9, ObjetivoPreserva DEF L

LEMMA BloquearStockObjetivoPreserva ==
    ASSUME IInv, UNCHANGED req, NEW w \in Workers, BloquearStockObjetivo(w)
    PROVE  IInv'
<1> DEFINE o == fila[tx[w].id].target
           f == IF EsConteo(o) THEN "invalidar" ELSE "commit"
           p == Leer(fila[o].key)
           r == residual[o]
           t == [tx[w] EXCEPT !.stocks = {fila[o].key}, !.prod = p, !.residual = r,
                              !.fase = f]
<1>1. /\ tx[w].fase = "stockObjetivo"
      /\ StockLibrePara(fila[o].key, w)
      /\ r # Null
      /\ EnTx(w, t)
    BY DEF BloquearStockObjetivo, Objetivo, Tomada
<1>2. tx[w] \in Transacciones /\ EnCurso(tx[w])
    BY <1>1, Trabajando
<1>3. /\ tx[w].veredicto = "confirmar"
      /\ tx[w].vistas = {} /\ tx[w].inval = {}
    BY <1>1, <1>2 DEF EnCurso
<1>4. fila[o].key \in Keys /\ o \in Ids
  <2>1. fila[o].key \in Keys /\ o \in tx[w].forUpdate
    BY <1>2, <1>3 DEF EnCurso
  <2> QED
    BY <1>2, <2>1 DEF Transacciones
<1>5. p \in [stock: Int, media: Int] /\ p.stock = stock[fila[o].key]
    BY <1>4, LeerTipo DEF Leer
<1>6. r \in Int
    BY <1>1, <1>4 DEF IInv, TypeOK, DBTypeOK
<1>7. f \in {"invalidar", "commit"}
    OBVIOUS
<1> HIDE DEF f, p
<1>8. t \in Transacciones
    BY <1>2, <1>4, <1>5, <1>6, <1>7 DEF Transacciones, Fases
<1>9. EnCurso(t)
    BY <1>1, <1>2, <1>3, <1>5, <1>7 DEF EnCurso, Transacciones, Movido
<1>10. /\ t.forUpdate = tx[w].forUpdate
       /\ t.noKey = tx[w].noKey
       /\ t.stocks = {fila[o].key}
    BY <1>2 DEF Transacciones
<1> HIDE DEF t, o
<1> QED
    BY <1>1, <1>4, <1>8, <1>9, <1>10, BloquearPreserva

(* A rival is another row, and a conteo: never the row of a confirmation. *)
LEMMA RivalesAjenos ==
    ASSUME IInv, NEW w \in Workers, tx[w].fase # "idle"
    PROVE  /\ Resuelto(w) = Movido(tx[w])
           /\ {tx[w].id, Movido(tx[w])} \cap Rivales(Resuelto(w)) = {}
           /\ Rivales(Resuelto(w)) \subseteq Ids
<1>1. EnCurso(tx[w])
    BY Trabajando
<1>2. Resuelto(w) = Movido(tx[w])
    BY DEF Resuelto, Movido, Objetivo, Tomada
<1>3. Rivales(Resuelto(w)) \subseteq Ids /\ Movido(tx[w]) \notin Rivales(Resuelto(w))
    BY <1>2 DEF Rivales
<1>4. tx[w].id \notin Rivales(Resuelto(w))
  <2>1. CASE tx[w].veredicto = "confirmar"
    BY <1>1, <2>1 DEF EnCurso, Rivales, EsConteo
  <2>2. CASE tx[w].veredicto # "confirmar"
    BY <1>3, <2>2 DEF Movido
  <2> QED
    BY <2>1, <2>2
<1> QED
    BY <1>2, <1>3, <1>4

LEMMA AbrirInvalidacionPreserva ==
    ASSUME IInv, UNCHANGED req, NEW w \in Workers, AbrirInvalidacion(w)
    PROVE  IInv'
<1> DEFINE V == {j \in Rivales(Resuelto(w)) : status[j] \in Resolubles}
           C == {j \in Ids : Existe(j)}
           t == [tx[w] EXCEPT !.fase = "invalidando", !.vistas = V, !.corte = C]
<1>1. tx[w].fase = "invalidar" /\ EnTx(w, t)
    BY DEF AbrirInvalidacion
<1>2. tx[w] \in Transacciones /\ EnCurso(tx[w])
    BY <1>1, Trabajando
<1>3. /\ V \in SUBSET Ids
      /\ C \in SUBSET Ids
      /\ {tx[w].id, Movido(tx[w])} \cap V = {}
    BY <1>1, RivalesAjenos
<1> HIDE DEF V, C
<1>4. t \in Transacciones
    BY <1>2, <1>3 DEF Transacciones, Fases
<1>5. EnCurso(t)
  <2>1. Movido(t) = Movido(tx[w])
    BY <1>2 DEF Movido, Transacciones
  <2>2. tx[w].inval = {}
    BY <1>1, <1>2 DEF EnCurso
  <2> QED
    BY <1>1, <1>2, <1>3, <2>1, <2>2 DEF EnCurso, Transacciones
<1>6. /\ t.forUpdate = tx[w].forUpdate
      /\ t.noKey = tx[w].noKey
      /\ t.stocks = tx[w].stocks
    BY <1>2 DEF Transacciones
<1> HIDE DEF t
<1> QED
    BY <1>1, <1>4, <1>5, <1>6, SeguirPreserva

LEMMA InvalidarFilaPreserva ==
    ASSUME IInv, UNCHANGED req, NEW w \in Workers, NEW j \in Ids, InvalidarFila(w, j)
    PROVE  IInv'
<1> DEFINE V == tx[w].vistas \ {j}
           K == tx[w].noKey \cup {j}
           N == tx[w].inval \cup {i \in {j} : status[i] \in Resolubles}
           t == [tx[w] EXCEPT !.vistas = V, !.noKey = K, !.inval = N]
<1>1. /\ tx[w].fase = "invalidando"
      /\ j \in tx[w].vistas
      /\ FilaLibrePara(j, w)
    BY DEF InvalidarFila
<1>2. tx[w] \in Transacciones /\ EnCurso(tx[w])
    BY <1>1, Trabajando
<1>3. EnTx(w, t)
    BY <1>2 DEF InvalidarFila, Transacciones
<1>4. /\ V \in SUBSET Ids /\ K \in SUBSET Ids /\ N \in SUBSET Ids
      /\ V \cup N \subseteq tx[w].vistas \cup tx[w].inval
      /\ N \subseteq K
      /\ \A i \in N : status[i] \in Resolubles
    BY <1>1, <1>2 DEF Transacciones, EnCurso
<1> HIDE DEF V, N
<1>5. t \in Transacciones
    BY <1>2, <1>4 DEF Transacciones
<1>6. EnCurso(t)
  <2>1. Movido(t) = Movido(tx[w])
    BY <1>2 DEF Movido, Transacciones
  <2> QED
    BY <1>1, <1>2, <1>4, <2>1 DEF EnCurso, Transacciones
<1>7. /\ t.forUpdate = tx[w].forUpdate
      /\ t.noKey = tx[w].noKey \cup {j}
      /\ t.stocks = tx[w].stocks
    BY <1>2 DEF Transacciones
<1> HIDE DEF t
<1>8. \A v \in Workers \ {w} : /\ (t.forUpdate \cup t.noKey) \cap Bloqueadas(v) = {}
                                /\ \A k \in t.stocks : ~RetieneStock(v, k)
  <2> TAKE v \in Workers \ {w}
  <2>1. j \notin Bloqueadas(v)
    BY <1>1 DEF FilaLibrePara
  <2>2. Bloqueadas(w) \cap Bloqueadas(v) = {} /\ \A k \in tx[w].stocks : ~RetieneStock(v, k)
    BY <1>1, Trabajando
  <2>3. t.forUpdate \cup t.noKey = Bloqueadas(w) \cup {j}
    BY <1>7 DEF Bloqueadas
  <2> QED
    BY <1>7, <2>1, <2>2, <2>3
<1>9. /\ tx' = [tx EXCEPT ![w] = t]
      /\ UNCHANGED <<tablas, referencia>>
      /\ WorkerTypeOK'
    BY <1>3 DEF EnTx, IInv, TypeOK, WorkerTypeOK
<1> QED
    BY <1>5, <1>6, <1>8, <1>9, EnTxPreserva DEF TxBien

LEMMA SincronizarInvalidadosPreserva ==
    ASSUME IInv, UNCHANGED req, NEW w \in Workers, SincronizarInvalidados(w)
    PROVE  IInv'
<1>1. /\ tx[w].fase = "invalidando"
      /\ tx[w] \in Transacciones
      /\ EnCurso(tx[w])
    BY Trabajando DEF SincronizarInvalidados
<1>2. PICK R \in SUBSET Ids : EnTx(w, [tx[w] EXCEPT !.fase = "commit", !.regs = R])
  <2> DEFINE antes == IF tx[w].veredicto = "confirmar"
                      THEN {j \in Rivales(Resuelto(w)) : decision[j] = "invalidado"}
                      ELSE {}
             R == {j \in tx[w].inval \cup antes : registro[j] # "no"}
  <2>1. tx[w].inval \subseteq Ids /\ antes \subseteq Ids
    BY <1>1, RivalesAjenos DEF Transacciones
  <2>2. R \in SUBSET Ids
    BY <2>1
  <2>3. EnTx(w, [tx[w] EXCEPT !.fase = "commit", !.regs = R])
    BY DEF SincronizarInvalidados
  <2> QED
    BY <2>2, <2>3
<1> DEFINE t == [tx[w] EXCEPT !.fase = "commit", !.regs = R]
<1>3. t \in Transacciones
    BY <1>1 DEF Transacciones, Fases
<1>4. EnCurso(t)
  <2>1. Movido(t) = Movido(tx[w])
    BY <1>1 DEF Movido, Transacciones
  <2> QED
    BY <1>1, <2>1 DEF EnCurso, Transacciones
<1>5. /\ t.forUpdate = tx[w].forUpdate
      /\ t.noKey = tx[w].noKey
      /\ t.stocks = tx[w].stocks
    BY <1>1 DEF Transacciones
<1> HIDE DEF t
<1> QED
    BY <1>1, <1>2, <1>3, <1>4, <1>5, SeguirPreserva DEF t

(* Every way a transaction is rolled back. *)
LEMMA CaidaPreserva ==
    ASSUME IInv, UNCHANGED req, NEW w \in Workers,
           ResidualNulo(w) \/ AbortarPorDeadlock(w) \/ Caer(w)
    PROVE  IInv'
<1>1. /\ tx' = [tx EXCEPT ![w] = TxIdle]
      /\ UNCHANGED <<tablas, referencia>>
      /\ caidas' = caidas \/ (caidas < MaxCaidas /\ caidas' = caidas + 1)
    BY DEF ResidualNulo, AbortarPorDeadlock, Caer, EnTx
<1>2. caidas \in 0..MaxCaidas /\ MaxCaidas \in Nat
    BY WorkerAssumption DEF IInv, TypeOK, WorkerTypeOK, WorkerAssumption
<1>3. caidas' \in 0..MaxCaidas
    BY <1>1, <1>2
<1> QED
    BY <1>1, <1>3, RollbackPreserva DEF WorkerTypeOK

-----------------------------------------------------------------------------
(* Commits: the tables change, only in rows that w has locked. *)

LEMMA CommitPreserva ==
    ASSUME IInv, UNCHANGED req, NEW w \in Workers, tx[w].fase # "idle",
           tx' = [tx EXCEPT ![w] = TxIdle],
           UNCHANGED <<siguiente, fila, referencia, caidas>>,
           DBTypeOK',
           \A i \in Ids \ Bloqueadas(w) : status'[i] = status[i] /\ residual'[i] = residual[i],
           \A i \in Ids : status'[i] = "LIBRE" => status[i] = "LIBRE" /\ residual'[i] = residual[i],
           \A i \in Ids : status[i] = "LIBRE" => status'[i] = "LIBRE",
           \A i \in Ids : status'[i] \in Resolubles /\ residual'[i] # Null => MueveStock(i),
           \A k \in Keys \ tx[w].stocks : stock'[k] = stock[k]
    PROVE  IInv'
<1>1. tx \in [Workers -> Transacciones]
    BY DEF IInv, TypeOK, DBTypeOK
<1>2. tx'[w] = TxIdle /\ \A v \in Workers \ {w} : tx'[v] = tx[v]
    BY <1>1
<1>3. TypeOK'
    BY DEF IInv, TypeOK, EncoladorTypeOK, WorkerTypeOK
<1>4. ColaBien'
    BY DEF IInv, ColaBien, FilaCoherente, MueveStock, SinCambios, EsConteo
<1>5. ReqBien'
    BY DEF IInv, ReqBien, FilaCoherente
<1>6. ASSUME NEW v \in Workers \ {w}, EnCurso(tx[v])
      PROVE  EnCurso(tx[v])'
  <2> DEFINE T == tx[v]
  <2>1. tx'[v] = T /\ T \in Transacciones
    BY <1>1, <1>2
  <2>2. \A i \in T.forUpdate \cup T.noKey : status'[i] = status[i] /\ residual'[i] = residual[i]
    BY <2>1 DEF IInv, Exclusion, Bloqueadas, Transacciones
  <2>3. \A k \in T.stocks : k \in Keys /\ stock'[k] = stock[k]
    BY <2>1 DEF IInv, Exclusion, RetieneStock, MismoProducto, Transacciones
  <2>4. MueveStock(T.id)' = MueveStock(T.id) /\ SinCambios(T.id)' = SinCambios(T.id)
    BY DEF MueveStock, SinCambios, EsConteo
  <2>5. Movido(T)' = Movido(T)
    BY <2>1 DEF Movido
  <2>6. /\ T.veredicto \in {"PASA", "confirmar"} /\ T.fase \notin {"aplicar", "stockObjetivo"} =>
              /\ T.stocks = {fila[Movido(T)].key}
              /\ T.prod.stock = stock'[fila[Movido(T)].key]
        /\ T.fase \notin {"invalidando", "commit"} => T.vistas = {} /\ T.inval = {}
        /\ {T.id, Movido(T)} \cap (T.vistas \cup T.inval) = {}
    BY <1>6, <2>3 DEF EnCurso
  <2>7. /\ T.fase # "idle"
        /\ T.id \in T.forUpdate
        /\ status'[T.id] = "PENDING"
        /\ T.fase = "aplicar" => T.veredicto = "PASA"
        /\ T.veredicto \in {"PASA", "FALLA"} => MueveStock(T.id)
        /\ T.veredicto = "sin_cambios" => SinCambios(T.id)
        /\ T.veredicto = "descarte" => fila[T.id].tool \notin Movimientos
        /\ T.fase = "objetivo" \/ T.veredicto \in {"confirmar", "rechazar", "sin_efecto"} =>
              fila[T.id].tool = "confirmar_movimiento"
    BY <1>6, <2>2 DEF EnCurso
  <2>8. /\ T.veredicto \in {"confirmar", "rechazar"} =>
              /\ fila[T.id].target \in T.forUpdate
              /\ status'[fila[T.id].target] \in Resolubles
        /\ T.fase = "stockObjetivo" => T.veredicto = "confirmar"
        /\ T.veredicto = "confirmar" =>
              /\ fila[fila[T.id].target].key \in Keys
              /\ T.fase # "stockObjetivo" => residual'[fila[T.id].target] # Null
        /\ T.inval \subseteq T.noKey
        /\ \A j \in T.inval : status'[j] \in Resolubles
    BY <1>6, <2>2 DEF EnCurso
  <2> QED
    BY <2>1, <2>4, <2>5, <2>6, <2>7, <2>8 DEF EnCurso
<1>7. \A v \in Workers : TxBien(tx[v])'
    BY <1>2, <1>6 DEF IInv, TxBien, TxIdle
<1>8. Exclusion'
  <2>1. TxIdle.forUpdate = {} /\ TxIdle.noKey = {} /\ TxIdle.stocks = {}
    BY DEF TxIdle
  <2>2. \A v \in Workers : \/ tx'[v] = tx[v]
                           \/ tx'[v] = TxIdle
    BY <1>2
  <2>3. ASSUME NEW u \in Workers, NEW v \in Workers, u # v
        PROVE  /\ (Bloqueadas(u) \cap Bloqueadas(v) = {})'
               /\ (\A k \in tx[u].stocks : ~RetieneStock(v, k))'
    <3>1. Bloqueadas(u) \cap Bloqueadas(v) = {} /\ \A k \in tx[u].stocks : ~RetieneStock(v, k)
      BY <2>3 DEF IInv, Exclusion
    <3>2. CASE tx'[u] = tx[u] /\ tx'[v] = tx[v]
      BY <3>1, <3>2 DEF Bloqueadas, RetieneStock, MismoProducto
    <3>3. CASE tx'[u] = TxIdle \/ tx'[v] = TxIdle
      BY <3>3, <2>1 DEF Bloqueadas, RetieneStock
    <3> QED
      BY <2>2, <3>2, <3>3
  <2> QED
    BY <2>3 DEF Exclusion
<1> QED
    BY <1>3, <1>4, <1>5, <1>7, <1>8 DEF IInv

Registros == Terminales \cup {"no", "PENDIENTE", "SOSPECHOSA"}

(* What the invalidation writes. *)
LEMMA InvalidadosTipo ==
    ASSUME IInv, NEW w \in Workers
    PROVE  /\ StatusInvalidados(w) \in [Ids -> Estados \cup {"LIBRE"}]
           /\ \A j \in Ids : StatusInvalidados(w)[j] =
                  IF j \in tx[w].inval THEN "RECHAZADA" ELSE status[j]
           /\ DecisionInvalidados(w) \in [Ids -> Decisiones]
           /\ RegistroInvalidados(w) \in [Ids -> Registros]
<1>1. /\ status \in [Ids -> Estados \cup {"LIBRE"}]
      /\ decision \in [Ids -> Decisiones]
      /\ registro \in [Ids -> Registros]
    BY DEF IInv, TypeOK, DBTypeOK, Registros
<1>2. "RECHAZADA" \in Terminales /\ "RECHAZADA" \in Estados /\ "invalidado" \in Decisiones
    BY DEF Estados, Terminales, Decisiones
<1>3. /\ StatusInvalidados(w) \in [Ids -> Estados \cup {"LIBRE"}]
      /\ \A j \in Ids : StatusInvalidados(w)[j] =
             IF j \in tx[w].inval THEN "RECHAZADA" ELSE status[j]
    BY <1>1, <1>2 DEF StatusInvalidados, Asignar
<1>4. DecisionInvalidados(w) \in [Ids -> Decisiones]
    BY <1>1, <1>2 DEF DecisionInvalidados, Asignar
<1>5. RegistroInvalidados(w) \in [Ids -> Registros]
    BY <1>1, <1>2 DEF RegistroInvalidados, Asignar, Registros
<1> QED
    BY <1>3, <1>4, <1>5

LEMMA ConRegistrosTipo ==
    ASSUME NEW f \in [Ids -> Registros], NEW A, NEW v \in Registros
    PROVE  ConRegistros(f, A, v) \in [Ids -> Registros]
BY DEF ConRegistros

(* What a transaction may rely on when it commits. *)
LEMMA AlCommit ==
    ASSUME IInv, NEW w \in Workers, NEW v, PorCommit(w, v)
    PROVE  /\ tx[w].fase = "commit"
           /\ tx[w].veredicto = v
           /\ tx[w] \in Transacciones
           /\ EnCurso(tx[w])
           /\ Tomada(w) = tx[w].id
           /\ Tomada(w) \in Ids
           /\ Tomada(w) \in Bloqueadas(w)
           /\ status[Tomada(w)] = "PENDING"
           /\ tx[w].inval \subseteq Bloqueadas(w)
           /\ tx[w].inval \subseteq Ids
           /\ \A j \in tx[w].inval : status[j] \in Resolubles
           /\ tx' = [tx EXCEPT ![w] = TxIdle]
           /\ UNCHANGED <<siguiente, fila, referencia, caidas>>
<1>1. tx[w].fase = "commit" /\ tx[w].veredicto = v
    BY DEF PorCommit
<1>2. tx[w] \in Transacciones /\ EnCurso(tx[w]) /\ Tomada(w) \in Ids
    BY <1>1, Trabajando
<1>3. Tomada(w) = tx[w].id
    BY DEF Tomada
<1>4. /\ tx[w].id \in tx[w].forUpdate
      /\ status[tx[w].id] = "PENDING"
      /\ tx[w].inval \subseteq tx[w].noKey
      /\ \A j \in tx[w].inval : status[j] \in Resolubles
    BY <1>2 DEF EnCurso
<1>5. tx[w].inval \subseteq Ids
    BY <1>2 DEF Transacciones
<1> QED
    BY <1>1, <1>2, <1>3, <1>4, <1>5 DEF PorCommit, Bloqueadas

(* One movement: the only stock it changes is the one locked. *)
LEMMA AplicarTipo ==
    ASSUME IInv, NEW w \in Workers, NEW i \in Ids, fila[i].key \in Keys,
           tx[w] \in Transacciones,
           NEW dec \in {"ACEPTADA", "CONFIRMADA_MANUAL"},
           AplicarMovimiento(w, i, dec)
    PROVE  /\ stock' \in [Keys -> Int]
           /\ media' \in [Keys -> Int]
           /\ movimientos' \in Seq(Apuntes)
           /\ \A k \in Keys \ {fila[i].key} : stock'[k] = stock[k]
<1> DEFINE k == fila[i].key
           ns == tx[w].prod.stock + fila[i].delta
           nm == tx[w].prod.media + (tx[w].residual \div GananciaInv)
<1>1. /\ tx[w].prod.stock \in Int
      /\ tx[w].prod.media \in Int
      /\ tx[w].residual \in Int
    BY DEF Transacciones
<1>2. fila[i].delta \in Int
    BY DEF IInv, TypeOK, DBTypeOK, Filas
<1>3. ns \in Int /\ nm \in Int
    BY <1>1, <1>2, DBAssumption DEF DBAssumption
<1>4. /\ stock' = [stock EXCEPT ![k] = ns]
      /\ media' = [media EXCEPT ![k] = nm]
      /\ movimientos' = Append(movimientos,
              [pend |-> i, key |-> k, delta |-> fila[i].delta, decision |-> dec,
               resultante |-> ns, mediaPrevia |-> tx[w].prod.media])
    BY DEF AplicarMovimiento
<1>5. /\ stock \in [Keys -> Int]
      /\ media \in [Keys -> Int]
      /\ movimientos \in Seq(Apuntes)
    BY DEF IInv, TypeOK, DBTypeOK
<1> HIDE DEF ns, nm
<1>6. [pend |-> i, key |-> k, delta |-> fila[i].delta, decision |-> dec,
       resultante |-> ns, mediaPrevia |-> tx[w].prod.media] \in Apuntes
    BY <1>1, <1>2, <1>3 DEF Apuntes
<1> QED
    BY <1>3, <1>4, <1>5, <1>6

(* The tables stay well typed. *)
LEMMA TablasTipo ==
    ASSUME IInv, NEW w \in Workers, UNCHANGED <<siguiente, fila, referencia>>,
           tx' = [tx EXCEPT ![w] = TxIdle],
           stock' \in [Keys -> Int], media' \in [Keys -> Int],
           movimientos' \in Seq(Apuntes), auditoria' \subseteq Ids,
           status' \in [Ids -> Estados \cup {"LIBRE"}],
           decision' \in [Ids -> Decisiones],
           residual' \in [Ids -> Int \cup {Null}],
           registro' \in [Ids -> Registros],
           corte' \in [Ids -> SUBSET Ids]
    PROVE  DBTypeOK'
BY TxIdleTipo DEF IInv, TypeOK, DBTypeOK, Registros

LEMMA CommitPasaPreserva ==
    ASSUME IInv, UNCHANGED req, NEW w \in Workers, CommitPasa(w)
    PROVE  IInv'
<1> DEFINE i == tx[w].id
           A == tx[w].inval
<1>1. /\ tx[w].veredicto = "PASA" /\ tx[w].fase = "commit"
      /\ tx[w] \in Transacciones
      /\ EnCurso(tx[w])
      /\ i \in Ids /\ i \in Bloqueadas(w) /\ status[i] = "PENDING"
      /\ A \subseteq Bloqueadas(w) /\ A \subseteq Ids
      /\ \A j \in A : status[j] \in Resolubles
      /\ tx' = [tx EXCEPT ![w] = TxIdle]
      /\ UNCHANGED <<siguiente, fila, referencia, caidas>>
    BY AlCommit DEF CommitPasa
<1>2. /\ status' = [StatusInvalidados(w) EXCEPT ![i] = "ACEPTADA"]
      /\ decision' = [DecisionInvalidados(w) EXCEPT ![i] = "PASA"]
      /\ residual' = [residual EXCEPT ![i] = tx[w].residual]
      /\ registro' = ConRegistros(RegistroInvalidados(w), {i}, "ACEPTADA")
      /\ corte' = [corte EXCEPT ![i] = tx[w].corte]
      /\ auditoria' = auditoria \cup {i}
      /\ AplicarMovimiento(w, i, "ACEPTADA")
    BY DEF CommitPasa, Tomada
<1>3. MueveStock(i) /\ tx[w].stocks = {fila[i].key}
    BY <1>1 DEF EnCurso, Movido
<1>4. fila[i].key \in Keys
    BY <1>1, <1>3, ResidualEntero DEF Key, Tomada
<1>5. /\ stock' \in [Keys -> Int] /\ media' \in [Keys -> Int]
      /\ movimientos' \in Seq(Apuntes)
      /\ \A k \in Keys \ tx[w].stocks : stock'[k] = stock[k]
    BY <1>1, <1>2, <1>3, <1>4, AplicarTipo
<1>6. /\ residual \in [Ids -> Int \cup {Null}]
      /\ corte \in [Ids -> SUBSET Ids]
      /\ auditoria \subseteq Ids
      /\ tx[w].residual \in Int /\ tx[w].corte \in SUBSET Ids
    BY <1>1 DEF IInv, TypeOK, DBTypeOK, Transacciones
<1>7. "ACEPTADA" \in Estados /\ "PASA" \in Decisiones /\ "ACEPTADA" \in Registros
    BY DEF Estados, Terminales, Decisiones, Registros
<1>8. /\ status' \in [Ids -> Estados \cup {"LIBRE"}]
      /\ \A j \in Ids : status'[j] = IF j = i THEN "ACEPTADA"
                                      ELSE IF j \in A THEN "RECHAZADA" ELSE status[j]
    BY <1>2, <1>7, InvalidadosTipo
<1>9. decision' \in [Ids -> Decisiones] /\ registro' \in [Ids -> Registros]
    BY <1>2, <1>7, InvalidadosTipo, ConRegistrosTipo
<1>10. /\ residual' \in [Ids -> Int \cup {Null}]
       /\ \A j \in Ids : j # i => residual'[j] = residual[j]
       /\ corte' \in [Ids -> SUBSET Ids]
       /\ auditoria' \subseteq Ids
    BY <1>1, <1>2, <1>6
<1>11. DBTypeOK'
    BY <1>1, <1>5, <1>8, <1>9, <1>10, TablasTipo
<1>12. \A j \in Ids : status'[j] \in Resolubles \cup {"LIBRE"} =>
          j # i /\ status'[j] = status[j]
    BY <1>8 DEF Resolubles
<1>13. \A j \in Ids : status[j] = "LIBRE" => status'[j] = "LIBRE"
    BY <1>1, <1>8 DEF Resolubles
<1>14. \A j \in Ids : status'[j] \in Resolubles /\ residual'[j] # Null => MueveStock(j)
    BY <1>10, <1>12 DEF IInv, ColaBien
<1>15. \A j \in Ids \ Bloqueadas(w) : status'[j] = status[j] /\ residual'[j] = residual[j]
    BY <1>1, <1>8, <1>10
<1>16. \A j \in Ids : status'[j] = "LIBRE" => status[j] = "LIBRE" /\ residual'[j] = residual[j]
    BY <1>10, <1>12
<1> HIDE DEF i, A
<1> QED
    BY <1>1, <1>5, <1>11, <1>13, <1>14, <1>15, <1>16, CommitPreserva

LEMMA CommitFallaPreserva ==
    ASSUME IInv, UNCHANGED req, NEW w \in Workers, CommitFalla(w)
    PROVE  IInv'
<1> DEFINE i == tx[w].id
<1>1. /\ tx[w].veredicto = "FALLA" /\ tx[w].fase = "commit"
      /\ tx[w] \in Transacciones
      /\ EnCurso(tx[w])
      /\ i \in Ids /\ i \in Bloqueadas(w) /\ status[i] = "PENDING"
      /\ tx' = [tx EXCEPT ![w] = TxIdle]
      /\ UNCHANGED <<siguiente, fila, referencia, caidas>>
    BY AlCommit DEF CommitFalla
<1>2. /\ status' = [status EXCEPT ![i] = "SOSPECHOSA"]
      /\ decision' = [decision EXCEPT ![i] = "FALLA"]
      /\ residual' = [residual EXCEPT ![i] = tx[w].residual]
      /\ registro' = ConRegistros(registro, {i}, "SOSPECHOSA")
      /\ UNCHANGED <<stock, media, movimientos, auditoria, corte>>
    BY DEF CommitFalla, SinMovimiento, Tomada
<1>3. MueveStock(i)
    BY <1>1 DEF EnCurso
<1>4. /\ stock \in [Keys -> Int] /\ media \in [Keys -> Int]
      /\ movimientos \in Seq(Apuntes) /\ auditoria \subseteq Ids
      /\ status \in [Ids -> Estados \cup {"LIBRE"}]
      /\ decision \in [Ids -> Decisiones]
      /\ residual \in [Ids -> Int \cup {Null}]
      /\ registro \in [Ids -> Registros]
      /\ corte \in [Ids -> SUBSET Ids]
      /\ tx[w].residual \in Int
    BY <1>1 DEF IInv, TypeOK, DBTypeOK, Registros, Transacciones
<1>5. "SOSPECHOSA" \in Estados /\ "FALLA" \in Decisiones /\ "SOSPECHOSA" \in Registros
    BY DEF Estados, Resolubles, Decisiones, Registros
<1>6. registro' \in [Ids -> Registros]
    BY <1>2, <1>4, <1>5, ConRegistrosTipo
<1>7. /\ status' \in [Ids -> Estados \cup {"LIBRE"}]
      /\ decision' \in [Ids -> Decisiones]
      /\ residual' \in [Ids -> Int \cup {Null}]
      /\ \A j \in Ids : j # i => status'[j] = status[j] /\ residual'[j] = residual[j]
      /\ status'[i] = "SOSPECHOSA"
    BY <1>1, <1>2, <1>4, <1>5
<1>8. DBTypeOK'
    BY <1>1, <1>2, <1>4, <1>6, <1>7, TablasTipo
<1>9. \A j \in Ids : status[j] = "LIBRE" => status'[j] = "LIBRE"
    BY <1>1, <1>7
<1>10. \A j \in Ids : status'[j] \in Resolubles /\ residual'[j] # Null => MueveStock(j)
    BY <1>3, <1>7 DEF IInv, ColaBien
<1>11. \A j \in Ids \ Bloqueadas(w) : status'[j] = status[j] /\ residual'[j] = residual[j]
    BY <1>1, <1>7
<1>12. \A j \in Ids : status'[j] = "LIBRE" => status[j] = "LIBRE" /\ residual'[j] = residual[j]
    BY <1>7
<1> HIDE DEF i
<1> QED
    BY <1>1, <1>2, <1>8, <1>9, <1>10, <1>11, <1>12, CommitPreserva

LEMMA CommitSinCambiosPreserva ==
    ASSUME IInv, UNCHANGED req, NEW w \in Workers, CommitSinCambios(w)
    PROVE  IInv'
<1> DEFINE i == tx[w].id
           A == tx[w].inval
<1>1. /\ tx[w].fase = "commit"
      /\ tx[w] \in Transacciones
      /\ i \in Ids /\ i \in Bloqueadas(w) /\ status[i] = "PENDING"
      /\ A \subseteq Bloqueadas(w) /\ A \subseteq Ids
      /\ \A j \in A : status[j] \in Resolubles
      /\ tx' = [tx EXCEPT ![w] = TxIdle]
      /\ UNCHANGED <<siguiente, fila, referencia, caidas>>
    BY AlCommit DEF CommitSinCambios
<1>2. /\ status' = [StatusInvalidados(w) EXCEPT ![i] = "ACEPTADA"]
      /\ decision' = [DecisionInvalidados(w) EXCEPT ![i] = "sin_cambios"]
      /\ residual' = [residual EXCEPT ![i] = 0]
      /\ registro' = ConRegistros(RegistroInvalidados(w), {i}, "ACEPTADA")
      /\ corte' = [corte EXCEPT ![i] = tx[w].corte]
      /\ UNCHANGED <<stock, media, movimientos, auditoria>>
    BY DEF CommitSinCambios, SinMovimiento, Tomada
<1>3. /\ stock \in [Keys -> Int] /\ media \in [Keys -> Int]
      /\ movimientos \in Seq(Apuntes) /\ auditoria \subseteq Ids
      /\ residual \in [Ids -> Int \cup {Null}]
      /\ corte \in [Ids -> SUBSET Ids]
      /\ tx[w].corte \in SUBSET Ids
    BY <1>1 DEF IInv, TypeOK, DBTypeOK, Transacciones
<1>4. "ACEPTADA" \in Estados /\ "sin_cambios" \in Decisiones /\ "ACEPTADA" \in Registros
    BY DEF Estados, Terminales, Decisiones, Registros
<1>5. /\ status' \in [Ids -> Estados \cup {"LIBRE"}]
      /\ \A j \in Ids : status'[j] = IF j = i THEN "ACEPTADA"
                                      ELSE IF j \in A THEN "RECHAZADA" ELSE status[j]
    BY <1>2, <1>4, InvalidadosTipo
<1>6. decision' \in [Ids -> Decisiones] /\ registro' \in [Ids -> Registros]
    BY <1>2, <1>4, InvalidadosTipo, ConRegistrosTipo
<1>7. /\ residual' \in [Ids -> Int \cup {Null}]
      /\ \A j \in Ids : j # i => residual'[j] = residual[j]
      /\ corte' \in [Ids -> SUBSET Ids]
    BY <1>1, <1>2, <1>3
<1>8. DBTypeOK'
    BY <1>1, <1>2, <1>3, <1>5, <1>6, <1>7, TablasTipo
<1>9. \A j \in Ids : status'[j] \in Resolubles \cup {"LIBRE"} =>
         j # i /\ status'[j] = status[j]
    BY <1>5 DEF Resolubles
<1>10. \A j \in Ids : status[j] = "LIBRE" => status'[j] = "LIBRE"
    BY <1>1, <1>5 DEF Resolubles
<1>11. \A j \in Ids : status'[j] \in Resolubles /\ residual'[j] # Null => MueveStock(j)
    BY <1>7, <1>9 DEF IInv, ColaBien
<1>12. \A j \in Ids \ Bloqueadas(w) : status'[j] = status[j] /\ residual'[j] = residual[j]
    BY <1>1, <1>5, <1>7
<1>13. \A j \in Ids : status'[j] = "LIBRE" => status[j] = "LIBRE" /\ residual'[j] = residual[j]
    BY <1>7, <1>9
<1> HIDE DEF i, A
<1> QED
    BY <1>1, <1>2, <1>8, <1>10, <1>11, <1>12, <1>13, CommitPreserva

LEMMA RespuestaTipo ==
    ASSUME NEW w
    PROVE  Respuesta(w) \in {"CONFIRMADA_MANUAL", "RECHAZADA"}
BY DEF Respuesta

LEMMA CommitConfirmarPreserva ==
    ASSUME IInv, UNCHANGED req, NEW w \in Workers, CommitConfirmar(w)
    PROVE  IInv'
<1> DEFINE i == tx[w].id
           o == fila[tx[w].id].target
           A == tx[w].inval
           e == Respuesta(w)
<1>1. /\ tx[w].veredicto = "confirmar" /\ tx[w].fase = "commit"
      /\ tx[w] \in Transacciones
      /\ EnCurso(tx[w])
      /\ i \in Ids /\ i \in Bloqueadas(w) /\ status[i] = "PENDING"
      /\ A \subseteq Bloqueadas(w) /\ A \subseteq Ids
      /\ \A j \in A : status[j] \in Resolubles
      /\ tx' = [tx EXCEPT ![w] = TxIdle]
      /\ UNCHANGED <<siguiente, fila, referencia, caidas>>
    BY AlCommit DEF CommitConfirmar
<1>2. /\ status' = [StatusInvalidados(w) EXCEPT ![o] = "CONFIRMADA_MANUAL", ![i] = e]
      /\ decision' = DecisionInvalidados(w)
      /\ registro' = ConRegistros(RegistroInvalidados(w), {o}, e)
      /\ corte' = [corte EXCEPT ![o] = tx[w].corte]
      /\ UNCHANGED <<auditoria, residual>>
      /\ AplicarMovimiento(w, o, "CONFIRMADA_MANUAL")
    BY DEF CommitConfirmar, Objetivo, Tomada
<1>3. /\ o \in tx[w].forUpdate /\ status[o] \in Resolubles /\ fila[o].key \in Keys
      /\ tx[w].stocks = {fila[o].key}
    BY <1>1 DEF EnCurso, Movido
<1>4. o \in Ids /\ o \in Bloqueadas(w)
    BY <1>1, <1>3 DEF Transacciones, Bloqueadas
<1> HIDE DEF o
<1>5. /\ stock' \in [Keys -> Int] /\ media' \in [Keys -> Int]
      /\ movimientos' \in Seq(Apuntes)
      /\ \A k \in Keys \ tx[w].stocks : stock'[k] = stock[k]
    BY <1>1, <1>2, <1>3, <1>4, AplicarTipo
<1>6. /\ residual \in [Ids -> Int \cup {Null}]
      /\ corte \in [Ids -> SUBSET Ids]
      /\ auditoria \subseteq Ids
      /\ tx[w].corte \in SUBSET Ids
    BY <1>1 DEF IInv, TypeOK, DBTypeOK, Transacciones
<1>7. e \in {"CONFIRMADA_MANUAL", "RECHAZADA"}
    BY RespuestaTipo
<1> HIDE DEF e
<1>8. e \in Estados /\ e \in Registros /\ "CONFIRMADA_MANUAL" \in Estados
    BY <1>7 DEF Estados, Terminales, Registros
<1>9. /\ status' \in [Ids -> Estados \cup {"LIBRE"}]
      /\ \A j \in Ids : status'[j] = IF j = i THEN e
                                     ELSE IF j = o THEN "CONFIRMADA_MANUAL"
                                     ELSE IF j \in A THEN "RECHAZADA" ELSE status[j]
    BY <1>1, <1>2, <1>4, <1>8, InvalidadosTipo
<1>10. decision' \in [Ids -> Decisiones] /\ registro' \in [Ids -> Registros]
    BY <1>2, <1>8, InvalidadosTipo, ConRegistrosTipo
<1>11. corte' \in [Ids -> SUBSET Ids]
    BY <1>2, <1>4, <1>6
<1>12. DBTypeOK'
    BY <1>1, <1>2, <1>5, <1>6, <1>9, <1>10, <1>11, TablasTipo
<1>13. \A j \in Ids : status'[j] \in Resolubles \cup {"LIBRE"} => status'[j] = status[j]
    BY <1>7, <1>9 DEF Resolubles
<1>14. \A j \in Ids : status[j] = "LIBRE" => status'[j] = "LIBRE"
    BY <1>1, <1>3, <1>9 DEF Resolubles
<1>15. \A j \in Ids : status'[j] \in Resolubles /\ residual'[j] # Null => MueveStock(j)
    BY <1>2, <1>13 DEF IInv, ColaBien
<1>16. \A j \in Ids \ Bloqueadas(w) : status'[j] = status[j] /\ residual'[j] = residual[j]
    BY <1>1, <1>2, <1>4, <1>9
<1>17. \A j \in Ids : status'[j] = "LIBRE" => status[j] = "LIBRE" /\ residual'[j] = residual[j]
    BY <1>2, <1>13
<1> HIDE DEF i, A
<1> QED
    BY <1>1, <1>5, <1>12, <1>14, <1>15, <1>16, <1>17, CommitPreserva

(* The commits that write nothing but the status of rows the transaction has *)
(* locked, and the registros. *)
LEMMA CommitSoloStatus ==
    ASSUME IInv, UNCHANGED req, NEW w \in Workers, tx[w].fase # "idle",
           NEW B \in SUBSET Ids, B \subseteq Bloqueadas(w),
           \A j \in B : status[j] \in Resolubles /\ status'[j] \in Terminales,
           \A j \in Ids \ B : status'[j] = status[j],
           status' \in [Ids -> Estados \cup {"LIBRE"}],
           decision' \in [Ids -> Decisiones],
           registro' \in [Ids -> Registros],
           tx' = [tx EXCEPT ![w] = TxIdle],
           UNCHANGED <<siguiente, fila, referencia, caidas, stock, media, movimientos,
                       auditoria, residual, corte>>
    PROVE  IInv'
<1>1. /\ stock \in [Keys -> Int] /\ media \in [Keys -> Int]
      /\ movimientos \in Seq(Apuntes) /\ auditoria \subseteq Ids
      /\ residual \in [Ids -> Int \cup {Null}]
      /\ corte \in [Ids -> SUBSET Ids]
    BY DEF IInv, TypeOK, DBTypeOK
<1>2. DBTypeOK'
    BY <1>1, TablasTipo
<1>3. \A j \in Ids : status'[j] \in Resolubles \cup {"LIBRE"} => status'[j] = status[j]
    BY DEF Resolubles, Terminales
<1>4. \A j \in Ids : status[j] = "LIBRE" => status'[j] = "LIBRE"
    BY DEF Resolubles
<1>5. \A j \in Ids : status'[j] \in Resolubles /\ residual'[j] # Null => MueveStock(j)
    BY <1>3 DEF IInv, ColaBien
<1>6. \A j \in Ids \ Bloqueadas(w) : status'[j] = status[j] /\ residual'[j] = residual[j]
    OBVIOUS
<1>7. \A j \in Ids : status'[j] = "LIBRE" => status[j] = "LIBRE" /\ residual'[j] = residual[j]
    BY <1>3
<1> QED
    BY <1>2, <1>4, <1>5, <1>6, <1>7, CommitPreserva

LEMMA CommitRechazarPreserva ==
    ASSUME IInv, UNCHANGED req, NEW w \in Workers, CommitRechazar(w)
    PROVE  IInv'
<1> DEFINE i == tx[w].id
           o == fila[tx[w].id].target
           B == {i, o}
           e == Respuesta(w)
<1>1. /\ tx[w].veredicto = "rechazar" /\ tx[w].fase = "commit"
      /\ tx[w] \in Transacciones
      /\ EnCurso(tx[w])
      /\ i \in Ids /\ i \in Bloqueadas(w) /\ status[i] = "PENDING"
      /\ tx' = [tx EXCEPT ![w] = TxIdle]
      /\ UNCHANGED <<siguiente, fila, referencia, caidas>>
    BY AlCommit DEF CommitRechazar
<1>2. /\ status' = [status EXCEPT ![o] = "RECHAZADA", ![i] = e]
      /\ registro' = ConRegistros(registro, {o}, e)
      /\ UNCHANGED <<stock, media, movimientos, auditoria, decision, residual, corte>>
    BY DEF CommitRechazar, SinMovimiento, Objetivo, Tomada
<1>3. o \in tx[w].forUpdate /\ status[o] \in Resolubles
    BY <1>1 DEF EnCurso
<1>4. o \in Ids /\ o \in Bloqueadas(w)
    BY <1>1, <1>3 DEF Transacciones, Bloqueadas
<1>5. e \in {"CONFIRMADA_MANUAL", "RECHAZADA"}
    BY RespuestaTipo
<1> HIDE DEF o, e
<1>6. e \in Terminales /\ "RECHAZADA" \in Terminales /\ Terminales \subseteq Registros
      /\ Terminales \subseteq Estados
    BY <1>5 DEF Estados, Terminales, Registros
<1>7. /\ status \in [Ids -> Estados \cup {"LIBRE"}]
      /\ decision \in [Ids -> Decisiones]
      /\ registro \in [Ids -> Registros]
    BY DEF IInv, TypeOK, DBTypeOK, Registros
<1>8. registro' \in [Ids -> Registros]
    BY <1>2, <1>6, <1>7, ConRegistrosTipo
<1>9. /\ status' \in [Ids -> Estados \cup {"LIBRE"}]
      /\ \A j \in B : status[j] \in Resolubles /\ status'[j] \in Terminales
      /\ \A j \in Ids \ B : status'[j] = status[j]
    BY <1>1, <1>2, <1>3, <1>4, <1>6, <1>7 DEF Resolubles
<1>10. B \in SUBSET Ids /\ B \subseteq Bloqueadas(w)
    BY <1>1, <1>4
<1> HIDE DEF B
<1> QED
    BY <1>1, <1>2, <1>4, <1>7, <1>8, <1>9, <1>10, CommitSoloStatus

LEMMA CommitSinEfectoPreserva ==
    ASSUME IInv, UNCHANGED req, NEW w \in Workers, CommitSinEfecto(w)
    PROVE  IInv'
<1> DEFINE i == tx[w].id
           B == {i}
           e == Respuesta(w)
<1>1. /\ tx[w].fase = "commit"
      /\ i \in Ids /\ i \in Bloqueadas(w) /\ status[i] = "PENDING"
      /\ tx' = [tx EXCEPT ![w] = TxIdle]
      /\ UNCHANGED <<siguiente, fila, referencia, caidas>>
    BY AlCommit DEF CommitSinEfecto
<1>2. /\ status' = [status EXCEPT ![i] = e]
      /\ registro' = ConRegistros(registro, {Objetivo(w)}, e)
      /\ UNCHANGED <<stock, media, movimientos, auditoria, decision, residual, corte>>
    BY DEF CommitSinEfecto, SinMovimiento, Tomada
<1>3. e \in {"CONFIRMADA_MANUAL", "RECHAZADA"}
    BY RespuestaTipo
<1> HIDE DEF e
<1>4. e \in Terminales /\ Terminales \subseteq Registros /\ Terminales \subseteq Estados
    BY <1>3 DEF Estados, Terminales, Registros
<1>5. /\ status \in [Ids -> Estados \cup {"LIBRE"}]
      /\ decision \in [Ids -> Decisiones]
      /\ registro \in [Ids -> Registros]
    BY DEF IInv, TypeOK, DBTypeOK, Registros
<1>6. registro' \in [Ids -> Registros]
    BY <1>2, <1>4, <1>5, ConRegistrosTipo
<1>7. /\ status' \in [Ids -> Estados \cup {"LIBRE"}]
      /\ \A j \in B : status[j] \in Resolubles /\ status'[j] \in Terminales
      /\ \A j \in Ids \ B : status'[j] = status[j]
    BY <1>1, <1>2, <1>4, <1>5 DEF Resolubles
<1>8. B \in SUBSET Ids /\ B \subseteq Bloqueadas(w)
    BY <1>1
<1> HIDE DEF B
<1> QED
    BY <1>1, <1>2, <1>5, <1>6, <1>7, <1>8, CommitSoloStatus

LEMMA CommitDescartePreserva ==
    ASSUME IInv, UNCHANGED req, NEW w \in Workers, CommitDescarte(w)
    PROVE  IInv'
<1> DEFINE i == tx[w].id
           B == {i}
           e == IF fila[i].tool \in Lecturas THEN "ACEPTADA" ELSE "RECHAZADA"
           d == IF fila[i].tool \in Lecturas THEN decision[i] ELSE "unknown_tool"
<1>1. /\ tx[w].fase = "commit"
      /\ i \in Ids /\ i \in Bloqueadas(w) /\ status[i] = "PENDING"
      /\ tx' = [tx EXCEPT ![w] = TxIdle]
      /\ UNCHANGED <<siguiente, fila, referencia, caidas>>
    BY AlCommit DEF CommitDescarte
<1>2. /\ status \in [Ids -> Estados \cup {"LIBRE"}]
      /\ decision \in [Ids -> Decisiones]
      /\ registro \in [Ids -> Registros]
    BY DEF IInv, TypeOK, DBTypeOK, Registros
<1>3. /\ status' = [status EXCEPT ![i] = e]
      /\ decision' = [decision EXCEPT ![i] = d]
      /\ UNCHANGED <<stock, media, movimientos, auditoria, residual, registro, corte>>
    BY <1>1, <1>2 DEF CommitDescarte, SinMovimiento, Tomada
<1>4. e \in Terminales /\ e \in Estados /\ d \in Decisiones
    BY <1>1, <1>2 DEF Estados, Terminales, Decisiones
<1> HIDE DEF e, d
<1>5. /\ status' \in [Ids -> Estados \cup {"LIBRE"}]
      /\ decision' \in [Ids -> Decisiones]
      /\ \A j \in B : status[j] \in Resolubles /\ status'[j] \in Terminales
      /\ \A j \in Ids \ B : status'[j] = status[j]
    BY <1>1, <1>2, <1>3, <1>4 DEF Resolubles
<1>6. B \in SUBSET Ids /\ B \subseteq Bloqueadas(w)
    BY <1>1
<1> HIDE DEF B
<1> QED
    BY <1>1, <1>2, <1>3, <1>5, <1>6, CommitSoloStatus

-----------------------------------------------------------------------------
(* The handlers: rows appear in the queue, under an id nobody has seen. *)

LEMMA ReqIdleTipo == ReqIdle \in Reqs /\ FilaVacia \in Filas
BY DEF ReqIdle, Reqs, FilaVacia, Filas, Tools

(* A step of a handler that inserts nothing in the queue. *)
LEMMA ReqPreserva ==
    ASSUME IInv,
           UNCHANGED <<stock, media, movimientos, auditoria, fila, status, decision,
                       residual, tx, corte, caidas>>,
           siguiente' \in 1..(MaxPend + 1), siguiente' >= siguiente,
           registro' \in [Ids -> Registros],
           referencia' \in [Clientes -> Ids \cup {0}],
           EncoladorTypeOK', ReqBien'
    PROVE  IInv'
<1>1. TypeOK'
    BY DEF IInv, TypeOK, DBTypeOK, WorkerTypeOK, Registros
<1>2. ColaBien'
  <2>1. siguiente \in 1..(MaxPend + 1) /\ MaxPend \in Nat
    BY DBAssumption DEF IInv, TypeOK, DBTypeOK, DBAssumption
  <2>2. \A i \in Ids : i >= siguiente' => i >= siguiente
    BY <2>1 DEF Ids
  <2> QED
    BY <2>2 DEF IInv, ColaBien, FilaCoherente, MueveStock, SinCambios, EsConteo
<1>3. \A w \in Workers : TxBien(tx[w])'
  <2> TAKE w \in Workers
  <2>1. PICK T : tx[w] = T /\ tx'[w] = T /\ TxBien(T)
    BY DEF IInv
  <2>2. EnCurso(T) => EnCurso(tx[w])'
    BY <2>1 DEF EnCurso, Movido, MueveStock, SinCambios, EsConteo
  <2> QED
    BY <2>1, <2>2 DEF TxBien, TxIdle
<1>4. Exclusion'
    BY DEF IInv, Exclusion, Bloqueadas, RetieneStock, MismoProducto
<1> QED
    BY <1>1, <1>2, <1>3, <1>4 DEF IInv

(* The request of one handler changes, to one that does not own an id. *)
LEMMA ReqSinId ==
    ASSUME IInv, NEW c \in Clientes, NEW q \in Reqs, q.fase # "insertar",
           q.fase = "leido" => q.key \in Keys,
           req' = [req EXCEPT ![c] = q],
           siguiente' >= siguiente, siguiente \in Int, siguiente' \in Int,
           \A d \in Clientes \ {c} : req[d].fase = "insertar" =>
                                         status'[req[d].id] = status[req[d].id]
    PROVE  EncoladorTypeOK' /\ ReqBien'
<1>1. req \in [Clientes -> Reqs]
    BY DEF IInv, TypeOK, EncoladorTypeOK
<1>2. req'[c] = q /\ \A d \in Clientes \ {c} : req'[d] = req[d]
    BY <1>1
<1>3. EncoladorTypeOK'
    BY <1>1 DEF EncoladorTypeOK
<1>4. ASSUME NEW d \in Clientes
      PROVE  /\ req'[d].fase = "leido" => req'[d].key \in Keys
             /\ req'[d].fase = "insertar" =>
                   /\ FilaCoherente(req'[d].fila)
                   /\ req'[d].id \in Ids
                   /\ req'[d].id < siguiente'
                   /\ status'[req'[d].id] = "LIBRE"
  <2>1. CASE d = c
    BY <1>2, <2>1
  <2>2. CASE d # c
    <3>1. req'[d] = req[d]
      BY <1>2, <2>2
    <3>2. /\ req[d].fase = "leido" => req[d].key \in Keys
          /\ req[d].fase = "insertar" =>
                /\ FilaCoherente(req[d].fila)
                /\ req[d].id \in Ids
                /\ req[d].id < siguiente
                /\ status[req[d].id] = "LIBRE"
      BY DEF IInv, ReqBien
    <3>3. req[d].fase = "insertar" => status'[req[d].id] = "LIBRE"
      BY <2>2, <3>2
    <3> QED
      BY <3>1, <3>2, <3>3 DEF Ids
  <2> QED
    BY <2>1, <2>2
<1>5. \A d, e \in Clientes :
         d # e /\ req'[d].fase = "insertar" /\ req'[e].fase = "insertar"
             => req'[d].id # req'[e].id
    BY <1>2 DEF IInv, ReqBien
<1> QED
    BY <1>3, <1>4, <1>5 DEF ReqBien, FilaCoherente

(* nextval: the handler owns an id that no row and no other handler has. *)
LEMMA TomarIdPreserva ==
    ASSUME IInv, UNCHANGED caidas, NEW c \in Clientes, NEW f \in Filas,
           FilaCoherente(f), TomarId(c, f)
    PROVE  IInv'
<1> DEFINE q == [ReqIdle EXCEPT !.fase = "insertar", !.id = siguiente, !.fila = f]
<1>1. /\ siguiente <= MaxPend
      /\ siguiente' = siguiente + 1
      /\ req' = [req EXCEPT ![c] = q]
      /\ UNCHANGED <<stock, media, movimientos, auditoria, fila, status, decision,
                     residual, registro, tx, referencia, corte>>
    BY DEF TomarId
<1>2. /\ siguiente \in 1..(MaxPend + 1) /\ MaxPend \in Nat
      /\ registro \in [Ids -> Registros]
      /\ referencia \in [Clientes -> Ids \cup {0}]
      /\ req \in [Clientes -> Reqs]
    BY DBAssumption DEF IInv, TypeOK, DBTypeOK, EncoladorTypeOK, DBAssumption, Registros
<1>3. siguiente \in Ids /\ siguiente' \in 1..(MaxPend + 1)
    BY <1>1, <1>2 DEF Ids
<1>4. q \in Reqs /\ q.fase = "insertar" /\ q.id = siguiente /\ q.fila = f
    BY <1>3, ReqIdleTipo DEF Reqs, ReqIdle
<1> HIDE DEF q
<1>5. req'[c] = q /\ \A d \in Clientes \ {c} : req'[d] = req[d]
    BY <1>1, <1>2
<1>6. EncoladorTypeOK'
    BY <1>1, <1>2, <1>4 DEF EncoladorTypeOK
<1>7. status[siguiente] = "LIBRE"
    BY <1>2, <1>3 DEF IInv, ColaBien
<1>8. \A d \in Clientes \ {c} :
          /\ req[d].fase = "leido" => req[d].key \in Keys
          /\ req[d].fase = "insertar" =>
                /\ FilaCoherente(req[d].fila)
                /\ req[d].id \in Ids
                /\ req[d].id < siguiente
                /\ req[d].id < siguiente'
                /\ status[req[d].id] = "LIBRE"
    BY <1>1, <1>2 DEF IInv, ReqBien, Ids
<1>9. ReqBien'
  <2>1. ASSUME NEW d \in Clientes
        PROVE  /\ req'[d].fase = "leido" => req'[d].key \in Keys
               /\ req'[d].fase = "insertar" =>
                     /\ FilaCoherente(req'[d].fila)
                     /\ req'[d].id \in Ids
                     /\ req'[d].id < siguiente'
                     /\ status'[req'[d].id] = "LIBRE"
    <3>1. CASE d = c
      BY <1>1, <1>2, <1>3, <1>4, <1>5, <1>7, <3>1
    <3>2. CASE d # c
      BY <1>1, <1>5, <1>8, <3>2
    <3> QED
      BY <3>1, <3>2
  <2>2. ASSUME NEW d \in Clientes, NEW e \in Clientes, d # e,
               req'[d].fase = "insertar", req'[e].fase = "insertar"
        PROVE  req'[d].id # req'[e].id
    <3>1. CASE d = c
      BY <1>2, <1>4, <1>5, <1>8, <2>2, <3>1
    <3>2. CASE e = c
      BY <1>2, <1>4, <1>5, <1>8, <2>2, <3>2
    <3>3. CASE d # c /\ e # c
      BY <1>5, <2>2, <3>3 DEF IInv, ReqBien
    <3> QED
      BY <3>1, <3>2, <3>3
  <2> QED
    BY <2>1, <2>2 DEF ReqBien, FilaCoherente
<1> QED
    BY <1>1, <1>2, <1>3, <1>6, <1>9, ReqPreserva

LEMMA EncolarMovimientoPreserva ==
    ASSUME IInv, UNCHANGED caidas, NEW c \in Clientes, EncolarMovimiento(c)
    PROVE  IInv'
<1>1. PICK t \in Pedidos \cap {"agregar_inventario", "remover_inventario"},
           k \in Keys, n \in Cantidades, s \in Sesiones :
           TomarId(c, [FilaVacia EXCEPT
               !.tool = t, !.key = k, !.sesion = s,
               !.delta = IF t = "agregar_inventario" THEN n ELSE -n])
    BY DEF EncolarMovimiento
<1> DEFINE z == IF t = "agregar_inventario" THEN n ELSE -n
           f == [FilaVacia EXCEPT !.tool = t, !.key = k, !.sesion = s, !.delta = z]
<1>2. n \in Int /\ s \in BOOLEAN /\ t \in Movimientos /\ t \in Tools
    BY EncoladorAssumption DEF EncoladorAssumption, Movimientos, Tools
<1>3. z \in Int
    BY <1>2
<1> HIDE DEF z
<1>4. f \in Filas /\ f.key = k /\ f.tool = t
    BY <1>2, <1>3, ReqIdleTipo DEF Filas
<1>5. FilaCoherente(f)
    BY <1>2, <1>4 DEF FilaCoherente
<1>6. TomarId(c, f)
    BY <1>1 DEF z
<1> HIDE DEF f
<1> QED
    BY <1>4, <1>5, <1>6, TomarIdPreserva

LEMMA EncolarConteoPreserva ==
    ASSUME IInv, UNCHANGED caidas, NEW c \in Clientes, EncolarConteo(c)
    PROVE  IInv'
<1>1. PICK n \in Conteos, s \in Sesiones :
           TomarId(c, [FilaVacia EXCEPT
               !.tool = "registrar_conteo", !.key = req[c].key, !.sesion = s,
               !.delta = n - req[c].leido, !.contada = n, !.base = req[c].base])
    BY DEF EncolarConteo
<1> DEFINE z == n - req[c].leido
           k == req[c].key
           b == req[c].base
           f == [FilaVacia EXCEPT !.tool = "registrar_conteo", !.key = k, !.sesion = s,
                                  !.delta = z, !.contada = n, !.base = b]
<1>2. n \in Int /\ s \in BOOLEAN
    BY EncoladorAssumption DEF EncoladorAssumption
<1>3. req[c] \in Reqs /\ req[c].fase = "leido"
    BY DEF IInv, TypeOK, EncoladorTypeOK, EncolarConteo
<1>4. z \in Int /\ b \in Nat
    BY <1>2, <1>3 DEF Reqs
<1>5. k \in Keys
    BY <1>3 DEF IInv, ReqBien
<1> HIDE DEF z, k, b
<1>6. "registrar_conteo" \in Movimientos /\ "registrar_conteo" \in Tools
    BY DEF Movimientos, Tools
<1>7. f \in Filas /\ f.key = k /\ f.tool = "registrar_conteo"
    BY <1>2, <1>4, <1>5, <1>6, ReqIdleTipo DEF Filas
<1>8. FilaCoherente(f)
    BY <1>5, <1>6, <1>7 DEF FilaCoherente
<1>9. TomarId(c, f)
    BY <1>1 DEF z, k, b
<1> HIDE DEF f
<1> QED
    BY <1>7, <1>8, <1>9, TomarIdPreserva

(* A row that names no producto. *)
LEMMA FilaSinKey ==
    ASSUME NEW f \in Filas, f.key = NoKey, f.tool \notin Movimientos
    PROVE  FilaCoherente(f)
BY DBAssumption DEF DBAssumption, FilaCoherente

LEMMA EncolarConfirmacionPreserva ==
    ASSUME IInv, UNCHANGED caidas, NEW c \in Clientes, EncolarConfirmacion(c)
    PROVE  IInv'
<1>1. PICK t \in Ids, si \in BOOLEAN :
           TomarId(c, [FilaVacia EXCEPT !.tool = "confirmar_movimiento",
                                        !.target = t, !.confirmar = si])
    BY DEF EncolarConfirmacion
<1> DEFINE f == [FilaVacia EXCEPT !.tool = "confirmar_movimiento",
                                  !.target = t, !.confirmar = si]
<1>2. t \in Int /\ "confirmar_movimiento" \in Tools
      /\ "confirmar_movimiento" \notin Movimientos
    BY DEF Ids, Tools, Movimientos
<1>3. f \in Filas /\ f.tool = "confirmar_movimiento" /\ f.key = FilaVacia.key
    BY <1>2, ReqIdleTipo DEF Filas
<1>4. FilaVacia.key = NoKey
    BY DEF FilaVacia
<1>5. FilaCoherente(f)
    BY <1>2, <1>3, <1>4, FilaSinKey
<1> HIDE DEF f
<1> QED
    BY <1>1, <1>3, <1>5, TomarIdPreserva DEF f

LEMMA LeerStockPreserva ==
    ASSUME IInv, UNCHANGED caidas, NEW c \in Clientes, LeerStock(c)
    PROVE  IInv'
<1>1. PICK k \in Keys :
           req' = [req EXCEPT ![c] = [ReqIdle EXCEPT
                      !.fase = "leido", !.key = k, !.leido = stock[k],
                      !.base = Len(movimientos)]]
    BY DEF LeerStock
<1> DEFINE q == [ReqIdle EXCEPT !.fase = "leido", !.key = k, !.leido = stock[k],
                                !.base = Len(movimientos)]
<1>2. stock[k] \in Int /\ Len(movimientos) \in Nat
    BY DEF IInv, TypeOK, DBTypeOK
<1>3. q \in Reqs /\ q.fase = "leido" /\ q.key = k
    BY <1>2, ReqIdleTipo DEF Reqs
<1>4. /\ UNCHANGED dbVars
      /\ siguiente \in 1..(MaxPend + 1) /\ MaxPend \in Nat
      /\ registro \in [Ids -> Registros]
      /\ referencia \in [Clientes -> Ids \cup {0}]
    BY DBAssumption DEF LeerStock, IInv, TypeOK, DBTypeOK, DBAssumption, Registros
<1>5. req' = [req EXCEPT ![c] = q]
    BY <1>1
<1>6. /\ siguiente' >= siguiente /\ siguiente \in Int /\ siguiente' \in Int
      /\ status' = status
    BY <1>4 DEF dbVars, tablas
<1> HIDE DEF q
<1>7. EncoladorTypeOK' /\ ReqBien'
  <2>1. q.fase # "insertar" /\ (q.fase = "leido" => q.key \in Keys)
    BY <1>3
  <2> QED
    BY <1>3, <1>5, <1>6, <2>1, ReqSinId
<1> QED
    BY <1>4, <1>7, ReqPreserva DEF dbVars, tablas

(* A handler that does not write to the queue, and ends in a request q that  *)
(* owns no id. *)
LEMMA RegistroPreserva ==
    ASSUME IInv, UNCHANGED caidas, NEW c \in Clientes, NEW q \in Reqs,
           q.fase \notin {"insertar", "leido"},
           req' = [req EXCEPT ![c] = q],
           UNCHANGED <<stock, media, movimientos, auditoria, siguiente, fila, status,
                       decision, residual, tx, corte>>,
           registro' \in [Ids -> Registros],
           referencia' \in [Clientes -> Ids \cup {0}]
    PROVE  IInv'
<1>1. siguiente \in 1..(MaxPend + 1) /\ MaxPend \in Nat
    BY DBAssumption DEF IInv, TypeOK, DBTypeOK, DBAssumption
<1>2. EncoladorTypeOK' /\ ReqBien'
  <2>1. q.fase # "insertar" /\ (q.fase = "leido" => q.key \in Keys)
    OBVIOUS
  <2>2. siguiente' >= siguiente /\ siguiente \in Int /\ siguiente' \in Int
    BY <1>1
  <2> QED
    BY <2>1, <2>2, ReqSinId
<1> QED
    BY <1>1, <1>2, ReqPreserva

LEMMA RegistroTipo ==
    ASSUME IInv
    PROVE  /\ registro \in [Ids -> Registros]
           /\ referencia \in [Clientes -> Ids \cup {0}]
           /\ req \in [Clientes -> Reqs]
BY DEF IInv, TypeOK, DBTypeOK, EncoladorTypeOK, Registros

LEMMA ReferirProductoPreserva ==
    ASSUME IInv, UNCHANGED caidas, NEW c \in Clientes, ReferirProducto(c)
    PROVE  IInv'
<1> DEFINE q == [req[c] EXCEPT !.fase = "referir"]
<1>1. req[c] \in Reqs /\ req' = [req EXCEPT ![c] = q]
    BY RegistroTipo DEF ReferirProducto
<1>2. q \in Reqs /\ q.fase = "referir"
    BY <1>1 DEF Reqs
<1>3. referencia' = [referencia EXCEPT ![c] = req[c].id] /\ UNCHANGED <<tablas, tx>>
    BY DEF ReferirProducto
<1>4. /\ registro' \in [Ids -> Registros]
      /\ referencia' \in [Clientes -> Ids \cup {0}]
    BY <1>1, <1>3, RegistroTipo DEF tablas, Reqs
<1> HIDE DEF q
<1> QED
    BY <1>1, <1>2, <1>3, <1>4, RegistroPreserva DEF tablas

LEMMA InsertarRegistroPreserva ==
    ASSUME IInv, UNCHANGED caidas, NEW c \in Clientes, InsertarRegistro(c)
    PROVE  IInv'
<1>1. /\ registro' = [registro EXCEPT ![req[c].id] = "PENDIENTE"]
      /\ referencia' = [referencia EXCEPT ![c] = 0]
      /\ req' = [req EXCEPT ![c] = ReqIdle]
      /\ UNCHANGED <<stock, media, movimientos, auditoria, siguiente, fila, status,
                     decision, residual, tx, corte>>
    BY DEF InsertarRegistro
<1>2. "PENDIENTE" \in Registros
    BY DEF Registros
<1>3. /\ registro' \in [Ids -> Registros]
      /\ referencia' \in [Clientes -> Ids \cup {0}]
    BY <1>1, <1>2, RegistroTipo
<1>4. ReqIdle \in Reqs /\ ReqIdle.fase = "idle"
    BY ReqIdleTipo DEF ReqIdle
<1> QED
    BY <1>1, <1>3, <1>4, RegistroPreserva

LEMMA RendirsePreserva ==
    ASSUME IInv, UNCHANGED caidas, NEW c \in Clientes, Rendirse(c)
    PROVE  IInv'
<1>1. /\ referencia' = [referencia EXCEPT ![c] = 0]
      /\ req' = [req EXCEPT ![c] = ReqIdle]
      /\ UNCHANGED <<tablas, tx>>
    BY DEF Rendirse
<1>2. /\ registro' \in [Ids -> Registros]
      /\ referencia' \in [Clientes -> Ids \cup {0}]
    BY <1>1, RegistroTipo DEF tablas
<1>3. ReqIdle \in Reqs /\ ReqIdle.fase = "idle"
    BY ReqIdleTipo DEF ReqIdle
<1> QED
    BY <1>1, <1>2, <1>3, RegistroPreserva DEF tablas

(* A row becomes visible: whatever the transactions know is about others. *)
LEMMA InsertarPreserva ==
    ASSUME IInv, UNCHANGED caidas, NEW i \in Ids, NEW f \in Filas,
           status[i] = "LIBRE", FilaCoherente(f), InsertarPending(i, f),
           siguiente' \in 1..(MaxPend + 1), siguiente' >= siguiente, i < siguiente',
           EncoladorTypeOK', ReqBien'
    PROVE  IInv'
<1>1. /\ fila' = [fila EXCEPT ![i] = f]
      /\ status' = [status EXCEPT ![i] = "PENDING"]
      /\ UNCHANGED <<stock, media, movimientos, auditoria, decision, residual,
                     registro, tx, referencia, corte>>
    BY DEF InsertarPending
<1>2. /\ fila \in [Ids -> Filas]
      /\ status \in [Ids -> Estados \cup {"LIBRE"}]
      /\ siguiente \in 1..(MaxPend + 1) /\ MaxPend \in Nat
    BY DBAssumption DEF IInv, TypeOK, DBTypeOK, DBAssumption
<1>3. /\ fila'[i] = f /\ status'[i] = "PENDING" /\ residual[i] = Null
      /\ \A j \in Ids : j # i => fila'[j] = fila[j] /\ status'[j] = status[j]
    BY <1>1, <1>2 DEF IInv, ColaBien
<1>4. TypeOK'
  <2>1. fila' \in [Ids -> Filas] /\ status' \in [Ids -> Estados \cup {"LIBRE"}]
    BY <1>1, <1>2 DEF Estados, Resolubles
  <2> QED
    BY <1>1, <2>1 DEF IInv, TypeOK, DBTypeOK, WorkerTypeOK
<1>5. ColaBien'
  <2> SUFFICES ASSUME NEW j \in Ids
               PROVE  /\ FilaCoherente(fila'[j])
                      /\ j >= siguiente' => status'[j] = "LIBRE"
                      /\ status'[j] = "LIBRE" => residual[j] = Null
                      /\ status'[j] \in Resolubles /\ residual[j] # Null => MueveStock(j)'
    BY <1>1 DEF ColaBien, FilaCoherente
  <2>1. CASE j = i
    BY <1>2, <1>3, <2>1 DEF Ids
  <2>2. CASE j # i
    <3>1. MueveStock(j)' = MueveStock(j)
      BY <1>3, <2>2 DEF MueveStock, SinCambios, EsConteo
    <3> QED
      BY <1>2, <1>3, <2>2, <3>1 DEF IInv, ColaBien, Ids
  <2> QED
    BY <2>1, <2>2
<1>6. ASSUME NEW T \in Transacciones, EnCurso(T)
      PROVE  EnCurso(T)'
  <2>1. \A j \in Ids : status[j] \in Resolubles =>
            /\ status'[j] = status[j]
            /\ fila'[j] = fila[j]
            /\ MueveStock(j)' = MueveStock(j)
            /\ SinCambios(j)' = SinCambios(j)
    BY <1>3 DEF Resolubles, MueveStock, SinCambios, EsConteo
  <2>2. T.id \in Ids /\ status[T.id] \in Resolubles
    BY <1>6 DEF EnCurso, Transacciones, Resolubles
  <2>3. T.veredicto \in {"confirmar", "rechazar"} =>
            /\ fila[T.id].target \in Ids
            /\ status[fila[T.id].target] \in Resolubles
    BY <1>6 DEF EnCurso, Transacciones
  <2>4. /\ Movido(T)' = Movido(T)
        /\ T.veredicto = "confirmar" => fila'[Movido(T)] = fila[Movido(T)]
        /\ T.veredicto # "confirmar" => fila'[Movido(T)] = fila[Movido(T)]
    BY <2>1, <2>2, <2>3 DEF Movido
  <2>5. T.inval \subseteq Ids
    BY DEF Transacciones
  <2>6. /\ T.fase # "idle"
        /\ T.id \in T.forUpdate
        /\ status'[T.id] = "PENDING"
        /\ T.fase = "aplicar" => T.veredicto = "PASA"
        /\ T.veredicto \in {"PASA", "FALLA"} => MueveStock(T.id)'
        /\ T.veredicto = "sin_cambios" => SinCambios(T.id)'
        /\ T.veredicto = "descarte" => fila'[T.id].tool \notin Movimientos
        /\ T.fase = "objetivo" \/ T.veredicto \in {"confirmar", "rechazar", "sin_efecto"} =>
              fila'[T.id].tool = "confirmar_movimiento"
    BY <1>6, <2>1, <2>2 DEF EnCurso
  <2>7. /\ T.veredicto \in {"confirmar", "rechazar"} =>
              /\ fila'[T.id].target \in T.forUpdate
              /\ status'[fila'[T.id].target] \in Resolubles
        /\ T.fase = "stockObjetivo" => T.veredicto = "confirmar"
        /\ T.veredicto = "confirmar" =>
              /\ fila'[fila'[T.id].target].key \in Keys
              /\ T.fase # "stockObjetivo" => residual'[fila'[T.id].target] # Null
    BY <1>1, <1>6, <2>1, <2>2, <2>3 DEF EnCurso
  <2>8. /\ T.veredicto \in {"PASA", "confirmar"} /\ T.fase \notin {"aplicar", "stockObjetivo"} =>
              /\ T.stocks = {fila'[Movido(T)].key}
              /\ T.prod.stock = stock'[fila'[Movido(T)].key]
        /\ T.fase \notin {"invalidando", "commit"} => T.vistas = {} /\ T.inval = {}
        /\ {T.id, Movido(T)} \cap (T.vistas \cup T.inval) = {}
        /\ T.inval \subseteq T.noKey
        /\ \A j \in T.inval : status'[j] \in Resolubles
    BY <1>1, <1>6, <2>1, <2>4, <2>5 DEF EnCurso
  <2> QED
    BY <2>4, <2>6, <2>7, <2>8 DEF EnCurso
<1>7. \A w \in Workers : TxBien(tx[w])'
  <2> TAKE w \in Workers
  <2>1. PICK T \in Transacciones : T = tx[w] /\ tx'[w] = T /\ TxBien(T)
    BY <1>1 DEF IInv, TypeOK, DBTypeOK
  <2>2. EnCurso(T) => EnCurso(T)'
    BY <1>6
  <2>3. EnCurso(T)' => EnCurso(tx[w])'
    BY <2>1 DEF EnCurso, Movido, MueveStock, SinCambios, EsConteo
  <2> QED
    BY <2>1, <2>2, <2>3 DEF TxBien, TxIdle
<1>8. Exclusion'
    BY <1>1 DEF IInv, Exclusion, Bloqueadas, RetieneStock, MismoProducto
<1> QED
    BY <1>4, <1>5, <1>7, <1>8 DEF IInv

LEMMA InsertarPedidoPreserva ==
    ASSUME IInv, UNCHANGED caidas, NEW c \in Clientes, Insertar(c)
    PROVE  IInv'
<1> DEFINE i == req[c].id
           f == req[c].fila
           q == IF f.sesion /\ f.key # NoKey
                THEN [ReqIdle EXCEPT !.fase = "registrar", !.id = i]
                ELSE ReqIdle
<1>1. req \in [Clientes -> Reqs] /\ req[c].fase = "insertar" /\ InsertarPending(i, f)
      /\ req' = [req EXCEPT ![c] = q] /\ siguiente' = siguiente
    BY RegistroTipo DEF Insertar
<1>2. i \in Ids /\ f \in Filas /\ FilaCoherente(f) /\ i < siguiente /\ status[i] = "LIBRE"
    BY <1>1 DEF IInv, ReqBien, Reqs
<1>3. q \in Reqs /\ q.fase \in {"idle", "registrar"}
    BY <1>2, ReqIdleTipo DEF Reqs, ReqIdle
<1>4. siguiente \in 1..(MaxPend + 1) /\ MaxPend \in Nat
    BY DBAssumption DEF IInv, TypeOK, DBTypeOK, DBAssumption
<1>5. \A d \in Clientes \ {c} : req[d].fase = "insertar" =>
                                    status'[req[d].id] = status[req[d].id]
  <2>1. \A d \in Clientes \ {c} : req[d].fase = "insertar" => req[d].id # i /\ req[d].id \in Ids
    BY <1>1 DEF IInv, ReqBien
  <2>2. status' = [status EXCEPT ![i] = "PENDING"] /\ status \in [Ids -> Estados \cup {"LIBRE"}]
    BY <1>1 DEF InsertarPending, IInv, TypeOK, DBTypeOK
  <2> QED
    BY <2>1, <2>2
<1>6. EncoladorTypeOK' /\ ReqBien'
  <2>1. q.fase # "insertar" /\ (q.fase = "leido" => q.key \in Keys)
    BY <1>3
  <2>2. siguiente' >= siguiente /\ siguiente \in Int /\ siguiente' \in Int
    BY <1>1, <1>4
  <2> HIDE DEF q, i, f
  <2> QED
    BY <1>1, <1>3, <1>5, <2>1, <2>2, ReqSinId
<1> HIDE DEF i, f, q
<1> QED
    BY <1>1, <1>2, <1>4, <1>6, InsertarPreserva

LEMMA InsertarAManoPreserva ==
    ASSUME IInv, UNCHANGED caidas, InsertarAMano
    PROVE  IInv'
<1>1. PICK t \in Pedidos \ (Movimientos \cup {"confirmar_movimiento"}) :
           InsertarPending(siguiente, [FilaVacia EXCEPT !.tool = t])
    BY DEF InsertarAMano
<1> DEFINE f == [FilaVacia EXCEPT !.tool = t]
<1>2. /\ siguiente <= MaxPend /\ siguiente' = siguiente + 1 /\ UNCHANGED req
      /\ siguiente \in 1..(MaxPend + 1) /\ MaxPend \in Nat
    BY DBAssumption DEF InsertarAMano, IInv, TypeOK, DBTypeOK, DBAssumption
<1>3. siguiente \in Ids /\ siguiente' \in 1..(MaxPend + 1)
    BY <1>2 DEF Ids
<1>4. status[siguiente] = "LIBRE"
    BY <1>2, <1>3 DEF IInv, ColaBien
<1>5. t \in Tools /\ t \notin Movimientos
    BY EncoladorAssumption DEF EncoladorAssumption
<1>6. f \in Filas /\ f.tool = t /\ f.key = NoKey
    BY <1>5, ReqIdleTipo DEF Filas, FilaVacia
<1>7. FilaCoherente(f)
    BY <1>5, <1>6, FilaSinKey
<1>8. EncoladorTypeOK'
    BY <1>2 DEF IInv, TypeOK, EncoladorTypeOK
<1>9. ReqBien'
  <2>1. status' = [status EXCEPT ![siguiente] = "PENDING"]
        /\ status \in [Ids -> Estados \cup {"LIBRE"}]
    BY <1>1 DEF InsertarPending, IInv, TypeOK, DBTypeOK
  <2>2. \A c \in Clientes : req[c].fase = "insertar" =>
            req[c].id < siguiente' /\ status'[req[c].id] = "LIBRE"
    BY <1>2, <2>1 DEF IInv, ReqBien, Ids
  <2> QED
    BY <1>2, <2>2 DEF IInv, ReqBien, FilaCoherente
<1>10. siguiente' >= siguiente /\ siguiente < siguiente'
    BY <1>2
<1> HIDE DEF f
<1> QED
    BY <1>1, <1>2, <1>3, <1>4, <1>6, <1>7, <1>8, <1>9, <1>10, InsertarPreserva DEF f

-----------------------------------------------------------------------------
(* Every step preserves the invariant. *)

LEMMA EncoladorPreserva ==
    ASSUME IInv, UNCHANGED caidas, NEW c \in Clientes, PasoEncolador(c)
    PROVE  IInv'
<1>1. CASE EncolarMovimiento(c)
    BY <1>1, EncolarMovimientoPreserva
<1>2. CASE LeerStock(c)
    BY <1>2, LeerStockPreserva
<1>3. CASE EncolarConteo(c)
    BY <1>3, EncolarConteoPreserva
<1>4. CASE EncolarConfirmacion(c)
    BY <1>4, EncolarConfirmacionPreserva
<1>5. CASE Insertar(c)
    BY <1>5, InsertarPedidoPreserva
<1>6. CASE ReferirProducto(c)
    BY <1>6, ReferirProductoPreserva
<1>7. CASE InsertarRegistro(c)
    BY <1>7, InsertarRegistroPreserva
<1>8. CASE AbandonarPedido(c)
    BY <1>8, RendirsePreserva DEF AbandonarPedido
<1>9. CASE AbortarRegistro(c)
    BY <1>9, RendirsePreserva DEF AbortarRegistro
<1> QED
    BY <1>1, <1>2, <1>3, <1>4, <1>5, <1>6, <1>7, <1>8, <1>9 DEF PasoEncolador

LEMMA EsperarPreserva ==
    ASSUME IInv, UNCHANGED req, NEW w \in Workers, Esperar(w)
    PROVE  IInv'
<1>1. CASE BloquearStock(w)
    BY <1>1, BloquearStockPreserva
<1>2. CASE ObjetivoSinEfecto(w)
    BY <1>2, ObjetivoSinEfectoPreserva
<1>3. CASE RechazarObjetivo(w)
    BY <1>3, RechazarObjetivoPreserva
<1>4. CASE ConfirmarObjetivo(w)
    BY <1>4, ConfirmarObjetivoPreserva
<1>5. CASE BloquearStockObjetivo(w)
    BY <1>5, BloquearStockObjetivoPreserva
<1>6. CASE ResidualNulo(w)
    BY <1>6, CaidaPreserva
<1>7. CASE \E j \in Ids : InvalidarFila(w, j)
    BY <1>7, InvalidarFilaPreserva
<1> QED
    BY <1>1, <1>2, <1>3, <1>4, <1>5, <1>6, <1>7 DEF Esperar

LEMMA AvanzarPreserva ==
    ASSUME IInv, UNCHANGED req, NEW w \in Workers, Avanzar(w)
    PROVE  IInv'
<1>1. CASE Descartar(w)
    BY <1>1, DescartarPreserva
<1>2. CASE EvaluarSinCambios(w)
    BY <1>2, EvaluarSinCambiosPreserva
<1>3. CASE KalmanEvaluar(w)
    BY <1>3, KalmanEvaluarPreserva
<1>4. CASE EvaluarConfirmacion(w)
    BY <1>4, EvaluarConfirmacionPreserva
<1>5. CASE AbrirInvalidacion(w)
    BY <1>5, AbrirInvalidacionPreserva
<1>6. CASE SincronizarInvalidados(w)
    BY <1>6, SincronizarInvalidadosPreserva
<1>7. CASE CommitPasa(w)
    BY <1>7, CommitPasaPreserva
<1>8. CASE CommitFalla(w)
    BY <1>8, CommitFallaPreserva
<1>9. CASE CommitSinCambios(w)
    BY <1>9, CommitSinCambiosPreserva
<1>10. CASE CommitConfirmar(w)
    BY <1>10, CommitConfirmarPreserva
<1>11. CASE CommitRechazar(w)
    BY <1>11, CommitRechazarPreserva
<1>12. CASE CommitSinEfecto(w)
    BY <1>12, CommitSinEfectoPreserva
<1>13. CASE CommitDescarte(w)
    BY <1>13, CommitDescartePreserva
<1> QED
    BY <1>1, <1>2, <1>3, <1>4, <1>5, <1>6, <1>7, <1>8, <1>9, <1>10, <1>11, <1>12, <1>13
    DEF Avanzar

LEMMA WorkerPreserva ==
    ASSUME IInv, UNCHANGED req, NEW w \in Workers, PasoWorker(w)
    PROVE  IInv'
<1>1. CASE \E i \in Ids : Tomar(w, i)
    BY <1>1, TomarPreserva
<1>2. CASE Esperar(w)
    BY <1>2, EsperarPreserva
<1>3. CASE Avanzar(w)
    BY <1>3, AvanzarPreserva
<1>4. CASE AbortarPorDeadlock(w) \/ Caer(w)
    BY <1>4, CaidaPreserva
<1> QED
    BY <1>1, <1>2, <1>3, <1>4 DEF PasoWorker

LEMMA QuietoPreserva ==
    ASSUME IInv, UNCHANGED vars
    PROVE  IInv'
<1>1. UNCHANGED <<stock, media, movimientos, auditoria, siguiente, fila, status, decision,
                  residual, registro, tx, referencia, corte, req, caidas>>
    BY DEF vars, dbVars, tablas
<1>2. /\ siguiente \in 1..(MaxPend + 1) /\ MaxPend \in Nat
      /\ siguiente' >= siguiente
      /\ registro' \in [Ids -> Registros]
      /\ referencia' \in [Clientes -> Ids \cup {0}]
    BY <1>1, RegistroTipo, DBAssumption DEF IInv, TypeOK, DBTypeOK, DBAssumption
<1>3. EncoladorTypeOK' /\ ReqBien'
    BY <1>1 DEF IInv, TypeOK, EncoladorTypeOK, ReqBien, FilaCoherente
<1> QED
    BY <1>1, <1>2, <1>3, ReqPreserva

LEMMA PasoIInv == IInv /\ [Next]_vars => IInv'
<1> SUFFICES ASSUME IInv, [Next]_vars PROVE IInv'
    OBVIOUS
<1>1. CASE \E c \in Clientes : PasoEncolador(c) /\ UNCHANGED caidas
    BY <1>1, EncoladorPreserva
<1>2. CASE InsertarAMano /\ UNCHANGED caidas
    BY <1>2, InsertarAManoPreserva
<1>3. CASE \E w \in Workers : PasoWorker(w) /\ UNCHANGED req
    BY <1>3, WorkerPreserva
<1>4. CASE UNCHANGED vars
    BY <1>4, QuietoPreserva
<1> QED
    BY <1>1, <1>2, <1>3, <1>4 DEF Next

-----------------------------------------------------------------------------
(* Theorems *)

(* IInv holds in every reachable state: what each worker remembers of the    *)
(* rows it works on is still what the tables hold.                           *)
THEOREM InvarianteInductivo == Spec => []IInv
    BY InitIInv, PasoIInv, PTL DEF Spec

(* Every variable always has its type: no state is given to a row of         *)
(* pending_evaluations or registros_conteo that their CHECKs do not list     *)
(* (db/init.sql:162-211).                                                    *)
THEOREM TipoCorrecto == Spec => []TypeOK
<1>1. IInv => TypeOK
    BY DEF IInv
<1> QED
    BY <1>1, InvarianteInductivo, PTL

(* With any number of workers, two of them never hold the same row of the    *)
(* queue or of stock, and the row a worker took is PENDING, and locked by    *)
(* that worker, until the worker commits or rolls back (main.go:246-265).    *)
THEOREM FilaProtegidaSiempre == Spec => []FilaProtegida
<1>1. IInv => FilaProtegida
  <2> SUFFICES ASSUME IInv PROVE FilaProtegida
      OBVIOUS
  <2>1. \A u, v \in Workers : u # v =>
            /\ Bloqueadas(u) \cap Bloqueadas(v) = {}
            /\ \A k \in tx[u].stocks : ~RetieneStock(v, k)
      BY DEF IInv, Exclusion
  <2>2. \A w \in Workers : tx[w].fase # "idle" =>
            /\ Tomada(w) \in tx[w].forUpdate
            /\ status[Tomada(w)] = "PENDING"
      BY Trabajando DEF EnCurso, Tomada
  <2> QED
      BY <2>1, <2>2 DEF FilaProtegida
<1> QED
    BY <1>1, InvarianteInductivo, PTL
=============================================================================
