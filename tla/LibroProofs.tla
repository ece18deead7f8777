---------------------------- MODULE LibroProofs ----------------------------
(***************************************************************************)
(* The queue implements the ledger.  Whatever its many small steps do to   *)
(* locks and snapshots, a step does one of four things to the requests and *)
(* the stock (PasoEfecto): nothing, a new request, some requests closed, or*)
(* one request applied while others are closed.  That a request is applied *)
(* once, that its resolution is final, that no update of the stock is lost *)
(* and the refinement follow from it.                                      *)
(***************************************************************************)
EXTENDS ColaInventarioProofs

(* A request enters the queue. *)
Entra(i, f) ==
    /\ i \in Ids
    /\ status[i] = "LIBRE"
    /\ f \in Filas
    /\ fila' = [fila EXCEPT ![i] = f]
    /\ status' = [status EXCEPT ![i] = "PENDING"]
    /\ UNCHANGED <<movimientos, stock>>

(* The requests of C are resolved without moving any stock; no other request *)
(* outside D changes its status, but for an evaluation that finds it         *)
(* suspicious.                                                               *)
Cierra(C, D) ==
    /\ C \subseteq D /\ D \subseteq Ids
    /\ \A j \in C : /\ status[j] \in Resolubles
                    /\ status'[j] \in Terminales
                    /\ status'[j] \in Aceptados => ~MueveStock(j)
    /\ \A j \in Ids \ D : \/ status'[j] = status[j]
                          \/ status[j] = "PENDING" /\ status'[j] = "SOSPECHOSA"

SoloCierra(C) == Cierra(C, C) /\ UNCHANGED <<fila, movimientos, stock>>

(* m is the movement that applies request i. *)
Apunta(m, i) ==
    /\ m.pend = i /\ m.key = fila[i].key /\ m.delta = fila[i].delta
    /\ m.resultante = stock[fila[i].key] + fila[i].delta

(* Request i is applied to the stock, and the requests of C are closed. *)
Aplica(i, C) ==
    /\ i \in Ids \ C
    /\ Cierra(C, C \cup {i})
    /\ status[i] \in Resolubles
    /\ status'[i] \in Aceptados
    /\ MueveStock(i)
    /\ fila[i].key \in Keys
    /\ stock' = [stock EXCEPT ![fila[i].key] = stock[fila[i].key] + fila[i].delta]
    /\ \E m \in Apuntes : Apunta(m, i) /\ movimientos' = Append(movimientos, m)
    /\ UNCHANGED fila

Efecto ==
    \/ UNCHANGED <<fila, status, movimientos, stock>>
    \/ \E i, f : Entra(i, f)
    \/ \E C : SoloCierra(C)
    \/ \E i, C : Aplica(i, C)

-----------------------------------------------------------------------------
(* Every step is one of the four. *)

LEMMA AplicarEfecto ==
    ASSUME IInv, NEW w \in Workers, NEW i \in Ids, fila[i].key \in Keys,
           tx[w] \in Transacciones,
           tx[w].prod.stock = stock[fila[i].key],
           NEW dec \in {"ACEPTADA", "CONFIRMADA_MANUAL"},
           AplicarMovimiento(w, i, dec)
    PROVE  /\ stock' = [stock EXCEPT ![fila[i].key] = stock[fila[i].key] + fila[i].delta]
           /\ \E m \in Apuntes : Apunta(m, i) /\ movimientos' = Append(movimientos, m)
<1> DEFINE k == fila[i].key
           ns == tx[w].prod.stock + fila[i].delta
           m  == [pend |-> i, key |-> k, delta |-> fila[i].delta, decision |-> dec,
                  resultante |-> ns, mediaPrevia |-> tx[w].prod.media]
<1>1. stock' = [stock EXCEPT ![k] = ns] /\ movimientos' = Append(movimientos, m)
    BY DEF AplicarMovimiento
<1>2. /\ tx[w].prod.stock \in Int /\ tx[w].prod.media \in Int
      /\ fila[i].delta \in Int
    BY DEF IInv, TypeOK, DBTypeOK, Filas, Transacciones
<1>3. ns \in Int
    BY <1>2
<1>4. m \in Apuntes /\ Apunta(m, i)
    BY <1>2, <1>3 DEF Apuntes, Apunta
<1> HIDE DEF m
<1> QED
    BY <1>1, <1>4

LEMMA EncoladorEfecto ==
    ASSUME IInv, NEW c \in Clientes, PasoEncolador(c)
    PROVE  Efecto
<1>1. CASE Insertar(c)
  <2>1. /\ req[c].id \in Ids
        /\ status[req[c].id] = "LIBRE"
        /\ req[c].fila \in Filas
    BY <1>1 DEF IInv, ReqBien, Insertar, TypeOK, EncoladorTypeOK, Reqs
  <2>2. Entra(req[c].id, req[c].fila)
    BY <1>1, <2>1 DEF Insertar, InsertarPending, Entra
  <2> QED
    BY <2>2 DEF Efecto
<1>2. CASE ~Insertar(c)
    BY <1>2 DEF PasoEncolador, EncolarMovimiento, LeerStock, EncolarConteo,
       EncolarConfirmacion, TomarId, ReferirProducto, InsertarRegistro,
       AbandonarPedido, AbortarRegistro, Rendirse, dbVars, tablas, Efecto
<1> QED
    BY <1>1, <1>2

LEMMA AManoEfecto ==
    ASSUME IInv, InsertarAMano
    PROVE  Efecto
<1>1. PICK t \in Pedidos \ (Movimientos \cup {"confirmar_movimiento"}) :
          InsertarPending(siguiente, [FilaVacia EXCEPT !.tool = t])
    BY DEF InsertarAMano
<1>2. siguiente \in Ids
    BY DBAssumption DEF InsertarAMano, IInv, TypeOK, DBTypeOK, DBAssumption, Ids
<1>3. status[siguiente] = "LIBRE"
    BY <1>2 DEF IInv, ColaBien, Ids
<1>4. t \in Tools
    BY EncoladorAssumption DEF EncoladorAssumption
<1>5. [FilaVacia EXCEPT !.tool = t] \in Filas
    BY <1>4, ReqIdleTipo DEF Filas
<1>6. Entra(siguiente, [FilaVacia EXCEPT !.tool = t])
    BY <1>1, <1>2, <1>3, <1>5 DEF InsertarPending, Entra
<1> QED
    BY <1>6 DEF Efecto

(* What a commit relies on, and the statuses it leaves. *)
LEMMA CommitEfecto ==
    ASSUME IInv, NEW w \in Workers, NEW v, PorCommit(w, v)
    PROVE  /\ tx[w] \in Transacciones /\ EnCurso(tx[w])
           /\ tx[w].veredicto = v /\ tx[w].fase = "commit"
           /\ Tomada(w) = tx[w].id
           /\ Tomada(w) \in Ids /\ status[Tomada(w)] = "PENDING"
           /\ tx[w].inval \subseteq Ids
           /\ \A j \in tx[w].inval : status[j] \in Resolubles
           /\ v \in {"confirmar", "rechazar"} =>
                  Objetivo(w) \in Ids /\ status[Objetivo(w)] \in Resolubles
           /\ UNCHANGED fila
<1>1. /\ tx[w].veredicto = v /\ tx[w] \in Transacciones /\ EnCurso(tx[w])
      /\ tx[w].fase = "commit"
      /\ Tomada(w) = tx[w].id
      /\ Tomada(w) \in Ids /\ status[Tomada(w)] = "PENDING"
      /\ tx[w].inval \subseteq Ids
      /\ \A j \in tx[w].inval : status[j] \in Resolubles
      /\ UNCHANGED fila
    BY AlCommit
<1>2. v \in {"confirmar", "rechazar"} =>
          Objetivo(w) \in tx[w].forUpdate /\ status[Objetivo(w)] \in Resolubles
    BY <1>1 DEF EnCurso, Objetivo
<1> QED
    BY <1>1, <1>2 DEF Transacciones

LEMMA CommitPasaEfecto ==
    ASSUME IInv, NEW w \in Workers, CommitPasa(w)
    PROVE  Efecto
<1> DEFINE i == tx[w].id
           A == tx[w].inval
<1>1. /\ tx[w] \in Transacciones /\ EnCurso(tx[w])
      /\ tx[w].veredicto = "PASA" /\ tx[w].fase = "commit"
      /\ Tomada(w) = i
      /\ i \in Ids /\ status[i] = "PENDING"
      /\ A \subseteq Ids /\ \A j \in A : status[j] \in Resolubles
      /\ UNCHANGED fila
    BY CommitEfecto DEF CommitPasa
<1>2. /\ MueveStock(i) /\ i \notin A
      /\ tx[w].prod.stock = stock[fila[i].key]
    BY <1>1 DEF EnCurso, Movido
<1>3. fila[i].key \in Keys
    BY <1>1, <1>2, ResidualEntero DEF Key, Tomada
<1>4. /\ status' = [StatusInvalidados(w) EXCEPT ![i] = "ACEPTADA"]
      /\ AplicarMovimiento(w, i, "ACEPTADA")
    BY <1>1 DEF CommitPasa
<1>5. \A j \in Ids : status'[j] = IF j = i THEN "ACEPTADA"
                                   ELSE IF j \in A THEN "RECHAZADA" ELSE status[j]
    BY <1>4, InvalidadosTipo
<1>6. Cierra(A, A \cup {i})
    BY <1>1, <1>2, <1>5 DEF Cierra, Terminales, Aceptados
<1>7. /\ stock' = [stock EXCEPT ![fila[i].key] = stock[fila[i].key] + fila[i].delta]
      /\ \E m \in Apuntes : Apunta(m, i) /\ movimientos' = Append(movimientos, m)
    BY <1>1, <1>2, <1>3, <1>4, AplicarEfecto
<1>8. Aplica(i, A)
    BY <1>1, <1>2, <1>3, <1>5, <1>6, <1>7 DEF Aplica, Resolubles, Aceptados
<1> QED
    BY <1>8 DEF Efecto

LEMMA CommitConfirmarEfecto ==
    ASSUME IInv, NEW w \in Workers, CommitConfirmar(w)
    PROVE  Efecto
<1> DEFINE i == tx[w].id
           o == fila[tx[w].id].target
           A == tx[w].inval
           e == Respuesta(w)
           C == A \cup {i}
<1>1. /\ tx[w] \in Transacciones /\ EnCurso(tx[w])
      /\ tx[w].veredicto = "confirmar" /\ tx[w].fase = "commit"
      /\ Tomada(w) = i /\ Objetivo(w) = o
      /\ i \in Ids /\ status[i] = "PENDING"
      /\ A \subseteq Ids /\ \A j \in A : status[j] \in Resolubles
      /\ o \in Ids /\ status[o] \in Resolubles
      /\ UNCHANGED fila
    BY CommitEfecto DEF CommitConfirmar, Objetivo
<1>2. /\ fila[i].tool = "confirmar_movimiento"
      /\ fila[o].key \in Keys /\ residual[o] # Null
      /\ o \notin A
      /\ tx[w].prod.stock = stock[fila[o].key]
    BY <1>1 DEF EnCurso, Movido
<1>3. MueveStock(o) /\ ~MueveStock(i)
    BY <1>1, <1>2 DEF IInv, ColaBien, MueveStock, Movimientos
<1>4. o # i
    BY <1>3
<1>5. /\ status' = [StatusInvalidados(w) EXCEPT ![o] = "CONFIRMADA_MANUAL", ![i] = e]
      /\ AplicarMovimiento(w, o, "CONFIRMADA_MANUAL")
    BY <1>1 DEF CommitConfirmar
<1>6. e \in {"CONFIRMADA_MANUAL", "RECHAZADA"}
    BY RespuestaTipo
<1> HIDE DEF o, e
<1>7. \A j \in Ids : status'[j] = IF j = i THEN e
                                   ELSE IF j = o THEN "CONFIRMADA_MANUAL"
                                   ELSE IF j \in A THEN "RECHAZADA" ELSE status[j]
    BY <1>1, <1>5, InvalidadosTipo
<1>8. /\ stock' = [stock EXCEPT ![fila[o].key] = stock[fila[o].key] + fila[o].delta]
      /\ \E m \in Apuntes : Apunta(m, o) /\ movimientos' = Append(movimientos, m)
    BY <1>1, <1>2, <1>5, AplicarEfecto
<1> HIDE DEF i, A
<1>9. Cierra(C, C \cup {o})
    BY <1>1, <1>2, <1>3, <1>4, <1>6, <1>7 DEF Cierra, Resolubles, Terminales, Aceptados
<1>10. o \in Ids \ C /\ status'[o] \in Aceptados
    BY <1>1, <1>2, <1>4, <1>7 DEF Aceptados
<1> HIDE DEF C
<1>11. Aplica(o, C)
    BY <1>1, <1>2, <1>3, <1>8, <1>9, <1>10 DEF Aplica
<1> QED
    BY <1>11 DEF Efecto

(* The commits that move no stock. *)
LEMMA CommitSinStockEfecto ==
    ASSUME IInv, NEW w \in Workers,
           \/ CommitFalla(w) \/ CommitSinCambios(w) \/ CommitRechazar(w)
           \/ CommitSinEfecto(w) \/ CommitDescarte(w)
    PROVE  Efecto
<1> DEFINE i == tx[w].id
           o == fila[tx[w].id].target
           A == tx[w].inval
           e == Respuesta(w)
<1>1. ASSUME NEW v, PorCommit(w, v)
      PROVE  /\ tx[w].veredicto = v /\ EnCurso(tx[w])
             /\ Tomada(w) = i /\ Objetivo(w) = o
             /\ i \in Ids /\ status[i] = "PENDING"
             /\ A \subseteq Ids /\ \A j \in A : status[j] \in Resolubles
             /\ UNCHANGED fila
             /\ v \in {"confirmar", "rechazar"} => o \in Ids /\ status[o] \in Resolubles
    BY <1>1, CommitEfecto DEF Objetivo
<1>2. status \in [Ids -> Estados \cup {"LIBRE"}]
    BY DEF IInv, TypeOK, DBTypeOK
<1>3. e \in {"CONFIRMADA_MANUAL", "RECHAZADA"}
    BY RespuestaTipo
<1>4. CASE CommitFalla(w)
  <2>1. /\ i \in Ids /\ status[i] = "PENDING"
        /\ status' = [status EXCEPT ![i] = "SOSPECHOSA"]
        /\ UNCHANGED <<fila, movimientos, stock>>
    BY <1>1, <1>4 DEF CommitFalla, SinMovimiento
  <2>2. SoloCierra({})
    BY <1>2, <2>1 DEF SoloCierra, Cierra
  <2> QED
    BY <2>2 DEF Efecto
<1>5. CASE CommitSinCambios(w)
  <2>1. /\ i \in Ids /\ status[i] = "PENDING"
        /\ A \subseteq Ids /\ \A j \in A : status[j] \in Resolubles
        /\ tx[w].veredicto = "sin_cambios" /\ EnCurso(tx[w])
        /\ status' = [StatusInvalidados(w) EXCEPT ![i] = "ACEPTADA"]
        /\ UNCHANGED <<fila, movimientos, stock>>
    BY <1>1, <1>5 DEF CommitSinCambios, SinMovimiento
  <2>2. SinCambios(i) /\ i \notin A
    BY <2>1 DEF EnCurso
  <2>3. \A j \in Ids : status'[j] = IF j = i THEN "ACEPTADA"
                                     ELSE IF j \in A THEN "RECHAZADA" ELSE status[j]
    BY <2>1, InvalidadosTipo
  <2>4. SoloCierra(A \cup {i})
    BY <2>1, <2>2, <2>3
    DEF SoloCierra, Cierra, Resolubles, Terminales, Aceptados, MueveStock
  <2> QED
    BY <2>4 DEF Efecto
<1>6. CASE CommitRechazar(w)
  <2>1. /\ i \in Ids /\ status[i] = "PENDING"
        /\ o \in Ids /\ status[o] \in Resolubles
        /\ tx[w].veredicto = "rechazar" /\ EnCurso(tx[w])
        /\ status' = [status EXCEPT ![o] = "RECHAZADA", ![i] = e]
        /\ UNCHANGED <<fila, movimientos, stock>>
    BY <1>1, <1>6 DEF CommitRechazar, SinMovimiento
  <2>2. ~MueveStock(i)
    BY <2>1 DEF EnCurso, MueveStock, Movimientos
  <2> HIDE DEF i, o, e
  <2>3. SoloCierra({i, o})
    BY <1>2, <1>3, <2>1, <2>2 DEF SoloCierra, Cierra, Resolubles, Terminales, Aceptados
  <2> QED
    BY <2>3 DEF Efecto
<1>7. CASE CommitSinEfecto(w)
  <2>1. /\ i \in Ids /\ status[i] = "PENDING"
        /\ tx[w].veredicto = "sin_efecto" /\ EnCurso(tx[w])
        /\ status' = [status EXCEPT ![i] = e]
        /\ UNCHANGED <<fila, movimientos, stock>>
    BY <1>1, <1>7 DEF CommitSinEfecto, SinMovimiento
  <2>2. ~MueveStock(i)
    BY <2>1 DEF EnCurso, MueveStock, Movimientos
  <2> HIDE DEF i, e
  <2>3. SoloCierra({i})
    BY <1>2, <1>3, <2>1, <2>2 DEF SoloCierra, Cierra, Resolubles, Terminales, Aceptados
  <2> QED
    BY <2>3 DEF Efecto
<1>8. CASE CommitDescarte(w)
  <2>1. /\ i \in Ids /\ status[i] = "PENDING"
        /\ tx[w].veredicto = "descarte" /\ EnCurso(tx[w])
        /\ status' = [status EXCEPT ![i] = IF fila[i].tool \in Lecturas
                                           THEN "ACEPTADA" ELSE "RECHAZADA"]
        /\ UNCHANGED <<fila, movimientos, stock>>
    BY <1>1, <1>8 DEF CommitDescarte, SinMovimiento
  <2>2. ~MueveStock(i)
    BY <2>1 DEF EnCurso, MueveStock
  <2> HIDE DEF i
  <2>3. SoloCierra({i})
    BY <1>2, <2>1, <2>2 DEF SoloCierra, Cierra, Resolubles, Terminales, Aceptados
  <2> QED
    BY <2>3 DEF Efecto
<1> QED
    BY <1>4, <1>5, <1>6, <1>7, <1>8

LEMMA WorkerEfecto ==
    ASSUME IInv, NEW w \in Workers, PasoWorker(w)
    PROVE  Efecto
<1>1. CASE Avanzar(w)
  <2>1. CASE CommitPasa(w)
    BY <2>1, CommitPasaEfecto
  <2>2. CASE CommitConfirmar(w)
    BY <2>2, CommitConfirmarEfecto
  <2>3. CASE \/ CommitFalla(w) \/ CommitSinCambios(w) \/ CommitRechazar(w)
             \/ CommitSinEfecto(w) \/ CommitDescarte(w)
    BY <2>3, CommitSinStockEfecto
  <2>4. CASE Descartar(w) \/ EvaluarSinCambios(w) \/ KalmanEvaluar(w)
             \/ EvaluarConfirmacion(w) \/ AbrirInvalidacion(w) \/ SincronizarInvalidados(w)
    BY <2>4 DEF Descartar, EvaluarSinCambios, KalmanEvaluar, EvaluarConfirmacion,
       AbrirInvalidacion, SincronizarInvalidados, EnTx, tablas, Efecto
  <2> QED
    BY <1>1, <2>1, <2>2, <2>3, <2>4 DEF Avanzar
<1>2. CASE ~Avanzar(w)
    BY <1>2 DEF PasoWorker, Tomar, Esperar, BloquearStock, ObjetivoSinEfecto,
       RechazarObjetivo, ConfirmarObjetivo, BloquearStockObjetivo, ResidualNulo,
       InvalidarFila, AbortarPorDeadlock, Caer, EnTx, tablas, Efecto
<1> QED
    BY <1>1, <1>2

LEMMA PasoEfecto ==
    ASSUME IInv, [Next]_vars
    PROVE  Efecto
<1>1. CASE \E c \in Clientes : PasoEncolador(c)
    BY <1>1, EncoladorEfecto
<1>2. CASE InsertarAMano
    BY <1>2, AManoEfecto
<1>3. CASE \E w \in Workers : PasoWorker(w)
    BY <1>3, WorkerEfecto
<1>4. CASE UNCHANGED vars
    BY <1>4 DEF vars, dbVars, tablas, Efecto
<1> QED
    BY <1>1, <1>2, <1>3, <1>4 DEF Next

-----------------------------------------------------------------------------
(* The status of a request only moves forward. *)

(* With any number of workers and handlers, an answered, accepted or         *)
(* invalidated request keeps its status for ever, and a suspicious one never *)
(* returns to the queue: no later step writes over a resolution              *)
(* (main.go:457-491, db/init.sql:421-427).                                   *)
THEOREM ResolucionSiempreDefinitiva == Spec => ResolucionDefinitiva
<1>1. IInv /\ [Next]_vars =>
          [\A i \in Ids :
              /\ status[i] \in Terminales => status'[i] = status[i]
              /\ status[i] = "SOSPECHOSA" => status'[i] # "PENDING"]_status
  <2> SUFFICES ASSUME IInv, [Next]_vars, status' # status, NEW i \in Ids
               PROVE  /\ status[i] \in Terminales => status'[i] = status[i]
                      /\ status[i] = "SOSPECHOSA" => status'[i] # "PENDING"
    OBVIOUS
  <2>1. status \in [Ids -> Estados \cup {"LIBRE"}]
    BY DEF IInv, TypeOK, DBTypeOK
  <2>2. ASSUME NEW C, NEW D, Cierra(C, D), i \notin D \ C
        PROVE  /\ status[i] \in Terminales => status'[i] = status[i]
               /\ status[i] = "SOSPECHOSA" => status'[i] # "PENDING"
    BY <2>2 DEF Cierra, Resolubles, Terminales
  <2>3. CASE \E j, f : Entra(j, f)
    BY <2>1, <2>3 DEF Entra, Terminales
  <2>4. CASE \E C : SoloCierra(C)
    BY <2>2, <2>4 DEF SoloCierra
  <2>5. CASE \E j, C : Aplica(j, C)
    <3>1. PICK j, C : Aplica(j, C)
      BY <2>5
    <3>2. CASE i = j
      BY <3>1, <3>2 DEF Aplica, Aceptados, Resolubles, Terminales
    <3>3. CASE i # j
      BY <2>2, <3>1, <3>3 DEF Aplica
    <3> QED
      BY <3>2, <3>3
  <2> QED
    BY <2>3, <2>4, <2>5, PasoEfecto DEF Efecto
<1> QED
    BY <1>1, InvarianteInductivo, PTL DEF Spec, ResolucionDefinitiva

-----------------------------------------------------------------------------
(* A request is applied at most once. *)

UnoPorPedido ==
    \A m, n \in DOMAIN movimientos :
        movimientos[m].pend = movimientos[n].pend => m = n

(* AplicadoUnaVez, and what it leaves unsaid of the ids not inserted yet.    *)
IMov ==
    /\ UnoPorPedido
    /\ \A i \in Ids : ConMovimiento(i) <=> MueveStock(i) /\ status[i] \in Aceptados

LEMMA IMovBasta == ASSUME IMov PROVE AplicadoUnaVez
    BY DEF IMov, AplicadoUnaVez, UnoPorPedido, MueveStock, Aceptados

LEMMA ApunteNuevo ==
    ASSUME movimientos \in Seq(Apuntes), NEW m \in Apuntes,
           movimientos' = Append(movimientos, m)
    PROVE  /\ \A j : ConMovimiento(j)' <=> ConMovimiento(j) \/ j = m.pend
           /\ UnoPorPedido /\ ~ConMovimiento(m.pend) => UnoPorPedido'
<1>1. /\ Len(movimientos) \in Nat
      /\ DOMAIN movimientos = 1..Len(movimientos)
      /\ DOMAIN movimientos' = 1..(Len(movimientos) + 1)
      /\ movimientos'[Len(movimientos) + 1] = m
      /\ \A n \in DOMAIN movimientos : movimientos'[n] = movimientos[n]
    OBVIOUS
<1> DEFINE N == Len(movimientos)
           viejo == movimientos
           nuevo == movimientos'
<1>2. \A n \in DOMAIN nuevo : n = N + 1 \/ n \in DOMAIN viejo
    BY <1>1
<1>3. DOMAIN viejo \subseteq DOMAIN nuevo /\ N + 1 \in DOMAIN nuevo
    BY <1>1
<1>4. \A j : ConMovimiento(j)' <=> ConMovimiento(j) \/ j = m.pend
    BY <1>1, <1>2, <1>3 DEF ConMovimiento
<1>5. ASSUME UnoPorPedido, ~ConMovimiento(m.pend)
      PROVE  UnoPorPedido'
    BY <1>1, <1>2, <1>5 DEF UnoPorPedido, ConMovimiento
<1> QED
    BY <1>4, <1>5

LEMMA InitIMov == Init => IMov
<1> SUFFICES ASSUME Init PROVE IMov
    OBVIOUS
<1>1. movimientos = << >> /\ status = [i \in Ids |-> "LIBRE"]
    BY DEF Init, DBInit
<1>2. DOMAIN movimientos = {}
    BY <1>1
<1> QED
    BY <1>1, <1>2 DEF IMov, UnoPorPedido, ConMovimiento, Aceptados

LEMMA PasoIMov ==
    ASSUME IInv, IMov, [Next]_vars
    PROVE  IMov'
<1>0. /\ status \in [Ids -> Estados \cup {"LIBRE"}] /\ fila \in [Ids -> Filas]
      /\ movimientos \in Seq(Apuntes)
    BY DEF IInv, TypeOK, DBTypeOK
<1>1. ASSUME UNCHANGED movimientos
      PROVE  UnoPorPedido' /\ \A j : ConMovimiento(j)' <=> ConMovimiento(j)
    BY <1>1 DEF IMov, UnoPorPedido, ConMovimiento
<1>2. ASSUME UNCHANGED fila
      PROVE  \A j : MueveStock(j)' <=> MueveStock(j)
    BY <1>2 DEF MueveStock, SinCambios, EsConteo
<1>3. ASSUME NEW C, NEW D, Cierra(C, D)
      PROVE  \A j \in Ids : j \notin D \ C =>
                (MueveStock(j) /\ status'[j] \in Aceptados
                    <=> MueveStock(j) /\ status[j] \in Aceptados)
    BY <1>3 DEF Cierra, Resolubles, Aceptados
<1>4. CASE UNCHANGED <<fila, status, movimientos, stock>>
    BY <1>1, <1>2, <1>4 DEF IMov
<1>5. CASE \E i, f : Entra(i, f)
  <2>1. PICK i, f : Entra(i, f)
    BY <1>5
  <2>2. \A j \in Ids : MueveStock(j)' /\ status'[j] \in Aceptados
                           <=> MueveStock(j) /\ status[j] \in Aceptados
    <3> TAKE j \in Ids
    <3>1. CASE j = i
      BY <1>0, <2>1, <3>1 DEF Entra, Aceptados
    <3>2. CASE j # i
      <4>1. fila'[j] = fila[j] /\ status'[j] = status[j]
        BY <1>0, <2>1, <3>2 DEF Entra
      <4> QED
        BY <4>1 DEF MueveStock, SinCambios, EsConteo
    <3> QED
      BY <3>1, <3>2
  <2>3. UNCHANGED movimientos
    BY <2>1 DEF Entra
  <2> QED
    BY <1>1, <2>2, <2>3 DEF IMov
<1>6. CASE \E C : SoloCierra(C)
  <2>1. PICK C : SoloCierra(C)
    BY <1>6
  <2>2. UNCHANGED <<fila, movimientos>> /\ Cierra(C, C)
    BY <2>1 DEF SoloCierra
  <2> QED
    BY <1>1, <1>2, <1>3, <2>2 DEF IMov
<1>7. CASE \E i, C : Aplica(i, C)
  <2>1. PICK i, C : Aplica(i, C)
    BY <1>7
  <2>2. PICK m \in Apuntes : m.pend = i /\ movimientos' = Append(movimientos, m)
    BY <2>1 DEF Aplica, Apunta
  <2>3. /\ i \in Ids /\ status[i] \in Resolubles /\ status'[i] \in Aceptados
        /\ MueveStock(i) /\ UNCHANGED fila /\ Cierra(C, C \cup {i})
    BY <2>1 DEF Aplica
  <2>4. ~ConMovimiento(i)
    BY <2>3 DEF IMov, Resolubles, Aceptados
  <2>5. /\ UnoPorPedido'
        /\ \A j : ConMovimiento(j)' <=> ConMovimiento(j) \/ j = i
    BY <1>0, <2>2, <2>4, ApunteNuevo DEF IMov
  <2>6. \A j \in Ids : j # i =>
            (MueveStock(j) /\ status'[j] \in Aceptados
                <=> MueveStock(j) /\ status[j] \in Aceptados)
    BY <1>3, <2>3
  <2> QED
    BY <1>2, <2>3, <2>5, <2>6 DEF IMov
<1> QED
    BY <1>4, <1>5, <1>6, <1>7, PasoEfecto DEF Efecto

LEMMA MovimientosInvariante == Spec => [](IInv /\ IMov)
<1>1. Init => IMov
    BY InitIMov
<1>2. IInv /\ IMov /\ [Next]_vars => IMov'
    BY PasoIMov
<1> QED
    BY <1>1, <1>2, InvarianteInductivo, PTL DEF Spec

(* However many workers evaluate and confirm, a request moves the stock at   *)
(* most once, and it has a row in inventario_movimientos exactly when its    *)
(* status says that it was applied (main.go:246-250).                        *)
THEOREM AplicadoUnaVezSiempre == Spec => []AplicadoUnaVez
<1>1. IMov => AplicadoUnaVez
    BY IMovBasta
<1> QED
    BY <1>1, MovimientosInvariante, PTL

-----------------------------------------------------------------------------
(* No update of the stock is lost. *)

(* CadenaDeMovimientos key by key, and that the last movement of a key up to *)
(* a position is one of the positions.                                       *)
ICadena ==
    /\ \A k \in Keys : \A n \in 0..Len(movimientos) : UltimoDe(k, n) \in 0..n
    /\ \A k \in Keys : \A n \in DOMAIN movimientos :
          movimientos[n].key = k =>
              movimientos[n].resultante = ResultanteHasta(k, n - 1) + movimientos[n].delta
    /\ \A k \in Keys : stock[k] = ResultanteHasta(k, Len(movimientos))

LEMMA ICadenaBasta ==
    ASSUME movimientos \in Seq(Apuntes), ICadena
    PROVE  CadenaDeMovimientos
<1>0. \A n \in DOMAIN movimientos : movimientos[n] \in Apuntes
    OBVIOUS
<1>1. \A n \in DOMAIN movimientos : movimientos[n].key \in Keys
    BY <1>0 DEF Apuntes
<1> QED
    BY <1>1 DEF ICadena, CadenaDeMovimientos

LEMMA MaximoDe ==
    ASSUME NEW N \in Nat, NEW P \in SUBSET (1..N), N \in P
    PROVE  Max(P) = N
<1>1. \A y \in P : N >= y
    OBVIOUS
<1>2. \E x \in P : \A y \in P : x >= y
    BY <1>1
<1>3. Max(P) \in P /\ \A y \in P : Max(P) >= y
    BY <1>2 DEF Max
<1>4. Max(P) \in 1..N /\ Max(P) >= N
    BY <1>3
<1> HIDE DEF Max
<1> QED
    BY <1>4

(* The last movement of a key, before and after one more is inserted. *)
LEMMA UltimoNuevo ==
    ASSUME movimientos \in Seq(Apuntes), NEW m \in Apuntes,
           movimientos' = Append(movimientos, m), NEW k,
           NEW N \in Nat, N = Len(movimientos)
    PROVE  /\ \A n \in 0..N : UltimoDe(k, n)' = UltimoDe(k, n)
           /\ m.key = k => UltimoDe(k, N + 1)' = N + 1
           /\ m.key # k => UltimoDe(k, N + 1)' = UltimoDe(k, N)
<1> DEFINE P(n) == {j \in 1..n : movimientos[j].key = k}
           Q(n) == {j \in 1..n : movimientos'[j].key = k}
<1>1. /\ movimientos'[N + 1] = m
      /\ \A n \in 1..N : movimientos'[n] = movimientos[n]
    OBVIOUS
<1>2. \A n \in 0..N : Q(n) = P(n)
    BY <1>1
<1>3. \A n : /\ UltimoDe(k, n) = IF P(n) = {} THEN 0 ELSE Max(P(n))
             /\ UltimoDe(k, n)' = IF Q(n) = {} THEN 0 ELSE Max(Q(n))
    BY DEF UltimoDe
<1>4. \A n \in 0..N : UltimoDe(k, n)' = UltimoDe(k, n)
  <2> HIDE DEF P, Q
  <2> QED
    BY <1>2, <1>3
<1>5. CASE m.key = k
  <2>1. N + 1 \in Q(N + 1) /\ Q(N + 1) \subseteq 1..(N + 1)
    BY <1>1, <1>5
  <2> HIDE DEF P, Q
  <2>2. Max(Q(N + 1)) = N + 1
    BY <2>1, MaximoDe
  <2>3. UltimoDe(k, N + 1)' = N + 1
    BY <1>3, <2>1, <2>2
  <2> QED
    BY <1>4, <1>5, <2>3
<1>6. CASE m.key # k
  <2>1. Q(N + 1) = P(N)
    BY <1>1, <1>6
  <2> HIDE DEF P, Q
  <2>2. UltimoDe(k, N + 1)' = UltimoDe(k, N)
    BY <1>3, <2>1
  <2> QED
    BY <1>4, <1>6, <2>2
<1> QED
    BY <1>5, <1>6

LEMMA InitICadena == Init => ICadena
<1> SUFFICES ASSUME Init PROVE ICadena
    OBVIOUS
<1>1. movimientos = << >> /\ stock = StockInicial
    BY DEF Init, DBInit
<1>2. Len(movimientos) = 0 /\ DOMAIN movimientos = {}
    BY <1>1
<1>3. \A k : UltimoDe(k, 0) = 0
    BY DEF UltimoDe
<1>4. \A k : ResultanteHasta(k, 0) = StockInicial[k]
    BY <1>3 DEF ResultanteHasta
<1> QED
    BY <1>1, <1>2, <1>3, <1>4 DEF ICadena

(* One more movement changes nothing of what the others left. *)
LEMMA ResultanteFijo ==
    ASSUME movimientos \in Seq(Apuntes), ICadena, NEW m \in Apuntes,
           movimientos' = Append(movimientos, m),
           NEW N \in Nat, N = Len(movimientos)
    PROVE  \A k \in Keys : \A n \in 0..N : ResultanteHasta(k, n)' = ResultanteHasta(k, n)
<1> SUFFICES ASSUME NEW k \in Keys, NEW n \in 0..N
             PROVE  ResultanteHasta(k, n)' = ResultanteHasta(k, n)
    OBVIOUS
<1>1. \A j \in 1..N : movimientos'[j] = movimientos[j]
    OBVIOUS
<1>2. UltimoDe(k, n)' = UltimoDe(k, n) /\ UltimoDe(k, n) \in 0..N
  <2>1. UltimoDe(k, n) \in 0..n
    BY DEF ICadena
  <2>2. UltimoDe(k, n)' = UltimoDe(k, n)
    BY UltimoNuevo
  <2> QED
    BY <2>1, <2>2
<1>3. /\ ResultanteHasta(k, n) = IF UltimoDe(k, n) = 0 THEN StockInicial[k]
                                 ELSE movimientos[UltimoDe(k, n)].resultante
      /\ ResultanteHasta(k, n)' = IF UltimoDe(k, n)' = 0 THEN StockInicial[k]
                                  ELSE movimientos'[UltimoDe(k, n)'].resultante
    BY DEF ResultanteHasta
<1> QED
    BY <1>1, <1>2, <1>3

LEMMA AplicaICadena ==
    ASSUME IInv, ICadena, NEW i, NEW C, Aplica(i, C)
    PROVE  ICadena'
<1>1. movimientos \in Seq(Apuntes) /\ stock \in [Keys -> Int]
    BY DEF IInv, TypeOK, DBTypeOK
<1>2. PICK N \in Nat : N = Len(movimientos)
    BY <1>1
<1>3. PICK k0 : k0 = fila[i].key
    OBVIOUS
<1>4. PICK m \in Apuntes : Apunta(m, i) /\ movimientos' = Append(movimientos, m)
    BY DEF Aplica
<1>5. /\ m.key = k0 /\ m.delta = fila[i].delta /\ m.resultante = stock[k0] + m.delta
      /\ k0 \in Keys
      /\ stock' = [stock EXCEPT ![k0] = m.resultante]
    BY <1>4, <1>3 DEF Aplica, Apunta
<1>6. /\ \A k \in Keys : \A n \in 0..N : UltimoDe(k, n) \in 0..n
      /\ \A k \in Keys : stock[k] = ResultanteHasta(k, N)
    BY <1>2 DEF ICadena
<1>7. /\ DOMAIN movimientos = 1..N
      /\ Len(movimientos') = N + 1 /\ DOMAIN movimientos' = 1..(N + 1)
      /\ movimientos'[N + 1] = m
      /\ \A n \in 1..N : movimientos'[n] = movimientos[n]
    BY <1>1, <1>4, <1>2
<1>8. \A k : /\ \A n \in 0..N : UltimoDe(k, n)' = UltimoDe(k, n)
             /\ m.key = k => UltimoDe(k, N + 1)' = N + 1
             /\ m.key # k => UltimoDe(k, N + 1)' = UltimoDe(k, N)
    BY <1>1, <1>4, <1>2, UltimoNuevo
<1>9. \A k : \A n : /\ ResultanteHasta(k, n) =
                           IF UltimoDe(k, n) = 0 THEN StockInicial[k]
                           ELSE movimientos[UltimoDe(k, n)].resultante
                    /\ ResultanteHasta(k, n)' =
                           IF UltimoDe(k, n)' = 0 THEN StockInicial[k]
                           ELSE movimientos'[UltimoDe(k, n)'].resultante
    BY DEF ResultanteHasta
<1>10. \A k \in Keys : \A n \in 0..N : ResultanteHasta(k, n)' = ResultanteHasta(k, n)
    BY <1>1, <1>2, <1>4, ResultanteFijo
<1>11. \A k \in Keys : ResultanteHasta(k, N + 1)' =
          IF k = k0 THEN m.resultante ELSE ResultanteHasta(k, N)
  <2> SUFFICES ASSUME NEW k \in Keys
               PROVE  ResultanteHasta(k, N + 1)' =
                          IF k = k0 THEN m.resultante ELSE ResultanteHasta(k, N)
    OBVIOUS
  <2>1. CASE k = k0
    BY <1>5, <1>7, <1>8, <1>9, <2>1
  <2>2. CASE k # k0
    <3>1. UltimoDe(k, N + 1)' = UltimoDe(k, N) /\ UltimoDe(k, N) \in 0..N
      BY <1>5, <1>7, <1>8, <1>6, <2>2
    <3> QED
      BY <1>7, <1>9, <2>2, <3>1
  <2> QED
    BY <2>1, <2>2
<1>12. \A k \in Keys : \A n \in 0..(N + 1) : UltimoDe(k, n)' \in 0..n
  <2> SUFFICES ASSUME NEW k \in Keys, NEW n \in 0..(N + 1)
               PROVE  UltimoDe(k, n)' \in 0..n
    OBVIOUS
  <2>1. CASE n = N + 1
    BY <1>7, <1>8, <1>6, <2>1
  <2>2. CASE n # N + 1
    BY <1>7, <1>8, <1>6, <2>2
  <2> QED
    BY <2>1, <2>2
<1>13. \A k \in Keys : \A n \in 1..(N + 1) : movimientos'[n].key = k =>
          movimientos'[n].resultante =
              ResultanteHasta(k, n - 1)' + movimientos'[n].delta
  <2> SUFFICES ASSUME NEW k \in Keys, NEW n \in 1..(N + 1), movimientos'[n].key = k
               PROVE  movimientos'[n].resultante =
                          ResultanteHasta(k, n - 1)' + movimientos'[n].delta
    OBVIOUS
  <2>1. CASE n = N + 1
    <3>1. k = k0 /\ n - 1 = N
      BY <1>5, <1>7, <2>1
    <3>2. stock[k] = ResultanteHasta(k, N)'
      BY <1>6, <1>10
    <3> QED
      BY <1>5, <1>7, <2>1, <3>1, <3>2
  <2>2. CASE n # N + 1
    <3>1. n \in 1..N /\ n - 1 \in 0..N /\ movimientos'[n] = movimientos[n]
      BY <1>7, <2>2
    <3>2. movimientos[n].resultante = ResultanteHasta(k, n - 1) + movimientos[n].delta
      BY <1>7, <3>1 DEF ICadena
    <3> QED
      BY <1>10, <3>1, <3>2
  <2> QED
    BY <2>1, <2>2
<1>14. \A k \in Keys : stock'[k] = ResultanteHasta(k, N + 1)'
    BY <1>1, <1>5, <1>6, <1>11
<1> QED
    BY <1>7, <1>12, <1>13, <1>14 DEF ICadena

LEMMA PasoICadena ==
    ASSUME IInv, ICadena, [Next]_vars
    PROVE  ICadena'
<1>1. CASE UNCHANGED <<movimientos, stock>>
  <2>1. \A k, n : UltimoDe(k, n)' = UltimoDe(k, n)
    BY <1>1 DEF UltimoDe
  <2>2. \A k, n : ResultanteHasta(k, n)' = ResultanteHasta(k, n)
    BY <1>1, <2>1 DEF ResultanteHasta
  <2>3. /\ movimientos' = movimientos /\ stock' = stock
        /\ Len(movimientos') = Len(movimientos)
        /\ DOMAIN movimientos' = DOMAIN movimientos
    BY <1>1
  <2>4. PICK N : N = Len(movimientos)
    OBVIOUS
  <2>5. \A k \in Keys : stock'[k] = ResultanteHasta(k, N)'
    BY <2>2, <2>3, <2>4 DEF ICadena
  <2>6. \A k \in Keys : \A n \in 0..N : UltimoDe(k, n)' \in 0..n
    BY <2>1, <2>4 DEF ICadena
  <2>7. \A k \in Keys : \A n \in DOMAIN movimientos' :
            movimientos'[n].key = k =>
                movimientos'[n].resultante =
                    ResultanteHasta(k, n - 1)' + movimientos'[n].delta
    BY <2>2, <2>3 DEF ICadena
  <2> QED
    BY <2>3, <2>4, <2>5, <2>6, <2>7 DEF ICadena
<1>2. CASE \E i, C : Aplica(i, C)
    BY <1>2, AplicaICadena
<1> QED
    BY <1>1, <1>2, PasoEfecto DEF Efecto, Entra, SoloCierra

(* The movements of a product in a bodega chain and end at its stock: what a *)
(* worker adds to is always the stock the last committed movement left,      *)
(* although it reads it, may wait, and writes it later (init.sql:356-403).   *)
THEOREM CadenaSiempre == Spec => []CadenaDeMovimientos
<1>1. Init => ICadena
    BY InitICadena
<1>2. IInv /\ ICadena /\ [Next]_vars => ICadena'
    BY PasoICadena
<1>3. IInv /\ ICadena => CadenaDeMovimientos
    BY ICadenaBasta DEF IInv, TypeOK, DBTypeOK
<1> QED
    BY <1>1, <1>2, <1>3, InvarianteInductivo, PTL DEF Spec

-----------------------------------------------------------------------------
(* The refinement. *)

PedidoLibro == [i \in Ids |-> [key |-> fila[i].key, delta |-> fila[i].delta]]

(* The state of a request in the ledger, from its status and from whether it *)
(* has a movement. *)
Valor(s, aplicado) == CASE s = "LIBRE" -> "libre"
                        [] s \in Resolubles -> "abierto"
                        [] s \in Terminales /\ aplicado -> "aplicado"
                        [] OTHER -> "cerrado"

LEMMA ValorDe ==
    ASSUME NEW s \in Estados \cup {"LIBRE"}, NEW aplicado \in BOOLEAN
    PROVE  /\ s = "LIBRE" => Valor(s, aplicado) = "libre"
           /\ s \in Resolubles => Valor(s, aplicado) = "abierto"
           /\ s \in Terminales /\ aplicado => Valor(s, aplicado) = "aplicado"
           /\ s \in Terminales /\ ~aplicado => Valor(s, aplicado) = "cerrado"
<1>1. /\ s = "LIBRE" => s \notin Resolubles
      /\ s \in Terminales => s # "LIBRE" /\ s \notin Resolubles
    BY DEF Resolubles, Terminales
<1>2. CASE s = "LIBRE"
    BY <1>1, <1>2, Zenon DEF Valor
<1>3. CASE s \in Resolubles
    BY <1>1, <1>3, Zenon DEF Valor
<1>4. CASE s \in Terminales
    BY <1>1, <1>4 DEF Valor
<1> QED
    BY <1>2, <1>3, <1>4 DEF Estados

LEMMA EstadoLibroValor ==
    /\ EstadoLibro = [i \in Ids |-> Valor(status[i], ConMovimiento(i))]
    /\ EstadoLibro' = [i \in Ids |-> Valor(status'[i], ConMovimiento(i)')]
    BY DEF EstadoLibro, Valor

LEMMA InitRefina == Init => Libro!Init
<1> SUFFICES ASSUME Init PROVE Libro!Init
    OBVIOUS
<1>1. /\ status = [i \in Ids |-> "LIBRE"] /\ fila = [i \in Ids |-> FilaVacia]
      /\ stock = StockInicial
    BY DEF Init, DBInit
<1>2. \A i \in Ids : Valor(status[i], ConMovimiento(i)) = "libre"
  <2> TAKE i \in Ids
  <2>1. status[i] = "LIBRE" /\ ConMovimiento(i) \in BOOLEAN
    BY <1>1 DEF ConMovimiento
  <2> QED
    BY <2>1, ValorDe
<1>3. EstadoLibro = [i \in Ids |-> "libre"]
    BY <1>2, EstadoLibroValor
<1>4. PedidoLibro = [i \in Ids |-> [key |-> NoKey, delta |-> 0]]
    BY <1>1 DEF PedidoLibro, FilaVacia
<1> QED
    BY <1>1, <1>3, <1>4 DEF Libro!Init, PedidoLibro

(* Closing the requests of C, seen in the ledger. *)
LEMMA CierraRefina ==
    ASSUME IInv, IInv', IMov, IMov', NEW C, NEW D, Cierra(C, D),
           \A j \in Ids \ D : ConMovimiento(j)' <=> ConMovimiento(j),
           UNCHANGED fila
    PROVE  /\ \A j \in C : EstadoLibro[j] = "abierto" /\ EstadoLibro'[j] = "cerrado"
           /\ \A j \in Ids \ D : EstadoLibro'[j] = EstadoLibro[j]
<1>1. /\ \A j \in Ids : status[j] \in Estados \cup {"LIBRE"}
      /\ \A j \in Ids : status'[j] \in Estados \cup {"LIBRE"}
    BY DEF IInv, TypeOK, DBTypeOK
<1>2. \A j \in Ids : /\ ConMovimiento(j) \in BOOLEAN
                     /\ ConMovimiento(j)' \in BOOLEAN
    BY DEF ConMovimiento
<1>3. ASSUME NEW j \in C
      PROVE  EstadoLibro[j] = "abierto" /\ EstadoLibro'[j] = "cerrado"
  <2>1. /\ j \in Ids /\ status[j] \in Resolubles /\ status'[j] \in Terminales
        /\ status'[j] \in Aceptados => ~MueveStock(j)
    BY <1>3 DEF Cierra
  <2>2. MueveStock(j)' <=> MueveStock(j)
    BY DEF MueveStock, SinCambios, EsConteo
  <2>3. ~ConMovimiento(j)'
    BY <2>1, <2>2 DEF IMov
  <2>4. Valor(status[j], ConMovimiento(j)) = "abierto"
    BY <1>1, <1>2, <2>1, ValorDe
  <2>5. Valor(status'[j], ConMovimiento(j)') = "cerrado"
    BY <1>1, <1>2, <2>1, <2>3, ValorDe
  <2> QED
    BY <2>1, <2>4, <2>5, EstadoLibroValor
<1>4. ASSUME NEW j \in Ids \ D
      PROVE  EstadoLibro'[j] = EstadoLibro[j]
  <2>1. Valor(status'[j], ConMovimiento(j)') = Valor(status[j], ConMovimiento(j))
    <3>1. CASE status'[j] = status[j]
      <4>1. CASE ConMovimiento(j)
        <5>1. ConMovimiento(j)' = ConMovimiento(j)
          BY <1>2, <4>1
        <5> QED
          BY <3>1, <5>1
      <4>2. CASE ~ConMovimiento(j)
        <5>1. ConMovimiento(j)' = ConMovimiento(j)
          BY <1>2, <4>2
        <5> QED
          BY <3>1, <5>1
      <4> QED
        BY <4>1, <4>2
    <3>2. CASE status[j] = "PENDING" /\ status'[j] = "SOSPECHOSA"
      BY <1>1, <1>2, <3>2, ValorDe DEF Resolubles
    <3> QED
      BY <3>1, <3>2 DEF Cierra
  <2> QED
    BY <2>1, EstadoLibroValor
<1> QED
    BY <1>3, <1>4

LEMMA EntraRefina ==
    ASSUME IInv, IInv', IMov, IMov', NEW i, NEW f, Entra(i, f)
    PROVE  Libro!Pedir(i)
<1>1. /\ i \in Ids /\ f \in Filas
      /\ status[i] = "LIBRE"
      /\ status \in [Ids -> Estados \cup {"LIBRE"}]
      /\ fila \in [Ids -> Filas]
      /\ fila' = [fila EXCEPT ![i] = f]
      /\ status' = [status EXCEPT ![i] = "PENDING"]
      /\ UNCHANGED <<movimientos, stock>>
    BY DEF Entra, IInv, TypeOK, DBTypeOK
<1>2. \A j \in Ids : ConMovimiento(j)' = ConMovimiento(j)
    BY <1>1 DEF ConMovimiento
<1>3. ConMovimiento(i) \in BOOLEAN /\ ConMovimiento(i)' \in BOOLEAN
    BY DEF ConMovimiento
<1>4. Valor(status[i], ConMovimiento(i)) = "libre"
    BY <1>1, <1>3, ValorDe
<1>5. Valor(status'[i], ConMovimiento(i)') = "abierto"
  <2>1. status'[i] = "PENDING"
    BY <1>1
  <2> QED
    BY <2>1, <1>3, ValorDe DEF Resolubles, Estados
<1>6. \A j \in Ids : j # i =>
          Valor(status'[j], ConMovimiento(j)') = Valor(status[j], ConMovimiento(j))
  <2> TAKE j \in Ids
  <2> HAVE j # i
  <2>1. status'[j] = status[j]
    BY <1>1
  <2> QED
    BY <1>2, <2>1
<1>7. /\ EstadoLibro[i] = "libre"
      /\ EstadoLibro' = [EstadoLibro EXCEPT ![i] = "abierto"]
    BY <1>1, <1>4, <1>5, <1>6, EstadoLibroValor
<1>8. /\ PedidoLibro'[i] = [key |-> f.key, delta |-> f.delta]
      /\ \A j \in Ids : j # i => PedidoLibro'[j] = PedidoLibro[j]
    BY <1>1 DEF PedidoLibro
<1>9. PedidoLibro'[i] \in Libro!Peticiones
    BY <1>1, <1>8 DEF Libro!Peticiones, Filas
<1>10. PedidoLibro' = [PedidoLibro EXCEPT ![i] = PedidoLibro'[i]]
    BY <1>1, <1>8 DEF PedidoLibro
<1> QED
    BY <1>1, <1>7, <1>9, <1>10 DEF Libro!Pedir, PedidoLibro

LEMMA SoloCierraRefina ==
    ASSUME IInv, IInv', IMov, IMov', NEW C, SoloCierra(C)
    PROVE  C \subseteq Ids /\ Libro!Cerrar(C)
<1>1. /\ Cierra(C, C) /\ C \subseteq Ids
      /\ UNCHANGED <<fila, movimientos, stock>>
    BY DEF SoloCierra, Cierra
<1>2. \A j \in Ids \ C : ConMovimiento(j)' <=> ConMovimiento(j)
    BY <1>1 DEF ConMovimiento
<1>3. /\ \A j \in C : EstadoLibro[j] = "abierto" /\ EstadoLibro'[j] = "cerrado"
      /\ \A j \in Ids \ C : EstadoLibro'[j] = EstadoLibro[j]
    BY <1>1, <1>2, CierraRefina
<1>4. EstadoLibro' = [j \in Ids |-> IF j \in C THEN "cerrado" ELSE EstadoLibro[j]]
    BY <1>3, EstadoLibroValor
<1> QED
    BY <1>1, <1>3, <1>4 DEF Libro!Cerrar

LEMMA AplicaRefina ==
    ASSUME IInv, IInv', IMov, IMov', NEW i, NEW C, Aplica(i, C)
    PROVE  i \in Ids /\ C \subseteq Ids /\ Libro!Aplicar(i, C)
<1>1. /\ i \in Ids /\ i \notin C /\ C \subseteq Ids
      /\ Cierra(C, C \cup {i})
      /\ status[i] \in Resolubles /\ status'[i] \in Terminales
      /\ fila[i].key \in Keys
      /\ stock' = [stock EXCEPT ![fila[i].key] = stock[fila[i].key] + fila[i].delta]
      /\ UNCHANGED fila
    BY DEF Aplica, Cierra, Aceptados, Terminales
<1>2. PICK m \in Apuntes : m.pend = i /\ movimientos' = Append(movimientos, m)
    BY DEF Aplica, Apunta
<1>3. \A j : ConMovimiento(j)' <=> ConMovimiento(j) \/ j = i
    BY <1>2, ApunteNuevo DEF IInv, TypeOK, DBTypeOK
<1>4. /\ \A j \in C : EstadoLibro[j] = "abierto" /\ EstadoLibro'[j] = "cerrado"
      /\ \A j \in Ids \ (C \cup {i}) : EstadoLibro'[j] = EstadoLibro[j]
    BY <1>1, <1>3, CierraRefina
<1>5. EstadoLibro[i] = "abierto" /\ EstadoLibro'[i] = "aplicado"
  <2>1. /\ ConMovimiento(i) \in BOOLEAN /\ ConMovimiento(i)' \in BOOLEAN
        /\ ConMovimiento(i)'
    BY <1>3 DEF ConMovimiento
  <2>2. status[i] \in Estados /\ status'[i] \in Estados
    BY <1>1 DEF Estados
  <2>3. Valor(status[i], ConMovimiento(i)) = "abierto"
    BY <1>1, <2>1, <2>2, ValorDe
  <2>4. Valor(status'[i], ConMovimiento(i)') = "aplicado"
    BY <1>1, <2>1, <2>2, ValorDe
  <2> QED
    BY <1>1, <2>3, <2>4, EstadoLibroValor
<1>6. EstadoLibro' = [j \in Ids |-> IF j = i THEN "aplicado"
                                  ELSE IF j \in C THEN "cerrado" ELSE EstadoLibro[j]]
    BY <1>4, <1>5, EstadoLibroValor
<1>7. /\ PedidoLibro[i] = [key |-> fila[i].key, delta |-> fila[i].delta]
      /\ UNCHANGED PedidoLibro
    BY <1>1 DEF PedidoLibro
<1>8. stock' = [stock EXCEPT ![PedidoLibro[i].key] = @ + PedidoLibro[i].delta]
    BY <1>1, <1>7
<1> QED
    BY <1>1, <1>4, <1>5, <1>6, <1>7, <1>8 DEF Libro!Aplicar, PedidoLibro

LEMMA PasoRefina ==
    ASSUME IInv, IInv', IMov, IMov', [Next]_vars
    PROVE  [Libro!Next]_(Libro!vars)
<1>1. CASE UNCHANGED <<fila, status, movimientos, stock>>
    BY <1>1 DEF EstadoLibro, ConMovimiento, Libro!vars
<1>2. CASE \E i, f : Entra(i, f)
    BY <1>2, EntraRefina DEF Libro!Next, Entra
<1>3. CASE \E C : SoloCierra(C)
    BY <1>3, SoloCierraRefina DEF Libro!Next
<1>4. CASE \E i, C : Aplica(i, C)
    BY <1>4, AplicaRefina DEF Libro!Next
<1> QED
    BY <1>1, <1>2, <1>3, <1>4, PasoEfecto DEF Efecto

(* The system implements the ledger of LibroStock: behind every interleaving *)
(* of handlers, workers and aborts, each step of the database is at most one *)
(* atomic application, closing or entry of requests (main.go:240-268).       *)
THEOREM ImplementaElLibro == Spec => ImplementaLibro
<1>1. Init => Libro!Init
    BY InitRefina
<1>2. IInv /\ IInv' /\ IMov /\ IMov' /\ [Next]_vars => [Libro!Next]_(Libro!vars)
    BY PasoRefina
<1> QED
    BY <1>1, <1>2, MovimientosInvariante, PTL DEF Spec, ImplementaLibro, Libro!Spec
=============================================================================
