---------------------------- MODULE ConteoProofs ----------------------------
(***************************************************************************)
(* What the resolution of a request owes to the rest of the queue: an      *)
(* accepted or confirmed conteo leaves none of the conteos that its        *)
(* invalidation saw in play, and no entry of a session stays an alert when *)
(* its request is resolved.  Both need to know what an open transaction    *)
(* has already secured: the rows of its cut are terminal, still to be      *)
(* locked or about to be invalidated (Cubierto), and the alerts among the  *)
(* last are about to be taken away (RegistrosBien).                        *)
(* Last, a conteo is stored as a difference with the stock its handler     *)
(* read: that the difference composes with what others commit meanwhile    *)
(* needs the reading itself to be followed from the handler to the queue   *)
(* (LecturaFiel, ConteoFiel).                                              *)
(***************************************************************************)
EXTENDS LibroProofs

-----------------------------------------------------------------------------
(* The inductive invariants. *)

(* The verdicts that invalidate the rivals of a conteo. *)
Acepta == {"PASA", "sin_cambios", "confirmar"}

(* Every rival of conteo i in the cut C is resolved, or is one of S. *)
Cubierto(i, C, S) ==
    \A j \in C : /\ Existe(j)
                 /\ j \in Rivales(i) => j \in S \/ status[j] \in Terminales

CorteBien(T) ==
    T.fase \in {"invalidando", "commit"} /\ T.veredicto \in Acepta /\ EsConteo(Movido(T)) =>
        /\ Cubierto(Movido(T), T.corte, T.vistas \cup T.inval)
        /\ T.fase = "commit" => T.vistas = {}

ICorte ==
    /\ \A i \in Ids : EsConteo(i) /\ status[i] \in Aceptados => Cubierto(i, corte[i], {})
    /\ \A w \in Workers : CorteBien(tx[w])

RegistrosBien(T) ==
    T.fase = "commit" => \A j \in T.inval : registro[j] = "SOSPECHOSA" => j \in T.regs

IAlerta ==
    /\ AlertaVigente
    /\ \A w \in Workers : RegistrosBien(tx[w])

-----------------------------------------------------------------------------
(* What any step does to the requests. *)

(* A request that exists keeps its columns, and a resolved one its status. *)
Avance ==
    \A i \in Ids :
        /\ Existe(i) => fila'[i] = fila[i] /\ status'[i] # "LIBRE"
        /\ status[i] \in Terminales => status'[i] = status[i]

LEMMA PasoAvance ==
    ASSUME IInv, [Next]_vars
    PROVE  Avance
<1> SUFFICES ASSUME NEW i \in Ids
             PROVE  /\ status[i] # "LIBRE" => fila'[i] = fila[i] /\ status'[i] # "LIBRE"
                    /\ status[i] \in Terminales => status'[i] = status[i]
    BY DEF Avance, Existe
<1>1. /\ status \in [Ids -> Estados \cup {"LIBRE"}]
      /\ fila \in [Ids -> Filas]
    BY DEF IInv, TypeOK, DBTypeOK
<1>2. ASSUME NEW C, NEW D, Cierra(C, D), UNCHANGED fila, i \notin D \ C
      PROVE  /\ status[i] # "LIBRE" => fila'[i] = fila[i] /\ status'[i] # "LIBRE"
             /\ status[i] \in Terminales => status'[i] = status[i]
    BY <1>2 DEF Cierra, Resolubles, Terminales
<1>3. CASE UNCHANGED <<fila, status, movimientos, stock>>
    BY <1>3
<1>4. CASE \E j, f : Entra(j, f)
    BY <1>1, <1>4 DEF Entra, Terminales
<1>5. CASE \E C : SoloCierra(C)
    BY <1>2, <1>5 DEF SoloCierra
<1>6. CASE \E j, C : Aplica(j, C)
  <2>1. PICK j, C : Aplica(j, C)
    BY <1>6
  <2>2. CASE i = j
    BY <2>1, <2>2 DEF Aplica, Aceptados, Resolubles, Terminales
  <2>3. CASE i # j
    BY <1>2, <2>1, <2>3 DEF Aplica
  <2> QED
    BY <2>2, <2>3
<1> QED
    BY <1>3, <1>4, <1>5, <1>6, PasoEfecto DEF Efecto

LEMMA CubiertoSigue ==
    ASSUME Avance, NEW i, Existe(i), NEW C, NEW S, Cubierto(i, C, S)
    PROVE  Cubierto(i, C, S)'
<1> SUFFICES ASSUME NEW j \in C
             PROVE  Existe(j)' /\ (j \in Rivales(i)' => j \in S \/ status'[j] \in Terminales)
    BY DEF Cubierto
<1>1. Existe(j) /\ (j \in Rivales(i) => j \in S \/ status[j] \in Terminales)
    BY DEF Cubierto
<1>2. /\ i \in Ids /\ j \in Ids /\ fila'[i] = fila[i] /\ fila'[j] = fila[j]
      /\ status'[j] # "LIBRE"
      /\ status[j] \in Terminales => status'[j] = status[j]
    BY <1>1 DEF Avance, Existe
<1>3. j \in Rivales(i)' => j \in Rivales(i)
    BY <1>1, <1>2 DEF Rivales, EsConteo
<1> QED
    BY <1>1, <1>2, <1>3 DEF Existe

(* A step inside a transaction changes nothing that Cubierto speaks of. *)
LEMMA MismasTablas ==
    ASSUME UNCHANGED tablas, NEW T, CorteBien(T), RegistrosBien(T)
    PROVE  CorteBien(T)' /\ RegistrosBien(T)'
BY DEF tablas, CorteBien, RegistrosBien, Cubierto, Rivales, Existe, EsConteo, Movido

(* What a transaction resolves has been in the queue since before it. *)
LEMMA MovidoExiste ==
    ASSUME IInv, NEW w \in Workers, tx[w].fase # "idle", tx[w].veredicto \in Acepta,
           tx[w].fase \in {"invalidando", "commit"}
    PROVE  Existe(Movido(tx[w]))
<1>1. tx[w] \in Transacciones /\ EnCurso(tx[w])
    BY Trabajando
<1>2. CASE tx[w].veredicto = "confirmar"
  <2>1. /\ fila[tx[w].id].target \in tx[w].forUpdate
        /\ status[fila[tx[w].id].target] \in Resolubles
    BY <1>1, <1>2 DEF EnCurso
  <2> QED
    BY <1>1, <1>2, <2>1 DEF Transacciones, Movido, Existe, Resolubles
<1>3. CASE tx[w].veredicto # "confirmar"
    BY <1>1, <1>3 DEF EnCurso, Transacciones, Movido, Existe
<1> QED
    BY <1>2, <1>3

-----------------------------------------------------------------------------
(* The steps of a transaction before its commit. *)

(* A phase that has not begun to invalidate owes nothing yet. *)
LEMMA SinInvalidar ==
    ASSUME NEW T, T.fase \notin {"invalidando", "commit"}
    PROVE  CorteBien(T) /\ RegistrosBien(T)
BY DEF CorteBien, RegistrosBien

(* Neither does a commit that invalidates nothing. *)
LEMMA CommitSinInvalidar ==
    ASSUME NEW T, T.inval = {}, T.fase = "commit",
           T.veredicto \notin Acepta \/ ~EsConteo(Movido(T))
    PROVE  CorteBien(T) /\ RegistrosBien(T)
BY DEF CorteBien, RegistrosBien

LEMMA AbrirCorte ==
    ASSUME IInv, NEW w \in Workers, AbrirInvalidacion(w), NEW t, t = tx'[w]
    PROVE  CorteBien(t) /\ RegistrosBien(t)
<1>1. PICK T : T = tx[w]
    OBVIOUS
<1>2. T \in Transacciones /\ T.fase = "invalidar" /\ tx \in [Workers -> Transacciones]
    BY <1>1 DEF AbrirInvalidacion, IInv, TypeOK, DBTypeOK
<1>3. Resuelto(w) = Movido(T)
    BY <1>1 DEF Resuelto, Movido, Objetivo, Tomada
<1>4. PICK V : V = {j \in Rivales(Movido(T)) : status[j] \in Resolubles}
    OBVIOUS
<1>5. PICK C : C = {j \in Ids : Existe(j)}
    OBVIOUS
<1>6. t = [T EXCEPT !.fase = "invalidando", !.vistas = V, !.corte = C]
    BY <1>1, <1>2, <1>3, <1>4, <1>5 DEF AbrirInvalidacion, EnTx
<1>7. /\ t.fase = "invalidando" /\ t.vistas = V /\ t.corte = C /\ t.id = T.id
      /\ t.veredicto = T.veredicto /\ t.inval = T.inval
    BY <1>2, <1>6 DEF Transacciones
<1>8. Movido(t) = Movido(T)
    BY <1>7 DEF Movido
<1>9. ASSUME NEW j \in C
      PROVE  Existe(j) /\ (j \in Rivales(Movido(T)) => j \in V \/ status[j] \in Terminales)
  <2>1. j \in Ids /\ status[j] # "LIBRE"
    BY <1>5 DEF Existe
  <2>2. status[j] \in Resolubles \cup Terminales
    BY <2>1 DEF IInv, TypeOK, DBTypeOK, Estados
  <2> QED
    BY <1>4, <1>5, <2>2
<1>10. Cubierto(Movido(t), t.corte, t.vistas \cup t.inval)
    BY <1>7, <1>8, <1>9 DEF Cubierto
<1> QED
    BY <1>7, <1>10 DEF CorteBien, RegistrosBien

LEMMA InvalidarCorte ==
    ASSUME IInv, NEW w \in Workers, CorteBien(tx[w]), NEW f \in Ids, InvalidarFila(w, f),
           NEW t, t = tx'[w]
    PROVE  CorteBien(t) /\ RegistrosBien(t)
<1>1. PICK T : T = tx[w]
    OBVIOUS
<1>2. T \in Transacciones /\ T.fase = "invalidando" /\ tx \in [Workers -> Transacciones]
    BY <1>1 DEF InvalidarFila, IInv, TypeOK, DBTypeOK
<1>3. PICK V : V = T.vistas \ {f}
    OBVIOUS
<1>4. PICK A : A = T.inval \cup {i \in {f} : status[i] \in Resolubles}
    OBVIOUS
<1>5. t = [T EXCEPT !.vistas = V, !.noKey = @ \cup {f}, !.inval = A]
    BY <1>1, <1>2, <1>3, <1>4 DEF InvalidarFila, EnTx
<1>6. /\ t.fase = "invalidando" /\ t.vistas = V /\ t.corte = T.corte /\ t.id = T.id
      /\ t.veredicto = T.veredicto /\ t.inval = A
    BY <1>2, <1>5 DEF Transacciones
<1>7. Movido(t) = Movido(T)
    BY <1>6 DEF Movido
<1>8. ASSUME T.veredicto \in Acepta, EsConteo(Movido(T))
      PROVE  Cubierto(Movido(T), T.corte, V \cup A)
  <2>1. Cubierto(Movido(T), T.corte, T.vistas \cup T.inval)
    BY <1>1, <1>2, <1>8 DEF CorteBien
  <2>2. ASSUME NEW j \in T.corte, j \in Rivales(Movido(T))
        PROVE  j \in V \cup A \/ status[j] \in Terminales
    <3>1. j \in Ids /\ status[j] # "LIBRE" /\ (j \in T.vistas \cup T.inval \/ status[j] \in Terminales)
      BY <2>1, <2>2 DEF Cubierto, Existe
    <3>2. status[j] \in Resolubles \cup Terminales
      BY <3>1 DEF IInv, TypeOK, DBTypeOK, Estados
    <3> QED
      BY <1>3, <1>4, <3>1, <3>2
  <2> QED
    BY <2>1, <2>2 DEF Cubierto
<1> QED
    BY <1>6, <1>7, <1>8 DEF CorteBien, RegistrosBien

LEMMA SincronizarCorte ==
    ASSUME IInv, NEW w \in Workers, CorteBien(tx[w]), SincronizarInvalidados(w),
           NEW t, t = tx'[w]
    PROVE  CorteBien(t) /\ RegistrosBien(t)
<1>1. PICK T : T = tx[w]
    OBVIOUS
<1>2. /\ T \in Transacciones /\ T.fase = "invalidando" /\ T.vistas = {}
      /\ tx \in [Workers -> Transacciones]
    BY <1>1 DEF SincronizarInvalidados, IInv, TypeOK, DBTypeOK
<1>3. PICK B : B = IF T.veredicto = "confirmar"
                   THEN {j \in Rivales(Resuelto(w)) : decision[j] = "invalidado"} ELSE {}
    OBVIOUS
<1>4. PICK R : R = {j \in T.inval \cup B : registro[j] # "no"}
    OBVIOUS
<1>5. t = [T EXCEPT !.fase = "commit", !.regs = R]
    BY <1>1, <1>2, <1>3, <1>4 DEF SincronizarInvalidados, EnTx
<1>6. /\ t.fase = "commit" /\ t.vistas = {} /\ t.corte = T.corte /\ t.id = T.id
      /\ t.veredicto = T.veredicto /\ t.inval = T.inval /\ t.regs = R
    BY <1>2, <1>5 DEF Transacciones
<1>7. Movido(t) = Movido(T)
    BY <1>6 DEF Movido
<1>8. CorteBien(t)
    BY <1>1, <1>2, <1>6, <1>7 DEF CorteBien
<1>9. RegistrosBien(t)
    BY <1>4, <1>6 DEF RegistrosBien
<1> QED
    BY <1>8, <1>9

(* The steps that neither open nor run an invalidation. *)
LEMMA OtrosCorte ==
    ASSUME IInv, NEW w \in Workers, NEW t, t = tx'[w],
           \/ \E i \in Ids : Tomar(w, i)
           \/ Descartar(w) \/ EvaluarSinCambios(w) \/ KalmanEvaluar(w) \/ BloquearStock(w)
           \/ EvaluarConfirmacion(w) \/ ObjetivoSinEfecto(w) \/ RechazarObjetivo(w)
           \/ ConfirmarObjetivo(w) \/ BloquearStockObjetivo(w) \/ ResidualNulo(w)
           \/ AbortarPorDeadlock(w)
    PROVE  CorteBien(t) /\ RegistrosBien(t)
<1>1. PICK T : T = tx[w]
    OBVIOUS
<1>2. T \in Transacciones /\ tx \in [Workers -> Transacciones]
    BY <1>1 DEF IInv, TypeOK, DBTypeOK
<1>3. T.fase \notin {"idle", "invalidando", "commit"} => T.inval = {}
  <2>1. T.fase # "idle" => EnCurso(T)
    BY <1>1, Trabajando
  <2> QED
    BY <2>1 DEF EnCurso
<1>4. T.fase = "aplicar" => T.veredicto = "PASA"
  <2>1. T.fase # "idle" => EnCurso(T)
    BY <1>1, Trabajando
  <2> QED
    BY <2>1 DEF EnCurso
<1>5. T.fase = "stockObjetivo" => T.veredicto = "confirmar"
  <2>1. T.fase # "idle" => EnCurso(T)
    BY <1>1, Trabajando
  <2> QED
    BY <2>1 DEF EnCurso
<1>6. TxIdle.fase = "idle" /\ TxIdle \in Transacciones
    BY TxIdleTipo DEF TxIdle
<1>7. CASE \E i \in Ids : Tomar(w, i)
  <2>1. PICK i \in Ids : Tomar(w, i)
    BY <1>7
  <2>2. t = [TxIdle EXCEPT !.fase = "tomada", !.id = i, !.forUpdate = {i}]
    BY <1>2, <2>1 DEF Tomar, EnTx
  <2>3. t.fase = "tomada"
    BY <1>6, <2>2 DEF Transacciones
  <2> QED
    BY <2>3, SinInvalidar
<1>8. CASE Descartar(w)
  <2>1. t.fase = "commit" /\ t.veredicto = "descarte" /\ t.inval = T.inval /\ T.fase = "tomada"
    BY <1>1, <1>2, <1>8 DEF Descartar, EnTx, Transacciones
  <2> QED
    BY <1>3, <2>1, CommitSinInvalidar DEF Acepta
<1>9. CASE EvaluarSinCambios(w)
  <2>1. t.fase = "invalidar"
    BY <1>1, <1>2, <1>9 DEF EvaluarSinCambios, EnTx, Transacciones
  <2> QED
    BY <2>1, SinInvalidar
<1>10. CASE KalmanEvaluar(w)
  <2>1. PICK r : r = Residual(Key(w), fila[Tomada(w)].delta)
    OBVIOUS
  <2>2. T.fase = "tomada"
    BY <1>1, <1>10 DEF KalmanEvaluar
  <2>3. \/ t = [T EXCEPT !.fase = "aplicar", !.veredicto = "PASA", !.residual = r]
        \/ t = [T EXCEPT !.fase = "commit", !.veredicto = "FALLA", !.residual = r]
    BY <1>1, <1>2, <1>10, <2>1 DEF KalmanEvaluar, EnTx
  <2>4. \/ t.fase = "aplicar"
        \/ t.fase = "commit" /\ t.veredicto = "FALLA" /\ t.inval = T.inval
    BY <1>2, <2>3 DEF Transacciones
  <2> QED
    BY <1>3, <2>2, <2>4, SinInvalidar, CommitSinInvalidar DEF Acepta
<1>11. CASE BloquearStock(w)
  <2>1. PICK f : f = IF EsConteo(Tomada(w)) THEN "invalidar" ELSE "commit"
    OBVIOUS
  <2>2. PICK l : l = Leer(Key(w))
    OBVIOUS
  <2>3. T.fase = "aplicar" /\ t = [T EXCEPT !.stocks = {Key(w)}, !.prod = l, !.fase = f]
    BY <1>1, <1>2, <1>11, <2>1, <2>2 DEF BloquearStock, EnTx
  <2>4. /\ t.fase = f /\ t.veredicto = T.veredicto /\ t.inval = T.inval /\ t.id = T.id
    BY <1>2, <2>3 DEF Transacciones
  <2>5. CASE EsConteo(Tomada(w))
    BY <2>1, <2>4, <2>5, SinInvalidar
  <2>6. CASE ~EsConteo(Tomada(w))
    <3>1. Movido(t) = Tomada(w)
      BY <1>1, <1>4, <2>3, <2>4 DEF Movido, Tomada
    <3> QED
      BY <1>3, <2>1, <2>3, <2>4, <2>6, <3>1, CommitSinInvalidar
  <2> QED
    BY <2>5, <2>6
<1>12. CASE EvaluarConfirmacion(w)
  <2>1. t.fase = "objetivo"
    BY <1>1, <1>2, <1>12 DEF EvaluarConfirmacion, EnTx, Transacciones
  <2> QED
    BY <2>1, SinInvalidar
<1>13. PICK O : O = ConObjetivo(w)
    OBVIOUS
<1>obj. O \in Transacciones /\ O.inval = T.inval
  <2>1. PICK U : U = T.forUpdate \cup {i \in {Objetivo(w)} : Existe(i)}
    OBVIOUS
  <2>2. U \subseteq Ids
    BY <1>2, <2>1 DEF Existe, Transacciones
  <2>3. O = [T EXCEPT !.forUpdate = U]
    BY <1>1, <1>2, <1>13, <2>1 DEF ConObjetivo, Transacciones
  <2> QED
    BY <1>2, <2>2, <2>3 DEF Transacciones
<1>14. CASE ObjetivoSinEfecto(w)
  <2>1. T.fase = "objetivo" /\ t = [O EXCEPT !.fase = "commit", !.veredicto = "sin_efecto"]
    BY <1>1, <1>2, <1>13, <1>14 DEF ObjetivoSinEfecto, LeerObjetivo, EnTx
  <2>2. t.fase = "commit" /\ t.veredicto = "sin_efecto" /\ t.inval = T.inval
    BY <1>obj, <2>1 DEF Transacciones
  <2> QED
    BY <1>3, <2>1, <2>2, CommitSinInvalidar DEF Acepta
<1>15. CASE RechazarObjetivo(w)
  <2>1. T.fase = "objetivo" /\ t = [O EXCEPT !.fase = "commit", !.veredicto = "rechazar"]
    BY <1>1, <1>2, <1>13, <1>15 DEF RechazarObjetivo, LeerObjetivo, EnTx
  <2>2. t.fase = "commit" /\ t.veredicto = "rechazar" /\ t.inval = T.inval
    BY <1>obj, <2>1 DEF Transacciones
  <2> QED
    BY <1>3, <2>1, <2>2, CommitSinInvalidar DEF Acepta
<1>16. CASE ConfirmarObjetivo(w)
  <2>1. t = [O EXCEPT !.fase = "stockObjetivo", !.veredicto = "confirmar"]
    BY <1>1, <1>2, <1>13, <1>16 DEF ConfirmarObjetivo, EnTx
  <2>2. t.fase = "stockObjetivo"
    BY <1>obj, <2>1 DEF Transacciones
  <2> QED
    BY <2>2, SinInvalidar
<1>17. CASE BloquearStockObjetivo(w)
  <2>1. PICK o : o = Objetivo(w)
    OBVIOUS
  <2>2. PICK f : f = IF EsConteo(o) THEN "invalidar" ELSE "commit"
    OBVIOUS
  <2>3. PICK l : l = Leer(fila[o].key)
    OBVIOUS
  <2>4. /\ T.fase = "stockObjetivo"
        /\ t = [T EXCEPT !.stocks = {fila[o].key}, !.prod = l, !.residual = residual[o], !.fase = f]
    BY <1>1, <1>2, <1>17, <2>1, <2>2, <2>3 DEF BloquearStockObjetivo, EnTx
  <2>5. /\ t.fase = f /\ t.veredicto = T.veredicto /\ t.inval = T.inval /\ t.id = T.id
    BY <1>2, <2>4 DEF Transacciones
  <2>6. CASE EsConteo(o)
    BY <2>2, <2>5, <2>6, SinInvalidar
  <2>7. CASE ~EsConteo(o)
    <3>1. Movido(t) = o
      BY <1>1, <1>5, <2>1, <2>4, <2>5 DEF Movido, Tomada, Objetivo
    <3> QED
      BY <1>3, <2>2, <2>4, <2>5, <2>7, <3>1, CommitSinInvalidar
  <2> QED
    BY <2>6, <2>7
<1>18. CASE ResidualNulo(w) \/ AbortarPorDeadlock(w)
  <2>1. t = TxIdle
    BY <1>2, <1>18 DEF ResidualNulo, AbortarPorDeadlock, EnTx
  <2> QED
    BY <1>6, <2>1, SinInvalidar
<1> QED
    BY <1>7, <1>8, <1>9, <1>10, <1>11, <1>12, <1>14, <1>15, <1>16, <1>17, <1>18

-----------------------------------------------------------------------------
(* The commits. *)

(* Whatever the commit of w writes, an alert it leaves is of a suspicious    *)
(* request, and a conteo it accepts is the one it resolved, with its cut.    *)
CommitBien(w) ==
    /\ \A j \in Ids : registro'[j] = "SOSPECHOSA" =>
          /\ status'[j] = "SOSPECHOSA"
          /\ registro[j] = "SOSPECHOSA" \/ j \in Bloqueadas(w)
    /\ \A i \in Ids : EsConteo(i) /\ status'[i] \in Aceptados =>
          \/ status[i] \in Aceptados /\ corte'[i] = corte[i]
          \/ /\ tx[w].fase = "commit" /\ tx[w].veredicto \in Acepta
             /\ i = Movido(tx[w]) /\ corte'[i] = tx[w].corte
             /\ \A j \in tx[w].inval : status'[j] \in Terminales

LEMMA ConRegistrosEn ==
    ASSUME NEW f \in [Ids -> Registros], NEW A, NEW v, NEW j \in Ids
    PROVE  ConRegistros(f, A, v)[j] = IF j \in A /\ f[j] # "no" THEN v ELSE f[j]
BY DEF ConRegistros

LEMMA RegistroInvalidado ==
    ASSUME IInv, NEW w \in Workers
    PROVE  /\ registro \in [Ids -> Registros]
           /\ RegistroInvalidados(w) \in [Ids -> Registros]
           /\ \A j \in Ids : RegistroInvalidados(w)[j] =
                  IF j \in tx[w].regs THEN "RECHAZADA" ELSE registro[j]
<1>1. registro \in [Ids -> Registros]
    BY DEF IInv, TypeOK, DBTypeOK, Registros
<1> QED
    BY <1>1, InvalidadosTipo DEF RegistroInvalidados, Asignar

LEMMA CommitAceptaBien ==
    ASSUME IInv, IAlerta, NEW w \in Workers, CommitPasa(w) \/ CommitSinCambios(w)
    PROVE  CommitBien(w)
<1>1. PICK T : T = tx[w]
    OBVIOUS
<1>2. PICK i : i = T.id
    OBVIOUS
<1>3. /\ T.fase = "commit" /\ T.veredicto \in {"PASA", "sin_cambios"} /\ EnCurso(T) /\ Tomada(w) = i
      /\ i \in Ids /\ status[i] = "PENDING" /\ T.inval \subseteq Ids
    BY <1>1, <1>2, CommitEfecto DEF CommitPasa, CommitSinCambios
<1>4. i \notin T.inval /\ Movido(T) = i
    BY <1>2, <1>3 DEF EnCurso, Movido
<1>5. /\ status' = [StatusInvalidados(w) EXCEPT ![i] = "ACEPTADA"]
      /\ registro' = ConRegistros(RegistroInvalidados(w), {i}, "ACEPTADA")
      /\ corte' = [corte EXCEPT ![i] = T.corte] /\ corte \in [Ids -> SUBSET Ids]
    BY <1>1, <1>3 DEF CommitPasa, CommitSinCambios, IInv, TypeOK, DBTypeOK
<1>6. \A j \in Ids : status'[j] = IF j = i THEN "ACEPTADA"
                                  ELSE IF j \in T.inval THEN "RECHAZADA" ELSE status[j]
    BY <1>1, <1>5, InvalidadosTipo
<1>7. \A j \in Ids : registro'[j] = "SOSPECHOSA" => registro[j] = "SOSPECHOSA" /\ j \notin T.regs
    BY <1>1, <1>5, RegistroInvalidado, ConRegistrosEn
<1>8. \A j \in Ids : corte'[j] = IF j = i THEN T.corte ELSE corte[j]
    BY <1>5
<1>9. ASSUME NEW j \in Ids, registro'[j] = "SOSPECHOSA"
      PROVE  status'[j] = "SOSPECHOSA" /\ registro[j] = "SOSPECHOSA"
  <2>1. status[j] = "SOSPECHOSA" /\ j \notin T.inval
    BY <1>1, <1>3, <1>7, <1>9 DEF IAlerta, AlertaVigente, RegistrosBien
  <2> QED
    BY <1>3, <1>6, <1>7, <1>9, <2>1
<1>10. \A j \in T.inval : status'[j] \in Terminales
    BY <1>3, <1>4, <1>6 DEF Terminales
<1>11. ASSUME NEW k \in Ids, k # i, status'[k] \in Aceptados
       PROVE  status[k] \in Aceptados /\ corte'[k] = corte[k]
    BY <1>6, <1>8, <1>11 DEF Aceptados
<1> QED
    BY <1>1, <1>3, <1>4, <1>8, <1>9, <1>10, <1>11 DEF CommitBien, Acepta

LEMMA CommitConfirmarBien ==
    ASSUME IInv, IAlerta, NEW w \in Workers, CommitConfirmar(w)
    PROVE  CommitBien(w)
<1>1. PICK T : T = tx[w]
    OBVIOUS
<1>2. PICK i : i = T.id
    OBVIOUS
<1>ob. PICK o : o = fila[i].target
    OBVIOUS
<1>re. PICK e : e = Respuesta(w)
    OBVIOUS
<1>3. /\ T.fase = "commit" /\ T.veredicto = "confirmar" /\ EnCurso(T)
      /\ Tomada(w) = i /\ Objetivo(w) = o
      /\ i \in Ids /\ status[i] = "PENDING" /\ T.inval \subseteq Ids
      /\ o \in Ids /\ status[o] \in Resolubles
    BY <1>1, <1>2, <1>ob, CommitEfecto DEF CommitConfirmar, Objetivo
<1>4. o \notin T.inval /\ i \notin T.inval /\ Movido(T) = o /\ ~EsConteo(i)
    BY <1>2, <1>3, <1>ob DEF EnCurso, Movido, EsConteo
<1>5. /\ status' = [StatusInvalidados(w) EXCEPT ![o] = "CONFIRMADA_MANUAL", ![i] = e]
      /\ registro' = ConRegistros(RegistroInvalidados(w), {o}, e)
      /\ corte' = [corte EXCEPT ![o] = T.corte] /\ corte \in [Ids -> SUBSET Ids]
    BY <1>1, <1>3, <1>re DEF CommitConfirmar, IInv, TypeOK, DBTypeOK
<1>6. \A j \in Ids : status'[j] = IF j = i THEN e ELSE IF j = o THEN "CONFIRMADA_MANUAL"
                                  ELSE IF j \in T.inval THEN "RECHAZADA" ELSE status[j]
    BY <1>1, <1>5, InvalidadosTipo
<1>rt. e \in {"CONFIRMADA_MANUAL", "RECHAZADA"}
    BY <1>re, RespuestaTipo
<1>7. \A j \in Ids : registro'[j] = "SOSPECHOSA" =>
                         registro[j] = "SOSPECHOSA" /\ j \notin T.regs /\ j # o
    BY <1>1, <1>5, <1>rt, RegistroInvalidado, ConRegistrosEn
<1>8. \A j \in Ids : corte'[j] = IF j = o THEN T.corte ELSE corte[j]
    BY <1>5
<1>9. ASSUME NEW j \in Ids, registro'[j] = "SOSPECHOSA"
      PROVE  status'[j] = "SOSPECHOSA" /\ registro[j] = "SOSPECHOSA"
  <2>1. status[j] = "SOSPECHOSA" /\ j \notin T.inval /\ j # o
    BY <1>1, <1>3, <1>7, <1>9 DEF IAlerta, AlertaVigente, RegistrosBien
  <2> QED
    BY <1>3, <1>6, <1>7, <1>9, <2>1
<1>10. \A j \in T.inval : status'[j] \in Terminales
    BY <1>3, <1>4, <1>6 DEF Terminales
<1>11. ASSUME NEW k \in Ids, k # i, k # o, status'[k] \in Aceptados
       PROVE  status[k] \in Aceptados /\ corte'[k] = corte[k]
    BY <1>6, <1>8, <1>11 DEF Aceptados
<1> QED
    BY <1>1, <1>3, <1>4, <1>8, <1>9, <1>10, <1>11 DEF CommitBien, Acepta

(* The other commits accept no conteo. *)
LEMMA CommitOtrosBien ==
    ASSUME IInv, IAlerta, NEW w \in Workers,
           CommitFalla(w) \/ CommitRechazar(w) \/ CommitSinEfecto(w) \/ CommitDescarte(w)
    PROVE  CommitBien(w)
<1>1. PICK T : T = tx[w]
    OBVIOUS
<1>2. PICK i : i = T.id
    OBVIOUS
<1>3. PICK o : o = fila[i].target
    OBVIOUS
<1>4. PICK e : e = Respuesta(w)
    OBVIOUS
<1>5. ASSUME NEW v, PorCommit(w, v)
      PROVE  /\ T.veredicto = v /\ EnCurso(T) /\ Tomada(w) = i /\ Objetivo(w) = o
             /\ i \in Ids /\ status[i] = "PENDING" /\ i \in Bloqueadas(w)
    BY <1>1, <1>2, <1>3, <1>5, AlCommit DEF Objetivo
<1>6. /\ status \in [Ids -> Estados \cup {"LIBRE"}] /\ registro \in [Ids -> Registros]
      /\ \A j \in Ids : registro[j] = "SOSPECHOSA" => status[j] = "SOSPECHOSA"
    BY DEF IInv, TypeOK, DBTypeOK, Registros, IAlerta, AlertaVigente
<1>7. e \in {"CONFIRMADA_MANUAL", "RECHAZADA"}
    BY <1>4, RespuestaTipo
<1>9. CASE CommitFalla(w)
  <2>1. /\ i \in Ids /\ i \in Bloqueadas(w) /\ status' = [status EXCEPT ![i] = "SOSPECHOSA"]
        /\ registro' = ConRegistros(registro, {i}, "SOSPECHOSA") /\ UNCHANGED corte
    BY <1>5, <1>9 DEF CommitFalla
  <2>2. \A j \in Ids : status'[j] = IF j = i THEN "SOSPECHOSA" ELSE status[j]
    BY <1>6, <2>1
  <2>3. \A j \in Ids : registro'[j] = "SOSPECHOSA" => j = i \/ registro[j] = "SOSPECHOSA"
    BY <1>6, <2>1, ConRegistrosEn
  <2> QED
    BY <1>6, <2>1, <2>2, <2>3 DEF CommitBien, Aceptados
<1>10. CASE CommitRechazar(w)
  <2>1. /\ T.veredicto = "rechazar" /\ EnCurso(T) /\ i \in Ids /\ status[i] = "PENDING"
        /\ status' = [status EXCEPT ![o] = "RECHAZADA", ![i] = e]
        /\ registro' = ConRegistros(registro, {o}, e) /\ UNCHANGED corte
    BY <1>4, <1>5, <1>10 DEF CommitRechazar
  <2>2. \A j \in Ids : status'[j] = IF j = i THEN e ELSE IF j = o THEN "RECHAZADA" ELSE status[j]
    BY <1>6, <2>1
  <2>3. \A j \in Ids : registro'[j] = "SOSPECHOSA" => registro[j] = "SOSPECHOSA" /\ j # o
    BY <1>6, <1>7, <2>1, ConRegistrosEn
  <2>4. ~EsConteo(i)
    BY <1>2, <2>1 DEF EnCurso, EsConteo
  <2>5. \A j \in Ids : registro'[j] = "SOSPECHOSA" => status'[j] = "SOSPECHOSA"
    BY <1>6, <2>1, <2>2, <2>3
  <2>6. \A k \in Ids : EsConteo(k) /\ status'[k] \in Aceptados => status[k] \in Aceptados
    BY <2>2, <2>4 DEF Aceptados
  <2> QED
    BY <2>1, <2>3, <2>5, <2>6 DEF CommitBien
<1>11. CASE CommitSinEfecto(w)
  <2>1. /\ T.veredicto = "sin_efecto" /\ EnCurso(T) /\ i \in Ids /\ status[i] = "PENDING"
        /\ status' = [status EXCEPT ![i] = e]
        /\ registro' = ConRegistros(registro, {o}, e) /\ UNCHANGED corte
    BY <1>4, <1>5, <1>11 DEF CommitSinEfecto
  <2>2. \A j \in Ids : status'[j] = IF j = i THEN e ELSE status[j]
    BY <1>6, <2>1
  <2>3. \A j \in Ids : registro'[j] = "SOSPECHOSA" => registro[j] = "SOSPECHOSA"
    BY <1>6, <1>7, <2>1, ConRegistrosEn
  <2>4. ~EsConteo(i)
    BY <1>2, <2>1 DEF EnCurso, EsConteo
  <2>5. \A j \in Ids : registro'[j] = "SOSPECHOSA" => status'[j] = "SOSPECHOSA"
    BY <1>6, <2>1, <2>2, <2>3
  <2> QED
    BY <2>1, <2>2, <2>3, <2>4, <2>5 DEF CommitBien
<1>12. CASE CommitDescarte(w)
  <2>1. /\ T.veredicto = "descarte" /\ EnCurso(T) /\ i \in Ids /\ status[i] = "PENDING"
        /\ \E x : status' = [status EXCEPT ![i] = x]
        /\ UNCHANGED <<registro, corte>>
    BY <1>5, <1>12 DEF CommitDescarte
  <2>2. \A j \in Ids : j # i => status'[j] = status[j]
    BY <1>6, <2>1
  <2>3. ~EsConteo(i)
    BY <1>2, <2>1 DEF EnCurso, EsConteo, Movimientos
  <2>4. \A j \in Ids : registro'[j] = "SOSPECHOSA" => registro[j] = "SOSPECHOSA" /\ status'[j] = "SOSPECHOSA"
    BY <1>6, <2>1, <2>2
  <2> QED
    BY <2>1, <2>2, <2>3, <2>4 DEF CommitBien
<1> QED
    BY <1>9, <1>10, <1>11, <1>12

-----------------------------------------------------------------------------
(* Every step. *)

(* No request is accepted and no alert raised. *)
Quieto ==
    /\ UNCHANGED corte
    /\ \A j \in Ids : /\ registro'[j] = "SOSPECHOSA" => registro[j] = "SOSPECHOSA"
                      /\ \/ status'[j] = status[j]
                         \/ status[j] = "LIBRE" /\ status'[j] = "PENDING"

LEMMA EncoladorQuieto ==
    ASSUME IInv, NEW c \in Clientes, PasoEncolador(c)
    PROVE  Quieto /\ UNCHANGED tx
<1>1. /\ status \in [Ids -> Estados \cup {"LIBRE"}] /\ registro \in [Ids -> Registros]
    BY DEF IInv, TypeOK, DBTypeOK, Registros
<1>2. CASE Insertar(c)
  <2>1. req[c].id \in Ids /\ status[req[c].id] = "LIBRE"
    BY <1>2 DEF IInv, ReqBien, Insertar
  <2>2. /\ status' = [status EXCEPT ![req[c].id] = "PENDING"]
        /\ UNCHANGED <<registro, corte, tx>>
    BY <1>2 DEF Insertar, InsertarPending
  <2> QED
    BY <1>1, <2>1, <2>2 DEF Quieto
<1>3. CASE InsertarRegistro(c)
  <2>1. /\ \E k : registro' = [registro EXCEPT ![k] = "PENDIENTE"]
        /\ UNCHANGED <<status, corte, tx>>
    BY <1>3 DEF InsertarRegistro
  <2> QED
    BY <1>1, <2>1 DEF Quieto
<1>4. CASE UNCHANGED <<status, registro, corte, tx>>
    BY <1>4 DEF Quieto
<1>5. CASE ~Insertar(c) /\ ~InsertarRegistro(c)
    BY <1>4, <1>5 DEF PasoEncolador, EncolarMovimiento, LeerStock, EncolarConteo,
       EncolarConfirmacion, TomarId, ReferirProducto, AbandonarPedido, AbortarRegistro,
       Rendirse, dbVars, tablas
<1> QED
    BY <1>2, <1>3, <1>5

LEMMA AManoQuieto ==
    ASSUME IInv, InsertarAMano
    PROVE  Quieto /\ UNCHANGED tx
<1>1. siguiente \in Ids
    BY DBAssumption DEF InsertarAMano, IInv, TypeOK, DBTypeOK, DBAssumption, Ids
<1>2. status[siguiente] = "LIBRE" /\ status \in [Ids -> Estados \cup {"LIBRE"}]
    BY <1>1 DEF IInv, ColaBien, TypeOK, DBTypeOK, Ids
<1>3. /\ status' = [status EXCEPT ![siguiente] = "PENDING"]
      /\ UNCHANGED <<registro, corte, tx>>
    BY DEF InsertarAMano, InsertarPending
<1> QED
    BY <1>1, <1>2, <1>3 DEF Quieto

(* What a transaction has secured stays secured while others work. *)
LEMMA TxAjena ==
    ASSUME IInv, ICorte, IAlerta, Avance, NEW v \in Workers, NEW T, T = tx[v], T.fase # "idle",
           \A j \in T.inval : registro'[j] = "SOSPECHOSA" => registro[j] = "SOSPECHOSA"
    PROVE  CorteBien(T)' /\ RegistrosBien(T)'
<1>1. EnCurso(T) /\ T \in Transacciones /\ CorteBien(T) /\ RegistrosBien(T)
    BY Trabajando DEF ICorte, IAlerta
<1>2. RegistrosBien(T)'
    BY <1>1 DEF RegistrosBien
<1>3. T.id \in Ids /\ Existe(T.id) /\ fila'[T.id] = fila[T.id]
    BY <1>1 DEF EnCurso, Transacciones, Existe, Avance
<1>4. PICK i : i = Movido(T)
    OBVIOUS
<1>5. Movido(T)' = i
    BY <1>3, <1>4 DEF Movido
<1>6. ASSUME T.fase \in {"invalidando", "commit"}, T.veredicto \in Acepta, EsConteo(i)'
      PROVE  Cubierto(i, T.corte, T.vistas \cup T.inval)' /\ (T.fase = "commit" => T.vistas = {})
  <2>1. Existe(i)
    BY <1>4, <1>6, MovidoExiste
  <2>2. EsConteo(i)
    BY <1>6, <2>1 DEF EsConteo, Avance, Existe
  <2>3. Cubierto(i, T.corte, T.vistas \cup T.inval) /\ (T.fase = "commit" => T.vistas = {})
    BY <1>1, <1>4, <1>6, <2>2 DEF CorteBien
  <2> QED
    BY <2>1, <2>3, CubiertoSigue
<1> QED
    BY <1>2, <1>5, <1>6 DEF CorteBien

LEMMA TxOciosa ==
    ASSUME NEW T, T.fase = "idle"
    PROVE  CorteBien(T)' /\ RegistrosBien(T)'
BY DEF CorteBien, RegistrosBien

LEMMA AceptadaSigue ==
    ASSUME ICorte, Avance, NEW i \in Ids, status[i] \in Aceptados, EsConteo(i)',
           corte'[i] = corte[i]
    PROVE  Cubierto(i, corte[i], {})'
<1>1. PICK C : C = corte[i]
    OBVIOUS
<1>2. Existe(i)
    BY DEF Existe, Aceptados
<1>3. Cubierto(i, C, {})
    BY <1>1, <1>2 DEF ICorte, EsConteo, Avance
<1>4. Cubierto(i, C, {})'
    BY <1>2, <1>3, CubiertoSigue
<1> QED
    BY <1>1, <1>4

LEMMA TxSiguen ==
    ASSUME IInv, ICorte, IAlerta, Avance, NEW v \in Workers, tx'[v] = tx[v],
           \A j \in tx[v].inval : registro'[j] = "SOSPECHOSA" => registro[j] = "SOSPECHOSA"
    PROVE  (CorteBien(tx[v]) /\ RegistrosBien(tx[v]))'
<1>1. PICK T : T = tx[v]
    OBVIOUS
<1>2. CorteBien(T)' /\ RegistrosBien(T)'
    BY <1>1, TxAjena, TxOciosa
<1> QED
    BY <1>1, <1>2

LEMMA QuietoBien ==
    ASSUME IInv, ICorte, IAlerta, Avance, Quieto,
           \A v \in Workers : tx'[v] = tx[v] \/ (CorteBien(tx[v]) /\ RegistrosBien(tx[v]))'
    PROVE  ICorte' /\ IAlerta'
<1>1. ASSUME NEW i \in Ids, EsConteo(i)', status'[i] \in Aceptados
      PROVE  Cubierto(i, corte[i], {})'
  <2>1. status[i] \in Aceptados /\ corte'[i] = corte[i]
    BY <1>1 DEF Quieto, Aceptados
  <2> QED
    BY <1>1, <2>1, AceptadaSigue
<1>2. AlertaVigente'
  <2> SUFFICES ASSUME NEW i \in Ids, registro'[i] = "SOSPECHOSA"
               PROVE  status'[i] = "SOSPECHOSA"
    BY DEF AlertaVigente
  <2>1. registro[i] = "SOSPECHOSA" /\ (status'[i] = status[i] \/ status[i] = "LIBRE")
    BY DEF Quieto
  <2>2. status[i] = "SOSPECHOSA"
    BY <2>1 DEF IAlerta, AlertaVigente
  <2> QED
    BY <2>1, <2>2
<1>3. ASSUME NEW v \in Workers
      PROVE  (CorteBien(tx[v]) /\ RegistrosBien(tx[v]))'
  <2>1. CASE tx'[v] = tx[v]
    <3>1. tx[v] \in Transacciones
      BY DEF IInv, TypeOK, DBTypeOK
    <3>2. \A j \in tx[v].inval : registro'[j] = "SOSPECHOSA" => registro[j] = "SOSPECHOSA"
      BY <3>1 DEF Quieto, Transacciones
    <3> QED
      BY <2>1, <3>2, TxSiguen
  <2> QED
    BY <2>1
<1> QED
    BY <1>1, <1>2, <1>3 DEF ICorte, IAlerta

(* A step of a worker inside its transaction. *)
LEMMA EnTxBien ==
    ASSUME IInv, ICorte, IAlerta, Avance, NEW w \in Workers, UNCHANGED tablas,
           \A v \in Workers \ {w} : tx'[v] = tx[v],
           NEW t, t = tx'[w], CorteBien(t) /\ RegistrosBien(t)
    PROVE  ICorte' /\ IAlerta'
<1>1. CorteBien(t)' /\ RegistrosBien(t)'
    BY MismasTablas
<1>2. (CorteBien(tx[w]) /\ RegistrosBien(tx[w]))'
    BY <1>1
<1>3. Quieto
    BY DEF Quieto, tablas
<1> QED
    BY <1>2, <1>3, QuietoBien

LEMMA CommitICorte ==
    ASSUME IInv, ICorte, IAlerta, Avance, NEW w \in Workers, NEW r, PorCommit(w, r), CommitBien(w)
    PROVE  ICorte' /\ IAlerta'
<1>1. /\ tx[w].fase = "commit" /\ tx \in [Workers -> Transacciones]
      /\ tx' = [tx EXCEPT ![w] = TxIdle] /\ UNCHANGED fila
    BY DEF PorCommit, IInv, TypeOK, DBTypeOK
<1>2. AlertaVigente'
    BY DEF AlertaVigente, CommitBien
<1>3. ASSUME NEW v \in Workers
      PROVE  (CorteBien(tx[v]) /\ RegistrosBien(tx[v]))'
  <2>1. CASE v = w
    <3>1. tx'[v] = TxIdle /\ TxIdle.fase = "idle"
      BY <1>1, <2>1 DEF TxIdle
    <3> QED
      BY <3>1, TxOciosa
  <2>2. CASE v # w
    <3>1. tx'[v] = tx[v]
      BY <1>1, <2>2
    <3>2. tx[v].fase # "idle" => tx[v].inval \subseteq Bloqueadas(v) /\ tx[v].inval \subseteq Ids
      <4>1. tx[v].fase # "idle" => EnCurso(tx[v]) /\ tx[v] \in Transacciones
        BY Trabajando
      <4> QED
        BY <4>1 DEF EnCurso, Transacciones, Bloqueadas
    <3>3. Bloqueadas(w) \cap Bloqueadas(v) = {}
      BY <2>2 DEF IInv, Exclusion
    <3>4. CASE tx[v].fase = "idle"
      BY <3>1, <3>4, TxOciosa
    <3>5. CASE tx[v].fase # "idle"
      <4>1. \A j \in tx[v].inval : registro'[j] = "SOSPECHOSA" => registro[j] = "SOSPECHOSA"
        BY <3>2, <3>3, <3>5 DEF CommitBien
      <4> QED
        BY <3>1, <4>1, TxSiguen
    <3> QED
      BY <3>4, <3>5
  <2> QED
    BY <2>1, <2>2
<1>4. ASSUME NEW i \in Ids, EsConteo(i)', status'[i] \in Aceptados
      PROVE  Cubierto(i, corte[i], {})'
  <2>1. EsConteo(i)
    BY <1>1, <1>4 DEF EsConteo
  <2>2. CASE status[i] \in Aceptados /\ corte'[i] = corte[i]
    BY <1>4, <2>2, AceptadaSigue
  <2>3. CASE /\ tx[w].veredicto \in Acepta
             /\ i = Movido(tx[w]) /\ corte'[i] = tx[w].corte
             /\ \A j \in tx[w].inval : status'[j] \in Terminales
    <3>1. PICK T : T = tx[w]
      OBVIOUS
    <3>2. Existe(i) /\ Cubierto(i, T.corte, T.vistas \cup T.inval) /\ T.vistas = {}
      BY <1>1, <2>1, <2>3, <3>1, MovidoExiste DEF ICorte, CorteBien
    <3>3. Cubierto(i, T.corte, T.vistas \cup T.inval)'
      BY <3>2, CubiertoSigue
    <3>4. \A j \in T.vistas \cup T.inval : status'[j] \in Terminales
      BY <2>3, <3>1, <3>2
    <3>5. Cubierto(i, T.corte, {})'
      BY <3>3, <3>4 DEF Cubierto
    <3> QED
      BY <2>3, <3>1, <3>5
  <2> QED
    BY <1>4, <2>1, <2>2, <2>3 DEF CommitBien
<1> QED
    BY <1>2, <1>3, <1>4 DEF ICorte, IAlerta

LEMMA WorkerICorte ==
    ASSUME IInv, ICorte, IAlerta, Avance, NEW w \in Workers, PasoWorker(w)
    PROVE  ICorte' /\ IAlerta'
<1>1. tx \in [Workers -> Transacciones] /\ CorteBien(tx[w])
    BY DEF IInv, TypeOK, DBTypeOK, ICorte
<1>2. PICK t : t = tx'[w]
    OBVIOUS
<1>3. ASSUME NEW u, EnTx(w, u)
      PROVE  UNCHANGED tablas /\ \A v \in Workers \ {w} : tx'[v] = tx[v]
    BY <1>1, <1>3 DEF EnTx
<1>4. CASE \/ \E i \in Ids : Tomar(w, i)
           \/ Descartar(w) \/ EvaluarSinCambios(w) \/ KalmanEvaluar(w) \/ BloquearStock(w)
           \/ EvaluarConfirmacion(w) \/ ObjetivoSinEfecto(w) \/ RechazarObjetivo(w)
           \/ ConfirmarObjetivo(w) \/ BloquearStockObjetivo(w) \/ ResidualNulo(w)
           \/ AbortarPorDeadlock(w)
  <2>1. CorteBien(t) /\ RegistrosBien(t)
    BY <1>2, <1>4, OtrosCorte
  <2>2. \E u : EnTx(w, u)
    BY <1>4 DEF Tomar, Descartar, EvaluarSinCambios, KalmanEvaluar, BloquearStock,
       EvaluarConfirmacion, ObjetivoSinEfecto, RechazarObjetivo, ConfirmarObjetivo,
       BloquearStockObjetivo, ResidualNulo, AbortarPorDeadlock
  <2> QED
    BY <1>2, <1>3, <2>1, <2>2, EnTxBien
<1>5. CASE AbrirInvalidacion(w)
  <2>1. CorteBien(t) /\ RegistrosBien(t)
    BY <1>2, <1>5, AbrirCorte
  <2>2. \E u : EnTx(w, u)
    BY <1>5 DEF AbrirInvalidacion
  <2> QED
    BY <1>2, <1>3, <2>1, <2>2, EnTxBien
<1>6. CASE \E j \in Ids : InvalidarFila(w, j)
  <2>1. CorteBien(t) /\ RegistrosBien(t)
    BY <1>1, <1>2, <1>6, InvalidarCorte
  <2>2. \E u : EnTx(w, u)
    BY <1>6 DEF InvalidarFila
  <2> QED
    BY <1>2, <1>3, <2>1, <2>2, EnTxBien
<1>7. CASE SincronizarInvalidados(w)
  <2>1. CorteBien(t) /\ RegistrosBien(t)
    BY <1>1, <1>2, <1>7, SincronizarCorte
  <2>2. \E u : EnTx(w, u)
    BY <1>7 DEF SincronizarInvalidados
  <2> QED
    BY <1>2, <1>3, <2>1, <2>2, EnTxBien
<1>8. CASE Caer(w)
  <2>1. t = TxIdle /\ UNCHANGED tablas /\ \A v \in Workers \ {w} : tx'[v] = tx[v]
    BY <1>1, <1>2, <1>8 DEF Caer
  <2>2. TxIdle.fase = "idle"
    BY DEF TxIdle
  <2>3. CorteBien(t) /\ RegistrosBien(t)
    BY <2>1, <2>2, SinInvalidar
  <2> QED
    BY <1>2, <2>1, <2>3, EnTxBien
<1>9. CASE \/ CommitPasa(w) \/ CommitFalla(w) \/ CommitSinCambios(w) \/ CommitConfirmar(w)
           \/ CommitRechazar(w) \/ CommitSinEfecto(w) \/ CommitDescarte(w)
  <2>1. CommitBien(w)
    BY <1>9, CommitAceptaBien, CommitConfirmarBien, CommitOtrosBien
  <2>2. \E r : PorCommit(w, r)
    BY <1>9 DEF CommitPasa, CommitFalla, CommitSinCambios, CommitConfirmar, CommitRechazar,
       CommitSinEfecto, CommitDescarte
  <2> QED
    BY <2>1, <2>2, CommitICorte
<1> QED
    BY <1>4, <1>5, <1>6, <1>7, <1>8, <1>9 DEF PasoWorker, Esperar, Avanzar

LEMMA PasoICorte ==
    ASSUME IInv, ICorte, IAlerta, [Next]_vars
    PROVE  ICorte' /\ IAlerta'
<1>1. Avance
    BY PasoAvance
<1>2. CASE \E c \in Clientes : PasoEncolador(c)
    BY <1>1, <1>2, EncoladorQuieto, QuietoBien
<1>3. CASE InsertarAMano
    BY <1>1, <1>3, AManoQuieto, QuietoBien
<1>4. CASE \E w \in Workers : PasoWorker(w)
    BY <1>1, <1>4, WorkerICorte
<1>5. CASE UNCHANGED vars
  <2>1. Quieto /\ UNCHANGED tx
    BY <1>5 DEF vars, dbVars, tablas, Quieto
  <2> QED
    BY <1>1, <2>1, QuietoBien
<1> QED
    BY <1>2, <1>3, <1>4, <1>5 DEF Next

LEMMA InitICorte == Init => ICorte /\ IAlerta
<1> SUFFICES ASSUME Init PROVE ICorte /\ IAlerta
    OBVIOUS
<1>1. /\ status = [i \in Ids |-> "LIBRE"] /\ registro = [i \in Ids |-> "no"]
      /\ tx = [w \in Workers |-> TxIdle]
    BY DEF Init, DBInit
<1>2. TxIdle.fase = "idle"
    BY DEF TxIdle
<1>3. \A w \in Workers : CorteBien(tx[w]) /\ RegistrosBien(tx[w])
    BY <1>1, <1>2, SinInvalidar
<1> QED
    BY <1>1, <1>3 DEF ICorte, IAlerta, AlertaVigente, Aceptados

LEMMA InvalidacionInvariante == Spec => [](IInv /\ ICorte /\ IAlerta)
<1>1. Init => ICorte /\ IAlerta
    BY InitICorte
<1>2. IInv /\ ICorte /\ IAlerta /\ [Next]_vars => ICorte' /\ IAlerta'
    BY PasoICorte
<1> QED
    BY <1>1, <1>2, InvarianteInductivo, PTL DEF Spec

(* With any number of workers and conteos, an accepted or confirmed conteo   *)
(* leaves in play none of the rivals that the UPDATE of its invalidation     *)
(* could see, though they were being evaluated or answered meanwhile         *)
(* (main.go:450-466, db/init.sql:483-505).                                   *)
THEOREM InvalidacionSiempreCompleta == Spec => []InvalidacionCompleta
<1>1. ICorte => InvalidacionCompleta
    BY DEF ICorte, InvalidacionCompleta, Cubierto, Existe
<1> QED
    BY <1>1, InvalidacionInvariante, PTL

(* An entry that shows as an alert still waits for its answer: whatever      *)
(* resolves a suspicious request takes the alert away in the same            *)
(* transaction (main.go:426-430, 485-488, 533-545, db/init.sql:475-517).     *)
THEOREM AlertaSiempreVigente == Spec => []AlertaVigente
<1>1. IAlerta => AlertaVigente
    BY DEF IAlerta
<1> QED
    BY <1>1, InvalidacionInvariante, PTL
-----------------------------------------------------------------------------
(* A conteo composes with the movements committed since its stock was read. *)

(* The delta of a queued conteo is its count minus the stock as the first    *)
(* f.base movements left it.                                                 *)
ConteoFiel(f) ==
    f.tool = "registrar_conteo" =>
        /\ f.key \in Keys
        /\ f.base \in 0..Len(movimientos)
        /\ f.delta = f.contada - ResultanteHasta(f.key, f.base)

LecturaFiel(r) ==
    r.fase = "leido" =>
        /\ r.key \in Keys
        /\ r.base \in 0..Len(movimientos)
        /\ r.leido = ResultanteHasta(r.key, r.base)

(* A movement repeats the key and the quantity of its request. *)
Apuntado(m) ==
    /\ Existe(m.pend)
    /\ m.key = fila[m.pend].key /\ m.delta = fila[m.pend].delta

IConteo ==
    /\ \A c \in Clientes : LecturaFiel(req[c]) /\ ConteoFiel(req[c].fila)
    /\ \A i \in Ids : ConteoFiel(fila[i])
    /\ \A n \in DOMAIN movimientos : Apuntado(movimientos[n])

(* The history only grows, and what its movements left does not change. *)
Estable ==
    /\ Len(movimientos) \in Nat /\ Len(movimientos)' \in Nat
    /\ Len(movimientos) <= Len(movimientos)'
    /\ \A k \in Keys : \A n \in 0..Len(movimientos) :
          ResultanteHasta(k, n)' = ResultanteHasta(k, n)

LEMMA PasoEstable ==
    ASSUME IInv, ICadena, [Next]_vars
    PROVE  Estable
<1>1. movimientos \in Seq(Apuntes)
    BY DEF IInv, TypeOK, DBTypeOK
<1>2. CASE UNCHANGED movimientos
    BY <1>1, <1>2 DEF Estable, ResultanteHasta, UltimoDe
<1>3. CASE \E m \in Apuntes : movimientos' = Append(movimientos, m)
  <2>1. PICK m \in Apuntes : movimientos' = Append(movimientos, m)
    BY <1>3
  <2>2. PICK N \in Nat : N = Len(movimientos)
    BY <1>1
  <2>3. Len(movimientos)' = N + 1
    BY <1>1, <2>1, <2>2
  <2>4. \A k \in Keys : \A n \in 0..N : ResultanteHasta(k, n)' = ResultanteHasta(k, n)
    BY <1>1, <2>1, <2>2, ResultanteFijo
  <2> QED
    BY <2>2, <2>3, <2>4 DEF Estable
<1> QED
    BY <1>2, <1>3, PasoEfecto DEF Efecto, Entra, SoloCierra, Aplica

LEMMA FielSigue ==
    ASSUME Estable
    PROVE  /\ \A f : ConteoFiel(f) => ConteoFiel(f)'
           /\ \A r : LecturaFiel(r) => LecturaFiel(r)'
BY DEF Estable, ConteoFiel, LecturaFiel

(* What a handler puts in the queue, and what it reads. *)
LEMMA EncoladorConteo ==
    ASSUME IInv, ICadena, IConteo, NEW c \in Clientes, PasoEncolador(c)
    PROVE  /\ \A d \in Clientes : LecturaFiel(req'[d]) /\ ConteoFiel(req'[d].fila)
           /\ \A i \in Ids : ConteoFiel(fila'[i])
<1>1. req \in [Clientes -> Reqs] /\ fila \in [Ids -> Filas] /\ movimientos \in Seq(Apuntes)
    BY DEF IInv, TypeOK, DBTypeOK, EncoladorTypeOK
<1>2. PICK r : r = req[c]
    OBVIOUS
<1>3. r \in Reqs /\ LecturaFiel(r) /\ ConteoFiel(r.fila)
    BY <1>1, <1>2 DEF IConteo
<1>4. PICK q : q = req'[c]
    OBVIOUS
<1>5. /\ ReqIdle \in Reqs /\ ReqIdle.fase = "idle" /\ ReqIdle.fila = FilaVacia
      /\ FilaVacia \in Filas /\ FilaVacia.tool = "otra"
    BY ReqIdleTipo DEF ReqIdle, FilaVacia
<1>6. \A f : f.tool # "registrar_conteo" => ConteoFiel(f)
    BY DEF ConteoFiel
<1>7. \A s : s.fase # "leido" => LecturaFiel(s)
    BY DEF LecturaFiel
<1>8. ASSUME LecturaFiel(q), ConteoFiel(q.fila), \E u : req' = [req EXCEPT ![c] = u],
             \A i \in Ids : ConteoFiel(fila'[i])
      PROVE  /\ \A d \in Clientes : LecturaFiel(req'[d]) /\ ConteoFiel(req'[d].fila)
             /\ \A i \in Ids : ConteoFiel(fila'[i])
  <2>1. \A d \in Clientes \ {c} : req'[d] = req[d]
    BY <1>1, <1>8
  <2> QED
    BY <1>4, <1>8, <2>1 DEF IConteo
<1>9. ASSUME NEW f, TomarId(c, f), ConteoFiel(f)
      PROVE  /\ \A d \in Clientes : LecturaFiel(req'[d]) /\ ConteoFiel(req'[d].fila)
             /\ \A i \in Ids : ConteoFiel(fila'[i])
  <2>1. req' = [req EXCEPT ![c] = q] /\ UNCHANGED fila
    BY <1>1, <1>4, <1>9 DEF TomarId
  <2>2. q = [ReqIdle EXCEPT !.fase = "insertar", !.id = siguiente, !.fila = f]
    BY <1>1, <1>4, <1>9 DEF TomarId
  <2>3. q.fase = "insertar" /\ q.fila = f
    BY <1>5, <2>2 DEF Reqs
  <2> QED
    BY <1>7, <1>8, <1>9, <2>1, <2>3 DEF IConteo
<1>10. CASE EncolarMovimiento(c)
  <2>1. PICK t \in {"agregar_inventario", "remover_inventario"}, k \in Keys,
             n \in Cantidades, s \in Sesiones :
            TomarId(c, [FilaVacia EXCEPT
                !.tool = t, !.key = k, !.sesion = s,
                !.delta = IF t = "agregar_inventario" THEN n ELSE -n])
    BY <1>10 DEF EncolarMovimiento
  <2>2. PICK d : d = IF t = "agregar_inventario" THEN n ELSE -n
    OBVIOUS
  <2>3. PICK f : f = [FilaVacia EXCEPT !.tool = t, !.key = k, !.sesion = s, !.delta = d]
    OBVIOUS
  <2>4. TomarId(c, f)
    BY <2>1, <2>2, <2>3
  <2>5. f.tool # "registrar_conteo"
    BY <1>5, <2>1, <2>3 DEF Filas
  <2> QED
    BY <1>6, <1>9, <2>4, <2>5
<1>11. CASE LeerStock(c)
  <2>1. PICK k \in Keys :
            req' = [req EXCEPT ![c] = [ReqIdle EXCEPT !.fase = "leido", !.key = k,
                                          !.leido = stock[k], !.base = Len(movimientos)]]
    BY <1>11 DEF LeerStock
  <2>2. /\ q.fase = "leido" /\ q.key = k /\ q.leido = stock[k]
        /\ q.base = Len(movimientos) /\ q.fila = FilaVacia
    BY <1>1, <1>4, <1>5, <2>1 DEF Reqs
  <2>3. LecturaFiel(q)
    BY <1>1, <2>1, <2>2 DEF LecturaFiel, ICadena
  <2>4. UNCHANGED fila
    BY <1>11 DEF LeerStock, dbVars, tablas
  <2> QED
    BY <1>5, <1>6, <1>8, <2>1, <2>2, <2>3, <2>4 DEF IConteo
<1>12. CASE EncolarConteo(c)
  <2>1. PICK n \in Conteos, s \in Sesiones :
            TomarId(c, [FilaVacia EXCEPT !.tool = "registrar_conteo", !.key = r.key, !.sesion = s,
                                         !.delta = n - r.leido, !.contada = n, !.base = r.base])
    BY <1>2, <1>12 DEF EncolarConteo
  <2>2. r.fase = "leido"
    BY <1>2, <1>12 DEF EncolarConteo
  <2>3. PICK f : f = [FilaVacia EXCEPT !.tool = "registrar_conteo", !.key = r.key, !.sesion = s,
                                       !.delta = n - r.leido, !.contada = n, !.base = r.base]
    OBVIOUS
  <2>4. f.key = r.key /\ f.delta = n - r.leido /\ f.contada = n /\ f.base = r.base
    BY <1>5, <2>3 DEF Filas
  <2>5. ConteoFiel(f)
    BY <1>3, <2>2, <2>4 DEF LecturaFiel, ConteoFiel
  <2> QED
    BY <1>9, <2>1, <2>3, <2>5
<1>13. CASE EncolarConfirmacion(c)
  <2>1. PICK t \in Ids, si \in BOOLEAN :
            TomarId(c, [FilaVacia EXCEPT !.tool = "confirmar_movimiento",
                                         !.target = t, !.confirmar = si])
    BY <1>13 DEF EncolarConfirmacion
  <2>2. [FilaVacia EXCEPT !.tool = "confirmar_movimiento",
                          !.target = t, !.confirmar = si].tool # "registrar_conteo"
    BY <1>5 DEF Filas
  <2> QED
    BY <1>6, <1>9, <2>1, <2>2
<1>14. CASE Insertar(c)
  <2>1. /\ r.id \in Ids /\ fila' = [fila EXCEPT ![r.id] = r.fila]
        /\ \/ req' = [req EXCEPT ![c] = [ReqIdle EXCEPT !.fase = "registrar", !.id = r.id]]
           \/ req' = [req EXCEPT ![c] = ReqIdle]
    BY <1>1, <1>2, <1>14 DEF Insertar, InsertarPending, IInv, ReqBien
  <2>2. q.fase # "leido" /\ q.fila = FilaVacia
    BY <1>1, <1>4, <1>5, <2>1 DEF Reqs
  <2>3. \A i \in Ids : ConteoFiel(fila'[i])
    BY <1>1, <1>3, <2>1 DEF IConteo
  <2> QED
    BY <1>5, <1>6, <1>7, <1>8, <2>1, <2>2, <2>3
<1>15. CASE ReferirProducto(c)
  <2>1. req' = [req EXCEPT ![c].fase = "referir"] /\ UNCHANGED fila
    BY <1>15 DEF ReferirProducto, tablas
  <2>2. q = [r EXCEPT !.fase = "referir"]
    BY <1>1, <1>2, <1>4, <2>1
  <2>3. q.fase = "referir" /\ q.fila = r.fila
    BY <1>3, <2>2 DEF Reqs
  <2>4. \E u : req' = [req EXCEPT ![c] = u]
    BY <2>1
  <2> QED
    BY <1>3, <1>7, <1>8, <2>1, <2>3, <2>4 DEF IConteo
<1>16. CASE InsertarRegistro(c) \/ AbandonarPedido(c) \/ AbortarRegistro(c)
  <2>1. req' = [req EXCEPT ![c] = ReqIdle] /\ UNCHANGED fila
    BY <1>16 DEF InsertarRegistro, AbandonarPedido, AbortarRegistro, Rendirse, tablas
  <2>2. q = ReqIdle
    BY <1>1, <1>4, <2>1
  <2> QED
    BY <1>5, <1>6, <1>7, <1>8, <2>1, <2>2 DEF IConteo
<1> QED
    BY <1>10, <1>11, <1>12, <1>13, <1>14, <1>15, <1>16 DEF PasoEncolador

LEMMA WorkerSinFila ==
    ASSUME NEW w \in Workers, PasoWorker(w)
    PROVE  UNCHANGED fila
<1>1. CASE \/ CommitPasa(w) \/ CommitFalla(w) \/ CommitSinCambios(w) \/ CommitConfirmar(w)
           \/ CommitRechazar(w) \/ CommitSinEfecto(w) \/ CommitDescarte(w)
    BY <1>1 DEF CommitPasa, CommitFalla, CommitSinCambios, CommitConfirmar, CommitRechazar,
       CommitSinEfecto, CommitDescarte, PorCommit
<1>2. ASSUME NEW t, EnTx(w, t)
      PROVE  UNCHANGED fila
    BY <1>2 DEF EnTx, tablas
<1>3. CASE Caer(w)
    BY <1>3 DEF Caer, tablas
<1>4. CASE \/ \E i \in Ids : Tomar(w, i) \/ InvalidarFila(w, i)
           \/ Descartar(w) \/ EvaluarSinCambios(w) \/ KalmanEvaluar(w) \/ BloquearStock(w)
           \/ EvaluarConfirmacion(w) \/ ObjetivoSinEfecto(w) \/ RechazarObjetivo(w)
           \/ ConfirmarObjetivo(w) \/ BloquearStockObjetivo(w) \/ ResidualNulo(w)
           \/ AbrirInvalidacion(w) \/ SincronizarInvalidados(w) \/ AbortarPorDeadlock(w)
    BY <1>2, <1>4 DEF Tomar, InvalidarFila, Descartar, EvaluarSinCambios, KalmanEvaluar,
       BloquearStock, EvaluarConfirmacion, ObjetivoSinEfecto, RechazarObjetivo,
       ConfirmarObjetivo, BloquearStockObjetivo, ResidualNulo, AbrirInvalidacion,
       SincronizarInvalidados, AbortarPorDeadlock
<1> QED
    BY <1>1, <1>3, <1>4 DEF PasoWorker, Esperar, Avanzar

LEMMA PasoIConteo ==
    ASSUME IInv, ICadena, IConteo, [Next]_vars
    PROVE  IConteo'
<1>1. Estable /\ Avance
    BY PasoEstable, PasoAvance
<1>2. /\ movimientos \in Seq(Apuntes) /\ fila \in [Ids -> Filas]
      /\ \A f : ConteoFiel(f) => ConteoFiel(f)'
      /\ \A r : LecturaFiel(r) => LecturaFiel(r)'
    BY <1>1, FielSigue DEF IInv, TypeOK, DBTypeOK
<1>3. /\ \A c \in Clientes : LecturaFiel(req'[c]) /\ ConteoFiel(req'[c].fila)
      /\ \A i \in Ids : ConteoFiel(fila'[i])
  <2>1. CASE \E c \in Clientes : PasoEncolador(c)
    BY <2>1, EncoladorConteo
  <2>2. CASE InsertarAMano
    <3>1. PICK t \in Pedidos \ (Movimientos \cup {"confirmar_movimiento"}) :
              fila' = [fila EXCEPT ![siguiente] = [FilaVacia EXCEPT !.tool = t]]
      BY <2>2 DEF InsertarAMano, InsertarPending
    <3>2. [FilaVacia EXCEPT !.tool = t].tool = t /\ t # "registrar_conteo"
      BY <3>1, ReqIdleTipo DEF Filas, Movimientos
    <3>3. \A i \in Ids : ConteoFiel(fila'[i])
      BY <1>2, <3>1, <3>2 DEF IConteo, ConteoFiel
    <3> QED
      BY <2>2, <3>3 DEF InsertarAMano, IConteo
  <2>3. CASE \E w \in Workers : PasoWorker(w) /\ UNCHANGED req
    <3>1. UNCHANGED fila
      BY <2>3, WorkerSinFila
    <3> QED
      BY <2>3, <3>1 DEF IConteo
  <2>4. CASE UNCHANGED vars
    BY <2>4 DEF vars, dbVars, tablas, IConteo
  <2> QED
    BY <2>1, <2>2, <2>3, <2>4 DEF Next
<1>4. ASSUME NEW c \in Clientes
      PROVE  LecturaFiel(req[c])' /\ ConteoFiel(req[c].fila)'
  <2>1. PICK r : r = req'[c]
    OBVIOUS
  <2>2. LecturaFiel(r)' /\ ConteoFiel(r.fila)'
    BY <1>2, <1>3, <2>1
  <2> QED
    BY <2>1, <2>2
<1>5. ASSUME NEW i \in Ids
      PROVE  ConteoFiel(fila[i])'
  <2>1. PICK f : f = fila'[i]
    OBVIOUS
  <2>2. ConteoFiel(f)'
    BY <1>2, <1>3, <2>1
  <2> QED
    BY <2>1, <2>2
<1>6. ASSUME NEW m, Apuntado(m)
      PROVE  Apuntado(m)'
    BY <1>1, <1>6 DEF Apuntado, Avance, Existe
<1>7. \A n \in DOMAIN movimientos' : Apuntado(movimientos[n])'
  <2>1. CASE UNCHANGED movimientos
    BY <1>6, <2>1 DEF IConteo
  <2>2. CASE \E i, C : Aplica(i, C)
    <3>1. PICK i, C : Aplica(i, C)
      BY <2>2
    <3>2. PICK m \in Apuntes : Apunta(m, i) /\ movimientos' = Append(movimientos, m)
      BY <3>1 DEF Aplica
    <3>3. Apuntado(m)
      BY <3>1, <3>2 DEF Aplica, Apunta, Apuntado, Existe, Resolubles
    <3>4. \A n \in DOMAIN movimientos' : movimientos'[n] = m \/
              (n \in DOMAIN movimientos /\ movimientos'[n] = movimientos[n])
      BY <1>2, <3>2
    <3>5. ASSUME NEW n \in DOMAIN movimientos'
          PROVE  Apuntado(movimientos[n])'
      <4>1. PICK x : x = movimientos'[n]
        OBVIOUS
      <4>2. Apuntado(x)
        BY <3>3, <3>4, <4>1 DEF IConteo
      <4>3. Apuntado(x)'
        BY <1>6, <4>2
      <4> QED
        BY <4>1, <4>3
    <3> QED
      BY <3>5
  <2> QED
    BY <2>1, <2>2, PasoEfecto DEF Efecto, Entra, SoloCierra
<1> QED
    BY <1>4, <1>5, <1>7 DEF IConteo

LEMMA InitIConteo == Init => IConteo
<1> SUFFICES ASSUME Init PROVE IConteo
    OBVIOUS
<1>1. /\ movimientos = << >> /\ fila = [i \in Ids |-> FilaVacia]
      /\ req = [c \in Clientes |-> ReqIdle]
    BY DEF Init, DBInit, EncoladorInit
<1>2. ReqIdle.fase = "idle" /\ ReqIdle.fila = FilaVacia /\ FilaVacia.tool = "otra"
    BY DEF ReqIdle, FilaVacia
<1> QED
    BY <1>1, <1>2 DEF IConteo, LecturaFiel, ConteoFiel

LEMMA IConteoBasta ==
    ASSUME IInv, ICadena, IConteo
    PROVE  ConteoComponeMovimientos
<1> SUFFICES ASSUME NEW n \in DOMAIN movimientos, NEW m, m = movimientos[n],
                    NEW f, f = fila[m.pend], f.tool = "registrar_conteo"
             PROVE  m.resultante = f.contada
                        + (ResultanteHasta(m.key, n - 1) - ResultanteHasta(m.key, f.base))
    BY DEF ConteoComponeMovimientos
<1>1. movimientos \in Seq(Apuntes) /\ fila \in [Ids -> Filas]
    BY DEF IInv, TypeOK, DBTypeOK
<1>2. m.pend \in Ids /\ m.key = f.key /\ m.delta = f.delta
    BY DEF IConteo, Apuntado, Existe
<1>3. f \in Filas /\ f.key \in Keys /\ f.delta = f.contada - ResultanteHasta(f.key, f.base)
    BY <1>1, <1>2 DEF IConteo, ConteoFiel
<1>4. m.resultante = ResultanteHasta(m.key, n - 1) + m.delta
    BY <1>2, <1>3 DEF ICadena
<1>5. ResultanteHasta(m.key, n - 1) \in Int /\ ResultanteHasta(m.key, f.base) \in Int
  <2>1. PICK N \in Nat : N = Len(movimientos)
    BY <1>1
  <2>2. DOMAIN movimientos = 1..N /\ \A j \in 1..N : movimientos[j].resultante \in Int
    <3>1. DOMAIN movimientos = 1..N /\ \A j \in 1..N : movimientos[j] \in Apuntes
      BY <1>1, <2>1
    <3> QED
      BY <3>1 DEF Apuntes
  <2>3. f.base \in 0..N /\ n - 1 \in 0..N
    BY <1>2, <2>1, <2>2 DEF IConteo, ConteoFiel
  <2>4. ASSUME NEW j \in 0..N
        PROVE  ResultanteHasta(f.key, j) \in Int
    <3>1. UltimoDe(f.key, j) \in 0..j
      BY <1>3, <2>1, <2>4 DEF ICadena
    <3>2. UltimoDe(f.key, j) = 0 \/ UltimoDe(f.key, j) \in 1..N
      BY <2>4, <3>1
    <3>3. StockInicial[f.key] \in Int
      BY <1>3, DBAssumption DEF DBAssumption
    <3> QED
      BY <2>2, <3>2, <3>3 DEF ResultanteHasta
  <2> QED
    BY <1>2, <2>3, <2>4
<1> QED
    BY <1>2, <1>3, <1>4, <1>5 DEF Filas

(* However many workers apply movements and confirmations between the moment *)
(* a handler read the stock and the commit of the conteo it queued, the      *)
(* conteo leaves the stock at the counted quantity plus what they changed:   *)
(* storing the difference loses no movement (003_conteo_absoluto.sql:9-21).  *)
THEOREM ConteoSiempreCompone == Spec => []ConteoComponeMovimientos
<1>1. Init => ICadena /\ IConteo
    BY InitICadena, InitIConteo
<1>2. IInv /\ ICadena /\ IConteo /\ [Next]_vars => ICadena' /\ IConteo'
    BY PasoICadena, PasoIConteo
<1>3. IInv /\ ICadena /\ IConteo => ConteoComponeMovimientos
    BY IConteoBasta
<1> QED
    BY <1>1, <1>2, <1>3, InvarianteInductivo, PTL DEF Spec
=============================================================================
