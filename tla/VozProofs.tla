------------------------------ MODULE VozProofs ------------------------------
(***************************************************************************)
(* Theorems about Voz, for any length of the recording, of the buffer and  *)
(* of the waits, and any failures.  The blocks are numbered as the         *)
(* microphone gives them; the inductive invariant says, of each place they *)
(* pass through, which blocks it holds: the recorder (CliBien), the        *)
(* handler of the gateway (GwBien), and the WebSocket between it and       *)
(* voice-service (Enlace), where what was not yet heard, what is in the    *)
(* buffer and what was said are told by the number of messages in flight.  *)
(***************************************************************************)
EXTENDS Voz, SequenceTheorems, TLAPS

-----------------------------------------------------------------------------
(* Types. *)

Mensajes == [tipo: {"final", "error"}, texto: Seq(Nat)]
Clientes == [fase: {"listo", "graba", "envia", "espera", "cierra"}, enter: BOOLEAN, mic: Nat,
             cola: Seq(Nat), trozos: Seq(Nat), vacios: Nat, temp: BOOLEAN]
Handlers == [fase: {"libre", "nube", "ffmpeg", "conecta", "manda", "recibe", "hecho", "fallo"},
             audio: Seq(Nat), falta: Seq(Nat), texto: Seq(Nat), respaldo: BOOLEAN]
Conexiones == [fase: {"cerrada", "modelo", "escucha", "transcribe"}, cliente: BOOLEAN,
               canal: Seq(Nat), buf: Seq(Nat), hablando: BOOLEAN, corte: BOOLEAN,
               sal: Seq(Mensajes)]

-----------------------------------------------------------------------------
(* The inductive invariant. *)

(* s holds the blocks after d, one after another. *)
Enumera(s, d) == \A i \in DOMAIN s : s[i] = d + i

(* What the gateway sends of n blocks, in its order. *)
Envio(n, k) == IF k <= n THEN k ELSE Stop

CliBien(c) ==
    /\ Enumera(c.trozos, 0) /\ Len(c.trozos) <= Bloques /\ c.vacios <= MaxVacios
    /\ c.fase = "graba" => /\ Enumera(c.cola, Len(c.trozos))
                           /\ c.mic = Len(c.trozos) + Len(c.cola) /\ c.mic <= Bloques
                           /\ c.vacios < MaxVacios
    /\ c.fase \notin {"envia", "espera"} => ~c.temp

(* A stretch of the n blocks, up to the last one unless there was a cut. *)
Tramo(t, n, corte) ==
    t # <<>> => \E d \in 0..n : /\ Enumera(t, d) /\ d + Len(t) <= n
                                /\ corte \/ d + Len(t) = n

GwBien(g, corte) ==
    /\ Enumera(g.audio, 0)
    /\ g.fase = "hecho" => Tramo(g.texto, Len(g.audio), corte)

WsBien(w) ==
    /\ Len(w.buf) <= MaxBuf
    /\ w.fase = "cerrada" => w.buf = <<>>

(* How many blocks the service has taken, when l messages are in flight.     *)
Oidos(n, l) == IF l = 0 THEN n ELSE n + 1 - l

(* The WebSocket, while the gateway is on it.                                *)
Enlace(n, falta, canal, buf, fase, corte, sal) ==
    LET l == Len(canal) + Len(falta) IN
    /\ l <= n + 1
    /\ \A i \in DOMAIN falta : falta[i] = Envio(n, n + 1 - Len(falta) + i)
    /\ \A i \in DOMAIN canal : canal[i] = Envio(n, n + 1 - l + i)
    /\ Len(buf) <= Oidos(n, l) /\ Enumera(buf, Oidos(n, l) - Len(buf))
    /\ fase = "transcribe" => corte \/ l = 0
    /\ \A i \in DOMAIN sal : sal[i].tipo = "final" => Tramo(sal[i].texto, n, corte)

EnlaceBien(g, w) ==
    /\ g.fase = "manda" => g.falta # <<>>
    /\ g.fase \in {"manda", "recibe"} =>
          Enlace(Len(g.audio), g.falta, w.canal, w.buf, w.fase, w.corte, w.sal)

IInv ==
    /\ cli \in Clientes /\ gw \in Handlers /\ ws \in Conexiones
    /\ CliBien(cli)
    /\ GwBien(gw, ws.corte)
    /\ WsBien(ws)
    /\ EnlaceBien(gw, ws)

-----------------------------------------------------------------------------
(* Sequences of numbered blocks. *)

LEMMA SecuenciaPartes ==
    ASSUME NEW S, NEW s \in Seq(S), s # <<>>
    PROVE  /\ Len(s) \in Nat \ {0} /\ DOMAIN s = 1..Len(s) /\ Head(s) = s[1] /\ Head(s) \in S
           /\ Tail(s) \in Seq(S) /\ Len(Tail(s)) = Len(s) - 1 /\ DOMAIN Tail(s) = 1..(Len(s) - 1)
           /\ \A i \in 1..(Len(s) - 1) : Tail(s)[i] = s[i + 1]
OBVIOUS

LEMMA SecuenciaMas ==
    ASSUME NEW S, NEW s \in Seq(S), NEW x \in S
    PROVE  /\ Append(s, x) \in Seq(S) /\ Len(Append(s, x)) = Len(s) + 1
           /\ Len(s) \in Nat /\ DOMAIN s = 1..Len(s) /\ DOMAIN Append(s, x) = 1..(Len(s) + 1)
           /\ Append(s, x)[Len(s) + 1] = x
           /\ \A i \in 1..Len(s) : Append(s, x)[i] = s[i]
OBVIOUS

LEMMA SecuenciaUne ==
    ASSUME NEW S, NEW s \in Seq(S), NEW x \in S
    PROVE  s \o <<>> = s /\ s \o <<x>> = Append(s, x)
OBVIOUS

LEMMA EnumeraMas ==
    ASSUME NEW s \in Seq(Nat), NEW d \in Nat, Enumera(s, d)
    PROVE  Enumera(Append(s, d + Len(s) + 1), d)
<1>1. PICK x \in Nat : x = d + Len(s) + 1
    OBVIOUS
<1> QED
    BY <1>1, SecuenciaMas DEF Enumera

LEMMA EnumeraResto ==
    ASSUME NEW s \in Seq(Nat), NEW d \in Nat, Enumera(s, d), s # <<>>
    PROVE  Head(s) = d + 1 /\ Enumera(Tail(s), d + 1)
<1>1. PICK q : q = Tail(s)
    OBVIOUS
<1>2. /\ Len(s) \in Nat \ {0} /\ DOMAIN s = 1..Len(s) /\ Head(s) = s[1]
      /\ DOMAIN q = 1..(Len(s) - 1) /\ \A i \in 1..(Len(s) - 1) : q[i] = s[i + 1]
    BY <1>1, SecuenciaPartes
<1>a. \A i \in 1..Len(s) : s[i] = d + i
    BY <1>2 DEF Enumera
<1>3. Head(s) = d + 1
  <2>1. 1 \in 1..Len(s)
    BY <1>2
  <2> QED
    BY <1>2, <1>a, <2>1
<1>4. Enumera(q, d + 1)
  <2>1. ASSUME NEW i \in 1..(Len(s) - 1) PROVE q[i] = (d + 1) + i
    <3>1. i + 1 \in 1..Len(s) /\ d + (i + 1) = (d + 1) + i
      BY <1>2
    <3> QED
      BY <1>2, <1>a, <3>1
  <2> QED
    BY <1>2, <2>1 DEF Enumera
<1> QED
    BY <1>1, <1>3, <1>4

LEMMA VaciaEnumera == <<>> \in Seq(Nat) /\ Len(<<>>) = 0 /\ DOMAIN <<>> = {} /\ \A d : Enumera(<<>>, d)
BY DEF Enumera

(* The buffer, after making room for the next block. *)
LEMMA DesbordarBien ==
    ASSUME NEW buf \in Seq(Nat), NEW o \in Nat, Len(buf) <= o, Len(buf) <= MaxBuf,
           Enumera(buf, o - Len(buf))
    PROVE  /\ Desbordar(buf, o + 1) \in Seq(Nat) /\ Len(Desbordar(buf, o + 1)) <= MaxBuf
           /\ Len(Desbordar(buf, o + 1)) <= o + 1
           /\ Enumera(Desbordar(buf, o + 1), o + 1 - Len(Desbordar(buf, o + 1)))
<1> USE VozAssumption
<1>0. MaxBuf \in Nat \ {0} /\ Len(buf) \in Nat
    OBVIOUS
<1>1. PICK d \in Nat : d = o - Len(buf)
    BY <1>0
<1>2. CASE Len(buf) = MaxBuf
  <2>0. buf # <<>>
    BY <1>0, <1>2
  <2>1. PICK q : q = Tail(buf)
    OBVIOUS
  <2>2. q \in Seq(Nat) /\ Len(q) = Len(buf) - 1 /\ Enumera(q, d + 1)
    BY <1>1, <2>0, <2>1, SecuenciaPartes, EnumeraResto
  <2>c. d + 1 \in Nat /\ o + 1 \in Nat
    OBVIOUS
  <2>d. PICK e \in Nat : e = d + 1
    BY <2>c
  <2>e. PICK x \in Nat : x = o + 1
    BY <2>c
  <2>3. e = d + 1 /\ x = o + 1
    BY <2>d, <2>e
  <2>a. x = e + Len(q) + 1
    BY <1>0, <1>1, <2>2, <2>3
  <2>5. PICK r : r = Append(q, x)
    OBVIOUS
  <2>f. q \in Seq(Nat) /\ Enumera(q, e)
    BY <2>2, <2>3
  <2>4. r \in Seq(Nat) /\ Len(r) = Len(q) + 1 /\ Enumera(r, e)
    <3>1. r \in Seq(Nat) /\ Len(r) = Len(q) + 1
      BY <2>f, <2>5, SecuenciaMas
    <3>2. Enumera(r, e)
      BY <2>f, <2>5, <2>a, EnumeraMas
    <3> QED
      BY <3>1, <3>2
  <2>6. Desbordar(buf, o + 1) = r
    BY <1>2, <2>1, <2>3, <2>5 DEF Desbordar
  <2>b. Len(q) = Len(buf) - 1 /\ Len(r) = Len(q) + 1
    BY <2>2, <2>4
  <2>7. o + 1 - Len(r) = e /\ Len(r) = Len(buf) /\ Len(r) <= o + 1
    BY <1>0, <1>1, <2>3, <2>b
  <2> QED
    BY <1>2, <2>4, <2>6, <2>7
<1>3. CASE Len(buf) # MaxBuf
  <2>1. o + 1 = d + Len(buf) + 1
    BY <1>0, <1>1
  <2>2. Append(buf, o + 1) \in Seq(Nat) /\ Len(Append(buf, o + 1)) = Len(buf) + 1
        /\ Enumera(Append(buf, o + 1), d)
    BY <1>1, <2>1, SecuenciaMas, EnumeraMas
  <2>3. PICK r : r = Append(buf, o + 1)
    OBVIOUS
  <2>4. Desbordar(buf, o + 1) = r
    BY <1>3, <2>3 DEF Desbordar
  <2>5. o + 1 - Len(r) = d /\ Len(r) <= MaxBuf /\ Len(r) <= o + 1
    BY <1>0, <1>1, <1>3, <2>2, <2>3
  <2> QED
    BY <2>2, <2>3, <2>4, <2>5
<1> QED
    BY <1>2, <1>3

-----------------------------------------------------------------------------
(* What a step does to the WebSocket. *)

LEMMA TramoConCorte ==
    ASSUME NEW t, NEW n, NEW corte, Tramo(t, n, corte)
    PROVE  Tramo(t, n, TRUE)
BY DEF Tramo

(* The gateway sends one more. *)
LEMMA EnlaceManda ==
    ASSUME NEW n \in Nat, NEW falta \in Seq(Nat), NEW canal \in Seq(Nat), NEW buf, NEW fase,
           NEW corte, NEW sal, falta # <<>>, Enlace(n, falta, canal, buf, fase, corte, sal)
    PROVE  Enlace(n, Tail(falta), Append(canal, Head(falta)), buf, fase, corte, sal)
<1>1. PICK q, r : q = Tail(falta) /\ r = Append(canal, Head(falta))
    OBVIOUS
<1>2. /\ Len(falta) \in Nat \ {0} /\ DOMAIN falta = 1..Len(falta) /\ Head(falta) = falta[1]
      /\ Head(falta) \in Nat /\ Len(q) = Len(falta) - 1 /\ DOMAIN q = 1..(Len(falta) - 1)
      /\ \A i \in 1..(Len(falta) - 1) : q[i] = falta[i + 1]
    BY <1>1, SecuenciaPartes
<1>3. /\ Len(canal) \in Nat /\ Len(r) = Len(canal) + 1 /\ DOMAIN r = 1..(Len(canal) + 1)
      /\ DOMAIN canal = 1..Len(canal)
      /\ r[Len(canal) + 1] = Head(falta) /\ \A i \in 1..Len(canal) : r[i] = canal[i]
    BY <1>1, <1>2, SecuenciaMas
<1>4. PICK l : l = Len(canal) + Len(falta)
    OBVIOUS
<1>5. Len(r) + Len(q) = l
    BY <1>2, <1>3, <1>4
<1>6. ASSUME NEW i \in DOMAIN q PROVE q[i] = Envio(n, n + 1 - Len(q) + i)
  <2>1. i \in 1..(Len(falta) - 1) /\ i + 1 \in DOMAIN falta /\ q[i] = falta[i + 1]
        /\ n + 1 - Len(falta) + (i + 1) = n + 1 - Len(q) + i
    BY <1>2, <1>6
  <2> QED
    BY <2>1 DEF Enlace
<1>7. ASSUME NEW i \in DOMAIN r PROVE r[i] = Envio(n, n + 1 - l + i)
  <2>1. CASE i = Len(canal) + 1
    <3>1. n + 1 - Len(falta) + 1 = n + 1 - l + i /\ 1 \in DOMAIN falta
      BY <1>2, <1>3, <1>4, <2>1
    <3> QED
      BY <1>2, <1>3, <2>1, <3>1 DEF Enlace
  <2>2. CASE i # Len(canal) + 1
    <3>1. i \in DOMAIN canal /\ r[i] = canal[i]
      BY <1>3, <1>7, <2>2
    <3> QED
      BY <1>4, <3>1 DEF Enlace
  <2> QED
    BY <2>1, <2>2
<1>8. Enlace(n, q, r, buf, fase, corte, sal)
    BY <1>4, <1>5, <1>6, <1>7 DEF Enlace
<1> QED
    BY <1>1, <1>8

(* What the next message is. *)
LEMMA EnlaceCabeza ==
    ASSUME NEW n \in Nat, NEW falta \in Seq(Nat), NEW canal \in Seq(Nat), NEW buf, NEW fase,
           NEW corte, NEW sal, canal # <<>>, Enlace(n, falta, canal, buf, fase, corte, sal)
    PROVE  LET l == Len(canal) + Len(falta)
               m == Len(Tail(canal)) + Len(falta)
           IN  /\ l \in Nat \ {0} /\ m \in Nat /\ m = l - 1
               /\ Head(canal) # Stop => l > 1 /\ Head(canal) = Oidos(n, l) + 1
                                       /\ Oidos(n, m) = Oidos(n, l) + 1
               /\ Head(canal) = Stop => l = 1 /\ Oidos(n, m) = Oidos(n, l)
               /\ \A i \in DOMAIN Tail(canal) : Tail(canal)[i] = Envio(n, n + 1 - m + i)
<1>1. PICK q : q = Tail(canal)
    OBVIOUS
<1>2. /\ Len(canal) \in Nat \ {0} /\ DOMAIN canal = 1..Len(canal) /\ Head(canal) = canal[1]
      /\ Head(canal) \in Nat /\ Len(q) = Len(canal) - 1 /\ DOMAIN q = 1..(Len(canal) - 1)
      /\ \A i \in 1..(Len(canal) - 1) : q[i] = canal[i + 1]
    BY <1>1, SecuenciaPartes
<1>3. PICK l, m : l = Len(canal) + Len(falta) /\ m = Len(q) + Len(falta)
    OBVIOUS
<1>4. l \in Nat \ {0} /\ m \in Nat /\ m = l - 1 /\ l <= n + 1
    BY <1>2, <1>3 DEF Enlace
<1>5. PICK b : b = Head(canal)
    OBVIOUS
<1>a. \A i \in DOMAIN canal : canal[i] = Envio(n, n + 1 - l + i)
    BY <1>3 DEF Enlace
<1>6. b = Envio(n, n + 1 - l + 1)
  <2>1. 1 \in DOMAIN canal
    BY <1>2
  <2> QED
    BY <1>2, <1>5, <1>a, <2>1
<1>7. /\ b # 0 => l > 1 /\ b = Oidos(n, l) + 1 /\ Oidos(n, m) = Oidos(n, l) + 1
      /\ b = 0 => l = 1 /\ Oidos(n, m) = Oidos(n, l)
    BY <1>4, <1>6 DEF Envio, Stop, Oidos
<1>8. ASSUME NEW i \in DOMAIN q PROVE q[i] = Envio(n, n + 1 - m + i)
  <2>1. i + 1 \in DOMAIN canal /\ q[i] = canal[i + 1] /\ n + 1 - l + (i + 1) = n + 1 - m + i
    BY <1>2, <1>4, <1>8
  <2> QED
    BY <1>3, <2>1 DEF Enlace
<1> QED
    BY <1>1, <1>3, <1>4, <1>5, <1>7, <1>8 DEF Stop

(* The service takes a block. *)
LEMMA EnlaceOye ==
    ASSUME NEW n \in Nat, NEW falta \in Seq(Nat), NEW canal \in Seq(Nat), NEW buf \in Seq(Nat),
           NEW fase, NEW corte, NEW sal, canal # <<>>, Len(buf) <= MaxBuf,
           Enlace(n, falta, canal, buf, fase, corte, sal), fase # "transcribe", Head(canal) # Stop
    PROVE  Enlace(n, falta, Tail(canal), Desbordar(buf, Head(canal)), fase, corte, sal)
<1>1. PICK q : q = Tail(canal)
    OBVIOUS
<1>2. PICK l, m : l = Len(canal) + Len(falta) /\ m = Len(q) + Len(falta)
    OBVIOUS
<1>3. PICK o : o = Oidos(n, l)
    OBVIOUS
<1>4. /\ l \in Nat \ {0} /\ m \in Nat /\ m = l - 1
      /\ l > 1 /\ Head(canal) = o + 1 /\ Oidos(n, m) = o + 1
      /\ \A i \in DOMAIN q : q[i] = Envio(n, n + 1 - m + i)
    BY <1>1, <1>2, <1>3, EnlaceCabeza
<1>5. /\ l <= n + 1 /\ Len(buf) <= o /\ Enumera(buf, o - Len(buf))
    BY <1>2, <1>3 DEF Enlace
<1>6. o \in Nat
    BY <1>3, <1>4, <1>5 DEF Oidos
<1>7. PICK b : b = Desbordar(buf, o + 1)
    OBVIOUS
<1>8. b \in Seq(Nat) /\ Len(b) <= o + 1 /\ Enumera(b, o + 1 - Len(b))
    BY <1>5, <1>6, <1>7, DesbordarBien
<1>9. m <= n + 1
    BY <1>4, <1>5
<1>a. /\ \A i \in DOMAIN falta : falta[i] = Envio(n, n + 1 - Len(falta) + i)
      /\ \A i \in DOMAIN sal : sal[i].tipo = "final" => Tramo(sal[i].texto, n, corte)
    BY DEF Enlace
<1>b. Len(b) <= Oidos(n, m) /\ Enumera(b, Oidos(n, m) - Len(b))
  <2>1. PICK p : p = Oidos(n, m)
    OBVIOUS
  <2>2. p = o + 1
    BY <1>4, <2>1
  <2>3. Len(b) <= p /\ Enumera(b, p - Len(b))
    BY <1>6, <1>8, <2>2
  <2> QED
    BY <2>1, <2>3
<1>10. Enlace(n, falta, q, b, fase, corte, sal)
    BY <1>2, <1>4, <1>9, <1>a, <1>b DEF Enlace
<1> QED
    BY <1>1, <1>4, <1>7, <1>10

(* The service takes the stop. *)
LEMMA EnlaceStop ==
    ASSUME NEW n \in Nat, NEW falta \in Seq(Nat), NEW canal \in Seq(Nat), NEW buf, NEW fase,
           NEW corte, NEW sal, canal # <<>>, Enlace(n, falta, canal, buf, fase, corte, sal),
           Head(canal) = Stop, NEW otra
    PROVE  Enlace(n, falta, Tail(canal), buf, otra, corte, sal)
<1>1. PICK q : q = Tail(canal)
    OBVIOUS
<1>2. PICK l, m : l = Len(canal) + Len(falta) /\ m = Len(q) + Len(falta)
    OBVIOUS
<1>3. /\ l \in Nat \ {0} /\ m \in Nat /\ m = l - 1 /\ l = 1 /\ Oidos(n, m) = Oidos(n, l)
      /\ \A i \in DOMAIN q : q[i] = Envio(n, n + 1 - m + i)
    BY <1>1, <1>2, EnlaceCabeza
<1>4. m = 0 /\ m <= n + 1
    BY <1>3
<1>5. Enlace(n, falta, q, buf, otra, corte, sal)
    BY <1>2, <1>3, <1>4 DEF Enlace
<1> QED
    BY <1>1, <1>5

(* The utterance is cut. *)
LEMMA EnlaceCorta ==
    ASSUME NEW n, NEW falta, NEW canal, NEW buf, NEW fase, NEW corte, NEW sal, NEW otra,
           Enlace(n, falta, canal, buf, fase, corte, sal)
    PROVE  Enlace(n, falta, canal, buf, otra, TRUE, sal)
BY TramoConCorte DEF Enlace

(* The phase changes, but not to a transcription. *)
LEMMA EnlaceFase ==
    ASSUME NEW n, NEW falta, NEW canal, NEW buf, NEW fase, NEW corte, NEW sal, NEW otra,
           Enlace(n, falta, canal, buf, fase, corte, sal), otra # "transcribe"
    PROVE  Enlace(n, falta, canal, buf, otra, corte, sal)
BY DEF Enlace

(* The buffer is cleared. *)
LEMMA EnlaceVacia ==
    ASSUME NEW n \in Nat, NEW falta \in Seq(Nat), NEW canal \in Seq(Nat), NEW buf, NEW fase,
           NEW corte, NEW sal, Enlace(n, falta, canal, buf, fase, corte, sal)
    PROVE  Enlace(n, falta, canal, <<>>, fase, corte, sal)
<1>1. PICK l : l = Len(canal) + Len(falta)
    OBVIOUS
<1>2. l \in Nat /\ l <= n + 1
    BY <1>1 DEF Enlace
<1>3. Len(<<>>) <= Oidos(n, l)
    BY <1>2 DEF Oidos
<1> QED
    BY <1>1, <1>3, VaciaEnumera DEF Enlace

(* The service says something. *)
LEMMA EnlaceDice ==
    ASSUME NEW n, NEW falta, NEW canal, NEW buf, NEW fase, NEW corte, NEW sal \in Seq(Mensajes),
           NEW m \in Mensajes, m.tipo = "final" => Tramo(m.texto, n, corte),
           Enlace(n, falta, canal, buf, fase, corte, sal)
    PROVE  Enlace(n, falta, canal, buf, fase, corte, Append(sal, m))
<1>1. PICK r : r = Append(sal, m)
    OBVIOUS
<1>2. \A i \in DOMAIN r : (i \in DOMAIN sal /\ r[i] = sal[i]) \/ r[i] = m
    BY <1>1, SecuenciaMas
<1>3. \A i \in DOMAIN r : r[i].tipo = "final" => Tramo(r[i].texto, n, corte)
    BY <1>2 DEF Enlace
<1> QED
    BY <1>1, <1>3 DEF Enlace

(* What is in the buffer when it is transcribed. *)
LEMMA EnlaceTexto ==
    ASSUME NEW n \in Nat, NEW falta \in Seq(Nat), NEW canal \in Seq(Nat), NEW buf \in Seq(Nat),
           NEW corte, NEW sal, Enlace(n, falta, canal, buf, "transcribe", corte, sal)
    PROVE  Tramo(buf, n, corte)
<1>1. PICK l : l = Len(canal) + Len(falta)
    OBVIOUS
<1>2. PICK o : o = Oidos(n, l)
    OBVIOUS
<1>3. /\ l \in Nat /\ l <= n + 1 /\ Len(buf) <= o /\ Enumera(buf, o - Len(buf))
      /\ corte \/ l = 0
    BY <1>1, <1>2 DEF Enlace
<1>4. CASE buf = <<>>
    BY <1>4 DEF Tramo
<1>5. CASE buf # <<>>
  <2>1. Len(buf) \in Nat \ {0} /\ o <= n /\ o \in Nat /\ (l = 0 => o = n)
    BY <1>2, <1>3, <1>5, SecuenciaPartes DEF Oidos
  <2>2. PICK d : d = o - Len(buf)
    OBVIOUS
  <2>3. d \in 0..n /\ d + Len(buf) = o
    BY <1>3, <2>1, <2>2
  <2> QED
    BY <1>3, <2>1, <2>2, <2>3 DEF Tramo
<1> QED
    BY <1>4, <1>5

-----------------------------------------------------------------------------
(* What each process owes when it moves. *)

LEMMA PasoCli ==
    ASSUME IInv, NEW c \in Clientes, CliBien(c), cli' = c, UNCHANGED <<gw, ws>>
    PROVE  IInv'
BY DEF IInv

LEMMA PasoGw ==
    ASSUME IInv, NEW g \in Handlers, GwBien(g, ws.corte), EnlaceBien(g, ws), gw' = g,
           UNCHANGED <<cli, ws>>
    PROVE  IInv'
BY DEF IInv

LEMMA PasoWs ==
    ASSUME IInv, NEW w \in Conexiones, WsBien(w), EnlaceBien(gw, w), w.corte \in {ws.corte, TRUE},
           ws' = w, UNCHANGED <<cli, gw>>
    PROVE  IInv'
<1>1. GwBien(gw, w.corte)
    BY TramoConCorte DEF IInv, GwBien
<1> QED
    BY <1>1 DEF IInv

-----------------------------------------------------------------------------
(* The recorder. *)

LEMMA SumaCorrida ==
    ASSUME NEW a \in Nat, NEW b \in Nat, NEW s, s = a + b
    PROVE  /\ s + 1 = a + (b + 1) /\ s = (a + 1) + (b - 1)
           /\ \A k \in Nat : s <= k => a <= k
OBVIOUS

LEMMA Cotas == Bloques \in Nat \ {0} /\ MaxVacios \in Nat \ {0} /\ MaxBuf \in Nat \ {0}
BY VozAssumption

LEMMA CliQuieto ==
    /\ Cli0 \in Clientes /\ CliBien(Cli0)
    /\ \A f \in {"graba", "cierra"} : /\ [Cli0 EXCEPT !.fase = f] \in Clientes
                                      /\ CliBien([Cli0 EXCEPT !.fase = f])
<1> USE Cotas, VaciaEnumera
<1>1. ASSUME NEW f \in {"listo", "graba", "cierra"}, NEW c, c = [Cli0 EXCEPT !.fase = f]
      PROVE  c \in Clientes /\ CliBien(c)
  <2>1. /\ c.fase = f /\ c.enter = FALSE /\ c.mic = 0 /\ c.cola = <<>> /\ c.trozos = <<>>
        /\ c.vacios = 0 /\ c.temp = FALSE /\ c \in Clientes
    BY <1>1 DEF Cli0, Clientes
  <2> QED
    BY <2>1 DEF CliBien
<1>2. Cli0 = [Cli0 EXCEPT !.fase = "listo"]
    BY DEF Cli0
<1> QED
    BY <1>1, <1>2

LEMMA GrabarPreserva == ASSUME IInv, Grabar PROVE IInv'
BY CliQuieto, PasoCli DEF Grabar

LEMMA MicrofonoPreserva == ASSUME IInv, Microfono PROVE IInv'
<1>1. cli \in Clientes /\ CliBien(cli) /\ cli.fase = "graba" /\ cli.mic < Bloques
    BY DEF IInv, Microfono
<1>2. PICK q : q = Append(cli.cola, cli.mic + 1)
    OBVIOUS
<1>3. PICK c : c = [cli EXCEPT !.mic = cli.mic + 1, !.cola = q]
    OBVIOUS
<1>4. cli.cola \in Seq(Nat) /\ cli.mic \in Nat /\ cli.trozos \in Seq(Nat)
    BY <1>1 DEF Clientes
<1>5. cli.mic = Len(cli.trozos) + Len(cli.cola) /\ Enumera(cli.cola, Len(cli.trozos))
    BY <1>1 DEF CliBien
<1>6. cli.mic + 1 \in Nat /\ Len(cli.trozos) \in Nat
    BY <1>4
<1>7. q \in Seq(Nat) /\ Len(q) = Len(cli.cola) + 1 /\ Len(cli.cola) \in Nat
    BY <1>2, <1>4, <1>6, SecuenciaMas
<1>8. Enumera(q, Len(cli.trozos))
    BY <1>2, <1>4, <1>5, <1>6, EnumeraMas
<1>9. /\ c \in Clientes /\ c.fase = "graba" /\ c.mic = cli.mic + 1 /\ c.cola = q
      /\ c.trozos = cli.trozos /\ c.vacios = cli.vacios /\ c.temp = cli.temp
    BY <1>1, <1>3, <1>6, <1>7 DEF Clientes
<1>10. c.mic = Len(c.trozos) + Len(c.cola) /\ c.mic <= Bloques
  <2>1. cli.mic + 1 = Len(cli.trozos) + Len(q)
    <3>1. cli.mic + 1 = Len(cli.trozos) + (Len(cli.cola) + 1)
      BY <1>5, <1>6, <1>7, SumaCorrida
    <3> QED
      BY <1>7, <3>1
  <2>2. cli.mic + 1 <= Bloques
    BY <1>1, <1>4, Cotas
  <2> QED
    BY <1>9, <2>1, <2>2
<1>11. CliBien(c)
    BY <1>1, <1>8, <1>9, <1>10 DEF CliBien
<1>12. cli' = c
    BY <1>1, <1>2, <1>3 DEF Microfono, Clientes
<1> QED
    BY <1>9, <1>11, <1>12, PasoCli DEF Microfono

LEMMA PulsarEnterPreserva == ASSUME IInv, PulsarEnter PROVE IInv'
<1>1. cli \in Clientes /\ CliBien(cli)
    BY DEF IInv
<1>2. PICK c : c = [cli EXCEPT !.enter = TRUE]
    OBVIOUS
<1>3. /\ c \in Clientes /\ c.fase = cli.fase /\ c.mic = cli.mic /\ c.cola = cli.cola
      /\ c.trozos = cli.trozos /\ c.vacios = cli.vacios /\ c.temp = cli.temp
    BY <1>1, <1>2 DEF Clientes
<1>4. CliBien(c)
    BY <1>1, <1>3 DEF CliBien
<1> QED
    BY <1>2, <1>3, <1>4, PasoCli DEF PulsarEnter

(* What one turn of collector leaves, before the condition of its loop.      *)
TurnoBien(r) ==
    /\ r \in Clientes /\ Enumera(r.trozos, 0) /\ Enumera(r.cola, Len(r.trozos))
    /\ r.mic = Len(r.trozos) + Len(r.cola) /\ r.mic <= Bloques /\ r.vacios <= MaxVacios
    /\ r.fase = "graba" /\ ~r.temp

LEMMA RecolectarTurno ==
    ASSUME IInv, cli.fase = "graba"
    PROVE  TurnoBien(IF cli.cola # <<>>
                     THEN [cli EXCEPT !.cola = Tail(@), !.trozos = Append(@, Head(cli.cola))]
                     ELSE [cli EXCEPT !.vacios = @ + 1])
<1>1. cli \in Clientes /\ CliBien(cli)
    BY DEF IInv
<1>2. /\ cli.cola \in Seq(Nat) /\ cli.trozos \in Seq(Nat) /\ cli.mic \in Nat /\ cli.vacios \in Nat
      /\ Len(cli.trozos) \in Nat
    BY <1>1 DEF Clientes
<1>3. /\ cli.mic = Len(cli.trozos) + Len(cli.cola) /\ cli.mic <= Bloques
      /\ Enumera(cli.cola, Len(cli.trozos)) /\ Enumera(cli.trozos, 0)
      /\ cli.vacios < MaxVacios /\ ~cli.temp
    BY <1>1 DEF CliBien
<1>4. CASE cli.cola # <<>>
  <2>1. PICK q, t : q = Tail(cli.cola) /\ t = Append(cli.trozos, Head(cli.cola))
    OBVIOUS
  <2>2. q \in Seq(Nat) /\ Len(q) = Len(cli.cola) - 1 /\ Len(cli.cola) \in Nat
    BY <1>2, <1>4, <2>1, SecuenciaPartes
  <2>3. Head(cli.cola) = Len(cli.trozos) + 1 /\ Enumera(q, Len(cli.trozos) + 1)
    BY <1>2, <1>3, <1>4, <2>1, EnumeraResto
  <2>4. Head(cli.cola) \in Nat /\ Head(cli.cola) = 0 + Len(cli.trozos) + 1
    BY <1>2, <2>3
  <2>5. t \in Seq(Nat) /\ Len(t) = Len(cli.trozos) + 1
    BY <1>2, <2>1, <2>4, SecuenciaMas
  <2>6. Enumera(t, 0)
    BY <1>2, <1>3, <2>1, <2>4, EnumeraMas
  <2>7. PICK r : r = [cli EXCEPT !.cola = q, !.trozos = t]
    OBVIOUS
  <2>8. /\ r \in Clientes /\ r.cola = q /\ r.trozos = t /\ r.mic = cli.mic /\ r.temp = cli.temp
        /\ r.vacios = cli.vacios /\ r.fase = cli.fase
    BY <1>1, <2>2, <2>5, <2>7 DEF Clientes
  <2>9. cli.mic = Len(t) + Len(q) /\ Enumera(q, Len(t)) /\ cli.vacios <= MaxVacios
    <3>1. cli.mic = Len(t) + Len(q)
      <4>1. cli.mic = (Len(cli.trozos) + 1) + (Len(cli.cola) - 1)
        BY <1>2, <1>3, <2>2, SumaCorrida
      <4> QED
        BY <2>2, <2>5, <4>1
    <3>2. cli.vacios <= MaxVacios
      BY <1>2, <1>3, Cotas
    <3>3. Enumera(q, Len(t))
      BY <2>3, <2>5
    <3> QED
      BY <3>1, <3>2, <3>3
  <2>10. TurnoBien(r)
    BY <1>3, <2>6, <2>8, <2>9 DEF TurnoBien
  <2> QED
    BY <1>1, <1>4, <2>1, <2>7, <2>10 DEF Clientes
<1>5. CASE cli.cola = <<>>
  <2>1. cli.vacios + 1 \in Nat /\ cli.vacios + 1 <= MaxVacios
    BY <1>2, <1>3, Cotas
  <2>2. PICK r : r = [cli EXCEPT !.vacios = cli.vacios + 1]
    OBVIOUS
  <2>3. /\ r \in Clientes /\ r.cola = cli.cola /\ r.trozos = cli.trozos /\ r.mic = cli.mic
        /\ r.temp = cli.temp /\ r.vacios = cli.vacios + 1 /\ r.fase = cli.fase
    BY <1>1, <2>1, <2>2 DEF Clientes
  <2>4. TurnoBien(r)
    BY <1>3, <2>1, <2>3 DEF TurnoBien
  <2> QED
    BY <1>1, <1>5, <2>2, <2>4 DEF Clientes
<1> QED
    BY <1>4, <1>5

LEMMA RecolectarPreserva == ASSUME IInv, Recolectar PROVE IInv'
<1>1. PICK r : /\ TurnoBien(r)
               /\ cli' = IF ~r.enter /\ r.vacios < MaxVacios THEN r
                         ELSE IF r.trozos = <<>> THEN [r EXCEPT !.fase = "cierra", !.cola = <<>>]
                         ELSE [r EXCEPT !.fase = "envia", !.cola = <<>>, !.temp = TRUE]
    BY RecolectarTurno DEF Recolectar
<1>2. /\ r \in Clientes /\ r.trozos \in Seq(Nat) /\ r.cola \in Seq(Nat) /\ r.vacios \in Nat
      /\ r.fase = "graba"
    BY <1>1 DEF TurnoBien, Clientes
<1>3. Enumera(r.trozos, 0) /\ Len(r.trozos) <= Bloques /\ r.vacios <= MaxVacios /\ ~r.temp
  <2>1. Len(r.trozos) \in Nat /\ Len(r.cola) \in Nat
    BY <1>2
  <2> QED
    <3>1. r.mic = Len(r.trozos) + Len(r.cola) /\ r.mic <= Bloques /\ r.mic \in Nat
      BY <1>1, <1>2 DEF TurnoBien, Clientes
    <3>2. Len(r.trozos) <= Bloques
      BY <2>1, <3>1, Cotas, SumaCorrida
    <3> QED
      BY <1>1, <3>2 DEF TurnoBien
<1>4. CASE ~r.enter /\ r.vacios < MaxVacios
  <2>1. CliBien(r)
    BY <1>1, <1>3, <1>4 DEF CliBien, TurnoBien
  <2> QED
    BY <1>1, <1>2, <1>4, <2>1, PasoCli DEF Recolectar
<1>5. ASSUME NEW f \in {"cierra", "envia"}, NEW b \in BOOLEAN, f = "cierra" => ~b,
             cli' = [r EXCEPT !.fase = f, !.cola = <<>>, !.temp = b]
      PROVE  IInv'
  <2>1. PICK c : c = [r EXCEPT !.fase = f, !.cola = <<>>, !.temp = b]
    OBVIOUS
  <2>2. /\ c \in Clientes /\ c.fase = f /\ c.trozos = r.trozos /\ c.vacios = r.vacios
        /\ c.temp = b
    BY <1>2, <1>5, <2>1, VaciaEnumera DEF Clientes
  <2>3. CliBien(c)
    BY <1>3, <1>5, <2>2 DEF CliBien
  <2> QED
    BY <1>5, <2>1, <2>2, <2>3, PasoCli DEF Recolectar
<1>6. [r EXCEPT !.fase = "cierra", !.cola = <<>>]
      = [r EXCEPT !.fase = "cierra", !.cola = <<>>, !.temp = FALSE]
  <2>1. r.temp = FALSE
    BY <1>2, <1>3 DEF Clientes
  <2> QED
    BY <1>2, <2>1 DEF Clientes
<1> QED
    BY <1>1, <1>4, <1>5, <1>6

(* The command is over: its file is gone, whatever the answer was.           *)
LEMMA TerminarBien ==
    ASSUME IInv, NEW ok, Terminar(ok)
    PROVE  cli' \in Clientes /\ CliBien(cli')
<1>1. cli \in Clientes /\ CliBien(cli)
    BY DEF IInv
<1>2. PICK c : c = [cli EXCEPT !.fase = "cierra", !.temp = FALSE]
    OBVIOUS
<1>3. /\ c \in Clientes /\ c.fase = "cierra" /\ c.trozos = cli.trozos /\ c.vacios = cli.vacios
      /\ c.temp = FALSE
    BY <1>1, <1>2 DEF Clientes
<1>4. CliBien(c)
    BY <1>1, <1>3 DEF CliBien
<1>5. cli' = c
    BY <1>1, <1>2 DEF Terminar, TempTras, Clientes
<1> QED
    BY <1>3, <1>4, <1>5

LEMMA AgotarEsperaPreserva == ASSUME IInv, AgotarEspera PROVE IInv'
BY TerminarBien, PasoCli DEF AgotarEspera

LEMMA CerrarPreserva == ASSUME IInv, Cerrar PROVE IInv'
BY CliQuieto, PasoCli DEF Cerrar

-----------------------------------------------------------------------------
(* The gateway. *)

(* A request that begins, or the handler after its answer. *)
LEMMA GwEmpieza ==
    ASSUME NEW f \in {"libre", "nube", "ffmpeg"}, NEW a \in Seq(Nat), Enumera(a, 0),
           NEW g, g = [Gw0 EXCEPT !.fase = f, !.audio = a], NEW corte, NEW w
    PROVE  g \in Handlers /\ GwBien(g, corte) /\ EnlaceBien(g, w)
<1>1. g \in Handlers /\ g.fase = f /\ g.audio = a
    BY VaciaEnumera DEF Gw0, Handlers
<1> QED
    BY <1>1 DEF GwBien, EnlaceBien

LEMMA Gw0Bien ==
    ASSUME NEW corte, NEW w
    PROVE  Gw0 \in Handlers /\ GwBien(Gw0, corte) /\ EnlaceBien(Gw0, w)
<1>1. Gw0 \in Handlers /\ Gw0.fase = "libre" /\ Gw0.audio = <<>>
    BY VaciaEnumera DEF Gw0, Handlers
<1> QED
    BY <1>1, VaciaEnumera DEF GwBien, EnlaceBien

LEMMA EnviarPreserva == ASSUME IInv, Enviar PROVE IInv'
<1>1. cli \in Clientes /\ CliBien(cli) /\ cli.fase = "envia"
    BY DEF IInv, Enviar
<1>2. PICK c : c = [cli EXCEPT !.fase = "espera"]
    OBVIOUS
<1>3. /\ c \in Clientes /\ c.fase = "espera" /\ c.trozos = cli.trozos /\ c.vacios = cli.vacios
      /\ c.temp = cli.temp
    BY <1>1, <1>2 DEF Clientes
<1>4. CliBien(c)
    BY <1>1, <1>3 DEF CliBien
<1>5. cli.trozos \in Seq(Nat) /\ Enumera(cli.trozos, 0)
    BY <1>1 DEF Clientes, CliBien
<1>6. PICK g : \E f \in {"nube", "ffmpeg"} : g = [Gw0 EXCEPT !.fase = f, !.audio = cli.trozos] /\ gw' = g
    BY DEF Enviar
<1>7. g \in Handlers /\ GwBien(g, ws.corte) /\ EnlaceBien(g, ws) /\ gw' = g
    BY <1>5, <1>6, GwEmpieza
<1> QED
    BY <1>2, <1>3, <1>4, <1>7 DEF IInv, Enviar

LEMMA SubirAudioPreserva == ASSUME IInv, SubirAudio PROVE IInv'
<1>1. PICK n \in {0, Bloques} : \E f \in {"nube", "ffmpeg"} :
         gw' = [Gw0 EXCEPT !.fase = f, !.audio = [i \in 1..n |-> i]]
    BY DEF SubirAudio
<1>2. n \in Nat
    BY <1>1, Cotas
<1>3. PICK a : a = [i \in 1..n |-> i]
    OBVIOUS
<1>4. a \in Seq(Nat) /\ DOMAIN a = 1..n /\ \A i \in 1..n : a[i] = i
    BY <1>2, <1>3
<1>5. Enumera(a, 0)
    BY <1>2, <1>4 DEF Enumera
<1>6. PICK g : \E f \in {"nube", "ffmpeg"} : g = [Gw0 EXCEPT !.fase = f, !.audio = a] /\ gw' = g
    BY <1>1, <1>3
<1>7. g \in Handlers /\ GwBien(g, ws.corte) /\ EnlaceBien(g, ws) /\ gw' = g
    BY <1>4, <1>5, <1>6, GwEmpieza
<1> QED
    BY <1>7, PasoGw DEF SubirAudio

(* The request goes to a phase before the WebSocket, or fails.               *)
LEMMA GwSigue ==
    ASSUME IInv, NEW f \in {"ffmpeg", "conecta", "fallo"}, NEW b \in BOOLEAN,
           gw' = [gw EXCEPT !.fase = f, !.respaldo = b], NEW corte, NEW w
    PROVE  gw' \in Handlers /\ GwBien(gw', corte) /\ EnlaceBien(gw', w)
<1>1. gw \in Handlers /\ GwBien(gw, ws.corte)
    BY DEF IInv
<1>2. PICK g : g = [gw EXCEPT !.fase = f, !.respaldo = b]
    OBVIOUS
<1>3. g \in Handlers /\ g.fase = f /\ g.audio = gw.audio
    BY <1>1, <1>2 DEF Handlers
<1>4. GwBien(g, corte) /\ EnlaceBien(g, w)
    BY <1>1, <1>3 DEF GwBien, EnlaceBien
<1> QED
    BY <1>2, <1>3, <1>4

LEMMA GwFase ==
    ASSUME IInv, NEW f, gw' = [gw EXCEPT !.fase = f]
    PROVE  gw' = [gw EXCEPT !.fase = f, !.respaldo = gw.respaldo] /\ gw.respaldo \in BOOLEAN
BY DEF IInv, Handlers

(* The text is a stretch of the audio.                                       *)
LEMMA GwResponde ==
    ASSUME IInv, NEW t \in Seq(Nat), Tramo(t, Len(gw.audio), ws.corte),
           gw' = [gw EXCEPT !.fase = "hecho", !.texto = t], NEW w
    PROVE  gw' \in Handlers /\ GwBien(gw', ws.corte) /\ EnlaceBien(gw', w)
<1>1. gw \in Handlers /\ GwBien(gw, ws.corte)
    BY DEF IInv
<1>2. PICK g : g = [gw EXCEPT !.fase = "hecho", !.texto = t]
    OBVIOUS
<1>3. g \in Handlers /\ g.fase = "hecho" /\ g.audio = gw.audio /\ g.texto = t
    BY <1>1, <1>2 DEF Handlers
<1>4. GwBien(g, ws.corte) /\ EnlaceBien(g, w)
    BY <1>1, <1>3 DEF GwBien, EnlaceBien
<1> QED
    BY <1>2, <1>3, <1>4

LEMMA NubePreserva == ASSUME IInv, Nube PROVE IInv'
<1>1. UNCHANGED <<cli, ws>> /\ gw \in Handlers /\ GwBien(gw, ws.corte)
    BY DEF IInv, Nube, Gw
<1>2. CASE gw' = [gw EXCEPT !.fase = "hecho", !.texto = gw.audio]
  <2>1. PICK t : t = gw.audio
    OBVIOUS
  <2>2. t \in Seq(Nat) /\ Enumera(t, 0) /\ Len(t) \in Nat
    BY <1>1, <2>1 DEF Handlers, GwBien
  <2>3. 0 \in 0..Len(t) /\ 0 + Len(t) = Len(t) /\ 0 + Len(t) <= Len(t)
    BY <2>2
  <2>4. Tramo(t, Len(t), ws.corte)
    BY <2>2, <2>3 DEF Tramo
  <2>5. gw' \in Handlers /\ GwBien(gw', ws.corte) /\ EnlaceBien(gw', ws)
    BY <1>2, <2>1, <2>2, <2>4, GwResponde
  <2> QED
    BY <1>1, <2>5, PasoGw
<1>3. CASE gw' = [gw EXCEPT !.fase = "ffmpeg", !.respaldo = TRUE]
  <2>1. gw' \in Handlers /\ GwBien(gw', ws.corte) /\ EnlaceBien(gw', ws)
    BY <1>3, GwSigue
  <2> QED
    BY <1>1, <2>1, PasoGw
<1> QED
    BY <1>2, <1>3 DEF Nube, Gw

LEMMA FfmpegPreserva == ASSUME IInv, Ffmpeg PROVE IInv'
<1>1. UNCHANGED <<cli, ws>> /\ \E f \in {"conecta", "fallo"} : gw' = [gw EXCEPT !.fase = f]
    BY DEF Ffmpeg, Gw
<1>2. gw' \in Handlers /\ GwBien(gw', ws.corte) /\ EnlaceBien(gw', ws)
    BY <1>1, GwFase, GwSigue
<1> QED
    BY <1>1, <1>2, PasoGw

(* A new connection: the blocks and the stop are all to send.                *)
LEMMA EnlaceNuevo ==
    ASSUME NEW a \in Seq(Nat), Enumera(a, 0)
    PROVE  /\ Append(a, Stop) \in Seq(Nat) /\ Append(a, Stop) # <<>>
           /\ Enlace(Len(a), Append(a, Stop), <<>>, <<>>, "modelo", FALSE, <<>>)
<1>1. PICK q : q = Append(a, Stop)
    OBVIOUS
<1>2. /\ q \in Seq(Nat) /\ Len(q) = Len(a) + 1 /\ Len(a) \in Nat /\ DOMAIN q = 1..(Len(a) + 1)
      /\ DOMAIN a = 1..Len(a) /\ q[Len(a) + 1] = 0 /\ \A i \in 1..Len(a) : q[i] = a[i]
    BY <1>1, SecuenciaMas DEF Stop
<1>3. PICK n \in Nat : n = Len(a)
    BY <1>2
<1>4. PICK l : l = Len(<<>>) + Len(q)
    OBVIOUS
<1>5. l = n + 1 /\ Len(q) = n + 1
    BY <1>2, <1>3, <1>4, VaciaEnumera
<1>6. ASSUME NEW i \in DOMAIN q PROVE q[i] = Envio(n, i)
  <2>1. CASE i = n + 1
    BY <1>2, <1>3, <2>1 DEF Envio, Stop
  <2>2. CASE i # n + 1
    <3>1. i \in 1..n /\ q[i] = a[i] /\ a[i] = 0 + i
      BY <1>2, <1>3, <1>6, <2>2 DEF Enumera
    <3> QED
      BY <3>1 DEF Envio
  <2> QED
    BY <2>1, <2>2
<1>7. \A i \in DOMAIN q : q[i] = Envio(n, n + 1 - Len(q) + i)
  <2>1. ASSUME NEW i \in DOMAIN q PROVE n + 1 - Len(q) + i = i
    BY <1>2, <1>3, <1>5
  <2> QED
    BY <1>6, <2>1
<1>8. Oidos(n, l) = 0
    BY <1>5 DEF Oidos
<1>9. DOMAIN <<>> = {}
    OBVIOUS
<1>10. Enlace(n, q, <<>>, <<>>, "modelo", FALSE, <<>>)
  <2>1. l <= n + 1 /\ Len(<<>>) <= Oidos(n, l)
    BY <1>5, <1>8, VaciaEnumera
  <2> QED
    BY <1>4, <1>7, <1>9, <2>1, VaciaEnumera DEF Enlace
<1>11. q # <<>>
    BY <1>2
<1> QED
    BY <1>1, <1>2, <1>3, <1>10, <1>11

LEMMA ConectarPreserva == ASSUME IInv, Conectar PROVE IInv'
<1>1. gw \in Handlers /\ GwBien(gw, ws.corte) /\ UNCHANGED cli
    BY DEF IInv, Conectar
<1>2. CASE gw' = [gw EXCEPT !.fase = "fallo"] /\ UNCHANGED ws
  <2>1. gw' \in Handlers /\ GwBien(gw', ws.corte) /\ EnlaceBien(gw', ws)
    BY <1>2, GwFase, GwSigue
  <2> QED
    BY <1>1, <1>2, <2>1, PasoGw
<1>3. CASE /\ gw' = [gw EXCEPT !.fase = "manda", !.falta = Append(gw.audio, Stop)]
           /\ ws' = [Ws0 EXCEPT !.fase = "modelo", !.cliente = TRUE]
  <2>1. PICK q : q = Append(gw.audio, Stop)
    OBVIOUS
  <2>2. gw.audio \in Seq(Nat) /\ Enumera(gw.audio, 0)
    BY <1>1 DEF Handlers, GwBien
  <2>3. q \in Seq(Nat) /\ q # <<>> /\ Enlace(Len(gw.audio), q, <<>>, <<>>, "modelo", FALSE, <<>>)
    BY <2>1, <2>2, EnlaceNuevo
  <2>4. PICK g : g = [gw EXCEPT !.fase = "manda", !.falta = q]
    OBVIOUS
  <2>5. g \in Handlers /\ g.fase = "manda" /\ g.audio = gw.audio /\ g.falta = q
    BY <1>1, <2>3, <2>4 DEF Handlers
  <2>6. PICK w : w = [Ws0 EXCEPT !.fase = "modelo", !.cliente = TRUE]
    OBVIOUS
  <2>7. /\ w.fase = "modelo" /\ w.canal = <<>> /\ w.buf = <<>> /\ w.corte = FALSE /\ w.sal = <<>>
        /\ w \in Conexiones
    <3>1. <<>> \in Seq(Mensajes) /\ <<>> \in Seq(Nat)
      OBVIOUS
    <3> QED
      BY <2>6, <3>1 DEF Ws0, Conexiones
  <2>8. GwBien(g, FALSE) /\ EnlaceBien(g, w)
    BY <2>2, <2>3, <2>5, <2>7 DEF GwBien, EnlaceBien
  <2>9. WsBien(w)
    BY <2>7, Cotas, VaciaEnumera DEF WsBien
  <2> QED
    BY <1>1, <1>3, <2>1, <2>4, <2>5, <2>6, <2>7, <2>8, <2>9 DEF IInv
<1> QED
    BY <1>2, <1>3 DEF Conectar

LEMMA MandarPreserva == ASSUME IInv, Mandar PROVE IInv'
<1>1. /\ gw \in Handlers /\ GwBien(gw, ws.corte) /\ ws \in Conexiones /\ WsBien(ws)
      /\ gw.fase = "manda" /\ UNCHANGED cli
    BY DEF IInv, Mandar
<1>2. CASE ws.fase = "cerrada"
  <2>1. gw' = [gw EXCEPT !.fase = "fallo"] /\ UNCHANGED ws
    BY <1>2 DEF Mandar
  <2>2. gw' \in Handlers /\ GwBien(gw', ws.corte) /\ EnlaceBien(gw', ws)
    BY <2>1, GwFase, GwSigue
  <2> QED
    BY <1>1, <2>1, <2>2, PasoGw
<1>3. CASE ws.fase # "cerrada"
  <2>1. /\ gw.falta \in Seq(Nat) /\ gw.audio \in Seq(Nat) /\ ws.canal \in Seq(Nat)
        /\ Len(gw.audio) \in Nat
    BY <1>1 DEF Handlers, Conexiones
  <2>2. /\ gw.falta # <<>>
        /\ Enlace(Len(gw.audio), gw.falta, ws.canal, ws.buf, ws.fase, ws.corte, ws.sal)
    BY <1>1 DEF IInv, EnlaceBien
  <2>3. PICK q, r : q = Tail(gw.falta) /\ r = Append(ws.canal, Head(gw.falta))
    OBVIOUS
  <2>4. Enlace(Len(gw.audio), q, r, ws.buf, ws.fase, ws.corte, ws.sal)
    BY <2>1, <2>2, <2>3, EnlaceManda
  <2>5. q \in Seq(Nat) /\ Head(gw.falta) \in Nat /\ Len(q) = Len(gw.falta) - 1 /\ Len(gw.falta) \in Nat
    BY <2>1, <2>2, <2>3, SecuenciaPartes
  <2>6. r \in Seq(Nat)
    BY <2>1, <2>3, <2>5, SecuenciaMas
  <2>7. PICK f : f = IF Len(gw.falta) = 1 THEN "recibe" ELSE "manda"
    OBVIOUS
  <2>8. f \in {"manda", "recibe"} /\ (f = "manda" => q # <<>>)
    <3>1. f = "manda" => Len(q) # 0
      BY <2>5, <2>7
    <3> QED
      BY <2>7, <3>1, VaciaEnumera
  <2>9. PICK g : g = [gw EXCEPT !.falta = q, !.fase = f]
    OBVIOUS
  <2>10. g \in Handlers /\ g.fase = f /\ g.audio = gw.audio /\ g.falta = q
    BY <1>1, <2>5, <2>8, <2>9 DEF Handlers
  <2>11. PICK w : w = [ws EXCEPT !.canal = r]
    OBVIOUS
  <2>12. /\ w \in Conexiones /\ w.fase = ws.fase /\ w.canal = r /\ w.buf = ws.buf
         /\ w.corte = ws.corte /\ w.sal = ws.sal
    BY <1>1, <2>6, <2>11 DEF Conexiones
  <2>13. gw' = g /\ ws' = w
    BY <1>1, <1>3, <2>3, <2>7, <2>9, <2>11 DEF Mandar
  <2>14. GwBien(g, w.corte) /\ EnlaceBien(g, w) /\ WsBien(w)
    BY <1>1, <2>4, <2>8, <2>10, <2>12 DEF GwBien, EnlaceBien, WsBien
  <2> QED
    BY <1>1, <2>10, <2>12, <2>13, <2>14 DEF IInv
<1> QED
    BY <1>2, <1>3

LEMMA RecibirPreserva == ASSUME IInv, Recibir PROVE IInv'
<1>1. /\ gw \in Handlers /\ GwBien(gw, ws.corte) /\ ws \in Conexiones /\ WsBien(ws)
      /\ gw.fase = "recibe" /\ UNCHANGED cli
    BY DEF IInv, Recibir
<1>2. PICK w : w = [ws EXCEPT !.cliente = FALSE]
    OBVIOUS
<1>3. /\ w \in Conexiones /\ w.fase = ws.fase /\ w.buf = ws.buf /\ w.corte = ws.corte
      /\ ws' = w
    BY <1>1, <1>2 DEF Conexiones, Recibir
<1>4. WsBien(w)
    BY <1>1, <1>3 DEF WsBien
<1>5. CASE gw' = [gw EXCEPT !.fase = "fallo"]
  <2>1. gw' \in Handlers /\ GwBien(gw', ws.corte) /\ EnlaceBien(gw', w)
    BY <1>5, GwFase, GwSigue
  <2> QED
    BY <1>1, <1>3, <1>4, <2>1 DEF IInv
<1>6. CASE /\ ws.sal # <<>> /\ Head(ws.sal).tipo # "error"
           /\ gw' = [gw EXCEPT !.fase = "hecho", !.texto = Head(ws.sal).texto]
  <2>1. PICK m : m = Head(ws.sal)
    OBVIOUS
  <2>2. ws.sal \in Seq(Mensajes)
    BY <1>1 DEF Conexiones
  <2>3. m \in Mensajes /\ m = ws.sal[1] /\ 1 \in DOMAIN ws.sal
    BY <1>6, <2>1, <2>2, SecuenciaPartes
  <2>4. m.tipo = "final" /\ m.texto \in Seq(Nat)
    BY <1>6, <2>1, <2>3 DEF Mensajes
  <2>5. Tramo(m.texto, Len(gw.audio), ws.corte)
    BY <1>1, <2>3, <2>4 DEF IInv, EnlaceBien, Enlace
  <2>6. gw' \in Handlers /\ GwBien(gw', ws.corte) /\ EnlaceBien(gw', w)
    BY <1>6, <2>1, <2>4, <2>5, GwResponde
  <2> QED
    BY <1>1, <1>3, <1>4, <2>6 DEF IInv
<1> QED
    BY <1>5, <1>6 DEF Recibir

LEMMA ResponderCliPreserva == ASSUME IInv, ResponderCli PROVE IInv'
<1>1. gw' = Gw0 /\ UNCHANGED ws /\ Gw0 \in Handlers /\ GwBien(Gw0, ws.corte) /\ EnlaceBien(Gw0, ws)
    BY Gw0Bien DEF ResponderCli
<1>2. cli' \in Clientes /\ CliBien(cli')
    BY TerminarBien DEF ResponderCli, IInv
<1> QED
    BY <1>1, <1>2 DEF IInv

-----------------------------------------------------------------------------
(* voice-service. *)

LEMMA MensajeTipo ==
    ASSUME NEW t \in {"final", "error"}, NEW x \in Seq(Nat)
    PROVE  /\ Mensaje(t, x) \in Mensajes /\ Mensaje(t, x).tipo = t /\ Mensaje(t, x).texto = x
BY DEF Mensaje, Mensajes

(* What a step of the service knows to begin with. *)
Antes(e) == gw.fase \in {"manda", "recibe"} =>
                Enlace(Len(gw.audio), gw.falta, e.canal, e.buf, e.fase, e.corte, e.sal)

LEMMA WsTipos ==
    ASSUME IInv
    PROVE  /\ ws \in Conexiones /\ WsBien(ws) /\ Antes(ws)
           /\ gw.falta \in Seq(Nat) /\ Len(gw.audio) \in Nat
           /\ ws.canal \in Seq(Nat) /\ ws.buf \in Seq(Nat) /\ ws.sal \in Seq(Mensajes)
           /\ Len(ws.buf) <= MaxBuf /\ ws.corte \in BOOLEAN
<1>1. ws \in Conexiones /\ gw \in Handlers
    BY DEF IInv
<1>2. gw.audio \in Seq(Nat) /\ gw.falta \in Seq(Nat)
    BY <1>1 DEF Handlers
<1> QED
    BY <1>1, <1>2 DEF IInv, WsBien, EnlaceBien, Antes, Conexiones

LEMMA WsPaso ==
    ASSUME IInv, NEW w \in Conexiones, WsBien(w), Antes(w), w.corte \in {ws.corte, TRUE},
           ws' = w, UNCHANGED <<cli, gw>>
    PROVE  IInv'
<1>1. EnlaceBien(gw, w)
    BY DEF IInv, EnlaceBien, Antes
<1> QED
    BY <1>1, PasoWs

(* The handler ends, having said msgs, which are errors if any.              *)
LEMMA CerradaPreserva ==
    ASSUME IInv, NEW msgs \in {<<>>, <<Mensaje("error", <<>>)>>},
           NEW e, e \in {ws, [ws EXCEPT !.canal = Tail(@)]}, e # ws => ws.canal # <<>> /\ Head(ws.canal) = Stop,
           ws' = Cerrada(e, msgs), UNCHANGED <<cli, gw>>
    PROVE  IInv'
<1>1. /\ ws \in Conexiones /\ WsBien(ws) /\ Antes(ws)
      /\ gw.falta \in Seq(Nat) /\ Len(gw.audio) \in Nat
      /\ ws.canal \in Seq(Nat) /\ ws.buf \in Seq(Nat) /\ ws.sal \in Seq(Mensajes)
    BY WsTipos
<1>2. PICK q : q = e.canal
    OBVIOUS
<1>3. /\ e \in Conexiones /\ e.buf = ws.buf /\ e.corte = ws.corte /\ e.sal = ws.sal
      /\ q \in {ws.canal, Tail(ws.canal)} /\ q \in Seq(Nat)
      /\ q # ws.canal => ws.canal # <<>> /\ Head(ws.canal) = Stop
  <2>1. CASE e = ws
    BY <1>1, <1>2, <2>1
  <2>2. CASE e # ws
    <3>1. PICK p : p = Tail(ws.canal)
      OBVIOUS
    <3>2. p \in Seq(Nat)
      BY <1>1, <2>2, <3>1, SecuenciaPartes
    <3>3. e = [ws EXCEPT !.canal = p]
      BY <1>1, <2>2, <3>1 DEF Conexiones
    <3>4. e \in Conexiones /\ e.buf = ws.buf /\ e.corte = ws.corte /\ e.sal = ws.sal /\ e.canal = p
      BY <1>1, <3>2, <3>3 DEF Conexiones
    <3> QED
      BY <1>2, <2>2, <3>1, <3>2, <3>4
  <2> QED
    BY <2>1, <2>2
<1>4. PICK s : s = ws.sal \o msgs
    OBVIOUS
<1>5. PICK m : m = Mensaje("error", <<>>)
    OBVIOUS
<1>6. m \in Mensajes /\ m.tipo = "error"
    BY <1>5, MensajeTipo, VaciaEnumera
<1>7. s = ws.sal \/ s = Append(ws.sal, m)
    BY <1>1, <1>4, <1>5, <1>6, SecuenciaUne
<1>8. s \in Seq(Mensajes)
  <2>1. Append(ws.sal, m) \in Seq(Mensajes)
    BY <1>1, <1>6, SecuenciaMas
  <2> QED
    BY <1>1, <1>7, <2>1
<1>9. PICK w : w = [e EXCEPT !.fase = "cerrada", !.buf = <<>>, !.sal = s]
    OBVIOUS
<1>10. /\ w \in Conexiones /\ w.fase = "cerrada" /\ w.buf = <<>> /\ w.sal = s
       /\ w.canal = q /\ w.corte = ws.corte
    BY <1>2, <1>3, <1>8, <1>9, VaciaEnumera DEF Conexiones
<1>11. ws' = w
    BY <1>3, <1>4, <1>9 DEF Cerrada, Conexiones
<1>12. WsBien(w)
    BY <1>10, Cotas, VaciaEnumera DEF WsBien
<1>13. ASSUME gw.fase \in {"manda", "recibe"}
       PROVE  Enlace(Len(gw.audio), gw.falta, q, <<>>, "cerrada", ws.corte, s)
  <2>1. Enlace(Len(gw.audio), gw.falta, ws.canal, ws.buf, ws.fase, ws.corte, ws.sal)
    BY <1>1, <1>13 DEF Antes
  <2>2. Enlace(Len(gw.audio), gw.falta, ws.canal, ws.buf, "cerrada", ws.corte, ws.sal)
    BY <2>1, EnlaceFase
  <2>3. Enlace(Len(gw.audio), gw.falta, q, ws.buf, "cerrada", ws.corte, ws.sal)
    <3>1. CASE q = ws.canal
      BY <2>2, <3>1
    <3>2. CASE q # ws.canal
      <4>1. q = Tail(ws.canal) /\ ws.canal # <<>> /\ Head(ws.canal) = Stop
        BY <1>3, <3>2
      <4> QED
        BY <1>1, <2>2, <4>1, EnlaceStop
    <3> QED
      BY <3>1, <3>2
  <2>4. Enlace(Len(gw.audio), gw.falta, q, <<>>, "cerrada", ws.corte, ws.sal)
    BY <1>1, <1>3, <2>3, EnlaceVacia
  <2>5. Enlace(Len(gw.audio), gw.falta, q, <<>>, "cerrada", ws.corte, Append(ws.sal, m))
    BY <1>1, <1>6, <2>4, EnlaceDice
  <2> QED
    BY <1>7, <2>4, <2>5
<1>14. Antes(w)
    BY <1>10, <1>13 DEF Antes
<1> QED
    BY <1>10, <1>11, <1>12, <1>14, WsPaso

LEMMA ConErrorPreserva ==
    ASSUME IInv, ws' = ConError(ws), UNCHANGED <<cli, gw>>
    PROVE  IInv'
BY CerradaPreserva DEF ConError

LEMMA EsperarModeloPreserva == ASSUME IInv, EsperarModelo PROVE IInv'
<1>1. UNCHANGED <<cli, gw>>
    BY DEF EsperarModelo, Ws
<1>2. CASE ws' = ConError(ws)
    BY <1>1, <1>2, ConErrorPreserva
<1>3. CASE ws' = [ws EXCEPT !.fase = "escucha"]
  <2>1. ws \in Conexiones /\ WsBien(ws) /\ Antes(ws)
    BY WsTipos
  <2>2. PICK w : w = [ws EXCEPT !.fase = "escucha"]
    OBVIOUS
  <2>3. /\ w \in Conexiones /\ w.fase = "escucha" /\ w.canal = ws.canal /\ w.buf = ws.buf
        /\ w.corte = ws.corte /\ w.sal = ws.sal
    BY <2>1, <2>2 DEF Conexiones
  <2>4. Antes(w) /\ WsBien(w)
    BY <2>1, <2>3, EnlaceFase DEF Antes, WsBien
  <2> QED
    BY <1>1, <1>3, <2>2, <2>3, <2>4, WsPaso
<1> QED
    BY <1>2, <1>3 DEF EsperarModelo, Ws

LEMMA EscucharPreserva == ASSUME IInv, Escuchar PROVE IInv'
<1>1. /\ ws \in Conexiones /\ WsBien(ws) /\ Antes(ws)
      /\ gw.falta \in Seq(Nat) /\ Len(gw.audio) \in Nat
      /\ ws.canal \in Seq(Nat) /\ ws.buf \in Seq(Nat) /\ ws.sal \in Seq(Mensajes)
      /\ Len(ws.buf) <= MaxBuf
      /\ UNCHANGED <<cli, gw>> /\ ws.fase = "escucha" /\ ws.canal # <<>>
    BY WsTipos DEF Escuchar, Ws
<1>2. PICK b, q : b = Head(ws.canal) /\ q = Tail(ws.canal)
    OBVIOUS
<1>3. b \in Nat /\ q \in Seq(Nat)
    BY <1>1, <1>2, SecuenciaPartes
<1>4. ASSUME b # Stop, NEW voz \in BOOLEAN,
             ws' = [ws EXCEPT !.canal = q, !.buf = Desbordar(ws.buf, b), !.hablando = ws.hablando \/ voz]
      PROVE  IInv'
  <2>1. PICK d : d = Desbordar(ws.buf, b)
    OBVIOUS
  <2>2. d \in Seq(Nat) /\ Len(d) <= MaxBuf
    <3>1. CASE Len(ws.buf) = MaxBuf
      <4>0. ws.buf # <<>>
        BY <3>1, Cotas, VaciaEnumera
      <4>1. PICK t : t = Tail(ws.buf)
        OBVIOUS
      <4>2. t \in Seq(Nat) /\ Len(t) = Len(ws.buf) - 1 /\ Len(ws.buf) \in Nat
        BY <1>1, <4>0, <4>1, SecuenciaPartes
      <4>3. d = Append(t, b)
        BY <2>1, <3>1, <4>1 DEF Desbordar
      <4>4. d \in Seq(Nat) /\ Len(d) = Len(t) + 1
        BY <1>3, <4>2, <4>3, SecuenciaMas
      <4>5. Len(t) + 1 = MaxBuf
        BY <3>1, <4>2
      <4> QED
        BY <4>4, <4>5, Cotas
    <3>2. CASE Len(ws.buf) # MaxBuf
      <4>1. d = Append(ws.buf, b)
        BY <2>1, <3>2 DEF Desbordar
      <4>2. d \in Seq(Nat) /\ Len(d) = Len(ws.buf) + 1 /\ Len(ws.buf) \in Nat
        BY <1>1, <1>3, <4>1, SecuenciaMas
      <4>3. Len(ws.buf) + 1 <= MaxBuf
        BY <1>1, <3>2, <4>2, Cotas
      <4> QED
        BY <4>2, <4>3
    <3> QED
      BY <3>1, <3>2
  <2>3. PICK w : w = [ws EXCEPT !.canal = q, !.buf = d, !.hablando = ws.hablando \/ voz]
    OBVIOUS
  <2>a. (ws.hablando \/ voz) \in BOOLEAN
    OBVIOUS
  <2>4. /\ w \in Conexiones /\ w.fase = ws.fase /\ w.canal = q /\ w.buf = d
        /\ w.corte = ws.corte /\ w.sal = ws.sal
    BY <1>1, <1>3, <2>2, <2>3, <2>a DEF Conexiones
  <2>5. WsBien(w)
    BY <1>1, <2>2, <2>4 DEF WsBien
  <2>6. ASSUME gw.fase \in {"manda", "recibe"}
        PROVE  Enlace(Len(gw.audio), gw.falta, q, d, ws.fase, ws.corte, ws.sal)
    <3>1. Enlace(Len(gw.audio), gw.falta, ws.canal, ws.buf, ws.fase, ws.corte, ws.sal)
      BY <1>1, <2>6 DEF Antes
    <3> QED
      BY <1>1, <1>2, <1>4, <2>1, <3>1, EnlaceOye
  <2>7. Antes(w)
    BY <2>4, <2>6 DEF Antes
  <2> QED
    BY <1>1, <1>4, <2>1, <2>3, <2>4, <2>5, <2>7, WsPaso
<1>5. ASSUME b = Stop, NEW f \in {"escucha", "transcribe"}, NEW s \in {ws.sal, Append(ws.sal, Mensaje("final", <<>>))},
             NEW h \in BOOLEAN,
             ws' = [ws EXCEPT !.canal = q, !.fase = f, !.sal = s, !.hablando = h]
      PROVE  IInv'
  <2>1. PICK m : m = Mensaje("final", <<>>)
    OBVIOUS
  <2>2. m \in Mensajes /\ m.texto = <<>>
    BY <2>1, MensajeTipo, VaciaEnumera
  <2>a. Append(ws.sal, m) \in Seq(Mensajes)
    BY <1>1, <2>2, SecuenciaMas
  <2>3. s \in Seq(Mensajes)
    BY <1>1, <1>5, <2>1, <2>a
  <2>4. PICK w : w = [ws EXCEPT !.canal = q, !.fase = f, !.sal = s, !.hablando = h]
    OBVIOUS
  <2>5. /\ w \in Conexiones /\ w.fase = f /\ w.canal = q /\ w.buf = ws.buf
        /\ w.corte = ws.corte /\ w.sal = s
    BY <1>1, <1>3, <2>3, <2>4 DEF Conexiones
  <2>6. WsBien(w)
    BY <1>1, <2>5 DEF WsBien
  <2>7. ASSUME gw.fase \in {"manda", "recibe"}
        PROVE  Enlace(Len(gw.audio), gw.falta, q, ws.buf, f, ws.corte, s)
    <3>1. Enlace(Len(gw.audio), gw.falta, ws.canal, ws.buf, ws.fase, ws.corte, ws.sal)
      BY <1>1, <2>7 DEF Antes
    <3>2. Enlace(Len(gw.audio), gw.falta, q, ws.buf, f, ws.corte, ws.sal)
      BY <1>1, <1>2, <1>5, <3>1, EnlaceStop
    <3>3. Tramo(m.texto, Len(gw.audio), ws.corte)
      BY <2>2 DEF Tramo
    <3> QED
      BY <1>1, <1>5, <2>1, <2>2, <3>2, <3>3, EnlaceDice
  <2>8. Antes(w)
    BY <2>5, <2>7 DEF Antes
  <2> QED
    BY <1>1, <1>5, <2>4, <2>5, <2>6, <2>8, WsPaso
<1>6. CASE b # Stop
  <2>1. PICK voz \in BOOLEAN :
           ws' = [[ws EXCEPT !.canal = Tail(@)] EXCEPT !.buf = Desbordar(@, b), !.hablando = @ \/ voz]
    BY <1>2, <1>6 DEF Escuchar, Ws
  <2>2. ws' = [ws EXCEPT !.canal = q, !.buf = Desbordar(ws.buf, b), !.hablando = ws.hablando \/ voz]
    BY <1>1, <1>2, <2>1 DEF Conexiones
  <2> QED
    BY <1>4, <1>6, <2>2
<1>7. CASE b = Stop /\ ws.buf # <<>>
  <2>1. ws' = [[ws EXCEPT !.canal = Tail(@)] EXCEPT !.fase = "transcribe"]
    BY <1>2, <1>7 DEF Escuchar, Ws
  <2>2. ws.hablando \in BOOLEAN /\ ws' = [ws EXCEPT !.canal = q, !.fase = "transcribe", !.sal = ws.sal, !.hablando = ws.hablando]
    BY <1>1, <1>2, <2>1 DEF Conexiones
  <2> QED
    BY <1>5, <1>7, <2>2
<1>8. CASE b = Stop /\ ws.buf = <<>> /\ ws.cliente
  <2>1. ws' = [[ws EXCEPT !.canal = Tail(@)] EXCEPT !.sal = Append(@, Mensaje("final", <<>>)), !.hablando = FALSE]
    BY <1>2, <1>8 DEF Escuchar, Ws, StopVacio
  <2>2. PICK s : s = Append(ws.sal, Mensaje("final", <<>>))
    OBVIOUS
  <2>3. ws' = [ws EXCEPT !.canal = q, !.fase = "escucha", !.sal = s, !.hablando = FALSE]
    BY <1>1, <1>2, <2>1, <2>2 DEF Conexiones
  <2> QED
    BY <1>5, <1>8, <2>2, <2>3
<1>9. CASE b = Stop /\ ws.buf = <<>> /\ ~ws.cliente
  <2>1. PICK e : e = [ws EXCEPT !.canal = Tail(@)]
    OBVIOUS
  <2>2. ws' = ConError(e)
    BY <1>2, <1>9, <2>1 DEF Escuchar, Ws
  <2> QED
    BY <1>1, <1>2, <1>9, <2>1, <2>2, CerradaPreserva DEF ConError
<1> QED
    BY <1>6, <1>7, <1>8, <1>9

LEMMA CallarPreserva == ASSUME IInv, Callar PROVE IInv'
<1>1. ws \in Conexiones /\ WsBien(ws) /\ Antes(ws) /\ UNCHANGED <<cli, gw>> /\ ws.fase = "escucha"
    BY WsTipos DEF Callar, Ws
<1>2. CASE ws' = ws
    BY <1>1, <1>2 DEF IInv
<1>3. CASE ws' = [ws EXCEPT !.fase = "transcribe", !.corte = TRUE]
  <2>1. PICK w : w = [ws EXCEPT !.fase = "transcribe", !.corte = TRUE]
    OBVIOUS
  <2>2. /\ w \in Conexiones /\ w.fase = "transcribe" /\ w.canal = ws.canal /\ w.buf = ws.buf
        /\ w.corte = TRUE /\ w.sal = ws.sal
    BY <1>1, <2>1 DEF Conexiones
  <2>3. Antes(w) /\ WsBien(w)
    BY <1>1, <2>2, EnlaceCorta DEF Antes, WsBien
  <2> QED
    BY <1>1, <1>3, <2>1, <2>2, <2>3, WsPaso
<1> QED
    BY <1>2, <1>3 DEF Callar, Ws

LEMMA TranscribirPreserva == ASSUME IInv, Transcribir PROVE IInv'
<1>1. /\ ws \in Conexiones /\ WsBien(ws) /\ Antes(ws)
      /\ gw.falta \in Seq(Nat) /\ Len(gw.audio) \in Nat
      /\ ws.canal \in Seq(Nat) /\ ws.buf \in Seq(Nat) /\ ws.sal \in Seq(Mensajes)
      /\ UNCHANGED <<cli, gw>> /\ ws.fase = "transcribe"
    BY WsTipos DEF Transcribir, Ws
<1>2. CASE ws' = ConError(ws)
    BY <1>1, <1>2, ConErrorPreserva
<1>3. ASSUME NEW t \in {<<>>, ws.buf},
             ws' = [ws EXCEPT !.fase = "escucha", !.buf = <<>>, !.hablando = FALSE,
                              !.sal = Append(ws.sal, Mensaje("final", t))]
      PROVE  IInv'
  <2>1. PICK m, s : m = Mensaje("final", t) /\ s = Append(ws.sal, m)
    OBVIOUS
  <2>2. t \in Seq(Nat)
    BY <1>1, <1>3, VaciaEnumera
  <2>3. m \in Mensajes /\ m.texto = t /\ s \in Seq(Mensajes)
    <3>1. m \in Mensajes /\ m.texto = t
      BY <2>1, <2>2, MensajeTipo
    <3> QED
      BY <1>1, <2>1, <3>1
  <2>4. PICK w : w = [ws EXCEPT !.fase = "escucha", !.buf = <<>>, !.hablando = FALSE, !.sal = s]
    OBVIOUS
  <2>5. /\ w \in Conexiones /\ w.fase = "escucha" /\ w.canal = ws.canal /\ w.buf = <<>>
        /\ w.corte = ws.corte /\ w.sal = s
    BY <1>1, <2>3, <2>4, VaciaEnumera DEF Conexiones
  <2>6. WsBien(w)
    BY <2>5, Cotas, VaciaEnumera DEF WsBien
  <2>7. ASSUME gw.fase \in {"manda", "recibe"}
        PROVE  Enlace(Len(gw.audio), gw.falta, ws.canal, <<>>, "escucha", ws.corte, s)
    <3>1. Enlace(Len(gw.audio), gw.falta, ws.canal, ws.buf, "transcribe", ws.corte, ws.sal)
      BY <1>1, <2>7 DEF Antes
    <3>2. Tramo(ws.buf, Len(gw.audio), ws.corte) /\ Tramo(<<>>, Len(gw.audio), ws.corte)
      <4>1. Tramo(ws.buf, Len(gw.audio), ws.corte)
        BY <1>1, <3>1, EnlaceTexto
      <4>2. Tramo(<<>>, Len(gw.audio), ws.corte)
        BY DEF Tramo
      <4> QED
        BY <4>1, <4>2
    <3>3. Enlace(Len(gw.audio), gw.falta, ws.canal, ws.buf, "escucha", ws.corte, ws.sal)
      BY <3>1, EnlaceFase
    <3>4. Enlace(Len(gw.audio), gw.falta, ws.canal, <<>>, "escucha", ws.corte, ws.sal)
      BY <1>1, <3>3, EnlaceVacia
    <3>5. Tramo(m.texto, Len(gw.audio), ws.corte)
      BY <1>3, <2>3, <3>2
    <3> QED
      BY <1>1, <2>1, <2>3, <3>4, <3>5, EnlaceDice
  <2>8. Antes(w)
    BY <2>5, <2>7 DEF Antes
  <2> QED
    BY <1>1, <1>3, <2>1, <2>4, <2>5, <2>6, <2>8, WsPaso
<1>4. CASE \E t \in {<<>>, ws.buf} :
              ws' = [ws EXCEPT !.fase = "escucha", !.buf = <<>>, !.hablando = FALSE,
                               !.sal = Append(@, Mensaje("final", t))]
    BY <1>1, <1>3, <1>4 DEF Conexiones
<1> QED
    BY <1>2, <1>4 DEF Transcribir, Ws

LEMMA DesconectarPreserva == ASSUME IInv, Desconectar PROVE IInv'
<1>1. ws' = Cerrada(ws, <<>>) /\ UNCHANGED <<cli, gw>>
    BY DEF Desconectar, Ws
<1> QED
    BY <1>1, CerradaPreserva

-----------------------------------------------------------------------------
(* The theorems. *)

LEMMA InitIInv == Init => IInv
<1> SUFFICES ASSUME Init PROVE IInv
    OBVIOUS
<1>1. ws = Ws0 /\ gw = Gw0 /\ cli = Cli0
    BY DEF Init
<1>2. /\ Ws0 \in Conexiones /\ Ws0.buf = <<>>
  <2>1. <<>> \in Seq(Mensajes) /\ <<>> \in Seq(Nat)
    OBVIOUS
  <2> QED
    BY <2>1 DEF Ws0, Conexiones
<1>3. WsBien(Ws0)
    BY <1>2, Cotas, VaciaEnumera DEF WsBien
<1> QED
    BY <1>1, <1>2, <1>3, CliQuieto, Gw0Bien DEF IInv

LEMMA NextIInv ==
    ASSUME IInv, [Next]_vars
    PROVE  IInv'
<1>1. CASE UNCHANGED vars
    BY <1>1 DEF vars, IInv
<1>2. CASE Grabadora
    BY <1>2, RecolectarPreserva, EnviarPreserva, CerrarPreserva DEF Grabadora
<1>3. CASE Pasarela
    BY <1>3, NubePreserva, FfmpegPreserva, ConectarPreserva, MandarPreserva, RecibirPreserva,
       ResponderCliPreserva DEF Pasarela
<1>4. CASE Servicio
    BY <1>4, EsperarModeloPreserva, EscucharPreserva, CallarPreserva, TranscribirPreserva,
       DesconectarPreserva DEF Servicio
<1> QED
    BY <1>1, <1>2, <1>3, <1>4, GrabarPreserva, MicrofonoPreserva, PulsarEnterPreserva,
       AgotarEsperaPreserva, SubirAudioPreserva DEF Next

(* In every behaviour each place holds the blocks that the number of         *)
(* messages in flight says (src/voice_client.py, transcribir of the          *)
(* api-gateway, ws_transcribe of voice-service).                             *)
THEOREM VozInvariante == Spec => []IInv
BY InitIInv, NextIInv, PTL DEF Spec

(* Types, and the bounds of the buffers (_append of voice-service,           *)
(* RECORD_SECS_MAX of the recorder).                                         *)
THEOREM BuferAcotado == Spec => []TypeOK
<1>1. ASSUME IInv PROVE TypeOK
    BY <1>1 DEF IInv, Clientes, Handlers, Conexiones, CliBien, WsBien, TypeOK
<1> QED
    BY <1>1, VozInvariante, PTL

(* The text is one stretch of the recording, and reaches its end unless the  *)
(* service took a slow sender for silence (ws_transcribe).                   *)
THEOREM TextoSiempreFiel == Spec => []TextoFiel
<1>1. ASSUME IInv, gw.fase = "hecho", gw.texto # <<>>
      PROVE  /\ \E i, j \in DOMAIN gw.audio : gw.texto = SubSeq(gw.audio, i, j)
             /\ ws.corte \/ Last(gw.texto) = Last(gw.audio)
  <2>1. PICK a \in Seq(Nat), t \in Seq(Nat) : a = gw.audio /\ t = gw.texto
    BY <1>1 DEF IInv, Handlers
  <2>2. Enumera(a, 0) /\ t # <<>> /\ Tramo(t, Len(a), ws.corte)
    BY <1>1, <2>1 DEF IInv, GwBien
  <2>4. PICK n \in Nat, m \in Nat \ {0} : n = Len(a) /\ m = Len(t)
    BY <2>2
  <2>a. DOMAIN a = 1..n /\ DOMAIN t = 1..m
    BY <2>4
  <2>3. PICK d \in 0..n : Enumera(t, d) /\ d + m <= n /\ (ws.corte \/ d + m = n)
    BY <2>2, <2>4 DEF Tramo
  <2>b. d + 1 \in 1..n /\ d + m \in 1..n
    BY <2>3
  <2>5. PICK i \in 1..n : i = d + 1
    BY <2>b
  <2>c. PICK j \in 1..n : j = d + m
    BY <2>b
  <2>6. j - i + 1 = m
    BY <2>5, <2>c
  <2>7. PICK s : s = SubSeq(a, i, j)
    OBVIOUS
  <2>8. /\ s \in Seq(Nat) /\ Len(s) = m /\ DOMAIN s = 1..m
        /\ \A k \in 1..m : s[k] = a[i + k - 1]
    <3>1. \A k \in i..j : a[k] \in Nat
      BY <2>a, <2>5, <2>c
    <3>2. i \in Int /\ j \in Int /\ i <= j
      BY <2>4, <2>5, <2>6, <2>c
    <3>3. /\ s \in Seq(Nat) /\ Len(s) = j - i + 1
          /\ \A k \in 1..(j - i + 1) : s[k] = a[i + k - 1]
      BY <2>7, <3>1, <3>2, SubSeqProperties
    <3> QED
      BY <2>6, <3>3
  <2>9. \A k \in 1..m : s[k] = t[k]
    <3>0. TAKE k \in 1..m
    <3>1. i + k - 1 = d + k /\ d + k \in 1..n
      BY <2>3, <2>5
    <3>2. PICK e \in 1..n : e = d + k
      BY <3>1
    <3>3. s[k] = a[e]
      BY <2>8, <3>1, <3>2
    <3>4. a[e] = 0 + e
      BY <2>2, <2>a DEF Enumera
    <3>5. t[k] = d + k
      BY <2>3, <2>a DEF Enumera
    <3> QED
      BY <3>2, <3>3, <3>4, <3>5
  <2>10. s = t
    BY <2>4, <2>8, <2>9, SeqEqual
  <2>11. ws.corte \/ Last(t) = Last(a)
    <3>1. CASE d + m = n
      <4>1. m \in DOMAIN t /\ n \in DOMAIN a
        BY <2>3, <2>a, <2>b
      <4>2. t[m] = d + m /\ a[n] = 0 + n
        BY <2>2, <2>3, <4>1 DEF Enumera
      <4> QED
        BY <2>4, <3>1, <4>2 DEF Last
    <3> QED
      BY <2>3, <3>1
  <2> QED
    BY <2>1, <2>a, <2>7, <2>10, <2>11
<1>2. ASSUME IInv PROVE TextoFiel
    BY <1>1, <1>2 DEF TextoFiel
<1> QED
    BY <1>2, VozInvariante, PTL

(* No recording outlives its command, nor the buffer its connection (the     *)
(* finally clauses of handle_voice and of ws_transcribe).                    *)
THEOREM NuncaAudioResidual == Spec => []SinAudioResidual
<1>1. ASSUME IInv PROVE SinAudioResidual
    BY <1>1 DEF IInv, CliBien, WsBien, SinAudioResidual
<1> QED
    BY <1>1, VozInvariante, PTL
=============================================================================
