-------------------------------- MODULE Voz --------------------------------
(***************************************************************************)
(* A spoken command, from the microphone to its text: the recorder of the   *)
(* CLI (voice_client.py, handle_voice), /api/audio/transcribir of the       *)
(* api-gateway with its fallback from ElevenLabs to Whisper, and the        *)
(* WebSocket of voice-service that buffers, cuts and transcribes.           *)
(* Audio is a sequence of numbered blocks, and a text the blocks it was     *)
(* made of.  One transcription is followed at a time: two of them share     *)
(* nothing but the model.                                                   *)
(***************************************************************************)
EXTENDS Integers, Sequences, SequencesExt

CONSTANTS
    Bloques,     (* blocks the microphone gives while it is open             *)
    MaxVacios,   (* RECORD_SECS_MAX: waits of 0.2 s without a block          *)
    MaxBuf,      (* VOICE_MAX_BUFFER                                         *)
    MinVoz,      (* VOICE_MIN_UTTERANCE                                      *)
    MaxFallas    (* bound on failures of devices, services and connections   *)

ASSUME VozAssumption == /\ {Bloques, MaxVacios, MaxBuf, MinVoz} \subseteq Nat \ {0}
                        /\ MaxFallas \in Nat

VARIABLES
    cli,      (* record_and_transcribe and the thread that waits for Enter   *)
    gw,       (* the handler of the gateway                                  *)
    ws,       (* the connection and its handler in voice-service             *)
    fallas

vars == <<cli, gw, ws, fallas>>

Cli0 == [fase |-> "listo", enter |-> FALSE, mic |-> 0, cola |-> <<>>, trozos |-> <<>>,
         vacios |-> 0, temp |-> FALSE]
Gw0  == [fase |-> "libre", audio |-> <<>>, falta |-> <<>>, texto |-> <<>>, respaldo |-> FALSE]
Ws0  == [fase |-> "cerrada", cliente |-> FALSE, canal |-> <<>>, buf |-> <<>>,
         hablando |-> FALSE, corte |-> FALSE, sal |-> <<>>]

Stop == 0        (* {"type": "stop"}, after the blocks                       *)

Init == cli = Cli0 /\ gw = Gw0 /\ ws = Ws0 /\ fallas = 0

Falla == fallas < MaxFallas /\ fallas' = fallas + 1

-----------------------------------------------------------------------------
(* The CLI                                                                   *)

Libre == cli.fase = "listo" /\ gw.fase = "libre" /\ ws.fase = "cerrada"

(* handle_voice: the microphone opens, or else the command ends.             *)
Grabar ==
    /\ Libre
    /\ \/ cli' = [Cli0 EXCEPT !.fase = "graba"] /\ UNCHANGED fallas
       \/ Falla /\ cli' = [Cli0 EXCEPT !.fase = "cierra"]
    /\ UNCHANGED <<gw, ws>>

(* The callback of sounddevice, in its own thread.                           *)
Microfono ==
    /\ cli.fase = "graba" /\ cli.mic < Bloques
    /\ cli' = [cli EXCEPT !.mic = @ + 1, !.cola = Append(@, cli.mic + 1)]
    /\ UNCHANGED <<gw, ws, fallas>>

PulsarEnter ==
    /\ cli.fase # "listo" /\ ~cli.enter
    /\ cli' = [cli EXCEPT !.enter = TRUE]
    /\ UNCHANGED <<gw, ws, fallas>>

(* One turn of collector: a block or a wait in vain, which is the only thing *)
(* elapsed counts; then the condition of the loop.  What is left in the      *)
(* queue is dropped, and without any block nothing is sent.                  *)
Recolectar ==
    /\ cli.fase = "graba"
    /\ LET r == IF cli.cola # <<>>
                THEN [cli EXCEPT !.cola = Tail(@), !.trozos = Append(@, Head(cli.cola))]
                ELSE [cli EXCEPT !.vacios = @ + 1]
           sigue == ~r.enter /\ r.vacios < MaxVacios
       IN  cli' = IF sigue THEN r
                  ELSE IF r.trozos = <<>> THEN [r EXCEPT !.fase = "cierra", !.cola = <<>>]
                  ELSE [r EXCEPT !.fase = "envia", !.cola = <<>>, !.temp = TRUE]
    /\ UNCHANGED <<gw, ws, fallas>>

(* transcribe_audio, with the WAV file on disk.                              *)
Enviar ==
    /\ cli.fase = "envia"
    /\ cli' = [cli EXCEPT !.fase = "espera"]
    /\ \E pick \in {"nube", "ffmpeg"} :
          gw' = [Gw0 EXCEPT !.fase = pick, !.audio = cli.trozos]
    /\ UNCHANGED <<ws, fallas>>

(* The file is unlinked in a finally.  Variant: after a good answer.         *)
TempTrasExito(ok, temp) == temp /\ ~ok
TempTras(ok, temp)      == FALSE

Terminar(ok) == cli' = [cli EXCEPT !.fase = "cierra", !.temp = TempTras(ok, @)]

(* The timeout of 60 s of the CLI; the handler of the gateway goes on.       *)
AgotarEspera ==
    /\ cli.fase = "espera"
    /\ Falla /\ Terminar(FALSE)
    /\ UNCHANGED <<gw, ws>>

(* handle_voice joins the thread that reads Enter.                           *)
Cerrar ==
    /\ cli.fase = "cierra" /\ cli.enter
    /\ cli' = Cli0
    /\ UNCHANGED <<gw, ws, fallas>>

-----------------------------------------------------------------------------
(* The gateway                                                               *)

(* The page of the PWA uploads audio of its own, perhaps without samples.    *)
SubirAudio ==
    /\ Libre
    /\ \E n \in {0, Bloques}, pick \in {"nube", "ffmpeg"} :
          gw' = [Gw0 EXCEPT !.fase = pick, !.audio = [i \in 1..n |-> i]]
    /\ UNCHANGED <<cli, ws, fallas>>

Gw(r) == gw' = r /\ UNCHANGED <<cli, ws>>

Nube ==
    /\ gw.fase = "nube"
    /\ \/ Gw([gw EXCEPT !.fase = "hecho", !.texto = gw.audio]) /\ UNCHANGED fallas
       \/ Falla /\ Gw([gw EXCEPT !.fase = "ffmpeg", !.respaldo = TRUE])

Ffmpeg ==
    /\ gw.fase = "ffmpeg"
    /\ \/ Gw([gw EXCEPT !.fase = "conecta"]) /\ UNCHANGED fallas
       \/ Falla /\ Gw([gw EXCEPT !.fase = "fallo"])

(* _whisper_ws_transcribe                                                    *)
Conectar ==
    /\ gw.fase = "conecta"
    /\ \/ /\ gw' = [gw EXCEPT !.fase = "manda", !.falta = Append(gw.audio, Stop)]
          /\ ws' = [Ws0 EXCEPT !.fase = "modelo", !.cliente = TRUE]
          /\ UNCHANGED fallas
       \/ Falla /\ gw' = [gw EXCEPT !.fase = "fallo"] /\ UNCHANGED ws
    /\ UNCHANGED cli

Mandar ==
    /\ gw.fase = "manda"
    /\ IF ws.fase = "cerrada"
       THEN gw' = [gw EXCEPT !.fase = "fallo"] /\ UNCHANGED ws
       ELSE /\ gw' = [gw EXCEPT !.falta = Tail(@),
                                !.fase = IF Len(gw.falta) = 1 THEN "recibe" ELSE @]
            /\ ws' = [ws EXCEPT !.canal = Append(@, Head(gw.falta))]
    /\ UNCHANGED <<cli, fallas>>

(* The first final message is the text; an error, or the end of the          *)
(* connection before one, is a 502.  Either way the gateway hangs up.        *)
Recibir ==
    /\ gw.fase = "recibe"
    /\ \/ /\ ws.sal # <<>>
          /\ gw' = IF Head(ws.sal).tipo = "error" THEN [gw EXCEPT !.fase = "fallo"]
                   ELSE [gw EXCEPT !.fase = "hecho", !.texto = Head(ws.sal).texto]
       \/ /\ ws.sal = <<>> /\ ws.fase = "cerrada"
          /\ gw' = [gw EXCEPT !.fase = "fallo"]
    /\ ws' = [ws EXCEPT !.cliente = FALSE]
    /\ UNCHANGED <<cli, fallas>>

ResponderCli ==
    /\ gw.fase \in {"hecho", "fallo"}
    /\ gw' = Gw0
    /\ IF cli.fase = "espera" THEN Terminar(gw.fase = "hecho") ELSE UNCHANGED cli
    /\ UNCHANGED <<ws, fallas>>

-----------------------------------------------------------------------------
(* voice-service: ws_transcribe                                              *)

Ws(r) == ws' = r /\ UNCHANGED <<cli, gw>>
Mensaje(tipo, texto) == [tipo |-> tipo, texto |-> texto]

(* The end of the handler: an error message when it was one, and the buffer  *)
(* cleared in the finally.                                                   *)
Cerrada(r, msgs) == [r EXCEPT !.fase = "cerrada", !.buf = <<>>, !.sal = @ \o msgs]
ConError(r) == Cerrada(r, <<Mensaje("error", <<>>)>>)

EsperarModelo ==
    /\ ws.fase = "modelo"
    /\ \/ Ws([ws EXCEPT !.fase = "escucha"]) /\ UNCHANGED fallas
       \/ Falla /\ Ws(ConError(ws))

(* The buffer keeps the newest audio.  Variants: it is cut before the chunk  *)
(* is added; it keeps the oldest.                                            *)
DesbordarAntes(buf, b)   == Append(IF Len(buf) > MaxBuf THEN Tail(buf) ELSE buf, b)
DesbordarNuevos(buf, b)  == IF Len(buf) = MaxBuf THEN buf ELSE Append(buf, b)
Desbordar(buf, b)        == IF Len(buf) = MaxBuf THEN Append(Tail(buf), b) ELSE Append(buf, b)

(* A stop with nothing in the buffer is answered too.  Variant: it is not.   *)
StopVacioMudo(r) == r
StopVacio(r)     == [r EXCEPT !.sal = Append(@, Mensaje("final", <<>>)), !.hablando = FALSE]

Escuchar ==
    /\ ws.fase = "escucha" /\ ws.canal # <<>>
    /\ LET b == Head(ws.canal)
           r == [ws EXCEPT !.canal = Tail(@)]
       IN  \/ /\ b # Stop
              /\ \E voz \in BOOLEAN :        (* rms >= SILENCE_RMS *)
                    Ws([r EXCEPT !.buf = Desbordar(@, b), !.hablando = @ \/ voz])
           \/ /\ b = Stop /\ ws.buf # <<>>
              /\ Ws([r EXCEPT !.fase = "transcribe"])
           \/ /\ b = Stop /\ ws.buf = <<>>
              /\ Ws(IF ws.cliente THEN StopVacio(r) ELSE ConError(r))
    /\ UNCHANGED fallas

(* A wait of 0.25 s in vain: after SILENCE_SECS without voice the utterance  *)
(* is cut, though the sender may have been slow and not silent.              *)
Callar ==
    /\ ws.fase = "escucha" /\ ws.canal = <<>>
    /\ IF ws.hablando /\ ws.buf # <<>>
       THEN Ws([ws EXCEPT !.fase = "transcribe", !.corte = TRUE])
       ELSE Ws(ws)
    /\ UNCHANGED fallas

(* Whisper in a thread, while messages wait.  The buffer is cleared before   *)
(* the answer is sent, to a gateway that may have hung up.                   *)
Transcribir ==
    /\ ws.fase = "transcribe"
    /\ \/ /\ LET texto == IF Len(ws.buf) < MinVoz THEN <<>> ELSE ws.buf IN
             Ws(IF ~ws.cliente THEN ConError(ws)
                ELSE [ws EXCEPT !.fase = "escucha", !.buf = <<>>, !.hablando = FALSE,
                                !.sal = Append(@, Mensaje("final", texto))])
          /\ UNCHANGED fallas
       \/ Falla /\ Ws(ConError(ws))

Desconectar ==
    /\ ws.fase = "escucha" /\ ws.canal = <<>> /\ ~ws.cliente
    /\ Ws(Cerrada(ws, <<>>))
    /\ UNCHANGED fallas

-----------------------------------------------------------------------------
Pasarela == Nube \/ Ffmpeg \/ Conectar \/ Mandar \/ Recibir \/ ResponderCli
Servicio == EsperarModelo \/ Escuchar \/ Callar \/ Transcribir \/ Desconectar
Grabadora == Recolectar \/ Enviar \/ Cerrar

Next == \/ Grabar \/ Microfono \/ PulsarEnter \/ AgotarEspera \/ SubirAudio
        \/ Grabadora \/ Pasarela \/ Servicio

(* Processes run; nobody has to press Enter or to speak.                     *)
Spec == Init /\ [][Next]_vars /\ WF_vars(Pasarela) /\ WF_vars(Servicio) /\ WF_vars(Grabadora)

-----------------------------------------------------------------------------
(* Types; the buffer of a connection stays within VOICE_MAX_BUFFER.  The     *)
(* bound on the recording is only that of the audio there is in the model.   *)
TypeOK ==
    /\ cli.fase \in {"listo", "graba", "envia", "espera", "cierra"}
    /\ gw.fase \in {"libre", "nube", "ffmpeg", "conecta", "manda", "recibe", "hecho", "fallo"}
    /\ ws.fase \in {"cerrada", "modelo", "escucha", "transcribe"}
    /\ Len(ws.buf) <= MaxBuf /\ Len(cli.trozos) <= Bloques /\ cli.vacios <= MaxVacios

(* The text of a request is one uninterrupted stretch of what was recorded,  *)
(* in its order; unless the service cut for silence it goes up to the last   *)
(* block, whatever was dropped to make room.                                 *)
TextoFiel ==
    gw.fase = "hecho" /\ gw.texto # <<>> =>
        /\ \E i, j \in DOMAIN gw.audio : gw.texto = SubSeq(gw.audio, i, j)
        /\ ws.corte \/ Last(gw.texto) = Last(gw.audio)

(* "Audio efimero": once a command is over, however it ended, no file is     *)
(* left, and a connection that ended leaves nothing in its buffer.           *)
SinAudioResidual ==
    /\ cli.fase \in {"listo", "cierra"} => ~cli.temp
    /\ ws.fase = "cerrada" => ws.buf = <<>>

(* Every transcription ends: the read of the WebSocket has no timeout, so    *)
(* the service must answer each stop or hang up.                             *)
PeticionTermina == gw.fase # "libre" ~> gw.fase = "libre"
=============================================================================
