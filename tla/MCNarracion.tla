---------------------------- MODULE MCNarracion ----------------------------
(* Instance: two events of one kind that differ in their data, one of them   *)
(* asked by the PWA too, two models, and requests that change each field or  *)
(* are refused half way.                                                     *)
EXTENDS Narracion
CONSTANTS gemma, deepseek

MCEventos    == {[tipo |-> "aceptada", datos |-> n] : n \in {3, 5}}
MCEventosPwa == {[tipo |-> "aceptada", datos |-> 3], [tipo |-> "consulta", datos |-> 3]}

Nada == [nube |-> "nada", otros |-> "bien", narrador |-> "nada", modelo |-> "nada"]
MCPedidos ==
    {[Nada EXCEPT !.nube = "no", !.otros = "mal"],
     [Nada EXCEPT !.nube = "si", !.narrador = "mal"],
     [Nada EXCEPT !.narrador = "llm", !.modelo = deepseek],
     [Nada EXCEPT !.narrador = "default", !.modelo = "auto"]}
=============================================================================
