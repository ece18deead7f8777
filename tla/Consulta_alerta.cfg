SPECIFICATION Spec
CONSTANTS
    c1 = c1
    c2 = c2
    Clis = {c1}
    Textos = {"no", "agrega", "varios", "mmm"}
    MaxConsultas = 2
    MaxFallas = 1
CHECK_DEADLOCK FALSE
INVARIANT TypeOK
INVARIANT ConfirmaLoMostrado
INVARIANT RespuestaCompleta
INVARIANT AlertaFueSospechosa
INVARIANT SinEscriturasFantasma
PROPERTY AlertaSeResuelve
