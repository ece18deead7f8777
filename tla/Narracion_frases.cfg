SPECIFICATION Spec
CONSTANTS
    gemma = gemma
    deepseek = deepseek
    CloudEnabled = TRUE
    Eventos <- MCEventos
    EventosPwa <- MCEventosPwa
    Pedidos <- MCPedidos
    Modelos = {gemma, deepseek}
    ModeloBase = gemma
    MaxCache = 2
    Bloques = 2
    MaxCarga = 4
    MaxCambios = 1
    MaxFallas = 1
INVARIANT TypeOK
INVARIANT UnaSolaVoz
INVARIANT UnBloqueTrasCancelar
INVARIANT FraseDeSuEvento
INVARIANT SoloReescritas
PROPERTY NarradorAlDia
PROPERTY EventoSeDice
CHECK_DEADLOCK FALSE
