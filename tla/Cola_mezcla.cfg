SPECIFICATION Spec
CONSTANTS
    w1 = w1
    w2 = w2
    w3 = w3
    c1 = c1
    c2 = c2
    k1 = k1
    k2 = k2
    NoKey = NoKey
    Null = Null
    Keys = {k1, k2}
    Workers = {w1, w2}
    Clientes = {c1}
    Producto <- MCProducto
    MaxPend = 4
    StockInicial <- MCStock
    Umbral = 2
    GananciaInv = 2
    Pedidos = {"agregar_inventario", "registrar_conteo", "confirmar_movimiento"}
    Cantidades = {3}
    Conteos = {6}
    Sesiones = {FALSE}
    ConfirmaAdelantada = FALSE
    Abandonan = TRUE
    MaxCaidas = 0
SYMMETRY Simetria
INVARIANT ConteoComponeMovimientos
INVARIANT CadenaDeMovimientos
PROPERTY ImplementaLibro
