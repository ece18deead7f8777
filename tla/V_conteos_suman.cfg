SPECIFICATION Spec
CONSTANTS
    w1 = w1
    w2 = w2
    w3 = w3
    c1 = c1
    c2 = c2
    k1 = k1
    k2 = k2
    NoKey = NoKey
    Null = Null
    Keys = {k1}
    Workers = {w1, w2}
    Clientes = {c1, c2}
    Producto <- MCProducto
    MaxPend = 2
    StockInicial <- MCStock
    Umbral = 2
    GananciaInv = 2
    Pedidos = {"registrar_conteo"}
    Cantidades = {1}
    Conteos = {4}
    Sesiones = {FALSE}
    ConfirmaAdelantada = FALSE
    Abandonan = FALSE
    MaxCaidas = 0
SYMMETRY Simetria
INVARIANT ConteosNoSeSuman
