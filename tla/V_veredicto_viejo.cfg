SPECIFICATION Spec
CONSTANTS
    w1 = w1
    w2 = w2
    w3 = w3
    c1 = c1
    c2 = c2
    k1 = k1
    k2 = k2
    NoKey = NoKey
    Null = Null
    Keys = {k1}
    Workers = {w1, w2}
    Clientes = {c1}
    Producto <- MCProducto
    MaxPend = 2
    StockInicial <- MCStock
    Umbral = 2
    GananciaInv = 2
    Pedidos = {"agregar_inventario"}
    Cantidades = {2}
    Conteos = {}
    Sesiones = {FALSE}
    ConfirmaAdelantada = FALSE
    Abandonan = FALSE
    MaxCaidas = 0
SYMMETRY Simetria
INVARIANT AceptadoDentroDelUmbral
