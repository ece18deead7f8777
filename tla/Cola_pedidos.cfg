SPECIFICATION Spec
CONSTANTS
    w1 = w1
    w2 = w2
    w3 = w3
    c1 = c1
    c2 = c2
    k1 = k1
    k2 = k2
    NoKey = NoKey
    Null = Null
    Keys = {k1}
    Workers = {w1, w2}
    Clientes = {c1, c2}
    Producto <- MCProducto
    MaxPend = 3
    StockInicial <- MCStock
    Umbral = 2
    GananciaInv = 2
    Pedidos = {"registrar_conteo", "confirmar_movimiento", "remover_inventario", "otra", "consultar_inventario"}
    Cantidades = {3}
    Conteos = {4, 9}
    Sesiones = {TRUE}
    ConfirmaAdelantada = FALSE
    Abandonan = FALSE
    MaxCaidas = 1
SYMMETRY Simetria
INVARIANT TypeOK
INVARIANT FilaProtegida
INVARIANT InvalidacionCompleta
INVARIANT AlertaVigente
INVARIANT AplicadoUnaVez
PROPERTY ResolucionDefinitiva
