SPECIFICATION Spec
CONSTANTS
    c1 = c1
    c2 = c2
    t1 = t1
    t2 = t2
    papa = papa
    ajo = ajo
    Manejadores = {c1}
    Registran = {c1}
    Revisan = {}
    Tareas = {t1}
    Sesiones = {1}
    Productos = {papa}
    Bodegas = {1, 2}
    Claves <- MCUnProducto
    Inicial = 3
    Cantidades = {2}
    Operaciones = {"manual", "voz", "contestar"}
    Herramientas = {"remover_inventario"}
    MaxPend = 2
INVARIANT TypeOK
INVARIANT DiferenciaEsDelta
INVARIANT PendientesCoinciden
PROPERTY ImplementaLibro
