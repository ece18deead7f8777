SPECIFICATION Spec
CONSTANTS
    c1 = c1
    c2 = c2
    t1 = t1
    t2 = t2
    papa = papa
    ajo = ajo
    Manejadores = {c1}
    Registran = {c1}
    Revisan = {}
    Tareas = {}
    Sesiones = {1}
    Productos = {ajo}
    Bodegas = {2}
    Claves <- MCUnaClave
    Inicial = 3
    Cantidades = {2}
    Operaciones = {"manual"}
    Herramientas = {"registrar_conteo"}
    MaxPend = 1
INVARIANT RegistroSincronizado
