SPECIFICATION Spec
CONSTANTS
    c1 = c1
    c2 = c2
    t1 = t1
    t2 = t2
    papa = papa
    ajo = ajo
    Manejadores = {c1, c2}
    Registran = {c1}
    Revisan = {c2}
    Tareas = {t1, t2}
    Sesiones = {1}
    Productos = {ajo}
    Bodegas = {2}
    Claves <- MCUnaClave
    Inicial = 3
    Cantidades = {2}
    Operaciones = {"voz", "cerrar", "reporte"}
    Herramientas = {"registrar_conteo"}
    MaxPend = 2
CHECK_DEADLOCK FALSE
SYMMETRY Simetria
INVARIANT CierreCuentaTodo
INVARIANT ReporteSinRepetir
