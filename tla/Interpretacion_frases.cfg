SPECIFICATION Spec
CONSTANTS
    Frases <- MCFrases
    Productos <- MCProductos
    Bodegas = {1, 2}
    Stock = 5000
INVARIANT TypeOK
INVARIANT UnaConversion
INVARIANT FilaEnSuBodega
INVARIANT PendienteConRegistro
INVARIANT ContradiccionAgotada
