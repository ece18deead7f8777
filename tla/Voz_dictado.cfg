SPECIFICATION Spec
CONSTANTS
    Bloques = 4
    MaxVacios = 2
    MaxBuf = 3
    MinVoz = 2
    MaxFallas = 2
INVARIANT TypeOK
INVARIANT TextoFiel
INVARIANT SinAudioResidual
PROPERTY PeticionTermina
