SPECIFICATION Spec
CONSTANTS
    m1 = m1
    m2 = m2
    toyota = toyota
    Modelo <- MCModelo
    Ano <- MCAno
    Marca <- MCMarca
    MaxLen = 4
INVARIANTS TypeOK SortsStably
PROPERTY SortTerminates
CHECK_DEADLOCK FALSE
