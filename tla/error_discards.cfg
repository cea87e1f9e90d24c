SPECIFICATION Spec
CONSTANTS
    m1 = m1
    m2 = m2
    toyota = toyota
    Modelo <- MCModelo
    Ano <- MCAno
    Marca <- MCMarca
    N = 2
    Client = {c1, c2}
    Link = link
    Inputs <- WritesAndOrder
    MaxCommands = 3
    MaxUpdates = 1
INVARIANT ErrorMeansDiscarded
CHECK_DEADLOCK FALSE
