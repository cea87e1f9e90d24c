--------------------------- MODULE MCChainForward ---------------------------
(* Small instances of ChainForward for TLC. *)
EXTENDS ChainForward

CONSTANTS m1, m2, toyota

MCModelo == {m1, m2}
MCAno == {2001, 2002}
MCMarca == {toyota}

Car(modelo, ano) == [modelo |-> modelo, ano |-> ano, marca |-> toyota]
Req(opcode, modelo, ano) == [opcode |-> opcode, data |-> Car(modelo, ano)]

Adds == {Req("ADD", m1, 2001), Req("ADD", m1, 2002), Req("ADD", m2, 2001)}
Dels == {Req("DEL", m1, 2001), Req("DEL", m2, 2001)}
Reads == {Req("GET_MARCA", m1, 2001), Req("GET_YEAR", m1, 2001),
          Req("GETMODELS", m1, 2001), Req("SIZE", m1, 2001)}
Order == Req("GETLISTBYYEAR", m1, 2001)

WritesAndReads == Adds \cup Dels \cup Reads
WritesAndOrder == {Req("ADD", m1, 2001), Req("ADD", m1, 2002)}
                  \cup {Req("DEL", m1, 2001), Order}
=============================================================================
