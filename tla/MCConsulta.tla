----------------------------- MODULE MCConsulta -----------------------------
EXTENDS Consulta
CONSTANTS c1, c2
=============================================================================
