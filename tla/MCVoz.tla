------------------------------- MODULE MCVoz -------------------------------
EXTENDS Voz
=============================================================================
