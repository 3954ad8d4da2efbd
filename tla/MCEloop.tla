------------------------------- MODULE MCEloop -------------------------------
EXTENDS Eloop

CONSTANTS t1, f1

OneTimer == {t1}
OneFd == {f1}
=============================================================================
