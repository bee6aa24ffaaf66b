------------------------------ MODULE MCRWLocks ------------------------------
EXTENDS RWLocks

CONSTANTS t1, t2

MCThreads == {t1, t2}

=============================================================================
