------------------------------- MODULE MCLocks -------------------------------
EXTENDS Locks

CONSTANTS t1, t2

MCThreads == {t1, t2}

=============================================================================
