------------------------------- MODULE MCQsbr -------------------------------
EXTENDS Qsbr

CONSTANTS w1, w2

\* One thread retires objects.
MCWriter == {w1}
\* Two threads retire objects, calling start and check concurrently.
MCWriters == {w1, w2}

=============================================================================
