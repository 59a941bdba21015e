-------------------------- MODULE MCReadWriteMutex --------------------------
\* Four threads, each of which reads and writes as it likes.
EXTENDS ReadWriteMutex
=============================================================================
