------------------------------- MODULE MCLog -------------------------------
\* Two threads of the server, files of two records, two runs of the server.
EXTENDS Log
=============================================================================
