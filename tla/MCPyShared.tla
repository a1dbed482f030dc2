----------------------------- MODULE MCPyShared -----------------------------
(* PyShared with two threads; the buffer ends behind a timestamp.           *)
EXTENDS PyShared

CONSTANTS t1, t2

MCThreads == {t1, t2}
=============================================================================
