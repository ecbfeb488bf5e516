--------------------------- MODULE MCThreadRWLock ---------------------------
(* _ThreadRWLock with a few threads of each kind, named in the cfg files.  *)
EXTENDS ThreadRWLock
=============================================================================
