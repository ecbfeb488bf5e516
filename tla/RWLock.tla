------------------------------- MODULE RWLock -------------------------------
(***************************************************************************)
(* What a read/write lock promises its callers: readers share it, a writer *)
(* has it alone.  _ThreadRWLock (server/compute/engine_pool.py) is shown   *)
(* to implement this module; SessionCallGate uses the lock at this level.  *)
(***************************************************************************)
CONSTANT Threads

VARIABLE mode           \* what each thread holds: "none", "read", "write"

Modes == {"none", "read", "write"}

Init == mode = [t \in Threads |-> "none"]

GrantRead(t) ==
    /\ mode[t] = "none"
    /\ \A u \in Threads : mode[u] # "write"
    /\ mode' = [mode EXCEPT ![t] = "read"]

GrantWrite(t) ==
    /\ \A u \in Threads : mode[u] = "none"
    /\ mode' = [mode EXCEPT ![t] = "write"]

Release(t) ==
    /\ mode[t] # "none"
    /\ mode' = [mode EXCEPT ![t] = "none"]

Next == \E t \in Threads : GrantRead(t) \/ GrantWrite(t) \/ Release(t)

Spec == Init /\ [][Next]_mode
=============================================================================
