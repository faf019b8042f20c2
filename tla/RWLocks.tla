-------------------------------- MODULE RWLocks --------------------------------
(****************************************************************************)
(* What a lock manager promises its transactions: for every key either      *)
(* readers that share it or one writer that has it alone.  There are no     *)
(* requests, no queue and no sleeping callers here: a lock is granted when  *)
(* the modes are compatible, and given back.                                *)
(****************************************************************************)
CONSTANTS Txns, Keys

VARIABLE mode       \* mode[k][t]: how transaction t holds key k

Modes == {"NONE", "SHARED", "EXCLUSIVE"}

TypeOK == mode \in [Keys -> [Txns -> Modes]]

Init == mode = [k \in Keys |-> [t \in Txns |-> "NONE"]]

GrantShared(t, k) ==
  /\ \A u \in Txns : mode[k][u] # "EXCLUSIVE"
  /\ mode' = [mode EXCEPT ![k][t] = "SHARED"]

GrantExclusive(t, k) ==
  /\ \A u \in Txns : mode[k][u] = "NONE"
  /\ mode' = [mode EXCEPT ![k][t] = "EXCLUSIVE"]

\* A transaction gives back the locks it has on the keys of K.
Release(t, K) ==
  mode' = [k \in Keys |-> IF k \in K THEN [mode[k] EXCEPT ![t] = "NONE"]
                                     ELSE mode[k]]

Next ==
  \E t \in Txns :
    \/ \E k \in Keys : GrantShared(t, k) \/ GrantExclusive(t, k)
    \/ \E K \in SUBSET Keys : Release(t, K)

Spec == Init /\ [][Next]_mode
================================================================================
