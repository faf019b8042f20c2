-------------------------------- MODULE KVStore --------------------------------
(****************************************************************************)
(* Abstract: what a storage manager promises the transaction manager.  Each *)
(* key has a value in memory and one in a file that lags behind; a flush    *)
(* may stop half-way; a restart has what is in the file.  TransactionManager*)
(* uses the storage like this, and PageStore is the real one.               *)
(****************************************************************************)
CONSTANTS Keys, Values(_), Nothing

VARIABLES mem, file

Init ==
  /\ mem = [k \in Keys |-> Nothing]
  /\ file = mem

\* A key gets a value, or loses the one it had.
Set(k, v) ==
  /\ mem' = [mem EXCEPT ![k] = v]
  /\ UNCHANGED file

\* The file with the values of some keys written.
Written(keys) == [k \in Keys |-> IF k \in keys THEN mem[k] ELSE file[k]]

Flush(keys) ==
  /\ file' = Written(keys)
  /\ UNCHANGED mem

Restart(keys) ==
  /\ file' = Written(keys)
  /\ mem' = file'

Next ==
  \/ \E k \in Keys : \E v \in Values(k) \cup {Nothing} : Set(k, v)
  \/ \E keys \in SUBSET Keys : Flush(keys) \/ Restart(keys)
================================================================================
