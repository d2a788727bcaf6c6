------------------------------ MODULE MCRpcCall ------------------------------
(* Small instance of RpcCall: one retry beyond the first try, with every kind of *)
(* connection, synchronous and asynchronous, with and without backup request. *)
EXTENDS RpcCall

Option(done, timed, backup, type) == [done |-> done, timed |-> timed, backup |-> backup, type |-> type]

\* done, timed, backup, type
CheckedOptions ==
  {Option(TRUE, TRUE, TRUE, "pooled"), Option(FALSE, TRUE, FALSE, "pooled"),
   Option(TRUE, FALSE, TRUE, "short"), Option(FALSE, TRUE, TRUE, "single")}
=============================================================================
