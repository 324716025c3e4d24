-------------------------------- MODULE Ordering --------------------------------
(***************************************************************************)
(* Sets in an order, as the modules of src/src/client.rs need them: by a   *)
(* key that no two elements share.  The sequence is chosen by what it is,  *)
(* not computed, so that what is needed of it can be proved.               *)
(***************************************************************************)
EXTENDS Integers, FiniteSets

InOrder(S, key) ==
  CHOOSE q \in [1 .. Cardinality(S) -> S] :
    \A i, j \in 1 .. Cardinality(S) : i < j => key[q[i]] < key[q[j]]
=================================================================================
