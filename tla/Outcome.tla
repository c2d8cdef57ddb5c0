------------------------------ MODULE Outcome ------------------------------
(***************************************************************************)
(* Go's (value, error) pair: a function returns Ok(v) or Fail(e), where e  *)
(* names the sentinel error that errors.Is recognises.                     *)
(***************************************************************************)
Ok(v) == [ok |-> TRUE, val |-> v]
Fail(e) == [ok |-> FALSE, err |-> e]
=============================================================================
