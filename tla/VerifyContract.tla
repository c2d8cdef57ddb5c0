--------------------------- MODULE VerifyContract ---------------------------
(***************************************************************************)
(* The abstract specification of Verify: callers ask, each call gets the   *)
(* outcome VerifyPromise gives it, and wallets sign meanwhile.  Verifier    *)
(* implements it.                                                          *)
(***************************************************************************)
EXTENDS VerifyPromise

CONSTANT Calls   \* the calls callers make: records [ds, opts]

VARIABLES
    signed,      \* the signatures wallets have made
    call,        \* the call being served, or Nil
    response     \* its outcome: Nil, "error", "invalid" or "valid"

-----------------------------------------------------------------------------
vars == <<signed, call, response>>

Init == signed = {} /\ call = Nil /\ response = Nil

Sign == signed \subseteq signed' /\ UNCHANGED <<call, response>>

Request ==
    /\ call = Nil
    /\ call' \in Calls
    /\ UNCHANGED <<signed, response>>

Respond ==
    /\ call # Nil /\ response = Nil
    /\ response' = Outcome(call, signed)
    /\ UNCHANGED <<signed, call>>

Forget ==
    /\ response # Nil
    /\ call' = Nil /\ response' = Nil
    /\ UNCHANGED signed

Next == Sign \/ Request \/ Respond \/ Forget

Spec == Init /\ [][Next]_vars
=============================================================================
