------------------------------- MODULE Wallet -------------------------------
(***************************************************************************)
(* The wallets at the other end of api.signData(): external to this        *)
(* repository, modelled from what the library, its fixtures and its        *)
(* documentation say a wallet returns.                                     *)
(***************************************************************************)
EXTENDS Integers

CONSTANTS
    SignRequests,   \* what wallet owners may sign: records
                    \* [key, protected, message, hashed, detached]
    Nil, Absent, Undecodable, NotHex,
    blake2b224(_)

VARIABLE signed     \* the signatures wallets have made so far

-----------------------------------------------------------------------------
payloadOf(r) == IF r.hashed THEN blake2b224(r.message) ELSE r.message

\* A wallet signs the Sig_structure of RFC 8152 over the payload.
signatureOf(r) ==
    [len |-> 64, by |-> r.key,
     over |-> [context |-> "Signature1", protected |-> r.protected,
               payload |-> payloadOf(r)]]

\* The DataSignature a wallet returns for a request.
responseOf(r) ==
    [signature |-> [elements  |-> 4,
                    protected |-> r.protected,
                    hashed    |-> IF r.hashed THEN TRUE ELSE Absent,
                    payload   |-> IF r.detached THEN Nil ELSE payloadOf(r),
                    signature |-> signatureOf(r)],
     key |-> [kty |-> 1, alg |-> -8, crv |-> 6,
              x |-> [len |-> 32, id |-> r.key]]]

WalletInit == signed = {}

signData(r) ==
    /\ r \in SignRequests
    /\ signatureOf(r) \notin signed
    /\ signed' = signed \cup {signatureOf(r)}

\* The parts of a DataSignature may come from several responses, but a
\* signature that verifies for some key was made by its wallet.
CanArrive(ds) ==
    (/\ ds.signature # NotHex
     /\ ds.signature.signature # Undecodable
     /\ ds.signature.signature.by # Nil)
        => ds.signature.signature \in signed
=============================================================================
