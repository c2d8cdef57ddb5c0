------------------------------- MODULE Inputs -------------------------------
(***************************************************************************)
(* What the inputs of the package are like: what the decoders can make of  *)
(* bytes and text, and what callers and wallets can pass.  Verifier and    *)
(* Session assume it of the calls they are given.                          *)
(***************************************************************************)
EXTENDS Cip30

promise == INSTANCE VerifyPromise

\* An absent entry is no value an entry can have, and nil is not "".
ASSUME ValuesAssumption == Absent \notin Int \cup BOOLEAN /\ EmptyBytes # Nil

\* A decoded "hashed" entry is a bool, a decoded address has a length.
SignatureShape(w) ==
    w # NotHex =>
        /\ w.hashed \in BOOLEAN \cup {Absent, Undecodable}
        /\ (w.protected # Undecodable /\ w.protected.address \notin {Absent, Undecodable})
              => w.protected.address # Nil /\ w.protected.address.len \in Nat

\* A public key that decodes is not nil, and neither is its hash.
KeyShape(k) ==
    k # NotHex /\ cose!DecodeKey(k).ok =>
        LET id == cose!DecodeKey(k).val.id
        IN  id # Nil /\ blake2b224(id) # Nil

\* Text that decodes gives bytes, and these have a length.
AddressShape(a) ==
    a # EmptyBytes =>
        /\ a.bech32 # Undecodable =>
              a.bech32.raw # Undecodable /\ a.bech32.raw.len \in Nat
        /\ a.hex # Undecodable => a.hex.len \in Nat

\* Only nil and the empty message have length 0; digests and decoded text
\* are not nil.
MessageShape(m) ==
    /\ size(m) = 0 <=> m \in {Nil, EmptyBytes}
    /\ hexDecode(AsBytes(m)) # Nil
    /\ blake2b224(AsBytes(m)) # Nil

OptionShape(o) ==
    /\ o.opt \in OptionNames
    /\ o.opt = "WithMessage" => MessageShape(o.arg)
    /\ o.opt = "WithAddress" => AddressShape(o.arg)

\* A wallet signs a message with a key, under a header that decodes, and
\* response is what it returns for that.
RequestShape(r, response) ==
    /\ r.key # Nil /\ r.message # Nil /\ r.hashed \in BOOLEAN
    /\ r.protected # Undecodable
    /\ r.protected.alg = -8 /\ r.protected.address # Undecodable
    /\ response.signature # NotHex /\ response.key # NotHex
    /\ Undecodable \notin {response.key, response.signature.hashed,
                          response.signature.payload, response.signature.signature}
    /\ response.key.x # Absent

=============================================================================
