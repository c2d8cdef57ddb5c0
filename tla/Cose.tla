-------------------------------- MODULE Cose --------------------------------
(***************************************************************************)
(* internal/cose: decoding of COSE_Sign1 and COSE_Key, and the structure   *)
(* an Ed25519 signature covers.                                            *)
(*                                                                         *)
(* CBOR text is not modelled.  A data item is what the strict decoder makes *)
(* of it for the Go type the code asks for: the value, or Undecodable when *)
(* the item is malformed, is of another type, or is a map with a duplicate *)
(* key.                                                                    *)
(***************************************************************************)
EXTENDS Integers, Outcome

CONSTANTS
    MaxInt64,    \* math.MaxInt64 (a small bound when model checking)
    Undecodable, \* an item the decoder refuses
    Absent,      \* the value of a map key that is not there
    Nil,         \* Go's nil
    EmptyBytes   \* the empty byte string, which is not nil

-----------------------------------------------------------------------------
algEdDSA == -8
keyTypeOKP == 1
curveEd25519 == 6
ed25519KeySize == 32
ed25519SigSize == 64
coseSign1Len == 4

\* Mutant: the uint64 bound is not checked, so the conversion wraps.
asInt64_Wraps(v) ==
    IF v \in (-MaxInt64 - 1)..(2 * MaxInt64 + 1)
    THEN Ok(IF v > MaxInt64 THEN v - 2 * (MaxInt64 + 1) ELSE v)
    ELSE Fail("notInt64")

\* A CBOR integer ranges over -(2^63) .. 2^64 - 1 and arrives as int64 or
\* uint64; anything else (bignum, text, absent) is not an integer.
asInt64(v) ==
    IF v \in (-MaxInt64 - 1)..MaxInt64 THEN Ok(v) ELSE Fail("notInt64")

\* A protected header keeps, beside the two entries the code reads, the
\* encoding it arrived in: headers that say the same may differ in bytes.
decodeProtected(raw) ==
    IF raw = Undecodable \/ ~asInt64(raw.alg).ok \/ raw.address = Undecodable
    THEN Fail("ErrInvalidProtected")
    ELSE Ok([alg     |-> asInt64(raw.alg).val,
             address |-> IF raw.address = Absent THEN Nil ELSE raw.address])

\* The unprotected header is told by its "hashed" entry: Undecodable covers a
\* header that is no map and an entry that is no bool.
decodeHashed(entry) ==
    IF entry = Undecodable THEN Fail("ErrInvalidUnprotected")
    ELSE Ok(entry # Absent /\ entry)

\* The early returns in the order of the code; a null signature has length 0.
DecodeSign1(w) ==
    LET header == decodeProtected(w.protected)
        hashed == decodeHashed(w.hashed)
    IN  IF w.elements # coseSign1Len THEN Fail("ErrInvalidSign1")
        ELSE IF ~header.ok THEN header
        ELSE IF header.val.alg # algEdDSA THEN Fail("ErrUnsupportedAlg")
        ELSE IF ~hashed.ok THEN hashed
        ELSE IF w.payload = Undecodable THEN Fail("ErrInvalidPayload")
        ELSE IF w.signature = Undecodable THEN Fail("ErrInvalidSignature")
        ELSE IF w.signature.len # ed25519SigSize
             THEN Fail("ErrInvalidSignatureLen")
        ELSE Ok([ProtectedRaw |-> w.protected,
                 Payload      |-> w.payload,
                 Signature    |-> w.signature,
                 Address      |-> header.val.address,
                 Hashed       |-> hashed.val])

\* Decoding into the coseKey struct leaves an absent label at Go's zero value.
coseKey(k) ==
    LET OrZero(v, zero) == IF v = Absent THEN zero ELSE v
    IN  [Kty |-> OrZero(k.kty, 0), Alg |-> OrZero(k.alg, 0),
         Crv |-> OrZero(k.crv, 0), X |-> OrZero(k.x, [len |-> 0, id |-> Nil])]

DecodeKey(k) ==
    IF k = Undecodable THEN Fail("ErrInvalidKey")
    ELSE IF coseKey(k).Kty # keyTypeOKP THEN Fail("ErrUnsupportedKeyType")
    ELSE IF coseKey(k).Alg # algEdDSA THEN Fail("ErrUnsupportedAlg")
    ELSE IF coseKey(k).Crv # curveEd25519 THEN Fail("ErrUnsupportedCurve")
    ELSE IF coseKey(k).X.len # ed25519KeySize THEN Fail("ErrInvalidPublicKeyLen")
    ELSE Ok(coseKey(k).X)

\* Mutant: a nil payload is encoded as CBOR null.
SigStructure_KeepsNil(protectedRaw, payload) ==
    [context |-> "Signature1", protected |-> protectedRaw, payload |-> payload]

\* Mutant: the header is decoded and encoded again, canonically.
SigStructure_Reencodes(protectedRaw, payload) ==
    [context   |-> "Signature1",
     protected |-> [protectedRaw EXCEPT !.enc = "canonical"],
     payload   |-> IF payload = Nil THEN EmptyBytes ELSE payload]

\* The signed structure: the header bytes verbatim, and a nil payload encoded
\* like an empty one.  The external_aad is always empty and left out.
SigStructure(protectedRaw, payload) ==
    [context   |-> "Signature1",
     protected |-> protectedRaw,
     payload   |-> IF payload = Nil THEN EmptyBytes ELSE payload]

=============================================================================
