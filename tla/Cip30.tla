------------------------------- MODULE Cip30 -------------------------------
(***************************************************************************)
(* Package cip30: the functions behind Verify and behind the methods of a  *)
(* parsed Signature.  They are pure; Verifier and Session run them.        *)
(*                                                                         *)
(* Byte strings are opaque values told apart by equality; blake2b-224 and  *)
(* hexadecimal text are constant operators on them.  An Ed25519 signature  *)
(* is a record [len, by, over]: the key that made it and what it covers.   *)
(* A DataSignature is a record [signature, key], each NotHex or what the   *)
(* CBOR decoder makes of the bytes (see Cose).                             *)
(***************************************************************************)
EXTENDS Integers, Sequences, Outcome

CONSTANTS
    MaxInt64, Undecodable, Absent, Nil, EmptyBytes,
    NotHex,         \* a string that is not hexadecimal
    blake2b224(_),  \* the digest of a byte string or of a key
    size(_),        \* the length of a byte string
    hexDigits(_),   \* all its bytes are ASCII hexadecimal digits
    hexDecode(_)    \* the bytes an even number of such digits spells

ASSUME MaxInt64Assumption == MaxInt64 \in Nat /\ MaxInt64 >= 8

cose == INSTANCE Cose
address == INSTANCE Address WITH EmptyString <- EmptyBytes

\* nil and the empty byte string are the same bytes.
AsBytes(b) == IF b = Nil THEN EmptyBytes ELSE b
bytesEqual(a, b) == AsBytes(a) = AsBytes(b)
keyHash224(data) == blake2b224(AsBytes(data))

-----------------------------------------------------------------------------
(* Options *)

OptionNames ==
    {"WithMessage", "WithAddress", "WithEmbeddedAddress", "StrictAddress"}

WithMessage(m) == [opt |-> "WithMessage", arg |-> m]
WithAddress(a) == [opt |-> "WithAddress", arg |-> a]
WithEmbeddedAddress == [opt |-> "WithEmbeddedAddress", arg |-> Nil]
StrictAddress == [opt |-> "StrictAddress", arg |-> Nil]

zeroConfig ==
    [message |-> Nil, hasMessage |-> FALSE, address |-> EmptyBytes,
     hasAddress |-> FALSE, useEmbedded |-> FALSE, strict |-> FALSE]

\* What one option does to the configuration.
VerifyOption(o, cfg) ==
    CASE o.opt = "WithMessage" ->
            [cfg EXCEPT !.message = o.arg, !.hasMessage = TRUE]
      [] o.opt = "WithAddress" ->
            [cfg EXCEPT !.address = o.arg, !.hasAddress = TRUE]
      [] o.opt = "WithEmbeddedAddress" -> [cfg EXCEPT !.useEmbedded = TRUE]
      [] o.opt = "StrictAddress" -> [cfg EXCEPT !.strict = TRUE]

conflicting(cfg) == cfg.hasAddress /\ cfg.useEmbedded

\* The options one after the other; the two that give an address exclude each other.
applyOptions(opts) ==
    LET cfg[n \in 0..Len(opts)] ==
            IF n = 0 THEN zeroConfig ELSE VerifyOption(opts[n], cfg[n - 1])
    IN  IF conflicting(cfg[Len(opts)]) THEN Fail("ErrConflictingAddress")
        ELSE Ok(cfg[Len(opts)])

-----------------------------------------------------------------------------
(* Parsing and the signature check *)

\* hex, hex, COSE_Sign1, COSE_Key: the first that fails names the error.
Parse(ds) ==
    LET sign1     == cose!DecodeSign1(ds.signature)
        publicKey == cose!DecodeKey(ds.key)
    IN  IF ds.signature = NotHex THEN Fail("ErrInvalidSignatureHex")
        ELSE IF ds.key = NotHex THEN Fail("ErrInvalidKeyHex")
        ELSE IF ~sign1.ok THEN Fail("ErrDecodeSignature")
        ELSE IF ~publicKey.ok THEN Fail("ErrDecodeKey")
        ELSE Ok([PublicKey    |-> publicKey.val,
                 Payload      |-> sign1.val.Payload,
                 Hashed       |-> sign1.val.Hashed,
                 Address      |-> sign1.val.Address,
                 protectedRaw |-> sign1.val.ProtectedRaw,
                 signature    |-> sign1.val.Signature])

\* Ed25519, taken as perfect: a signature verifies for the key and the
\* message it was made with, and for nothing else.
ed25519Verify(publicKey, message, signature) ==
    signature.by = publicKey.id /\ signature.over = message

verifyPayload(s, payload) ==
    /\ s.PublicKey.len = cose!ed25519KeySize
    /\ s.signature.len = cose!ed25519SigSize
    /\ ed25519Verify(s.PublicKey, cose!SigStructure(s.protectedRaw, payload),
                     s.signature)

SignatureVerify(s) == verifyPayload(s, s.Payload)

detached(s) == s.Payload \in {Nil, EmptyBytes}

\* Mutant: the empty message passes for a digest of no bytes.
decodeHexDigest_Empty(message) ==
    IF size(message) % 2 # 0 \/ ~hexDigits(message) THEN Fail("notDigest")
    ELSE Ok(hexDecode(message))

decodeHexDigest(message) ==
    IF size(message) = 0 \/ size(message) % 2 # 0 THEN Fail("notDigest")
    ELSE IF ~hexDigits(message) THEN Fail("notDigest")
    ELSE Ok(hexDecode(message))

digest(message, hashed) ==
    IF ~hashed THEN message
    ELSE IF decodeHexDigest(message).ok THEN decodeHexDigest(message).val
    ELSE keyHash224(message)

\* Mutant: a detached signature is checked over the empty payload it carries.
signatureValid_AsCarried(s, cfg) == SignatureVerify(s)

\* The signature over the embedded payload, or over the bytes the expected
\* message stands for when there is none.
signatureValid(s, cfg) ==
    IF cfg.hasMessage /\ detached(s)
    THEN verifyPayload(s, digest(cfg.message, s.Hashed))
    ELSE SignatureVerify(s)

\* Mutant: an embedded payload is taken at its word, as a detached one is.
VerifyMessage_NoComparison(s, message) ==
    [Hashed  |-> s.Hashed,
     Matched |-> IF detached(s) THEN verifyPayload(s, digest(message, s.Hashed))
                 ELSE SignatureVerify(s)]

VerifyMessage(s, message) ==
    [Hashed  |-> s.Hashed,
     Matched |-> IF detached(s) THEN verifyPayload(s, digest(message, s.Hashed))
                 ELSE bytesEqual(s.Payload, digest(message, s.Hashed))]

-----------------------------------------------------------------------------
(* Addresses *)

KeyHash(s) == keyHash224(s.PublicKey.id)

\* Mutant: script hashes are compared like key hashes.
credentialMatches_Scripts(cred, keyHash) ==
    cred.Hash # Nil /\ cred.Hash = keyHash

credentialMatches(cred, keyHash) ==
    cred.Hash # Nil /\ ~cred.IsScript /\ cred.Hash = keyHash

\* Base types whose delegation part is a key.
isBase(t) == t \in {0, 1}

addressType(t) ==
    CASE t \in address!PointerTypes -> "AddressPointer"
      [] t \in address!EnterpriseTypes -> "AddressEnterprise"
      [] t \in address!RewardTypes -> "AddressReward"
      [] OTHER -> "AddressBase"

network(n) ==
    CASE n = address!Mainnet -> "Mainnet"
      [] n = address!Testnet -> "Testnet"
      [] OTHER -> "NetworkUnknown"

\* What the two checks report.
MessageCheck == [Matched : BOOLEAN, Hashed : BOOLEAN]

AddressCheck ==
    [Matched : BOOLEAN,
     MatchedVia : {"CredentialNone", "CredentialPayment", "CredentialStake"},
     Strict : BOOLEAN,
     Source : {"AddressSupplied", "AddressEmbedded"},
     Type : {"AddressBase", "AddressPointer", "AddressEnterprise", "AddressReward"},
     Network : {"Mainnet", "Testnet", "NetworkUnknown"}]

\* Mutant: strictness is reported but not applied.
matchAddress_Lenient(addr, keyHash, strict, source) ==
    LET payment == credentialMatches(addr.Payment, keyHash)
        reward  == address!isReward(addr.Type) /\ credentialMatches(addr.Stake, keyHash)
        base    == isBase(addr.Type) /\ credentialMatches(addr.Stake, keyHash)
    IN  [Matched    |-> payment \/ reward \/ base,
         MatchedVia |-> IF payment THEN "CredentialPayment"
                        ELSE IF reward \/ base THEN "CredentialStake"
                        ELSE "CredentialNone",
         Strict     |-> strict, Source |-> source,
         Type       |-> addressType(addr.Type),
         Network    |-> network(addr.Network)]

\* The payment credential first; the stake credential of a reward address
\* always counts, that of a base address unless strict.
matchAddress(addr, keyHash, strict, source) ==
    LET payment == credentialMatches(addr.Payment, keyHash)
        reward  == address!isReward(addr.Type) /\ credentialMatches(addr.Stake, keyHash)
        base    == isBase(addr.Type) /\ credentialMatches(addr.Stake, keyHash)
    IN  [Matched    |-> payment \/ reward \/ (base /\ ~strict),
         MatchedVia |-> IF payment THEN "CredentialPayment"
                        ELSE IF reward \/ base THEN "CredentialStake"
                        ELSE "CredentialNone",
         Strict     |-> strict, Source |-> source,
         Type       |-> addressType(addr.Type),
         Network    |-> network(addr.Network)]

\* A decoded address is matched; a decoding error is wrapped.
matchDecoded(decoded, s, strict, source) ==
    IF ~decoded.ok THEN Fail("ErrDecodeAddress")
    ELSE Ok(matchAddress(decoded.val, KeyHash(s), strict, source))

\* An absent address and one of no bytes are the same to len().
matchEmbeddedAddress(s, strict) ==
    IF s.Address = Nil \/ s.Address.len = 0 THEN Fail("ErrNoEmbeddedAddress")
    ELSE matchDecoded(address!Parse(s.Address), s, strict, "AddressEmbedded")

addressCheck(s, cfg) ==
    IF cfg.useEmbedded THEN matchEmbeddedAddress(s, cfg.strict)
    ELSE matchDecoded(address!Decode(cfg.address), s, cfg.strict, "AddressSupplied")

\* Mutant: the options are applied and then forgotten.
MatchesAddress_IgnoresStrict(s, addr, opts) ==
    LET cfg == applyOptions(opts)
    IN  IF ~cfg.ok THEN cfg
        ELSE matchDecoded(address!Decode(addr), s, FALSE, "AddressSupplied")

\* Only the strictness of the options is used, and their conflict.
MatchesAddress(s, addr, opts) ==
    LET cfg == applyOptions(opts)
    IN  IF ~cfg.ok THEN cfg
        ELSE matchDecoded(address!Decode(addr), s, cfg.val.strict, "AddressSupplied")

Valid(r) ==
    /\ r.SignatureValid
    /\ r.Message # Nil => r.Message.Matched
    /\ r.Address # Nil => r.Address.Matched

=============================================================================
