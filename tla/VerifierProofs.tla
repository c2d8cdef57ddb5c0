--------------------------- MODULE VerifierProofs ---------------------------
(***************************************************************************)
(* Theorems about Verifier, for every set of calls, wallets, keys and       *)
(* messages.  The inductive invariant says that what a call has computed so *)
(* far is what the functions of the package give for its input; each        *)
(* safety property then follows from the functions alone.  Last, Verify     *)
(* implements its contract: whatever the options, their order and the step  *)
(* at which a call ends, its outcome is the one VerifyPromise gives it.     *)
(***************************************************************************)
EXTENDS Verifier, Cip30Proofs

AsksAddress == cfg.hasAddress \/ cfg.useEmbedded

messageCheck == IF cfg.hasMessage THEN VerifyMessage(sig, cfg.message) ELSE Nil

resultOf(m, a) ==
    [SignatureValid |-> signatureValid(sig, cfg), Message |-> m, Address |-> a,
     PublicKey |-> sig.PublicKey, KeyHash |-> KeyHash(sig)]

ConfigShape ==
    cfg = [message |-> cfg.message, hasMessage |-> cfg.hasMessage,
           address |-> cfg.address, hasAddress |-> cfg.hasAddress,
           useEmbedded |-> cfg.useEmbedded, strict |-> cfg.strict]

SigIsParsed ==
    pc \in {"signature", "message", "address"} \/ Returned =>
        Parse(call.ds).ok /\ sig = Parse(call.ds).val

ResultIsComputed ==
    /\ pc = "message" => result = resultOf(Nil, Nil)
    /\ pc = "address" => result = resultOf(messageCheck, Nil)
    /\ Returned /\ ~AsksAddress => result = resultOf(messageCheck, Nil)
    /\ Returned /\ AsksAddress =>
          /\ addressCheck(sig, cfg).ok
          /\ result = resultOf(messageCheck, addressCheck(sig, cfg).val)

CallArrived == pc # "idle" => wallet!CanArrive(call.ds)

IInv == TypeOK /\ ConfigShape /\ CallArrived /\ SigIsParsed /\ ResultIsComputed

-----------------------------------------------------------------------------
(* What the functions of the package return. *)

\* Parse reports one of the errors of errors.go, or a signature whose flag is
\* a Boolean.
LEMMA ParseReturns ==
    ASSUME NEW ds
    PROVE  /\ Parse(ds).ok \in BOOLEAN
           /\ ~Parse(ds).ok => Parse(ds).err \in Errors
           /\ Parse(ds).ok => Parse(ds).val.Hashed \in BOOLEAN
<1>1. cose!decodeHashed(ds.signature.hashed).ok =>
        cose!decodeHashed(ds.signature.hashed).val \in BOOLEAN
    BY DEF cose!decodeHashed, cose!Ok, cose!Fail
<1>2. cose!DecodeSign1(ds.signature).ok =>
        cose!DecodeSign1(ds.signature).val.Hashed \in BOOLEAN
    BY <1>1 DEF cose!DecodeSign1, cose!decodeProtected, cose!decodeHashed,
                cose!Ok, cose!Fail
<1> QED BY <1>2 DEF Parse, Ok, Fail, Errors

\* The verdicts of the signature check and of the message check are Booleans.
LEMMA MessageCheckType ==
    ASSUME NEW s, NEW m, s.Hashed \in BOOLEAN
    PROVE  VerifyMessage(s, m) \in MessageCheck
BY DEF VerifyMessage, MessageCheck, verifyPayload, ed25519Verify, bytesEqual

LEMMA SignatureValidType ==
    ASSUME NEW s, NEW c
    PROVE  signatureValid(s, c) \in BOOLEAN
BY DEF signatureValid, SignatureVerify, verifyPayload, ed25519Verify

\* An address that decodes gives a check, another an error of errors.go.
LEMMA AddressCheckType ==
    ASSUME NEW s, NEW c, c.strict \in BOOLEAN
    PROVE  /\ addressCheck(s, c).ok \in BOOLEAN
           /\ addressCheck(s, c).ok => addressCheck(s, c).val \in AddressCheck
           /\ ~addressCheck(s, c).ok => addressCheck(s, c).err \in Errors
<1>1. ASSUME NEW addr, NEW h, NEW source \in {"AddressSupplied", "AddressEmbedded"}
      PROVE  matchAddress(addr, h, c.strict, source) \in AddressCheck
    <2>1. addressType(addr.Type) \in
            {"AddressBase", "AddressPointer", "AddressEnterprise", "AddressReward"}
        BY DEF addressType
    <2>2. network(addr.Network) \in {"Mainnet", "Testnet", "NetworkUnknown"}
        BY DEF network
    <2> QED BY <2>1, <2>2 DEF matchAddress, AddressCheck, credentialMatches,
                              isBase, address!isReward
<1>2. ASSUME NEW decoded, NEW source \in {"AddressSupplied", "AddressEmbedded"}
      PROVE  LET d == matchDecoded(decoded, s, c.strict, source)
             IN  /\ d.ok \in BOOLEAN
                 /\ d.ok => d.val \in AddressCheck
                 /\ ~d.ok => d.err \in Errors
    BY <1>1 DEF matchDecoded, Ok, Fail, Errors
<1> QED BY <1>2 DEF addressCheck, matchEmbeddedAddress, Fail, Errors

-----------------------------------------------------------------------------
(* The invariant is inductive. *)

LEMMA InitIInv == Init => IInv
BY CallsAssumption, NilAssumption
   DEF Init, IInv, TypeOK, ConfigShape, CallArrived, SigIsParsed,
       ResultIsComputed, Returned, AsksAddress, zeroConfig

\* Wallets signing more leave a call alone: what could arrive still can.
LEMMA SignDataStep ==
    ASSUME IInv, NEW r \in SignRequests, SignData(r)
    PROVE  IInv'
<1>1. UNCHANGED <<pc, call, todo, cfg, sig, result, err>> /\ signed \subseteq signed'
    BY DEF SignData, wallet!signData
<1>2. TypeOK' BY <1>1 DEF IInv, TypeOK, Returned
<1>3. ConfigShape' BY <1>1 DEF IInv, ConfigShape
<1>4. CallArrived' BY <1>1 DEF IInv, CallArrived, wallet!CanArrive
<1>5. SigIsParsed' BY <1>1 DEF IInv, SigIsParsed, Returned
<1>6. ResultIsComputed'
    BY <1>1 DEF IInv, ResultIsComputed, Returned, AsksAddress, resultOf, messageCheck
<1> QED BY <1>2, <1>3, <1>4, <1>5, <1>6 DEF IInv

LEMMA VerifyStep ==
    ASSUME IInv, NEW c \in Calls, Verify(c)
    PROVE  IInv'
<1>1. /\ pc = "idle" /\ pc' = "options" /\ call' = c /\ todo' = c.opts
      /\ cfg' = zeroConfig /\ UNCHANGED <<signed, sig, result, err>>
      /\ wallet!CanArrive(c.ds)
    BY DEF Verify
<1>2. TypeOK' BY <1>1, CallsAssumption DEF IInv, TypeOK, Returned, zeroConfig
<1>3. ConfigShape' BY <1>1 DEF ConfigShape, zeroConfig
<1>4. CallArrived' BY <1>1 DEF CallArrived, wallet!CanArrive
<1>5. SigIsParsed' /\ ResultIsComputed'
    BY <1>1 DEF SigIsParsed, ResultIsComputed, Returned
<1> QED BY <1>2, <1>3, <1>4, <1>5 DEF IInv

\* Every option of the package leaves a configuration of the right shape.
LEMMA ApplyOptionStep ==
    ASSUME IInv, ApplyOption
    PROVE  IInv'
<1> DEFINE o == Head(todo)
<1>1. /\ pc = "options" /\ todo # <<>> /\ todo' = Tail(todo)
      /\ cfg' = VerifyOption(o, cfg)
      /\ UNCHANGED <<signed, pc, call, sig, result, err>>
    BY DEF ApplyOption
<1>2. call \in Calls /\ todo \in Seq(OptionsOf(call))
    BY <1>1 DEF IInv, TypeOK
<1>3. o \in OptionsOf(call) /\ todo' \in Seq(OptionsOf(call))
    BY <1>1, <1>2
<1>4. o.opt \in OptionNames
    BY <1>2, <1>3, CallsAssumption DEF OptionShape
<1>5. \/ o.opt = "WithMessage" /\ cfg' = [cfg EXCEPT !.message = o.arg, !.hasMessage = TRUE]
      \/ o.opt = "WithAddress" /\ cfg' = [cfg EXCEPT !.address = o.arg, !.hasAddress = TRUE]
      \/ o.opt = "WithEmbeddedAddress" /\ cfg' = [cfg EXCEPT !.useEmbedded = TRUE]
      \/ o.opt = "StrictAddress" /\ cfg' = [cfg EXCEPT !.strict = TRUE]
    BY <1>1, <1>4 DEF VerifyOption, OptionNames
<1>6. ConfigShape' BY <1>5 DEF IInv, ConfigShape
<1>7. {cfg'.hasMessage, cfg'.hasAddress, cfg'.useEmbedded, cfg'.strict} \subseteq BOOLEAN
    BY <1>5 DEF IInv, TypeOK, ConfigShape
<1>8. TypeOK' BY <1>1, <1>3, <1>7 DEF IInv, TypeOK, Returned
<1>9. CallArrived' BY <1>1 DEF IInv, CallArrived, wallet!CanArrive
<1>10. SigIsParsed' /\ ResultIsComputed'
    BY <1>1 DEF SigIsParsed, ResultIsComputed, Returned
<1> QED BY <1>6, <1>8, <1>9, <1>10 DEF IInv

LEMMA CheckConflictStep ==
    ASSUME IInv, CheckConflict
    PROVE  IInv'
<1>1. /\ pc = "options" /\ todo = <<>> /\ UNCHANGED <<signed, call, todo, cfg, sig>>
      /\ \/ pc' = "done" /\ result' = Nil /\ err' = "ErrConflictingAddress"
         \/ pc' = "parse" /\ UNCHANGED <<result, err>>
    BY DEF CheckConflict, ReturnError
<1>2. "ErrConflictingAddress" \in Errors /\ "ErrConflictingAddress" # Nil
    BY NilAssumption DEF Errors
<1>3. TypeOK' BY <1>1, <1>2 DEF IInv, TypeOK, Returned
<1>4. ConfigShape' BY <1>1 DEF IInv, ConfigShape
<1>5. CallArrived' BY <1>1 DEF IInv, CallArrived, wallet!CanArrive
<1>6. SigIsParsed' /\ ResultIsComputed'
    BY <1>1, <1>2 DEF SigIsParsed, ResultIsComputed, Returned
<1> QED BY <1>3, <1>4, <1>5, <1>6 DEF IInv

LEMMA ParseInputStep ==
    ASSUME IInv, ParseInput
    PROVE  IInv'
<1>1. pc = "parse" /\ UNCHANGED <<signed, call, todo, cfg>>
    BY DEF ParseInput
<1>2. ConfigShape' BY <1>1 DEF IInv, ConfigShape
<1>3. CASE Parse(call.ds).ok
    <2>1. /\ pc' = "signature" /\ sig' = Parse(call.ds).val
          /\ UNCHANGED <<result, err>>
        BY <1>3 DEF ParseInput
    <2>2. TypeOK' BY <1>1, <2>1 DEF IInv, TypeOK, Returned
    <2>3. CallArrived' BY <1>1, <2>1 DEF IInv, CallArrived, wallet!CanArrive
    <2>4. SigIsParsed' /\ ResultIsComputed'
        BY <1>1, <1>3, <2>1 DEF SigIsParsed, ResultIsComputed, Returned
    <2> QED BY <1>2, <2>2, <2>3, <2>4 DEF IInv
<1>4. CASE ~Parse(call.ds).ok
    <2>1. pc' = "done" /\ result' = Nil /\ err' = Parse(call.ds).err
        BY <1>4 DEF ParseInput, ReturnError
    <2>2. err' \in Errors /\ err' # Nil
        BY <1>4, <2>1, ParseReturns, NilAssumption
    <2>3. TypeOK' BY <1>1, <2>1, <2>2 DEF IInv, TypeOK, Returned
    <2>4. CallArrived' BY <1>1, <2>1 DEF IInv, CallArrived, wallet!CanArrive
    <2>5. SigIsParsed' /\ ResultIsComputed'
        BY <2>1, <2>2 DEF SigIsParsed, ResultIsComputed, Returned
    <2> QED BY <1>2, <2>3, <2>4, <2>5 DEF IInv
<1> QED BY <1>3, <1>4

LEMMA CheckSignatureStep ==
    ASSUME IInv, CheckSignature
    PROVE  IInv'
<1>1. /\ pc = "signature" /\ pc' = "message" /\ UNCHANGED <<signed, call, todo, cfg, sig, err>>
      /\ result' = resultOf(Nil, Nil)
    BY DEF CheckSignature, resultOf
<1>2. TypeOK'
    BY <1>1, SignatureValidType DEF IInv, TypeOK, Returned, resultOf
<1>3. ConfigShape' BY <1>1 DEF IInv, ConfigShape
<1>4. CallArrived' BY <1>1 DEF IInv, CallArrived, wallet!CanArrive
<1>5. SigIsParsed' BY <1>1 DEF IInv, SigIsParsed, Returned
<1>6. ResultIsComputed' BY <1>1 DEF ResultIsComputed, Returned, resultOf
<1> QED BY <1>2, <1>3, <1>4, <1>5, <1>6 DEF IInv

LEMMA CheckMessageStep ==
    ASSUME IInv, CheckMessage
    PROVE  IInv'
<1>1. /\ pc = "message" /\ pc' = "address"
      /\ UNCHANGED <<signed, call, todo, cfg, sig, err>>
      /\ result = resultOf(Nil, Nil)
    BY DEF CheckMessage, IInv, ResultIsComputed
<1>2. result' = resultOf(messageCheck, Nil)
    BY <1>1 DEF CheckMessage, resultOf, messageCheck
<1>3. sig.Hashed \in BOOLEAN
    BY <1>1, ParseReturns DEF IInv, SigIsParsed
<1>4. messageCheck \in MessageCheck \cup {Nil}
    BY <1>3, MessageCheckType DEF messageCheck
<1>5. TypeOK'
    BY <1>1, <1>2, <1>4, SignatureValidType DEF IInv, TypeOK, Returned, resultOf
<1>6. ConfigShape' BY <1>1 DEF IInv, ConfigShape
<1>7. CallArrived' BY <1>1 DEF IInv, CallArrived, wallet!CanArrive
<1>8. SigIsParsed' BY <1>1 DEF IInv, SigIsParsed, Returned
<1>9. ResultIsComputed'
    BY <1>1, <1>2 DEF ResultIsComputed, Returned, resultOf, messageCheck
<1> QED BY <1>5, <1>6, <1>7, <1>8, <1>9 DEF IInv

\* A message check is there exactly when a message was expected.
LEMMA MessageCheckPresent ==
    ASSUME IInv, pc = "address"
    PROVE  messageCheck # Nil <=> cfg.hasMessage
<1>1. sig.Hashed \in BOOLEAN
    BY ParseReturns DEF IInv, SigIsParsed
<1>2. VerifyMessage(sig, cfg.message) # Nil
    BY <1>1, MessageCheckType, NilAssumption
<1> QED BY <1>2 DEF messageCheck

LEMMA SkipAddressStep ==
    ASSUME IInv, SkipAddress
    PROVE  IInv'
<1>1. /\ pc = "address" /\ pc' = "done" /\ ~AsksAddress
      /\ UNCHANGED <<signed, call, todo, cfg, sig, result, err>>
      /\ result = resultOf(messageCheck, Nil)
    BY DEF SkipAddress, AsksAddress, IInv, ResultIsComputed
<1>2. result.Message # Nil <=> cfg.hasMessage
    BY <1>1, MessageCheckPresent DEF resultOf
<1>3. TypeOK'
    BY <1>1, <1>2 DEF IInv, TypeOK, Returned, resultOf, AsksAddress
<1>4. ConfigShape' BY <1>1 DEF IInv, ConfigShape
<1>5. CallArrived' BY <1>1 DEF IInv, CallArrived, wallet!CanArrive
<1>6. SigIsParsed' BY <1>1 DEF IInv, SigIsParsed, Returned
<1>7. ResultIsComputed'
    BY <1>1 DEF ResultIsComputed, Returned, resultOf, messageCheck, AsksAddress
<1> QED BY <1>3, <1>4, <1>5, <1>6, <1>7 DEF IInv

LEMMA CheckAddressStep ==
    ASSUME IInv, CheckAddress
    PROVE  IInv'
<1> DEFINE check == addressCheck(sig, cfg)
<1>1. /\ pc = "address" /\ pc' = "done" /\ AsksAddress
      /\ UNCHANGED <<signed, call, todo, cfg, sig>>
      /\ result = resultOf(messageCheck, Nil)
    BY DEF CheckAddress, ReturnError, AsksAddress, IInv, ResultIsComputed
<1>2. ConfigShape' BY <1>1 DEF IInv, ConfigShape
<1>3. CallArrived' BY <1>1 DEF IInv, CallArrived, wallet!CanArrive
<1>4. cfg.strict \in BOOLEAN
    BY DEF IInv, TypeOK
<1>5. CASE check.ok
    <2>1. /\ result' = [result EXCEPT !.Address = check.val]
          /\ UNCHANGED err
        BY <1>5 DEF CheckAddress
    <2>2. result' = resultOf(messageCheck, check.val)
        BY <1>1, <2>1 DEF resultOf
    <2>3. check.val \in AddressCheck /\ check.val # Nil
        BY <1>4, <1>5, AddressCheckType, NilAssumption
    <2>4. messageCheck # Nil <=> cfg.hasMessage
        BY <1>1, MessageCheckPresent
    <2>5. /\ result.SignatureValid = result'.SignatureValid
          /\ result'.Message = messageCheck /\ result'.Address = check.val
          /\ result.Message = messageCheck
        BY <1>1, <2>2 DEF resultOf
    <2>6. TypeOK'
        BY <1>1, <2>1, <2>3, <2>4, <2>5 DEF IInv, TypeOK, Returned, AsksAddress
    <2>7. SigIsParsed' BY <1>1 DEF IInv, SigIsParsed, Returned
    <2>8. ResultIsComputed'
        BY <1>1, <1>5, <2>2 DEF ResultIsComputed, Returned, resultOf, messageCheck,
                                AsksAddress
    <2> QED BY <1>2, <1>3, <2>6, <2>7, <2>8 DEF IInv
<1>6. CASE ~check.ok
    <2>1. result' = Nil /\ err' = check.err
        BY <1>6 DEF CheckAddress, ReturnError
    <2>2. err' \in Errors /\ err' # Nil
        BY <1>4, <1>6, <2>1, AddressCheckType, NilAssumption
    <2>3. TypeOK' BY <1>1, <2>1, <2>2 DEF IInv, TypeOK, Returned
    <2>4. SigIsParsed' /\ ResultIsComputed'
        BY <1>1, <2>2 DEF SigIsParsed, ResultIsComputed, Returned
    <2> QED BY <1>2, <1>3, <2>3, <2>4 DEF IInv
<1> QED BY <1>5, <1>6

LEMMA ReturnStep ==
    ASSUME IInv, Return
    PROVE  IInv'
BY CallsAssumption, NilAssumption
   DEF Return, IInv, TypeOK, ConfigShape, CallArrived, SigIsParsed,
       ResultIsComputed, Returned, AsksAddress, zeroConfig

LEMMA IInvInductive == IInv /\ [Next]_vars => IInv'
<1> SUFFICES ASSUME IInv, [Next]_vars PROVE IInv'
    OBVIOUS
<1>1. CASE UNCHANGED vars
    BY <1>1 DEF vars, IInv, TypeOK, ConfigShape, CallArrived, SigIsParsed,
                ResultIsComputed, Returned, AsksAddress, resultOf, messageCheck,
                wallet!CanArrive
<1>2. CASE Next
    BY <1>2, SignDataStep, VerifyStep, ApplyOptionStep, CheckConflictStep,
       ParseInputStep, CheckSignatureStep, CheckMessageStep, SkipAddressStep,
       CheckAddressStep, ReturnStep DEF Next
<1> QED BY <1>1, <1>2

\* The inductive invariant of Verify.
LEMMA Inductive == Spec => []IInv
BY InitIInv, IInvInductive, PTL DEF Spec

-----------------------------------------------------------------------------
(* The theorems. *)

\* A call of Verify ends with a result holding exactly the checks asked for,
\* or with one of the errors of errors.go and no result.
THEOREM TypeCorrect == Spec => []TypeOK
<1>1. IInv => TypeOK
    BY DEF IInv
<1> QED BY <1>1, Inductive, PTL

\* The parts of a signature Parse accepted are those of the input, and a
\* signature that verifies for its key was made by that key's wallet.
LEMMA ParsedSignature ==
    ASSUME IInv, Returned, sig.signature.by = sig.PublicKey.id
    PROVE  /\ sig.protectedRaw = call.ds.signature.protected
           /\ sig.signature \in signed
<1>1. call \in Calls /\ Parse(call.ds).ok /\ sig = Parse(call.ds).val
    BY DEF IInv, TypeOK, SigIsParsed, Returned
<1>2. /\ call.ds.signature # NotHex /\ cose!DecodeSign1(call.ds.signature).ok
      /\ call.ds.key # NotHex /\ cose!DecodeKey(call.ds.key).ok
      /\ sig.PublicKey = cose!DecodeKey(call.ds.key).val
      /\ sig.protectedRaw = cose!DecodeSign1(call.ds.signature).val.ProtectedRaw
      /\ sig.signature = cose!DecodeSign1(call.ds.signature).val.Signature
    BY <1>1 DEF Parse, Ok, Fail
<1>3. /\ call.ds.signature.signature # Undecodable
      /\ sig.protectedRaw = call.ds.signature.protected
      /\ sig.signature = call.ds.signature.signature
    BY <1>2 DEF cose!DecodeSign1, cose!decodeProtected, cose!decodeHashed,
                cose!Ok, cose!Fail
<1>4. sig.signature.by # Nil
    BY <1>1, <1>2, CallsAssumption DEF KeyShape
<1>5. wallet!CanArrive(call.ds)
    BY DEF IInv, CallArrived, Returned
<1> QED BY <1>2, <1>3, <1>4, <1>5 DEF wallet!CanArrive

\* The result of an accepted call: every check asked for was passed.
LEMMA AcceptedMeans ==
    ASSUME IInv, Accepted
    PROVE  /\ signatureValid(sig, cfg)
           /\ cfg.hasMessage => VerifyMessage(sig, cfg.message).Matched
           /\ result.PublicKey = sig.PublicKey
<1>1. \E a : result = resultOf(messageCheck, a)
    BY DEF IInv, ResultIsComputed, Accepted, Returned
<1>2. result.Message = messageCheck /\ result.SignatureValid = signatureValid(sig, cfg)
      /\ result.PublicKey = sig.PublicKey
    BY <1>1 DEF resultOf
<1>3. cfg.hasMessage <=> result.Message # Nil
    BY DEF IInv, TypeOK, Accepted, Returned
<1> QED BY <1>2, <1>3 DEF Accepted, Valid, messageCheck

\* An accepted call with WithMessage: the message, its digest or the digest it
\* spells was signed, under the header presented, by the key returned.
THEOREM AcceptedMessageWasSigned == Spec => []MessageWasSigned
<1>1. ASSUME IInv, Accepted, cfg.hasMessage
      PROVE  \E s \in signed :
                /\ s.by = result.PublicKey.id
                /\ s.over.protected = call.ds.signature.protected
                /\ \/ s.over.payload = AsBytes(cfg.message)
                   \/ s.over.payload = AsBytes(keyHash224(cfg.message))
                   \/ /\ SpellsDigest(cfg.message)
                      /\ s.over.payload = AsBytes(hexDecode(cfg.message))
    <2> DEFINE d == digest(cfg.message, sig.Hashed)
    <2>1. /\ signatureValid(sig, cfg) /\ VerifyMessage(sig, cfg.message).Matched
          /\ result.PublicKey = sig.PublicKey
        BY <1>1, AcceptedMeans
    <2>2. verifyPayload(sig, d)
        <3>1. CASE detached(sig)
            BY <1>1, <2>1, <3>1 DEF signatureValid
        <3>2. CASE ~detached(sig)
            <4>1. AsBytes(sig.Payload) = AsBytes(d)
                BY <2>1, <3>2 DEF VerifyMessage, bytesEqual
            <4>2. cose!SigStructure(sig.protectedRaw, sig.Payload)
                    = cose!SigStructure(sig.protectedRaw, d)
                BY <4>1 DEF cose!SigStructure, AsBytes
            <4> QED BY <2>1, <3>2, <4>2 DEF signatureValid, SignatureVerify, verifyPayload
        <3> QED BY <3>1, <3>2
    <2>3. /\ sig.signature.by = sig.PublicKey.id
          /\ sig.signature.over = cose!SigStructure(sig.protectedRaw, d)
        BY <2>2 DEF verifyPayload, ed25519Verify
    <2>4. /\ sig.protectedRaw = call.ds.signature.protected
          /\ sig.signature \in signed
        BY <1>1, <2>3, ParsedSignature DEF Accepted
    <2>5. /\ sig.signature.over.protected = call.ds.signature.protected
          /\ sig.signature.over.payload = AsBytes(d)
        BY <2>3, <2>4 DEF cose!SigStructure, AsBytes
    <2>6. \/ d = cfg.message \/ d = keyHash224(cfg.message)
          \/ SpellsDigest(cfg.message) /\ d = hexDecode(cfg.message)
        BY DEF digest, decodeHexDigest, SpellsDigest, Ok, Fail
    <2>7. \/ sig.signature.over.payload = AsBytes(cfg.message)
          \/ sig.signature.over.payload = AsBytes(keyHash224(cfg.message))
          \/ /\ SpellsDigest(cfg.message)
             /\ sig.signature.over.payload = AsBytes(hexDecode(cfg.message))
        BY <2>5, <2>6
    <2> QED BY <2>1, <2>3, <2>4, <2>5, <2>7
<1>2. IInv => MessageWasSigned
    BY <1>1 DEF MessageWasSigned
<1> QED BY <1>2, Inductive, PTL

\* For a detached payload the message check is the signature check.
THEOREM DetachedVerdictsAlwaysAgree == Spec => []DetachedVerdictsAgree
<1>1. ASSUME IInv, Returned, cfg.hasMessage, detached(sig)
      PROVE  result.Message.Matched = result.SignatureValid
    <2>1. \E a : result = resultOf(messageCheck, a)
        BY <1>1 DEF IInv, ResultIsComputed, Returned
    <2>2. /\ result.Message = VerifyMessage(sig, cfg.message)
          /\ result.SignatureValid = signatureValid(sig, cfg)
        BY <1>1, <2>1 DEF resultOf, messageCheck
    <2> QED BY <1>1, <2>2 DEF VerifyMessage, signatureValid
<1>2. IInv => DetachedVerdictsAgree
    BY <1>1 DEF DetachedVerdictsAgree
<1> QED BY <1>2, Inductive, PTL

-----------------------------------------------------------------------------
(* Addresses. *)

\* An address check that ran compared the key's hash with the address the
\* call was about.
LEMMA AddressCheckOf ==
    ASSUME IInv, Returned, AsksAddress
    PROVE  /\ address!Parse(checkedAddress).ok
           /\ \E source :
                result.Address = matchAddress(address!Parse(checkedAddress).val,
                                              KeyHash(sig), cfg.strict, source)
           /\ result.KeyHash = KeyHash(sig)
<1>1. /\ addressCheck(sig, cfg).ok
      /\ result.Address = addressCheck(sig, cfg).val
      /\ result.KeyHash = KeyHash(sig)
    BY DEF IInv, ResultIsComputed, resultOf
<1>2. CASE cfg.useEmbedded
    <2>1. Parse(call.ds).ok /\ sig = Parse(call.ds).val
        BY DEF IInv, SigIsParsed
    <2>2. /\ cose!DecodeSign1(call.ds.signature).ok
          /\ sig.Address = cose!DecodeSign1(call.ds.signature).val.Address
        BY <2>1 DEF Parse, Ok, Fail
    <2>3. sig.Address \in {Nil, call.ds.signature.protected.address}
        BY <2>2 DEF cose!DecodeSign1, cose!decodeProtected, cose!decodeHashed,
                    cose!Ok, cose!Fail
    <2>4. sig.Address = checkedAddress
        BY <1>1, <1>2, <2>3 DEF addressCheck, matchEmbeddedAddress, Fail, checkedAddress
    <2>5. addressCheck(sig, cfg) =
            matchDecoded(address!Parse(checkedAddress), sig, cfg.strict, "AddressEmbedded")
        BY <1>1, <1>2, <2>4 DEF addressCheck, matchEmbeddedAddress, Fail
    <2> QED BY <1>1, <2>5 DEF matchDecoded, Ok, Fail
<1>3. CASE ~cfg.useEmbedded
    <2>1. addressCheck(sig, cfg) =
            matchDecoded(address!Decode(cfg.address), sig, cfg.strict, "AddressSupplied")
        BY <1>3 DEF addressCheck
    <2>2. address!Decode(cfg.address).ok
        BY <1>1, <2>1 DEF matchDecoded, Fail
    <2>3. /\ address!Parse(checkedAddress).ok
          /\ address!Decode(cfg.address).val = address!Parse(checkedAddress).val
        BY <1>3, <2>2 DEF address!Decode, address!Fail, checkedAddress
    <2> QED BY <1>1, <2>1, <2>2, <2>3 DEF matchDecoded, Ok
<1> QED BY <1>2, <1>3

\* MatchedVia names a credential the key holds: for every address, strict or
\* not, supplied or embedded, a script hash never counts as one.
THEOREM MatchedViaIsAlwaysHeld == Spec => []MatchedViaIsHeld
<1>1. ASSUME IInv, Returned, result.Address # Nil
      PROVE  /\ result.Address.MatchedVia = "CredentialPayment" =>
                    /\ checkedAddress.first = result.KeyHash
                    /\ checkedAddress.type \in {0, 2, 6}
             /\ result.Address.MatchedVia = "CredentialStake" =>
                    \/ checkedAddress.second = result.KeyHash /\ checkedAddress.type \in {0, 1}
                    \/ checkedAddress.first = result.KeyHash /\ checkedAddress.type = 14
             /\ result.Address.Matched => result.Address.MatchedVia # "CredentialNone"
    <2> DEFINE a == address!Parse(checkedAddress).val
    <2>1. AsksAddress
        BY <1>1 DEF IInv, TypeOK, AsksAddress
    <2>2. /\ address!Parse(checkedAddress).ok
          /\ result.KeyHash = KeyHash(sig)
          /\ \E source : result.Address = matchAddress(a, KeyHash(sig), cfg.strict, source)
        BY <1>1, <2>1, AddressCheckOf
    <2>3. PICK source : result.Address = matchAddress(a, KeyHash(sig), cfg.strict, source)
        BY <2>2
    <2> DEFINE payment == credentialMatches(a.Payment, KeyHash(sig))
               reward  == address!isReward(a.Type) /\ credentialMatches(a.Stake, KeyHash(sig))
               base    == isBase(a.Type) /\ credentialMatches(a.Stake, KeyHash(sig))
    <2>4. /\ result.Address.MatchedVia =
                IF payment THEN "CredentialPayment"
                ELSE IF reward \/ base THEN "CredentialStake" ELSE "CredentialNone"
          /\ result.Address.Matched = (payment \/ reward \/ (base /\ ~cfg.strict))
        <3> HIDE DEF payment, reward, base
        <3>1. matchAddress(a, KeyHash(sig), cfg.strict, source) =
                [Matched    |-> payment \/ reward \/ (base /\ ~cfg.strict),
                 MatchedVia |-> IF payment THEN "CredentialPayment"
                                ELSE IF reward \/ base THEN "CredentialStake"
                                ELSE "CredentialNone",
                 Strict     |-> cfg.strict, Source |-> source,
                 Type       |-> addressType(a.Type),
                 Network    |-> network(a.Network)]
            BY Zenon DEF matchAddress, payment, reward, base
        <3> QED BY <2>3, <3>1
    <2>5. /\ payment => /\ checkedAddress.first = KeyHash(sig)
                        /\ checkedAddress.type \in {0, 2, 6}
          /\ reward => checkedAddress.first = KeyHash(sig) /\ checkedAddress.type = 14
          /\ base => checkedAddress.second = KeyHash(sig) /\ checkedAddress.type \in {0, 1}
        BY <2>2, HeldCredential, Zenon
    <2> QED
        <3> HIDE DEF payment, reward, base
        <3> QED BY <2>2, <2>4, <2>5
<1>2. IInv => MatchedViaIsHeld
    BY <1>1 DEF MatchedViaIsHeld
<1> QED BY <1>2, Inductive, PTL

\* The network reported for a bech32 address is the one its prefix shows.
THEOREM Bech32NetworkIsAlwaysShown == Spec => []Bech32NetworkIsShown
<1>1. ASSUME IInv, Returned, result.Address # Nil,
             result.Address.Source = "AddressSupplied",
             cfg.address.bech32 # Undecodable
      PROVE  result.Address.Network =
                IF cfg.address.bech32.hrp \in {"addr", "stake"}
                THEN "Mainnet" ELSE "Testnet"
    <2> DEFINE a == address!Decode(cfg.address).val
    <2>1. AsksAddress
        BY <1>1 DEF IInv, TypeOK, AsksAddress
    <2>2. /\ addressCheck(sig, cfg).ok
          /\ result.Address = addressCheck(sig, cfg).val
        BY <1>1, <2>1 DEF IInv, ResultIsComputed, resultOf
    <2>3. ~cfg.useEmbedded
        <3>1. ASSUME cfg.useEmbedded
              PROVE  addressCheck(sig, cfg).val.Source = "AddressEmbedded"
            BY <2>2, <3>1 DEF addressCheck, matchEmbeddedAddress, matchDecoded,
                              matchAddress, Ok, Fail
        <3> QED BY <1>1, <2>2, <3>1
    <2>4. /\ address!Decode(cfg.address).ok
          /\ result.Address = matchAddress(a, KeyHash(sig), cfg.strict, "AddressSupplied")
        BY <2>2, <2>3 DEF addressCheck, matchDecoded, Ok, Fail
    <2>5. address!checkHRP(cfg.address.bech32.hrp, a) = "ok"
        BY <1>1, <2>4 DEF address!Decode, address!Fail
    <2>6. result.Address.Network = network(a.Network)
        BY <2>4 DEF matchAddress
    <2> QED BY <2>5, <2>6, ShownNetwork
<1>2. IInv => Bech32NetworkIsShown
    BY <1>1 DEF Bech32NetworkIsShown
<1> QED BY <1>2, Inductive, PTL

-----------------------------------------------------------------------------
(* Verify implements its contract. *)

\* Wallets are the only source of signatures.
SignedByWallets == signed \subseteq {wallet!signatureOf(r) : r \in SignRequests}

\* todo is what is left of the options, cfg what the others say.
OptionsApplied ==
    pc # "idle" =>
        \E n \in 0..Len(call.opts) :
            /\ n + Len(todo) = Len(call.opts)
            /\ \A i \in 1..Len(todo) : todo[i] = call.opts[n + i]
            /\ AppliedUpTo(cfg, call.opts, n)

\* Nothing is looked at while the options conflict.
ConflictIsFirst ==
    pc \in {"parse", "signature", "message", "address"} \/ Returned =>
        ~conflicting(cfg)

\* An error has a reason in the input.
ErrorHasReason ==
    pc = "done" /\ err # Nil =>
        \/ conflicting(cfg)
        \/ ~Parse(call.ds).ok
        \/ AsksAddress /\ ~addressCheck(Parse(call.ds).val, cfg).ok

RInv == SignedByWallets /\ OptionsApplied /\ ConflictIsFirst /\ ErrorHasReason

OutcomeIsPromised == pc = "done" => outcome = promise!Outcome(call, signed)

-----------------------------------------------------------------------------
(* The invariant is inductive, given that of VerifierProofs. *)

LEMMA InitRInv == Init => RInv
BY CallsAssumption, NilAssumption
   DEF Init, wallet!WalletInit, RInv, SignedByWallets, OptionsApplied,
       ConflictIsFirst, ErrorHasReason, Returned

\* A step inside a call that leaves the options alone.
LEMMA OptionsKept ==
    ASSUME OptionsApplied, pc # "idle", UNCHANGED <<call, todo, cfg>>
    PROVE  OptionsApplied'
BY DEF OptionsApplied

\* The options not yet applied lose their head to the configuration.
LEMMA ApplyOptionKeeps ==
    ASSUME IInv, RInv, ApplyOption
    PROVE  RInv'
<1>1. /\ pc = "options" /\ todo # <<>> /\ todo' = Tail(todo)
      /\ cfg' = VerifyOption(Head(todo), cfg)
      /\ UNCHANGED <<signed, pc, call, sig, result, err>>
    BY DEF ApplyOption
<1>2. call \in Calls /\ todo \in Seq(OptionsOf(call)) /\ call.opts \in Seq(OptionsOf(call))
    BY <1>1, CallsAssumption DEF IInv, TypeOK
<1>3. PICK n \in 0..Len(call.opts) :
            /\ n + Len(todo) = Len(call.opts)
            /\ \A i \in 1..Len(todo) : todo[i] = call.opts[n + i]
            /\ AppliedUpTo(cfg, call.opts, n)
    BY <1>1 DEF RInv, OptionsApplied
<1>4. /\ Len(todo) \in Nat \ {0} /\ Len(call.opts) \in Nat
      /\ Head(todo) = todo[1]
      /\ Len(Tail(todo)) = Len(todo) - 1
      /\ \A i \in 1..Len(Tail(todo)) : Tail(todo)[i] = todo[i + 1]
    BY <1>1, <1>2
<1>5. n + 1 \in 1..Len(call.opts) /\ Head(todo) = call.opts[n + 1]
    BY <1>3, <1>4
<1>6. call.opts[n + 1].opt \in OptionNames
    <2>1. call.opts[n + 1] \in OptionsOf(call)
        BY <1>2, <1>5
    <2> QED BY <1>2, <2>1, CallsAssumption DEF OptionShape
<1>7. AppliedUpTo(cfg', call.opts, n + 1)
    BY <1>1, <1>3, <1>5, <1>6, OptionApplied DEF IInv, ConfigShape
<1>8. /\ n + 1 \in 0..Len(call.opts)
      /\ (n + 1) + Len(todo') = Len(call.opts)
      /\ \A i \in 1..Len(todo') : todo'[i] = call.opts[(n + 1) + i]
    <2>1. Len(todo') = Len(todo) - 1
        BY <1>1, <1>4
    <2>2. ASSUME NEW i \in 1..Len(todo')
          PROVE  todo'[i] = call.opts[(n + 1) + i]
        <3>1. todo'[i] = todo[i + 1] /\ i + 1 \in 1..Len(todo)
            BY <1>1, <1>4, <2>1, <2>2
        <3>2. n + (i + 1) = (n + 1) + i
            BY <1>4, <2>1, <2>2
        <3> QED BY <1>3, <3>1, <3>2
    <2>3. n + 1 \in 0..Len(call.opts)
        BY <1>4, <1>5
    <2>4. (n + 1) + Len(todo') = Len(call.opts)
        <3>1. n \in Nat /\ Len(todo) \in Nat /\ n + Len(todo) = Len(call.opts)
            BY <1>3, <1>4
        <3> QED BY <2>1, <3>1
    <2> QED BY <2>2, <2>3, <2>4
<1>9. OptionsApplied'
    BY <1>1, <1>7, <1>8 DEF OptionsApplied
<1>10. SignedByWallets' /\ ConflictIsFirst' /\ ErrorHasReason'
    BY <1>1 DEF RInv, SignedByWallets, ConflictIsFirst, ErrorHasReason, Returned
<1> QED BY <1>9, <1>10 DEF RInv

LEMMA VerifyKeeps ==
    ASSUME RInv, NEW c \in Calls, Verify(c)
    PROVE  RInv'
<1>1. /\ pc = "idle" /\ pc' = "options" /\ call' = c /\ todo' = c.opts
      /\ cfg' = zeroConfig /\ UNCHANGED <<signed, sig, result, err>>
    BY DEF Verify
<1>2. c.opts \in Seq(OptionsOf(c))
    BY CallsAssumption
<1>3. AppliedUpTo(zeroConfig, c.opts, 0)
    BY DEF AppliedUpTo, Given, zeroConfig
<1>4. /\ 0 \in 0..Len(c.opts)
      /\ 0 + Len(c.opts) = Len(c.opts)
      /\ \A i \in 1..Len(c.opts) : c.opts[i] = c.opts[0 + i]
    BY <1>2
<1>5. OptionsApplied'
    BY <1>1, <1>3, <1>4 DEF OptionsApplied
<1>6. SignedByWallets' /\ ConflictIsFirst' /\ ErrorHasReason'
    BY <1>1 DEF RInv, SignedByWallets, ConflictIsFirst, ErrorHasReason, Returned
<1> QED BY <1>5, <1>6 DEF RInv

LEMMA RInvInductive == IInv /\ RInv /\ [Next]_vars => RInv'
<1> SUFFICES ASSUME IInv, RInv, [Next]_vars PROVE RInv'
    OBVIOUS
<1> USE DEF Returned
<1>1. CASE UNCHANGED vars
    BY <1>1 DEF vars, RInv, SignedByWallets, OptionsApplied, ConflictIsFirst,
                ErrorHasReason, AsksAddress
<1>2. ASSUME NEW r \in SignRequests, SignData(r) PROVE RInv'
    <2>1. /\ UNCHANGED <<pc, call, todo, cfg, sig, result, err>>
          /\ signed' = signed \cup {wallet!signatureOf(r)}
        BY <1>2 DEF SignData, wallet!signData
    <2>2. SignedByWallets'
        BY <2>1 DEF RInv, SignedByWallets
    <2>3. OptionsApplied' /\ ConflictIsFirst' /\ ErrorHasReason'
        BY <2>1 DEF RInv, OptionsApplied, ConflictIsFirst, ErrorHasReason, AsksAddress
    <2> QED BY <2>2, <2>3 DEF RInv
<1>3. CASE CheckConflict
    <2>1. pc = "options" /\ UNCHANGED <<signed, call, todo, cfg, sig>>
        BY <1>3 DEF CheckConflict
    <2>2. OptionsApplied'
        BY <2>1, OptionsKept DEF RInv
    <2>3. \/ conflicting(cfg) /\ pc' = "done" /\ err' = "ErrConflictingAddress"
          \/ ~conflicting(cfg) /\ pc' = "parse"
        BY <1>3 DEF CheckConflict, ReturnError
    <2>4. "ErrConflictingAddress" # Nil
        BY NilAssumption DEF Errors
    <2> QED BY <2>1, <2>2, <2>3, <2>4
            DEF RInv, SignedByWallets, ConflictIsFirst, ErrorHasReason
<1>4. CASE ParseInput
    <2>1. pc = "parse" /\ UNCHANGED <<signed, call, todo, cfg>>
        BY <1>4 DEF ParseInput
    <2>2. OptionsApplied'
        BY <2>1, OptionsKept DEF RInv
    <2>3. \/ Parse(call.ds).ok /\ pc' = "signature"
          \/ ~Parse(call.ds).ok /\ pc' = "done"
        BY <1>4 DEF ParseInput, ReturnError
    <2> QED BY <2>1, <2>2, <2>3
            DEF RInv, SignedByWallets, ConflictIsFirst, ErrorHasReason
<1>5. CASE CheckSignature \/ CheckMessage
    <2>1. /\ pc \in {"signature", "message"} /\ pc' \in {"message", "address"}
          /\ UNCHANGED <<signed, call, todo, cfg>>
        BY <1>5 DEF CheckSignature, CheckMessage
    <2>2. OptionsApplied'
        BY <2>1, OptionsKept DEF RInv
    <2> QED BY <2>1, <2>2
            DEF RInv, SignedByWallets, ConflictIsFirst, ErrorHasReason
<1>6. CASE SkipAddress
    <2>1. pc = "address" /\ pc' = "done" /\ UNCHANGED <<signed, call, todo, cfg, err>>
        BY <1>6 DEF SkipAddress
    <2>2. OptionsApplied'
        BY <2>1, OptionsKept DEF RInv
    <2>3. err = Nil
        BY <2>1 DEF IInv, TypeOK
    <2> QED BY <2>1, <2>2, <2>3
            DEF RInv, SignedByWallets, ConflictIsFirst, ErrorHasReason
<1>7. CASE CheckAddress
    <2>1. /\ pc = "address" /\ UNCHANGED <<signed, call, todo, cfg, sig>>
          /\ AsksAddress /\ pc' = "done"
        BY <1>7 DEF CheckAddress, ReturnError, AsksAddress
    <2>2. OptionsApplied'
        BY <2>1, OptionsKept DEF RInv
    <2>3. sig = Parse(call.ds).val /\ err = Nil
        BY <2>1 DEF IInv, SigIsParsed, TypeOK
    <2>4. err' # Nil => ~addressCheck(sig, cfg).ok
        BY <1>7, <2>3 DEF CheckAddress
    <2>5. ErrorHasReason'
        BY <2>1, <2>3, <2>4 DEF ErrorHasReason, AsksAddress
    <2> QED BY <2>1, <2>2, <2>5 DEF RInv, SignedByWallets, ConflictIsFirst
<1>8. CASE Return
    BY <1>8 DEF Return, RInv, SignedByWallets, OptionsApplied, ConflictIsFirst,
                ErrorHasReason
<1> QED BY <1>1, <1>2, <1>3, <1>4, <1>5, <1>6, <1>7, <1>8, VerifyKeeps,
           ApplyOptionKeeps DEF Next

LEMMA RefinementInvariant == Spec => [](IInv /\ RInv)
<1>1. Init => IInv /\ RInv
    BY InitIInv, InitRInv
<1>2. (IInv /\ RInv) /\ [Next]_vars => (IInv /\ RInv)'
    BY IInvInductive, RInvInductive
<1> QED BY <1>1, <1>2, PTL DEF Spec

-----------------------------------------------------------------------------
(* The outcome of a call. *)

\* Once the options are used up, the configuration says what they say, and its
\* arguments are those of the call.
LEMMA ConfigRepresents ==
    ASSUME IInv, RInv, pc \notin {"idle", "options"}
    PROVE  /\ Represents(cfg, call.opts)
           /\ cfg.hasMessage => MessageShape(cfg.message)
           /\ cfg.hasAddress => AddressShape(cfg.address)
<1>1. /\ call \in Calls /\ todo = <<>>
      /\ {cfg.hasMessage, cfg.hasAddress, cfg.useEmbedded, cfg.strict} \subseteq BOOLEAN
    BY DEF IInv, TypeOK
<1>2. call.opts \in Seq(OptionsOf(call)) /\ Len(call.opts) \in Nat
      /\ \A o \in OptionsOf(call) : OptionShape(o)
    BY <1>1, CallsAssumption
<1>3. AppliedUpTo(cfg, call.opts, Len(call.opts))
    <2>1. PICK n \in 0..Len(call.opts) : /\ n + Len(todo) = Len(call.opts)
                                         /\ AppliedUpTo(cfg, call.opts, n)
        BY DEF RInv, OptionsApplied
    <2>2. Len(todo) = 0
        BY <1>1
    <2>3. n = Len(call.opts)
        BY <1>2, <2>1, <2>2
    <2> QED BY <2>1, <2>3
<1>4. Represents(cfg, call.opts)
    BY <1>1, <1>2, <1>3, AppliedRepresents
<1>5. ASSUME NEW name, NEW v, IsLatest(call.opts, Len(call.opts), name, v)
      PROVE  \E o \in OptionsOf(call) : o.opt = name /\ v = o.arg /\ OptionShape(o)
    <2>1. PICK i \in 1..Len(call.opts) : call.opts[i].opt = name /\ v = call.opts[i].arg
        BY <1>5 DEF IsLatest
    <2>2. call.opts[i] \in OptionsOf(call)
        BY <1>2
    <2> QED BY <1>2, <2>1, <2>2
<1>6. cfg.hasMessage => MessageShape(cfg.message)
    BY <1>3, <1>5 DEF AppliedUpTo, OptionShape
<1>7. cfg.hasAddress => AddressShape(cfg.address)
    BY <1>3, <1>5 DEF AppliedUpTo, OptionShape
<1> QED BY <1>4, <1>6, <1>7

\* What wallets sign is a Sig_structure, and nothing else arrives under a key.
LEMMA SignaturesArrive ==
    ASSUME IInv, RInv, pc # "idle"
    PROVE  Unforged(call.ds, signed) /\ AreSigStructures(signed)
<1>1. Unforged(call.ds, signed)
    BY DEF IInv, CallArrived, wallet!CanArrive, Unforged
<1>2. ASSUME NEW s \in signed
      PROVE  s.over = [context |-> "Signature1", protected |-> s.over.protected,
                       payload |-> s.over.payload]
    <2>1. PICK r \in SignRequests : s = wallet!signatureOf(r)
        BY DEF RInv, SignedByWallets
    <2>2. s.over = [context |-> "Signature1", protected |-> r.protected,
                    payload |-> wallet!payloadOf(r)]
        BY <2>1 DEF wallet!signatureOf
    <2> QED BY <2>2
<1> QED BY <1>1, <1>2 DEF AreSigStructures

\* The result is valid when every check asked for was passed.
LEMMA ValidResult ==
    ASSUME IInv, Returned
    PROVE  Valid(result) <=>
                /\ signatureValid(sig, cfg)
                /\ cfg.hasMessage => VerifyMessage(sig, cfg.message).Matched
                /\ AsksAddress => addressCheck(sig, cfg).val.Matched
<1>1. /\ cfg.hasMessage <=> result.Message # Nil
      /\ AsksAddress <=> result.Address # Nil
    BY DEF IInv, TypeOK, AsksAddress
<1>2. \E a : /\ result = resultOf(messageCheck, a)
             /\ AsksAddress => a = addressCheck(sig, cfg).val
    BY DEF IInv, ResultIsComputed
<1>3. PICK a : /\ result = resultOf(messageCheck, a)
               /\ AsksAddress => a = addressCheck(sig, cfg).val
    BY <1>2
<1>4. /\ result.Message = messageCheck /\ result.Address = a
      /\ result.SignatureValid = signatureValid(sig, cfg)
    BY <1>3 DEF resultOf
<1> QED BY <1>1, <1>3, <1>4 DEF Valid, messageCheck

\* A call that is done has the outcome promised for it.
LEMMA OutcomeAsPromised ==
    ASSUME IInv, RInv, pc = "done"
    PROVE  outcome = promise!Outcome(call, signed)
<1>1. call \in Calls
    BY DEF IInv, TypeOK
<1>2. SignatureShape(call.ds.signature) /\ KeyShape(call.ds.key)
    BY <1>1, CallsAssumption
<1>3. computedOutcome(call.ds, cfg) = promise!Outcome(call, signed)
    BY <1>2, ConfigRepresents, SignaturesArrive, ComputedIsPromised
<1>4. CASE err # Nil
    <2>1. outcome = "error"
        BY <1>4 DEF outcome
    <2> QED BY <1>3, <1>4, <2>1
            DEF RInv, ErrorHasReason, computedOutcome, AsksAddress
<1>5. CASE err = Nil
    <2>1. ~conflicting(cfg) /\ Parse(call.ds).ok /\ sig = Parse(call.ds).val
        BY <1>5 DEF RInv, ConflictIsFirst, IInv, SigIsParsed, Returned
    <2>2. AsksAddress => addressCheck(sig, cfg).ok
        BY <1>5 DEF IInv, ResultIsComputed, Returned
    <2>3. outcome = IF Valid(result) THEN "valid" ELSE "invalid"
        BY <1>5 DEF outcome
    <2>4. Valid(result) <=>
                /\ signatureValid(sig, cfg)
                /\ cfg.hasMessage => VerifyMessage(sig, cfg.message).Matched
                /\ AsksAddress => addressCheck(sig, cfg).val.Matched
        BY <1>5, ValidResult DEF Returned
    <2>5. computedOutcome(call.ds, cfg) =
            IF /\ signatureValid(sig, cfg)
               /\ cfg.hasMessage => VerifyMessage(sig, cfg.message).Matched
               /\ AsksAddress => addressCheck(sig, cfg).val.Matched
            THEN "valid" ELSE "invalid"
        BY <2>1, <2>2 DEF computedOutcome, AsksAddress
    <2> QED BY <1>3, <2>3, <2>4, <2>5
<1> QED BY <1>4, <1>5

-----------------------------------------------------------------------------
(* The refinement. *)

\* The contract and the promise define the outcome in the same words.
LEMMA SameOutcome ==
    ASSUME NEW c, NEW s
    PROVE  contract!Outcome(c, s) = promise!Outcome(c, s)
BY DEF contract!Outcome, contract!Processable, contract!ProcessableSign1,
       contract!ProcessableKey, contract!ProcessableAddress, contract!Asked,
       contract!LastArg, contract!AsksAddress, contract!Canonical,
       contract!PrefixAgrees, contract!RawAddress, contract!Valid,
       contract!WasSigned, contract!Key, contract!Hashed, contract!Detached,
       contract!AsksMessage, contract!Message, contract!IsHexText,
       contract!ExpectedPayload, contract!ProvenPayload,
       contract!AcceptedCredentials, contract!ControlsAddress,
       promise!Outcome, promise!Processable, promise!ProcessableSign1,
       promise!ProcessableKey, promise!ProcessableAddress, promise!Asked,
       promise!LastArg, promise!AsksAddress, promise!Canonical,
       promise!PrefixAgrees, promise!RawAddress, promise!Valid,
       promise!WasSigned, promise!Key, promise!Hashed, promise!Detached,
       promise!AsksMessage, promise!Message, promise!IsHexText,
       promise!ExpectedPayload, promise!ProvenPayload,
       promise!AcceptedCredentials, promise!ControlsAddress

\* A step that ends a call responds with the outcome promised.
LEMMA EndingResponds ==
    ASSUME IInv, OutcomeIsPromised', pc \notin {"idle", "done"}, pc' = "done",
           UNCHANGED <<signed, call>>
    PROVE  contract!Respond
<1>1. call # Nil /\ outcome = Nil
    BY CallsAssumption DEF IInv, TypeOK, outcome
<1>2. outcome' = promise!Outcome(call', signed')
    BY DEF OutcomeIsPromised
<1>3. outcome' = contract!Outcome(call, signed)
    BY <1>2, SameOutcome
<1> QED BY <1>1, <1>3 DEF contract!Respond

\* Every step of Verifier is a step of its contract or leaves it alone.
LEMMA StepRefines ==
    ASSUME IInv, OutcomeIsPromised', [Next]_vars
    PROVE  [contract!Next]_(contract!vars)
<1> USE DEF contract!vars
<1>1. CASE UNCHANGED vars
    BY <1>1 DEF vars, outcome
<1>2. ASSUME NEW r \in SignRequests, SignData(r)
      PROVE  contract!Sign
    BY <1>2 DEF SignData, wallet!signData, contract!Sign, outcome
<1>3. ASSUME NEW c \in Calls, Verify(c)
      PROVE  contract!Request
    <2>1. pc = "idle" /\ pc' = "options" /\ call' = c /\ UNCHANGED signed
        BY <1>3 DEF Verify
    <2> QED BY <2>1 DEF IInv, TypeOK, contract!Request, outcome
<1>4. ASSUME pc \notin {"idle", "done"}, pc' # "done", UNCHANGED <<signed, call>>
      PROVE  UNCHANGED contract!vars
    BY <1>4 DEF outcome
<1>5. CASE \/ ApplyOption \/ CheckConflict \/ ParseInput \/ CheckSignature
           \/ CheckMessage \/ SkipAddress \/ CheckAddress
    <2>1. pc \notin {"idle", "done"} /\ UNCHANGED <<signed, call>>
        BY <1>5 DEF ApplyOption, CheckConflict, ParseInput, CheckSignature,
                    CheckMessage, SkipAddress, CheckAddress
    <2> QED BY <1>4, <2>1, EndingResponds DEF contract!Next
<1>6. CASE Return
    <2>1. pc = "done" /\ pc' = "idle" /\ call' = Nil /\ UNCHANGED signed
        BY <1>6 DEF Return
    <2>2. outcome # Nil /\ outcome' = Nil
        BY <2>1, NilAssumption DEF outcome
    <2> QED BY <2>1, <2>2 DEF contract!Forget, contract!Next
<1> QED BY <1>1, <1>2, <1>3, <1>5, <1>6 DEF Next, contract!Next

\* Verify implements VerifyContract: every call, with any options in any order,
\* ends in the outcome promised for it.
THEOREM VerifyImplementsContract == Spec => ImplementsContract
<1>1. Init => contract!Init
    BY DEF Init, wallet!WalletInit, contract!Init, outcome
<1>2. IInv /\ RInv => OutcomeIsPromised
    BY OutcomeAsPromised DEF OutcomeIsPromised
<1>3. IInv /\ OutcomeIsPromised' /\ [Next]_vars => [contract!Next]_(contract!vars)
    BY StepRefines
<1> QED BY <1>1, <1>2, <1>3, RefinementInvariant, PTL
        DEF Spec, ImplementsContract, contract!Spec

-----------------------------------------------------------------------------
(* Two properties of the outcome. *)

\* The raw address of a check has a length.
LEMMA CheckedLength ==
    ASSUME IInv, RInv, Returned, AsksAddress
    PROVE  checkedAddress.len \in Nat
<1>1. SignatureShape(call.ds.signature) /\ Parse(call.ds).ok /\ sig = Parse(call.ds).val
    BY CallsAssumption DEF IInv, TypeOK, SigIsParsed, Returned
<1>2. addressCheck(sig, cfg).ok
    BY DEF IInv, ResultIsComputed
<1>3. CASE cfg.useEmbedded
    <2>1. /\ promise!ProcessableSign1(call.ds.signature)
          /\ sig.Address = (IF call.ds.signature.protected.address = Absent
                            THEN Nil ELSE call.ds.signature.protected.address)
        BY <1>1, ParseDecodes
    <2>2. sig.Address # Nil
        BY <1>2, <1>3 DEF addressCheck, matchEmbeddedAddress, Fail
    <2> QED BY <1>1, <1>3, <2>1, <2>2
            DEF SignatureShape, promise!ProcessableSign1, checkedAddress
<1>4. CASE ~cfg.useEmbedded
    <2>1. AddressShape(cfg.address)
        BY <1>4, ConfigRepresents DEF AsksAddress, Returned
    <2>2. address!Decode(cfg.address).ok
        BY <1>2, <1>4 DEF addressCheck, matchDecoded, Fail
    <2>3. /\ cfg.address # EmptyBytes
          /\ cfg.address.bech32 = Undecodable => cfg.address.hex # Undecodable
        BY <2>2 DEF address!Decode, address!Fail
    <2> QED BY <1>4, <2>1, <2>3 DEF AddressShape, checkedAddress
<1> QED BY <1>3, <1>4

\* An accepted call carries a signature by the key that is returned.
LEMMA AcceptedKeySigned ==
    ASSUME IInv, Accepted
    PROVE  \E s \in signed : s.by = sig.PublicKey.id
<1>1. \E p : verifyPayload(sig, p)
    BY AcceptedMeans DEF signatureValid, SignatureVerify
<1>2. sig.signature.by = sig.PublicKey.id
    BY <1>1 DEF verifyPayload, ed25519Verify
<1> QED BY <1>2, ParsedSignature DEF Accepted

\* Under StrictAddress an accepted base address is canonical and its payment
\* key signed: no stake key, script or padding stands in for it.
THEOREM StrictAlwaysMeansPaymentKey == Spec => []StrictMeansPaymentKey
<1>1. ASSUME IInv, RInv, Accepted, result.Address # Nil, cfg.strict,
             result.Address.Type = "AddressBase"
      PROVE  /\ checkedAddress.len = 57
             /\ checkedAddress.type \in {0, 2}
             /\ \E s \in signed : checkedAddress.first = blake2b224(s.by)
    <2> DEFINE raw == checkedAddress
               a == address!Parse(raw).val
               h == KeyHash(sig)
    <2>1. AsksAddress /\ Returned /\ cfg.strict \in BOOLEAN
        BY <1>1 DEF IInv, TypeOK, AsksAddress, Accepted
    <2>2. address!Parse(raw).ok
          /\ \E source : result.Address = matchAddress(a, h, cfg.strict, source)
        BY <1>1, <2>1, AddressCheckOf
    <2>3. PICK source : result.Address = matchAddress(a, h, cfg.strict, source)
        BY <2>2
    <2>4. h = blake2b224(sig.PublicKey.id) /\ h # Nil
        <3>1. /\ SignatureShape(call.ds.signature) /\ KeyShape(call.ds.key)
              /\ Parse(call.ds).ok /\ sig = Parse(call.ds).val
            BY <1>1, <2>1, CallsAssumption DEF IInv, TypeOK, SigIsParsed, Returned
        <3>2. sig.PublicKey = call.ds.key.x
            BY <3>1, ParseDecodes
        <3> QED BY <3>1, <3>2, KeyHashOfParsed DEF promise!Key
    <2>5. promise!Canonical(raw)
        BY <1>1, <2>1, <2>2, CheckedLength, ParseIsCanonical
    <2>6. raw.type \in {0, 1, 2, 3} /\ raw.len = 57
        <3>1. addressType(a.Type) = "AddressBase"
            BY <1>1, <2>3 DEF matchAddress
        <3>2. a.Type = raw.type
            BY <2>2, ParsedAddress
        <3>3. raw.type \notin {6, 7, 14, 15}
            BY <3>1, <3>2 DEF addressType, address!PointerTypes,
               address!EnterpriseTypes, address!RewardTypes,
               address!TypeRewardKey, address!TypeRewardScript
        <3> QED BY <2>5, <3>3 DEF promise!Canonical
    <2>7. result.Address.Matched
        BY <1>1 DEF Accepted, Valid
    <2>8. h \in promise!AcceptedCredentials(raw, cfg.strict)
        <3> HIDE DEF raw, h
        <3> QED BY <2>1, <2>2, <2>3, <2>4, <2>7, MatchIsAcceptance
    <2>9. raw.type \in {0, 2} /\ raw.first = h
        BY <1>1, <2>6, <2>8 DEF promise!AcceptedCredentials
    <2> QED BY <1>1, <2>4, <2>6, <2>9, AcceptedKeySigned
<1>2. IInv /\ RInv => StrictMeansPaymentKey
    BY <1>1 DEF StrictMeansPaymentKey
<1> QED BY <1>2, RefinementInvariant, PTL

\* The contract calls what a wallet returned for a message valid for it.
LEMMA ResponseIsValid ==
    ASSUME NEW c, NEW r \in SignRequests, c.ds = wallet!responseOf(r),
           Unforged(c.ds, signed),
           promise!AsksMessage(c), ~promise!AsksAddress(c),
           promise!LastArg(c.opts, "WithMessage") = r.message,
           MessageShape(r.message), ~(r.hashed /\ SpellsDigest(r.message))
    PROVE  promise!Outcome(c, signed) = "valid"
<1> DEFINE w == c.ds.signature
           p == wallet!payloadOf(r)
<1>1. RequestShape(r, c.ds)
    BY RequestsAssumption
<1>2. /\ w.elements = 4 /\ w.protected = r.protected
      /\ w.hashed = (IF r.hashed THEN TRUE ELSE Absent)
      /\ w.payload = (IF r.detached THEN Nil ELSE p)
      /\ w.signature = wallet!signatureOf(r)
      /\ c.ds.key.kty = 1 /\ c.ds.key.alg = -8 /\ c.ds.key.crv = 6
      /\ c.ds.key.x.len = 32 /\ c.ds.key.x.id = r.key
    <2>1. w = [elements  |-> 4, protected |-> r.protected,
               hashed    |-> IF r.hashed THEN TRUE ELSE Absent,
               payload   |-> IF r.detached THEN Nil ELSE p,
               signature |-> wallet!signatureOf(r)]
        BY DEF wallet!responseOf
    <2>2. c.ds.key = [kty |-> 1, alg |-> -8, crv |-> 6,
                      x |-> [len |-> 32, id |-> r.key]]
        BY DEF wallet!responseOf
    <2> HIDE DEF w, p
    <2>3. /\ c.ds.key.kty = 1 /\ c.ds.key.alg = -8 /\ c.ds.key.crv = 6
          /\ c.ds.key.x = [len |-> 32, id |-> r.key]
        BY <2>2
    <2>4. c.ds.key.x.len = 32 /\ c.ds.key.x.id = r.key
        BY <2>3
    <2> QED BY <2>1, <2>3, <2>4
<1>3. /\ w.signature.len = 64 /\ w.signature.by = r.key
      /\ w.signature.over.protected = r.protected
      /\ w.signature.over.payload = p
    BY <1>2 DEF wallet!signatureOf
<1> HIDE DEF w, p
<1>4. promise!Processable(c)
    <2>1. promise!ProcessableSign1(w)
        BY <1>1, <1>2, <1>3 DEF w, RequestShape, promise!ProcessableSign1
    <2>2. promise!ProcessableKey(c.ds.key)
        BY <1>1, <1>2 DEF RequestShape, promise!ProcessableKey
    <2> QED BY <2>1, <2>2 DEF w, promise!Processable, promise!AsksAddress
<1>5. promise!Hashed(c) <=> r.hashed
    BY <1>1, <1>2, ValuesAssumption DEF w, RequestShape, promise!Hashed
<1>6. promise!Message(c) = r.message
    BY <1>1 DEF promise!Message, RequestShape
<1>7. promise!IsHexText(r.message) <=> SpellsDigest(r.message)
    BY <1>1 DEF promise!IsHexText, SpellsDigest, MessageShape, RequestShape
<1>8. promise!ExpectedPayload(c) = p
    <2>1. p = IF r.hashed THEN blake2b224(r.message) ELSE r.message
        BY DEF p, wallet!payloadOf
    <2> QED BY <1>5, <1>6, <1>7, <2>1 DEF promise!ExpectedPayload
<1>9. promise!ProvenPayload(c) = p
    <2>1. promise!Detached(c) \/ w.payload = p
        BY <1>2 DEF w, promise!Detached
    <2> QED BY <1>8, <2>1 DEF w, promise!ProvenPayload
<1>10. w.signature \in signed
    BY <1>1, <1>3 DEF Unforged, w, RequestShape
<1>11. promise!WasSigned(c, signed)
    BY <1>2, <1>3, <1>9, <1>10 DEF w, promise!WasSigned, promise!Key
<1> QED BY <1>4, <1>8, <1>9, <1>11 DEF promise!Outcome, promise!Valid

\* What a wallet returns for a message is accepted for that message.
THEOREM WalletResponseAlwaysAccepted == Spec => []WalletResponseAccepted
<1>1. ASSUME IInv, RInv, NEW r \in SignRequests,
             pc = "done", call.ds = wallet!responseOf(r),
             cfg.hasMessage, cfg.message = r.message,
             ~cfg.hasAddress, ~cfg.useEmbedded,
             ~(r.hashed /\ SpellsDigest(r.message))
      PROVE  Accepted
    <2>1. Represents(cfg, call.opts) /\ MessageShape(r.message)
        BY <1>1, ConfigRepresents
    <2>2. /\ promise!AsksMessage(call) /\ ~promise!AsksAddress(call)
          /\ promise!LastArg(call.opts, "WithMessage") = r.message
        BY <1>1, <2>1 DEF Represents, promise!AsksMessage, promise!AsksAddress
    <2>3. Unforged(call.ds, signed)
        BY <1>1, SignaturesArrive
    <2>4. outcome = "valid"
        BY <1>1, <2>1, <2>2, <2>3, ResponseIsValid, OutcomeAsPromised
    <2> QED BY <1>1, <2>4 DEF outcome, Accepted, Returned
<1>2. IInv /\ RInv => WalletResponseAccepted
    BY <1>1 DEF WalletResponseAccepted
<1> QED BY <1>2, RefinementInvariant, PTL

=============================================================================
