---------------------------- MODULE SessionProofs ----------------------------
(***************************************************************************)
(* Theorems about Session: the methods of a parsed Signature, in whatever  *)
(* order they are called, say together what one call of Verify promises.   *)
(***************************************************************************)
EXTENDS Session, Cip30Proofs, SequenceTheorems

SignedByWallets == signed \subseteq {wallet!signatureOf(r) : r \in SignRequests}

NothingBeforeParse ==
    sig = Nil => verified = Nil /\ message = Nil /\ matched = Nil

SigIsParsed ==
    sig # Nil =>
        /\ ds \in DataSignatures /\ wallet!CanArrive(ds)
        /\ Parse(ds).ok /\ sig = Parse(ds).val

\* What a method last returned is what it would return now.
AnswersHold ==
    /\ verified # Nil => verified = SignatureVerify(sig)
    /\ message # Nil =>
          /\ message.message \in Messages
          /\ message.check = VerifyMessage(sig, message.message)
    /\ matched # Nil =>
          /\ matched.args \in AddressCalls
          /\ matched.outcome = MatchesAddress(sig, matched.args.addr, matched.args.opts)

SInv == SignedByWallets /\ NothingBeforeParse /\ SigIsParsed /\ AnswersHold

-----------------------------------------------------------------------------
LEMMA InitSInv == Init => SInv
BY DEF Init, wallet!WalletInit, SInv, SignedByWallets, NothingBeforeParse,
       SigIsParsed, AnswersHold

LEMMA SInvInductive == SInv /\ [Next]_vars => SInv'
<1> SUFFICES ASSUME SInv, [Next]_vars PROVE SInv'
    OBVIOUS
<1>1. CASE UNCHANGED vars
    BY <1>1 DEF vars, SInv, SignedByWallets, NothingBeforeParse, SigIsParsed,
                AnswersHold, wallet!CanArrive
<1>2. ASSUME NEW r \in SignRequests, SignData(r) PROVE SInv'
    <2>1. /\ UNCHANGED <<ds, sig, verified, message, matched>>
          /\ signed' = signed \cup {wallet!signatureOf(r)}
        BY <1>2 DEF SignData, wallet!signData
    <2>2. SignedByWallets'
        BY <2>1 DEF SInv, SignedByWallets
    <2>3. SigIsParsed'
        BY <2>1 DEF SInv, SigIsParsed, wallet!CanArrive
    <2>4. NothingBeforeParse' /\ AnswersHold'
        BY <2>1 DEF SInv, NothingBeforeParse, AnswersHold
    <2> QED BY <2>2, <2>3, <2>4 DEF SInv
<1>3. ASSUME NEW d \in DataSignatures, Begin(d) PROVE SInv'
    <2>1. /\ sig = Nil /\ wallet!CanArrive(d) /\ Parse(d).ok
          /\ ds' = d /\ sig' = Parse(d).val
          /\ UNCHANGED <<signed, verified, message, matched>>
        BY <1>3 DEF Begin
    <2>2. verified = Nil /\ message = Nil /\ matched = Nil
        BY <2>1 DEF SInv, NothingBeforeParse
    <2>3. SigIsParsed'
        BY <2>1 DEF SigIsParsed, wallet!CanArrive
    <2> QED BY <2>1, <2>2, <2>3
            DEF SInv, SignedByWallets, NothingBeforeParse, AnswersHold
<1>4. CASE CallVerify
    <2>1. /\ sig # Nil /\ verified' = SignatureVerify(sig)
          /\ UNCHANGED <<signed, ds, sig, message, matched>>
        BY <1>4 DEF CallVerify
    <2>2. AnswersHold'
        BY <2>1 DEF SInv, AnswersHold
    <2> QED BY <2>1, <2>2
            DEF SInv, SignedByWallets, NothingBeforeParse, SigIsParsed, wallet!CanArrive
<1>5. ASSUME NEW m \in Messages, CallVerifyMessage(m) PROVE SInv'
    <2>1. /\ sig # Nil
          /\ message' = [message |-> m, check |-> VerifyMessage(sig, m)]
          /\ UNCHANGED <<signed, ds, sig, verified, matched>>
        BY <1>5 DEF CallVerifyMessage
    <2>2. message'.message = m /\ message'.check = VerifyMessage(sig, m)
        BY <2>1
    <2>3. AnswersHold'
        BY <2>1, <2>2 DEF SInv, AnswersHold
    <2> QED BY <2>1, <2>3
            DEF SInv, SignedByWallets, NothingBeforeParse, SigIsParsed, wallet!CanArrive
<1>6. ASSUME NEW args \in AddressCalls, CallMatchesAddress(args) PROVE SInv'
    <2>1. /\ sig # Nil
          /\ matched' = [args |-> args,
                         outcome |-> MatchesAddress(sig, args.addr, args.opts)]
          /\ UNCHANGED <<signed, ds, sig, verified, message>>
        BY <1>6 DEF CallMatchesAddress
    <2>2. /\ matched'.args = args
          /\ matched'.outcome = MatchesAddress(sig, args.addr, args.opts)
        BY <2>1
    <2>3. AnswersHold'
        BY <2>1, <2>2 DEF SInv, AnswersHold
    <2> QED BY <2>1, <2>3
            DEF SInv, SignedByWallets, NothingBeforeParse, SigIsParsed, wallet!CanArrive
<1>7. CASE End
    BY <1>7 DEF End, SInv, SignedByWallets, NothingBeforeParse, SigIsParsed, AnswersHold
<1> QED BY <1>1, <1>2, <1>3, <1>4, <1>5, <1>6, <1>7 DEF Next

LEMMA SessionInvariant == Spec => []SInv
BY InitSInv, SInvInductive, PTL DEF Spec

-----------------------------------------------------------------------------
(* The question. *)

\* The configuration that the session's question makes of Verify.
configAsked ==
    [message     |-> IF message = Nil THEN Nil ELSE message.message,
     hasMessage  |-> message # Nil,
     address     |-> IF matched = Nil THEN EmptyBytes ELSE matched.args.addr,
     hasAddress  |-> matched # Nil,
     useEmbedded |-> Contradictory,
     strict      |-> AskedOfAddress("StrictAddress")]

\* One option more where there is reason for it.
LEMMA OptionalApplied ==
    ASSUME NEW S, NEW opts \in Seq(S), NEW cfg, IsConfig(cfg),
           AppliedUpTo(cfg, opts, Len(opts)), NEW o \in S, o.opt \in OptionNames,
           NEW condition \in BOOLEAN
    PROVE  LET more == opts \o Optional(condition, o)
               new == IF condition THEN VerifyOption(o, cfg) ELSE cfg
           IN  more \in Seq(S) /\ IsConfig(new) /\ AppliedUpTo(new, more, Len(more))
<1>1. CASE condition
    <2>1. opts \o <<o>> = Append(opts, o)
        BY AppendIsConcat
    <2> QED BY <1>1, <2>1, OneMoreApplied DEF Optional
<1>2. CASE ~condition
    <2>1. opts \o <<>> = opts
        BY ConcatEmptySeq
    <2> QED BY <1>2, <2>1 DEF Optional
<1> QED BY <1>1, <1>2

\* It is what the options of the question say.
LEMMA QuestionRepresented ==
    Represents(configAsked, question.opts)
<1> DEFINE M == WithMessage(message.message)
           A == WithAddress(matched.args.addr)
           Z == StrictAddress
           E == WithEmbeddedAddress
           S == {M, A, Z, E}
           strict == AskedOfAddress("StrictAddress")
           opts1 == <<>> \o Optional(message # Nil, M)
           opts2 == opts1 \o Optional(matched # Nil, A)
           opts3 == opts2 \o Optional(strict, Z)
           opts4 == opts3 \o Optional(Contradictory, E)
           cfg1 == IF message # Nil THEN VerifyOption(M, zeroConfig) ELSE zeroConfig
           cfg2 == IF matched # Nil THEN VerifyOption(A, cfg1) ELSE cfg1
           cfg3 == IF strict THEN VerifyOption(Z, cfg2) ELSE cfg2
           cfg4 == IF Contradictory THEN VerifyOption(E, cfg3) ELSE cfg3
<1>1. /\ M.opt = "WithMessage" /\ M.arg = message.message
      /\ A.opt = "WithAddress" /\ A.arg = matched.args.addr
      /\ Z.opt = "StrictAddress" /\ E.opt = "WithEmbeddedAddress"
    BY DEF WithMessage, WithAddress, StrictAddress, WithEmbeddedAddress
<1>2. M \in S /\ A \in S /\ Z \in S /\ E \in S
    OBVIOUS
<1>3. strict \in BOOLEAN /\ Contradictory \in BOOLEAN
    BY DEF AskedOfAddress, Contradictory, promise!Asked
<1>4. question.opts = opts4
    <2>1. Optional(message # Nil, M) = <<>> \o Optional(message # Nil, M)
        BY DEF Optional
    <2> QED BY <2>1, Zenon DEF question
<1>5. /\ configAsked.message = (IF message = Nil THEN Nil ELSE message.message)
      /\ configAsked.hasMessage = (message # Nil)
      /\ configAsked.address = (IF matched = Nil THEN EmptyBytes ELSE matched.args.addr)
      /\ configAsked.hasAddress = (matched # Nil)
      /\ configAsked.useEmbedded = Contradictory
      /\ configAsked.strict = strict
    BY DEF configAsked
<1>6. \A o \in S : o.opt \in OptionNames
    BY <1>1 DEF OptionNames
<1> HIDE DEF M, A, Z, E, S, strict
<1>7. /\ <<>> \in Seq(S) /\ IsConfig(zeroConfig) /\ AppliedUpTo(zeroConfig, <<>>, Len(<<>>))
    BY NothingApplied
<1>8. opts1 \in Seq(S) /\ IsConfig(cfg1) /\ AppliedUpTo(cfg1, opts1, Len(opts1))
    BY <1>2, <1>6, <1>7, OptionalApplied
<1> HIDE DEF opts1
<1>9. opts2 \in Seq(S) /\ IsConfig(cfg2) /\ AppliedUpTo(cfg2, opts2, Len(opts2))
    <2> HIDE DEF cfg1
    <2> QED BY <1>2, <1>6, <1>8, OptionalApplied
<1> HIDE DEF opts2
<1>10. opts3 \in Seq(S) /\ IsConfig(cfg3) /\ AppliedUpTo(cfg3, opts3, Len(opts3))
    <2> HIDE DEF cfg2
    <2> QED BY <1>2, <1>3, <1>6, <1>9, OptionalApplied
<1> HIDE DEF opts3
<1>11. opts4 \in Seq(S) /\ IsConfig(cfg4) /\ AppliedUpTo(cfg4, opts4, Len(opts4))
    <2> HIDE DEF cfg3
    <2> QED BY <1>2, <1>3, <1>6, <1>10, OptionalApplied
<1> HIDE DEF opts4
<1>12. /\ cfg4.message = configAsked.message /\ cfg4.hasMessage = configAsked.hasMessage
       /\ cfg4.address = configAsked.address /\ cfg4.hasAddress = configAsked.hasAddress
       /\ cfg4.useEmbedded = configAsked.useEmbedded /\ cfg4.strict = configAsked.strict
    <2>1. /\ cfg1.message = configAsked.message /\ cfg1.hasMessage = configAsked.hasMessage
          /\ cfg1.address = EmptyBytes /\ cfg1.hasAddress = FALSE
          /\ cfg1.useEmbedded = FALSE /\ cfg1.strict = FALSE
        BY <1>1, <1>5 DEF VerifyOption, zeroConfig
    <2> HIDE DEF cfg1
    <2>2. /\ cfg2.message = cfg1.message /\ cfg2.hasMessage = cfg1.hasMessage
          /\ cfg2.address = configAsked.address /\ cfg2.hasAddress = configAsked.hasAddress
          /\ cfg2.useEmbedded = FALSE /\ cfg2.strict = FALSE
        BY <1>1, <1>5, <1>8, <2>1 DEF VerifyOption, IsConfig
    <2> HIDE DEF cfg2
    <2>3. /\ cfg3.message = cfg2.message /\ cfg3.hasMessage = cfg2.hasMessage
          /\ cfg3.address = cfg2.address /\ cfg3.hasAddress = cfg2.hasAddress
          /\ cfg3.useEmbedded = FALSE /\ cfg3.strict = strict
        BY <1>1, <1>3, <1>9, <2>2 DEF VerifyOption, IsConfig
    <2> HIDE DEF cfg3
    <2>4. /\ cfg4.message = cfg3.message /\ cfg4.hasMessage = cfg3.hasMessage
          /\ cfg4.address = cfg3.address /\ cfg4.hasAddress = cfg3.hasAddress
          /\ cfg4.useEmbedded = Contradictory /\ cfg4.strict = cfg3.strict
        BY <1>1, <1>3, <1>10, <2>3 DEF VerifyOption, IsConfig
    <2> QED BY <1>5, <2>1, <2>2, <2>3, <2>4
<1> HIDE DEF cfg4
<1>13. Represents(cfg4, opts4)
    BY <1>11, AppliedRepresents DEF IsConfig
<1>14. Represents(configAsked, opts4)
    <2> QED BY <1>12, <1>13 DEF Represents
<1> QED BY <1>4, <1>14

-----------------------------------------------------------------------------
(* The theorem. *)

\* Whatever methods were called, in whatever order, their results together are
\* the outcome that one call of Verify promises for the same question.
THEOREM StepwiseAlwaysAgrees == Spec => []StepwiseAgrees
<1>1. ASSUME SInv, sig # Nil, verified # Nil \/ (message # Nil /\ detached(sig))
      PROVE  sessionOutcome = promise!Outcome(question, signed)
    <2> DEFINE cfg == configAsked
    <2>1. /\ cfg.message = (IF message = Nil THEN Nil ELSE message.message)
          /\ cfg.hasMessage = (message # Nil)
          /\ cfg.address = (IF matched = Nil THEN EmptyBytes ELSE matched.args.addr)
          /\ cfg.hasAddress = (matched # Nil)
          /\ cfg.useEmbedded = Contradictory
          /\ cfg.strict = AskedOfAddress("StrictAddress")
        BY DEF configAsked
    <2>2. /\ question.ds = ds /\ Parse(ds).ok /\ sig = Parse(ds).val
          /\ SignatureShape(ds.signature) /\ KeyShape(ds.key)
        BY <1>1, ArgumentsAssumption DEF question, SInv, SigIsParsed
    <2>3. Unforged(ds, signed) /\ AreSigStructures(signed)
        <3>1. Unforged(ds, signed)
            BY <1>1 DEF SInv, SigIsParsed, wallet!CanArrive, Unforged
        <3>2. ASSUME NEW s \in signed
              PROVE  s.over = [context |-> "Signature1", protected |-> s.over.protected,
                               payload |-> s.over.payload]
            <4>1. PICK r \in SignRequests : s = wallet!signatureOf(r)
                BY <1>1 DEF SInv, SignedByWallets
            <4>2. s.over = [context |-> "Signature1", protected |-> r.protected,
                            payload |-> wallet!payloadOf(r)]
                BY <4>1 DEF wallet!signatureOf
            <4> QED BY <4>2
        <3> QED BY <3>1, <3>2 DEF AreSigStructures
    <2>4. Represents(cfg, question.opts)
        BY QuestionRepresented
    <2> HIDE DEF cfg
    <2>5. /\ cfg.hasMessage => MessageShape(cfg.message)
          /\ cfg.hasAddress => AddressShape(cfg.address)
        BY <1>1, <2>1, ArgumentsAssumption DEF SInv, AnswersHold
    <2>6. computedOutcome(ds, cfg) = promise!Outcome(question, signed)
        BY <2>2, <2>3, <2>4, <2>5, ComputedIsPromised
    <2>7. message # Nil => message.check = VerifyMessage(sig, cfg.message)
        BY <1>1, <2>1 DEF SInv, AnswersHold
    <2>8. SignatureConfirmed <=> signatureValid(sig, cfg)
        <3>1. CASE message # Nil /\ detached(sig)
            <4> DEFINE proof == verifyPayload(sig, digest(cfg.message, sig.Hashed))
            <4>1. VerifyMessage(sig, cfg.message).Matched = proof
                BY <3>1 DEF VerifyMessage
            <4>2. proof \in BOOLEAN
                BY DEF verifyPayload, ed25519Verify
            <4>3. signatureValid(sig, cfg) = proof
                BY <2>1, <3>1 DEF signatureValid
            <4> HIDE DEF proof
            <4>4. message.check.Matched = proof
                BY <2>7, <3>1, <4>1
            <4>5. SignatureConfirmed = message.check.Matched
                BY <3>1 DEF SignatureConfirmed
            <4> QED BY <4>2, <4>3, <4>4, <4>5
        <3>2. CASE ~(message # Nil /\ detached(sig))
            <4>1. verified = SignatureVerify(sig)
                BY <1>1, <3>2 DEF SInv, AnswersHold
            <4>2. SignatureVerify(sig) \in BOOLEAN
                BY DEF SignatureVerify, verifyPayload, ed25519Verify
            <4> QED BY <2>1, <3>2, <4>1, <4>2 DEF SignatureConfirmed, signatureValid
        <3> QED BY <3>1, <3>2
    <2>9. /\ conflicting(cfg) <=> Contradictory
          /\ matched # Nil => matched.outcome = IF conflicting(cfg)
                                                THEN Fail("ErrConflictingAddress")
                                                ELSE addressCheck(sig, cfg)
        <3>1. conflicting(cfg) <=> Contradictory
            BY <2>1 DEF conflicting, Contradictory, AskedOfAddress
        <3> SUFFICES ASSUME matched # Nil
                     PROVE  matched.outcome = IF Contradictory
                                              THEN Fail("ErrConflictingAddress")
                                              ELSE addressCheck(sig, cfg)
            BY <3>1
        <3> DEFINE opts == matched.args.opts
                   S == {opts[i] : i \in DOMAIN opts}
                   decoded(strict) == matchDecoded(address!Decode(matched.args.addr), sig,
                                                   strict, "AddressSupplied")
        <3>2. /\ matched.outcome = MatchesAddress(sig, matched.args.addr, opts)
              /\ opts \in Seq(S) /\ \A i \in DOMAIN opts : opts[i].opt \in OptionNames
            BY <1>1, ArgumentsAssumption DEF SInv, AnswersHold, OptionShape
        <3>3. AskedOfAddress("WithAddress") <=> promise!Asked(opts, "WithAddress")
            BY DEF AskedOfAddress
        <3>4. AskedOfAddress("WithEmbeddedAddress") <=> promise!Asked(opts, "WithEmbeddedAddress")
            BY DEF AskedOfAddress
        <3>5. AskedOfAddress("StrictAddress") <=> promise!Asked(opts, "StrictAddress")
            BY DEF AskedOfAddress
        <3> HIDE DEF opts, S
        <3>6. DOMAIN opts = 1..Len(opts)
            BY <3>2
        <3>7. PICK c : /\ IsConfig(c) /\ AppliedUpTo(c, opts, Len(opts))
                       /\ applyOptions(opts) = IF conflicting(c)
                                               THEN Fail("ErrConflictingAddress") ELSE Ok(c)
            BY <3>2, <3>6, OptionsApply
        <3>8. Represents(c, opts)
            BY <3>2, <3>7, AppliedRepresents DEF IsConfig
        <3>9. /\ conflicting(c) <=> Contradictory
              /\ c.strict = AskedOfAddress("StrictAddress")
            BY <3>3, <3>4, <3>5, <3>8
               DEF Represents, conflicting, Contradictory, AskedOfAddress, promise!Asked
        <3>10. matched.outcome = IF conflicting(c) THEN Fail("ErrConflictingAddress")
                                 ELSE decoded(c.strict)
            <4> HIDE DEF decoded
            <4>1. conflicting(c) => matched.outcome = Fail("ErrConflictingAddress")
                BY <3>2, <3>7 DEF MatchesAddress, Fail
            <4>2. ~conflicting(c) => matched.outcome = decoded(c.strict)
                BY <3>2, <3>7 DEF MatchesAddress, Ok, decoded
            <4> QED BY <4>1, <4>2
        <3>11. ~Contradictory => addressCheck(sig, cfg) = decoded(cfg.strict)
            BY <2>1 DEF addressCheck
        <3> QED BY <2>1, <3>9, <3>10, <3>11
    <2>10. sessionOutcome = computedOutcome(ds, cfg)
        <3>1. CASE conflicting(cfg)
            <4>1. matched # Nil /\ ~matched.outcome.ok
                BY <2>9, <3>1 DEF Contradictory, AskedOfAddress, Fail
            <4> QED BY <3>1, <4>1 DEF sessionOutcome, computedOutcome
        <3>2. CASE ~conflicting(cfg)
            BY <2>1, <2>2, <2>7, <2>8, <2>9, <3>2 DEF sessionOutcome, computedOutcome
        <3> QED BY <3>1, <3>2
    <2> QED BY <2>6, <2>10
<1>2. SInv => StepwiseAgrees
    BY <1>1 DEF StepwiseAgrees
<1> QED BY <1>2, SessionInvariant, PTL

=============================================================================
