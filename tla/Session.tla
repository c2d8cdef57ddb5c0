------------------------------ MODULE Session ------------------------------
(***************************************************************************)
(* The step-by-step use of the package: Parse once, then call Verify,      *)
(* VerifyMessage and MatchesAddress on the Signature in any order and as   *)
(* often as wanted, while wallets go on signing.  What the three methods    *)
(* say together is compared with what one call of Verify promises for the  *)
(* same question.                                                          *)
(***************************************************************************)
EXTENDS Inputs

CONSTANTS
    SignRequests,   \* what wallet owners may sign (see Wallet)
    DataSignatures, \* what may arrive to be parsed
    Messages,       \* the messages callers expect
    AddressCalls    \* arguments of MatchesAddress: records [addr, opts], any options

VARIABLES
    signed,     \* the signatures wallets have made
    ds,         \* the DataSignature parsed, or Nil
    sig,        \* the *Signature of the session, or Nil
    verified,   \* what Verify last returned, or Nil
    message,    \* the last VerifyMessage call [message, check], or Nil
    matched     \* the last MatchesAddress call [args, outcome], or Nil

wallet == INSTANCE Wallet

ASSUME ArgumentsAssumption ==
    /\ \A d \in DataSignatures : SignatureShape(d.signature) /\ KeyShape(d.key)
    /\ \A m \in Messages : MessageShape(m)
    /\ \A args \in AddressCalls :
          /\ AddressShape(args.addr)
          /\ args.opts \in Seq({args.opts[i] : i \in DOMAIN args.opts})
          /\ \A i \in DOMAIN args.opts : OptionShape(args.opts[i])

vars == <<signed, ds, sig, verified, message, matched>>

Init ==
    /\ wallet!WalletInit
    /\ ds = Nil /\ sig = Nil /\ verified = Nil /\ message = Nil /\ matched = Nil

SignData(r) ==
    /\ wallet!signData(r)
    /\ UNCHANGED <<ds, sig, verified, message, matched>>

\* A session begins with a Parse that succeeds and ends when its caller drops
\* the Signature; after a failed Parse there is none.
Begin(d) ==
    /\ sig = Nil
    /\ wallet!CanArrive(d)
    /\ Parse(d).ok
    /\ ds' = d /\ sig' = Parse(d).val
    /\ UNCHANGED <<signed, verified, message, matched>>

CallVerify ==
    /\ sig # Nil
    /\ verified' = SignatureVerify(sig)
    /\ UNCHANGED <<signed, ds, sig, message, matched>>

CallVerifyMessage(m) ==
    /\ sig # Nil
    /\ message' = [message |-> m, check |-> VerifyMessage(sig, m)]
    /\ UNCHANGED <<signed, ds, sig, verified, matched>>

CallMatchesAddress(args) ==
    /\ sig # Nil
    /\ matched' = [args |-> args, outcome |-> MatchesAddress(sig, args.addr, args.opts)]
    /\ UNCHANGED <<signed, ds, sig, verified, message>>

End ==
    /\ sig # Nil
    /\ ds' = Nil /\ sig' = Nil /\ verified' = Nil /\ message' = Nil /\ matched' = Nil
    /\ UNCHANGED signed

Next ==
    \/ \E r \in SignRequests : SignData(r)
    \/ \E d \in DataSignatures : Begin(d)
    \/ CallVerify
    \/ \E m \in Messages : CallVerifyMessage(m)
    \/ \E args \in AddressCalls : CallMatchesAddress(args)
    \/ End

Spec == Init /\ [][Next]_vars

-----------------------------------------------------------------------------
(* Properties *)

Optional(condition, option) == IF condition THEN <<option>> ELSE <<>>

\* Of the options given to MatchesAddress StrictAddress means what it means to
\* Verify, and the two that give an address contradict each other; a message
\* or one more address is not part of the question.
AskedOfAddress(name) == matched # Nil /\ promise!Asked(matched.args.opts, name)
Contradictory == AskedOfAddress("WithAddress") /\ AskedOfAddress("WithEmbeddedAddress")

\* The question the session has asked so far, as the options of one Verify.
question ==
    [ds   |-> ds,
     opts |-> Optional(message # Nil, WithMessage(message.message))
              \o Optional(matched # Nil, WithAddress(matched.args.addr))
              \o Optional(AskedOfAddress("StrictAddress"), StrictAddress)
              \o Optional(Contradictory, WithEmbeddedAddress)]

\* A detached signature covers no bytes of its own, so once a message is
\* expected it is the message check that says whether it verified.
SignatureConfirmed ==
    IF message # Nil /\ detached(sig) THEN message.check.Matched ELSE verified = TRUE

sessionOutcome ==
    IF matched # Nil /\ ~matched.outcome.ok THEN "error"
    ELSE IF /\ SignatureConfirmed
            /\ message # Nil => message.check.Matched
            /\ matched # Nil => matched.outcome.val.Matched
         THEN "valid" ELSE "invalid"

\* The methods agree with one call of Verify: whichever of them were called,
\* in whichever order, their results together are the outcome the contract of
\* Verify gives to the same question.
StepwiseAgrees ==
    sig # Nil /\ (verified # Nil \/ (message # Nil /\ detached(sig))) =>
        sessionOutcome = promise!Outcome(question, signed)

\* decodeHexDigest departs from the reference verifier for an odd-length
\* all-hex message, which the reference compares as text and so never
\* matches; its comment says that the final verdict is unchanged.
OddHexVerdictUnchanged ==
    (/\ verified = TRUE /\ sig.Hashed /\ ~detached(sig)
     /\ message # Nil /\ hexDigits(message.message) /\ size(message.message) % 2 = 1) =>
        ~message.check.Matched

=============================================================================
