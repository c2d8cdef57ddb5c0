------------------------------ MODULE Verifier ------------------------------
(***************************************************************************)
(* cip30.Verify as a caller runs it, one step per Go function it calls,    *)
(* while wallets go on signing.  The options are applied one at a time;    *)
(* any step may return an error, which discards the result built so far.   *)
(***************************************************************************)
EXTENDS Inputs

CONSTANTS
    SignRequests,  \* what wallet owners may sign (see Wallet)
    Calls          \* the calls a caller may make: records [ds, opts]

VARIABLES
    signed,        \* the signatures wallets have made
    pc,            \* where the call is: "idle", a step, or "done"
    call,          \* the call being served, or Nil
    todo,          \* the options not yet applied
    cfg,           \* the verifyConfig being built
    sig,           \* the parsed *Signature, or Nil
    result,        \* the *Result being built or returned, or Nil
    err            \* the error returned, or Nil

wallet == INSTANCE Wallet

\* The options a call gives.
OptionsOf(c) == {c.opts[i] : i \in DOMAIN c.opts}

\* Calls give the options the package has, with inputs like those of Inputs.
ASSUME CallsAssumption ==
    /\ Nil \notin Calls
    /\ \A c \in Calls :
        /\ SignatureShape(c.ds.signature) /\ KeyShape(c.ds.key)
        /\ c.opts \in Seq(OptionsOf(c))
        /\ \A o \in OptionsOf(c) : OptionShape(o)

ASSUME RequestsAssumption ==
    \A r \in SignRequests : RequestShape(r, wallet!responseOf(r))

vars == <<signed, pc, call, todo, cfg, sig, result, err>>

-----------------------------------------------------------------------------
Init ==
    /\ wallet!WalletInit
    /\ pc = "idle" /\ call = Nil /\ todo = <<>> /\ cfg = zeroConfig
    /\ sig = Nil /\ result = Nil /\ err = Nil

SignData(r) ==
    /\ wallet!signData(r)
    /\ UNCHANGED <<pc, call, todo, cfg, sig, result, err>>

\* Mutant: the result built so far is returned beside the error.
ReturnError_KeepsResult(e) == pc' = "done" /\ result' = result /\ err' = e

\* return nil, e
ReturnError(e) == pc' = "done" /\ result' = Nil /\ err' = e

Verify(c) ==
    /\ pc = "idle"
    /\ wallet!CanArrive(c.ds)
    /\ call' = c /\ todo' = c.opts /\ cfg' = zeroConfig /\ pc' = "options"
    /\ UNCHANGED <<signed, sig, result, err>>

ApplyOption ==
    /\ pc = "options" /\ todo # <<>>
    /\ cfg' = VerifyOption(Head(todo), cfg)
    /\ todo' = Tail(todo)
    /\ UNCHANGED <<signed, pc, call, sig, result, err>>

CheckConflict ==
    /\ pc = "options" /\ todo = <<>>
    /\ IF conflicting(cfg) THEN ReturnError("ErrConflictingAddress")
       ELSE pc' = "parse" /\ UNCHANGED <<result, err>>
    /\ UNCHANGED <<signed, call, todo, cfg, sig>>

ParseInput ==
    /\ pc = "parse"
    /\ LET parsed == Parse(call.ds)
       IN  IF ~parsed.ok THEN ReturnError(parsed.err) /\ UNCHANGED sig
           ELSE sig' = parsed.val /\ pc' = "signature" /\ UNCHANGED <<result, err>>
    /\ UNCHANGED <<signed, call, todo, cfg>>

CheckSignature ==
    /\ pc = "signature"
    /\ result' = [SignatureValid |-> signatureValid(sig, cfg),
                  Message |-> Nil, Address |-> Nil,
                  PublicKey |-> sig.PublicKey, KeyHash |-> KeyHash(sig)]
    /\ pc' = "message"
    /\ UNCHANGED <<signed, call, todo, cfg, sig, err>>

CheckMessage ==
    /\ pc = "message"
    /\ result' = IF cfg.hasMessage
                 THEN [result EXCEPT !.Message = VerifyMessage(sig, cfg.message)]
                 ELSE result
    /\ pc' = "address"
    /\ UNCHANGED <<signed, call, todo, cfg, sig, err>>

SkipAddress ==
    /\ pc = "address" /\ ~cfg.hasAddress /\ ~cfg.useEmbedded
    /\ pc' = "done"
    /\ UNCHANGED <<signed, call, todo, cfg, sig, result, err>>

CheckAddress ==
    /\ pc = "address" /\ (cfg.hasAddress \/ cfg.useEmbedded)
    /\ LET check == addressCheck(sig, cfg)
       IN  IF ~check.ok THEN ReturnError(check.err)
           ELSE /\ result' = [result EXCEPT !.Address = check.val]
                /\ pc' = "done" /\ UNCHANGED err
    /\ UNCHANGED <<signed, call, todo, cfg, sig>>

\* The caller has used the outcome and may call again.
Return ==
    /\ pc = "done"
    /\ pc' = "idle" /\ call' = Nil /\ todo' = <<>> /\ cfg' = zeroConfig
    /\ sig' = Nil /\ result' = Nil /\ err' = Nil
    /\ UNCHANGED signed

Next ==
    \/ \E r \in SignRequests : SignData(r)
    \/ \E c \in Calls : Verify(c)
    \/ ApplyOption \/ CheckConflict \/ ParseInput \/ CheckSignature
    \/ CheckMessage \/ SkipAddress \/ CheckAddress \/ Return

Spec == Init /\ [][Next]_vars

-----------------------------------------------------------------------------
(* Properties *)

Returned == pc = "done" /\ err = Nil

Accepted == Returned /\ Valid(result)

Errors ==
    {"ErrConflictingAddress", "ErrInvalidSignatureHex", "ErrInvalidKeyHex",
     "ErrDecodeSignature", "ErrDecodeKey", "ErrNoEmbeddedAddress",
     "ErrDecodeAddress"}

\* nil is no check, no error and no outcome.
ASSUME NilAssumption ==
    Nil \notin MessageCheck \cup AddressCheck \cup Errors \cup {"error", "invalid", "valid"}

\* The options are used up before the input is looked at; the checks of a
\* result are there when they were asked for and only then; and a call ends
\* with a result or with an error, never with both.
TypeOK ==
    /\ pc \in {"idle", "options", "parse", "signature", "message", "address", "done"}
    /\ call \in Calls \cup {Nil} /\ (call = Nil <=> pc = "idle")
    /\ IF pc = "options" THEN todo \in Seq(OptionsOf(call)) ELSE todo = <<>>
    /\ {cfg.hasMessage, cfg.hasAddress, cfg.useEmbedded, cfg.strict} \subseteq BOOLEAN
    /\ err \in Errors \cup {Nil} /\ (err # Nil => pc = "done" /\ result = Nil)
    /\ pc \in {"message", "address"} \/ Returned =>
          /\ result.SignatureValid \in BOOLEAN
          /\ result.Message \in MessageCheck \cup {Nil}
          /\ result.Address \in AddressCheck \cup {Nil}
    /\ Returned =>
          /\ result.Message # Nil <=> cfg.hasMessage
          /\ result.Address # Nil <=> (cfg.hasAddress \/ cfg.useEmbedded)

\* A text that the verifier takes for a digest in hexadecimal.
SpellsDigest(m) == size(m) # 0 /\ size(m) % 2 = 0 /\ hexDigits(m)

\* WithMessage binds the verdict to what the key's owner signed: an accepted
\* call means that the wallet of the returned key signed, under the very
\* header presented, the message, its digest, or (only for an all-hex
\* message) the digest it spells.  The unsigned "hashed" flag and the choice
\* of a detached payload cannot make another message pass.
MessageWasSigned ==
    Accepted /\ cfg.hasMessage =>
        \E s \in signed :
            /\ s.by = result.PublicKey.id
            /\ s.over.protected = call.ds.signature.protected
            /\ \/ s.over.payload = AsBytes(cfg.message)
               \/ s.over.payload = AsBytes(keyHash224(cfg.message))
               \/ /\ SpellsDigest(cfg.message)
                  /\ s.over.payload = AsBytes(hexDecode(cfg.message))

\* What a wallet returns for a request verifies against the message that was
\* requested, embedded or detached, hashed or not, whatever encoding the
\* wallet gave its header.  (A hashed all-hex message is the documented
\* exception: the verifier takes it for a digest.)
WalletResponseAccepted ==
    \A r \in SignRequests :
        /\ pc = "done" /\ call.ds = wallet!responseOf(r)
        /\ ~conflicting(cfg) /\ cfg.hasMessage /\ cfg.message = r.message
        /\ ~cfg.hasAddress /\ ~cfg.useEmbedded
        /\ ~(r.hashed /\ SpellsDigest(r.message))
        => Accepted

\* For a detached payload the message check and the signature check are one
\* verdict (the comment in Verify says it "already equals SignatureValid"),
\* though each reconstructs the signed bytes for itself.
DetachedVerdictsAgree ==
    Returned /\ cfg.hasMessage /\ detached(sig) =>
        result.Message.Matched = result.SignatureValid

outcome ==
    IF pc # "done" THEN Nil
    ELSE IF err # Nil THEN "error"
    ELSE IF Valid(result) THEN "valid" ELSE "invalid"

contract == INSTANCE VerifyContract WITH response <- outcome

\* Verify implements its contract: every call ends in the outcome promised
\* for it, whatever order the options come in and wherever the work stops.
ImplementsContract == contract!Spec

\* The raw address the call was about.
checkedAddress ==
    IF cfg.useEmbedded THEN call.ds.signature.protected.address
    ELSE IF cfg.address.bech32 # Undecodable THEN cfg.address.bech32.raw
    ELSE cfg.address.hex

\* MatchedVia never names a credential the key does not hold: Payment means
\* the key's hash stands in the payment window of an address type whose
\* payment part is a key, Stake that it stands where the type keeps a stake
\* key, and a script hash equal to it never counts.
MatchedViaIsHeld ==
    Returned /\ result.Address # Nil =>
        LET raw == checkedAddress
        IN  /\ result.Address.MatchedVia = "CredentialPayment" =>
                    raw.first = result.KeyHash /\ raw.type \in {0, 2, 6}
            /\ result.Address.MatchedVia = "CredentialStake" =>
                    \/ raw.second = result.KeyHash /\ raw.type \in {0, 1}
                    \/ raw.first = result.KeyHash /\ raw.type = 14
            /\ result.Address.Matched => result.Address.MatchedVia # "CredentialNone"

\* Under StrictAddress an accepted base address is one whose payment key
\* signed: the stake key alone, or the payment key of an address whose
\* padding makes it another, is not enough.
StrictMeansPaymentKey ==
    Accepted /\ result.Address # Nil /\ cfg.strict
             /\ result.Address.Type = "AddressBase" =>
        /\ checkedAddress.len = 57
        /\ checkedAddress.type \in {0, 2}
        /\ \E s \in signed : checkedAddress.first = blake2b224(s.by)

\* The network reported for a bech32 address is the one its prefix shows the
\* user, and never NetworkUnknown.
Bech32NetworkIsShown ==
    (/\ Returned /\ result.Address # Nil
     /\ result.Address.Source = "AddressSupplied"
     /\ cfg.address.bech32 # Undecodable) =>
        result.Address.Network =
            IF cfg.address.bech32.hrp \in {"addr", "stake"} THEN "Mainnet" ELSE "Testnet"

=============================================================================
