---------------------------- MODULE Cip30Proofs ----------------------------
(***************************************************************************)
(* What the functions of package cip30 return, for every input like those  *)
(* of Inputs: first the address decoder, then that the functions together  *)
(* compute the outcome VerifyPromise defines.                              *)
(***************************************************************************)
EXTENDS Inputs, TLAPS, WellFoundedInduction

-----------------------------------------------------------------------------
(* Addresses. *)

\* An address of the right length has the credentials it was filled with.
LEMMA FilledAddress ==
    ASSUME NEW raw, NEW want, NEW payment, NEW stake,
           address!Filled(raw, want, payment, stake).ok
    PROVE  address!Filled(raw, want, payment, stake).val =
             [Type |-> raw.type, Network |-> raw.network,
              Payment |-> payment, Stake |-> stake]
BY DEF address!Filled, address!Ok, address!Fail

\* What a decoded address says of its raw bytes: its type, and which window
\* holds which credential.
LEMMA ParsedAddress ==
    ASSUME NEW raw, NEW a, address!Parse(raw).ok, a = address!Parse(raw).val
    PROVE  /\ a.Type = raw.type /\ a.Network = raw.network
           /\ \/ /\ raw.type \in {0, 1, 2, 3}
                 /\ a.Payment.Hash = raw.first /\ a.Stake.Hash = raw.second
                 /\ a.Payment.IsScript <=> raw.type \in {1, 3}
                 /\ a.Stake.IsScript <=> raw.type \in {2, 3}
              \/ /\ raw.type \in {6, 7}
                 /\ a.Payment.Hash = raw.first /\ a.Stake.Hash = Nil
                 /\ a.Payment.IsScript <=> raw.type = 7
              \/ /\ raw.type \in {14, 15}
                 /\ a.Payment.Hash = Nil /\ a.Stake.Hash = raw.first
                 /\ a.Stake.IsScript <=> raw.type = 15
<1>1. /\ raw.type \in {0, 1, 2, 3} => address!Parse(raw) = address!fillBase(raw)
      /\ raw.type \in {6, 7} => address!Parse(raw) = address!fillEnterprise(raw)
      /\ raw.type \in {14, 15} => address!Parse(raw) = address!fillReward(raw)
      /\ raw.type \in {0, 1, 2, 3} \cup {6, 7} \cup {14, 15}
    BY DEF address!Parse, address!Fail, address!BaseTypes, address!EnterpriseTypes,
           address!RewardTypes, address!TypeRewardKey, address!TypeRewardScript
<1>2. CASE raw.type \in {0, 1, 2, 3}
    <2> DEFINE payment == [Hash |-> raw.first, IsScript |-> address!paymentIsScript(raw.type)]
               stake == [Hash |-> raw.second, IsScript |-> address!baseStakeIsScript(raw.type)]
    <2>1. address!Parse(raw) = address!Filled(raw, address!baseLen, payment, stake)
        BY <1>1, <1>2, Zenon DEF address!fillBase
    <2>2. a = [Type |-> raw.type, Network |-> raw.network,
               Payment |-> payment, Stake |-> stake]
        <3> HIDE DEF payment, stake
        <3> QED BY <2>1, FilledAddress
    <2>3. /\ a.Type = raw.type /\ a.Network = raw.network
          /\ a.Payment = payment /\ a.Stake = stake
        <3> HIDE DEF payment, stake
        <3> QED BY <2>2
    <2>4. /\ address!paymentIsScript(raw.type) <=> raw.type \in {1, 3}
          /\ address!baseStakeIsScript(raw.type) <=> raw.type \in {2, 3}
        BY <1>2 DEF address!paymentIsScript, address!baseStakeIsScript
    <2> QED BY <1>2, <2>3, <2>4
<1>3. CASE raw.type \in {6, 7}
    <2> DEFINE payment == [Hash |-> raw.first, IsScript |-> address!paymentIsScript(raw.type)]
               stake == address!absentCredential
    <2>1. address!Parse(raw) = address!Filled(raw, address!paymentLen, payment, stake)
        BY <1>1, <1>3, Zenon DEF address!fillEnterprise
    <2>2. a = [Type |-> raw.type, Network |-> raw.network,
               Payment |-> payment, Stake |-> stake]
        <3> HIDE DEF payment, stake
        <3> QED BY <2>1, FilledAddress
    <2>3. /\ a.Type = raw.type /\ a.Network = raw.network
          /\ a.Payment = payment /\ a.Stake = stake
        <3> HIDE DEF payment, stake
        <3> QED BY <2>2
    <2>4. address!paymentIsScript(raw.type) <=> raw.type = 7
        BY <1>3 DEF address!paymentIsScript
    <2> QED BY <1>3, <2>3, <2>4 DEF address!absentCredential
<1>4. CASE raw.type \in {14, 15}
    <2> DEFINE payment == address!absentCredential
               stake == [Hash |-> raw.first, IsScript |-> raw.type = address!TypeRewardScript]
    <2>1. address!Parse(raw) = address!Filled(raw, address!paymentLen, payment, stake)
        BY <1>1, <1>4, Zenon DEF address!fillReward
    <2>2. a = [Type |-> raw.type, Network |-> raw.network,
               Payment |-> payment, Stake |-> stake]
        <3> HIDE DEF payment, stake
        <3> QED BY <2>1, FilledAddress
    <2>3. /\ a.Type = raw.type /\ a.Network = raw.network
          /\ a.Payment = payment /\ a.Stake = stake
        <3> HIDE DEF payment, stake
        <3> QED BY <2>2
    <2>4. stake.Hash = raw.first /\ (stake.IsScript <=> raw.type = 15)
        BY Zenon DEF address!TypeRewardScript
    <2> QED BY <1>4, <2>3, <2>4 DEF address!absentCredential
<1> QED BY <1>1, <1>2, <1>3, <1>4

\* A credential that matches is a window of the raw bytes that the type
\* keeps a key in.
LEMMA HeldCredential ==
    ASSUME NEW raw, NEW h, address!Parse(raw).ok
    PROVE  LET a == address!Parse(raw).val
           IN  /\ credentialMatches(a.Payment, h) =>
                    raw.first = h /\ raw.type \in {0, 2, 6}
               /\ address!isReward(a.Type) /\ credentialMatches(a.Stake, h) =>
                    raw.first = h /\ raw.type = 14
               /\ isBase(a.Type) /\ credentialMatches(a.Stake, h) =>
                    raw.second = h /\ raw.type \in {0, 1}
<1> DEFINE a == address!Parse(raw).val
<1>1. /\ a.Type = raw.type
      /\ \/ /\ raw.type \in {0, 1, 2, 3}
            /\ a.Payment.Hash = raw.first /\ a.Stake.Hash = raw.second
            /\ a.Payment.IsScript <=> raw.type \in {1, 3}
            /\ a.Stake.IsScript <=> raw.type \in {2, 3}
         \/ /\ raw.type \in {6, 7}
            /\ a.Payment.Hash = raw.first /\ a.Stake.Hash = Nil
            /\ a.Payment.IsScript <=> raw.type = 7
         \/ /\ raw.type \in {14, 15}
            /\ a.Payment.Hash = Nil /\ a.Stake.Hash = raw.first
            /\ a.Stake.IsScript <=> raw.type = 15
    BY ParsedAddress
<1> HIDE DEF a
<1>2. credentialMatches(a.Payment, h) => raw.first = h /\ raw.type \in {0, 2, 6}
    BY <1>1 DEF credentialMatches
<1>3. address!isReward(a.Type) /\ credentialMatches(a.Stake, h) =>
        raw.first = h /\ raw.type = 14
    BY <1>1 DEF credentialMatches, address!isReward, address!RewardTypes,
                address!TypeRewardKey, address!TypeRewardScript
<1>4. isBase(a.Type) /\ credentialMatches(a.Stake, h) =>
        raw.second = h /\ raw.type \in {0, 1}
    BY <1>1 DEF credentialMatches, isBase
<1> QED BY <1>2, <1>3, <1>4 DEF a

\* A prefix that passes the check names the network of the address.
LEMMA ShownNetwork ==
    ASSUME NEW hrp, NEW a, address!checkHRP(hrp, a) = "ok"
    PROVE  network(a.Network) = IF hrp \in {"addr", "stake"} THEN "Mainnet" ELSE "Testnet"
BY DEF address!checkHRP, address!PrefixNetwork, address!Prefixes, network,
       address!Mainnet, address!Testnet

\* Parse accepts exactly the canonical raw addresses.
LEMMA ParseIsCanonical ==
    ASSUME NEW raw, raw.len \in Nat
    PROVE  address!Parse(raw).ok <=> promise!Canonical(raw)
<1>1. ASSUME NEW want \in Nat, NEW payment, NEW stake
      PROVE  address!Filled(raw, want, payment, stake).ok <=> raw.len = want
    BY <1>1 DEF address!Filled, address!checkLen, address!Ok, address!Fail
<1>2. address!baseLen = 57 /\ address!paymentLen = 29 /\ address!headerSize = 1
    BY DEF address!baseLen, address!paymentLen, address!headerSize, address!hashSize
<1>3. /\ address!fillBase(raw).ok <=> raw.len = 57
      /\ address!fillEnterprise(raw).ok <=> raw.len = 29
      /\ address!fillReward(raw).ok <=> raw.len = 29
    BY <1>1, <1>2, Zenon
       DEF address!fillBase, address!fillEnterprise, address!fillReward
<1>4. /\ address!BaseTypes = {0, 1, 2, 3} /\ address!EnterpriseTypes = {6, 7}
      /\ address!RewardTypes = {14, 15}
    BY DEF address!BaseTypes, address!EnterpriseTypes, address!RewardTypes,
           address!TypeRewardKey, address!TypeRewardScript
<1> QED BY <1>2, <1>3, <1>4 DEF address!Parse, address!Fail, promise!Canonical

\* A prefix passes the check exactly when it agrees with the address.
LEMMA PrefixCheckIsAgreement ==
    ASSUME NEW hrp, NEW raw, address!Parse(raw).ok
    PROVE  address!checkHRP(hrp, address!Parse(raw).val) = "ok"
                <=> promise!PrefixAgrees(hrp, raw)
<1> DEFINE a == address!Parse(raw).val
<1>1. a.Type = raw.type /\ a.Network = raw.network
    BY ParsedAddress
<1> HIDE DEF a
<1>2. address!checkHRP(hrp, a) = "ok" <=> promise!PrefixAgrees(hrp, raw)
    BY <1>1 DEF address!checkHRP, address!Prefixes, address!PrefixNetwork,
                address!PrefixIsReward, address!isReward, address!RewardTypes,
                address!TypeRewardKey, address!TypeRewardScript, address!Mainnet,
                address!Testnet, promise!PrefixAgrees
<1> QED BY <1>2 DEF a

\* An address matches a hash exactly when the hash is one of those that prove
\* control of it.
LEMMA MatchIsAcceptance ==
    ASSUME NEW raw, address!Parse(raw).ok, NEW h, h # Nil,
           NEW strict \in BOOLEAN, NEW source
    PROVE  matchAddress(address!Parse(raw).val, h, strict, source).Matched
                <=> h \in promise!AcceptedCredentials(raw, strict)
<1> DEFINE a == address!Parse(raw).val
           payment == credentialMatches(a.Payment, h)
           reward  == address!isReward(a.Type) /\ credentialMatches(a.Stake, h)
           base    == isBase(a.Type) /\ credentialMatches(a.Stake, h)
<1>1. matchAddress(a, h, strict, source).Matched
        <=> payment \/ reward \/ (base /\ ~strict)
    <2> HIDE DEF payment, reward, base, a
    <2>1. matchAddress(a, h, strict, source) =
            [Matched    |-> payment \/ reward \/ (base /\ ~strict),
             MatchedVia |-> IF payment THEN "CredentialPayment"
                            ELSE IF reward \/ base THEN "CredentialStake"
                            ELSE "CredentialNone",
             Strict     |-> strict, Source |-> source,
             Type       |-> addressType(a.Type),
             Network    |-> network(a.Network)]
        BY Zenon DEF matchAddress, payment, reward, base
    <2>2. matchAddress(a, h, strict, source).Matched
            = (payment \/ reward \/ (base /\ ~strict))
        BY <2>1
    <2> QED BY <2>2
<1>2. /\ a.Type = raw.type
      /\ \/ /\ raw.type \in {0, 1, 2, 3}
            /\ a.Payment.Hash = raw.first /\ a.Stake.Hash = raw.second
            /\ a.Payment.IsScript <=> raw.type \in {1, 3}
            /\ a.Stake.IsScript <=> raw.type \in {2, 3}
         \/ /\ raw.type \in {6, 7}
            /\ a.Payment.Hash = raw.first /\ a.Stake.Hash = Nil
            /\ a.Payment.IsScript <=> raw.type = 7
         \/ /\ raw.type \in {14, 15}
            /\ a.Payment.Hash = Nil /\ a.Stake.Hash = raw.first
            /\ a.Stake.IsScript <=> raw.type = 15
    BY ParsedAddress
<1> HIDE DEF a
<1>3. payment <=> raw.first = h /\ raw.type \in {0, 2, 6}
    BY <1>2 DEF credentialMatches
<1>4. reward <=> raw.first = h /\ raw.type = 14
    BY <1>2 DEF credentialMatches, address!isReward, address!RewardTypes,
                address!TypeRewardKey, address!TypeRewardScript
<1>5. base <=> raw.second = h /\ raw.type \in {0, 1}
    BY <1>2 DEF credentialMatches, isBase
<1>6. h \in promise!AcceptedCredentials(raw, strict)
        <=> \/ raw.first = h /\ raw.type \in {0, 2, 6, 14}
            \/ raw.second = h /\ raw.type \in {0, 1} /\ ~strict
    BY DEF promise!AcceptedCredentials
<1> QED
    <2> HIDE DEF payment, reward, base
    <2>1. payment \/ reward \/ (base /\ ~strict)
            <=> h \in promise!AcceptedCredentials(raw, strict)
        BY <1>3, <1>4, <1>5, <1>6
    <2> QED BY <1>1, <2>1 DEF a

-----------------------------------------------------------------------------
(* Parsing. *)

\* DecodeKey accepts exactly the keys that can be processed.
LEMMA KeyDecodes ==
    ASSUME NEW k, k # NotHex
    PROVE  /\ cose!DecodeKey(k).ok <=> promise!ProcessableKey(k)
           /\ cose!DecodeKey(k).ok =>
                cose!DecodeKey(k).val = k.x /\ k.x.len = 32
<1> DEFINE key == cose!coseKey(k)
<1>1. /\ key.Kty = (IF k.kty = Absent THEN 0 ELSE k.kty)
      /\ key.Alg = (IF k.alg = Absent THEN 0 ELSE k.alg)
      /\ key.Crv = (IF k.crv = Absent THEN 0 ELSE k.crv)
      /\ key.X = (IF k.x = Absent THEN [len |-> 0, id |-> Nil] ELSE k.x)
    BY DEF cose!coseKey
<1> HIDE DEF key
<1>2. /\ key.Kty = 1 <=> k.kty = 1
      /\ key.Alg = -8 <=> k.alg = -8
      /\ key.Crv = 6 <=> k.crv = 6
      /\ key.X.len = 32 <=> k.x # Absent /\ k.x.len = 32
      /\ key.X.len = 32 => key.X = k.x
    BY <1>1, ValuesAssumption
<1>3. /\ cose!DecodeKey(k).ok <=>
            /\ k # Undecodable
            /\ key.Kty = 1 /\ key.Alg = -8 /\ key.Crv = 6 /\ key.X.len = 32
      /\ cose!DecodeKey(k).ok => cose!DecodeKey(k).val = key.X
    BY DEF key, cose!DecodeKey, cose!keyTypeOKP, cose!algEdDSA, cose!curveEd25519,
           cose!ed25519KeySize, cose!Ok, cose!Fail
<1> QED BY <1>2, <1>3 DEF promise!ProcessableKey

\* DecodeSign1 accepts exactly the signatures that can be processed, and keeps
\* their parts as they are.
LEMMA SignatureDecodes ==
    ASSUME NEW w, w # NotHex, SignatureShape(w)
    PROVE  LET d == cose!DecodeSign1(w)
           IN  /\ d.ok <=> promise!ProcessableSign1(w)
               /\ d.ok =>
                    /\ d.val.ProtectedRaw = w.protected
                    /\ d.val.Payload = w.payload
                    /\ d.val.Signature = w.signature
                    /\ d.val.Address = (IF w.protected.address = Absent
                                        THEN Nil ELSE w.protected.address)
                    /\ d.val.Hashed = (w.hashed \notin {Absent, FALSE})
<1> DEFINE header == cose!decodeProtected(w.protected)
           hashed == cose!decodeHashed(w.hashed)
<1>0. /\ cose!asInt64(w.protected.alg).ok /\ cose!asInt64(w.protected.alg).val = -8
            <=> w.protected.alg = -8
      /\ -8 \in (-MaxInt64 - 1)..MaxInt64
    BY MaxInt64Assumption DEF cose!asInt64, cose!Ok, cose!Fail
<1>1. /\ header.ok /\ header.val.alg = -8 <=>
            /\ w.protected # Undecodable
            /\ w.protected.alg = -8
            /\ w.protected.address # Undecodable
      /\ header.ok => header.val.address = (IF w.protected.address = Absent
                                            THEN Nil ELSE w.protected.address)
    BY <1>0 DEF cose!decodeProtected, cose!Ok, cose!Fail
<1>2. /\ hashed.ok <=> w.hashed # Undecodable
      /\ hashed.ok => hashed.val = (w.hashed \notin {Absent, FALSE})
    BY DEF SignatureShape, cose!decodeHashed, cose!Ok, cose!Fail
<1> HIDE DEF header, hashed
<1>3. /\ cose!DecodeSign1(w).ok <=>
            /\ w.elements = 4
            /\ header.ok /\ header.val.alg = -8
            /\ hashed.ok
            /\ w.payload # Undecodable
            /\ w.signature # Undecodable /\ w.signature.len = 64
      /\ cose!DecodeSign1(w).ok =>
            cose!DecodeSign1(w).val =
                [ProtectedRaw |-> w.protected, Payload |-> w.payload,
                 Signature |-> w.signature, Address |-> header.val.address,
                 Hashed |-> hashed.val]
    BY DEF header, hashed, cose!DecodeSign1, cose!coseSign1Len, cose!algEdDSA,
           cose!ed25519SigSize, cose!Ok, cose!Fail
<1>4. cose!DecodeSign1(w).ok <=> promise!ProcessableSign1(w)
    BY <1>1, <1>2, <1>3 DEF promise!ProcessableSign1
<1>5. ASSUME cose!DecodeSign1(w).ok
      PROVE  LET d == cose!DecodeSign1(w)
             IN  /\ d.val.ProtectedRaw = w.protected
                 /\ d.val.Payload = w.payload
                 /\ d.val.Signature = w.signature
                 /\ d.val.Address = header.val.address
                 /\ d.val.Hashed = hashed.val
                 /\ header.ok /\ hashed.ok
    BY <1>3, <1>5
<1> QED BY <1>1, <1>2, <1>4, <1>5

\* Parse accepts exactly what can be processed, and its Signature has the
\* parts of the input.
LEMMA ParseDecodes ==
    ASSUME NEW ds, SignatureShape(ds.signature)
    PROVE  LET s == Parse(ds).val
               w == ds.signature
           IN  /\ Parse(ds).ok <=> /\ promise!ProcessableSign1(w)
                                   /\ promise!ProcessableKey(ds.key)
               /\ Parse(ds).ok =>
                    /\ s.PublicKey = ds.key.x /\ s.PublicKey.len = 32
                    /\ s.protectedRaw = w.protected
                    /\ s.Payload = w.payload
                    /\ s.signature = w.signature /\ s.signature.len = 64
                    /\ s.Address = (IF w.protected.address = Absent
                                    THEN Nil ELSE w.protected.address)
                    /\ s.Hashed = (w.hashed \notin {Absent, FALSE})
<1> DEFINE d == cose!DecodeSign1(ds.signature)
           k == cose!DecodeKey(ds.key)
<1>1. /\ Parse(ds).ok <=>
            ds.signature # NotHex /\ ds.key # NotHex /\ d.ok /\ k.ok
      /\ Parse(ds).ok =>
            Parse(ds).val =
                [PublicKey |-> k.val, Payload |-> d.val.Payload,
                 Hashed |-> d.val.Hashed, Address |-> d.val.Address,
                 protectedRaw |-> d.val.ProtectedRaw, signature |-> d.val.Signature]
    BY DEF Parse, Ok, Fail
<1>2. ds.key # NotHex =>
        /\ k.ok <=> promise!ProcessableKey(ds.key)
        /\ k.ok => k.val = ds.key.x /\ ds.key.x.len = 32
    BY KeyDecodes
<1>3. ds.signature # NotHex =>
        /\ d.ok <=> promise!ProcessableSign1(ds.signature)
        /\ d.ok =>
            /\ d.val.ProtectedRaw = ds.signature.protected
            /\ d.val.Payload = ds.signature.payload
            /\ d.val.Signature = ds.signature.signature
            /\ d.val.Address = (IF ds.signature.protected.address = Absent
                                THEN Nil ELSE ds.signature.protected.address)
            /\ d.val.Hashed = (ds.signature.hashed \notin {Absent, FALSE})
    BY SignatureDecodes
<1> HIDE DEF d, k
<1>4. promise!ProcessableKey(ds.key) => ds.key # NotHex
    BY DEF promise!ProcessableKey
<1>5. promise!ProcessableSign1(ds.signature) =>
        ds.signature # NotHex /\ ds.signature.signature.len = 64
    BY DEF promise!ProcessableSign1
<1>6. Parse(ds).ok <=> /\ promise!ProcessableSign1(ds.signature)
                       /\ promise!ProcessableKey(ds.key)
    BY <1>1, <1>2, <1>3, <1>4, <1>5
<1>7. ASSUME Parse(ds).ok
      PROVE  LET s == Parse(ds).val
             IN  /\ s.PublicKey = k.val /\ s.protectedRaw = d.val.ProtectedRaw
                 /\ s.Payload = d.val.Payload /\ s.signature = d.val.Signature
                 /\ s.Address = d.val.Address /\ s.Hashed = d.val.Hashed
                 /\ ds.signature # NotHex /\ ds.key # NotHex /\ d.ok /\ k.ok
    BY <1>1, <1>7
<1> QED BY <1>2, <1>3, <1>5, <1>6, <1>7

-----------------------------------------------------------------------------
(* Options. *)

\* v is the last argument that the first n options give for a name.
IsLatest(opts, n, name, v) ==
    \E i \in 1..n :
        /\ opts[i].opt = name /\ v = opts[i].arg
        /\ \A j \in 1..n : j > i => opts[j].opt # name

Given(opts, n, name) == \E i \in 1..n : opts[i].opt = name

\* The configuration is what the first n options say, the last one first.
AppliedUpTo(cfg, opts, n) ==
    /\ cfg.hasMessage <=> Given(opts, n, "WithMessage")
    /\ cfg.hasMessage => IsLatest(opts, n, "WithMessage", cfg.message)
    /\ cfg.hasAddress <=> Given(opts, n, "WithAddress")
    /\ cfg.hasAddress => IsLatest(opts, n, "WithAddress", cfg.address)
    /\ cfg.useEmbedded <=> Given(opts, n, "WithEmbeddedAddress")
    /\ cfg.strict <=> Given(opts, n, "StrictAddress")

\* The configuration is what all the options say.
Represents(cfg, opts) ==
    /\ {cfg.hasMessage, cfg.hasAddress, cfg.useEmbedded, cfg.strict} \subseteq BOOLEAN
    /\ cfg.hasMessage <=> promise!Asked(opts, "WithMessage")
    /\ cfg.hasMessage => cfg.message = promise!LastArg(opts, "WithMessage")
    /\ cfg.hasAddress <=> promise!Asked(opts, "WithAddress")
    /\ cfg.hasAddress => cfg.address = promise!LastArg(opts, "WithAddress")
    /\ cfg.useEmbedded <=> promise!Asked(opts, "WithEmbeddedAddress")
    /\ cfg.strict <=> promise!Asked(opts, "StrictAddress")

\* The last argument is unique.
LEMMA LatestIsLast ==
    ASSUME NEW S, NEW opts \in Seq(S), NEW name, NEW v,
           IsLatest(opts, Len(opts), name, v)
    PROVE  v = promise!LastArg(opts, name)
<1> DEFINE Last(i) == /\ opts[i].opt = name
                      /\ \A j \in DOMAIN opts : j > i => opts[j].opt # name
<1>1. DOMAIN opts = 1..Len(opts) /\ Len(opts) \in Nat
    OBVIOUS
<1>2. PICK i \in DOMAIN opts : Last(i) /\ v = opts[i].arg
    BY <1>1 DEF IsLatest
<1>3. \A k \in DOMAIN opts : Last(k) => k = i
    BY <1>1, <1>2
<1>4. (CHOOSE k \in DOMAIN opts : Last(k)) = i
    <2> HIDE DEF Last
    <2> QED BY <1>2, <1>3
<1> QED BY <1>2, <1>4 DEF promise!LastArg

LEMMA AppliedRepresents ==
    ASSUME NEW S, NEW opts \in Seq(S), NEW cfg,
           {cfg.hasMessage, cfg.hasAddress, cfg.useEmbedded, cfg.strict} \subseteq BOOLEAN,
           AppliedUpTo(cfg, opts, Len(opts))
    PROVE  Represents(cfg, opts)
<1>1. DOMAIN opts = 1..Len(opts)
    OBVIOUS
<1>2. \A name : promise!Asked(opts, name) <=> Given(opts, Len(opts), name)
    BY <1>1 DEF promise!Asked, Given
<1>3. \A name, v : IsLatest(opts, Len(opts), name, v) => v = promise!LastArg(opts, name)
    BY LatestIsLast
<1> QED BY <1>2, <1>3 DEF AppliedUpTo, Represents

\* An option applied to a configuration of the first n makes one of n + 1.
LEMMA OptionApplied ==
    ASSUME NEW opts, NEW n \in Nat, NEW cfg, AppliedUpTo(cfg, opts, n),
           cfg = [message |-> cfg.message, hasMessage |-> cfg.hasMessage,
                  address |-> cfg.address, hasAddress |-> cfg.hasAddress,
                  useEmbedded |-> cfg.useEmbedded, strict |-> cfg.strict],
           opts[n + 1].opt \in OptionNames
    PROVE  AppliedUpTo(VerifyOption(opts[n + 1], cfg), opts, n + 1)
<1> DEFINE o == opts[n + 1]
           new == VerifyOption(o, cfg)
<1>1. 1..(n + 1) = (1..n) \cup {n + 1}
    OBVIOUS
<1>2. ASSUME NEW name
      PROVE  Given(opts, n + 1, name) <=> Given(opts, n, name) \/ o.opt = name
    BY <1>1 DEF Given
<1>3. ASSUME NEW name, NEW v, o.opt # name, IsLatest(opts, n, name, v)
      PROVE  IsLatest(opts, n + 1, name, v)
    BY <1>1, <1>3 DEF IsLatest
<1>4. ASSUME NEW name, o.opt = name
      PROVE  IsLatest(opts, n + 1, name, o.arg)
    BY <1>1, <1>4 DEF IsLatest
<1>5. /\ new.hasMessage = (IF o.opt = "WithMessage" THEN TRUE ELSE cfg.hasMessage)
      /\ new.message = (IF o.opt = "WithMessage" THEN o.arg ELSE cfg.message)
      /\ new.hasAddress = (IF o.opt = "WithAddress" THEN TRUE ELSE cfg.hasAddress)
      /\ new.address = (IF o.opt = "WithAddress" THEN o.arg ELSE cfg.address)
      /\ new.useEmbedded = (IF o.opt = "WithEmbeddedAddress" THEN TRUE ELSE cfg.useEmbedded)
      /\ new.strict = (IF o.opt = "StrictAddress" THEN TRUE ELSE cfg.strict)
    <2>1. \/ o.opt = "WithMessage" /\ new = [cfg EXCEPT !.message = o.arg, !.hasMessage = TRUE]
          \/ o.opt = "WithAddress" /\ new = [cfg EXCEPT !.address = o.arg, !.hasAddress = TRUE]
          \/ o.opt = "WithEmbeddedAddress" /\ new = [cfg EXCEPT !.useEmbedded = TRUE]
          \/ o.opt = "StrictAddress" /\ new = [cfg EXCEPT !.strict = TRUE]
        BY DEF VerifyOption, OptionNames
    <2> HIDE DEF new
    <2> QED BY <2>1
<1> HIDE DEF o, new
<1>6. AppliedUpTo(new, opts, n + 1)
    BY <1>2, <1>3, <1>4, <1>5 DEF AppliedUpTo
<1> QED BY <1>6 DEF new, o

\* A record with the fields of verifyConfig, the flags of them bools.
IsConfig(cfg) ==
    /\ cfg = [message |-> cfg.message, hasMessage |-> cfg.hasMessage,
              address |-> cfg.address, hasAddress |-> cfg.hasAddress,
              useEmbedded |-> cfg.useEmbedded, strict |-> cfg.strict]
    /\ {cfg.hasMessage, cfg.hasAddress, cfg.useEmbedded, cfg.strict} \subseteq BOOLEAN

\* The zero configuration is what no option says.
LEMMA NothingApplied ==
    ASSUME NEW opts
    PROVE  IsConfig(zeroConfig) /\ AppliedUpTo(zeroConfig, opts, 0)
<1>1. \A name : ~Given(opts, 0, name)
    BY DEF Given
<1>2. AppliedUpTo(zeroConfig, opts, 0)
    BY <1>1 DEF AppliedUpTo, zeroConfig
<1> QED BY <1>2 DEF IsConfig, zeroConfig

\* An option keeps the fields and the bools.
LEMMA OptionGivesConfig ==
    ASSUME NEW o, o.opt \in OptionNames, NEW cfg, IsConfig(cfg)
    PROVE  IsConfig(VerifyOption(o, cfg))
<1> DEFINE new == VerifyOption(o, cfg)
<1>1. \/ new = [cfg EXCEPT !.message = o.arg, !.hasMessage = TRUE]
      \/ new = [cfg EXCEPT !.address = o.arg, !.hasAddress = TRUE]
      \/ new = [cfg EXCEPT !.useEmbedded = TRUE]
      \/ new = [cfg EXCEPT !.strict = TRUE]
    BY DEF VerifyOption, OptionNames
<1> HIDE DEF new
<1>2. IsConfig(new)
    BY <1>1 DEF IsConfig
<1> QED BY <1>2 DEF new

\* One option after the last, where there is one.
LEMMA OneMoreApplied ==
    ASSUME NEW S, NEW opts \in Seq(S), NEW cfg, IsConfig(cfg),
           AppliedUpTo(cfg, opts, Len(opts)), NEW o \in S, o.opt \in OptionNames
    PROVE  /\ Append(opts, o) \in Seq(S)
           /\ IsConfig(VerifyOption(o, cfg))
           /\ AppliedUpTo(VerifyOption(o, cfg), Append(opts, o), Len(Append(opts, o)))
<1> DEFINE more == Append(opts, o)
           n == Len(opts)
<1>1. /\ more \in Seq(S) /\ n \in Nat /\ Len(more) = n + 1 /\ more[n + 1] = o
      /\ \A i \in 1..n : more[i] = opts[i]
    OBVIOUS
<1> HIDE DEF more, n
<1>2. AppliedUpTo(cfg, opts, n)
    BY DEF n
<1>3. /\ \A name : Given(more, n, name) <=> Given(opts, n, name)
      /\ \A name, v : IsLatest(more, n, name, v) <=> IsLatest(opts, n, name, v)
    BY <1>1 DEF Given, IsLatest
<1>4. AppliedUpTo(cfg, more, n)
    BY <1>2, <1>3 DEF AppliedUpTo
<1>5. AppliedUpTo(VerifyOption(o, cfg), more, n + 1)
    BY <1>1, <1>4, OptionApplied DEF IsConfig
<1> QED BY <1>1, <1>5, OptionGivesConfig DEF more

\* Numbers that are not none have a smallest one.
LEMMA SmallestNumber ==
    ASSUME NEW T, T \subseteq Nat, T # {}
    PROVE  \E n \in T : \A k \in T : n <= k
<1> DEFINE R == OpToRel(<, Nat)
<1>1. IsWellFoundedOn(R, Nat)
    BY NatLessThanWellFounded
<1>2. \A a, b \in Nat : a < b => <<a, b>> \in R
    BY DEF OpToRel
<1> HIDE DEF R
<1>3. PICK n \in T : \A k \in T : ~(<<k, n>> \in R)
    BY <1>1, WFMin
<1>4. n \in Nat /\ \A k \in T : k \in Nat
    OBVIOUS
<1>5. \A k \in T : ~(k < n)
    BY <1>2, <1>3, <1>4
<1> QED BY <1>4, <1>5

\* What holds of 0 and is handed on up to n holds of n.
LEMMA CountedUp ==
    ASSUME NEW n \in Nat, NEW T, 0 \in T, \A k \in 0..(n - 1) : k \in T => k + 1 \in T
    PROVE  n \in T
<1> SUFFICES ASSUME n \notin T PROVE FALSE
    OBVIOUS
<1> DEFINE S == (0..n) \ T
<1>1. S \subseteq Nat /\ S # {}
    OBVIOUS
<1>2. PICK k \in S : \A i \in S : k <= i
    BY <1>1, SmallestNumber
<1>3. k # 0 /\ k - 1 \in 0..(n - 1) /\ k - 1 \notin S /\ (k - 1) + 1 = k
    BY <1>2
<1> QED BY <1>2, <1>3

\* F is the configuration after each of the options.
Configures(F, opts) ==
    /\ F[0] = zeroConfig
    /\ \A n \in 0..(Len(opts) - 1) : F[n + 1] = VerifyOption(opts[n + 1], F[n])

\* applyOptions has such a function, and returns its last configuration or the
\* error.
LEMMA OptionsCounted ==
    ASSUME NEW opts, Len(opts) \in Nat
    PROVE  \E F : /\ Configures(F, opts)
                  /\ applyOptions(opts) = IF conflicting(F[Len(opts)])
                                          THEN Fail("ErrConflictingAddress")
                                          ELSE Ok(F[Len(opts)])
<1> DEFINE N == Len(opts)
           Onward(before, n) == VerifyOption(opts[n], before)
           Body(F, n) == IF n = 0 THEN zeroConfig ELSE Onward(F[n - 1], n)
           Is(F, n) == F = [i \in 0..n |-> Body(F, i)]
           T == {n \in 0..N : \E F : Is(F, n)}
           K == CHOOSE F : Is(F, N)
<1>1. applyOptions(opts) = IF conflicting(K[N]) THEN Fail("ErrConflictingAddress")
                           ELSE Ok(K[N])
    BY DEF applyOptions
<1> HIDE DEF N, Onward
<1>2. N \in Nat
    BY DEF N
<1>3. 0 \in T
    <2> DEFINE F == [i \in 0..0 |-> zeroConfig]
    <2>1. Is(F, 0)
        OBVIOUS
    <2> HIDE DEF F, Is
    <2> QED BY <1>2, <2>1
<1>4. ASSUME NEW n \in 0..(N - 1), n \in T
      PROVE  n + 1 \in T
    <2>1. PICK F : Is(F, n)
        BY <1>4
    <2> DEFINE G == [i \in 0..(n + 1) |-> IF i <= n THEN F[i] ELSE Onward(F[n], n + 1)]
    <2>2. n \in Nat /\ n + 1 \in 0..N
        BY <1>2
    <2>3. \A i \in 0..n : G[i] = F[i] /\ F[i] = Body(F, i)
        BY <2>1, <2>2
    <2>4. G[n + 1] = Onward(F[n], n + 1)
        BY <2>2
    <2>5. DOMAIN G = 0..(n + 1) /\ G = [i \in DOMAIN G |-> G[i]]
        OBVIOUS
    <2> HIDE DEF G
    <2>6. ASSUME NEW i \in 0..(n + 1)
          PROVE  G[i] = Body(G, i)
        <3>1. CASE i = 0
            BY <2>2, <2>3, <3>1
        <3>2. CASE i \in 1..n
            <4>1. i - 1 \in 0..n /\ i \in 0..n /\ i # 0
                BY <2>2, <3>2
            <4> QED BY <2>3, <4>1
        <3>3. CASE i = n + 1
            <4>1. (n + 1) - 1 = n /\ n \in 0..n /\ n + 1 # 0
                BY <2>2
            <4> QED BY <2>3, <2>4, <3>3, <4>1
        <3> QED BY <2>2, <3>1, <3>2, <3>3
    <2>7. Is(G, n + 1)
        BY <2>5, <2>6
    <2> QED BY <2>2, <2>7
<1>5. N \in T
    <2> HIDE DEF T
    <2>1. \A n \in 0..(N - 1) : n \in T => n + 1 \in T
        BY <1>4
    <2> QED BY <1>2, <1>3, <2>1, CountedUp
<1>6. Is(K, N)
    <2>1. \E F : Is(F, N)
        BY <1>5
    <2> HIDE DEF Is
    <2> QED BY <2>1
<1> HIDE DEF K
<1>7. \A n \in 0..N : K[n] = Body(K, n)
    BY <1>6
<1>8. K[0] = zeroConfig
    BY <1>2, <1>7
<1>9. ASSUME NEW n \in 0..(N - 1)
      PROVE  K[n + 1] = Onward(K[n], n + 1)
    <2>1. n + 1 \in 0..N /\ n + 1 # 0 /\ (n + 1) - 1 = n
        BY <1>2
    <2> QED BY <1>7, <2>1
<1>10. Configures(K, opts)
    BY <1>8, <1>9 DEF Configures, N, Onward
<1> QED BY <1>1, <1>10 DEF N

\* applyOptions makes the configuration that all the options say, unless two
\* of them exclude each other.
LEMMA OptionsApply ==
    ASSUME NEW S, NEW opts \in Seq(S), \A i \in 1..Len(opts) : opts[i].opt \in OptionNames
    PROVE  \E cfg : /\ IsConfig(cfg) /\ AppliedUpTo(cfg, opts, Len(opts))
                    /\ applyOptions(opts) = IF conflicting(cfg)
                                            THEN Fail("ErrConflictingAddress")
                                            ELSE Ok(cfg)
<1>1. Len(opts) \in Nat
    OBVIOUS
<1>2. PICK F : /\ Configures(F, opts)
               /\ applyOptions(opts) = IF conflicting(F[Len(opts)])
                                       THEN Fail("ErrConflictingAddress")
                                       ELSE Ok(F[Len(opts)])
    BY <1>1, OptionsCounted
<1> DEFINE N == Len(opts)
           Right(n) == IsConfig(F[n]) /\ AppliedUpTo(F[n], opts, n)
           T == {n \in 0..N : Right(n)}
<1>3. Right(0)
    BY <1>2, NothingApplied DEF Configures
<1>4. ASSUME NEW n \in 0..(N - 1), Right(n)
      PROVE  Right(n + 1)
    <2>1. /\ n \in Nat /\ n + 1 \in 1..N
          /\ F[n + 1] = VerifyOption(opts[n + 1], F[n])
        BY <1>1, <1>2 DEF Configures
    <2>2. opts[n + 1].opt \in OptionNames
        BY <2>1
    <2>3. IsConfig(F[n + 1])
        BY <1>4, <2>1, <2>2, OptionGivesConfig
    <2>4. AppliedUpTo(F[n + 1], opts, n + 1)
        BY <1>4, <2>1, <2>2, OptionApplied DEF IsConfig
    <2> QED BY <2>3, <2>4
<1>5. N \in T
    <2> HIDE DEF Right
    <2>1. N \in Nat /\ 0 \in T
        BY <1>1, <1>3
    <2>2. \A n \in 0..(N - 1) : n \in T => n + 1 \in T
        BY <1>4, <2>1
    <2> HIDE DEF T, N
    <2> QED BY <2>1, <2>2, CountedUp
<1> QED BY <1>2, <1>5

-----------------------------------------------------------------------------
(* The signature and the message. *)

\* A signature that verifies for some key was made by that key's wallet.
Unforged(ds, signed) ==
    (/\ ds.signature # NotHex
     /\ ds.signature.signature # Undecodable
     /\ ds.signature.signature.by # Nil)
        => ds.signature.signature \in signed

\* What wallets sign is a Sig_structure.
AreSigStructures(signed) ==
    \A s \in signed :
        s.over = [context |-> "Signature1", protected |-> s.over.protected,
                  payload |-> s.over.payload]

\* A payload verifies exactly when the wallet of the key signed it, under the
\* header presented.
LEMMA VerifiedWasSigned ==
    ASSUME NEW ds, SignatureShape(ds.signature), KeyShape(ds.key), Parse(ds).ok,
           NEW signed, Unforged(ds, signed), AreSigStructures(signed), NEW payload
    PROVE  LET sgn == ds.signature.signature
           IN  verifyPayload(Parse(ds).val, payload) <=>
                   /\ sgn \in signed
                   /\ sgn.by = ds.key.x.id
                   /\ sgn.over.protected = ds.signature.protected
                   /\ sgn.over.payload = AsBytes(payload)
<1> DEFINE s == Parse(ds).val
           sgn == ds.signature.signature
<1>1. /\ s.PublicKey = ds.key.x /\ s.PublicKey.len = 32
      /\ s.protectedRaw = ds.signature.protected
      /\ s.signature = sgn /\ sgn.len = 64
      /\ promise!ProcessableSign1(ds.signature) /\ promise!ProcessableKey(ds.key)
    <2>1. promise!ProcessableSign1(ds.signature) /\ promise!ProcessableKey(ds.key)
        BY ParseDecodes
    <2>2. s.PublicKey = ds.key.x /\ s.PublicKey.len = 32
        BY ParseDecodes
    <2>3. s.protectedRaw = ds.signature.protected
        BY ParseDecodes
    <2>4. s.signature = sgn /\ s.signature.len = 64
        BY ParseDecodes
    <2> QED BY <2>1, <2>2, <2>3, <2>4
<1> HIDE DEF s
<1>2. ds.signature # NotHex /\ sgn # Undecodable /\ ds.key # NotHex
    BY <1>1 DEF promise!ProcessableSign1, promise!ProcessableKey
<1>3. ds.key.x.id # Nil
    BY <1>1, <1>2, KeyDecodes DEF KeyShape
<1>4. sgn.by = ds.key.x.id => sgn \in signed
    BY <1>2, <1>3 DEF Unforged
<1>5. verifyPayload(s, payload) <=>
        /\ sgn.by = ds.key.x.id
        /\ sgn.over = [context |-> "Signature1", protected |-> ds.signature.protected,
                       payload |-> AsBytes(payload)]
    BY <1>1 DEF verifyPayload, ed25519Verify, cose!SigStructure, AsBytes,
                cose!ed25519KeySize, cose!ed25519SigSize
<1>6. sgn \in signed =>
        sgn.over = [context |-> "Signature1", protected |-> sgn.over.protected,
                    payload |-> sgn.over.payload]
    BY DEF AreSigStructures
<1> QED BY <1>4, <1>5, <1>6 DEF s

\* The digest of a message is the payload expected for it.
LEMMA DigestIsExpected ==
    ASSUME NEW c, promise!AsksMessage(c),
           MessageShape(promise!LastArg(c.opts, "WithMessage"))
    PROVE  AsBytes(digest(promise!LastArg(c.opts, "WithMessage"), promise!Hashed(c)))
                = promise!ExpectedPayload(c)
<1> DEFINE m == promise!LastArg(c.opts, "WithMessage")
           h == promise!Hashed(c)
<1>1. promise!Message(c) = AsBytes(m)
    BY DEF promise!Message, AsBytes
<1>2. promise!IsHexText(AsBytes(m)) <=>
        size(m) # 0 /\ hexDigits(m) /\ size(m) % 2 = 0
    BY DEF promise!IsHexText, AsBytes, MessageShape
<1>3. promise!IsHexText(AsBytes(m)) => AsBytes(m) = m
    BY ValuesAssumption DEF promise!IsHexText, AsBytes, MessageShape
<1>4. AsBytes(hexDecode(AsBytes(m))) = hexDecode(AsBytes(m))
      /\ AsBytes(blake2b224(AsBytes(m))) = blake2b224(AsBytes(m))
    BY DEF MessageShape, AsBytes
<1>5. /\ promise!IsHexText(AsBytes(m)) => decodeHexDigest(m) = Ok(hexDecode(m))
      /\ ~promise!IsHexText(AsBytes(m)) => decodeHexDigest(m) = Fail("notDigest")
    BY <1>2 DEF decodeHexDigest
<1>6. digest(m, h) = IF ~h THEN m
                     ELSE IF promise!IsHexText(AsBytes(m)) THEN hexDecode(m)
                     ELSE blake2b224(AsBytes(m))
    <2> HIDE DEF m, h
    <2>1. promise!IsHexText(AsBytes(m)) =>
            decodeHexDigest(m).ok /\ decodeHexDigest(m).val = hexDecode(m)
        BY <1>5 DEF Ok
    <2>2. ~promise!IsHexText(AsBytes(m)) => ~decodeHexDigest(m).ok
        BY <1>5 DEF Fail
    <2> QED BY <2>1, <2>2 DEF digest, keyHash224
<1>7. promise!ExpectedPayload(c) =
        IF ~h THEN AsBytes(m)
        ELSE IF promise!IsHexText(AsBytes(m)) THEN hexDecode(AsBytes(m))
        ELSE blake2b224(AsBytes(m))
    BY <1>1 DEF promise!ExpectedPayload
<1> HIDE DEF m, h
<1>8. AsBytes(digest(m, h)) = promise!ExpectedPayload(c)
    BY <1>3, <1>4, <1>6, <1>7
<1> QED BY <1>8 DEF m, h

\* The signature check and the message check together say whether the wallet
\* of the key signed what was asked about.
LEMMA ChecksAreWasSigned ==
    ASSUME NEW c, SignatureShape(c.ds.signature), KeyShape(c.ds.key), Parse(c.ds).ok,
           NEW signed, Unforged(c.ds, signed), AreSigStructures(signed),
           NEW cfg, Represents(cfg, c.opts),
           cfg.hasMessage => MessageShape(cfg.message)
    PROVE  LET s == Parse(c.ds).val
           IN  /\ signatureValid(s, cfg)
               /\ cfg.hasMessage => VerifyMessage(s, cfg.message).Matched
               <=>
               /\ promise!WasSigned(c, signed)
               /\ promise!AsksMessage(c) =>
                    promise!ProvenPayload(c) = promise!ExpectedPayload(c)
<1> DEFINE s == Parse(c.ds).val
           d == digest(cfg.message, s.Hashed)
           SignedOver(p) == /\ c.ds.signature.signature \in signed
                            /\ c.ds.signature.signature.by = c.ds.key.x.id
                            /\ c.ds.signature.signature.over.protected
                                    = c.ds.signature.protected
                            /\ c.ds.signature.signature.over.payload = p
<1>1. /\ s.Payload = c.ds.signature.payload
      /\ s.Hashed = promise!Hashed(c)
    BY ParseDecodes DEF promise!Hashed
<1>2. detached(s) <=> promise!Detached(c)
    BY <1>1 DEF detached, promise!Detached
<1>3. promise!AsksMessage(c) <=> cfg.hasMessage
    BY DEF Represents, promise!AsksMessage
<1>4. cfg.hasMessage => AsBytes(d) = promise!ExpectedPayload(c)
    BY <1>1, <1>3, DigestIsExpected DEF Represents
<1>5. \A p : verifyPayload(s, p) <=> SignedOver(AsBytes(p))
    BY VerifiedWasSigned
<1>6. promise!WasSigned(c, signed) <=> SignedOver(promise!ProvenPayload(c))
    BY DEF promise!WasSigned, promise!Key
<1> HIDE DEF s, SignedOver
<1>7. ~detached(s) => AsBytes(s.Payload) = s.Payload
    BY DEF detached, AsBytes
<1>8. detached(s) => AsBytes(s.Payload) = EmptyBytes
    BY DEF detached, AsBytes
<1>9. promise!ProvenPayload(c) =
        IF ~detached(s) THEN s.Payload
        ELSE IF cfg.hasMessage THEN promise!ExpectedPayload(c) ELSE EmptyBytes
    BY <1>1, <1>2, <1>3 DEF promise!ProvenPayload
<1> HIDE DEF d
<1>10. CASE cfg.hasMessage /\ detached(s)
    <2>1. signatureValid(s, cfg) <=> verifyPayload(s, d)
        BY <1>10 DEF signatureValid, d
    <2>2. VerifyMessage(s, cfg.message).Matched <=> verifyPayload(s, d)
        BY <1>10 DEF VerifyMessage, d
    <2>3. verifyPayload(s, d) <=> promise!WasSigned(c, signed)
        BY <1>4, <1>5, <1>6, <1>9, <1>10
    <2> QED BY <1>3, <1>9, <1>10, <2>1, <2>2, <2>3 DEF s
<1>11. CASE ~(cfg.hasMessage /\ detached(s))
    <2>1. signatureValid(s, cfg) <=> promise!WasSigned(c, signed)
        BY <1>5, <1>6, <1>7, <1>8, <1>9, <1>11 DEF signatureValid, SignatureVerify
    <2>2. cfg.hasMessage =>
            (VerifyMessage(s, cfg.message).Matched
                <=> promise!ProvenPayload(c) = promise!ExpectedPayload(c))
        <3> SUFFICES ASSUME cfg.hasMessage
                     PROVE  VerifyMessage(s, cfg.message).Matched
                        <=> promise!ProvenPayload(c) = promise!ExpectedPayload(c)
            OBVIOUS
        <3>1. VerifyMessage(s, cfg.message).Matched <=> bytesEqual(s.Payload, d)
            BY <1>11 DEF VerifyMessage, d
        <3> QED BY <1>4, <1>7, <1>9, <1>11, <3>1 DEF bytesEqual
    <2> QED BY <1>3, <2>1, <2>2 DEF s
<1> QED BY <1>10, <1>11

-----------------------------------------------------------------------------
(* The address. *)

\* The hash compared with an address is that of the key presented.
LEMMA KeyHashOfParsed ==
    ASSUME NEW c, SignatureShape(c.ds.signature), KeyShape(c.ds.key), Parse(c.ds).ok
    PROVE  LET h == KeyHash(Parse(c.ds).val)
           IN  h = blake2b224(promise!Key(c)) /\ h # Nil
<1> DEFINE s == Parse(c.ds).val
<1>1. s.PublicKey = c.ds.key.x /\ promise!ProcessableKey(c.ds.key)
    BY ParseDecodes
<1> HIDE DEF s
<1>2. c.ds.key.x.id # Nil /\ blake2b224(c.ds.key.x.id) # Nil
    BY <1>1, KeyDecodes DEF KeyShape, promise!ProcessableKey
<1>3. KeyHash(s) = blake2b224(promise!Key(c)) /\ KeyHash(s) # Nil
    BY <1>1, <1>2 DEF KeyHash, keyHash224, AsBytes, promise!Key
<1> QED BY <1>3 DEF s

\* The check of a supplied address ends without an error exactly when it can be
\* processed, and then matches exactly when the key controls it.
LEMMA SuppliedCheckIsControl ==
    ASSUME NEW c, SignatureShape(c.ds.signature), KeyShape(c.ds.key), Parse(c.ds).ok,
           promise!Asked(c.opts, "WithAddress"),
           ~promise!Asked(c.opts, "WithEmbeddedAddress"),
           NEW strict \in BOOLEAN, strict <=> promise!Asked(c.opts, "StrictAddress"),
           NEW a, a = promise!LastArg(c.opts, "WithAddress"), AddressShape(a)
    PROVE  LET check == matchDecoded(address!Decode(a), Parse(c.ds).val, strict,
                                     "AddressSupplied")
           IN  /\ check.ok <=> promise!ProcessableAddress(c)
               /\ check.ok => (check.val.Matched <=> promise!ControlsAddress(c))
<1> DEFINE s == Parse(c.ds).val
           raw == IF a.bech32 # Undecodable THEN a.bech32.raw ELSE a.hex
           decoded == address!Decode(a)
           check == matchDecoded(decoded, s, strict, "AddressSupplied")
<1>1. raw = promise!RawAddress(c)
    BY DEF promise!RawAddress
<1>2. a # EmptyBytes /\ raw # Undecodable => raw.len \in Nat
    BY DEF AddressShape
<1>3. a # EmptyBytes /\ raw # Undecodable =>
        (address!Parse(raw).ok <=> promise!Canonical(raw))
    BY <1>2, ParseIsCanonical
<1>4. address!Parse(raw).ok =>
        (address!checkHRP(a.bech32.hrp, address!Parse(raw).val) = "ok"
            <=> promise!PrefixAgrees(a.bech32.hrp, raw))
    BY PrefixCheckIsAgreement
<1>5. decoded.ok <=>
        /\ a # EmptyBytes /\ raw # Undecodable /\ address!Parse(raw).ok
        /\ a.bech32 # Undecodable =>
              address!checkHRP(a.bech32.hrp, address!Parse(raw).val) = "ok"
    BY DEF address!Decode, address!Fail, AddressShape
<1>6. decoded.ok => decoded = address!Parse(raw)
    BY DEF address!Decode, address!Fail
<1>7. promise!ProcessableAddress(c) <=>
        /\ a # EmptyBytes /\ raw # Undecodable /\ promise!Canonical(raw)
        /\ a.bech32 # Undecodable => promise!PrefixAgrees(a.bech32.hrp, raw)
    BY <1>1 DEF promise!ProcessableAddress
<1>8. KeyHash(s) = blake2b224(promise!Key(c)) /\ KeyHash(s) # Nil
    BY KeyHashOfParsed
<1>9. decoded.ok =>
        (matchAddress(decoded.val, KeyHash(s), strict, "AddressSupplied").Matched
            <=> promise!ControlsAddress(c))
    <2> SUFFICES ASSUME decoded.ok
                 PROVE  matchAddress(decoded.val, KeyHash(s), strict, "AddressSupplied").Matched
                            <=> promise!ControlsAddress(c)
        OBVIOUS
    <2>1. address!Parse(raw).ok /\ decoded = address!Parse(raw)
        BY <1>5, <1>6
    <2>2. promise!ControlsAddress(c) <=>
            KeyHash(s) \in promise!AcceptedCredentials(raw, strict)
        <3> HIDE DEF raw, s
        <3>1. strict = promise!Asked(c.opts, "StrictAddress")
            BY DEF promise!Asked
        <3> QED BY <1>1, <1>8, <3>1 DEF promise!ControlsAddress
    <2> HIDE DEF raw, s, decoded
    <2> QED BY <1>8, <2>1, <2>2, MatchIsAcceptance
<1> HIDE DEF raw, decoded, s
<1>10. check.ok <=> decoded.ok
    BY DEF matchDecoded, Ok, Fail
<1>11. decoded.ok =>
        check.val = matchAddress(decoded.val, KeyHash(s), strict, "AddressSupplied")
    BY DEF matchDecoded, Ok
<1>12. check.ok <=> promise!ProcessableAddress(c)
    BY <1>3, <1>4, <1>5, <1>7, <1>10
<1> HIDE DEF check
<1>13. check.ok => (check.val.Matched <=> promise!ControlsAddress(c))
    BY <1>9, <1>10, <1>11
<1> QED BY <1>12, <1>13 DEF check, decoded, s

\* The check of the embedded address: the same.
LEMMA EmbeddedCheckIsControl ==
    ASSUME NEW c, SignatureShape(c.ds.signature), KeyShape(c.ds.key), Parse(c.ds).ok,
           promise!Asked(c.opts, "WithEmbeddedAddress"),
           NEW strict \in BOOLEAN, strict <=> promise!Asked(c.opts, "StrictAddress")
    PROVE  LET check == matchEmbeddedAddress(Parse(c.ds).val, strict)
           IN  /\ check.ok <=> promise!ProcessableAddress(c)
               /\ check.ok => (check.val.Matched <=> promise!ControlsAddress(c))
<1> DEFINE s == Parse(c.ds).val
           raw == c.ds.signature.protected.address
           decoded == address!Parse(raw)
           check == matchEmbeddedAddress(s, strict)
<1>1. raw = promise!RawAddress(c)
    BY DEF promise!RawAddress
<1>2. /\ s.Address = (IF raw = Absent THEN Nil ELSE raw)
      /\ promise!ProcessableSign1(c.ds.signature)
    BY ParseDecodes
<1>3. KeyHash(s) = blake2b224(promise!Key(c)) /\ KeyHash(s) # Nil
    BY KeyHashOfParsed
<1> HIDE DEF s
<1>4. raw # Absent => raw # Nil /\ raw.len \in Nat
    BY <1>2 DEF SignatureShape, promise!ProcessableSign1
<1>5. raw # Absent => (decoded.ok <=> promise!Canonical(raw))
    BY <1>4, ParseIsCanonical
<1>6. promise!ProcessableAddress(c) <=> raw # Absent /\ promise!Canonical(raw)
    BY <1>1 DEF promise!ProcessableAddress
<1>7. promise!Canonical(raw) => raw.len # 0
    BY DEF promise!Canonical
<1>8. check = IF raw = Absent \/ raw.len = 0 THEN Fail("ErrNoEmbeddedAddress")
              ELSE matchDecoded(decoded, s, strict, "AddressEmbedded")
    BY <1>2, <1>4 DEF matchEmbeddedAddress
<1>9. /\ check.ok <=> raw # Absent /\ raw.len # 0 /\ decoded.ok
      /\ check.ok => check.val = matchAddress(decoded.val, KeyHash(s), strict,
                                              "AddressEmbedded")
    <2> HIDE DEF check, decoded, raw
    <2> QED BY <1>8 DEF matchDecoded, Ok, Fail
<1>10. check.ok => (check.val.Matched <=> promise!ControlsAddress(c))
    <2> SUFFICES ASSUME check.ok
                 PROVE  check.val.Matched <=> promise!ControlsAddress(c)
        OBVIOUS
    <2>1. strict = promise!Asked(c.opts, "StrictAddress")
        BY DEF promise!Asked
    <2>2. promise!ControlsAddress(c) <=>
            KeyHash(s) \in promise!AcceptedCredentials(raw, strict)
        <3> HIDE DEF raw
        <3> QED BY <1>1, <1>3, <2>1 DEF promise!ControlsAddress
    <2>3. check.val = matchAddress(decoded.val, KeyHash(s), strict, "AddressEmbedded")
          /\ decoded.ok
        BY <1>9
    <2> HIDE DEF raw, check
    <2> QED BY <1>3, <2>2, <2>3, MatchIsAcceptance
<1> HIDE DEF check
<1>11. check.ok <=> promise!ProcessableAddress(c)
    BY <1>5, <1>6, <1>7, <1>9
<1> QED BY <1>10, <1>11 DEF check, s

\* What the functions of the package conclude, in the order Verify calls them.
computedOutcome(ds, cfg) ==
    LET s     == Parse(ds).val
        asks  == cfg.hasAddress \/ cfg.useEmbedded
        check == addressCheck(s, cfg)
    IN  IF conflicting(cfg) \/ ~Parse(ds).ok \/ (asks /\ ~check.ok) THEN "error"
        ELSE IF /\ signatureValid(s, cfg)
                /\ cfg.hasMessage => VerifyMessage(s, cfg.message).Matched
                /\ asks => check.val.Matched
             THEN "valid" ELSE "invalid"

\* It is the outcome promised.
LEMMA ComputedIsPromised ==
    ASSUME NEW c, SignatureShape(c.ds.signature), KeyShape(c.ds.key),
           NEW signed, Unforged(c.ds, signed), AreSigStructures(signed),
           NEW cfg, Represents(cfg, c.opts),
           cfg.hasMessage => MessageShape(cfg.message),
           cfg.hasAddress => AddressShape(cfg.address)
    PROVE  computedOutcome(c.ds, cfg) = promise!Outcome(c, signed)
<1> DEFINE s == Parse(c.ds).val
           asks == cfg.hasAddress \/ cfg.useEmbedded
           check == addressCheck(s, cfg)
<1>1. /\ asks <=> promise!AsksAddress(c)
      /\ conflicting(cfg) <=> /\ promise!Asked(c.opts, "WithAddress")
                              /\ promise!Asked(c.opts, "WithEmbeddedAddress")
    BY DEF Represents, promise!AsksAddress, conflicting
<1>2. Parse(c.ds).ok <=> /\ promise!ProcessableSign1(c.ds.signature)
                         /\ promise!ProcessableKey(c.ds.key)
    BY ParseDecodes
<1>3. ASSUME asks, ~conflicting(cfg), Parse(c.ds).ok
      PROVE  /\ check.ok <=> promise!ProcessableAddress(c)
             /\ check.ok => (check.val.Matched <=> promise!ControlsAddress(c))
    <2>1. CASE cfg.useEmbedded
        <3>1. check = matchEmbeddedAddress(s, cfg.strict)
            BY <2>1 DEF addressCheck
        <3>2. /\ promise!Asked(c.opts, "WithEmbeddedAddress") /\ cfg.strict \in BOOLEAN
              /\ cfg.strict <=> promise!Asked(c.opts, "StrictAddress")
            BY <2>1 DEF Represents
        <3> QED BY <1>3, <3>1, <3>2, EmbeddedCheckIsControl
    <2>2. CASE ~cfg.useEmbedded
        <3>1. check = matchDecoded(address!Decode(cfg.address), s, cfg.strict,
                                   "AddressSupplied")
            BY <2>2 DEF addressCheck
        <3>2. /\ promise!Asked(c.opts, "WithAddress")
              /\ ~promise!Asked(c.opts, "WithEmbeddedAddress")
              /\ cfg.strict \in BOOLEAN
              /\ cfg.strict <=> promise!Asked(c.opts, "StrictAddress")
              /\ cfg.address = promise!LastArg(c.opts, "WithAddress")
              /\ AddressShape(cfg.address)
            BY <1>3, <2>2 DEF Represents
        <3> QED BY <1>3, <3>1, <3>2, SuppliedCheckIsControl
    <2> QED BY <2>1, <2>2
<1> HIDE DEF check
<1>4. promise!Processable(c) <=>
        ~conflicting(cfg) /\ Parse(c.ds).ok /\ (asks => check.ok)
    BY <1>1, <1>2, <1>3 DEF promise!Processable
<1>5. ASSUME promise!Processable(c)
      PROVE  promise!Valid(c, signed) <=>
                /\ signatureValid(s, cfg)
                /\ cfg.hasMessage => VerifyMessage(s, cfg.message).Matched
                /\ asks => check.val.Matched
    <2>1. /\ signatureValid(s, cfg)
          /\ cfg.hasMessage => VerifyMessage(s, cfg.message).Matched
          <=>
          /\ promise!WasSigned(c, signed)
          /\ promise!AsksMessage(c) =>
               promise!ProvenPayload(c) = promise!ExpectedPayload(c)
        BY <1>4, <1>5, ChecksAreWasSigned
    <2>2. asks => (check.val.Matched <=> promise!ControlsAddress(c))
        BY <1>3, <1>4, <1>5
    <2> HIDE DEF asks, s
    <2> QED BY <1>1, <2>1, <2>2 DEF promise!Valid
<1> HIDE DEF asks, s
<1>6. computedOutcome(c.ds, cfg) =
        IF conflicting(cfg) \/ ~Parse(c.ds).ok \/ (asks /\ ~check.ok) THEN "error"
        ELSE IF /\ signatureValid(s, cfg)
                /\ cfg.hasMessage => VerifyMessage(s, cfg.message).Matched
                /\ asks => check.val.Matched
             THEN "valid" ELSE "invalid"
    BY Zenon DEF computedOutcome, check, asks, s
<1> QED BY <1>4, <1>5, <1>6 DEF promise!Outcome

=============================================================================
