--------------------------- MODULE VerifyPromise ---------------------------
(***************************************************************************)
(* The outcome that Verify promises for a call, with none of how it is     *)
(* computed: a call either cannot be processed ("error") or gets a verdict,*)
(* and the verdict is "valid" exactly when a wallet signed what the caller *)
(* asked about.  VerifyContract makes a state machine of it; Session       *)
(* compares the methods of a parsed Signature with it.                     *)
(***************************************************************************)
EXTENDS Integers, Sequences

CONSTANTS
    Undecodable, Absent, Nil, EmptyBytes, NotHex,
    blake2b224(_), size(_), hexDigits(_), hexDecode(_)

-----------------------------------------------------------------------------
(* The question asked *)

Asked(opts, name) == \E i \in DOMAIN opts : opts[i].opt = name

\* An option given twice counts once, with its last argument.
LastArg(opts, name) ==
    opts[CHOOSE i \in DOMAIN opts :
            /\ opts[i].opt = name
            /\ \A j \in DOMAIN opts : j > i => opts[j].opt # name].arg

-----------------------------------------------------------------------------
(* Input that can be processed *)

ProcessableSign1(w) ==
    /\ w # NotHex
    /\ w.elements = 4
    /\ w.protected # Undecodable
    /\ w.protected.alg = -8
    /\ w.protected.address # Undecodable
    /\ w.hashed # Undecodable
    /\ w.payload # Undecodable
    /\ w.signature # Undecodable
    /\ w.signature.len = 64

ProcessableKey(k) ==
    /\ k \notin {NotHex, Undecodable}
    /\ k.kty = 1 /\ k.alg = -8 /\ k.crv = 6
    /\ k.x # Absent
    /\ k.x.len = 32

Canonical(raw) ==
    \/ raw.type \in {0, 1, 2, 3} /\ raw.len = 57
    \/ raw.type \in {6, 7, 14, 15} /\ raw.len = 29

PrefixAgrees(hrp, raw) ==
    \/ hrp = "addr" /\ raw.network = 1 /\ raw.type \notin {14, 15}
    \/ hrp = "addr_test" /\ raw.network = 0 /\ raw.type \notin {14, 15}
    \/ hrp = "stake" /\ raw.network = 1 /\ raw.type \in {14, 15}
    \/ hrp = "stake_test" /\ raw.network = 0 /\ raw.type \in {14, 15}

\* The raw address a question is about, however it was written.
RawAddress(c) ==
    IF Asked(c.opts, "WithEmbeddedAddress") THEN c.ds.signature.protected.address
    ELSE LET a == LastArg(c.opts, "WithAddress")
         IN  IF a.bech32 # Undecodable THEN a.bech32.raw ELSE a.hex

ProcessableAddress(c) ==
    IF Asked(c.opts, "WithEmbeddedAddress")
    THEN RawAddress(c) # Absent /\ Canonical(RawAddress(c))
    ELSE LET a == LastArg(c.opts, "WithAddress")
         IN  /\ a # EmptyBytes
             /\ a.bech32 # Undecodable => PrefixAgrees(a.bech32.hrp, a.bech32.raw)
             /\ RawAddress(c) # Undecodable /\ Canonical(RawAddress(c))

AsksAddress(c) ==
    Asked(c.opts, "WithAddress") \/ Asked(c.opts, "WithEmbeddedAddress")

Processable(c) ==
    /\ ~(Asked(c.opts, "WithAddress") /\ Asked(c.opts, "WithEmbeddedAddress"))
    /\ ProcessableSign1(c.ds.signature)
    /\ ProcessableKey(c.ds.key)
    /\ AsksAddress(c) => ProcessableAddress(c)

-----------------------------------------------------------------------------
(* The verdict *)

Key(c) == c.ds.key.x.id
Hashed(c) == c.ds.signature.hashed \notin {Absent, FALSE}
Detached(c) == c.ds.signature.payload \in {Nil, EmptyBytes}
AsksMessage(c) == Asked(c.opts, "WithMessage")
Message(c) ==
    LET m == LastArg(c.opts, "WithMessage") IN IF m = Nil THEN EmptyBytes ELSE m

\* Hashed, a text of hexadecimal digits stands for the bytes it spells.
IsHexText(m) == m # EmptyBytes /\ hexDigits(m) /\ size(m) % 2 = 0

\* The payload a wallet signs for the message expected.
ExpectedPayload(c) ==
    CASE ~Hashed(c) -> Message(c)
      [] Hashed(c) /\ IsHexText(Message(c)) -> hexDecode(Message(c))
      [] OTHER -> blake2b224(Message(c))

ProvenPayload(c) ==
    CASE ~Detached(c) -> c.ds.signature.payload
      [] Detached(c) /\ AsksMessage(c) -> ExpectedPayload(c)
      [] OTHER -> EmptyBytes

\* The wallet of the presented key is among those that signed, and what it
\* signed is the proven payload.
WasSigned(c, signed) ==
    LET s == c.ds.signature.signature
    IN  /\ s \in signed
        /\ s.by = Key(c)
        /\ s.over.protected = c.ds.signature.protected
        /\ s.over.payload = ProvenPayload(c)

\* The hashes that prove control of an address to the standard asked for.
AcceptedCredentials(raw, strict) ==
    (IF raw.type \in {0, 2, 6, 14} THEN {raw.first} ELSE {}) \cup
    (IF raw.type \in {0, 1} /\ ~strict THEN {raw.second} ELSE {})

ControlsAddress(c) ==
    blake2b224(Key(c)) \in
        AcceptedCredentials(RawAddress(c), Asked(c.opts, "StrictAddress"))

Valid(c, signed) ==
    /\ WasSigned(c, signed)
    /\ AsksMessage(c) => ProvenPayload(c) = ExpectedPayload(c)
    /\ AsksAddress(c) => ControlsAddress(c)

Outcome(c, signed) ==
    IF ~Processable(c) THEN "error" ELSE IF Valid(c, signed) THEN "valid" ELSE "invalid"

=============================================================================
