----------------------------- MODULE MCVerifier -----------------------------
(***************************************************************************)
(* Instances of Verifier for TLC.  A byte string is a tuple of atoms:      *)
(* hashing puts "blake2b224" in front and hexadecimal text puts "hex" in   *)
(* front of what it spells, so both are injective.  Three instances ask    *)
(* about messages, about addresses and about undecodable input.            *)
(***************************************************************************)
EXTENDS Verifier

k1 == <<"k1">>
k2 == <<"k2">>

MCblake2b224(b) == <<"blake2b224">> \o b
MChexDigits(b) == b \in {Nil, <<>>} \/ Head(b) \in {"hex", "oddhex"}
MCsize(b) ==
    IF b = Nil THEN 0
    ELSE IF MChexDigits(b) /\ b # <<>>
    THEN 2 * Len(Tail(b)) - (IF Head(b) = "oddhex" THEN 1 ELSE 0)
    ELSE Len(b)
MChexDecode(b) == IF b \in {Nil, <<>>} THEN <<>> ELSE Tail(b)
MCEmptyBytes == <<>>

\* (the login message, and a text that spells its bytes in hexadecimal)
login == <<"login">>
hexLogin == <<"hex", "login">>

header(encoding, a) == [enc |-> encoding, alg |-> -8, address |-> a]
junk(n) == [len |-> n, by |-> Nil, over |-> Nil]
coseKeyOf(k) == [kty |-> 1, alg |-> -8, crv |-> 6, x |-> [len |-> 32, id |-> k]]
sign1(protected, hashed, payload, signature) ==
    [elements |-> 4, protected |-> protected, hashed |-> hashed,
     payload |-> payload, signature |-> signature]
request(k, protected, m, hashed, isDetached) ==
    [key |-> k, protected |-> protected, message |-> m, hashed |-> hashed,
     detached |-> isDetached]

-----------------------------------------------------------------------------
(* Messages: raw, hashed, detached, empty, all-hex; two encodings of the   *)
(* header; any signature, payload, flag and key put together.              *)

h1 == header("canonical", Absent)
h2 == header("other", Absent)

MessageRequests ==
    {request(k1, h1, login, FALSE, FALSE), request(k1, h2, login, TRUE, FALSE),
     request(k1, h1, login, TRUE, TRUE), request(k1, h1, hexLogin, FALSE, FALSE),
     request(k1, h1, <<>>, FALSE, TRUE), request(k2, h1, <<>>, TRUE, FALSE)}

MessageDataSignatures ==
    {[signature |-> sign1(h, f, p, s), key |-> coseKeyOf(k)] :
        h \in {h1, h2}, f \in {Absent, TRUE}, k \in {k1, k2},
        p \in {Nil, <<>>, login, hexLogin, MCblake2b224(login),
               MCblake2b224(<<>>)},
        s \in {wallet!signatureOf(r) : r \in MessageRequests} \cup {junk(64)}}

MessageOptions ==
    {<<>>, <<WithMessage(login)>>, <<WithMessage(hexLogin)>>, <<WithMessage(Nil)>>,
     <<WithMessage(<<>>)>>, <<WithMessage(hexLogin), WithMessage(login)>>}

MessageCalls == [ds : MessageDataSignatures, opts : MessageOptions]

-----------------------------------------------------------------------------
(* Addresses: every CIP-19 type the code treats differently, networks 0, 1 *)
(* and a reserved one, canonical, short and padded lengths, own and        *)
(* foreign hashes in both windows; bech32 under every prefix, hex, neither,*)
(* and both at once.                                                       *)

raw(t, n, l, f, s) == [len |-> l, type |-> t, network |-> n, first |-> f, second |-> s]
hash1 == MCblake2b224(k1)
hash2 == MCblake2b224(k2)

Raws ==
    {raw(t, n, l, f, s) : t \in {0, 1, 2, 3, 4, 6, 7, 8, 9, 14, 15}, n \in {0, 1, 2},
                          l \in {28, 29, 30, 57, 58},
                          f \in {hash1, hash2}, s \in {hash1, hash2}}

mangled == raw(0, 1, 57, hash2, hash1)
own == raw(0, 0, 57, hash1, hash2)

Bech32(hrp, r) == [bech32 |-> [hrp |-> hrp, raw |-> r], hex |-> Undecodable]
Hex(r) == [bech32 |-> Undecodable, hex |-> r]

AddressStrings ==
    {Hex(r) : r \in Raws} \cup
    {Bech32(p, r) : p \in {"addr", "addr_test", "stake", "stake_test", "pool"},
                    r \in {x \in Raws : x.len \in {29, 57} /\ x.second = hash1}} \cup
    {[bech32 |-> [hrp |-> "pool", raw |-> own], hex |-> own],
     [bech32 |-> Undecodable, hex |-> Undecodable], MCEmptyBytes}

AddressRequests ==
    {request(k1, header("canonical", mangled), login, FALSE, FALSE),
     request(k1, header("canonical", own), login, FALSE, FALSE)}

SignedCalls ==
    [ds : {wallet!responseOf(r) : r \in AddressRequests},
     opts : {<<WithEmbeddedAddress>>, <<StrictAddress, WithEmbeddedAddress>>,
             <<WithEmbeddedAddress, WithAddress(Hex(own))>>,
             <<WithAddress(Hex(mangled)), WithAddress(Hex(own)), StrictAddress>>}]

SuppliedCalls ==
    [ds : {wallet!responseOf(request(k1, header("canonical", own), login, FALSE, FALSE))},
     opts : {<<WithAddress(a)>> : a \in AddressStrings} \cup
            {<<WithAddress(a), StrictAddress>> : a \in AddressStrings}]

\* Embedded addresses of every shape, under a signature that does not verify.
EmbeddedCalls ==
    [ds : {[signature |-> sign1(header("canonical", a), Absent, login, junk(64)),
            key |-> coseKeyOf(k1)] :
              a \in {r \in Raws : r.network # 0} \cup
                    {Absent, raw(0, 0, 0, Nil, Nil)}},
     opts : {<<WithEmbeddedAddress>>, <<WithEmbeddedAddress, StrictAddress>>}]

AddressCalls == SignedCalls \cup SuppliedCalls \cup EmbeddedCalls

-----------------------------------------------------------------------------
(* Undecodable input: each item that can be refused is refused in some call,*)
(* alone and together with every other.  248 = 2^8 - 8 is the unsigned      *)
(* integer that would wrap to EdDSA when MaxInt64 is 127.                   *)

DecodeRequests == {request(k1, h1, login, FALSE, FALSE)}

DecodeProtected ==
    {Undecodable} \cup
    [enc : {"canonical"}, alg : {-8, -7, 248, Absent, Undecodable},
     address : {Absent, Undecodable}]

DecodeSignatures ==
    {NotHex} \cup
    [elements : {3, 4, Undecodable}, protected : DecodeProtected,
     hashed : {FALSE, Undecodable}, payload : {login, Undecodable},
     signature : {wallet!signatureOf(r) : r \in DecodeRequests} \cup
                 {junk(0), junk(63), Undecodable}]

DecodeKeys ==
    {NotHex, Undecodable, coseKeyOf(k1), [coseKeyOf(k1) EXCEPT !.kty = 2],
     [coseKeyOf(k1) EXCEPT !.alg = Absent], [coseKeyOf(k1) EXCEPT !.alg = -7],
     [coseKeyOf(k1) EXCEPT !.crv = 4], [coseKeyOf(k1) EXCEPT !.x = Absent],
     [coseKeyOf(k1) EXCEPT !.x = [len |-> 31, id |-> Nil]]}

DecodeCalls ==
    [ds : [signature : DecodeSignatures, key : DecodeKeys],
     opts : {<<>>, <<WithAddress(Hex(own)), WithEmbeddedAddress>>}]

=============================================================================
