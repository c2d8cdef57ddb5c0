----------------------------- MODULE MCSession -----------------------------
(***************************************************************************)
(* Instances of Session for TLC; byte strings as in MCVerifier.            *)
(***************************************************************************)
EXTENDS Session

k1 == <<"k1">>
k2 == <<"k2">>

MCblake2b224(b) == <<"blake2b224">> \o b
MChexDigits(b) == b \in {Nil, <<>>} \/ Head(b) \in {"hex", "oddhex"}
MCsize(b) ==
    IF b = Nil THEN 0
    ELSE IF MChexDigits(b) /\ b # <<>>
    THEN 2 * Len(Tail(b)) - (IF Head(b) = "oddhex" THEN 1 ELSE 0)
    ELSE Len(b)
MChexDecode(b) == IF b \in {Nil, <<>>} THEN <<>> ELSE Tail(b)
MCEmptyBytes == <<>>

login == <<"login">>
hexDigest == <<"hex", "blake2b224", "login">>
oddHex == <<"oddhex", "12345">>

header == [enc |-> "canonical", alg |-> -8, address |-> Absent]
request(k, m, hashed, isDetached) ==
    [key |-> k, protected |-> header, message |-> m, hashed |-> hashed,
     detached |-> isDetached]

MCSignRequests ==
    {request(k1, login, FALSE, FALSE), request(k2, login, TRUE, FALSE),
     request(k1, oddHex, TRUE, FALSE), request(k1, <<>>, FALSE, TRUE)}

\* Responses with the payload embedded or detached, the flag set or not, and
\* either key beside them.
MCDataSignatures ==
    {[[wallet!responseOf(r) EXCEPT !.signature.payload = p,
                                   !.signature.hashed = f] EXCEPT !.key.x.id = k] :
        r \in MCSignRequests, f \in {Absent, TRUE}, k \in {k1, k2},
        p \in {Nil, login, MCblake2b224(login), MCblake2b224(oddHex)}}

MCMessages == {login, hexDigest, oddHex, <<>>}

raw(t, l, f, s) == [len |-> l, type |-> t, network |-> 0, first |-> f, second |-> s]
hash1 == MCblake2b224(k1)
hash2 == MCblake2b224(k2)
Hex(r) == [bech32 |-> Undecodable, hex |-> r]

\* Options that mean something, options that do not, and the two that exclude
\* each other, in both orders.
other == WithAddress(Hex(raw(14, 29, hash1, Nil)))
MCAddressOptions ==
    {<<>>, <<StrictAddress>>, <<WithMessage(login), StrictAddress>>, <<other>>,
     <<StrictAddress, WithEmbeddedAddress>>, <<other, StrictAddress, WithEmbeddedAddress>>,
     <<WithEmbeddedAddress, other>>}

MCAddressCalls ==
    [addr : {Hex(raw(0, 57, hash2, hash1)), Hex(raw(0, 57, hash1, hash2)),
             Hex(raw(14, 29, hash1, Nil)), Hex(raw(15, 29, hash1, Nil)),
             Hex(raw(6, 30, hash1, Nil))},
     opts : MCAddressOptions]

=============================================================================
