------------------------------ MODULE Address ------------------------------
(***************************************************************************)
(* internal/address: decoding of CIP-19 addresses.                         *)
(*                                                                         *)
(* Raw address bytes are a record [len, type, network, first, second]: the *)
(* length, the two nibbles of the header byte, and the contents of the      *)
(* 28-byte windows raw[1:29] and raw[29:57].  A string is a record          *)
(* [bech32, hex] of what each text decoder makes of it: bech32 gives        *)
(* [hrp, raw] or Undecodable, hex gives raw bytes or Undecodable.           *)
(***************************************************************************)
EXTENDS Integers, Outcome

CONSTANTS
    Undecodable, \* what a text decoder refuses
    Nil,         \* Go's nil
    EmptyString  \* the string ""

-----------------------------------------------------------------------------
Testnet == 0
Mainnet == 1

BaseTypes == {0, 1, 2, 3}
PointerTypes == {4, 5}
EnterpriseTypes == {6, 7}
TypeByron == 8
TypeRewardKey == 14
TypeRewardScript == 15
RewardTypes == {TypeRewardKey, TypeRewardScript}

headerSize == 1
hashSize == 28
paymentLen == headerSize + hashSize
baseLen == headerSize + 2 * hashSize

isReward(t) == t \in RewardTypes

paymentIsScript(t) == t % 2 = 1
baseStakeIsScript(t) == t \in {2, 3}

absentCredential == [Hash |-> Nil, IsScript |-> FALSE]

\* Mutant: only a lower bound on the length.
checkLen_AtLeast(raw, want) == IF raw.len < want THEN "ErrTooShort" ELSE "ok"

checkLen(raw, want) ==
    IF raw.len < want THEN "ErrTooShort"
    ELSE IF raw.len > want THEN "ErrTrailingBytes" ELSE "ok"

\* The addresses Parse builds: header fields and the credentials that
\* fillBase, fillEnterprise and fillReward set once the length is checked.
Filled(raw, want, payment, stake) ==
    IF checkLen(raw, want) # "ok" THEN Fail(checkLen(raw, want))
    ELSE Ok([Type |-> raw.type, Network |-> raw.network,
             Payment |-> payment, Stake |-> stake])

fillBase(raw) ==
    Filled(raw, baseLen,
           [Hash |-> raw.first, IsScript |-> paymentIsScript(raw.type)],
           [Hash |-> raw.second, IsScript |-> baseStakeIsScript(raw.type)])

fillEnterprise(raw) ==
    Filled(raw, paymentLen,
           [Hash |-> raw.first, IsScript |-> paymentIsScript(raw.type)],
           absentCredential)

fillReward(raw) ==
    Filled(raw, paymentLen, absentCredential,
           [Hash |-> raw.first, IsScript |-> raw.type = TypeRewardScript])

\* Pointer, Byron and unassigned types are refused whatever their length.
Parse(raw) ==
    IF raw.len < headerSize THEN Fail("ErrTooShort")
    ELSE IF raw.type \in BaseTypes THEN fillBase(raw)
    ELSE IF raw.type \in EnterpriseTypes THEN fillEnterprise(raw)
    ELSE IF raw.type \in RewardTypes THEN fillReward(raw)
    ELSE Fail("ErrUnsupportedType")

Prefixes == {"addr", "addr_test", "stake", "stake_test"}
PrefixNetwork(hrp) == IF hrp \in {"addr", "stake"} THEN Mainnet ELSE Testnet
PrefixIsReward(hrp) == hrp \in {"stake", "stake_test"}

\* Mutant: the class of the address is compared, its network is not.
checkHRP_ClassOnly(hrp, addr) ==
    IF hrp \notin Prefixes THEN "ErrInvalidBech32"
    ELSE IF PrefixIsReward(hrp) # isReward(addr.Type) THEN "ErrHRPMismatch"
    ELSE "ok"

checkHRP(hrp, addr) ==
    IF hrp \notin Prefixes THEN "ErrInvalidBech32"
    ELSE IF PrefixNetwork(hrp) # addr.Network THEN "ErrNetworkMismatch"
    ELSE IF PrefixIsReward(hrp) # isReward(addr.Type) THEN "ErrHRPMismatch"
    ELSE "ok"

\* Bech32 wins: a string that decodes as bech32 is never tried as hex.
Decode(addr) ==
    IF addr = EmptyString THEN Fail("ErrEmpty")
    ELSE IF addr.bech32 # Undecodable
    THEN LET parsed == Parse(addr.bech32.raw)
             hrp    == checkHRP(addr.bech32.hrp, parsed.val)
         IN  IF ~parsed.ok THEN parsed
             ELSE IF hrp # "ok" THEN Fail(hrp) ELSE parsed
    ELSE IF addr.hex = Undecodable THEN Fail("ErrInvalidBech32")
    ELSE Parse(addr.hex)

=============================================================================
