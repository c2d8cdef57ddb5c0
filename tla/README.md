# Verification of go-cip-30

TLA+ modules, TLC instances and TLAPS proofs for the CIP-30 data-signature
verifier in this repository, and for the script that configures the repository
at GitHub. Paths below are relative to the repository.

## 1. Inventory

| part | source | state it keeps | operations |
|---|---|---|---|
| `cip30.Verify` and its options | `cip30.go`, `address.go`, `message.go`, `errors.go` | per call: the `verifyConfig`, the parsed `Signature`, the `Result` under construction | `applyOptions`, `Parse`, `signatureValid`, `VerifyMessage`, `addressCheck`, `Result.Valid` |
| the step-by-step API | `cip30.go` | a parsed `Signature` the caller keeps | `Parse`, `Signature.Verify`, `VerifyMessage`, `MatchesAddress`; `KeyHash` only reads the key |
| `internal/cose` | `internal/cose/cose.go` | none | `DecodeSign1`, `DecodeKey`, `SigStructure` |
| `internal/address` | `internal/address/address.go` | none | `Decode`, `Parse` |
| wallets (external) | as `scripts/gen-fixtures.sh`, `testdata/` and the docs describe them | the signatures made | `api.signData` |
| repository configurator | `.github/scripts/configure_github_repo.py` | per run: the manifest, the plan, what it has fetched | `load_manifest`, `build_plan`, `apply_plan`, in modes plan and apply |
| GitHub REST API (external) | as `GitHubApi` in the same script uses it | settings, toggles, the Pages site and the rulesets of a repository | the requests of `GitHubApi`; changes by people |
| fixture generator, CI, release, documentation site | `scripts/`, `.github/workflows/`, `docs/` | files and services outside | not modelled: I/O and declarative configuration |

How they interact. A wallet signs a message and returns a `DataSignature`
(a COSE_Sign1 and a COSE_Key, hex-encoded). What arrives at the library may have
been put together from parts of several such responses: nothing but the
signature itself ties them. `Verify` applies its options in order, parses,
computes the signature verdict, then the message verdict, then the address
verdict, and drops all of them if the address cannot be decoded. The
step-by-step API runs the same functions when the caller chooses, on the same
parsed value. The library is sequential and keeps nothing between calls; the
only concurrent activity is wallets signing.

A run of the configurator is a process. It loads the manifest, reads the
repository one request at a time, compares, and in mode apply sends what differs
one request at a time. It locks nothing, retries nothing and keeps nothing:
other runs and people change the repository between any two of its requests, a
request may fail with or without having taken effect, and the run then stops
where it is. The next run starts from the repository as it finds it.

What is hard here, and the property each part needs:

* *Two encodings of one thing.* A null and an empty payload, two encodings of a
  protected header, bech32 and hex text. Honest signatures must survive all of
  them (`WalletResponseAccepted`), and no address may be read as another
  (`Bech32NetworkIsShown`, `ImplementsContract`).
* *Unsigned data steering the check.* The `hashed` flag, the payload when it is
  detached, and the key are not covered by what arrives beside them: an accepted
  verdict must still mean that the message was signed (`MessageWasSigned`).
* *Partial failure.* A step that fails after others succeeded must leave no
  half-built result (`TypeOK`, `ImplementsContract`).
* *Confusable credentials.* A script hash with the bytes of a key hash, padded
  addresses, base addresses mixing a foreign payment part with one's own stake
  part (`MatchedViaIsHeld`, `StrictMeansPaymentKey`).
* *Sequences of calls.* Options in any order and repeated, methods in any order
  and repeated (`ImplementsContract`, `StepwiseAgrees`).
* *Boundaries.* A CBOR integer that would wrap to EdDSA; lengths one off; the
  parity of a hexadecimal message.
* *Partial application* (configurator). A run that stops leaves the rest undone,
  and creating a Pages site is two requests; what is left must be repairable by
  the next run, and exit code 0 must mean that nothing is left
  (`ImplementsReconciler`, `ExitZeroMeansConverged`).
* *Stale plans* (configurator). A plan made before others wrote must not make
  anything worse (`PutsRight`), nor touch what the manifest does not speak of
  (`UnmanagedUntouched`).
* *Lost answers and races* (configurator). A ruleset is told by its name, which
  need not be unique; repeating a request that took effect, or two runs at once,
  may make a second one (`DuplicatesBounded`).
* *Two forms of one ruleset* (configurator). GitHub shows a ruleset with its lists
  in another order and without defaults; a dry run must report the differences
  that mean something and no others (`PlanIsDrift`).
* *Rules left to the operator* (configurator). An update replaces a whole ruleset
  (`ManualFollowUpKept`, see Findings).

Every hazard, at its line, with its properties, is listed in `PROJECT.json`.

## 2. Modules

```
Outcome            Ok(v) / Fail(e): Go's (value, error)
 |- Cose           internal/cose      (pure)
 |- Address        internal/address   (pure)
 `- Cip30          package cip30      (pure; instances of Cose and Address)
     `- Inputs     what decoders return and callers pass; instance of VerifyPromise
         |- Cip30Proofs    lemmas on the functions of Cip30
         |- Verifier       Verify as a state machine, with Wallet; refines VerifyContract
         |   |- MCVerifier          three instances for TLC
         |   `- VerifierProofs      theorems (with Cip30Proofs)
         `- Session        Parse once, methods in any order, with Wallet
             |- MCSession           instance for TLC
             `- SessionProofs       theorem (with Cip30Proofs)
Wallet             external: what wallets sign, and what can arrive
VerifyPromise      the outcome of a call, stated apart
 `- VerifyContract abstract specification of Verify

Manifest           load_manifest and what the planner reads  (pure)
 `- Ruleset        payloads and their normal form            (pure)
     `- GitHub     external: what requests do, how rulesets are shown
         `- SettingsContract       what the manifest asks for, stated apart
             `- RepoConfigurator   runs of the script, failures, people;
                 |                 refines Reconciler
                 |- MCRepoConfigurator   six instances for TLC
                 `- RepoConfiguratorProofs   theorems
                     |- DuplicateProofs      theorem
                     `- ReconcilerProofs     theorem
                         `- ComparisonProofs     lemmas on the normal form of a ruleset
                             `- ConvergenceProofs    theorems (with DuplicateProofs)
Reconciler         abstract specification of the configurator
```

**Outcome, Cose, Address, Cip30** hold the pure functions, one operator for one
Go function and under its name (`SignatureVerify` is the method
`Signature.Verify`). Early returns keep their order. `Cose` and `Address` carry
the errors of their packages; `Parse` and `matchDecoded` wrap them as the code
does, so that only the errors of `errors.go` leave `Cip30`.

Data is abstract. Byte strings are values told apart by equality; blake2b-224,
the length, the test for hexadecimal digits and hex decoding are constant
operators, and `decodeHexDigest` is written with them as `message.go` writes it. A
CBOR item is what the strict decoder makes of it for the Go type requested, or
`Undecodable`. A protected header is a record with its encoding (`enc`) beside
the two entries the code reads, so that headers may say the same and differ in
bytes. An address string is the pair of what bech32 and hex decoding make of it.
An Ed25519 signature is `[len, by, over]`, the key that made it and the
structure it covers; it verifies for exactly these (`ed25519Verify`). Integers
read from a header are bounded by `MaxInt64`, and unsigned ones reach
`2 * MaxInt64 + 1`, so that a wrap is possible in the model.

**Wallet** is external: `signData` adds a signature to `signed`; `responseOf` is
the `DataSignature` a wallet returns. `CanArrive` is unforgeability: whatever
else is put together, a signature by a key was made by its wallet.

**Verifier** runs one `Verify` call after another, one action per step of the
function:

| action | code (`cip30.go`) |
|---|---|
| `Verify(c)` | entry, 335 |
| `ApplyOption`, `CheckConflict` | `applyOptions`, 180-189 |
| `ParseInput` | 341-344 |
| `CheckSignature` | 346-352 |
| `CheckMessage` | 354-358 |
| `CheckAddress`, `SkipAddress` | 360-368 |
| `Return` | the caller takes the outcome |
| `SignData(r)` | a wallet signs meanwhile |

`pc`, `todo`, `cfg`, `sig`, `result` and `err` are the local variables. A
`return nil, err` is `ReturnError`: it drops `result`.

**Inputs** says what the inputs are like: what a decoder can return for the Go type
asked of it (a `hashed` entry is a bool, a decoded address has a length), and what
a caller passes. `Verifier` and `Session` assume it of the calls they are given.

**VerifyPromise** states what `Verify` promises with none of how: three outcomes, `error` exactly for what cannot be processed, `valid` exactly when a
wallet signed what was asked about. It looks at the call, not at a parsed
signature or a configuration. **VerifyContract** makes a state machine of it:
a call is made, gets that outcome, is forgotten. `ImplementsContract` is the refinement
`call |-> call, response |-> outcome`, `outcome` being computed from `pc`, `err`
and `Valid(result)`.

**Session** keeps a parsed signature and the last result of each method;
`StepwiseAgrees` compares what they say together with the outcome
`VerifyPromise` gives to the same question. `MatchesAddress` runs `applyOptions`
over whatever options it is given, as the code does (290-294): of these
`StrictAddress` is part of the question, `WithAddress` and `WithEmbeddedAddress`
together make it one that cannot be answered, and the others mean nothing.

**Manifest, Ruleset** hold the pure functions of the configurator: what
`load_manifest` accepts, what is read of a manifest, `build_ruleset_payload` and
`normalize_ruleset_payload`. A TOML table is a function from its keys, a value of
the wrong type is `Misfit`, a missing one `Nil`; `Merged` is Python's
`{**a, **b}`. A rule is its type and its parameters.

**GitHub** is external: which requests are refused (`Refuses`), what the others do
(`Effect`), what one page of the list of rulesets may hold (`Pages`), and the
forms in which a ruleset is shown (`Shown`). A ruleset's id is its place in
`rulesets`. A deleted one leaves `Nil` there, so that ids are not used
again. `DuplicateNames` says whether it accepts a second ruleset with the name
and target of another: the code relies on neither. Rulesets are listed, and so
fetched, in an order that is GitHub's choice.

**RepoConfigurator** runs the script: `run[r]` holds the local variables of one
process, `github` the repository.

| action | code (`configure_github_repo.py`) |
|---|---|
| `Start(r, mode)` | `main`, `load_manifest`, 1151-1152 |
| `ReadRepository` | `get_repository` and the changes it decides, 500-562 |
| `ReadToggle`, one for each toggle asked for | `get_toggle_state`, 564-599 |
| `ReadPages` | `plan_pages_changes`, 677-713 |
| `ListRulesets` | the payloads, 739-856, then the list, 945-960 |
| `ReadRuleset`, one for each managed one | 961-967 |
| `FinishPlan` | `plan_ruleset_changes`, 970-1006; the end of `build_plan` |
| `SendRequest`, one for each request | `apply_plan`, 1091-1113 |
| `FinishApply`, `Exit` | the end of `apply_plan`, of `main` |
| `RequestFails`, `AnswerLost` | `ApiError` without, with the effect, 276-300 |
| `Edit` | a person at github.com |

A `ConfigError` or an `ApiError` is `Fails`: exit code 2, nothing is undone. An
exception nobody catches, as of a connection cut while the answer is read, ends the
run in the same place with another exit code.
`disturbed` is a history variable: somebody else changed the repository since
the run began. An edit is a setting or a toggle flipped, the Pages site removed, a
ruleset deleted, its rules changed, or a bare one made under a managed name.

**SettingsContract** says when a manifest can be applied and which parts of a
repository differ from it, flag by flag and rule by rule, with none of the
script's payloads and normal forms. **Reconciler** is the promise: a request puts
one part right and none wrong (`Safety`), and when people stop changing things
everything becomes right unless a person has to settle something (`Converges`).
The refinement is `drift |-> Drift(manifest, github)`, `blocked |-> Blocked`: the
manifest cannot be applied, or two rulesets share a managed name.

## 3. Runs

| run | module, cfg | what it shows |
|---|---|---|
| `verify_message` | `MCVerifier`, `MCVerifier_message.cfg` | `MessageWasSigned`, `WalletResponseAccepted`, `DetachedVerdictsAgree`, `ImplementsContract` |
| `verify_address` | `MCVerifier`, `MCVerifier_address.cfg` | `TypeOK`, `MatchedViaIsHeld`, `StrictMeansPaymentKey`, `Bech32NetworkIsShown`, `ImplementsContract` |
| `verify_decode` | `MCVerifier`, `MCVerifier_decode.cfg` | `ImplementsContract` for undecodable input |
| `session` | `MCSession`, `MCSession.cfg` | `StepwiseAgrees`, with any options given to `MatchesAddress` |
| `odd_hex` | `MCSession`, `MCSession_oddhex.cfg` | violation: see Findings |
| `configurator_alone` | `MCRepoConfigurator`, `_alone.cfg` | one run after another, any edit: `TypeOK`, `PlanIsDrift`, `ExitZeroMeansConverged`, `UnmanagedUntouched`, `PutsRight` |
| `configurator_together` | `_together.cfg` | two runs at once, fair: `ImplementsReconciler` |
| `configurator_race` | `_race.cfg` | two runs at once where names may repeat: `DuplicatesBounded`, `ExitZeroMeansConverged` |
| `configurator_retry` | `_retry.cfg` | many failures in a row: `DuplicatesBounded` with a bound of one |
| `configurator_page` | `_page.cfg` | more rulesets than a page holds: `ExitZeroMeansConverged` |
| `manual_followup` | `_followup.cfg` | violation: see Findings |

`DetachedVerdictsAgree` is what the comment at `cip30.go:355-357` says of the two
verdicts on a detached payload: `signatureValid` and `VerifyMessage` compute them
apart, and nothing in `Verify` compares them.

Bounds, and why they are enough.

* *Messages.* Two keys, because a signature is either by the key presented or
  not; two encodings of a header that say the same; messages raw, empty and
  all-hex, and their digests, so that a flag flipped either way meets a payload it
  could be mistaken for. Six signing requests, one of them for the empty message
  hashed, and every combination of header, flag, payload, signature and key,
  with six lists of options (one repeats `WithMessage`, one passes nil, one the
  empty message).
* *Addresses.* Every type the code treats differently, and unassigned ones; both
  networks and a reserved tag; lengths one below, at and one above the canonical
  ones; the two hash windows holding the signer's hash or another's; every known
  prefix and an unknown one; a string that both decoders accept. The mangled base
  address is embedded in a signed header as well.
* *Decoding.* One value for every way an item can be refused, all combinations of
  them, with `MaxInt64 = 127`, so that `248` is the unsigned number that would
  wrap to `-8`. The code compares with one constant; the size of the range plays
  no other part.
* *Sessions.* Seven lists of options for `MatchesAddress`: none, `StrictAddress` alone
  and after an option that means nothing there, and the two that exclude each other,
  in both orders; with base, reward and enterprise addresses of the signer's key,
  another's and a script, and one that does not decode.
* *Concurrency.* One call at a time: calls share nothing. `signed` grows at any
  point of a call, up to all the requests.
* *Configurator: manifests and repositories* (`Worlds`). A manifest that uses every
  table and every kind of rule with parameters, one that leaves tables out and
  the status checks to the operator, and eleven that cannot be applied, each for
  a reason of its own; a new repository, and one in an organisation with a
  ruleset of the same name, changed by hand. Where two runs interleave, a
  manifest with a Pages site and the two rulesets: the parts whose requests are
  more than one or can be refused. Settings and toggles are single idempotent
  requests, and `configurator_alone` has them all.
* *Configurator: what goes wrong.* `MaxFailures` bounds failed requests and lost
  answers over the whole behaviour: two, so that a repair can fail as well; four in
  `configurator_retry`, so that each of the creations is lost and the runs after
  it fail too. `MaxEdits` is one change by a person, at any point of a run. `Runs`
  is two where they race: a third adds no pair that two do not have.
* *Configurator: pages.* `PageSize` is 2 with three rulesets there already, in place
  of the 100 of the code, so that any of them may be off the page.

All runs check for deadlock; a configurator can always be started again. Hashing is injective in the runs (a tuple with a tag
in front); the theorems need no such assumption.

No liveness is claimed for the library: it is sequential, has no loop but the one
over the options, and its progress would be that of the caller.

For the configurator `Fairness` assumes that a process that was started goes on
(`WF` of its steps: a sequential program whose requests are answered or fail; the
script sets no timeout, so a run whose request hangs for good has to be killed, and is
then one of the failures), and that somebody starts an apply from time to
time. The script never tries again by itself, so the second is an assumption
about its users, stated as `SF` of `Start(r, "apply")` because dry runs of the
same name may come in between. Failures and edits are bounded: convergence is
claimed for when both have stopped. Spec without fairness is used for all safety
properties.

Every property has a mutant in `PROJECT.json`: an operator beside the definition
it changes, commented `Mutant:`, with a plausible fault (a dropped comparison, a
conversion that wraps, a header encoded again), under which TLC finds the
property violated.

### Findings

`odd_hex`: the comment on `decodeHexDigest` (`message.go:34-40`) says that for an
odd-length all-hex message the departure from the reference verifier leaves "the
final verdict unchanged", the only effect being "which mismatch path" is taken.
The code hashes such a message, and a wallet that signs the digest of `12345`
gets a match (`message_test.go:45-46` tests the hashing). The reference as the
comment describes it compares text and has no match. The code's behaviour is the
useful one; the comment misdescribes it.

`manual_followup`: for status checks that are enabled without contexts the script
says that "the rule cannot be applied safely" (`configure_github_repo.py:842`),
lists it under "Unsupported or manual follow-ups:" (1129) and takes the rule type
out of those under management (845), so that a rule the operator adds is not
reported as a difference. But the payload has no such rule either, and an update
sends the whole list of rules (854, 1000-1004). When anything else of that
ruleset differs, the operator's rule is removed in silence; since the comparison
leaves it out, the next plan does not show the loss.

## 4. Proofs

Fifteen theorems, for every value of the constants that meets the assumptions:
any sets of calls, requests, keys, messages, manifests and repositories, any
number of runs, failures and edits, and whatever the hash and hex operators are.

| module | theorem | statement |
|---|---|---|
| `VerifierProofs` | `TypeCorrect` | `Spec => []TypeOK` |
| | `AcceptedMessageWasSigned` | `Spec => []MessageWasSigned` |
| | `DetachedVerdictsAlwaysAgree` | `Spec => []DetachedVerdictsAgree` |
| | `MatchedViaIsAlwaysHeld` | `Spec => []MatchedViaIsHeld` |
| | `Bech32NetworkIsAlwaysShown` | `Spec => []Bech32NetworkIsShown` |
| | `VerifyImplementsContract` | `Spec => ImplementsContract` |
| | `StrictAlwaysMeansPaymentKey` | `Spec => []StrictMeansPaymentKey` |
| | `WalletResponseAlwaysAccepted` | `Spec => []WalletResponseAccepted` |
| `SessionProofs` | `StepwiseAlwaysAgrees` | `Spec => []StepwiseAgrees` |
| `RepoConfiguratorProofs` | `ConfiguratorTypes` | `Spec => []TypeOK` |
| | `UnmanagedStaysUntouched` | `Spec => UnmanagedUntouched` |
| `DuplicateProofs` | `DuplicatesStayBounded` | `Spec /\ DuplicatesBounded /\ []OnePage => []DuplicatesBounded` |
| `ReconcilerProofs` | `RequestsPutRight` | `ASSUME DuplicateNames = FALSE PROVE Spec => PutsRight` |
| `ConvergenceProofs` | `ExitZeroConverges` | `Spec /\ (NamesUnique \/ []OnePage) => []ExitZeroMeansConverged` |
| | `PlanIsAlwaysDrift` | `Spec /\ NothingRepeated /\ []OnePage => []PlanIsDrift` |

Every invariant and action property that a passing run checks has a theorem; the
conditions beside `Spec` are explained with the proofs below.

### Assumptions

All are named, stated in the module that declares the constants, and evaluated
by TLC on the instances.

* `ValuesAssumption`, `NilAssumption`: the values that stand for an absent entry,
  for nil and for nothing are no others. `MaxInt64Assumption`: the integers
  of a header include -8.
* `CallsAssumption`, `ArgumentsAssumption`: calls give the options the package has
  and inputs that have the shapes of `Inputs`. These are properties of the
  decoders' Go types, not of the input: everything a decoder can refuse is still
  `Undecodable`, and no two byte strings are assumed to differ. They do not say that a
  digest is injective.
* `RequestsAssumption`: wallets sign with a key, under a header that decodes and
  says EdDSA. A wallet that does otherwise gets an error from the library, and
  no promise is made to it.
* `BoundsAssumption`, `GitHubAssumption`: `Runs` is finite, the bounds are numbers,
  a page holds something. `NoneAssumption`: `Nil` and `Misfit` are none of the
  strings, tables and runs they are compared with.
* `WorldsAssumption`: the manifest is TOML (no null in a table, its arrays are
  sequences) and the repository is what GitHub shows (each ruleset has a name, a
  target, rules and a source; a Pages site has every setting a manifest may name).
  `load_manifest` may still refuse the manifest. The payload built for a manifest
  is a table, never the value that stands for no ruleset.
* `TypesAssumption`: the values have the types Python would read them with. The flags
  of a manifest are booleans, its merge methods an array; a Pages site is one
  GitHub shows; the lists of a ruleset are lists and its rules' parameters lists, flags
  or a number of reviews. Only the theorems of `ConvergenceProofs` use it: they
  turn on when two values are equal, and for a flag given as `1` that is Python's
  business.

### Verify and the methods of Signature

None of the properties is inductive: `result` alone does not say what it was
computed from. `IInv` (`VerifierProofs`) adds that the configuration is a
complete record (`ConfigShape`), that the input of the call could arrive and still
can (`CallArrived`, kept because `signed` only grows), that past parsing `sig` is
what `Parse` gives for the call's input (`SigIsParsed`), and that `result` is what
the functions give for `sig` and `cfg` at each stage (`ResultIsComputed`). One
lemma per action shows that it is preserved. The five properties follow from what
the functions return: an accepted verdict is a `verifyPayload` of the digest of
the message, whether the payload was detached or compared; `ParsedAddress` says
which window of the raw bytes holds which credential, `HeldCredential` which of
them can match, `ShownNetwork` what a prefix that passes `checkHRP` implies.

The refinement needs more: that `cfg` is what the options taken so far say
(`OptionsApplied`: for each kind of option its last occurrence among the first
`n`), that nothing is looked at while they conflict (`ConflictIsFirst`), that an
error has a reason in the call (`ErrorHasReason`), and that all signatures are
wallets' (`SignedByWallets`); together `RInv`. `Cip30Proofs` shows, apart from any
state machine, that the functions of `Cip30` on a call's input and configuration
compute `promise!Outcome` of the call. So at `done` the outcome is the promised
one (`OutcomeIsPromised`), later signatures do not change it (a signature the
call holds either was made when it arrived or never counts), and each step
of `Verifier` is `Request`, `Respond`, `Forget`, `Sign` or a stutter of
`VerifyContract`. `WalletResponseAccepted` is then a fact about the contract alone;
`StrictMeansPaymentKey` adds that a key whose response was accepted is the key
of some `s \in signed`.

`SessionProofs` uses the same lemmas: `SInv` says that what each method last
returned is what it would return now, for a signature that is still the one
parsed; the results together are then the outcome for the configuration asked
so far. The question is built from `zeroConfig` one option at a time, where there is
reason for it (`OptionalApplied`). What `applyOptions` makes of the options of
`MatchesAddress` is a recursive function; `OptionsCounted` (`Cip30Proofs`) shows that
it has one value for each place of the list, and `OptionsApply`, counting up with
the library's theorem on well-founded relations, that the last is what all the options
say, or that two of them conflict.

### Repository configurator

`CInv` (`RepoConfiguratorProofs`) says of every run what it has passed of the
checks that refuse a manifest (`ChecksPassed`), and that all it has read and
planned fits the repository as it is now (`RulesetsFit`, `ChangesFit`). The heart of
it is `Manageable`: an id that was a managed ruleset when it was listed is
one still, or it is gone. Requests were planned on old reads, so nothing stronger is
true; that it stays true whatever another run or a person does (`Keeps`) is shown for
every kind of request (`RequestKeeps`) and of edit (`EditKeeps`). With it a request
speaks only of what the manifest names, and `RequestSpares` gives
`UnmanagedUntouched`. For manifests that cannot be applied nothing is sent:
`AcceptedIsApplicable` shows that the refusals spread over `load_manifest`,
`coerce_dependency_graph_setting` and `build_ruleset_payload` leave only manifests that
are `Applicable` as `SettingsContract` states it apart.

`DuplicatesBounded` is proved by counting. `DInv` says that the managed rulesets
of a target *and the runs that may still create one* are together no more
than the runs and the edits. A run may create one (`MayCreate`) when it has found
none and none is left among those it has to fetch, or when it has such a request to
send; it comes to be among them only while listing, and only if the page it got held no
managed ruleset. By `OnePage` the page holds all of them, so there were none, and
the number of runs bounds the sum. Creating one, with or without its
answer, takes the run out of the count (`CreatesOnce`: one request, the
last of its change). The two hypotheses are what the code needs:

* `DuplicatesBounded` as a hypothesis speaks of the first state only: a
  repository may have had any number of rulesets of one name before the
  first run.
* `[]OnePage`: there are never more rulesets than `list_rulesets` can get in its one
  request. Without it the statement is false: with a page of one and a GitHub that
  accepts names twice, TLC finds runs that make one ruleset after another
  (hazard `resource_bound` in `PROJECT.json`).

`PutsRight` is the safety half of the refinement of `Reconciler`. Its invariant
`MInv` adds to `CInv` that every planned value is the manifest's (`Meant`), and that a
Pages site keeps the settings it has. Then a request needs nothing of the reads it
was planned on:

* What is sent for a ruleset is in force for the manifest it was built from
  (`PayloadInForce`), whatever ruleset it replaces: flag by flag and list by list, the
  payload of `build_ruleset_payload` meets what `SettingsContract` asks for, and
  `sorted` keeps the set of its elements (`SortedElements`).
* One lemma for each kind of request (`SettingsRequestPutsRight`, ...,
  `UpdatePutsRight`) shows that `Differs` of its key may go from true to false and that of every
  other key does not change, because parts do not overlap: an id belongs to one target
  (`OneTargetPutRight`), `immutable_releases` is no setting. The first of the two
  requests for a Pages site may leave the part wrong; it makes nothing wrong.
* `Blocked` does not change: no request makes a second ruleset of one name.

The last needs `DuplicateNames = FALSE`, that GitHub refuses a second ruleset with the
name and target of another. Without it the statement is false: a creation planned
before another run made the ruleset puts a part wrong that was right. What holds
then is `DuplicatesStayBounded`.

`ExitZeroMeansConverged` is about a run as a whole: it is true at exit 0 because of
what the run knew at every step before. `VInv` adds to `MInv` the types above and, for
a run that nobody disturbed, `Converges`: wherever it is, every part that differs from
the manifest is one it has planned (`Planned`), or one whose planner it has not come to
yet. Reading keeps it, one lemma for each planner: a planner that plans nothing
has found nothing that differs. Applying keeps it the other way round: a request
takes a change off the list only when it put the part right (`PutsRight`'s lemmas), and
puts no other wrong, so that with nothing left to send nothing differs. An edit,
or a request of another run that took effect, sets `disturbed`, and only then.

* The planner of rulesets is the hard one. It compares normal forms of
  something GitHub shows with one of several forms (`Shown`: lists in another order,
  defaults left out) with one of what it would send, and skips the update when they are
  equal. `ComparisonProofs` shows that equal normal forms mean the same rules in
  force: `sorted` loses nothing but the order, `KeptRules` (an induction over the list
  of rules, by well-founded recursion) holds for each type exactly the rules of that
  type, and parameters GitHub leaves out are those with their default. Since the
  payload is in force for its manifest (`PayloadInForce`), so is the ruleset shown.
* The planner creates a ruleset when it finds none. For that the list must tell of
  every ruleset that counts, which is the hypothesis: `[]OnePage`, or
  `NamesUnique` (GitHub refuses a second ruleset of a name, and at first there is
  none). In the second case a page may well miss the one there is: then the request
  is refused, the run ends with exit code 2, and nothing is claimed. `UniqueInductive`
  shows that names stay unique, so this hypothesis is on the first state only. Without
  either, a run that finds one of two rulesets of a name puts that one right and
  returns 0 while the other still has to be settled by a person.

`PlanIsDrift` says two things of a dry run: that it reports every part that differs,
which `VInv` gives, and that it reports no other. For the second, `NInv` adds that each
change planned so far is of a part that differs (`Needed`) and that the rulesets found,
or still to be fetched, are all that count (`AllListed`).

* That nothing is planned in vain is easy for settings, toggles and Pages, which are
  compared as they are. For a ruleset it is the converse of the above: one that is in
  force has the normal form of the payload, whatever form GitHub shows it in
  (`InForceMeansNormal`). Two lists with the same elements, none of them twice, are
  sorted the same way (`sorted` chooses a list by how often each value is in it),
  parameters GitHub leaves out are given their default, and the rules kept of a type
  are one or none on both sides.
* `NothingRepeated` is the hypothesis this needs, on the first state only: the payload of
  the manifest and the rulesets there are list nothing twice, a ruleset has
  one rule of a type, and its actors and checks have the fields the code knows and no
  other. Without it the statement is false: `normalize_ruleset_payload` sorts lists but
  keeps what they repeat, so that `allowed_merge_methods = ["squash", "squash"]` differs
  from `["squash"]` though it allows the same, and a dry run reports it. That it stays
  true is part of `NInv` (`RequestKeepsTidy`, `EditKeepsTidy`): what a run sends is the
  payload, and an edit of the model repeats nothing.
* `[]OnePage` cannot be replaced by `NamesUnique` here: a run that misses a ruleset on
  another page plans to create one that is there, and reports drift where
  there is none. `configurator_page`, whose page does not hold all rulesets, therefore
  does not check `PlanIsDrift`.

### Only model-checked

* The liveness part of `ImplementsReconciler`: fairness and ENABLED are out
  of these provers' reach, here and later.
* `OddHexVerdictUnchanged` and `ManualFollowUpKept` are violated: see Findings.

## 5. Plan

Done: the library (`Verifier`, `VerifyContract`, `Session`) and the configurator
(`RepoConfigurator`, `SettingsContract`, `Reconciler`) with their runs, and a theorem for
every safety property the passing runs check. What is left is out of the provers' reach
(liveness), or in the next section.

## 6. Not modelled

* CBOR, bech32 and hexadecimal text, hashing and curve arithmetic: the code calls
  libraries for them, and the properties need only what they return.
* Error texts, the wrapped causes below the errors of `errors.go`, and the
  `String` methods.
* Reuse of the caller's slice given to `WithMessage` before `Verify` runs.
* `Result` and `Signature` values changed by the caller after they are returned.
* Of the configurator: the texts of its reports and errors, the JSON report, the
  token and the repository argument, the cache of App ids (ids do not change), a
  manifest that is not TOML, and flags that are not booleans. `_paginate` is never
  called.
* What GitHub does beyond what the script relies on. The model takes it that a
  request as `GitHubApi` sends it is understood; that an update of a ruleset replaces every
  field it sends, and it sends all; that ids are not used again; that 404 is the
  answer only for what is absent; that toggles do not depend on each other; and
  that people do not rename a ruleset or change what makes it the repository's.
* The fixture generator, the workflows and the documentation site.
