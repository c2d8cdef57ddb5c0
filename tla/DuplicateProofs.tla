--------------------------- MODULE DuplicateProofs ---------------------------
(***************************************************************************)
(* How many rulesets of a managed name there can be, for every set of      *)
(* runs: a run creates one only when it found none, and of those that      *)
(* found none each creates one at most, whoever came first.                *)
(***************************************************************************)
EXTENDS RepoConfiguratorProofs

\* list_rulesets asks for one page of a hundred and follows no link to the next.
OnePage == Cardinality(Ids(github.rulesets)) <= PageSize

-----------------------------------------------------------------------------
(* The inductive invariant. *)

Creates(change, t) ==
    \E q \in ToSet(change.requests) : q.kind = "create_ruleset" /\ q.payload.target = t

CreatesNone(changes) ==
    \A change \in ToSet(changes), t \in ToSet(Targets) : ~Creates(change, t)

\* At most one change creates a ruleset of the target, in one request.
CreatesOnce(changes) ==
    \A t \in ToSet(Targets) : \A i \in DOMAIN changes :
        Creates(changes[i], t) =>
            /\ Tail(changes[i].requests) = <<>>
            /\ \A j \in DOMAIN changes : Creates(changes[j], t) => j = i

\* The run has found none and will find none, or is about to create one.
MayCreate(m, t, x, rulesets) ==
    \/ /\ x.pc = "rulesets" /\ t \notin DOMAIN x.found
       /\ \A id \in x.ids : id \in Ids(rulesets) \ ManagedIds(m, rulesets, t)
    \/ /\ x.pc = "apply"
       /\ \E change \in ToSet(x.changes) : Creates(change, t)

Creating(m, t, runs, rulesets) == {r \in Runs : MayCreate(m, t, runs[r], rulesets)}

RunCreates(x) ==
    /\ x.pc \in {"reads", "rulesets"} => CreatesNone(x.changes)
    /\ x.pc = "apply" => CreatesOnce(x.changes)

\* Those that are there and those that may come.
Counted ==
    /\ \A r \in Runs : RunCreates(run[r])
    /\ Applicable(manifest) =>
          \A t \in ToSet(Targets) :
              Cardinality(ManagedIds(manifest, github.rulesets, t))
                + Cardinality(Creating(manifest, t, run, github.rulesets))
              <= Cardinality(Runs) + edits

DInv == CInv /\ Counted

-----------------------------------------------------------------------------
(* What is planned creates none, or one for each target. *)

LEMMA OtherChangesCreateNone ==
    ASSUME NEW key, NEW requests, \A q \in ToSet(requests) : q.kind # "create_ruleset"
    PROVE  CreatesNone(Change(key, requests))
<1> DEFINE change == [key |-> key, requests |-> requests]
<1>1. change.requests = requests /\ Change(key, requests) = <<change>>
    BY DEF Change
<1> HIDE DEF change
<1> QED BY <1>1, OneElement DEF CreatesNone, Creates

LEMMA NoChangesCreateNone == CreatesNone(<<>>)
BY NoElements DEF CreatesNone

LEMMA JoinedCreateNone ==
    ASSUME NEW a, NEW b, IsSeq(a), IsSeq(b), CreatesNone(a), CreatesNone(b)
    PROVE  CreatesNone(a \o b)
BY ElementsJoined DEF CreatesNone

LEMMA OneRequestCreatesNone ==
    ASSUME NEW key, NEW q, q.kind # "create_ruleset"
    PROVE  CreatesNone(Change(key, <<q>>))
BY OneElement, OtherChangesCreateNone

LEMMA SettingsCreateNone == CreatesNone(SettingsChange) /\ CreatesNone(AdvancedSecurityChange)
<1>1. ASSUME NEW payload
      PROVE  [kind |-> "patch_repository", payload |-> payload].kind # "create_ruleset"
    OBVIOUS
<1>2. \A key, payload :
        CreatesNone(Change(key, <<[kind |-> "patch_repository", payload |-> payload]>>))
    BY <1>1, OneRequestCreatesNone
<1>3. CreatesNone(SettingsChange)
    BY <1>2, NoChangesCreateNone DEF SettingsChange
<1>4. CreatesNone(AdvancedSecurityChange)
    BY <1>2, NoChangesCreateNone DEF AdvancedSecurityChange
<1> QED BY <1>3, <1>4

LEMMA ToggleCreatesNone ==
    ASSUME NEW t
    PROVE  CreatesNone(ToggleChange(t))
<1> DEFINE q == [kind |-> "toggle", toggle |-> t, enabled |-> toggle_desired(manifest)[t]]
<1>1. q.kind # "create_ruleset"
    OBVIOUS
<1>2. ToggleChange(t) = <<>> \/ ToggleChange(t) = Change(t, <<q>>)
    BY DEF ToggleChange
<1> HIDE DEF q
<1> QED BY <1>1, <1>2, OneRequestCreatesNone, NoChangesCreateNone

LEMMA PagesCreateNone == CreatesNone(PagesChange)
<1> DEFINE desired == build_pages_state(manifest)
           rest == [k \in DOMAIN desired \ {"build_type"} |-> desired[k]]
           create == [kind |-> "create_pages",
                      payload |-> [build_type |-> desired["build_type"]]]
           Put(payload) == [kind |-> "update_pages", payload |-> payload]
<1>1. \/ PagesChange = <<>>
      \/ PagesChange = Change("pages.site", <<create>> \o <<>>)
      \/ PagesChange = Change("pages.site", <<create>> \o <<Put(rest)>>)
      \/ PagesChange = Change("pages.site", <<Put(desired)>>)
    BY DEF PagesChange
<1>2. create.kind # "create_ruleset"
    OBVIOUS
<1>3. \A payload : Put(payload).kind # "create_ruleset"
    OBVIOUS
<1> HIDE DEF create, Put, desired, rest
<1>4. \A q \in ToSet(<<create>> \o <<>>) : q.kind # "create_ruleset"
    BY <1>2, ElementsJoined, OneElement, NoElements
<1>5. \A q \in ToSet(<<create>> \o <<Put(rest)>>) : q.kind # "create_ruleset"
    BY <1>2, <1>3, ElementsJoined, OneElement
<1> QED BY <1>1, <1>3, <1>4, <1>5, OtherChangesCreateNone, OneRequestCreatesNone,
           NoChangesCreateNone

LEMMA RulesetChangeCreates ==
    ASSUME NEW found, NEW t \in ToSet(Targets)
    PROVE  \/ RulesetChange(found, t) = <<>>
           \/ \E change : /\ RulesetChange(found, t) = <<change>>
                          /\ Tail(change.requests) = <<>>
                          /\ \A u : Creates(change, u) => u = t /\ t \notin DOMAIN found
<1> DEFINE create == [kind |-> "create_ruleset", payload |-> Payload(t)]
           update == [kind |-> "update_ruleset", ruleset_id |-> found[t].id,
                      payload |-> Payload(t)]
           Changed(q) == [key |-> RulesetKey(t), requests |-> <<q>>]
<1>1. \/ RulesetChange(found, t) = <<>>
      \/ t \notin DOMAIN found /\ RulesetChange(found, t) = <<Changed(create)>>
      \/ RulesetChange(found, t) = <<Changed(update)>>
    BY DEF RulesetChange, Change
<1>2. create.kind = "create_ruleset" /\ create.payload.target = t
    BY DEF Payload, build_ruleset_payload
<1>3. update.kind # "create_ruleset"
    OBVIOUS
<1>4. \A q : Changed(q).requests = <<q>> /\ Tail(<<q>>) = <<>>
    OBVIOUS
<1> HIDE DEF create, update, Changed
<1>5. \A q, u : Creates(Changed(q), u) => q.kind = "create_ruleset" /\ q.payload.target = u
    BY <1>4, OneElement DEF Creates
<1> QED BY <1>1, <1>2, <1>3, <1>4, <1>5

LEMMA ElementsJoinedAt ==
    ASSUME NEW a, NEW b, IsSeq(a), IsSeq(b)
    PROVE  /\ Len(a) \in Nat /\ Len(b) \in Nat
           /\ DOMAIN a = 1..Len(a) /\ DOMAIN b = 1..Len(b)
           /\ DOMAIN (a \o b) = 1..(Len(a) + Len(b)) /\ Len(a \o b) = Len(a) + Len(b)
           /\ \A i \in DOMAIN (a \o b) :
                 \/ i \in DOMAIN a /\ (a \o b)[i] = a[i]
                 \/ i > Len(a) /\ i - Len(a) \in DOMAIN b /\ (a \o b)[i] = b[i - Len(a)]
<1> DEFINE S == ToSet(a) \cup ToSet(b)
<1>1. a \in Seq(S) /\ b \in Seq(S)
    BY DEF IsSeq
<1> HIDE DEF S
<1> QED BY <1>1

\* A plan creates one ruleset at most for each target, and none for a target
\* that was found.
LEMMA PlannedCreateOnce ==
    ASSUME NEW c, NEW found, IsSeq(c), CreatesNone(c),
           NEW b, NEW g, b = RulesetChange(found, "branch"), g = RulesetChange(found, "tag")
    PROVE  /\ CreatesOnce(c \o b \o g)
           /\ \A t \in ToSet(Targets), change \in ToSet(c \o b \o g) :
                 Creates(change, t) => t \notin DOMAIN found
<1> DEFINE cb == c \o b
           s == cb \o g
           Place(t) == IF t = "branch" THEN Len(c) + 1 ELSE Len(cb) + 1
<1>1. /\ \/ b = <<>>
         \/ \E change : /\ b = <<change>> /\ Tail(change.requests) = <<>>
                        /\ \A u : Creates(change, u) => u = "branch" /\ u \notin DOMAIN found
      /\ \/ g = <<>>
         \/ \E change : /\ g = <<change>> /\ Tail(change.requests) = <<>>
                        /\ \A u : Creates(change, u) => u = "tag" /\ u \notin DOMAIN found
    BY RulesetChangeCreates, TargetNames
<1>2. /\ \A i \in DOMAIN b : /\ i = 1 /\ Tail(b[i].requests) = <<>>
                             /\ \A u : Creates(b[i], u) => u = "branch" /\ u \notin DOMAIN found
      /\ \A i \in DOMAIN g : /\ i = 1 /\ Tail(g[i].requests) = <<>>
                             /\ \A u : Creates(g[i], u) => u = "tag" /\ u \notin DOMAIN found
    BY <1>1
<1>3. IsSeq(b) /\ IsSeq(g)
    BY <1>1, NoElements, OneElement
<1>4. IsSeq(cb)
    BY <1>3, ElementsJoined
<1>5. \A i \in DOMAIN c, t \in ToSet(Targets) : ~Creates(c[i], t)
    BY DEF CreatesNone, ToSet
<1>6. \A i \in DOMAIN cb, t \in ToSet(Targets) :
         Creates(cb[i], t) => /\ i = Len(c) + 1 /\ t = "branch" /\ t \notin DOMAIN found
                              /\ Tail(cb[i].requests) = <<>>
    <2> TAKE i \in DOMAIN cb, t \in ToSet(Targets)
    <2>1. CASE i \in DOMAIN c /\ cb[i] = c[i]
        BY <1>5, <2>1
    <2>2. CASE i > Len(c) /\ i - Len(c) \in DOMAIN b /\ cb[i] = b[i - Len(c)]
        <3>1. i - Len(c) = 1 /\ i \in 1..(Len(c) + Len(b)) /\ Len(c) \in Nat
            BY <1>2, <1>3, <2>2, ElementsJoinedAt
        <3> QED BY <1>2, <2>2, <3>1
    <2> HIDE DEF cb
    <2> QED BY <1>3, <2>1, <2>2, ElementsJoinedAt DEF cb
<1>7. \A i \in DOMAIN s, t \in ToSet(Targets) :
         Creates(s[i], t) => /\ i = Place(t) /\ t \notin DOMAIN found
                             /\ Tail(s[i].requests) = <<>>
    <2> HIDE DEF cb
    <2> TAKE i \in DOMAIN s, t \in ToSet(Targets)
    <2>1. CASE i \in DOMAIN cb /\ s[i] = cb[i]
        BY <1>6, <2>1
    <2>2. CASE i > Len(cb) /\ i - Len(cb) \in DOMAIN g /\ s[i] = g[i - Len(cb)]
        <3>1. i - Len(cb) = 1 /\ i \in 1..(Len(cb) + Len(g)) /\ Len(cb) \in Nat
            BY <1>2, <1>3, <1>4, <2>2, ElementsJoinedAt
        <3> QED BY <1>2, <2>2, <3>1
    <2> QED BY <1>3, <1>4, <2>1, <2>2, ElementsJoinedAt
<1>8. CreatesOnce(s)
    <2> HIDE DEF s, Place
    <2> QED BY <1>7 DEF CreatesOnce
<1>9. \A t \in ToSet(Targets), change \in ToSet(s) : Creates(change, t) => t \notin DOMAIN found
    <2> HIDE DEF s, Place
    <2> QED BY <1>7 DEF ToSet
<1> QED BY <1>8, <1>9

\* After a request was sent, what it created is not created again.
LEMMA SentCreateOnce ==
    ASSUME NEW m, NEW rulesets, NEW changes, ChangesFit(m, changes, rulesets), changes # <<>>,
           CreatesOnce(changes), NEW q, q = Head(Head(changes).requests)
    PROVE  /\ CreatesOnce(Sent(changes))
           /\ \A t \in ToSet(Targets), change \in ToSet(Sent(changes)) :
                 Creates(change, t) =>
                    /\ \E other \in ToSet(changes) : Creates(other, t)
                    /\ ~(q.kind = "create_ruleset" /\ q.payload.target = t)
<1> DEFINE first == Head(changes)
           requests == Tail(first.requests)
           rest == Tail(changes)
<1>1. /\ IsSeq(changes) /\ first \in ToSet(changes) /\ first = changes[1]
      /\ IsSeq(rest) /\ Len(rest) = Len(changes) - 1
      /\ \A i \in 1..Len(rest) : rest[i] = changes[i + 1]
    BY ElementsLeft DEF ChangesFit
<1>2. /\ Len(changes) \in Nat /\ DOMAIN changes = 1..Len(changes)
      /\ Len(rest) \in Nat /\ DOMAIN rest = 1..Len(rest) /\ 1 \in DOMAIN changes
    <2>1. /\ Len(changes) \in Nat /\ DOMAIN changes = 1..Len(changes)
          /\ Len(rest) \in Nat /\ DOMAIN rest = 1..Len(rest)
        BY <1>1, ElementsJoinedAt
    <2>2. \E i \in DOMAIN changes : TRUE
        BY <1>1 DEF ToSet
    <2> QED BY <2>1, <2>2
<1>3. /\ DOMAIN first = {"key", "requests"}
      /\ q \in ToSet(first.requests) /\ ToSet(requests) \subseteq ToSet(first.requests)
    BY <1>1, ElementsLeft DEF ChangesFit, ChangeFits
<1>4. ASSUME NEW t \in ToSet(Targets), q.kind = "create_ruleset", q.payload.target = t
      PROVE  Creates(changes[1], t)
    BY <1>1, <1>3, <1>4 DEF Creates
<1> HIDE DEF first, rest, requests
<1>5. CASE requests = <<>>
    <2>1. Sent(changes) = rest
        BY <1>5 DEF Sent, first, rest, requests
    <2>2. \A i \in DOMAIN rest : rest[i] = changes[i + 1] /\ i + 1 \in DOMAIN changes /\ i + 1 # 1
        BY <1>1, <1>2
    <2>3. CreatesOnce(rest)
        <3> SUFFICES ASSUME NEW t \in ToSet(Targets), NEW i \in DOMAIN rest, Creates(rest[i], t)
                     PROVE  /\ Tail(rest[i].requests) = <<>>
                            /\ \A j \in DOMAIN rest : Creates(rest[j], t) => j = i
            BY DEF CreatesOnce
        <3>1. Tail(rest[i].requests) = <<>>
            BY <2>2 DEF CreatesOnce
        <3>2. ASSUME NEW j \in DOMAIN rest, Creates(rest[j], t)
              PROVE  j = i
            <4>1. i + 1 = j + 1
                BY <2>2, <3>2 DEF CreatesOnce
            <4> QED BY <1>2, <4>1
        <3> QED BY <3>1, <3>2
    <2>4. \A t \in ToSet(Targets), change \in ToSet(rest) :
             Creates(change, t) => /\ \E other \in ToSet(changes) : Creates(other, t)
                                   /\ ~Creates(changes[1], t)
        <3> TAKE t \in ToSet(Targets), change \in ToSet(rest)
        <3>1. PICK i \in DOMAIN rest : change = rest[i]
            BY DEF ToSet
        <3>2. /\ i + 1 \in DOMAIN changes /\ 1 \in DOMAIN changes
              /\ change = changes[i + 1] /\ i + 1 # 1
            BY <1>2, <2>2, <3>1
        <3>3. changes[i + 1] \in ToSet(changes)
            BY <3>2 DEF ToSet
        <3> QED BY <3>2, <3>3 DEF CreatesOnce
    <2> QED BY <1>4, <2>1, <2>3, <2>4
<1>6. CASE requests # <<>>
    <2> DEFINE left == [first EXCEPT !.requests = requests]
               s == <<left>> \o rest
    <2>1. Sent(changes) = s
        BY <1>6 DEF Sent, first, rest, requests
    <2>2. \A t \in ToSet(Targets) : ~Creates(changes[1], t)
        BY <1>1, <1>2, <1>6 DEF CreatesOnce, requests
    <2>3. \A t \in ToSet(Targets) : ~Creates(left, t)
        <3>1. left.requests = requests
            BY <1>3
        <3> HIDE DEF left
        <3> QED BY <1>1, <1>3, <2>2, <3>1 DEF Creates
    <2> HIDE DEF left
    <2>4. /\ DOMAIN s = 1..(1 + Len(rest)) /\ s[1] = left
          /\ \A i \in DOMAIN s : i # 1 => i \in DOMAIN changes /\ s[i] = changes[i]
        <3>1. IsSeq(<<left>>) /\ Len(<<left>>) = 1 /\ <<left>>[1] = left
            BY OneElement
        <3>2. /\ DOMAIN s = 1..(1 + Len(rest))
              /\ \A i \in DOMAIN s :
                    \/ i \in DOMAIN <<left>> /\ s[i] = <<left>>[i]
                    \/ i > 1 /\ i - 1 \in DOMAIN rest /\ s[i] = rest[i - 1]
            BY <1>1, <3>1, ElementsJoinedAt
        <3>3. DOMAIN <<left>> = {1}
            OBVIOUS
        <3> HIDE DEF s
        <3>4. s[1] = left
            BY <1>2, <3>1, <3>2, <3>3
        <3>5. ASSUME NEW i \in DOMAIN s, i # 1
              PROVE  i \in DOMAIN changes /\ s[i] = changes[i]
            <4>1. i - 1 \in 1..Len(rest) /\ s[i] = rest[i - 1] /\ i \in Int
                BY <1>2, <3>2, <3>3, <3>5
            <4>2. rest[i - 1] = changes[(i - 1) + 1] /\ (i - 1) + 1 = i
                BY <1>1, <4>1
            <4> QED BY <1>1, <1>2, <4>1, <4>2
        <3> QED BY <3>2, <3>4, <3>5
    <2> HIDE DEF s
    <2>5. CreatesOnce(s)
        BY <2>3, <2>4 DEF CreatesOnce
    <2>6. \A t \in ToSet(Targets), change \in ToSet(s) :
             Creates(change, t) => \E other \in ToSet(changes) : Creates(other, t)
        BY <2>3, <2>4 DEF ToSet
    <2> QED BY <1>4, <2>1, <2>2, <2>5, <2>6
<1> QED BY <1>5, <1>6

-----------------------------------------------------------------------------
(* What becomes of the rulesets of a managed name. *)

\* None of them that was not one before, but new ones perhaps.
Follows(m, g, h) ==
    \A t \in ToSet(Targets), id \in DOMAIN g.rulesets :
        id \in ManagedIds(m, h.rulesets, t) => id \in ManagedIds(m, g.rulesets, t)

NoMore(m, t, g, h) == ManagedIds(m, h.rulesets, t) \subseteq ManagedIds(m, g.rulesets, t)

OneMore(m, t, g, h) ==
    \E n : ManagedIds(m, h.rulesets, t) \subseteq ManagedIds(m, g.rulesets, t) \cup {n}

LEMMA SameRulesetsCounted ==
    ASSUME NEW m, NEW g, NEW h, h.rulesets = g.rulesets
    PROVE  Follows(m, g, h) /\ \A t : NoMore(m, t, g, h)
BY DEF Follows, NoMore

LEMMA AddedRulesetCounted ==
    ASSUME NEW m, NEW g, NEW h, NEW u, Joined(m, u, g, h)
    PROVE  /\ Follows(m, g, h)
           /\ OneMore(m, u, g, h) /\ \A t : t # u => NoMore(m, t, g, h)
<1> DEFINE n == Len(g.rulesets) + 1
<1>1. /\ \A id \in DOMAIN g.rulesets : h.rulesets[id] = g.rulesets[id]
      /\ DOMAIN h.rulesets = DOMAIN g.rulesets \cup {n} /\ n \notin DOMAIN g.rulesets
      /\ h.rulesets[n] = Nil \/ n \in ManagedIds(m, h.rulesets, u)
    BY DEF Joined, Manageable
<1> HIDE DEF n
<1>2. \A t : \A id \in DOMAIN g.rulesets :
         id \in ManagedIds(m, h.rulesets, t) => id \in ManagedIds(m, g.rulesets, t)
    BY <1>1 DEF ManagedIds, Ids
<1>3. \A t : ManagedIds(m, h.rulesets, t) \subseteq ManagedIds(m, g.rulesets, t) \cup {n}
    BY <1>1, <1>2 DEF ManagedIds, Ids
<1>4. \A t : t # u => n \notin ManagedIds(m, h.rulesets, t)
    BY <1>1 DEF ManagedIds, Ids
<1>5. Follows(m, g, h)
    BY <1>2 DEF Follows
<1>6. OneMore(m, u, g, h)
    BY <1>3 DEF OneMore
<1>7. \A t : t # u => NoMore(m, t, g, h)
    BY <1>3, <1>4 DEF NoMore
<1> QED BY <1>5, <1>6, <1>7

LEMMA ReplacedRulesetCounted ==
    ASSUME NEW m, NEW g, NEW h, NEW id,
           DOMAIN h.rulesets = DOMAIN g.rulesets,
           \A i \in DOMAIN g.rulesets : i # id => h.rulesets[i] = g.rulesets[i],
           \A t : id \in ManagedIds(m, h.rulesets, t) => id \in ManagedIds(m, g.rulesets, t)
    PROVE  Follows(m, g, h) /\ \A t : NoMore(m, t, g, h)
<1>1. \A t, i : i \in ManagedIds(m, h.rulesets, t) => i \in ManagedIds(m, g.rulesets, t)
    BY DEF ManagedIds, Ids
<1> QED BY <1>1 DEF Follows, NoMore

\* A request adds one at most, and only one that creates it.
LEMMA RequestCounted ==
    ASSUME NEW m, NEW g, NEW q, RepositoryShape(g), SpokenOf(m, q, g.rulesets),
           ~Refuses(g, q), NEW h, h = Effect(g, q)
    PROVE  /\ Follows(m, g, h)
           /\ \A t \in ToSet(Targets) :
                 \/ NoMore(m, t, g, h)
                 \/ q.kind = "create_ruleset" /\ q.payload.target = t /\ OneMore(m, t, g, h)
<1> DEFINE stored == Merged(q.payload, [source_type |-> "Repository"])
<1>1. CASE q.kind \in {"patch_repository", "toggle", "create_pages", "update_pages"}
    <2>1. h.rulesets = g.rulesets
        BY <1>1 DEF Effect, RepositoryShape
    <2> QED BY <2>1, SameRulesetsCounted
<1>2. CASE q.kind = "create_ruleset"
    <2>1. h = [g EXCEPT !.rulesets = Append(@, stored)]
        BY <1>2 DEF Effect
    <2>2. PICK u \in ToSet(Targets) : q.payload = PayloadOf(m, u)
        BY <1>2 DEF SpokenOf
    <2>3. /\ DOMAIN h = DOMAIN g /\ h.toggles = g.toggles
          /\ h.rulesets = Append(g.rulesets, stored)
        BY <2>1 DEF RepositoryShape
    <2>4. q.payload.target = u
        BY <2>2 DEF PayloadOf, build_ruleset_payload
    <2> HIDE DEF stored
    <2>5. /\ RulesetShape(stored) /\ stored.source_type # "Organization"
          /\ stored.target = u /\ stored.name = RulesetNameOf(m, u)
        BY <2>2, PayloadIsManaged DEF stored
    <2>6. Joined(m, u, g, h)
        BY <2>3, <2>5, RulesetAdded
    <2> QED BY <1>2, <2>4, <2>6, AddedRulesetCounted
<1>3. CASE q.kind = "update_ruleset"
    <2>1. h = [g EXCEPT !.rulesets = [@ EXCEPT ![q.ruleset_id] = stored]]
        BY <1>3 DEF Effect
    <2>2. PICK u \in ToSet(Targets) :
             q.payload = PayloadOf(m, u) /\ Manageable(m, u, g.rulesets, q.ruleset_id)
        BY <1>3 DEF SpokenOf
    <2>3. q.ruleset_id \in DOMAIN g.rulesets /\ g.rulesets[q.ruleset_id] # Nil
        BY <1>3 DEF Refuses, Ids
    <2>4. h.rulesets = [g.rulesets EXCEPT ![q.ruleset_id] = stored]
        BY <2>1 DEF RepositoryShape
    <2> HIDE DEF stored
    <2>5. /\ DOMAIN h.rulesets = DOMAIN g.rulesets /\ h.rulesets[q.ruleset_id] = stored
          /\ \A i \in DOMAIN g.rulesets : i # q.ruleset_id => h.rulesets[i] = g.rulesets[i]
        BY <2>3, <2>4
    <2>6. stored.target = u
        BY <2>2, PayloadIsManaged DEF stored
    <2>7. \A t : q.ruleset_id \in ManagedIds(m, h.rulesets, t)
                    => q.ruleset_id \in ManagedIds(m, g.rulesets, t)
        BY <2>2, <2>3, <2>5, <2>6 DEF ManagedIds, Manageable
    <2> QED BY <2>5, <2>7, ReplacedRulesetCounted
<1> QED BY <1>1, <1>2, <1>3 DEF SpokenOf

\* There is none of the name of a ruleset that is created, unless GitHub lets
\* two share it.
OnlyNew(m, t, g) == ~DuplicateNames => ManagedIds(m, g.rulesets, t) = {}

LEMMA CreatedIsOnly ==
    ASSUME NEW m, NEW t, NEW g, NEW q, q.kind = "create_ruleset", ~Refuses(g, q),
           q.payload.target = t, q.payload.name = RulesetNameOf(m, t)
    PROVE  OnlyNew(m, t, g)
BY DEF OnlyNew, Refuses, ManagedIds

\* A person adds one at most.
LEMMA EditCounted ==
    ASSUME CInv, NEW kind, NEW h \in EditsOf(kind), kind \in
           {"setting", "toggle", "noSite", "deleteRuleset", "changeRules", "newRuleset"}
    PROVE  /\ Follows(manifest, github, h)
           /\ \A t \in ToSet(Targets) :
                 \/ NoMore(manifest, t, github, h)
                 \/ OneMore(manifest, t, github, h) /\ OnlyNew(manifest, t, github)
<1>1. RepositoryShape(github)
    BY DEF CInv
<1>2. CASE kind \in {"setting", "toggle", "noSite"}
    <2>1. h.rulesets = github.rulesets
        BY <1>1, <1>2 DEF EditsOf, RepositoryShape
    <2> QED BY <2>1, SameRulesetsCounted
<1>3. CASE kind = "deleteRuleset"
    <2>1. PICK id \in Ids(github.rulesets) : h = [github EXCEPT !.rulesets[id] = Nil]
        BY <1>3 DEF EditsOf
    <2>2. /\ DOMAIN h.rulesets = DOMAIN github.rulesets /\ h.rulesets[id] = Nil
          /\ \A i \in DOMAIN github.rulesets : i # id => h.rulesets[i] = github.rulesets[i]
        BY <1>1, <2>1 DEF RepositoryShape, Ids
    <2>3. \A t : id \notin ManagedIds(manifest, h.rulesets, t)
        BY <2>2 DEF ManagedIds, Ids
    <2> QED BY <2>2, <2>3, ReplacedRulesetCounted
<1>4. CASE kind = "changeRules"
    <2>1. PICK id \in Ids(github.rulesets) :
            h = [github EXCEPT !.rulesets[id].rules =
                    IF @ = <<>> THEN <<Deletion>> ELSE Tail(@)]
        BY <1>4 DEF EditsOf
    <2> DEFINE old == github.rulesets[id]
               new == [old EXCEPT !.rules = IF @ = <<>> THEN <<Deletion>> ELSE Tail(@)]
    <2>2. h = [github EXCEPT !.rulesets = [@ EXCEPT ![id] = new]]
        BY <2>1
    <2>3. id \in DOMAIN github.rulesets /\ old # Nil /\ RulesetShape(old)
        BY <1>1 DEF RepositoryShape, Ids
    <2>4. /\ new.source_type = old.source_type
          /\ new.target = old.target /\ new.name = old.name
        BY <2>3 DEF RulesetShape
    <2> HIDE DEF new
    <2>5. /\ DOMAIN h.rulesets = DOMAIN github.rulesets /\ h.rulesets[id] = new
          /\ \A i \in DOMAIN github.rulesets : i # id => h.rulesets[i] = github.rulesets[i]
        BY <1>1, <2>2, <2>3 DEF RepositoryShape
    <2>6. \A t : id \in ManagedIds(manifest, h.rulesets, t)
                    => id \in ManagedIds(manifest, github.rulesets, t)
        BY <2>3, <2>4, <2>5 DEF ManagedIds, Ids
    <2> QED BY <2>5, <2>6, ReplacedRulesetCounted
<1>5. CASE kind = "newRuleset"
    <2>1. PICK u \in ToSet(Targets) :
            /\ h = Effect(github, [kind |-> "create_ruleset", payload |-> Bare(u)])
            /\ ~Refuses(github, [kind |-> "create_ruleset", payload |-> Bare(u)])
        BY <1>5 DEF EditsOf
    <2> DEFINE q == [kind |-> "create_ruleset", payload |-> Bare(u)]
               new == Merged(Bare(u), [source_type |-> "Repository"])
    <2>2. q.kind = "create_ruleset" /\ q.payload = Bare(u)
        OBVIOUS
    <2>3. h = [github EXCEPT !.rulesets = Append(@, new)]
        BY <2>1 DEF Effect
    <2>4. /\ DOMAIN h = DOMAIN github /\ h.toggles = github.toggles
          /\ h.rulesets = Append(github.rulesets, new)
        BY <1>1, <2>3 DEF RepositoryShape
    <2>5. /\ RulesetShape(new) /\ new.source_type # "Organization"
          /\ new.target = u /\ new.name = RulesetNameOf(manifest, u)
        BY DEF Bare, NameOf, Merged, RulesetShape, RulesetNameOf, ruleset_name
    <2> HIDE DEF new
    <2>6. Joined(manifest, u, github, h)
        BY <1>1, <2>4, <2>5, RulesetAdded
    <2>7. Bare(u).target = u /\ Bare(u).name = RulesetNameOf(manifest, u)
        BY DEF Bare, NameOf, RulesetNameOf, ruleset_name
    <2>8. OnlyNew(manifest, u, github)
        BY <2>1, <2>2, <2>7, CreatedIsOnly
    <2> QED BY <2>6, <2>8, AddedRulesetCounted
<1> QED BY <1>2, <1>3, <1>4, <1>5

\* What others do to the repository makes no run create that would not.
LEMMA NoOtherCreates ==
    ASSUME NEW m, NEW g, NEW h, NEW x, NEW y, NEW t \in ToSet(Targets),
           Keeps(m, g, h), Follows(m, g, h), RulesetsFit(m, x, g.rulesets),
           DOMAIN x = RunFields, y = x \/ y = [x EXCEPT !.disturbed = TRUE],
           MayCreate(m, t, y, h.rulesets)
    PROVE  MayCreate(m, t, x, g.rulesets)
<1>1. y.pc = x.pc /\ y.found = x.found /\ y.ids = x.ids /\ y.changes = x.changes
    BY DEF RunFields
<1>2. ASSUME NEW id \in x.ids, id \in Ids(h.rulesets) \ ManagedIds(m, h.rulesets, t)
      PROVE  id \in Ids(g.rulesets) \ ManagedIds(m, g.rulesets, t)
    <2>1. PICK u \in ToSet(Targets) : Manageable(m, u, g.rulesets, id)
        BY DEF RulesetsFit
    <2>2. Manageable(m, u, h.rulesets, id) /\ id \in DOMAIN g.rulesets
        BY <2>1 DEF Keeps, Manageable
    <2>3. id \in ManagedIds(m, h.rulesets, u)
        BY <1>2, <2>2 DEF Manageable, Ids
    <2>4. id \in ManagedIds(m, g.rulesets, u)
        BY <2>2, <2>3 DEF Follows
    <2>5. ~Manageable(m, t, g.rulesets, id)
        BY <1>2, <2>2 DEF Keeps, Manageable, Ids
    <2> QED BY <2>4, <2>5 DEF ManagedIds, Manageable, Ids
<1> QED BY <1>1, <1>2 DEF MayCreate

-----------------------------------------------------------------------------
(* Counting. *)

LEMMA ManagedFinite ==
    ASSUME NEW m, NEW g, NEW t, RepositoryShape(g)
    PROVE  IsFiniteSet(ManagedIds(m, g.rulesets, t))
<1>1. DOMAIN g.rulesets = 1..Len(g.rulesets) /\ Len(g.rulesets) \in Nat
    BY ElementsJoinedAt DEF RepositoryShape, IsSeq
<1>2. IsFiniteSet(DOMAIN g.rulesets)
    BY <1>1, FS_Interval
<1> QED BY <1>2, FS_Subset DEF ManagedIds, Ids

LEMMA CreatingFinite ==
    ASSUME NEW m, NEW t, NEW runs, NEW rulesets
    PROVE  /\ Creating(m, t, runs, rulesets) \subseteq Runs
           /\ IsFiniteSet(Creating(m, t, runs, rulesets))
BY FS_Subset, BoundsAssumption DEF Creating

LEMMA Fewer ==
    ASSUME NEW S, NEW T, IsFiniteSet(S), T \subseteq S
    PROVE  /\ IsFiniteSet(T) /\ Cardinality(T) <= Cardinality(S)
           /\ Cardinality(T) \in Nat /\ Cardinality(S) \in Nat
BY FS_Subset, FS_CardinalityType

LEMMA OneElementMore ==
    ASSUME NEW S, NEW n, NEW T, IsFiniteSet(S), T \subseteq S \cup {n}
    PROVE  /\ IsFiniteSet(T) /\ Cardinality(T) <= Cardinality(S) + 1
           /\ Cardinality(T) \in Nat /\ Cardinality(S) \in Nat
<1> DEFINE U == S \cup {n}
<1>1. /\ IsFiniteSet(U)
      /\ Cardinality(U) = IF n \in S THEN Cardinality(S) ELSE Cardinality(S) + 1
    BY FS_AddElement
<1> HIDE DEF U
<1>2. /\ IsFiniteSet(T) /\ Cardinality(T) <= Cardinality(U)
      /\ Cardinality(T) \in Nat /\ Cardinality(U) \in Nat
    BY <1>1, Fewer DEF U
<1>3. Cardinality(S) \in Nat
    BY FS_CardinalityType
<1> QED BY <1>1, <1>2, <1>3

LEMMA Bound ==
    ASSUME NEW M, NEW N, NEW P, NEW Q, IsFiniteSet(M), IsFiniteSet(P), NEW b \in Int,
           Cardinality(M) + Cardinality(P) <= b,
           NEW c \in Int, c >= b,
           \/ N \subseteq M /\ Q \subseteq P
           \/ \E n : N \subseteq M \cup {n} /\ \E r \in P : Q \subseteq P \ {r}
           \/ \E n : N \subseteq M \cup {n} /\ Q \subseteq P /\ c > b
    PROVE  Cardinality(N) + Cardinality(Q) <= c
<1>1. Cardinality(M) \in Nat /\ Cardinality(P) \in Nat
    BY FS_CardinalityType
<1>2. \A r \in P : IsFiniteSet(P \ {r}) /\ Cardinality(P \ {r}) = Cardinality(P) - 1
    BY FS_RemoveElement
<1>3. CASE N \subseteq M /\ Q \subseteq P
    BY <1>1, <1>3, Fewer
<1>4. ASSUME NEW n, N \subseteq M \cup {n}, NEW r \in P, Q \subseteq P \ {r}
      PROVE  Cardinality(N) + Cardinality(Q) <= c
    <2>1. Cardinality(N) <= Cardinality(M) + 1 /\ Cardinality(N) \in Nat
        BY <1>4, OneElementMore
    <2>2. Cardinality(Q) <= Cardinality(P) - 1 /\ Cardinality(Q) \in Nat
        BY <1>1, <1>2, <1>4, Fewer
    <2> QED BY <1>1, <2>1, <2>2
<1>5. ASSUME NEW n, N \subseteq M \cup {n}, Q \subseteq P, c > b
      PROVE  Cardinality(N) + Cardinality(Q) <= c
    <2>1. Cardinality(N) <= Cardinality(M) + 1 /\ Cardinality(N) \in Nat
        BY <1>5, OneElementMore
    <2>2. Cardinality(Q) <= Cardinality(P) /\ Cardinality(Q) \in Nat
        BY <1>5, Fewer
    <2> QED BY <1>1, <1>5, <2>1, <2>2
<1> QED BY <1>3, <1>4, <1>5

-----------------------------------------------------------------------------
(* The steps that leave the repository. *)

LEMMA OneRunCounted ==
    ASSUME DInv, NEW r \in Runs, UNCHANGED <<manifest, github, edits>>,
           NEW x, run' = [run EXCEPT ![r] = x], RunCreates(x),
           Applicable(manifest) => \A t \in ToSet(Targets) :
              MayCreate(manifest, t, x, github.rulesets) =>
                \/ MayCreate(manifest, t, run[r], github.rulesets)
                \/ ManagedIds(manifest, github.rulesets, t) = {}
    PROVE  Counted'
<1>1. DOMAIN run = Runs /\ RepositoryShape(github) /\ edits \in 0..MaxEdits
    BY DEF DInv, CInv
<1>2. \A q \in Runs : run'[q] = IF q = r THEN x ELSE run[q]
    BY <1>1
<1>3. \A q \in Runs : RunCreates(run'[q])
    BY <1>2 DEF DInv, Counted
<1>4. ASSUME Applicable(manifest), NEW t \in ToSet(Targets)
      PROVE  Cardinality(ManagedIds(manifest, github.rulesets, t))
               + Cardinality(Creating(manifest, t, run', github.rulesets))
             <= Cardinality(Runs) + edits
    <2> DEFINE M == ManagedIds(manifest, github.rulesets, t)
               P == Creating(manifest, t, run, github.rulesets)
               Q == Creating(manifest, t, run', github.rulesets)
    <2>1. Cardinality(M) + Cardinality(P) <= Cardinality(Runs) + edits
        BY <1>4 DEF DInv, Counted
    <2>2. IsFiniteSet(M)
        BY <1>1, ManagedFinite
    <2>3. /\ IsFiniteSet(P) /\ IsFiniteSet(Q) /\ Q \subseteq Runs
          /\ IsFiniteSet(Runs) /\ Cardinality(Runs) \in Nat
        BY CreatingFinite, BoundsAssumption, FS_CardinalityType
    <2>4. Cardinality(Runs) + edits \in Int /\ edits >= 0
        BY <1>1, <2>3, BoundsAssumption
    <2>5. Q \subseteq P \/ M = {}
        BY <1>2, <1>4 DEF Creating
    <2> HIDE DEF M, P, Q
    <2>6. ASSUME Q \subseteq P
          PROVE  Cardinality(M) + Cardinality(Q) <= Cardinality(Runs) + edits
        BY <2>1, <2>2, <2>3, <2>4, <2>6, Bound
    <2>7. CASE M = {}
        <3>1. Cardinality(M) = 0
            BY <2>7, FS_EmptySet
        <3>2. Cardinality(Q) <= Cardinality(Runs) /\ Cardinality(Q) \in Nat
            BY <2>3, Fewer
        <3> QED BY <2>3, <2>4, <3>1, <3>2, <1>1 DEF M, Q
    <2> QED BY <2>5, <2>6, <2>7 DEF M, Q
<1> QED BY <1>3, <1>4 DEF Counted

\* A run that is not about to create anything.
LEMMA QuietRunCounted ==
    ASSUME DInv, NEW r \in Runs, UNCHANGED <<manifest, github, edits>>,
           NEW x, run' = [run EXCEPT ![r] = x], RunCreates(x),
           x.pc \notin {"rulesets", "apply"}
    PROVE  Counted'
BY OneRunCounted DEF MayCreate

LEMMA RunGoesCounted ==
    ASSUME DInv, NEW r \in Runs, UNCHANGED <<manifest, github, edits>>,
           NEW pc, Goto(r, pc), pc \in {"failed", "succeeded"}
    PROVE  Counted'
<1> DEFINE x == [run[r] EXCEPT !.pc = pc]
<1>1. run' = [run EXCEPT ![r] = x] /\ DOMAIN run[r] = RunFields
    BY DEF Goto, DInv, CInv, RunFits
<1>2. x.pc = pc
    BY <1>1 DEF RunFields
<1> HIDE DEF x
<1> QED BY <1>1, <1>2, QuietRunCounted DEF RunCreates

LEMMA StartCounted ==
    ASSUME DInv, NEW r \in Runs, NEW mode \in {"plan", "apply"}, Start(r, mode)
    PROVE  Counted'
<1> DEFINE pc == IF load_manifest(manifest) THEN "repository" ELSE "failed"
           x == [run[r] EXCEPT !.mode = mode, !.pc = pc]
<1>1. /\ run' = [run EXCEPT ![r] = x] /\ UNCHANGED <<manifest, github, edits>>
      /\ DOMAIN run[r] = RunFields
    BY DEF Start, DInv, CInv, RunFits
<1>2. x.pc = pc
    BY <1>1 DEF RunFields
<1> HIDE DEF x
<1> QED BY <1>1, <1>2, QuietRunCounted DEF RunCreates

LEMMA ReadRepositoryCounted ==
    ASSUME DInv, NEW r \in Runs, ReadRepository(r)
    PROVE  Counted'
<1> DEFINE changes == SettingsChange \o AdvancedSecurityChange
           reads == TogglesToRead \o Where(DOMAIN pages(manifest) # {}, "pages")
           x == [run[r] EXCEPT !.changes = changes, !.reads = reads, !.pc = "reads"]
<1>1. UNCHANGED <<manifest, github, edits>> /\ DOMAIN run[r] = RunFields
    BY DEF ReadRepository, DInv, CInv, RunFits
<1>2. CASE ContradictsDependencyGraph(manifest)
    BY <1>1, <1>2, RunGoesCounted DEF ReadRepository, Fails
<1>3. CASE ~ContradictsDependencyGraph(manifest)
    <2>1. run' = [run EXCEPT ![r] = x]
        BY <1>3 DEF ReadRepository
    <2>2. IsSeq(SettingsChange) /\ IsSeq(AdvancedSecurityChange)
        BY SettingsChangeFits, AdvancedSecurityChangeFits DEF ChangesFit
    <2>3. CreatesNone(changes)
        BY <2>2, SettingsCreateNone, JoinedCreateNone
    <2> HIDE DEF changes, reads
    <2>4. x.pc = "reads" /\ x.changes = changes
        BY <1>1 DEF RunFields
    <2> HIDE DEF x
    <2> QED BY <1>1, <2>1, <2>3, <2>4, QuietRunCounted DEF RunCreates
<1> QED BY <1>2, <1>3

LEMMA ReadingCounted ==
    ASSUME DInv, NEW r \in Runs, UNCHANGED <<manifest, github, edits>>,
           run[r].pc = "reads", NEW more, IsSeq(more), CreatesNone(more),
           run' = [run EXCEPT ![r].reads = Tail(@), ![r].changes = @ \o more]
    PROVE  Counted'
<1> DEFINE x == [run[r] EXCEPT !.reads = Tail(@), !.changes = @ \o more]
<1>1. run' = [run EXCEPT ![r] = x] /\ DOMAIN run[r] = RunFields
    BY DEF DInv, CInv, RunFits
<1>2. IsSeq(run[r].changes) /\ CreatesNone(run[r].changes)
    BY DEF DInv, CInv, RunFits, ChangesFit, Counted, RunCreates
<1>3. CreatesNone(run[r].changes \o more)
    BY <1>2, JoinedCreateNone
<1>4. x.pc = "reads" /\ x.changes = run[r].changes \o more
    BY <1>1 DEF RunFields
<1> HIDE DEF x
<1> QED BY <1>1, <1>3, <1>4, QuietRunCounted DEF RunCreates

LEMMA ReadToggleCounted ==
    ASSUME DInv, NEW r \in Runs, ReadToggle(r)
    PROVE  Counted'
<1> DEFINE t == Head(run[r].reads)
<1>1. /\ run[r].pc = "reads" /\ run[r].reads # <<>> /\ t # "pages"
      /\ run' = [run EXCEPT ![r].reads = Tail(@), ![r].changes = @ \o ToggleChange(t)]
      /\ UNCHANGED <<manifest, github, edits>>
    BY DEF ReadToggle, At
<1>2. ReadsFit(manifest, run[r].reads)
    BY DEF DInv, CInv, RunFits
<1>3. t \in ToSet(Toggles) /\ ToggleWanted(manifest, t) # Nil
    BY <1>1, <1>2, ElementsLeft DEF ReadsFit
<1>4. IsSeq(ToggleChange(t))
    BY <1>3, ToggleChangeFits DEF ChangesFit
<1> QED BY <1>1, <1>4, ToggleCreatesNone, ReadingCounted

LEMMA ReadPagesCounted ==
    ASSUME DInv, NEW r \in Runs, ReadPages(r)
    PROVE  Counted'
<1>1. /\ run[r].pc = "reads" /\ run[r].reads # <<>> /\ Head(run[r].reads) = "pages"
      /\ run' = [run EXCEPT ![r].reads = Tail(@), ![r].changes = @ \o PagesChange]
      /\ UNCHANGED <<manifest, github, edits>>
    BY DEF ReadPages, At
<1>2. ReadsFit(manifest, run[r].reads)
    BY DEF DInv, CInv, RunFits
<1>3. DOMAIN pages(manifest) # {}
    BY <1>1, <1>2, ElementsLeft, ToggleNames DEF ReadsFit
<1>4. IsSeq(PagesChange)
    BY <1>3, PagesChangeFits DEF ChangesFit
<1> QED BY <1>1, <1>4, PagesCreateNone, ReadingCounted

\* A run that finds no ruleset of a target to fetch was shown all there are.
LEMMA ListRulesetsCounted ==
    ASSUME DInv, OnePage, NEW r \in Runs, ListRulesets(r)
    PROVE  Counted'
<1>1. /\ UNCHANGED <<manifest, github, edits>> /\ run[r].pc = "reads"
      /\ DOMAIN run[r] = RunFields
    BY DEF ListRulesets, At, DInv, CInv, RunFits
<1> DEFINE refused == \E i \in DOMAIN Targets :
                RulesetRefused(ruleset_table(manifest, Targets[i]), Targets[i],
                               repository(manifest))
           ids == {id \in Ids(github.rulesets) : \E i \in DOMAIN Targets :
                        IsManaged(github.rulesets[id], Targets[i])}
           x == [run[r] EXCEPT !.pc = "rulesets", !.ids = ids]
<1>2. CASE refused
    BY <1>1, <1>2, RunGoesCounted DEF ListRulesets, Fails
<1>3. CASE ~refused
    <2>1. Pages(github.rulesets) = {Ids(github.rulesets)}
        BY DEF Pages, OnePage
    <2>2. run' = [run EXCEPT ![r] = x]
        BY <1>3, <2>1 DEF ListRulesets
    <2>3. ASSUME NEW t \in ToSet(Targets), NEW id \in ManagedIds(manifest, github.rulesets, t)
          PROVE  id \in ids
        <3>1. id \in Ids(github.rulesets) /\ RulesetShape(github.rulesets[id])
            BY DEF ManagedIds, DInv, CInv, RepositoryShape
        <3>2. IsManaged(github.rulesets[id], t)
            BY <3>1 DEF ManagedIds, IsManaged, NameOf, RulesetNameOf, ruleset_name,
                        RulesetShape
        <3> QED BY <3>1, <3>2, TargetNames
    <2> HIDE DEF ids
    <2>4. x.pc = "rulesets" /\ x.changes = run[r].changes /\ x.ids = ids
        BY <1>1 DEF RunFields
    <2> HIDE DEF x
    <2>5. RunCreates(x)
        BY <1>1, <2>4 DEF RunCreates, DInv, Counted
    <2>6. \A t \in ToSet(Targets) : MayCreate(manifest, t, x, github.rulesets) =>
                ManagedIds(manifest, github.rulesets, t) = {}
        BY <2>3, <2>4 DEF MayCreate
    <2> QED BY <1>1, <2>2, <2>5, <2>6, OneRunCounted
<1> QED BY <1>2, <1>3

LEMMA ReadRulesetCounted ==
    ASSUME DInv, NEW r \in Runs, ReadRuleset(r)
    PROVE  Counted'
<1>1. /\ UNCHANGED <<manifest, github, edits>> /\ run[r].pc = "rulesets"
      /\ RunFits(manifest, run[r], github.rulesets)
    BY DEF ReadRuleset, At, DInv, CInv
<1>2. PICK id \in run[r].ids :
        IF id \notin Ids(github.rulesets) \/ github.rulesets[id].target \in DOMAIN run[r].found
        THEN Fails(r)
        ELSE \E form \in Forms :
                run' = [run EXCEPT ![r].ids = @ \ {id},
                    ![r].found = Found(@, id, Shown(github.rulesets[id], form))]
    BY DEF ReadRuleset
<1>3. CASE Fails(r)
    BY <1>1, <1>3, RunGoesCounted DEF Fails
<1>4. CASE /\ id \in Ids(github.rulesets)
           /\ \E form \in Forms :
                run' = [run EXCEPT ![r].ids = @ \ {id},
                    ![r].found = Found(@, id, Shown(github.rulesets[id], form))]
    <2> DEFINE ruleset == github.rulesets[id]
    <2>1. PICK form \in Forms :
             run' = [run EXCEPT ![r].ids = @ \ {id},
                                ![r].found = Found(@, id, Shown(ruleset, form))]
        BY <1>4
    <2> DEFINE shown == Shown(ruleset, form)
               found == Found(run[r].found, id, shown)
               x == [run[r] EXCEPT !.ids = @ \ {id}, !.found = found]
    <2>2. run' = [run EXCEPT ![r] = x]
        BY <2>1
    <2>3. shown.target = ruleset.target
        <3>1. RulesetShape(ruleset)
            BY <1>4 DEF DInv, CInv, RepositoryShape
        <3> QED BY <3>1 DEF Shown, RulesetShape
    <2>4. PICK u \in ToSet(Targets) : Manageable(manifest, u, github.rulesets, id)
        BY <1>1 DEF RunFits, RulesetsFit
    <2>5. ruleset.target = u /\ id \in ManagedIds(manifest, github.rulesets, u)
        BY <1>4, <2>4 DEF Manageable, ManagedIds, Ids
    <2> HIDE DEF shown, ruleset
    <2>6. DOMAIN found = DOMAIN run[r].found \cup {u}
        BY <2>3, <2>5 DEF Found, Merged
    <2> HIDE DEF found
    <2>7. /\ x.pc = "rulesets" /\ x.changes = run[r].changes
          /\ x.ids = run[r].ids \ {id} /\ x.found = found
        BY <1>1 DEF RunFits, RunFields
    <2> HIDE DEF x
    <2>8. RunCreates(x)
        BY <1>1, <2>7 DEF RunCreates, DInv, Counted
    <2>9. ASSUME NEW t \in ToSet(Targets), MayCreate(manifest, t, x, github.rulesets)
          PROVE  MayCreate(manifest, t, run[r], github.rulesets)
        <3>1. t # u /\ t \notin DOMAIN run[r].found
            BY <2>6, <2>7, <2>9 DEF MayCreate
        <3>2. id \notin ManagedIds(manifest, github.rulesets, t)
            BY <2>5, <3>1 DEF ManagedIds
        <3> QED BY <1>1, <1>4, <2>7, <2>9, <3>1, <3>2 DEF MayCreate
    <2> QED BY <1>1, <2>2, <2>8, <2>9, OneRunCounted
<1> QED BY <1>2, <1>3, <1>4

LEMMA FinishPlanCounted ==
    ASSUME DInv, NEW r \in Runs, FinishPlan(r)
    PROVE  Counted'
<1> DEFINE b == RulesetChange(run[r].found, "branch")
           g == RulesetChange(run[r].found, "tag")
           changes == run[r].changes \o b \o g
           pc == IF run[r].mode = "plan" THEN "succeeded" ELSE "apply"
           x == [run[r] EXCEPT !.changes = changes, !.found = Empty, !.pc = pc]
<1>1. /\ UNCHANGED <<manifest, github, edits>> /\ run[r].pc = "rulesets"
      /\ run[r].ids = {} /\ DOMAIN run[r] = RunFields
      /\ run' = [run EXCEPT ![r] = x]
    BY DEF FinishPlan, At, DInv, CInv, RunFits
<1>2. IsSeq(run[r].changes) /\ CreatesNone(run[r].changes)
    BY <1>1 DEF DInv, CInv, RunFits, ChangesFit, Counted, RunCreates
<1>3. /\ CreatesOnce(changes)
      /\ \A t \in ToSet(Targets), change \in ToSet(changes) :
            Creates(change, t) => t \notin DOMAIN run[r].found
    BY <1>2, PlannedCreateOnce
<1> HIDE DEF changes
<1>4. x.pc = pc /\ x.changes = changes
    BY <1>1 DEF RunFields
<1> HIDE DEF x
<1>5. RunCreates(x)
    BY <1>3, <1>4 DEF RunCreates
<1>6. \A t \in ToSet(Targets) : MayCreate(manifest, t, x, github.rulesets) =>
            MayCreate(manifest, t, run[r], github.rulesets)
    BY <1>1, <1>3, <1>4 DEF MayCreate
<1> QED BY <1>1, <1>5, <1>6, OneRunCounted

-----------------------------------------------------------------------------
(* The repository changes. *)

LEMMA RepositoryCounted ==
    ASSUME DInv, manifest' = manifest, edits \in Int, edits' \in Int, edits' >= edits,
           Keeps(manifest, github, github'), Follows(manifest, github, github'),
           NEW runs, \A q \in Runs : /\ RunCreates(runs[q]) /\ DOMAIN runs[q] = RunFields
                                     /\ RulesetsFit(manifest, runs[q], github.rulesets),
           NEW but, run' = Disturb(runs, but),
           Applicable(manifest) => \A t \in ToSet(Targets) :
              LET P == Creating(manifest, t, run, github.rulesets)
                  Q == Creating(manifest, t, runs, github.rulesets)
              IN  \/ NoMore(manifest, t, github, github') /\ Q \subseteq P
                  \/ OneMore(manifest, t, github, github') /\ \E r \in P : Q \subseteq P \ {r}
                  \/ OneMore(manifest, t, github, github') /\ Q \subseteq P /\ edits' > edits
    PROVE  Counted'
<1>1. \A q \in Runs : run'[q] = runs[q] \/ run'[q] = [runs[q] EXCEPT !.disturbed = TRUE]
    BY DEF Disturb
<1>2. ASSUME NEW q \in Runs
      PROVE  RunCreates(run'[q])
    <2>1. run'[q].pc = runs[q].pc /\ run'[q].changes = runs[q].changes
        BY <1>1 DEF RunFields
    <2> QED BY <2>1 DEF RunCreates
<1>3. ASSUME Applicable(manifest), NEW t \in ToSet(Targets)
      PROVE  Cardinality(ManagedIds(manifest, github'.rulesets, t))
               + Cardinality(Creating(manifest, t, run', github'.rulesets))
             <= Cardinality(Runs) + edits'
    <2> DEFINE M == ManagedIds(manifest, github.rulesets, t)
               N == ManagedIds(manifest, github'.rulesets, t)
               P == Creating(manifest, t, run, github.rulesets)
               Q == Creating(manifest, t, runs, github.rulesets)
               Z == Creating(manifest, t, run', github'.rulesets)
    <2>1. Cardinality(M) + Cardinality(P) <= Cardinality(Runs) + edits
        BY <1>3 DEF DInv, Counted
    <2>2. IsFiniteSet(M) /\ IsFiniteSet(P) /\ Cardinality(Runs) \in Nat
        BY ManagedFinite, CreatingFinite, BoundsAssumption, FS_CardinalityType
           DEF DInv, CInv
    <2>3. Z \subseteq Q
        <3> SUFFICES ASSUME NEW q \in Runs, MayCreate(manifest, t, run'[q], github'.rulesets)
                     PROVE  MayCreate(manifest, t, runs[q], github.rulesets)
            BY DEF Creating
        <3> QED BY <1>1, NoOtherCreates
    <2>4. \/ N \subseteq M /\ Q \subseteq P
          \/ (\E n : N \subseteq M \cup {n}) /\ \E r \in P : Q \subseteq P \ {r}
          \/ (\E n : N \subseteq M \cup {n}) /\ Q \subseteq P /\ edits' > edits
        BY <1>3 DEF NoMore, OneMore
    <2> HIDE DEF M, N, P, Q, Z
    <2>5. \/ N \subseteq M /\ Z \subseteq P
          \/ \E n : N \subseteq M \cup {n} /\ \E r \in P : Z \subseteq P \ {r}
          \/ \E n : N \subseteq M \cup {n} /\ Z \subseteq P
                        /\ Cardinality(Runs) + edits' > Cardinality(Runs) + edits
        <3>1. CASE N \subseteq M /\ Q \subseteq P
            BY <2>3, <3>1
        <3>2. CASE (\E n : N \subseteq M \cup {n}) /\ \E r \in P : Q \subseteq P \ {r}
            BY <2>3, <3>2
        <3>3. CASE (\E n : N \subseteq M \cup {n}) /\ Q \subseteq P /\ edits' > edits
            <4>1. Cardinality(Runs) + edits' > Cardinality(Runs) + edits
                BY <2>2, <3>3
            <4> QED BY <2>3, <3>3, <4>1
        <3> QED BY <2>4, <3>1, <3>2, <3>3
    <2>6. /\ Cardinality(Runs) + edits \in Int /\ Cardinality(Runs) + edits' \in Int
          /\ Cardinality(Runs) + edits' >= Cardinality(Runs) + edits
        BY <2>2
    <2>7. Cardinality(N) + Cardinality(Z) <= Cardinality(Runs) + edits'
        <3> DEFINE b == Cardinality(Runs) + edits
                   c == Cardinality(Runs) + edits'
        <3> HIDE DEF b, c
        <3>1. b \in Int /\ c \in Int /\ c >= b /\ Cardinality(M) + Cardinality(P) <= b
            BY <2>1, <2>6 DEF b, c
        <3>2. \/ N \subseteq M /\ Z \subseteq P
              \/ \E n : N \subseteq M \cup {n} /\ \E r \in P : Z \subseteq P \ {r}
              \/ \E n : N \subseteq M \cup {n} /\ Z \subseteq P /\ c > b
            BY <2>5 DEF b, c
        <3>3. Cardinality(N) + Cardinality(Z) <= c
            BY <2>2, <3>1, <3>2, Bound
        <3> QED BY <3>3 DEF c
    <2> QED BY <2>7 DEF N, Z
<1> QED BY <1>2, <1>3 DEF Counted

\* A run with a request to create one is one of those counted.
LEMMA CreatorCounted ==
    ASSUME DInv, NEW r \in Runs, At(r, "apply"), run[r].changes # <<>>,
           NEW t \in ToSet(Targets),
           ToSend(r).kind = "create_ruleset", ToSend(r).payload.target = t
    PROVE  r \in Creating(manifest, t, run, github.rulesets)
<1>1. ChangesFit(manifest, run[r].changes, github.rulesets)
    BY DEF DInv, CInv, RunFits
<1> DEFINE first == Head(run[r].changes)
<1>2. first \in ToSet(run[r].changes)
    BY <1>1, ElementsLeft DEF ChangesFit
<1>3. Head(first.requests) \in ToSet(first.requests)
    BY <1>1, <1>2, ElementsLeft DEF ChangesFit, ChangeFits
<1>4. Creates(first, t)
    BY <1>3 DEF Creates, ToSend
<1> HIDE DEF first
<1> QED BY <1>2, <1>4 DEF Creating, MayCreate, At

LEMMA SendRequestCounted ==
    ASSUME DInv, NEW r \in Runs, SendRequest(r)
    PROVE  Counted'
<1>1. /\ At(r, "apply") /\ run[r].changes # <<>> /\ CInv
      /\ UNCHANGED <<manifest, failures, edits>> /\ DOMAIN run = Runs
      /\ DOMAIN run[r] = RunFields /\ RulesetsFit(manifest, run[r], github.rulesets)
      /\ ChangesFit(manifest, run[r].changes, github.rulesets)
      /\ edits \in Int
    BY DEF SendRequest, DInv, CInv, RunFits
<1>2. CASE Refuses(github, ToSend(r))
    BY <1>1, <1>2, RunGoesCounted DEF SendRequest, Fails
<1>3. CASE ~Refuses(github, ToSend(r))
    <2> DEFINE q == ToSend(r)
               x == [run[r] EXCEPT !.changes = Sent(@)]
               runs == [run EXCEPT ![r] = x]
    <2>1. github' = Effect(github, q) /\ run' = Disturb(runs, r)
        BY <1>3 DEF SendRequest
    <2>2. RepositoryShape(github) /\ SpokenOf(manifest, q, github.rulesets)
        BY <1>1, RequestFits
    <2>3. Keeps(manifest, github, github')
        BY <1>3, <2>1, <2>2, RequestKeeps
    <2>4. /\ Follows(manifest, github, github')
          /\ \A t \in ToSet(Targets) :
                \/ NoMore(manifest, t, github, github')
                \/ /\ q.kind = "create_ruleset" /\ q.payload.target = t
                   /\ OneMore(manifest, t, github, github')
        BY <1>3, <2>1, <2>2, RequestCounted
    <2>5. /\ DOMAIN x = RunFields /\ x.pc = "apply" /\ x.changes = Sent(run[r].changes)
          /\ x.ids = run[r].ids /\ x.found = run[r].found
        BY <1>1 DEF RunFields, At
    <2>6. CreatesOnce(run[r].changes)
        BY <1>1 DEF DInv, Counted, RunCreates, At
    <2>7. /\ CreatesOnce(Sent(run[r].changes))
          /\ \A t \in ToSet(Targets), change \in ToSet(Sent(run[r].changes)) :
                Creates(change, t) =>
                   /\ \E other \in ToSet(run[r].changes) : Creates(other, t)
                   /\ ~(q.kind = "create_ruleset" /\ q.payload.target = t)
        BY <1>1, <2>6, SentCreateOnce DEF ToSend
    <2> HIDE DEF x
    <2>8. \A p \in Runs : /\ RunCreates(runs[p]) /\ DOMAIN runs[p] = RunFields
                          /\ RulesetsFit(manifest, runs[p], github.rulesets)
        <3>1. RunCreates(x) /\ DOMAIN x = RunFields /\ RulesetsFit(manifest, x, github.rulesets)
            BY <1>1, <2>5, <2>7 DEF RunCreates, RulesetsFit
        <3> QED BY <1>1, <3>1 DEF DInv, Counted, CInv, RunFits
    <2>9. ASSUME NEW t \in ToSet(Targets)
          PROVE  /\ Creating(manifest, t, runs, github.rulesets)
                      \subseteq Creating(manifest, t, run, github.rulesets)
                 /\ q.kind = "create_ruleset" /\ q.payload.target = t =>
                      r \notin Creating(manifest, t, runs, github.rulesets)
        <3>1. MayCreate(manifest, t, x, github.rulesets) =>
                 /\ MayCreate(manifest, t, run[r], github.rulesets)
                 /\ ~(q.kind = "create_ruleset" /\ q.payload.target = t)
            BY <1>1, <2>5, <2>7 DEF MayCreate, At
        <3> QED BY <1>1, <3>1 DEF Creating
    <2> HIDE DEF runs, q
    <2>10. \A t \in ToSet(Targets) :
              LET P == Creating(manifest, t, run, github.rulesets)
                  Q == Creating(manifest, t, runs, github.rulesets)
              IN  \/ NoMore(manifest, t, github, github') /\ Q \subseteq P
                  \/ OneMore(manifest, t, github, github') /\ \E p \in P : Q \subseteq P \ {p}
        <3> TAKE t \in ToSet(Targets)
        <3>1. CASE NoMore(manifest, t, github, github')
            BY <2>9, <3>1
        <3>2. CASE /\ q.kind = "create_ruleset" /\ q.payload.target = t
                   /\ OneMore(manifest, t, github, github')
            <4>1. r \in Creating(manifest, t, run, github.rulesets)
                BY <1>1, <3>2, CreatorCounted DEF q
            <4> QED BY <2>9, <3>2, <4>1
        <3> QED BY <2>4, <3>1, <3>2
    <2>11. manifest' = manifest /\ edits' \in Int /\ edits' >= edits
        BY <1>1
    <2> QED BY <1>1, <2>1, <2>3, <2>4, <2>8, <2>10, <2>11, RepositoryCounted
<1> QED BY <1>2, <1>3

LEMMA AnswerLostCounted ==
    ASSUME DInv, NEW r \in Runs, AnswerLost(r)
    PROVE  Counted'
<1> DEFINE q == ToSend(r)
           x == [run[r] EXCEPT !.pc = "failed"]
           runs == [run EXCEPT ![r] = x]
<1>1. /\ At(r, "apply") /\ run[r].changes # <<>> /\ ~Refuses(github, q) /\ CInv
      /\ UNCHANGED <<manifest, edits>> /\ DOMAIN run = Runs
      /\ github' = Effect(github, q) /\ run' = Disturb(runs, r)
      /\ DOMAIN run[r] = RunFields /\ RulesetsFit(manifest, run[r], github.rulesets)
      /\ edits \in Int
    BY DEF AnswerLost, DInv, CInv, RunFits
<1>2. RepositoryShape(github) /\ SpokenOf(manifest, q, github.rulesets)
    BY <1>1, RequestFits
<1>3. Keeps(manifest, github, github')
    BY <1>1, <1>2, RequestKeeps
<1>4. /\ Follows(manifest, github, github')
      /\ \A t \in ToSet(Targets) :
            \/ NoMore(manifest, t, github, github')
            \/ /\ q.kind = "create_ruleset" /\ q.payload.target = t
               /\ OneMore(manifest, t, github, github')
    BY <1>1, <1>2, RequestCounted
<1>5. DOMAIN x = RunFields /\ x.pc = "failed" /\ x.ids = run[r].ids /\ x.found = run[r].found
    BY <1>1 DEF RunFields
<1> HIDE DEF x
<1>6. \A p \in Runs : /\ RunCreates(runs[p]) /\ DOMAIN runs[p] = RunFields
                      /\ RulesetsFit(manifest, runs[p], github.rulesets)
    <2>1. RunCreates(x) /\ DOMAIN x = RunFields /\ RulesetsFit(manifest, x, github.rulesets)
        BY <1>1, <1>5 DEF RunCreates, RulesetsFit
    <2> QED BY <1>1, <2>1 DEF DInv, Counted, CInv, RunFits
<1>7. \A t : /\ Creating(manifest, t, runs, github.rulesets)
                  \subseteq Creating(manifest, t, run, github.rulesets)
             /\ r \notin Creating(manifest, t, runs, github.rulesets)
    BY <1>1, <1>5 DEF Creating, MayCreate
<1> HIDE DEF runs, q
<1>8. \A t \in ToSet(Targets) :
          LET P == Creating(manifest, t, run, github.rulesets)
              Q == Creating(manifest, t, runs, github.rulesets)
          IN  \/ NoMore(manifest, t, github, github') /\ Q \subseteq P
              \/ OneMore(manifest, t, github, github') /\ \E p \in P : Q \subseteq P \ {p}
    <2> TAKE t \in ToSet(Targets)
    <2>1. CASE NoMore(manifest, t, github, github')
        BY <1>7, <2>1
    <2>2. CASE /\ q.kind = "create_ruleset" /\ q.payload.target = t
               /\ OneMore(manifest, t, github, github')
        <3>1. r \in Creating(manifest, t, run, github.rulesets)
            BY <1>1, <2>2, CreatorCounted DEF q
        <3> QED BY <1>7, <2>2, <3>1
    <2> QED BY <1>4, <2>1, <2>2
<1>9. manifest' = manifest /\ edits' \in Int /\ edits' >= edits
    BY <1>1
<1> QED BY <1>1, <1>3, <1>4, <1>6, <1>8, <1>9, RepositoryCounted

LEMMA PersonCounted ==
    ASSUME DInv, Edit
    PROVE  Counted'
<1>1. PICK kind \in EditKinds : github' \in EditsOf(kind) \ {github}
    BY DEF Edit
<1>2. /\ manifest' = manifest /\ edits' = edits + 1 /\ edits \in Int
      /\ run' = Disturb(run, Nil) /\ CInv
    BY DEF Edit, DInv, CInv
<1>3. Keeps(manifest, github, github')
    BY <1>1, <1>2, EditKeeps, BoundsAssumption
<1>4. /\ Follows(manifest, github, github')
      /\ \A t \in ToSet(Targets) :
            NoMore(manifest, t, github, github') \/ OneMore(manifest, t, github, github')
    BY <1>1, <1>2, EditCounted, BoundsAssumption
<1>5. \A p \in Runs : /\ RunCreates(run[p]) /\ DOMAIN run[p] = RunFields
                      /\ RulesetsFit(manifest, run[p], github.rulesets)
    BY DEF DInv, Counted, CInv, RunFits
<1>6. edits' \in Int /\ edits' >= edits /\ edits' > edits
    BY <1>2
<1> QED BY <1>2, <1>3, <1>4, <1>5, <1>6, RepositoryCounted

-----------------------------------------------------------------------------
(* The invariant is inductive. *)

LEMMA DInvInductive == DInv /\ OnePage /\ [Next]_vars => DInv'
<1> SUFFICES ASSUME DInv, OnePage, [Next]_vars PROVE DInv'
    OBVIOUS
<1>1. CInv'
    BY CInvInductive DEF DInv
<1>2. CASE UNCHANGED vars
    BY <1>1, <1>2 DEF vars, DInv, Counted, Creating
<1>3. ASSUME NEW r \in Runs, NEW mode \in {"plan", "apply"}, Start(r, mode)
      PROVE  Counted'
    BY <1>3, StartCounted
<1>4. ASSUME NEW r \in Runs, Step(r)
      PROVE  Counted'
    <2>1. CASE FinishApply(r)
        BY <2>1, RunGoesCounted DEF FinishApply
    <2>2. CASE Exit(r)
        <3>1. Idle.pc = "idle"
            BY DEF Idle
        <3> QED BY <2>2, <3>1, QuietRunCounted DEF Exit, RunCreates
    <2> QED BY <1>4, <2>1, <2>2, ReadRepositoryCounted, ReadToggleCounted,
               ReadPagesCounted, ListRulesetsCounted, ReadRulesetCounted, FinishPlanCounted,
               SendRequestCounted
            DEF Step
<1>5. ASSUME NEW r \in Runs, RequestFails(r)
      PROVE  Counted'
    BY <1>5, RunGoesCounted DEF RequestFails, Fails
<1>6. ASSUME NEW r \in Runs, AnswerLost(r)
      PROVE  Counted'
    BY <1>6, AnswerLostCounted
<1>7. CASE Edit
    BY <1>1, <1>7, PersonCounted DEF DInv
<1> QED BY <1>1, <1>2, <1>3, <1>4, <1>5, <1>6, <1>7 DEF Next, DInv

\* No run is under way at first.
LEMMA InitDInv == Init /\ DuplicatesBounded => DInv
<1> SUFFICES ASSUME Init, DuplicatesBounded PROVE DInv
    OBVIOUS
<1>1. CInv
    BY InitCInv
<1>2. Idle.pc = "idle" /\ \A r \in Runs : run[r] = Idle
    BY DEF Idle, Init
<1> HIDE DEF Idle
<1>3. \A r \in Runs : RunCreates(run[r])
    BY <1>2 DEF RunCreates
<1>4. ASSUME Applicable(manifest), NEW t \in ToSet(Targets)
      PROVE  Cardinality(ManagedIds(manifest, github.rulesets, t))
               + Cardinality(Creating(manifest, t, run, github.rulesets))
             <= Cardinality(Runs) + edits
    <2>1. Creating(manifest, t, run, github.rulesets) = {}
        BY <1>2 DEF Creating, MayCreate
    <2>2. Cardinality(ManagedIds(manifest, github.rulesets, t)) <= Cardinality(Runs) + edits
        BY <1>4 DEF DuplicatesBounded
    <2>3. Cardinality(ManagedIds(manifest, github.rulesets, t)) \in Nat
        BY <1>1, ManagedFinite, FS_CardinalityType DEF CInv
    <2> QED BY <2>1, <2>2, <2>3, FS_EmptySet
<1> QED BY <1>1, <1>3, <1>4 DEF DInv, Counted

LEMMA DInvBounds == DInv => DuplicatesBounded
<1> SUFFICES ASSUME DInv, Applicable(manifest), NEW t \in ToSet(Targets)
             PROVE  Cardinality(ManagedIds(manifest, github.rulesets, t))
                      <= Cardinality(Runs) + edits
    BY DEF DuplicatesBounded
<1> DEFINE M == ManagedIds(manifest, github.rulesets, t)
           P == Creating(manifest, t, run, github.rulesets)
<1>1. Cardinality(M) + Cardinality(P) <= Cardinality(Runs) + edits
    BY DEF DInv, Counted
<1>2. Cardinality(M) \in Nat /\ Cardinality(P) \in Nat
    BY ManagedFinite, CreatingFinite, FS_CardinalityType DEF DInv, CInv
<1>3. Cardinality(Runs) \in Nat /\ edits \in Int
    BY BoundsAssumption, FS_CardinalityType DEF DInv, CInv
<1> HIDE DEF M, P
<1> QED BY <1>1, <1>2, <1>3 DEF M

-----------------------------------------------------------------------------
(* The theorem. *)

\* As long as the list of rulesets fits the one page that is asked for, there
\* is never more than one ruleset of a managed name for each run that may be
\* under way, beside those people made: whoever lists, fetches, creates, fails
\* or loses an answer in between (get_managed_rulesets, plan_ruleset_changes).
THEOREM DuplicatesStayBounded ==
    Spec /\ DuplicatesBounded /\ []OnePage => []DuplicatesBounded
BY InitDInv, DInvInductive, DInvBounds, PTL DEF Spec

=============================================================================
