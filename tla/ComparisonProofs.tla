-------------------------- MODULE ComparisonProofs --------------------------
(***************************************************************************)
(* How the planner compares a ruleset with the payload of the manifest,    *)
(* for every ruleset and manifest of the types RepoConfigurator assumes:   *)
(* lists whatever their order, rules whatever their order and whatever     *)
(* parameters GitHub leaves out. A ruleset with the normal form of the     *)
(* payload is one in force; and one in force that repeats nothing has the  *)
(* normal form of the payload.                                             *)
(***************************************************************************)
EXTENDS ReconcilerProofs, WellFoundedInduction

LEMMA SmallestNumber ==
    ASSUME NEW T, T \subseteq Nat, T # {}
    PROVE  \E n \in T : \A k \in T : n <= k
<1> DEFINE R == OpToRel(<, Nat)
<1>1. IsWellFoundedOn(R, Nat)
    BY NatLessThanWellFounded
<1>2. \A a, b \in Nat : a < b => <<a, b>> \in R
    BY DEF OpToRel
<1> HIDE DEF R
<1>3. PICK n \in T : \A k \in T : ~(<<k, n>> \in R)
    BY <1>1, WFMin
<1>4. n \in Nat /\ \A k \in T : k \in Nat
    OBVIOUS
<1>5. \A k \in T : ~(k < n)
    BY <1>2, <1>3, <1>4
<1> QED BY <1>4, <1>5

\* What holds of 0 and is handed on holds up to n.
LEMMA CountedUp ==
    ASSUME NEW n \in Nat, NEW T, 0 \in T, \A k \in 0..(n - 1) : k \in T => k + 1 \in T
    PROVE  \A k \in 0..n : k \in T
<1> SUFFICES ASSUME NEW j \in 0..n, j \notin T PROVE FALSE
    OBVIOUS
<1> DEFINE S == (0..n) \ T
<1>1. S \subseteq Nat /\ S # {}
    OBVIOUS
<1>2. PICK k \in S : \A i \in S : k <= i
    BY <1>1, SmallestNumber
<1>3. k # 0 /\ k - 1 \in 0..(n - 1) /\ k - 1 \notin S /\ (k - 1) + 1 = k
    BY <1>2
<1> QED BY <1>2, <1>3

\* The rules kept, counted up to each place of the list.
Counts(F, rules, managed) ==
    /\ \A n \in 0..Len(rules) : F[n] = [type \in managed |-> F[n][type]]
    /\ \A type \in managed : F[0][type] = <<>>
    /\ \A n \in 1..Len(rules), type \in managed :
          F[n][type] = F[n - 1][type] \o IF rules[n].type = type
                                         THEN <<normalize_rule(rules[n])>> ELSE <<>>

LEMMA KeptCounted ==
    ASSUME NEW rules, NEW managed, Len(rules) \in Nat
    PROVE  \E F : KeptRules(rules, managed) = F[Len(rules)] /\ Counts(F, rules, managed)
<1> DEFINE N == Len(rules)
           More(n, type) == Where(rules[n].type = type, normalize_rule(rules[n]))
           Onward(before, n) == [type \in managed |-> before[type] \o More(n, type)]
           Body(F, n) == IF n = 0 THEN [type \in managed |-> <<>>] ELSE Onward(F[n - 1], n)
           Is(F, n) == F = [i \in 0..n |-> Body(F, i)]
           T == {n \in 0..N : \E F : Is(F, n)}
           K == CHOOSE F : Is(F, N)
<1>1. KeptRules(rules, managed) = K[N]
    BY DEF KeptRules
<1> HIDE DEF More, N
<1>2. N \in Nat
    BY DEF N
<1>3. 0 \in T
    <2> DEFINE F == [i \in 0..0 |-> [type \in managed |-> <<>>]]
    <2>1. Is(F, 0)
        OBVIOUS
    <2> HIDE DEF F, Is
    <2> QED BY <1>2, <2>1
<1> HIDE DEF Onward
<1>4. ASSUME NEW n \in 0..(N - 1), n \in T
      PROVE  n + 1 \in T
    <2>1. PICK F : Is(F, n)
        BY <1>4
    <2> DEFINE G == [i \in 0..(n + 1) |-> IF i <= n THEN F[i] ELSE Onward(F[n], n + 1)]
    <2>2. n \in Nat /\ n + 1 \in 0..N
        BY <1>2
    <2>3. \A i \in 0..n : G[i] = F[i] /\ F[i] = Body(F, i)
        BY <2>1, <2>2
    <2>4. G[n + 1] = Onward(F[n], n + 1)
        BY <2>2
    <2>5. DOMAIN G = 0..(n + 1) /\ G = [i \in DOMAIN G |-> G[i]]
        OBVIOUS
    <2> HIDE DEF G
    <2>6. ASSUME NEW i \in 0..(n + 1)
          PROVE  G[i] = Body(G, i)
        <3>1. CASE i = 0
            BY <2>2, <2>3, <3>1
        <3>2. CASE i \in 1..n
            <4>1. i - 1 \in 0..n /\ i \in 0..n /\ i # 0
                BY <2>2, <3>2
            <4> QED BY <2>3, <4>1
        <3>3. CASE i = n + 1
            <4>1. (n + 1) - 1 = n /\ n \in 0..n /\ n + 1 # 0
                BY <2>2
            <4> QED BY <2>3, <2>4, <3>3, <4>1
        <3> QED BY <2>2, <3>1, <3>2, <3>3
    <2>7. Is(G, n + 1)
        BY <2>5, <2>6
    <2> QED BY <2>2, <2>7
<1>5. N \in T
    <2> HIDE DEF T
    <2>1. \A n \in 0..(N - 1) : n \in T => n + 1 \in T
        BY <1>4
    <2>2. \A n \in 0..N : n \in T
        BY <1>2, <1>3, <2>1, CountedUp
    <2> QED BY <1>2, <2>2
<1>6. Is(K, N)
    <2>1. \E F : Is(F, N)
        BY <1>5
    <2> HIDE DEF Is
    <2> QED BY <2>1
<1> HIDE DEF K
<1>7. K[0] = [type \in managed |-> <<>>]
    BY <1>2, <1>6
<1>8. \A n \in 1..N : K[n] = Onward(K[n - 1], n)
    BY <1>2, <1>6
<1>9. /\ \A type \in managed : K[0][type] = <<>>
      /\ \A n \in 1..N, type \in managed : K[n][type] = K[n - 1][type] \o More(n, type)
    BY <1>7, <1>8 DEF Onward
<1>10. ASSUME NEW n \in 0..N
       PROVE  K[n] = [type \in managed |-> K[n][type]]
    <2>1. n = 0 \/ n \in 1..N
        BY <1>2
    <2>2. CASE n = 0
        BY <1>7, <2>2
    <2>3. CASE n \in 1..N
        BY <1>8, <2>3 DEF Onward
    <2> QED BY <2>1, <2>2, <2>3
<1>11. Counts(K, rules, managed)
    BY <1>9, <1>10 DEF More, N, Where, Counts
<1> QED BY <1>1, <1>11 DEF N

\* The rules kept of a type are the normal forms of those of the type.
LEMMA KeptElements ==
    ASSUME NEW rules, IsSeq(rules), NEW managed, NEW type \in managed
    PROVE  /\ IsSeq(KeptRules(rules, managed)[type])
           /\ ToSet(KeptRules(rules, managed)[type])
                = {normalize_rule(rule) : rule \in {x \in ToSet(rules) : x.type = type}}
<1> DEFINE N == Len(rules)
           More(n) == IF rules[n].type = type THEN <<normalize_rule(rules[n])>> ELSE <<>>
           Is(n, x) == rules[n].type = type /\ x = normalize_rule(rules[n])
<1>1. N \in Nat /\ DOMAIN rules = 1..N
    BY DEF IsSeq
<1>2. PICK F : KeptRules(rules, managed) = F[N] /\ Counts(F, rules, managed)
    BY <1>1, KeptCounted
<1>3. F[0][type] = <<>> /\ \A n \in 1..N : F[n][type] = F[n - 1][type] \o More(n)
    BY <1>2 DEF Counts
<1>4. ASSUME NEW n
      PROVE  IsSeq(More(n)) /\ \A x : x \in ToSet(More(n)) <=> Is(n, x)
    BY NoElements, OneElement
<1> HIDE DEF N, More, Is
<1> DEFINE Right(n) == /\ IsSeq(F[n][type])
                       /\ \A x : x \in ToSet(F[n][type]) <=> \E i \in 1..n : Is(i, x)
           T == {n \in 0..N : Right(n)}
<1>5. Right(0)
    BY <1>3, NoElements
<1>6. ASSUME NEW n \in 0..(N - 1), Right(n)
      PROVE  Right(n + 1)
    <2>1. n + 1 \in 1..N /\ (n + 1) - 1 = n /\ 1..(n + 1) = (1..n) \cup {n + 1}
        BY <1>1
    <2>2. F[n + 1][type] = F[n][type] \o More(n + 1)
        BY <1>3, <2>1
    <2>3. /\ IsSeq(F[n + 1][type])
          /\ ToSet(F[n + 1][type]) = ToSet(F[n][type]) \cup ToSet(More(n + 1))
        BY <1>4, <1>6, <2>2, ElementsJoined
    <2> QED BY <1>4, <1>6, <2>1, <2>3
<1>7. Right(N)
    <2> HIDE DEF Right
    <2>1. 0 \in T
        BY <1>1, <1>5
    <2>2. \A n \in 0..(N - 1) : n \in T => n + 1 \in T
        BY <1>1, <1>6
    <2> HIDE DEF T
    <2>3. \A n \in 0..N : n \in T
        BY <1>1, <2>1, <2>2, CountedUp
    <2>4. N \in 0..N
        BY <1>1
    <2> QED BY <2>3, <2>4 DEF T
<1>8. \A x : (\E i \in 1..N : Is(i, x)) <=>
            \E rule \in ToSet(rules) : rule.type = type /\ x = normalize_rule(rule)
    BY <1>1 DEF Is, ToSet
<1>9. KeptRules(rules, managed)[type] = F[N][type]
    BY <1>2
<1>10. IsSeq(F[N][type]) /\ \A x : x \in ToSet(F[N][type]) <=> \E i \in 1..N : Is(i, x)
    BY <1>7
<1> HIDE DEF Right
<1> QED BY <1>8, <1>9, <1>10

\* Reversing a list keeps its elements.
LEMMA ElementsReversed ==
    ASSUME NEW s, IsSeq(s)
    PROVE  IsSeq(Reverse(s)) /\ ToSet(Reverse(s)) = ToSet(s)
<1> DEFINE r == Reverse(s)
<1>1. Len(s) \in Nat /\ DOMAIN s = 1..Len(s)
    BY DEF IsSeq
<1>2. r = [i \in 1..Len(s) |-> s[(Len(s) - i) + 1]]
    BY DEF Reverse
<1>3. \A i \in 1..Len(s) : (Len(s) - i) + 1 \in 1..Len(s) /\ (Len(s) - ((Len(s) - i) + 1)) + 1 = i
    BY <1>1
<1>4. DOMAIN r = 1..Len(s) /\ r = [i \in DOMAIN r |-> r[i]]
    BY <1>2
<1>5. \A i \in 1..Len(s) : r[i] = s[(Len(s) - i) + 1] /\ s[i] = r[(Len(s) - i) + 1]
    BY <1>2, <1>3
<1> HIDE DEF r
<1>6. ToSet(r) = ToSet(s)
    <2>1. ASSUME NEW i \in 1..Len(s)
          PROVE  r[i] \in ToSet(s) /\ s[i] \in ToSet(r)
        <3>1. (Len(s) - i) + 1 \in DOMAIN s /\ (Len(s) - i) + 1 \in DOMAIN r
            BY <1>1, <1>3, <1>4
        <3> QED BY <1>5, <3>1 DEF ToSet
    <2> QED BY <1>1, <1>4, <2>1 DEF ToSet
<1>7. IsSeq(r)
    <2>1. \A i \in 1..Len(s) : r[i] \in ToSet(r)
        BY <1>4 DEF ToSet
    <2>2. r \in [1..Len(s) -> ToSet(r)]
        BY <1>4, <2>1
    <2> QED BY <1>1, <2>2 DEF IsSeq
<1> QED BY <1>6, <1>7 DEF r

\* Equal when sorted, lists have the same elements.
LEMMA SortedTells ==
    ASSUME NEW s, NEW u, IsSeq(s), IsSeq(u), sorted(s) = sorted(u)
    PROVE  ToSet(s) = ToSet(u) /\ DOMAIN s = DOMAIN u
BY SortedElements

-----------------------------------------------------------------------------
(* Parameters that mean the same for a rule of the type. *)

PullRequestFlags == PullRequestKeys \ {"allowed_merge_methods", "required_approving_review_count"}
CheckFlags == {"do_not_enforce_on_create", "strict_required_status_checks_policy"}
SameFlags(names, a, b) == \A flag \in names : get(a, flag, FALSE) = get(b, flag, FALSE)
SameList(name, a, b) == ToSet(get(a, name, <<>>)) = ToSet(get(b, name, <<>>))

SameParameters(type, a, b) ==
    /\ type = "update" => SameFlags({"update_allows_fetch_and_merge"}, a, b)
    /\ type = "pull_request" =>
        /\ SameFlags(PullRequestFlags, a, b)
        /\ SameList("allowed_merge_methods", a, b)
        /\ get(a, "required_approving_review_count", 0)
             = get(b, "required_approving_review_count", 0)
    /\ type = "required_status_checks" =>
        /\ SameFlags(CheckFlags, a, b)
        /\ SameList("required_status_checks", a, b)

LEMMA ListsTyped ==
    ASSUME NEW a, ParametersTyped(a), NEW name \in ListParameters
    PROVE  IsSeq(get(a, name, <<>>))
<1>1. name \in DOMAIN a => ParameterTyped(name, a[name])
    BY DEF ParametersTyped
<1>2. \A value : ParameterTyped(name, value) => IsSeq(value)
    BY DEF ParameterTyped, IsSeq
<1> QED BY <1>1, <1>2, NoElements DEF get

\* Rules of a type with the same normal form mean the same.
LEMMA NormalsTell ==
    ASSUME NEW a, NEW b, a.type = b.type, ParametersTyped(a.parameters),
           ParametersTyped(b.parameters), normalize_rule(a) = normalize_rule(b)
    PROVE  SameParameters(a.type, a.parameters, b.parameters)
<1> DEFINE p == a.parameters
           q == b.parameters
           Flags(names, given) == [n \in names |-> get(given, n, FALSE)]
           PullRest(given) == [allowed_merge_methods |->
                                    sorted(get(given, "allowed_merge_methods", <<>>)),
                               required_approving_review_count |->
                                    get(given, "required_approving_review_count", 0)]
           CheckRest(given) == [required_status_checks |->
                                    sorted(get(given, "required_status_checks", <<>>))]
<1>1. \A type, x, y : Rule(type, x) = Rule(type, y) => x = y
    BY DEF Rule
<1>2. \A names, x, y : Flags(names, x) = Flags(names, y) => SameFlags(names, x, y)
    <2> TAKE names, x, y
    <2>1. \A flag \in names : /\ Flags(names, x)[flag] = get(x, flag, FALSE)
                              /\ Flags(names, y)[flag] = get(y, flag, FALSE)
        OBVIOUS
    <2> QED BY <2>1 DEF SameFlags
<1>3. CASE a.type = "update"
    <2>1. Flags({"update_allows_fetch_and_merge"}, p) = Flags({"update_allows_fetch_and_merge"}, q)
        BY <1>1, <1>3 DEF normalize_rule
    <2> QED BY <1>2, <1>3, <2>1 DEF SameParameters
<1>4. CASE a.type = "pull_request"
    <2>1. Merged(Flags(PullRequestKeys, p), PullRest(p))
            = Merged(Flags(PullRequestKeys, q), PullRest(q))
        BY <1>1, <1>4 DEF normalize_rule
    <2>2. \A x : /\ DOMAIN PullRest(x) = {"allowed_merge_methods", "required_approving_review_count"}
                 /\ PullRest(x)["allowed_merge_methods"]
                        = sorted(get(x, "allowed_merge_methods", <<>>))
                 /\ PullRest(x)["required_approving_review_count"]
                        = get(x, "required_approving_review_count", 0)
        OBVIOUS
    <2>3. \A x : /\ DOMAIN Flags(PullRequestKeys, x) = PullRequestKeys
                 /\ \A flag \in PullRequestKeys :
                        Flags(PullRequestKeys, x)[flag] = get(x, flag, FALSE)
        OBVIOUS
    <2> DEFINE M(x) == Merged(Flags(PullRequestKeys, x), PullRest(x))
    <2> HIDE DEF Flags, PullRest
    <2>4. \A x : /\ \A flag \in PullRequestFlags : M(x)[flag] = get(x, flag, FALSE)
                 /\ M(x)["allowed_merge_methods"]
                        = sorted(get(x, "allowed_merge_methods", <<>>))
                 /\ M(x)["required_approving_review_count"]
                        = get(x, "required_approving_review_count", 0)
        BY <2>2, <2>3 DEF Merged, PullRequestFlags
    <2>5. M(p) = M(q)
        BY <2>1
    <2> HIDE DEF M
    <2>6. SameFlags(PullRequestFlags, p, q)
        BY <2>4, <2>5 DEF SameFlags
    <2>7. /\ sorted(get(p, "allowed_merge_methods", <<>>))
                = sorted(get(q, "allowed_merge_methods", <<>>))
          /\ get(p, "required_approving_review_count", 0)
                = get(q, "required_approving_review_count", 0)
        BY <2>4, <2>5
    <2>8. SameList("allowed_merge_methods", p, q)
        BY <2>7, ListsTyped, SortedTells DEF SameList, ListParameters
    <2> QED BY <1>4, <2>6, <2>7, <2>8 DEF SameParameters
<1>5. CASE a.type = "required_status_checks"
    <2> DEFINE M(x) == Merged(Flags({"do_not_enforce_on_create",
                                     "strict_required_status_checks_policy"}, x), CheckRest(x))
    <2>1. M(p) = M(q)
        BY <1>1, <1>5 DEF normalize_rule
    <2>2. \A x : /\ DOMAIN CheckRest(x) = {"required_status_checks"}
                 /\ CheckRest(x)["required_status_checks"]
                        = sorted(get(x, "required_status_checks", <<>>))
        OBVIOUS
    <2>3. \A names, x : /\ DOMAIN Flags(names, x) = names
                        /\ \A flag \in names : Flags(names, x)[flag] = get(x, flag, FALSE)
        OBVIOUS
    <2> HIDE DEF Flags, CheckRest
    <2>4. \A x : /\ \A flag \in CheckFlags : M(x)[flag] = get(x, flag, FALSE)
                 /\ M(x)["required_status_checks"]
                        = sorted(get(x, "required_status_checks", <<>>))
        BY <2>2, <2>3 DEF Merged, CheckFlags
    <2> HIDE DEF M
    <2>5. SameFlags(CheckFlags, p, q)
        BY <2>1, <2>4 DEF SameFlags
    <2>6. sorted(get(p, "required_status_checks", <<>>))
            = sorted(get(q, "required_status_checks", <<>>))
        BY <2>1, <2>4
    <2>7. SameList("required_status_checks", p, q)
        BY <2>6, ListsTyped, SortedTells DEF SameList, ListParameters
    <2> QED BY <1>5, <2>5, <2>7 DEF SameParameters
<1> QED BY <1>3, <1>4, <1>5 DEF SameParameters

RuleTyped(rule) == DOMAIN rule = {"type", "parameters"} /\ ParametersTyped(rule.parameters)

LEMMA ListsKept ==
    ASSUME NEW name \in ListParameters, NEW value
    PROVE  ~IsDefault(name, value)
BY DEF IsDefault, ListParameters

\* A rule shown without its defaults means the same.
LEMMA ReorderedTells ==
    ASSUME NEW rule, RuleTyped(rule)
    PROVE  /\ RuleTyped(Reordered(rule)) /\ Reordered(rule).type = rule.type
           /\ SameParameters(rule.type, rule.parameters, Reordered(rule).parameters)
<1> DEFINE p == rule.parameters
           q == [name \in {n \in DOMAIN p : ~IsDefault(n, p[n])} |->
                    IF name \in ListParameters THEN Reverse(p[name]) ELSE p[name]]
<1>1. Reordered(rule) = [rule EXCEPT !.parameters = q]
    BY DEF Reordered, RuleTyped
<1>2. /\ DOMAIN Reordered(rule) = {"type", "parameters"}
      /\ Reordered(rule).type = rule.type /\ Reordered(rule).parameters = q
    BY <1>1 DEF RuleTyped
<1>3. /\ DOMAIN q = {n \in DOMAIN p : ~IsDefault(n, p[n])}
      /\ \A name \in DOMAIN q :
            q[name] = IF name \in ListParameters THEN Reverse(p[name]) ELSE p[name]
    OBVIOUS
<1>4. \A name \in DOMAIN p : ParameterTyped(name, p[name])
    BY DEF RuleTyped, ParametersTyped
<1> HIDE DEF p, q
<1>5. ASSUME NEW name \in DOMAIN p, name \in ListParameters
      PROVE  /\ name \in DOMAIN q /\ q[name] = Reverse(p[name])
             /\ IsSeq(q[name]) /\ ToSet(q[name]) = ToSet(p[name])
    <2>1. ~IsDefault(name, p[name])
        BY <1>5, ListsKept
    <2>2. IsSeq(p[name])
        BY <1>4, <1>5 DEF ParameterTyped, IsSeq
    <2> QED BY <1>3, <1>5, <2>1, <2>2, ElementsReversed
<1>6. ParametersTyped(q)
    BY <1>3, <1>4, <1>5 DEF ParametersTyped, ParameterTyped, IsSeq
<1>7. \A name \in ListParameters : SameList(name, p, q)
    <2> TAKE name \in ListParameters
    <2>1. name \in DOMAIN q => name \in DOMAIN p
        BY <1>3
    <2> QED BY <1>5, <2>1 DEF SameList, get
<1>8. get(p, "required_approving_review_count", 0) = get(q, "required_approving_review_count", 0)
    <2> DEFINE n == "required_approving_review_count"
    <2>1. n \notin ListParameters
        BY DEF ListParameters
    <2>2. IsDefault(n, p[n]) <=> p[n] = 0
        BY <2>1 DEF IsDefault
    <2> QED BY <1>3, <2>1, <2>2 DEF get
<1>9. \A n : n \notin ListParameters \cup {"required_approving_review_count"} =>
            get(p, n, FALSE) = get(q, n, FALSE)
    <2> TAKE n
    <2> HAVE n \notin ListParameters \cup {"required_approving_review_count"}
    <2>1. IsDefault(n, p[n]) <=> ~p[n]
        BY DEF IsDefault
    <2>2. n \in DOMAIN p => p[n] \in BOOLEAN
        BY <1>4 DEF ParameterTyped
    <2>3. CASE n \in DOMAIN q
        BY <1>3, <2>3 DEF get
    <2>4. CASE n \notin DOMAIN p
        BY <1>3, <2>4 DEF get
    <2>5. CASE n \in DOMAIN p \ DOMAIN q
        <3>1. p[n] = FALSE
            BY <1>3, <2>1, <2>2, <2>5
        <3> QED BY <2>5, <3>1 DEF get
    <2> QED BY <1>3, <2>3, <2>4, <2>5
<1>10. /\ SameFlags({"update_allows_fetch_and_merge"}, p, q)
       /\ SameFlags(PullRequestFlags, p, q) /\ SameFlags(CheckFlags, p, q)
    BY <1>9 DEF SameFlags, PullRequestFlags, PullRequestKeys, CheckFlags, ListParameters
<1>11. SameParameters(rule.type, p, q)
    BY <1>7, <1>8, <1>10 DEF SameParameters, ListParameters
<1> QED BY <1>2, <1>6, <1>11 DEF RuleTyped, p

\* A ruleset as GitHub shows it means what the one it keeps means.
ShownAs(r, s) ==
    /\ s.enforcement = r.enforcement /\ s.include = r.include /\ s.exclude = r.exclude
    /\ IsSeq(s.bypass_actors) /\ ToSet(s.bypass_actors) = ToSet(r.bypass_actors)
    /\ IsSeq(s.rules)
    /\ \A rule \in ToSet(s.rules) :
          RuleTyped(rule) /\ \E old \in ToSet(r.rules) : old.type = rule.type
    /\ \A old \in ToSet(r.rules) : \E rule \in ToSet(s.rules) :
          rule.type = old.type /\ SameParameters(old.type, old.parameters, rule.parameters)

LEMMA SameParametersSame ==
    ASSUME NEW type, NEW a
    PROVE  SameParameters(type, a, a)
BY DEF SameParameters, SameFlags, SameList

LEMMA SameParametersJoin ==
    ASSUME NEW type, NEW a, NEW b, NEW c,
           SameParameters(type, a, b), SameParameters(type, b, c)
    PROVE  SameParameters(type, a, c)
BY DEF SameParameters, SameFlags, SameList

LEMMA TypedLists ==
    ASSUME NEW r, RulesetTyped(r)
    PROVE  /\ IsSeq(r.bypass_actors) /\ IsSeq(r.include) /\ IsSeq(r.exclude) /\ IsSeq(r.rules)
           /\ \A rule \in ToSet(r.rules) : RuleTyped(rule)
           /\ {"enforcement", "bypass_actors", "include", "exclude", "rules"} \subseteq DOMAIN r
<1>1. \A list \in {"bypass_actors", "include", "exclude", "rules"} :
         list \in DOMAIN r /\ IsSeq(r[list])
    BY DEF RulesetTyped, IsSeq
<1>2. \A rule \in ToSet(r.rules) : RuleTyped(rule)
    BY DEF RulesetTyped, RuleTyped, ToSet
<1> QED BY <1>1, <1>2 DEF RulesetTyped

LEMMA ShownTells ==
    ASSUME NEW r, RulesetTyped(r), NEW form \in Forms
    PROVE  ShownAs(r, Shown(r, form))
<1> DEFINE s == Shown(r, form)
<1>1. /\ IsSeq(r.bypass_actors) /\ IsSeq(r.rules)
      /\ \A rule \in ToSet(r.rules) : RuleTyped(rule)
      /\ {"enforcement", "bypass_actors", "include", "exclude", "rules"} \subseteq DOMAIN r
    BY TypedLists
<1>2. CASE form = "asSent"
    <2>1. s = r
        BY <1>2 DEF Shown
    <2> QED BY <1>1, <2>1, SameParametersSame DEF ShownAs
<1>3. CASE form # "asSent"
    <2> DEFINE list == [i \in DOMAIN r.rules |-> Reordered(r.rules[i])]
    <2>1. s = [r EXCEPT !.bypass_actors = Reverse(r.bypass_actors), !.rules = Reverse(list)]
        BY <1>1, <1>3 DEF Shown
    <2>2. /\ s.enforcement = r.enforcement /\ s.include = r.include /\ s.exclude = r.exclude
          /\ s.bypass_actors = Reverse(r.bypass_actors) /\ s.rules = Reverse(list)
        BY <1>1, <2>1
    <2>3. IsSeq(list) /\ ToSet(list) = {Reordered(rule) : rule \in ToSet(r.rules)}
        <3>1. IsSeq(list)
            BY <1>1, ListMade
        <3>2. ToSet(list) = {Reordered(rule) : rule \in ToSet(r.rules)}
            BY DEF ToSet
        <3> QED BY <3>1, <3>2
    <2> HIDE DEF list, s
    <2>4. /\ IsSeq(s.bypass_actors) /\ ToSet(s.bypass_actors) = ToSet(r.bypass_actors)
          /\ IsSeq(s.rules) /\ ToSet(s.rules) = {Reordered(rule) : rule \in ToSet(r.rules)}
        BY <1>1, <2>2, <2>3, ElementsReversed
    <2>5. \A rule \in ToSet(r.rules) :
              /\ Reordered(rule) \in ToSet(s.rules)
              /\ RuleTyped(Reordered(rule)) /\ Reordered(rule).type = rule.type
              /\ SameParameters(rule.type, rule.parameters, Reordered(rule).parameters)
        BY <1>1, <2>4, ReorderedTells
    <2>6. \A rule \in ToSet(s.rules) :
              RuleTyped(rule) /\ \E old \in ToSet(r.rules) : old.type = rule.type
        BY <2>4, <2>5
    <2>7. ShownAs(r, s)
        BY <2>2, <2>4, <2>5, <2>6 DEF ShownAs
    <2> QED BY <2>7 DEF s
<1> QED BY <1>2, <1>3

\* Lists of rules with the same normal form have the same types under
\* management, each with parameters that mean the same.
LEMMA KeptTells ==
    ASSUME NEW a, NEW b, IsSeq(a), IsSeq(b), NEW managed, NEW type \in managed,
           KeptRules(a, managed) = KeptRules(b, managed),
           \A rule \in ToSet(a) \cup ToSet(b) : RuleTyped(rule)
    PROVE  /\ (\E rule \in ToSet(a) : rule.type = type)
                <=> (\E rule \in ToSet(b) : rule.type = type)
           /\ \A rule \in ToSet(a) : rule.type = type =>
                \E other \in ToSet(b) :
                    /\ other.type = type
                    /\ SameParameters(type, rule.parameters, other.parameters)
<1>1. \A x : (\E rule \in ToSet(a) : rule.type = type /\ x = normalize_rule(rule)) <=>
             (\E rule \in ToSet(b) : rule.type = type /\ x = normalize_rule(rule))
    <2> DEFINE K == KeptRules(a, managed)[type]
    <2>1. ToSet(K) = {normalize_rule(rule) : rule \in {x \in ToSet(a) : x.type = type}}
        BY KeptElements
    <2>2. ToSet(K) = {normalize_rule(rule) : rule \in {x \in ToSet(b) : x.type = type}}
        BY KeptElements
    <2> QED BY <2>1, <2>2
<1>2. ASSUME NEW rule \in ToSet(a), rule.type = type
      PROVE  \E other \in ToSet(b) : /\ other.type = type
                                     /\ SameParameters(type, rule.parameters, other.parameters)
    <2>1. PICK other \in ToSet(b) :
             other.type = type /\ normalize_rule(rule) = normalize_rule(other)
        BY <1>1, <1>2
    <2> QED BY <1>2, <2>1, NormalsTell DEF RuleTyped
<1> QED BY <1>1, <1>2

LEMMA SortedIsSeq ==
    ASSUME NEW s, IsSeq(s)
    PROVE  IsSeq(sorted(s))
<1> DEFINE t == sorted(s)
<1>1. s \in [DOMAIN s -> ToSet(s)]
    BY DEF IsSeq, ToSet
<1>2. t \in [DOMAIN s -> ToSet(s)]
    BY <1>1 DEF sorted
<1>3. DOMAIN s = 1..Len(s) /\ Len(s) \in Nat
    BY DEF IsSeq
<1> HIDE DEF t
<1>4. t \in [1..Len(s) -> ToSet(t)]
    BY <1>2, <1>3 DEF ToSet
<1>5. IsSeq(t)
    BY <1>3, <1>4 DEF IsSeq
<1> QED BY <1>5 DEF t

LEMMA NoParameters == ParametersTyped(Empty)
BY DEF ParametersTyped, Empty

LEMMA RuleMade ==
    ASSUME NEW type, NEW parameters, ParametersTyped(parameters)
    PROVE  RuleTyped(Rule(type, parameters)) /\ Rule(type, parameters).type = type
           /\ Rule(type, parameters).parameters = parameters
BY DEF RuleTyped, Rule

LEMMA FetchTyped ==
    ASSUME NEW x \in BOOLEAN
    PROVE  ParametersTyped([update_allows_fetch_and_merge |-> x])
<1> DEFINE p == [update_allows_fetch_and_merge |-> x]
<1>1. DOMAIN p = {"update_allows_fetch_and_merge"} /\ p["update_allows_fetch_and_merge"] = x
    OBVIOUS
<1> HIDE DEF p
<1>2. ParametersTyped(p)
    BY <1>1 DEF ParametersTyped, ParameterTyped, ListParameters
<1> QED BY <1>2 DEF p

\* What is sent for pull requests and status checks.
LEMMA PullRequestTyped ==
    ASSUME NEW m, load_manifest(m), ManifestTyped(m)
    PROVE  ParametersTyped(PullRequestParameters(ruleset_table(m, "branch"), repository(m)))
<1> DEFINE config == ruleset_table(m, "branch")
           given == get(config, "pull_request", Empty)
           methods == allowed_merge_methods(config, repository(m))
           p == PullRequestParameters(config, repository(m))
<1>1. ParametersTyped(given)
    BY DEF ManifestTyped
<1>2. IsSeq(methods)
    <2> DEFINE list == get(given, "allowed_merge_methods", <<>>)
               Flag(k) == get(repository(m), k, FALSE)
               a == Where(Flag("allow_merge_commit"), "merge")
               b == Where(Flag("allow_squash_merge"), "squash")
               c == Where(Flag("allow_rebase_merge"), "rebase")
    <2>1. methods = IF list = <<>> THEN a \o b \o c ELSE list
        BY DEF allowed_merge_methods, derive_allowed_merge_methods
    <2>2. IsSeq(list)
        BY <1>1, ListsTyped DEF ListParameters
    <2>3. IsSeq(a) /\ IsSeq(b) /\ IsSeq(c)
        BY WhereElements
    <2> HIDE DEF a, b, c, list
    <2>4. IsSeq(a \o b \o c)
        BY <2>3, ElementsJoined
    <2> QED BY <2>1, <2>2, <2>4
<1>3. \A flag \in PullRequestFlags : get(given, flag, FALSE) \in BOOLEAN
    <2> TAKE flag \in PullRequestFlags
    <2>1. flag \notin ListParameters \cup {"required_approving_review_count"}
        BY DEF PullRequestFlags, PullRequestKeys, ListParameters
    <2> QED BY <1>1, <2>1 DEF ParametersTyped, ParameterTyped, get
<1>4. /\ DOMAIN p = PullRequestKeys /\ p["allowed_merge_methods"] = methods
      /\ \A flag \in PullRequestFlags : p[flag] = get(given, flag, FALSE)
    <2>1. p = [allowed_merge_methods |-> methods,
               dismiss_stale_reviews_on_push |->
                  get(given, "dismiss_stale_reviews_on_push", FALSE),
               require_code_owner_review |-> get(given, "require_code_owner_review", FALSE),
               require_last_push_approval |-> get(given, "require_last_push_approval", FALSE),
               required_approving_review_count |->
                  get(given, "required_approving_review_count", 0),
               required_review_thread_resolution |->
                  get(given, "required_review_thread_resolution", FALSE)]
        BY DEF PullRequestParameters
    <2> HIDE DEF p, methods, given
    <2>2. PullRequestFlags = {"dismiss_stale_reviews_on_push", "require_code_owner_review",
                              "require_last_push_approval", "required_review_thread_resolution"}
        BY DEF PullRequestFlags, PullRequestKeys
    <2>3. DOMAIN p = PullRequestKeys /\ p["allowed_merge_methods"] = methods
        BY <2>1 DEF PullRequestKeys
    <2>4. /\ p["dismiss_stale_reviews_on_push"]
                = get(given, "dismiss_stale_reviews_on_push", FALSE)
          /\ p["require_code_owner_review"] = get(given, "require_code_owner_review", FALSE)
        BY <2>1
    <2>5. /\ p["require_last_push_approval"] = get(given, "require_last_push_approval", FALSE)
          /\ p["required_review_thread_resolution"]
                = get(given, "required_review_thread_resolution", FALSE)
        BY <2>1
    <2> QED BY <2>2, <2>3, <2>4, <2>5
<1> HIDE DEF p, methods, given, config
<1>5. ASSUME NEW name \in DOMAIN p
      PROVE  ParameterTyped(name, p[name])
    <2>1. \/ name = "allowed_merge_methods" \/ name = "required_approving_review_count"
          \/ name \in PullRequestFlags
        BY <1>4 DEF PullRequestFlags
    <2>2. name \in PullRequestFlags => name \notin ListParameters
        BY DEF PullRequestFlags, PullRequestKeys, ListParameters
    <2> QED BY <1>2, <1>3, <1>4, <2>1, <2>2 DEF ParameterTyped, ListParameters, IsSeq
<1>6. ParametersTyped(p)
    BY <1>5 DEF ParametersTyped
<1> QED BY <1>6 DEF p, config

LEMMA StatusChecksTyped ==
    ASSUME NEW config, IsSeq(contexts_of(config)),
           \A flag \in CheckFlags : get(checks(config), flag, FALSE) \in BOOLEAN
    PROVE  ParametersTyped(StatusCheckParameters(config))
<1> DEFINE p == StatusCheckParameters(config)
           list == normalize_status_checks(contexts_of(config))
<1>1. IsSeq(list)
    <2> DEFINE contexts == contexts_of(config)
               made == [i \in DOMAIN contexts |->
                            [context |-> contexts[i]["context"],
                             integration_id |-> get(contexts[i], "integration_id", Nil)]]
    <2>1. IsSeq(made) /\ list = sorted(made)
        BY ListMade DEF normalize_status_checks
    <2> HIDE DEF made
    <2> QED BY <2>1, SortedIsSeq
<1>2. /\ DOMAIN p = CheckFlags \cup {"required_status_checks"}
      /\ p["required_status_checks"] = list
      /\ \A flag \in CheckFlags : p[flag] = get(checks(config), flag, FALSE)
    <2>1. p = [do_not_enforce_on_create |->
                    get(checks(config), "do_not_enforce_on_create", FALSE),
               required_status_checks |-> list,
               strict_required_status_checks_policy |->
                    get(checks(config), "strict_required_status_checks_policy", FALSE)]
        BY DEF StatusCheckParameters
    <2> HIDE DEF p, list
    <2> QED BY <2>1 DEF CheckFlags
<1> HIDE DEF p, list
<1>3. \A flag \in CheckFlags : flag \notin ListParameters
    BY DEF CheckFlags, ListParameters
<1>4. ParametersTyped(p)
    BY <1>1, <1>2, <1>3 DEF ParametersTyped, ParameterTyped, ListParameters, IsSeq
<1> QED BY <1>4 DEF p

\* What GitHub keeps of a payload has the types assumed of what is there.
LEMMA PayloadTyped ==
    ASSUME NEW m, NEW t \in {"branch", "tag"}, ManifestShape(m), ManifestTyped(m),
           load_manifest(m), ~RulesetRefused(ruleset_table(m, t), t, repository(m)),
           NEW stored, stored = Merged(PayloadOf(m, t), [source_type |-> "Repository"])
    PROVE  /\ RulesetTyped(stored)
           /\ PayloadOf(m, t).enforcement = stored.enforcement
           /\ PayloadOf(m, t).include = stored.include
           /\ PayloadOf(m, t).exclude = stored.exclude
           /\ PayloadOf(m, t).bypass_actors = stored.bypass_actors
           /\ PayloadOf(m, t).rules = stored.rules
<1> DEFINE config == ruleset_table(m, t)
           p == PayloadOf(m, t)
           bypass == get(config, "bypass", <<>>)
           names == {"enforcement", "include", "exclude", "bypass_actors", "rules"}
<1>1. /\ names \subseteq DOMAIN p
      /\ p["include"] = <<DefaultRefs(t)>> /\ p["exclude"] = <<>>
      /\ p["bypass_actors"] = resolve_bypass_actors(bypass)
      /\ p["rules"] = build_ruleset_payload(config, t, repository(m)).rules
    BY DEF PayloadOf, build_ruleset_payload
<1>2. /\ DOMAIN stored = DOMAIN p \cup {"source_type"}
      /\ \A k \in names : stored[k] = p[k]
    <2> DEFINE s == [source_type |-> "Repository"]
    <2>1. DOMAIN s = {"source_type"} /\ stored = Merged(p, s)
        OBVIOUS
    <2> HIDE DEF s, p
    <2> QED BY <1>1, <2>1 DEF Merged
<1>3. validate_ruleset_table(config, TRUE) \/ validate_ruleset_table(config, FALSE)
    BY DEF load_manifest, ruleset_table
<1>4. \A list \in {bypass, contexts_of(config)} \ {Misfit} : IsSeq(list)
    BY DEF ManifestShape, IsSeq
<1>5. IsSeq(bypass)
    BY <1>3, <1>4 DEF validate_ruleset_table
<1>6. ChecksEnabled(config) => IsSeq(contexts_of(config))
    BY <1>4 DEF RulesetRefused, ContextsRefused
<1>7. IsSeq(resolve_bypass_actors(bypass))
    <2> DEFINE made == [i \in DOMAIN bypass |-> BypassActor(bypass[i])]
    <2>1. IsSeq(made) /\ resolve_bypass_actors(bypass) = sorted(made)
        BY <1>5, ListMade DEF resolve_bypass_actors
    <2> HIDE DEF made
    <2> QED BY <2>1, SortedIsSeq
<1>8. /\ get(config, "update_allows_fetch_and_merge", FALSE) \in BOOLEAN
      /\ \A flag \in CheckFlags : get(checks(config), flag, FALSE) \in BOOLEAN
    BY DEF ManifestTyped, CheckFlags
<1>9. ASSUME NEW rule, IsRuleOf(config, t, repository(m), rule)
      PROVE  RuleTyped(rule)
    <2> DEFINE fetch == [update_allows_fetch_and_merge |->
                            get(config, "update_allows_fetch_and_merge", FALSE)]
               pull == PullRequestParameters(config, repository(m))
               status == StatusCheckParameters(config)
    <2>1. ParametersTyped(fetch) /\ ParametersTyped(Empty)
        BY <1>8, FetchTyped, NoParameters
    <2>2. t = "branch" => ParametersTyped(pull)
        BY PullRequestTyped
    <2>3. ChecksEnabled(config) => ParametersTyped(status)
        BY <1>6, <1>8, StatusChecksTyped
    <2>4. \/ \E type : rule = Rule(type, Empty)
          \/ rule = Rule("update", fetch)
          \/ t = "branch" /\ rule = Rule("pull_request", pull)
          \/ ChecksEnabled(config) /\ rule = Rule("required_status_checks", status)
        BY <1>9 DEF IsRuleOf
    <2> HIDE DEF fetch, pull, status
    <2> QED BY <2>1, <2>2, <2>3, <2>4, RuleMade
<1>10. /\ IsSeq(p["rules"])
       /\ \A rule \in ToSet(p["rules"]) : RuleTyped(rule)
    BY <1>1, <1>9, RulesBuilt
<1>11. IsSeq(p["include"]) /\ IsSeq(p["exclude"])
    BY <1>1, NoElements, OneElement
<1> HIDE DEF p, config
<1>12. \A list \in {"bypass_actors", "include", "exclude", "rules"} :
          list \in DOMAIN stored /\ stored[list] \in Seq(ToSet(stored[list]))
    BY <1>1, <1>2, <1>7, <1>10, <1>11 DEF IsSeq
<1>13. \A i \in DOMAIN stored.rules : RuleTyped(stored.rules[i])
    BY <1>2, <1>10 DEF ToSet
<1> QED BY <1>1, <1>2, <1>12, <1>13 DEF RulesetTyped, RuleTyped, p

\* A ruleset r that has of the types under management those that s has, each
\* with parameters that mean the same, and the rest as s.
SameRules(r, s, type) ==
    /\ Has(r, type) <=> Has(s, type)
    /\ Has(r, type) => SameParameters(type, ParametersOf(r, type), ParametersOf(s, type))

LEMMA SameChecksInForce ==
    ASSUME NEW wanted, NEW r, NEW s, ChecksInForce(wanted, s),
           (~(get(wanted, "enabled", FALSE) /\ get(wanted, "contexts", <<>>) = <<>>)) =>
                SameRules(r, s, "required_status_checks")
    PROVE  ChecksInForce(wanted, r)
<1> DEFINE a == ParametersOf(r, "required_status_checks")
           b == ParametersOf(s, "required_status_checks")
           Named(p) == {<<c.context, c.integration_id>> :
                            c \in ToSet(get(p, "required_status_checks", <<>>))}
<1>1. CASE ~get(wanted, "enabled", FALSE)
    <2>1. ~Has(s, "required_status_checks")
        BY <1>1 DEF ChecksInForce
    <2>2. SameRules(r, s, "required_status_checks")
        BY <1>1
    <2> QED BY <1>1, <2>1, <2>2 DEF SameRules, ChecksInForce
<1>2. CASE get(wanted, "enabled", FALSE) /\ get(wanted, "contexts", <<>>) = <<>>
    BY <1>2 DEF ChecksInForce
<1>3. CASE get(wanted, "enabled", FALSE) /\ get(wanted, "contexts", <<>>) # <<>>
    <2> DEFINE contexts == get(wanted, "contexts", <<>>)
               asked == {<<c["context"], get(c, "integration_id", Nil)>> :
                            c \in ToSet(contexts)}
    <2>1. SameRules(r, s, "required_status_checks")
        BY <1>3
    <2>2. /\ Has(s, "required_status_checks")
          /\ Named(b) = asked
          /\ \A flag \in CheckFlags : get(b, flag, FALSE) = get(wanted, flag, FALSE)
        BY <1>3 DEF ChecksInForce, CheckFlags
    <2>3. /\ Has(r, "required_status_checks")
          /\ SameFlags(CheckFlags, a, b) /\ SameList("required_status_checks", a, b)
        BY <2>1, <2>2 DEF SameRules, SameParameters
    <2>4. ToSet(get(a, "required_status_checks", <<>>))
            = ToSet(get(b, "required_status_checks", <<>>))
        BY <2>3 DEF SameList
    <2>5. \A flag \in CheckFlags : get(a, flag, FALSE) = get(b, flag, FALSE)
        BY <2>3 DEF SameFlags
    <2>6. Named(a) = asked
        BY <2>2, <2>4
    <2>7. \A flag \in CheckFlags : get(a, flag, FALSE) = get(wanted, flag, FALSE)
        BY <2>2, <2>5
    <2>8. /\ get(wanted, "enabled", FALSE) /\ contexts # <<>>
          /\ Has(r, "required_status_checks")
          /\ Named(a) = asked
          /\ \A flag \in {"do_not_enforce_on_create", "strict_required_status_checks_policy"} :
                get(a, flag, FALSE) = get(wanted, flag, FALSE)
        BY <1>3, <2>3, <2>6, <2>7 DEF CheckFlags
    <2> QED BY <2>8 DEF ChecksInForce
<1> QED BY <1>1, <1>2, <1>3

LEMMA SameInForce ==
    ASSUME NEW m, NEW t \in {"branch", "tag"}, NEW r, NEW s, InForce(m, t, s),
           r.enforcement = s.enforcement, ToSet(r.include) = ToSet(s.include),
           r.exclude = s.exclude, ToSet(r.bypass_actors) = ToSet(s.bypass_actors),
           \A type \in rule_types_under_management(ruleset_table(m, t), t) :
                SameRules(r, s, type)
    PROVE  InForce(m, t, r)
<1> DEFINE config == ruleset_table(m, t)
           managed == rule_types_under_management(config, t)
           wanted == get(config, "status_checks", Empty)
<1>1. /\ ChecksEnabled(config) = get(wanted, "enabled", FALSE)
      /\ contexts_of(config) = get(wanted, "contexts", <<>>)
    BY DEF ChecksEnabled, contexts_of, checks
<1>2. \A type \in RuleTypes \ {"pull_request", "required_status_checks"} : type \in managed
    BY DEF rule_types_under_management
<1>3. t = "branch" => "pull_request" \in managed
    BY DEF rule_types_under_management, RuleTypes
<1>4. ~(ChecksEnabled(config) /\ contexts_of(config) = <<>>) =>
            "required_status_checks" \in managed
    BY DEF rule_types_under_management, RuleTypes
<1> HIDE DEF managed
<1>5. /\ Has(s, "update") =>
            get(ParametersOf(s, "update"), "update_allows_fetch_and_merge", FALSE)
              = Wanted(m, t, "update_allows_fetch_and_merge")
      /\ t = "branch" /\ Has(s, "pull_request") => PullRequestsInForce(m, s)
      /\ ChecksInForce(wanted, s)
      /\ s.enforcement = get(config, "enforcement", "active")
      /\ ToSet(s.include) = {IF t = "branch" THEN "~DEFAULT_BRANCH" ELSE "~ALL"}
      /\ s.exclude = <<>>
      /\ {<<a.actor_type, a.actor_id, a.bypass_mode>> : a \in ToSet(s.bypass_actors)}
             = ActorsWanted(config)
    BY DEF InForce
<1>6. \A flag \in DOMAIN RuleOfFlag :
          \/ flag = "require_pull_request" /\ t = "tag"
          \/ Wanted(m, t, flag) <=> Has(s, RuleOfFlag[flag])
    BY DEF InForce
<1>7. \A type \in managed : SameRules(r, s, type)
    BY DEF managed
<1>8. \A flag \in DOMAIN RuleOfFlag :
          \/ flag = "require_pull_request" /\ t = "tag"
          \/ Wanted(m, t, flag) <=> Has(r, RuleOfFlag[flag])
    <2> TAKE flag \in DOMAIN RuleOfFlag
    <2>1. /\ RuleOfFlag[flag] \in RuleTypes \ {"required_status_checks"}
          /\ flag # "require_pull_request" => RuleOfFlag[flag] # "pull_request"
        BY DEF RuleOfFlag, RuleTypes
    <2>2. \/ flag = "require_pull_request" /\ t = "tag"
          \/ RuleOfFlag[flag] \in managed
        BY <1>2, <1>3, <2>1
    <2> QED BY <1>6, <1>7, <2>2 DEF SameRules
<1>9. Has(r, "update") =>
        get(ParametersOf(r, "update"), "update_allows_fetch_and_merge", FALSE)
          = Wanted(m, t, "update_allows_fetch_and_merge")
    <2>1. "update" \in managed
        BY <1>2 DEF RuleTypes
    <2> QED BY <1>5, <1>7, <2>1 DEF SameRules, SameParameters, SameFlags
<1>10. t = "branch" /\ Has(r, "pull_request") => PullRequestsInForce(m, r)
    <2> SUFFICES ASSUME t = "branch", Has(r, "pull_request") PROVE PullRequestsInForce(m, r)
        OBVIOUS
    <2> DEFINE a == ParametersOf(r, "pull_request")
               b == ParametersOf(s, "pull_request")
    <2>1. PullRequestsInForce(m, s) /\ SameParameters("pull_request", a, b)
        BY <1>3, <1>5, <1>7 DEF SameRules
    <2>2. /\ \A flag \in PullRequestFlags : get(a, flag, FALSE) = get(b, flag, FALSE)
          /\ ToSet(get(a, "allowed_merge_methods", <<>>))
                = ToSet(get(b, "allowed_merge_methods", <<>>))
          /\ get(a, "required_approving_review_count", 0)
                = get(b, "required_approving_review_count", 0)
        BY <2>1 DEF SameParameters, SameFlags, SameList
    <2> QED BY <2>1, <2>2 DEF PullRequestsInForce, PullRequestFlags
<1>11. ChecksInForce(wanted, r)
    <2>1. (~(get(wanted, "enabled", FALSE) /\ get(wanted, "contexts", <<>>) = <<>>)) =>
                SameRules(r, s, "required_status_checks")
        BY <1>1, <1>4, <1>7
    <2>2. ChecksInForce(wanted, s)
        BY <1>5
    <2> HIDE DEF wanted
    <2> QED BY <2>1, <2>2, SameChecksInForce
<1> QED BY <1>5, <1>8, <1>9, <1>10, <1>11 DEF InForce

LEMMA OneRulePerType ==
    ASSUME NEW config, NEW t, NEW repo, NEW type \in RuleTypes, NEW a, NEW b,
           IsRuleOf(config, t, repo, a), IsRuleOf(config, t, repo, b),
           a.type = type, b.type = type
    PROVE  a = b
<1> DEFINE fetch == [update_allows_fetch_and_merge |->
                        get(config, "update_allows_fetch_and_merge", FALSE)]
           pull == PullRequestParameters(config, repo)
           status == StatusCheckParameters(config)
           rules == {Rule("creation", Empty), Rule("update", fetch), Rule("deletion", Empty),
                     Rule("required_linear_history", Empty),
                     Rule("required_signatures", Empty), Rule("non_fast_forward", Empty),
                     Rule("pull_request", pull), Rule("required_status_checks", status)}
<1>1. a \in rules /\ b \in rules
    BY DEF IsRuleOf
<1>2. \A kind, parameters : Rule(kind, parameters).type = kind
    BY DEF Rule
<1> HIDE DEF fetch, pull, status
<1>3. \A x, y \in rules : x.type = y.type => x = y
    BY <1>2
<1> HIDE DEF rules
<1> QED BY <1>1, <1>3

\* What the planner compares: a ruleset whose normal form, as GitHub shows it,
\* is that of the payload is in force (normalize_ruleset_payload).
LEMMA NormalMeansInForce ==
    ASSUME NEW m, NEW t \in {"branch", "tag"}, ManifestShape(m), ManifestTyped(m),
           load_manifest(m), ~RulesetRefused(ruleset_table(m, t), t, repository(m)),
           NEW r, RulesetTyped(r), NEW form \in Forms,
           normalize_ruleset_payload(PayloadOf(m, t),
                rule_types_under_management(ruleset_table(m, t), t))
             = normalize_ruleset_payload(Shown(r, form),
                    rule_types_under_management(ruleset_table(m, t), t))
    PROVE  InForce(m, t, r)
<1> DEFINE config == ruleset_table(m, t)
           managed == rule_types_under_management(config, t)
           p == PayloadOf(m, t)
           s == Merged(p, [source_type |-> "Repository"])
           v == Shown(r, form)
<1>1. /\ p.enforcement = v.enforcement /\ sorted(p.bypass_actors) = sorted(v.bypass_actors)
      /\ sorted(p.include) = sorted(v.include) /\ sorted(p.exclude) = sorted(v.exclude)
      /\ KeptRules(p.rules, managed) = KeptRules(v.rules, managed)
    <2>1. \A x : /\ normalize_ruleset_payload(x, managed).enforcement = x.enforcement
                 /\ normalize_ruleset_payload(x, managed).bypass_actors = sorted(x.bypass_actors)
                 /\ normalize_ruleset_payload(x, managed).include = sorted(x.include)
                 /\ normalize_ruleset_payload(x, managed).exclude = sorted(x.exclude)
                 /\ normalize_ruleset_payload(x, managed).rules = KeptRules(x.rules, managed)
        BY DEF normalize_ruleset_payload
    <2> HIDE DEF managed, p, v
    <2>2. normalize_ruleset_payload(p, managed) = normalize_ruleset_payload(v, managed)
        BY DEF managed, p, v
    <2> QED BY <2>1, <2>2
<1>2. /\ RulesetTyped(s) /\ p.enforcement = s.enforcement /\ p.include = s.include
      /\ p.exclude = s.exclude /\ p.bypass_actors = s.bypass_actors /\ p.rules = s.rules
    BY PayloadTyped
<1>3. InForce(m, t, s)
    BY PayloadInForce
<1>4. ShownAs(r, v)
    BY ShownTells
<1>5. /\ IsSeq(s.bypass_actors) /\ IsSeq(s.include) /\ IsSeq(s.exclude) /\ IsSeq(s.rules)
      /\ \A rule \in ToSet(s.rules) : RuleTyped(rule)
    BY <1>2, TypedLists
<1>6. /\ IsSeq(r.bypass_actors) /\ IsSeq(r.include) /\ IsSeq(r.exclude) /\ IsSeq(r.rules)
      /\ \A rule \in ToSet(r.rules) : RuleTyped(rule)
    BY TypedLists
<1>7. s.exclude = <<>> /\ s.rules = build_ruleset_payload(config, t, repository(m)).rules
    BY PayloadKept
<1> HIDE DEF s, v, p
<1>8. /\ r.enforcement = s.enforcement
      /\ sorted(r.include) = sorted(s.include) /\ sorted(r.exclude) = sorted(s.exclude)
    BY <1>1, <1>2, <1>4 DEF ShownAs
<1>12. ToSet(r.include) = ToSet(s.include)
    BY <1>5, <1>6, <1>8, SortedTells
<1>9. r.exclude = s.exclude
    <2>1. DOMAIN r.exclude = DOMAIN s.exclude
        BY <1>5, <1>6, <1>8, SortedTells
    <2>2. DOMAIN r.exclude = {}
        BY <1>7, <2>1
    <2>3. \A list : IsSeq(list) /\ DOMAIN list = {} => list = <<>>
        BY DEF IsSeq
    <2> QED BY <1>6, <1>7, <2>2, <2>3
<1>10. ToSet(r.bypass_actors) = ToSet(s.bypass_actors)
    BY <1>1, <1>2, <1>4, <1>5, SortedTells DEF ShownAs
<1>11. ASSUME NEW type \in managed
       PROVE  SameRules(r, s, type)
    <2>1. /\ KeptRules(v.rules, managed) = KeptRules(s.rules, managed)
          /\ IsSeq(v.rules) /\ \A rule \in ToSet(v.rules) : RuleTyped(rule)
        BY <1>1, <1>2, <1>4 DEF ShownAs
    <2> HIDE DEF managed
    <2>2. /\ (\E rule \in ToSet(v.rules) : rule.type = type)
                <=> (\E rule \in ToSet(s.rules) : rule.type = type)
          /\ \A rule \in ToSet(v.rules) : rule.type = type =>
                \E other \in ToSet(s.rules) :
                    /\ other.type = type
                    /\ SameParameters(type, rule.parameters, other.parameters)
        BY <1>5, <2>1, KeptTells
    <2>3. (\E rule \in ToSet(r.rules) : rule.type = type)
                <=> (\E rule \in ToSet(v.rules) : rule.type = type)
        BY <1>4 DEF ShownAs
    <2>4. \A rule \in ToSet(r.rules) : rule.type = type =>
                \E other \in ToSet(s.rules) :
                    /\ other.type = type
                    /\ SameParameters(type, rule.parameters, other.parameters)
        <3> TAKE rule \in ToSet(r.rules)
        <3> HAVE rule.type = type
        <3>1. PICK shown \in ToSet(v.rules) :
                shown.type = type /\ SameParameters(type, rule.parameters, shown.parameters)
            BY <1>4 DEF ShownAs
        <3>2. PICK other \in ToSet(s.rules) :
                other.type = type /\ SameParameters(type, shown.parameters, other.parameters)
            BY <2>2, <3>1
        <3> QED BY <3>1, <3>2, SameParametersJoin
    <2>5. \A x : Has(x, type) <=> \E rule \in ToSet(x.rules) : rule.type = type
        BY DEF Has, ToSet
    <2>6. \A x : Has(x, type) => \E rule \in ToSet(x.rules) :
                    rule.type = type /\ ParametersOf(x, type) = rule.parameters
        BY DEF Has, ParametersOf, ToSet
    <2>7. \A a, b \in ToSet(s.rules) : a.type = type /\ b.type = type => a = b
        <3>1. type \in RuleTypes
            BY DEF managed, rule_types_under_management
        <3>2. \A rule \in ToSet(s.rules) : IsRuleOf(config, t, repository(m), rule)
            BY <1>7, RulesBuilt
        <3> HIDE DEF config
        <3> QED BY <3>1, <3>2, OneRulePerType
    <2>8. Has(r, type) => SameParameters(type, ParametersOf(r, type), ParametersOf(s, type))
        <3> SUFFICES ASSUME Has(r, type)
                     PROVE  SameParameters(type, ParametersOf(r, type), ParametersOf(s, type))
            OBVIOUS
        <3>1. PICK a \in ToSet(r.rules) : a.type = type /\ ParametersOf(r, type) = a.parameters
            BY <2>6
        <3>2. PICK b \in ToSet(s.rules) :
                b.type = type /\ SameParameters(type, a.parameters, b.parameters)
            BY <2>4, <3>1
        <3>3. PICK c \in ToSet(s.rules) : c.type = type /\ ParametersOf(s, type) = c.parameters
            BY <2>5, <2>6, <3>2
        <3>4. b = c
            BY <2>7, <3>2, <3>3
        <3> QED BY <3>1, <3>2, <3>3, <3>4
    <2> QED BY <2>2, <2>3, <2>5, <2>8 DEF SameRules
<1> QED BY <1>3, <1>8, <1>9, <1>10, <1>11, <1>12, SameInForce

-----------------------------------------------------------------------------
(* Lists that repeat nothing. *)

\* No two entries are the same.
Apart(s) == \A i, j \in DOMAIN s : s[i] = s[j] => i = j

LEMMA OneApart ==
    ASSUME NEW x
    PROVE  Apart(<<x>>) /\ Apart(<<>>)
BY DEF Apart

LEMMA HeadAndRest ==
    ASSUME NEW s, IsSeq(s), s # <<>>
    PROVE  ToSet(s) = {Head(s)} \cup ToSet(Tail(s))
<1>1. /\ Head(s) \in ToSet(s) /\ Head(s) = s[1] /\ IsSeq(Tail(s))
      /\ ToSet(Tail(s)) \subseteq ToSet(s) /\ Len(Tail(s)) = Len(s) - 1
      /\ \A i \in 1..Len(Tail(s)) : Tail(s)[i] = s[i + 1]
    BY ElementsLeft
<1>2. Len(s) \in Nat /\ DOMAIN s = 1..Len(s) /\ DOMAIN Tail(s) = 1..Len(Tail(s))
    BY <1>1 DEF IsSeq
<1>3. ASSUME NEW x \in ToSet(s), x # Head(s)
      PROVE  x \in ToSet(Tail(s))
    <2>1. PICK i \in DOMAIN s : s[i] = x
        BY DEF ToSet
    <2>2. i - 1 \in 1..Len(Tail(s)) /\ Tail(s)[i - 1] = s[(i - 1) + 1] /\ (i - 1) + 1 = i
        BY <1>1, <1>2, <1>3, <2>1
    <2> QED BY <1>2, <2>1, <2>2 DEF ToSet
<1> QED BY <1>1, <1>3

LEMMA ElementsInOrder ==
    ASSUME NEW a, NEW b, IsSeq(a), IsSeq(b)
    PROVE  /\ Len(a) \in Nat /\ Len(b) \in Nat
           /\ DOMAIN a = 1..Len(a) /\ DOMAIN b = 1..Len(b)
           /\ DOMAIN (a \o b) = 1..(Len(a) + Len(b))
           /\ \A i \in 1..Len(a) : (a \o b)[i] = a[i]
           /\ \A i \in 1..(Len(a) + Len(b)) : i > Len(a) => (a \o b)[i] = b[i - Len(a)]
BY DEF IsSeq

LEMMA ApartJoined ==
    ASSUME NEW a, NEW b, IsSeq(a), IsSeq(b), Apart(a), Apart(b),
           \A x \in ToSet(a), y \in ToSet(b) : x # y
    PROVE  Apart(a \o b)
<1> SUFFICES ASSUME NEW i \in DOMAIN (a \o b), NEW j \in DOMAIN (a \o b),
                    (a \o b)[i] = (a \o b)[j]
             PROVE  i = j
    BY DEF Apart
<1>1. \A k \in DOMAIN (a \o b) :
        \/ k \in DOMAIN a /\ (a \o b)[k] = a[k]
        \/ k \notin DOMAIN a /\ k - Len(a) \in DOMAIN b /\ (a \o b)[k] = b[k - Len(a)]
    BY ElementsInOrder
<1>2. \A k \in DOMAIN a : a[k] \in ToSet(a)
    BY DEF ToSet
<1>3. \A k \in DOMAIN b : b[k] \in ToSet(b)
    BY DEF ToSet
<1>4. CASE i \in DOMAIN a /\ j \in DOMAIN a
    BY <1>1, <1>4 DEF Apart
<1>5. CASE i \notin DOMAIN a /\ j \notin DOMAIN a
    <2>1. i - Len(a) = j - Len(a)
        BY <1>1, <1>5 DEF Apart
    <2>2. i \in Int /\ j \in Int /\ Len(a) \in Int
        BY ElementsInOrder
    <2> QED BY <2>1, <2>2
<1>6. ~(i \in DOMAIN a /\ j \notin DOMAIN a) /\ ~(i \notin DOMAIN a /\ j \in DOMAIN a)
    BY <1>1, <1>2, <1>3
<1> QED BY <1>4, <1>5, <1>6

LEMMA ApartLeft ==
    ASSUME NEW s, IsSeq(s), s # <<>>, Apart(s)
    PROVE  Apart(Tail(s)) /\ ToSet(Tail(s)) = ToSet(s) \ {Head(s)}
<1>1. /\ Head(s) = s[1] /\ IsSeq(Tail(s)) /\ Len(Tail(s)) = Len(s) - 1
      /\ \A i \in 1..Len(Tail(s)) : Tail(s)[i] = s[i + 1]
    BY ElementsLeft
<1>2. Len(s) \in Nat /\ DOMAIN s = 1..Len(s) /\ DOMAIN Tail(s) = 1..Len(Tail(s))
    BY <1>1 DEF IsSeq
<1>3. ASSUME NEW i \in DOMAIN Tail(s)
      PROVE  /\ i \in Int /\ 1 \in DOMAIN s /\ i + 1 \in DOMAIN s /\ i + 1 # 1
             /\ Tail(s)[i] = s[i + 1]
    BY <1>1, <1>2
<1>4. Apart(Tail(s))
    <2> SUFFICES ASSUME NEW i \in DOMAIN Tail(s), NEW j \in DOMAIN Tail(s),
                        Tail(s)[i] = Tail(s)[j]
                 PROVE  i = j
        BY DEF Apart
    <2>1. i + 1 = j + 1
        BY <1>3 DEF Apart
    <2> QED BY <1>3, <2>1
<1>5. Head(s) \notin ToSet(Tail(s))
    BY <1>1, <1>3 DEF Apart, ToSet
<1> QED BY <1>4, <1>5, HeadAndRest

-----------------------------------------------------------------------------
(* Lists that repeat nothing. *)

\* A list without repetitions is sorted into the same list whatever its order.
LEMMA ApartCounted ==
    ASSUME NEW s, IsSeq(s), Apart(s)
    PROVE  /\ Len(s) \in Nat /\ DOMAIN s = 1..Len(s) /\ Cardinality(ToSet(s)) = Len(s)
           /\ \A x \in ToSet(s) : Cardinality({i \in DOMAIN s : s[i] = x}) = 1
<1>1. Len(s) \in Nat /\ DOMAIN s = 1..Len(s)
    BY DEF IsSeq
<1>2. IsFiniteSet(DOMAIN s) /\ Cardinality(DOMAIN s) = Len(s)
    <2>1. 1 \in Int /\ Len(s) \in Int
        BY <1>1
    <2>2. /\ IsFiniteSet(1..Len(s))
          /\ Cardinality(1..Len(s)) = IF 1 > Len(s) THEN 0 ELSE Len(s) - 1 + 1
        BY <2>1, FS_Interval
    <2>3. Cardinality(1..Len(s)) = Len(s)
        BY <1>1, <2>2
    <2> QED BY <1>1, <2>2, <2>3
<1>3. s \in [DOMAIN s -> ToSet(s)]
    BY DEF IsSeq, ToSet
<1>4. s \in Surjection(DOMAIN s, ToSet(s))
    BY <1>3 DEF Surjection, ToSet
<1>5. s \in Injection(DOMAIN s, ToSet(s))
    BY <1>3 DEF Injection, IsInjective, Apart
<1>6. Cardinality(ToSet(s)) = Cardinality(DOMAIN s)
    BY <1>2, <1>4, <1>5, FS_Surjection
<1>7. ASSUME NEW x \in ToSet(s)
      PROVE  Cardinality({i \in DOMAIN s : s[i] = x}) = 1
    <2>1. PICK k \in DOMAIN s : s[k] = x
        BY DEF ToSet
    <2>2. {i \in DOMAIN s : s[i] = x} = {k}
        BY <2>1 DEF Apart
    <2> QED BY <2>2, FS_Singleton
<1> QED BY <1>1, <1>2, <1>6, <1>7

LEMMA SortedSame ==
    ASSUME NEW s, NEW u, IsSeq(s), IsSeq(u), Apart(s), Apart(u), ToSet(s) = ToSet(u)
    PROVE  sorted(s) = sorted(u)
<1>1. DOMAIN s = DOMAIN u
    BY ApartCounted
<1>2. \A x \in ToSet(s) : /\ Cardinality({i \in DOMAIN s : s[i] = x}) = 1
                          /\ Cardinality({i \in DOMAIN u : u[i] = x}) = 1
    BY ApartCounted
<1> DEFINE P(v) == {t \in [DOMAIN v -> ToSet(v)] :
                \A x \in ToSet(v) :
                    Cardinality({i \in DOMAIN v : v[i] = x})
                        = Cardinality({i \in DOMAIN t : t[i] = x})}
<1>3. P(s) = P(u)
    BY <1>1, <1>2
<1>4. \A v : sorted(v) = CHOOSE t : t \in P(v)
    BY DEF sorted
<1> HIDE DEF P
<1> QED BY <1>3, <1>4

LEMMA ApartReversed ==
    ASSUME NEW s, IsSeq(s), Apart(s)
    PROVE  Apart(Reverse(s))
<1> DEFINE r == Reverse(s)
<1>1. Len(s) \in Nat /\ DOMAIN s = 1..Len(s)
    BY DEF IsSeq
<1>2. r = [i \in 1..Len(s) |-> s[(Len(s) - i) + 1]]
    BY DEF Reverse
<1> HIDE DEF r
<1>3. \A i \in DOMAIN r : /\ i \in 1..Len(s) /\ (Len(s) - i) + 1 \in DOMAIN s
                          /\ r[i] = s[(Len(s) - i) + 1]
    BY <1>1, <1>2
<1>4. \A i, j \in 1..Len(s) : (Len(s) - i) + 1 = (Len(s) - j) + 1 => i = j
    BY <1>1
<1>5. Apart(r)
    BY <1>3, <1>4 DEF Apart
<1> QED BY <1>5 DEF r

\* A list of rules with one rule of a type, and a table whose lists repeat
\* nothing.
OneEach(rules) == \A i, j \in DOMAIN rules : rules[i].type = rules[j].type => i = j
ListsApart(table) == \A name \in ListParameters : Apart(get(table, name, <<>>))

\* Of one rule of a type, its normal form is kept.
LEMMA KeptAlone ==
    ASSUME NEW rules, IsSeq(rules), OneEach(rules), NEW managed, NEW type \in managed
    PROVE  /\ \A rule \in ToSet(rules) : rule.type = type =>
                KeptRules(rules, managed)[type] = <<normalize_rule(rule)>>
           /\ (\A rule \in ToSet(rules) : rule.type # type) =>
                KeptRules(rules, managed)[type] = <<>>
<1> DEFINE N == Len(rules)
           More(n) == IF rules[n].type = type THEN <<normalize_rule(rules[n])>> ELSE <<>>
           Is(n) == rules[n].type = type
<1>1. N \in Nat /\ DOMAIN rules = 1..N
    BY DEF IsSeq
<1>2. PICK F : KeptRules(rules, managed) = F[N] /\ Counts(F, rules, managed)
    BY <1>1, KeptCounted
<1>3. F[0][type] = <<>> /\ \A n \in 1..N : F[n][type] = F[n - 1][type] \o More(n)
    BY <1>2 DEF Counts
<1>4. \A i, j \in 1..N : Is(i) /\ Is(j) => i = j
    BY <1>1 DEF OneEach
<1>5. \A n : /\ Is(n) => More(n) = <<normalize_rule(rules[n])>>
             /\ ~Is(n) => More(n) = <<>>
    OBVIOUS
<1> HIDE DEF N, More, Is
<1> DEFINE Right(n) == /\ \A i \in 1..n : Is(i) => F[n][type] = <<normalize_rule(rules[i])>>
                       /\ (\A i \in 1..n : ~Is(i)) => F[n][type] = <<>>
           T == {n \in 0..N : Right(n)}
<1>6. Right(0)
    BY <1>3
<1>7. ASSUME NEW n \in 0..(N - 1), Right(n)
      PROVE  Right(n + 1)
    <2>1. /\ n + 1 \in 1..N /\ (n + 1) - 1 = n /\ 1..(n + 1) = (1..n) \cup {n + 1}
          /\ 1..n \subseteq 1..N /\ n + 1 \notin 1..n
        BY <1>1
    <2>2. F[n + 1][type] = F[n][type] \o More(n + 1)
        BY <1>3, <2>1
    <2>3. CASE Is(n + 1)
        <3>1. \A i \in 1..n : ~Is(i)
            BY <1>4, <2>1, <2>3
        <3>2. F[n][type] = <<>>
            BY <1>7, <3>1
        <3>3. F[n + 1][type] = <<normalize_rule(rules[n + 1])>>
            BY <1>5, <2>2, <2>3, <3>2
        <3> QED BY <2>1, <2>3, <3>1, <3>3
    <2>4. CASE ~Is(n + 1)
        <3>1. F[n + 1][type] = F[n][type] \o <<>>
            BY <1>5, <2>2, <2>4
        <3>2. F[n][type] \o <<>> = F[n][type]
            <4>1. CASE \A i \in 1..n : ~Is(i)
                <5>1. F[n][type] = <<>>
                    BY <1>7, <4>1
                <5> QED BY <5>1
            <4>2. ASSUME NEW i \in 1..n, Is(i)
                  PROVE  F[n][type] \o <<>> = F[n][type]
                <5>1. F[n][type] = <<normalize_rule(rules[i])>>
                    BY <1>7, <4>2
                <5> QED BY <5>1
            <4> QED BY <4>1, <4>2
        <3> QED BY <1>7, <2>1, <2>4, <3>1, <3>2
    <2> QED BY <2>3, <2>4
<1>8. Right(N)
    <2> HIDE DEF Right
    <2>1. 0 \in T
        BY <1>1, <1>6
    <2>2. \A n \in 0..(N - 1) : n \in T => n + 1 \in T
        BY <1>1, <1>7
    <2> HIDE DEF T
    <2>3. \A n \in 0..N : n \in T
        BY <1>1, <2>1, <2>2, CountedUp
    <2>4. N \in 0..N
        BY <1>1
    <2> QED BY <2>3, <2>4 DEF T
<1>9. KeptRules(rules, managed)[type] = F[N][type]
    BY <1>2
<1>10. ASSUME NEW rule \in ToSet(rules), rule.type = type
       PROVE  F[N][type] = <<normalize_rule(rule)>>
    <2>1. PICK i \in 1..N : rules[i] = rule
        BY <1>1 DEF ToSet
    <2> QED BY <1>8, <1>10, <2>1 DEF Is
<1>11. (\A rule \in ToSet(rules) : rule.type # type) => F[N][type] = <<>>
    BY <1>1, <1>8 DEF Is, ToSet
<1> HIDE DEF Right
<1> QED BY <1>9, <1>10, <1>11

LEMMA KeptIsTable ==
    ASSUME NEW rules, IsSeq(rules), NEW managed
    PROVE  KeptRules(rules, managed) = [type \in managed |-> KeptRules(rules, managed)[type]]
<1>1. Len(rules) \in Nat /\ Len(rules) \in 0..Len(rules)
    BY DEF IsSeq
<1>2. PICK F : KeptRules(rules, managed) = F[Len(rules)] /\ Counts(F, rules, managed)
    BY <1>1, KeptCounted
<1>3. F[Len(rules)] = [type \in managed |-> F[Len(rules)][type]]
    BY <1>1, <1>2 DEF Counts
<1> QED BY <1>2, <1>3

-----------------------------------------------------------------------------
(* Rules that mean the same have one normal form. *)

\* A list of parameters that mean the same is sorted into the same list.
LEMMA SameListSorted ==
    ASSUME NEW a, NEW b, ParametersTyped(a), ParametersTyped(b), ListsApart(a), ListsApart(b),
           NEW name \in ListParameters, SameList(name, a, b)
    PROVE  sorted(get(a, name, <<>>)) = sorted(get(b, name, <<>>))
<1>1. IsSeq(get(a, name, <<>>)) /\ IsSeq(get(b, name, <<>>))
    BY ListsTyped
<1>2. /\ Apart(get(a, name, <<>>)) /\ Apart(get(b, name, <<>>))
      /\ ToSet(get(a, name, <<>>)) = ToSet(get(b, name, <<>>))
    BY DEF ListsApart, SameList
<1> QED BY <1>1, <1>2, SortedSame

LEMMA NormalsSame ==
    ASSUME NEW a, NEW b, a.type = b.type, ParametersTyped(a.parameters),
           ParametersTyped(b.parameters), ListsApart(a.parameters), ListsApart(b.parameters),
           SameParameters(a.type, a.parameters, b.parameters)
    PROVE  normalize_rule(a) = normalize_rule(b)
<1> DEFINE p == a.parameters
           q == b.parameters
           Flags(names, given) == [n \in names |-> get(given, n, FALSE)]
<1>1. CASE a.type = "update"
    <2>1. /\ normalize_rule(a) = Rule("update", Flags({"update_allows_fetch_and_merge"}, p))
          /\ normalize_rule(b) = Rule("update", Flags({"update_allows_fetch_and_merge"}, q))
        BY <1>1 DEF normalize_rule
    <2>2. Flags({"update_allows_fetch_and_merge"}, p) = Flags({"update_allows_fetch_and_merge"}, q)
        BY <1>1 DEF SameParameters, SameFlags
    <2> HIDE DEF p, q, Flags
    <2> QED BY <2>1, <2>2
<1>2. CASE a.type = "pull_request"
    <2> DEFINE Rest(given) == [allowed_merge_methods |->
                                    sorted(get(given, "allowed_merge_methods", <<>>)),
                               required_approving_review_count |->
                                    get(given, "required_approving_review_count", 0)]
               Of(given) == Merged(Flags(PullRequestKeys, given), Rest(given))
    <2>1. normalize_rule(a) = Rule("pull_request", Of(p)) /\ normalize_rule(b) = Rule("pull_request", Of(q))
        BY <1>2 DEF normalize_rule
    <2>2. /\ sorted(get(p, "allowed_merge_methods", <<>>)) = sorted(get(q, "allowed_merge_methods", <<>>))
          /\ get(p, "required_approving_review_count", 0) = get(q, "required_approving_review_count", 0)
          /\ \A flag \in PullRequestFlags : get(p, flag, FALSE) = get(q, flag, FALSE)
        <3>1. SameList("allowed_merge_methods", p, q) /\ "allowed_merge_methods" \in ListParameters
            BY <1>2 DEF SameParameters, ListParameters
        <3>2. sorted(get(p, "allowed_merge_methods", <<>>)) = sorted(get(q, "allowed_merge_methods", <<>>))
            BY <3>1, SameListSorted
        <3> QED BY <1>2, <3>2 DEF SameParameters, SameFlags
    <2> DEFINE keys == PullRequestKeys \cup {"allowed_merge_methods", "required_approving_review_count"}
    <2>3. \A given : Of(given) = [k \in keys |->
                IF k = "allowed_merge_methods" THEN sorted(get(given, "allowed_merge_methods", <<>>))
                ELSE IF k = "required_approving_review_count"
                     THEN get(given, "required_approving_review_count", 0)
                ELSE get(given, k, FALSE)]
        <3> TAKE given
        <3>1. /\ DOMAIN Rest(given) = {"allowed_merge_methods", "required_approving_review_count"}
              /\ Rest(given)["allowed_merge_methods"]
                    = sorted(get(given, "allowed_merge_methods", <<>>))
              /\ Rest(given)["required_approving_review_count"]
                    = get(given, "required_approving_review_count", 0)
            OBVIOUS
        <3>2. /\ DOMAIN Flags(PullRequestKeys, given) = PullRequestKeys
              /\ \A k \in PullRequestKeys : Flags(PullRequestKeys, given)[k] = get(given, k, FALSE)
            OBVIOUS
        <3> HIDE DEF Rest, Flags
        <3> QED BY <3>1, <3>2 DEF Merged
    <2>4. \A k \in keys : \/ k \in PullRequestFlags \/ k = "allowed_merge_methods"
                          \/ k = "required_approving_review_count"
        BY DEF PullRequestFlags
    <2> HIDE DEF Of, p, q, keys
    <2>5. Of(p) = Of(q)
        BY <2>2, <2>3, <2>4
    <2> QED BY <2>1, <2>5
<1>3. CASE a.type = "required_status_checks"
    <2> DEFINE Rest(given) == [required_status_checks |->
                                    sorted(get(given, "required_status_checks", <<>>))]
               Of(given) == Merged(Flags(CheckFlags, given), Rest(given))
    <2>1. /\ normalize_rule(a) = Rule("required_status_checks", Of(p))
          /\ normalize_rule(b) = Rule("required_status_checks", Of(q))
        BY <1>3 DEF normalize_rule, CheckFlags
    <2>2. /\ sorted(get(p, "required_status_checks", <<>>)) = sorted(get(q, "required_status_checks", <<>>))
          /\ \A flag \in CheckFlags : get(p, flag, FALSE) = get(q, flag, FALSE)
        <3>1. SameList("required_status_checks", p, q) /\ "required_status_checks" \in ListParameters
            BY <1>3 DEF SameParameters, ListParameters
        <3>2. sorted(get(p, "required_status_checks", <<>>)) = sorted(get(q, "required_status_checks", <<>>))
            BY <3>1, SameListSorted
        <3> QED BY <1>3, <3>2 DEF SameParameters, SameFlags
    <2> DEFINE keys == CheckFlags \cup {"required_status_checks"}
    <2>3. \A given : Of(given) = [k \in keys |->
                IF k = "required_status_checks"
                THEN sorted(get(given, "required_status_checks", <<>>))
                ELSE get(given, k, FALSE)]
        <3> TAKE given
        <3>1. /\ DOMAIN Rest(given) = {"required_status_checks"}
              /\ Rest(given)["required_status_checks"]
                    = sorted(get(given, "required_status_checks", <<>>))
            OBVIOUS
        <3>2. /\ DOMAIN Flags(CheckFlags, given) = CheckFlags
              /\ \A k \in CheckFlags : Flags(CheckFlags, given)[k] = get(given, k, FALSE)
            OBVIOUS
        <3> HIDE DEF Rest, Flags
        <3> QED BY <3>1, <3>2 DEF Merged
    <2>4. \A k \in keys : k \in CheckFlags \/ k = "required_status_checks"
        OBVIOUS
    <2> HIDE DEF Of, p, q, keys
    <2>5. Of(p) = Of(q)
        BY <2>2, <2>3, <2>4
    <2> QED BY <2>1, <2>5
<1>4. CASE a.type \notin {"update", "pull_request", "required_status_checks"}
    BY <1>4 DEF normalize_rule
<1> QED BY <1>1, <1>2, <1>3, <1>4

\* Lists of rules with the same types under management, each with parameters
\* that mean the same, have one normal form.
LEMMA SameRulesKept ==
    ASSUME NEW a, NEW b, IsSeq(a), IsSeq(b), OneEach(a), OneEach(b), NEW managed,
           \A rule \in ToSet(a) \cup ToSet(b) : RuleTyped(rule) /\ ListsApart(rule.parameters),
           \A type \in managed :
              /\ (\E x \in ToSet(a) : x.type = type) <=> (\E y \in ToSet(b) : y.type = type)
              /\ \A x \in ToSet(a), y \in ToSet(b) : x.type = type /\ y.type = type =>
                    SameParameters(type, x.parameters, y.parameters)
    PROVE  KeptRules(a, managed) = KeptRules(b, managed)
<1>1. ASSUME NEW type \in managed
      PROVE  KeptRules(a, managed)[type] = KeptRules(b, managed)[type]
    <2>1. CASE \A x \in ToSet(a) : x.type # type
        <3>1. \A y \in ToSet(b) : y.type # type
            BY <2>1
        <3>2. KeptRules(a, managed)[type] = <<>>
            BY <2>1, KeptAlone
        <3>3. KeptRules(b, managed)[type] = <<>>
            BY <3>1, KeptAlone
        <3> QED BY <3>2, <3>3
    <2>2. ASSUME NEW x \in ToSet(a), x.type = type
          PROVE  KeptRules(a, managed)[type] = KeptRules(b, managed)[type]
        <3>1. PICK y \in ToSet(b) : y.type = type
            BY <2>2
        <3>2. /\ ParametersTyped(x.parameters) /\ ListsApart(x.parameters)
              /\ ParametersTyped(y.parameters) /\ ListsApart(y.parameters)
            BY DEF RuleTyped
        <3>3. SameParameters(x.type, x.parameters, y.parameters) /\ x.type = y.type
            BY <2>2, <3>1
        <3>4. normalize_rule(x) = normalize_rule(y)
            BY <3>2, <3>3, NormalsSame
        <3>5. KeptRules(a, managed)[type] = <<normalize_rule(x)>>
            BY <2>2, KeptAlone
        <3>6. KeptRules(b, managed)[type] = <<normalize_rule(y)>>
            BY <3>1, KeptAlone
        <3> QED BY <3>4, <3>5, <3>6
    <2> QED BY <2>1, <2>2
<1>2. /\ KeptRules(a, managed) = [type \in managed |-> KeptRules(a, managed)[type]]
      /\ KeptRules(b, managed) = [type \in managed |-> KeptRules(b, managed)[type]]
    BY KeptIsTable
<1> DEFINE ka == KeptRules(a, managed)
           kb == KeptRules(b, managed)
<1> HIDE DEF ka, kb
<1>3. \A type \in managed : ka[type] = kb[type]
    BY <1>1 DEF ka, kb
<1>4. ka = [type \in managed |-> ka[type]] /\ kb = [type \in managed |-> kb[type]]
    BY <1>2 DEF ka, kb
<1> QED BY <1>3, <1>4 DEF ka, kb

-----------------------------------------------------------------------------
(* Rulesets that repeat nothing. *)

IsActor(a) == a = [actor_type |-> a.actor_type, actor_id |-> a.actor_id,
                   bypass_mode |-> a.bypass_mode]
IsCheck(c) == c = [context |-> c.context, integration_id |-> c.integration_id]
ChecksOf(table) == ToSet(get(table, "required_status_checks", <<>>))

\* No list names anything twice.
NothingTwice(r) ==
    /\ Apart(r.bypass_actors) /\ Apart(r.include)
    /\ \A rule \in ToSet(r.rules) : ListsApart(rule.parameters)

\* A ruleset that repeats nothing, whose actors and checks are such and no more.
Tidy(r) ==
    /\ NothingTwice(r)
    /\ OneEach(r.rules)
    /\ \A actor \in ToSet(r.bypass_actors) : IsActor(actor)
    /\ \A rule \in ToSet(r.rules) : \A check \in ChecksOf(rule.parameters) : IsCheck(check)

LEMMA ReorderedTidy ==
    ASSUME NEW rule, RuleTyped(rule), ListsApart(rule.parameters)
    PROVE  /\ ListsApart(Reordered(rule).parameters)
           /\ ChecksOf(Reordered(rule).parameters) = ChecksOf(rule.parameters)
<1> DEFINE p == rule.parameters
           q == [name \in {n \in DOMAIN p : ~IsDefault(n, p[n])} |->
                    IF name \in ListParameters THEN Reverse(p[name]) ELSE p[name]]
<1>1. DOMAIN rule = {"type", "parameters"} /\ ParametersTyped(p)
    BY DEF RuleTyped
<1>2. Reordered(rule).parameters = q
    BY <1>1 DEF Reordered
<1>3. /\ \A name \in ListParameters : name \in DOMAIN q <=> name \in DOMAIN p
      /\ \A name \in ListParameters \cap DOMAIN p : q[name] = Reverse(p[name])
    BY ListsKept
<1> HIDE DEF q
<1>4. ASSUME NEW name \in ListParameters
      PROVE  /\ Apart(get(q, name, <<>>))
             /\ ToSet(get(q, name, <<>>)) = ToSet(get(p, name, <<>>))
    <2>1. CASE name \notin DOMAIN p
        <3>1. get(q, name, <<>>) = <<>> /\ get(p, name, <<>>) = <<>>
            BY <1>3, <2>1 DEF get
        <3> QED BY <3>1, OneApart
    <2>2. CASE name \in DOMAIN p
        <3>1. get(q, name, <<>>) = Reverse(p[name]) /\ get(p, name, <<>>) = p[name]
            BY <1>3, <2>2 DEF get
        <3>2. IsSeq(p[name])
            BY <1>1, <3>1, ListsTyped
        <3>3. Apart(p[name])
            BY <3>1 DEF ListsApart
        <3> QED BY <3>1, <3>2, <3>3, ApartReversed, ElementsReversed
    <2> QED BY <2>1, <2>2
<1>5. "required_status_checks" \in ListParameters
    BY DEF ListParameters
<1> QED BY <1>2, <1>4, <1>5 DEF ListsApart, ChecksOf

LEMMA ShownTidy ==
    ASSUME NEW r, RulesetTyped(r), {"name", "target"} \subseteq DOMAIN r, Tidy(r),
           NEW form \in Forms
    PROVE  /\ Tidy(Shown(r, form))
           /\ Shown(r, form).name = r.name /\ Shown(r, form).target = r.target
<1> DEFINE s == Shown(r, form)
<1>1. /\ IsSeq(r.bypass_actors) /\ IsSeq(r.rules)
      /\ \A rule \in ToSet(r.rules) : RuleTyped(rule)
      /\ {"enforcement", "bypass_actors", "include", "exclude", "rules"} \subseteq DOMAIN r
    BY TypedLists
<1>2. CASE form = "asSent"
    BY <1>2 DEF Shown
<1>3. CASE form # "asSent"
    <2> DEFINE list == [i \in DOMAIN r.rules |-> Reordered(r.rules[i])]
    <2>1. s = [r EXCEPT !.bypass_actors = Reverse(r.bypass_actors), !.rules = Reverse(list)]
        BY <1>1, <1>3 DEF Shown
    <2>2. /\ s.include = r.include /\ s.name = r.name /\ s.target = r.target
          /\ s.bypass_actors = Reverse(r.bypass_actors) /\ s.rules = Reverse(list)
        BY <1>1, <2>1
    <2>3. IsSeq(list) /\ ToSet(list) = {Reordered(rule) : rule \in ToSet(r.rules)}
        <3>1. IsSeq(list)
            BY <1>1, ListMade
        <3>2. ToSet(list) = {Reordered(rule) : rule \in ToSet(r.rules)}
            BY DEF ToSet
        <3> QED BY <3>1, <3>2
    <2>4. DOMAIN list = DOMAIN r.rules /\ \A i \in DOMAIN r.rules : list[i] = Reordered(r.rules[i])
        OBVIOUS
    <2> HIDE DEF list, s
    <2>5. \A rule \in ToSet(r.rules) :
              /\ Reordered(rule).type = rule.type /\ ListsApart(Reordered(rule).parameters)
              /\ ChecksOf(Reordered(rule).parameters) = ChecksOf(rule.parameters)
        BY <1>1, ReorderedTells, ReorderedTidy DEF Tidy, NothingTwice
    <2>6. ASSUME NEW i \in DOMAIN list, NEW j \in DOMAIN list, list[i].type = list[j].type
          PROVE  i = j
        <3>1. r.rules[i] \in ToSet(r.rules) /\ r.rules[j] \in ToSet(r.rules)
            BY <2>4 DEF ToSet
        <3>2. r.rules[i].type = r.rules[j].type
            BY <2>4, <2>5, <2>6, <3>1
        <3> QED BY <2>4, <3>2 DEF Tidy, OneEach
    <2>7. OneEach(Reverse(list))
        <3>1. Len(list) \in Nat /\ DOMAIN list = 1..Len(list)
            BY <2>3 DEF IsSeq
        <3>2. Reverse(list) = [i \in 1..Len(list) |-> list[(Len(list) - i) + 1]]
            BY DEF Reverse
        <3>3. \A i \in DOMAIN Reverse(list) :
                  /\ i \in 1..Len(list) /\ (Len(list) - i) + 1 \in DOMAIN list
                  /\ Reverse(list)[i] = list[(Len(list) - i) + 1]
            BY <3>1, <3>2
        <3>4. \A i, j \in 1..Len(list) : (Len(list) - i) + 1 = (Len(list) - j) + 1 => i = j
            BY <3>1
        <3> QED BY <2>6, <3>3, <3>4 DEF OneEach
    <2>8. ToSet(s.rules) = {Reordered(rule) : rule \in ToSet(r.rules)}
        BY <2>2, <2>3, ElementsReversed
    <2>9. Apart(s.bypass_actors) /\ ToSet(s.bypass_actors) = ToSet(r.bypass_actors)
        BY <1>1, <2>2, ApartReversed, ElementsReversed DEF Tidy, NothingTwice
    <2>10. NothingTwice(s)
        <3>1. Apart(s.include)
            BY <2>2 DEF Tidy, NothingTwice
        <3> QED BY <2>5, <2>8, <2>9, <3>1 DEF NothingTwice
    <2>11. \A rule \in ToSet(s.rules) : \A check \in ChecksOf(rule.parameters) : IsCheck(check)
        BY <2>5, <2>8 DEF Tidy
    <2>12. Tidy(s)
        BY <2>2, <2>7, <2>9, <2>10, <2>11 DEF Tidy
    <2> QED BY <2>2, <2>12 DEF s
<1> QED BY <1>2, <1>3

-----------------------------------------------------------------------------
(* Payloads repeat nothing that the manifest does not. *)

LEMMA WhereAtMost ==
    ASSUME NEW condition, NEW x
    PROVE  /\ IsSeq(Where(condition, x)) /\ Apart(Where(condition, x))
           /\ ToSet(Where(condition, x)) \subseteq {x}
<1>1. CASE condition
    <2>1. Where(condition, x) = <<x>>
        BY <1>1 DEF Where
    <2> QED BY <2>1, OneApart, OneElement
<1>2. CASE ~condition
    <2>1. Where(condition, x) = <<>>
        BY <1>2 DEF Where
    <2> QED BY <2>1, OneApart, NoElements
<1> QED BY <1>1, <1>2

LEMMA RulesBuiltApart ==
    ASSUME NEW config, NEW t, NEW repo
    PROVE  Apart(build_ruleset_payload(config, t, repo).rules)
<1> DEFINE Wants(flag) == get(config, flag, FALSE)
           creation == Rule("creation", Empty)
           update == Rule("update", [update_allows_fetch_and_merge |->
                                        Wants("update_allows_fetch_and_merge")])
           deletion == Rule("deletion", Empty)
           linear == Rule("required_linear_history", Empty)
           signed == Rule("required_signatures", Empty)
           force == Rule("non_fast_forward", Empty)
           pull == Rule("pull_request", PullRequestParameters(config, repo))
           status == Rule("required_status_checks", StatusCheckParameters(config))
           a == Where(Wants("restrict_creations"), creation)
           b == Where(Wants("restrict_updates"), update)
           c == Where(Wants("restrict_deletions"), deletion)
           d == Where(Wants("require_linear_history"), linear)
           e == Where(Wants("require_signed_commits"), signed)
           f == Where(Wants("block_force_pushes"), force)
           g == Where(t = "branch" /\ Wants("require_pull_request"), pull)
           h == Where(ChecksEnabled(config) /\ contexts_of(config) # <<>>, status)
           rules == build_ruleset_payload(config, t, repo).rules
<1>1. rules = a \o b \o c \o d \o e \o f \o g \o h
    BY DEF build_ruleset_payload
<1>2. \A kind, parameters : Rule(kind, parameters).type = kind
    BY DEF Rule
<1>3. /\ creation.type = "creation" /\ update.type = "update" /\ deletion.type = "deletion"
      /\ linear.type = "required_linear_history" /\ signed.type = "required_signatures"
      /\ force.type = "non_fast_forward" /\ pull.type = "pull_request"
      /\ status.type = "required_status_checks"
    BY <1>2
<1>4. \A condition, x : /\ IsSeq(Where(condition, x)) /\ Apart(Where(condition, x))
                        /\ ToSet(Where(condition, x)) \subseteq {x}
    BY WhereAtMost
<1>5. /\ IsSeq(a) /\ Apart(a) /\ ToSet(a) \subseteq {creation}
      /\ IsSeq(b) /\ Apart(b) /\ ToSet(b) \subseteq {update}
      /\ IsSeq(c) /\ Apart(c) /\ ToSet(c) \subseteq {deletion}
      /\ IsSeq(d) /\ Apart(d) /\ ToSet(d) \subseteq {linear}
    BY <1>4
<1>6. /\ IsSeq(e) /\ Apart(e) /\ ToSet(e) \subseteq {signed}
      /\ IsSeq(f) /\ Apart(f) /\ ToSet(f) \subseteq {force}
      /\ IsSeq(g) /\ Apart(g) /\ ToSet(g) \subseteq {pull}
      /\ IsSeq(h) /\ Apart(h) /\ ToSet(h) \subseteq {status}
    BY <1>4
<1> HIDE DEF creation, update, deletion, linear, signed, force, pull, status, rules,
             a, b, c, d, e, f, g, h
<1> DEFINE ab == a \o b
           abc == ab \o c
           abcd == abc \o d
           abcde == abcd \o e
           abcdef == abcde \o f
           abcdefg == abcdef \o g
<1>7. rules = abcdefg \o h
    BY <1>1
<1>8. IsSeq(ab) /\ Apart(ab) /\ ToSet(ab) \subseteq {creation, update}
    <2>1. \A x \in ToSet(a), y \in ToSet(b) : x # y
        BY <1>3, <1>5
    <2> QED BY <1>5, <2>1, ElementsJoined, ApartJoined
<1> HIDE DEF ab
<1>9. IsSeq(abc) /\ Apart(abc) /\ ToSet(abc) \subseteq {creation, update, deletion}
    <2>1. \A x \in ToSet(ab), y \in ToSet(c) : x # y
        BY <1>3, <1>5, <1>8
    <2> QED BY <1>5, <1>8, <2>1, ElementsJoined, ApartJoined
<1> HIDE DEF abc
<1>10. IsSeq(abcd) /\ Apart(abcd) /\ ToSet(abcd) \subseteq {creation, update, deletion, linear}
    <2>1. \A x \in ToSet(abc), y \in ToSet(d) : x # y
        BY <1>3, <1>5, <1>9
    <2> QED BY <1>5, <1>9, <2>1, ElementsJoined, ApartJoined
<1> HIDE DEF abcd
<1>11. /\ IsSeq(abcde) /\ Apart(abcde)
       /\ ToSet(abcde) \subseteq {creation, update, deletion, linear, signed}
    <2>1. \A x \in ToSet(abcd), y \in ToSet(e) : x # y
        BY <1>3, <1>6, <1>10
    <2> QED BY <1>6, <1>10, <2>1, ElementsJoined, ApartJoined
<1> HIDE DEF abcde
<1>12. /\ IsSeq(abcdef) /\ Apart(abcdef)
       /\ ToSet(abcdef) \subseteq {creation, update, deletion, linear, signed, force}
    <2>1. \A x \in ToSet(abcde), y \in ToSet(f) : x # y
        BY <1>3, <1>6, <1>11
    <2> QED BY <1>6, <1>11, <2>1, ElementsJoined, ApartJoined
<1> HIDE DEF abcdef
<1>13. /\ IsSeq(abcdefg) /\ Apart(abcdefg)
       /\ ToSet(abcdefg) \subseteq {creation, update, deletion, linear, signed, force, pull}
    <2>1. \A x \in ToSet(abcdef), y \in ToSet(g) : x # y
        BY <1>3, <1>6, <1>12
    <2> QED BY <1>6, <1>12, <2>1, ElementsJoined, ApartJoined
<1> HIDE DEF abcdefg
<1>14. Apart(rules)
    <2>1. \A x \in ToSet(abcdefg), y \in ToSet(h) : x # y
        BY <1>3, <1>6, <1>13
    <2> QED BY <1>6, <1>7, <1>13, <2>1, ApartJoined
<1> QED BY <1>14 DEF rules

LEMMA ActorsExact ==
    ASSUME NEW bypass, IsSeq(bypass)
    PROVE  \A actor \in ToSet(resolve_bypass_actors(bypass)) : IsActor(actor)
<1> DEFINE made == [i \in DOMAIN bypass |-> BypassActor(bypass[i])]
           Actor(type, id, mode) == [actor_type |-> type, actor_id |-> id, bypass_mode |-> mode]
<1>1. \A type, id, mode : IsActor(Actor(type, id, mode))
    BY DEF IsActor
<1>2. ASSUME NEW entry
      PROVE  \E type, id, mode : BypassActor(entry) = Actor(type, id, mode)
    <2> DEFINE mode == get(entry, "mode", "always")
    <2>1. CASE entry["type"] = "repository_admin_role"
        <3>1. BypassActor(entry) = Actor("RepositoryRole", ADMIN_REPOSITORY_ROLE_ID, mode)
            BY <2>1 DEF BypassActor
        <3> HIDE DEF Actor, mode
        <3> QED BY <3>1
    <2>2. CASE entry["type"] = "organization_admin"
        <3>1. BypassActor(entry) = Actor("OrganizationAdmin", 1, mode)
            BY <2>2 DEF BypassActor
        <3> HIDE DEF Actor, mode
        <3> QED BY <3>1
    <2>3. CASE entry["type"] = "app"
        <3>1. BypassActor(entry) = Actor("Integration", AppIds[entry["slug"]], mode)
            BY <2>3 DEF BypassActor
        <3> HIDE DEF Actor, mode
        <3> QED BY <3>1
    <2>4. CASE entry["type"] \notin {"repository_admin_role", "organization_admin", "app"}
        <3>1. BypassActor(entry) = Actor("Integration", entry["actor_id"], mode)
            BY <2>4 DEF BypassActor
        <3> HIDE DEF Actor, mode
        <3> QED BY <3>1
    <2> QED BY <2>1, <2>2, <2>3, <2>4
<1> HIDE DEF Actor
<1>3. IsSeq(made) /\ resolve_bypass_actors(bypass) = sorted(made)
    BY ListMade DEF resolve_bypass_actors
<1>4. \A actor \in ToSet(made) : \E entry : actor = BypassActor(entry)
    BY DEF ToSet
<1> HIDE DEF made
<1>5. ToSet(resolve_bypass_actors(bypass)) = ToSet(made)
    BY <1>3, SortedElements
<1>6. ASSUME NEW actor \in ToSet(made)
      PROVE  IsActor(actor)
    <2>1. PICK entry : actor = BypassActor(entry)
        BY <1>4
    <2>2. PICK type, id, mode : actor = Actor(type, id, mode)
        BY <1>2, <2>1
    <2> QED BY <1>1, <2>2
<1> QED BY <1>5, <1>6

LEMMA ChecksExact ==
    ASSUME NEW config, NEW t, NEW repo, NEW rule, IsRuleOf(config, t, repo, rule),
           ChecksEnabled(config) => IsSeq(contexts_of(config))
    PROVE  \A check \in ChecksOf(rule.parameters) : IsCheck(check)
<1> DEFINE contexts == contexts_of(config)
           made == [i \in DOMAIN contexts |->
                        [context        |-> contexts[i]["context"],
                         integration_id |-> get(contexts[i], "integration_id", Nil)]]
           fetch == [update_allows_fetch_and_merge |->
                        get(config, "update_allows_fetch_and_merge", FALSE)]
           pull == PullRequestParameters(config, repo)
           status == StatusCheckParameters(config)
<1>1. \A table : "required_status_checks" \notin DOMAIN table => ChecksOf(table) = {}
    BY NoElements DEF ChecksOf, get
<1>2. /\ "required_status_checks" \notin DOMAIN fetch
      /\ "required_status_checks" \notin DOMAIN pull
      /\ "required_status_checks" \notin DOMAIN Empty
    BY DEF PullRequestParameters, Empty
<1>3. ChecksOf(status) = ToSet(sorted(made))
    <2>1. /\ "required_status_checks" \in DOMAIN status
          /\ status["required_status_checks"] = sorted(made)
        BY DEF StatusCheckParameters, normalize_status_checks
    <2> HIDE DEF status
    <2> QED BY <2>1 DEF ChecksOf, get
<1>4. \A check \in ToSet(made) : IsCheck(check)
    <2>1. \A c, i : IsCheck([context |-> c, integration_id |-> i])
        BY DEF IsCheck
    <2>2. \A check \in ToSet(made) : \E c, i : check = [context |-> c, integration_id |-> i]
        BY DEF ToSet
    <2> HIDE DEF made
    <2> QED BY <2>1, <2>2
<1>5. IsSeq(contexts) => IsSeq(made)
    BY ListMade
<1>6. \/ \E type : rule = Rule(type, Empty)
      \/ rule = Rule("update", fetch)
      \/ rule = Rule("pull_request", pull)
      \/ ChecksEnabled(config) /\ rule = Rule("required_status_checks", status)
    BY DEF IsRuleOf
<1> HIDE DEF fetch, pull, status, made
<1>7. \A type, parameters : Rule(type, parameters).parameters = parameters
    BY DEF Rule
<1>8. rule.parameters \in {Empty, fetch, pull} \/ (ChecksEnabled(config) /\ rule.parameters = status)
    BY <1>6, <1>7
<1>9. CASE rule.parameters \in {Empty, fetch, pull}
    BY <1>1, <1>2, <1>9
<1>10. CASE ChecksEnabled(config) /\ rule.parameters = status
    BY <1>3, <1>4, <1>5, <1>10, SortedElements
<1> QED BY <1>8, <1>9, <1>10

\* What is stored for a payload that names nothing twice repeats nothing.
LEMMA PayloadTidy ==
    ASSUME NEW m, NEW t \in {"branch", "tag"}, ManifestShape(m), ManifestTyped(m),
           load_manifest(m), ~RulesetRefused(ruleset_table(m, t), t, repository(m)),
           NEW stored, stored = Merged(PayloadOf(m, t), [source_type |-> "Repository"]),
           NothingTwice(PayloadOf(m, t))
    PROVE  Tidy(stored)
<1> DEFINE config == ruleset_table(m, t)
           bypass == get(config, "bypass", <<>>)
<1>1. /\ PayloadOf(m, t).include = stored.include
      /\ PayloadOf(m, t).bypass_actors = stored.bypass_actors
      /\ PayloadOf(m, t).rules = stored.rules
    BY PayloadTyped
<1>2. /\ stored.bypass_actors = resolve_bypass_actors(bypass)
      /\ stored.rules = build_ruleset_payload(config, t, repository(m)).rules
    BY PayloadKept
<1>3. validate_ruleset_table(config, TRUE) \/ validate_ruleset_table(config, FALSE)
    BY DEF load_manifest, ruleset_table
<1>4. \A list \in {bypass, contexts_of(config)} \ {Misfit} : IsSeq(list)
    BY DEF ManifestShape, IsSeq
<1>5. IsSeq(bypass)
    BY <1>3, <1>4 DEF validate_ruleset_table
<1>6. ChecksEnabled(config) => IsSeq(contexts_of(config))
    BY <1>4 DEF RulesetRefused, ContextsRefused
<1>7. \A rule \in ToSet(stored.rules) : IsRuleOf(config, t, repository(m), rule)
    BY <1>2, RulesBuilt
<1>8. Apart(stored.rules)
    BY <1>2, RulesBuiltApart
<1> HIDE DEF config, bypass
<1>9. OneEach(stored.rules)
    <2> SUFFICES ASSUME NEW i \in DOMAIN stored.rules, NEW j \in DOMAIN stored.rules,
                        stored.rules[i].type = stored.rules[j].type
                 PROVE  i = j
        BY DEF OneEach
    <2>1. stored.rules[i] \in ToSet(stored.rules) /\ stored.rules[j] \in ToSet(stored.rules)
        BY DEF ToSet
    <2>2. \A kind, parameters : Rule(kind, parameters).type = kind
        BY DEF Rule
    <2>3. stored.rules[i].type \in RuleTypes
        <3>1. \A rule : IsRuleOf(config, t, repository(m), rule) =>
                    \E type \in RuleTypes : \E parameters : rule = Rule(type, parameters)
            BY DEF IsRuleOf, RuleTypes
        <3>2. IsRuleOf(config, t, repository(m), stored.rules[i])
            BY <1>7, <2>1
        <3>3. PICK type \in RuleTypes : \E parameters : stored.rules[i] = Rule(type, parameters)
            BY <3>1, <3>2
        <3> QED BY <2>2, <3>3
    <2>4. stored.rules[i] = stored.rules[j]
        BY <1>7, <2>1, <2>3, OneRulePerType
    <2> QED BY <1>8, <2>4 DEF Apart
<1>10. NothingTwice(stored)
    BY <1>1 DEF NothingTwice
<1>11. \A actor \in ToSet(stored.bypass_actors) : IsActor(actor)
    BY <1>2, <1>5, ActorsExact
<1>12. \A rule \in ToSet(stored.rules) : \A check \in ChecksOf(rule.parameters) : IsCheck(check)
    BY <1>6, <1>7, ChecksExact
<1> QED BY <1>9, <1>10, <1>11, <1>12 DEF Tidy

-----------------------------------------------------------------------------
(* Rulesets in force for one manifest have one normal form. *)

\* Checks that are told apart by context and integration.
LEMMA SameChecks ==
    ASSUME NEW S, NEW T, \A c \in S \cup T : IsCheck(c),
           {<<c.context, c.integration_id>> : c \in S} = {<<c.context, c.integration_id>> : c \in T}
    PROVE  S = T
<1>1. \A c, d \in S \cup T :
         c.context = d.context /\ c.integration_id = d.integration_id => c = d
    BY DEF IsCheck
<1>2. ASSUME NEW c \in S PROVE \E d \in T : d.context = c.context /\ d.integration_id = c.integration_id
    <2>1. <<c.context, c.integration_id>> \in {<<d.context, d.integration_id>> : d \in T}
        OBVIOUS
    <2> QED BY <2>1
<1>3. ASSUME NEW c \in T PROVE \E d \in S : d.context = c.context /\ d.integration_id = c.integration_id
    <2>1. <<c.context, c.integration_id>> \in {<<d.context, d.integration_id>> : d \in S}
        OBVIOUS
    <2> QED BY <2>1
<1> QED BY <1>1, <1>2, <1>3

LEMMA SameActors ==
    ASSUME NEW S, NEW T, \A a \in S \cup T : IsActor(a),
           {<<a.actor_type, a.actor_id, a.bypass_mode>> : a \in S}
                = {<<a.actor_type, a.actor_id, a.bypass_mode>> : a \in T}
    PROVE  S = T
<1>1. \A a, b \in S \cup T :
         a.actor_type = b.actor_type /\ a.actor_id = b.actor_id /\ a.bypass_mode = b.bypass_mode
            => a = b
    BY DEF IsActor
<1>2. ASSUME NEW a \in S
      PROVE  \E b \in T : /\ b.actor_type = a.actor_type /\ b.actor_id = a.actor_id
                          /\ b.bypass_mode = a.bypass_mode
    <2>1. <<a.actor_type, a.actor_id, a.bypass_mode>>
            \in {<<b.actor_type, b.actor_id, b.bypass_mode>> : b \in T}
        OBVIOUS
    <2> QED BY <2>1
<1>3. ASSUME NEW a \in T
      PROVE  \E b \in S : /\ b.actor_type = a.actor_type /\ b.actor_id = a.actor_id
                          /\ b.bypass_mode = a.bypass_mode
    <2>1. <<a.actor_type, a.actor_id, a.bypass_mode>>
            \in {<<b.actor_type, b.actor_id, b.bypass_mode>> : b \in S}
        OBVIOUS
    <2> QED BY <2>1
<1> QED BY <1>1, <1>2, <1>3

\* The rule of a type is the one whose parameters count.
LEMMA RuleOfType ==
    ASSUME NEW r, NEW type
    PROVE  /\ Has(r, type) <=> \E rule \in ToSet(r.rules) : rule.type = type
           /\ Has(r, type) => \E rule \in ToSet(r.rules) :
                    rule.type = type /\ ParametersOf(r, type) = rule.parameters
           /\ OneEach(r.rules) => \A rule \in ToSet(r.rules) :
                    rule.type = type => ParametersOf(r, type) = rule.parameters
<1>1. Has(r, type) <=> \E rule \in ToSet(r.rules) : rule.type = type
    BY DEF Has, ToSet
<1>2. Has(r, type) => \E rule \in ToSet(r.rules) :
                    rule.type = type /\ ParametersOf(r, type) = rule.parameters
    BY DEF Has, ParametersOf, ToSet
<1>3. OneEach(r.rules) => \A a, b \in ToSet(r.rules) : a.type = b.type => a = b
    BY DEF OneEach, ToSet
<1> QED BY <1>1, <1>2, <1>3

LEMMA SameChecksSame ==
    ASSUME NEW wanted, NEW r, NEW s, ChecksInForce(wanted, r), ChecksInForce(wanted, s),
           ~(get(wanted, "enabled", FALSE) /\ get(wanted, "contexts", <<>>) = <<>>),
           Has(r, "required_status_checks") =>
                \A c \in ChecksOf(ParametersOf(r, "required_status_checks")) : IsCheck(c),
           Has(s, "required_status_checks") =>
                \A c \in ChecksOf(ParametersOf(s, "required_status_checks")) : IsCheck(c)
    PROVE  SameRules(r, s, "required_status_checks")
<1> DEFINE a == ParametersOf(r, "required_status_checks")
           b == ParametersOf(s, "required_status_checks")
           contexts == get(wanted, "contexts", <<>>)
           named == {<<c["context"], get(c, "integration_id", Nil)>> : c \in ToSet(contexts)}
<1>1. CASE ~get(wanted, "enabled", FALSE)
    BY <1>1 DEF ChecksInForce, SameRules
<1>2. CASE get(wanted, "enabled", FALSE)
    <2>1. /\ Has(r, "required_status_checks") /\ Has(s, "required_status_checks")
          /\ {<<c.context, c.integration_id>> : c \in ChecksOf(a)} = named
          /\ {<<c.context, c.integration_id>> : c \in ChecksOf(b)} = named
          /\ \A flag \in CheckFlags : get(a, flag, FALSE) = get(wanted, flag, FALSE)
          /\ \A flag \in CheckFlags : get(b, flag, FALSE) = get(wanted, flag, FALSE)
        BY <1>2 DEF ChecksInForce, ChecksOf, CheckFlags
    <2> HIDE DEF named
    <2>2. ChecksOf(a) = ChecksOf(b)
        <3>1. \A c \in ChecksOf(a) \cup ChecksOf(b) : IsCheck(c)
            BY <2>1
        <3> DEFINE S == ChecksOf(a)
                   T == ChecksOf(b)
        <3>2. {<<c.context, c.integration_id>> : c \in S} = {<<c.context, c.integration_id>> : c \in T}
            BY <2>1
        <3> HIDE DEF S, T
        <3>3. \A c \in S \cup T : IsCheck(c)
            BY <3>1 DEF S, T
        <3> QED BY <3>2, <3>3, SameChecks DEF S, T
    <2> HIDE DEF a, b
    <2>3. SameParameters("required_status_checks", a, b)
        BY <2>1, <2>2 DEF SameParameters, SameFlags, SameList, ChecksOf
    <2> QED BY <2>1, <2>3 DEF SameRules, a, b
<1> QED BY <1>1, <1>2

LEMMA InForceSame ==
    ASSUME NEW m, NEW t \in {"branch", "tag"}, NEW r, NEW s, InForce(m, t, r), InForce(m, t, s),
           Tidy(r), Tidy(s),
           NEW type \in rule_types_under_management(ruleset_table(m, t), t)
    PROVE  SameRules(r, s, type)
<1> DEFINE config == ruleset_table(m, t)
           wanted == get(config, "status_checks", Empty)
           a == ParametersOf(r, type)
           b == ParametersOf(s, type)
<1>1. /\ type \in RuleTypes /\ (type = "pull_request" => t = "branch")
      /\ type = "required_status_checks" =>
            ~(get(wanted, "enabled", FALSE) /\ get(wanted, "contexts", <<>>) = <<>>)
    BY DEF rule_types_under_management, ChecksEnabled, contexts_of, checks
<1>2. ASSUME NEW x \in {r, s}
      PROVE  /\ Has(x, "update") =>
                get(ParametersOf(x, "update"), "update_allows_fetch_and_merge", FALSE)
                  = Wanted(m, t, "update_allows_fetch_and_merge")
             /\ t = "branch" /\ Has(x, "pull_request") => PullRequestsInForce(m, x)
             /\ ChecksInForce(wanted, x)
             /\ \A flag \in DOMAIN RuleOfFlag :
                    \/ flag = "require_pull_request" /\ t = "tag"
                    \/ Wanted(m, t, flag) <=> Has(x, RuleOfFlag[flag])
    BY <1>2 DEF InForce
<1>3. CASE type = "required_status_checks"
    <2>1. ASSUME NEW x \in {r, s}, Has(x, "required_status_checks")
          PROVE  \A c \in ChecksOf(ParametersOf(x, "required_status_checks")) : IsCheck(c)
        <3>1. PICK rule \in ToSet(x.rules) :
                ParametersOf(x, "required_status_checks") = rule.parameters
            BY <2>1, RuleOfType
        <3> QED BY <3>1 DEF Tidy
    <2>2. ChecksInForce(wanted, r) /\ ChecksInForce(wanted, s)
        BY <1>2
    <2> HIDE DEF wanted
    <2> QED BY <1>1, <1>3, <2>1, <2>2, SameChecksSame
<1>4. CASE type # "required_status_checks"
    <2>1. PICK flag \in DOMAIN RuleOfFlag :
            RuleOfFlag[flag] = type /\ (flag = "require_pull_request" => type = "pull_request")
        BY <1>1, <1>4 DEF RuleTypes, RuleOfFlag
    <2>2. Has(r, type) <=> Has(s, type)
        BY <1>1, <1>2, <2>1
    <2>3. ASSUME Has(r, type), type = "update"
          PROVE  SameParameters(type, a, b)
        BY <1>2, <2>2, <2>3 DEF SameParameters, SameFlags
    <2>4. ASSUME Has(r, type), type = "pull_request"
          PROVE  SameParameters(type, a, b)
        <3>1. PullRequestsInForce(m, r) /\ PullRequestsInForce(m, s)
            BY <1>1, <1>2, <2>2, <2>4
        <3>2. /\ \A flg \in PullRequestFlags : get(a, flg, FALSE) = get(b, flg, FALSE)
              /\ ToSet(get(a, "allowed_merge_methods", <<>>))
                    = ToSet(get(b, "allowed_merge_methods", <<>>))
              /\ get(a, "required_approving_review_count", 0)
                    = get(b, "required_approving_review_count", 0)
            BY <2>4, <3>1 DEF PullRequestsInForce, PullRequestFlags
        <3> HIDE DEF a, b
        <3> QED BY <2>4, <3>2 DEF SameParameters, SameFlags, SameList
    <2>5. ASSUME type \notin {"update", "pull_request"}
          PROVE  SameParameters(type, a, b)
        BY <1>4, <2>5 DEF SameParameters
    <2> QED BY <2>2, <2>3, <2>4, <2>5 DEF SameRules
<1> QED BY <1>3, <1>4

\* A ruleset in force that repeats nothing is never taken for one that
\* differs: whatever form GitHub shows it in, its normal form is that of the
\* payload (normalize_ruleset_payload).
LEMMA InForceMeansNormal ==
    ASSUME NEW m, NEW t \in {"branch", "tag"}, ManifestShape(m), ManifestTyped(m),
           load_manifest(m), ~RulesetRefused(ruleset_table(m, t), t, repository(m)),
           NothingTwice(PayloadOf(m, t)),
           NEW r, RulesetTyped(r), Tidy(r), {"name", "target"} \subseteq DOMAIN r,
           r.name = RulesetNameOf(m, t), r.target = t, InForce(m, t, r), NEW form \in Forms
    PROVE  normalize_ruleset_payload(PayloadOf(m, t),
                rule_types_under_management(ruleset_table(m, t), t))
             = normalize_ruleset_payload(Shown(r, form),
                    rule_types_under_management(ruleset_table(m, t), t))
<1> DEFINE config == ruleset_table(m, t)
           managed == rule_types_under_management(config, t)
           p == PayloadOf(m, t)
           s == Merged(p, [source_type |-> "Repository"])
           v == Shown(r, form)
<1>1. /\ RulesetTyped(s) /\ p.enforcement = s.enforcement /\ p.include = s.include
      /\ p.exclude = s.exclude /\ p.bypass_actors = s.bypass_actors /\ p.rules = s.rules
    BY PayloadTyped
<1>2. InForce(m, t, s) /\ Tidy(s)
    BY PayloadInForce, PayloadTidy
<1>3. p.name = RulesetNameOf(m, t) /\ p.target = t
    BY DEF PayloadOf, build_ruleset_payload, RulesetNameOf, ruleset_name
<1>4. ShownAs(r, v) /\ Tidy(v) /\ v.name = r.name /\ v.target = r.target
    BY ShownTells, ShownTidy
<1>5. /\ IsSeq(s.bypass_actors) /\ IsSeq(s.include) /\ IsSeq(s.rules)
      /\ \A rule \in ToSet(s.rules) : RuleTyped(rule)
    BY <1>1, TypedLists
<1>6. IsSeq(r.bypass_actors) /\ IsSeq(r.include) /\ IsSeq(r.rules)
    BY TypedLists
<1> HIDE DEF p, s, v
<1>7. sorted(p.bypass_actors) = sorted(v.bypass_actors)
    <2>1. {<<a.actor_type, a.actor_id, a.bypass_mode>> : a \in ToSet(s.bypass_actors)}
            = {<<a.actor_type, a.actor_id, a.bypass_mode>> : a \in ToSet(r.bypass_actors)}
        BY <1>2 DEF InForce
    <2>2. \A a \in ToSet(s.bypass_actors) \cup ToSet(r.bypass_actors) : IsActor(a)
        BY <1>2 DEF Tidy
    <2>3. ToSet(s.bypass_actors) = ToSet(r.bypass_actors)
        BY <2>1, <2>2, SameActors
    <2>4. /\ IsSeq(v.bypass_actors) /\ ToSet(v.bypass_actors) = ToSet(s.bypass_actors)
          /\ Apart(v.bypass_actors) /\ Apart(s.bypass_actors)
        BY <1>2, <1>4, <2>3 DEF ShownAs, Tidy, NothingTwice
    <2> QED BY <1>1, <1>5, <2>4, SortedSame
<1>8. sorted(p.include) = sorted(v.include)
    <2>1. ToSet(s.include) = ToSet(r.include) /\ Apart(s.include) /\ Apart(r.include)
        BY <1>2 DEF InForce, Tidy, NothingTwice
    <2>2. sorted(s.include) = sorted(r.include)
        BY <1>5, <1>6, <2>1, SortedSame
    <2> QED BY <1>1, <1>4, <2>2 DEF ShownAs
<1>9. p.enforcement = v.enforcement /\ p.exclude = v.exclude
    BY <1>1, <1>2, <1>4 DEF InForce, ShownAs
<1>10. ASSUME NEW type \in managed
       PROVE  /\ (\E x \in ToSet(s.rules) : x.type = type)
                    <=> (\E y \in ToSet(v.rules) : y.type = type)
              /\ \A x \in ToSet(s.rules), y \in ToSet(v.rules) :
                    x.type = type /\ y.type = type =>
                        SameParameters(type, x.parameters, y.parameters)
    <2>1. SameRules(s, r, type)
        BY <1>2, InForceSame
    <2>2. (\E x \in ToSet(s.rules) : x.type = type) <=> (\E z \in ToSet(r.rules) : z.type = type)
        BY <2>1, RuleOfType DEF SameRules
    <2>3. (\E z \in ToSet(r.rules) : z.type = type) <=> (\E y \in ToSet(v.rules) : y.type = type)
        BY <1>4 DEF ShownAs
    <2>4. ASSUME NEW x \in ToSet(s.rules), NEW y \in ToSet(v.rules), x.type = type, y.type = type
          PROVE  SameParameters(type, x.parameters, y.parameters)
        <3>1. PICK z \in ToSet(r.rules) : z.type = type
            BY <2>3, <2>4
        <3>2. PICK w \in ToSet(v.rules) :
                w.type = z.type /\ SameParameters(z.type, z.parameters, w.parameters)
            BY <1>4 DEF ShownAs
        <3>3. w = y
            BY <1>4, <2>4, <3>1, <3>2 DEF Tidy, OneEach, ToSet
        <3>4. ParametersOf(s, type) = x.parameters /\ ParametersOf(r, type) = z.parameters
            BY <1>2, <2>4, <3>1, RuleOfType DEF Tidy
        <3>5. Has(s, type)
            BY <2>4, RuleOfType
        <3>6. SameParameters(type, x.parameters, z.parameters)
            BY <2>1, <3>4, <3>5 DEF SameRules
        <3> QED BY <3>1, <3>2, <3>3, <3>6, SameParametersJoin
    <2> QED BY <2>2, <2>3, <2>4
<1>11. KeptRules(p.rules, managed) = KeptRules(v.rules, managed)
    <2>1. /\ IsSeq(v.rules) /\ OneEach(v.rules) /\ OneEach(s.rules)
          /\ \A rule \in ToSet(s.rules) \cup ToSet(v.rules) :
                RuleTyped(rule) /\ ListsApart(rule.parameters)
        BY <1>2, <1>4, <1>5 DEF ShownAs, Tidy, NothingTwice
    <2> HIDE DEF managed
    <2>2. KeptRules(s.rules, managed) = KeptRules(v.rules, managed)
        BY <1>5, <1>10, <2>1, SameRulesKept
    <2> QED BY <1>1, <2>2
<1>12. p.name = v.name /\ p.target = v.target
    BY <1>3, <1>4
<1>13. normalize_ruleset_payload(p, managed) = normalize_ruleset_payload(v, managed)
    <2> HIDE DEF managed
    <2> QED BY <1>7, <1>8, <1>9, <1>11, <1>12 DEF normalize_ruleset_payload
<1> QED BY <1>13 DEF p, v

=============================================================================
