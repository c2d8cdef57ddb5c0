-------------------------- MODULE ReconcilerProofs --------------------------
(***************************************************************************)
(* The safety part of Reconciler: a request the configurator sends puts    *)
(* one part of the repository right and none wrong, however old the reads  *)
(* are that it was planned on.                                             *)
(***************************************************************************)
EXTENDS RepoConfiguratorProofs

-----------------------------------------------------------------------------
(* The payload of a target is in force for the manifest it was built from. *)

\* Sorting keeps the elements.
LEMMA SortedElements ==
    ASSUME NEW s, IsSeq(s)
    PROVE  ToSet(sorted(s)) = ToSet(s) /\ DOMAIN sorted(s) = DOMAIN s
<1> DEFINE Same(t) == \A x \in ToSet(s) :
                        Cardinality({i \in DOMAIN s : s[i] = x})
                            = Cardinality({i \in DOMAIN t : t[i] = x})
           t == sorted(s)
<1>1. s \in [DOMAIN s -> ToSet(s)]
    BY DEF IsSeq, ToSet
<1>2. t \in [DOMAIN s -> ToSet(s)] /\ Same(t)
    BY <1>1 DEF sorted
<1>3. DOMAIN s = 1..Len(s) /\ Len(s) \in Nat
    BY DEF IsSeq
<1>4. IsFiniteSet(DOMAIN s)
    BY <1>3, FS_Interval
<1> HIDE DEF t
<1>5. ASSUME NEW x \in ToSet(s)
      PROVE  x \in ToSet(t)
    <2> DEFINE A == {i \in DOMAIN s : s[i] = x}
               B == {i \in DOMAIN t : t[i] = x}
    <2>1. IsFiniteSet(A) /\ IsFiniteSet(B)
        BY <1>2, <1>4, FS_Subset
    <2>2. A # {}
        BY DEF ToSet
    <2>3. Cardinality(A) = Cardinality(B)
        BY <1>2
    <2> HIDE DEF A, B
    <2>4. B # {}
        BY <2>1, <2>2, <2>3, FS_EmptySet
    <2> QED BY <2>4 DEF B, ToSet
<1>6. ToSet(t) \subseteq ToSet(s) /\ DOMAIN t = DOMAIN s
    BY <1>2 DEF ToSet
<1> QED BY <1>5, <1>6 DEF t

\* A list made element by element from another.
LEMMA ListMade ==
    ASSUME NEW s, NEW f, IsSeq(s), f = [i \in DOMAIN s |-> f[i]]
    PROVE  IsSeq(f)
<1>1. DOMAIN s = 1..Len(s) /\ Len(s) \in Nat
    BY DEF IsSeq
<1>2. DOMAIN f = 1..Len(s)
    BY <1>1
<1>3. f \in [1..Len(s) -> ToSet(f)]
    BY <1>1, <1>2 DEF ToSet
<1> QED BY <1>1, <1>3 DEF IsSeq

\* A rule that may be there.
LEMMA WhereElements ==
    ASSUME NEW c, NEW x
    PROVE  /\ IsSeq(Where(c, x))
           /\ \A y : y \in ToSet(Where(c, x)) <=> c /\ y = x
BY NoElements, OneElement DEF Where

\* The actors a ruleset lets pass are those the manifest names.
LEMMA ActorsInForce ==
    ASSUME NEW config, IsSeq(get(config, "bypass", <<>>)),
           \A i \in DOMAIN get(config, "bypass", <<>>) : ~BypassRefused(config["bypass"][i])
    PROVE  {<<a.actor_type, a.actor_id, a.bypass_mode>> :
              a \in ToSet(resolve_bypass_actors(get(config, "bypass", <<>>)))}
             = ActorsWanted(config)
<1> DEFINE bypass == get(config, "bypass", <<>>)
           actors == [i \in DOMAIN bypass |-> BypassActor(bypass[i])]
           Wished(actor) ==
              LET Is(type) == actor["type"] = type
              IN  <<IF Is("repository_admin_role") THEN "RepositoryRole"
                    ELSE IF Is("organization_admin") THEN "OrganizationAdmin"
                    ELSE "Integration",
                    IF Is("repository_admin_role") THEN ADMIN_REPOSITORY_ROLE_ID
                    ELSE IF Is("organization_admin") THEN 1
                    ELSE IF Is("app") THEN AppIds[actor["slug"]] ELSE actor["actor_id"],
                    get(actor, "mode", "always")>>
           Told(a) == <<a.actor_type, a.actor_id, a.bypass_mode>>
<1>1. ToSet(sorted(actors)) = {BypassActor(actor) : actor \in ToSet(bypass)}
    <2>1. IsSeq(actors)
        BY ListMade
    <2>2. ToSet(actors) = {BypassActor(actor) : actor \in ToSet(bypass)}
        BY DEF ToSet
    <2> QED BY <2>1, <2>2, SortedElements
<1>2. ASSUME NEW actor \in ToSet(bypass)
      PROVE  Told(BypassActor(actor)) = Wished(actor)
    <2>1. PICK i \in DOMAIN bypass : actor = bypass[i]
        BY DEF ToSet
    <2>2. ~BypassRefused(actor)
        BY <2>1 DEF get
    <2>3. actor["type"] \in {"repository_admin_role", "organization_admin", "app",
                              "integration"}
        BY <2>2, NoneAssumption DEF BypassRefused, get
    <2> QED BY <2>3 DEF BypassActor
<1>3. ActorsWanted(config) = {Wished(actor) : actor \in ToSet(bypass)}
    BY DEF ActorsWanted
<1> HIDE DEF actors, Wished, Told
<1>4. {Told(a) : a \in ToSet(sorted(actors))} = {Wished(actor) : actor \in ToSet(bypass)}
    BY <1>1, <1>2
<1> QED BY <1>3, <1>4 DEF resolve_bypass_actors, Told, actors

\* The rules of a payload, told one by one.
IsRuleOf(config, t, repo, rule) ==
    LET Wants(flag) == get(config, flag, FALSE)
    IN  \/ Wants("restrict_creations") /\ rule = Rule("creation", Empty)
        \/ /\ Wants("restrict_updates")
           /\ rule = Rule("update", [update_allows_fetch_and_merge |->
                                        Wants("update_allows_fetch_and_merge")])
        \/ Wants("restrict_deletions") /\ rule = Rule("deletion", Empty)
        \/ Wants("require_linear_history") /\ rule = Rule("required_linear_history", Empty)
        \/ Wants("require_signed_commits") /\ rule = Rule("required_signatures", Empty)
        \/ Wants("block_force_pushes") /\ rule = Rule("non_fast_forward", Empty)
        \/ /\ t = "branch" /\ Wants("require_pull_request")
           /\ rule = Rule("pull_request", PullRequestParameters(config, repo))
        \/ /\ ChecksEnabled(config) /\ contexts_of(config) # <<>>
           /\ rule = Rule("required_status_checks", StatusCheckParameters(config))

LEMMA RulesBuilt ==
    ASSUME NEW config, NEW t, NEW repo
    PROVE  /\ IsSeq(build_ruleset_payload(config, t, repo).rules)
           /\ \A rule : rule \in ToSet(build_ruleset_payload(config, t, repo).rules)
                        <=> IsRuleOf(config, t, repo, rule)
<1> DEFINE Wants(flag) == get(config, flag, FALSE)
           creation == Rule("creation", Empty)
           update == Rule("update", [update_allows_fetch_and_merge |->
                                        Wants("update_allows_fetch_and_merge")])
           deletion == Rule("deletion", Empty)
           linear == Rule("required_linear_history", Empty)
           signed == Rule("required_signatures", Empty)
           force == Rule("non_fast_forward", Empty)
           pull == Rule("pull_request", PullRequestParameters(config, repo))
           status == Rule("required_status_checks", StatusCheckParameters(config))
           a == Where(Wants("restrict_creations"), creation)
           b == Where(Wants("restrict_updates"), update)
           c == Where(Wants("restrict_deletions"), deletion)
           d == Where(Wants("require_linear_history"), linear)
           e == Where(Wants("require_signed_commits"), signed)
           f == Where(Wants("block_force_pushes"), force)
           g == Where(t = "branch" /\ Wants("require_pull_request"), pull)
           h == Where(ChecksEnabled(config) /\ contexts_of(config) # <<>>, status)
           rules == build_ruleset_payload(config, t, repo).rules
<1>1. rules = a \o b \o c \o d \o e \o f \o g \o h
    BY DEF build_ruleset_payload
<1>2. \A rule : IsRuleOf(config, t, repo, rule) <=>
            \/ Wants("restrict_creations") /\ rule = creation
            \/ Wants("restrict_updates") /\ rule = update
            \/ Wants("restrict_deletions") /\ rule = deletion
            \/ Wants("require_linear_history") /\ rule = linear
            \/ Wants("require_signed_commits") /\ rule = signed
            \/ Wants("block_force_pushes") /\ rule = force
            \/ (t = "branch" /\ Wants("require_pull_request")) /\ rule = pull
            \/ (ChecksEnabled(config) /\ contexts_of(config) # <<>>) /\ rule = status
    BY DEF IsRuleOf
<1> HIDE DEF creation, update, deletion, linear, signed, force, pull, status, rules
<1>3. /\ IsSeq(a) /\ \A rule : rule \in ToSet(a) <=> Wants("restrict_creations") /\ rule = creation
      /\ IsSeq(b) /\ \A rule : rule \in ToSet(b) <=> Wants("restrict_updates") /\ rule = update
      /\ IsSeq(c) /\ \A rule : rule \in ToSet(c) <=> Wants("restrict_deletions") /\ rule = deletion
      /\ IsSeq(d) /\ \A rule : rule \in ToSet(d) <=> Wants("require_linear_history") /\ rule = linear
    BY WhereElements
<1>4. /\ IsSeq(e) /\ \A rule : rule \in ToSet(e) <=> Wants("require_signed_commits") /\ rule = signed
      /\ IsSeq(f) /\ \A rule : rule \in ToSet(f) <=> Wants("block_force_pushes") /\ rule = force
      /\ IsSeq(g) /\ \A rule : rule \in ToSet(g) <=>
                        (t = "branch" /\ Wants("require_pull_request")) /\ rule = pull
      /\ IsSeq(h) /\ \A rule : rule \in ToSet(h) <=>
                        (ChecksEnabled(config) /\ contexts_of(config) # <<>>) /\ rule = status
    BY WhereElements
<1> HIDE DEF Wants, a, b, c, d, e, f, g, h
<1>5. /\ IsSeq(a \o b \o c \o d)
      /\ ToSet(a \o b \o c \o d) = ToSet(a) \cup ToSet(b) \cup ToSet(c) \cup ToSet(d)
    BY <1>3, ElementsJoined
<1> DEFINE s == a \o b \o c \o d
<1> HIDE DEF s
<1>6. IsSeq(s \o e \o f) /\ ToSet(s \o e \o f) = ToSet(s) \cup ToSet(e) \cup ToSet(f)
    BY <1>4, <1>5, ElementsJoined DEF s
<1> DEFINE u == s \o e \o f
<1> HIDE DEF u
<1>7. IsSeq(u \o g \o h) /\ ToSet(u \o g \o h) = ToSet(u) \cup ToSet(g) \cup ToSet(h)
    BY <1>4, <1>6, ElementsJoined DEF u
<1>8. IsSeq(rules) /\ ToSet(rules) = ToSet(u) \cup ToSet(g) \cup ToSet(h)
    BY <1>1, <1>7 DEF u, s
<1>9. ToSet(u) = ToSet(a) \cup ToSet(b) \cup ToSet(c) \cup ToSet(d) \cup ToSet(e) \cup ToSet(f)
    BY <1>5, <1>6 DEF u, s
<1>10. \A rule : rule \in ToSet(rules) <=> IsRuleOf(config, t, repo, rule)
    BY <1>2, <1>3, <1>4, <1>8, <1>9
<1> QED BY <1>8, <1>10 DEF rules

\* The rule of each type.
LEMMA RulesByType ==
    ASSUME NEW config, NEW t, NEW repo, NEW rule
    PROVE  LET Wants(flag) == get(config, flag, FALSE)
               Is(type) == IsRuleOf(config, t, repo, rule) /\ rule.type = type
           IN  /\ Is("creation") <=>
                    Wants("restrict_creations") /\ rule = Rule("creation", Empty)
               /\ Is("update") <=>
                    /\ Wants("restrict_updates")
                    /\ rule = Rule("update", [update_allows_fetch_and_merge |->
                                                Wants("update_allows_fetch_and_merge")])
               /\ Is("deletion") <=>
                    Wants("restrict_deletions") /\ rule = Rule("deletion", Empty)
               /\ Is("required_linear_history") <=>
                    /\ Wants("require_linear_history")
                    /\ rule = Rule("required_linear_history", Empty)
               /\ Is("required_signatures") <=>
                    /\ Wants("require_signed_commits")
                    /\ rule = Rule("required_signatures", Empty)
               /\ Is("non_fast_forward") <=>
                    Wants("block_force_pushes") /\ rule = Rule("non_fast_forward", Empty)
               /\ Is("pull_request") <=>
                    /\ t = "branch" /\ Wants("require_pull_request")
                    /\ rule = Rule("pull_request", PullRequestParameters(config, repo))
               /\ Is("required_status_checks") <=>
                    /\ ChecksEnabled(config) /\ contexts_of(config) # <<>>
                    /\ rule = Rule("required_status_checks", StatusCheckParameters(config))
<1> DEFINE Wants(flag) == get(config, flag, FALSE)
           fetch == [update_allows_fetch_and_merge |-> Wants("update_allows_fetch_and_merge")]
           pull == PullRequestParameters(config, repo)
           status == StatusCheckParameters(config)
<1>1. \A type, parameters : Rule(type, parameters).type = type
    BY DEF Rule
<1>2. IsRuleOf(config, t, repo, rule) <=>
        \/ Wants("restrict_creations") /\ rule = Rule("creation", Empty)
        \/ Wants("restrict_updates") /\ rule = Rule("update", fetch)
        \/ Wants("restrict_deletions") /\ rule = Rule("deletion", Empty)
        \/ Wants("require_linear_history") /\ rule = Rule("required_linear_history", Empty)
        \/ Wants("require_signed_commits") /\ rule = Rule("required_signatures", Empty)
        \/ Wants("block_force_pushes") /\ rule = Rule("non_fast_forward", Empty)
        \/ /\ t = "branch" /\ Wants("require_pull_request")
           /\ rule = Rule("pull_request", pull)
        \/ /\ ChecksEnabled(config) /\ contexts_of(config) # <<>>
           /\ rule = Rule("required_status_checks", status)
    BY DEF IsRuleOf
<1> HIDE DEF Wants, fetch, pull, status
<1>3. LET Is(type) == IsRuleOf(config, t, repo, rule) /\ rule.type = type
      IN  /\ Is("creation") <=>
                Wants("restrict_creations") /\ rule = Rule("creation", Empty)
          /\ Is("update") <=> Wants("restrict_updates") /\ rule = Rule("update", fetch)
          /\ Is("deletion") <=>
                Wants("restrict_deletions") /\ rule = Rule("deletion", Empty)
          /\ Is("required_linear_history") <=>
                /\ Wants("require_linear_history")
                /\ rule = Rule("required_linear_history", Empty)
          /\ Is("required_signatures") <=>
                /\ Wants("require_signed_commits")
                /\ rule = Rule("required_signatures", Empty)
          /\ Is("non_fast_forward") <=>
                Wants("block_force_pushes") /\ rule = Rule("non_fast_forward", Empty)
          /\ Is("pull_request") <=>
                /\ t = "branch" /\ Wants("require_pull_request")
                /\ rule = Rule("pull_request", pull)
          /\ Is("required_status_checks") <=>
                /\ ChecksEnabled(config) /\ contexts_of(config) # <<>>
                /\ rule = Rule("required_status_checks", status)
    BY <1>1, <1>2
<1> QED BY <1>3 DEF Wants, fetch, pull, status

\* A ruleset with these rules has the types wanted, each with its parameters.
LEMMA RulesTold ==
    ASSUME NEW config, NEW t, NEW repo, NEW r,
           \A rule : rule \in ToSet(r.rules) <=> IsRuleOf(config, t, repo, rule)
    PROVE  /\ Has(r, "creation") <=> get(config, "restrict_creations", FALSE)
           /\ Has(r, "update") <=> get(config, "restrict_updates", FALSE)
           /\ Has(r, "deletion") <=> get(config, "restrict_deletions", FALSE)
           /\ Has(r, "required_linear_history") <=> get(config, "require_linear_history", FALSE)
           /\ Has(r, "required_signatures") <=> get(config, "require_signed_commits", FALSE)
           /\ Has(r, "non_fast_forward") <=> get(config, "block_force_pushes", FALSE)
           /\ Has(r, "pull_request") <=> t = "branch" /\ get(config, "require_pull_request", FALSE)
           /\ Has(r, "required_status_checks") <=>
                ChecksEnabled(config) /\ contexts_of(config) # <<>>
           /\ Has(r, "update") => ParametersOf(r, "update") =
                [update_allows_fetch_and_merge |->
                    get(config, "update_allows_fetch_and_merge", FALSE)]
           /\ Has(r, "pull_request") =>
                ParametersOf(r, "pull_request") = PullRequestParameters(config, repo)
           /\ Has(r, "required_status_checks") =>
                ParametersOf(r, "required_status_checks") = StatusCheckParameters(config)
<1> DEFINE Wants(flag) == get(config, flag, FALSE)
           OfType(rule, type) == IsRuleOf(config, t, repo, rule) /\ rule.type = type
           fetch == [update_allows_fetch_and_merge |-> Wants("update_allows_fetch_and_merge")]
           pull == PullRequestParameters(config, repo)
           status == StatusCheckParameters(config)
<1>1. ASSUME NEW rule
      PROVE  /\ OfType(rule, "creation") <=>
                    Wants("restrict_creations") /\ rule = Rule("creation", Empty)
             /\ OfType(rule, "update") <=>
                    Wants("restrict_updates") /\ rule = Rule("update", fetch)
             /\ OfType(rule, "deletion") <=>
                    Wants("restrict_deletions") /\ rule = Rule("deletion", Empty)
             /\ OfType(rule, "required_linear_history") <=>
                    /\ Wants("require_linear_history")
                    /\ rule = Rule("required_linear_history", Empty)
             /\ OfType(rule, "required_signatures") <=>
                    /\ Wants("require_signed_commits")
                    /\ rule = Rule("required_signatures", Empty)
             /\ OfType(rule, "non_fast_forward") <=>
                    Wants("block_force_pushes") /\ rule = Rule("non_fast_forward", Empty)
             /\ OfType(rule, "pull_request") <=>
                    /\ t = "branch" /\ Wants("require_pull_request")
                    /\ rule = Rule("pull_request", pull)
             /\ OfType(rule, "required_status_checks") <=>
                    /\ ChecksEnabled(config) /\ contexts_of(config) # <<>>
                    /\ rule = Rule("required_status_checks", status)
    BY RulesByType
<1>2. \A type, parameters : Rule(type, parameters).parameters = parameters
    BY DEF Rule
<1>3. \A type : Has(r, type) <=> \E rule : OfType(rule, type)
    BY DEF Has, ToSet
<1>4. \A type : Has(r, type) =>
          \E rule : OfType(rule, type) /\ ParametersOf(r, type) = rule.parameters
    BY DEF Has, ParametersOf, ToSet
<1> HIDE DEF Wants, OfType, fetch, pull, status
<1>5. /\ Has(r, "creation") <=> Wants("restrict_creations")
      /\ Has(r, "update") <=> Wants("restrict_updates")
      /\ Has(r, "deletion") <=> Wants("restrict_deletions")
      /\ Has(r, "required_linear_history") <=> Wants("require_linear_history")
      /\ Has(r, "required_signatures") <=> Wants("require_signed_commits")
      /\ Has(r, "non_fast_forward") <=> Wants("block_force_pushes")
      /\ Has(r, "pull_request") <=> t = "branch" /\ Wants("require_pull_request")
      /\ Has(r, "required_status_checks") <=>
            ChecksEnabled(config) /\ contexts_of(config) # <<>>
    BY <1>1, <1>3
<1>6. /\ Has(r, "update") => ParametersOf(r, "update") = fetch
      /\ Has(r, "pull_request") => ParametersOf(r, "pull_request") = pull
      /\ Has(r, "required_status_checks") =>
            ParametersOf(r, "required_status_checks") = status
    BY <1>1, <1>2, <1>4
<1> QED BY <1>5, <1>6 DEF Wants, fetch, pull, status

\* The methods allowed are those listed, or those the repository allows.
LEMMA MethodsInForce ==
    ASSUME NEW m, ManifestShape(m), load_manifest(m)
    PROVE  ToSet(allowed_merge_methods(ruleset_table(m, "branch"), repository(m)))
             = MethodsWanted(m)
<1> DEFINE given == get(get(ruleset_table(m, "branch"), "pull_request", Empty),
                        "allowed_merge_methods", <<>>)
           Flag(k) == get(repository(m), k, FALSE)
           a == Where(Flag("allow_merge_commit"), "merge")
           b == Where(Flag("allow_squash_merge"), "squash")
           c == Where(Flag("allow_rebase_merge"), "rebase")
<1>1. given = <<>> <=> ToSet(given) = {}
    BY NoElements DEF ManifestShape, ToSet
<1>2. allowed_merge_methods(ruleset_table(m, "branch"), repository(m))
        = IF given = <<>> THEN a \o b \o c ELSE given
    BY DEF allowed_merge_methods, derive_allowed_merge_methods
<1>3. /\ IsSeq(a) /\ \A x : x \in ToSet(a) <=> Flag("allow_merge_commit") /\ x = "merge"
      /\ IsSeq(b) /\ \A x : x \in ToSet(b) <=> Flag("allow_squash_merge") /\ x = "squash"
      /\ IsSeq(c) /\ \A x : x \in ToSet(c) <=> Flag("allow_rebase_merge") /\ x = "rebase"
    BY WhereElements
<1>4. MethodsWanted(m) =
        IF ToSet(given) # {} THEN ToSet(given)
        ELSE {method \in {"merge", "squash", "rebase"} : Flag(MergeMethodFlags[method])}
    BY DEF MethodsWanted, MergeMethodFlags
<1>5. /\ MergeMethodFlags["merge"] = "allow_merge_commit"
      /\ MergeMethodFlags["squash"] = "allow_squash_merge"
      /\ MergeMethodFlags["rebase"] = "allow_rebase_merge"
    BY DEF MergeMethodFlags
<1> HIDE DEF given, Flag, a, b, c
<1>6. ToSet(a \o b \o c) = ToSet(a) \cup ToSet(b) \cup ToSet(c)
    BY <1>3, ElementsJoined
<1>7. ToSet(a \o b \o c)
        = {method \in {"merge", "squash", "rebase"} : Flag(MergeMethodFlags[method])}
    BY <1>3, <1>5, <1>6
<1>8. CASE given = <<>>
    BY <1>1, <1>2, <1>4, <1>7, <1>8
<1>9. CASE given # <<>>
    BY <1>1, <1>2, <1>4, <1>9
<1> QED BY <1>8, <1>9

LEMMA PullRequestInForce ==
    ASSUME NEW m, ManifestShape(m), load_manifest(m), NEW r,
           ParametersOf(r, "pull_request") =
              PullRequestParameters(ruleset_table(m, "branch"), repository(m))
    PROVE  PullRequestsInForce(m, r)
<1> DEFINE shown == ParametersOf(r, "pull_request")
           methods == allowed_merge_methods(ruleset_table(m, "branch"), repository(m))
           wanted == get(ruleset_table(m, "branch"), "pull_request", Empty)
<1>1. /\ DOMAIN shown = PullRequestKeys
      /\ shown["allowed_merge_methods"] = methods
      /\ shown["required_approving_review_count"]
            = get(wanted, "required_approving_review_count", 0)
      /\ \A flag \in PullRequestKeys
                \ {"allowed_merge_methods", "required_approving_review_count"} :
            shown[flag] = get(wanted, flag, FALSE)
    <2>1. shown = [allowed_merge_methods |-> methods,
                   dismiss_stale_reviews_on_push |->
                      get(wanted, "dismiss_stale_reviews_on_push", FALSE),
                   require_code_owner_review |-> get(wanted, "require_code_owner_review", FALSE),
                   require_last_push_approval |->
                      get(wanted, "require_last_push_approval", FALSE),
                   required_approving_review_count |->
                      get(wanted, "required_approving_review_count", 0),
                   required_review_thread_resolution |->
                      get(wanted, "required_review_thread_resolution", FALSE)]
        BY DEF PullRequestParameters
    <2> HIDE DEF shown, methods, wanted
    <2>2. PullRequestKeys \ {"allowed_merge_methods", "required_approving_review_count"} =
            {"dismiss_stale_reviews_on_push", "require_code_owner_review",
             "require_last_push_approval", "required_review_thread_resolution"}
        BY DEF PullRequestKeys
    <2>3. DOMAIN shown = PullRequestKeys
        BY <2>1 DEF PullRequestKeys
    <2>4. shown["allowed_merge_methods"] = methods
        BY <2>1
    <2>5. shown["required_approving_review_count"]
            = get(wanted, "required_approving_review_count", 0)
        BY <2>1
    <2>6. /\ shown["dismiss_stale_reviews_on_push"]
                = get(wanted, "dismiss_stale_reviews_on_push", FALSE)
          /\ shown["require_code_owner_review"] = get(wanted, "require_code_owner_review", FALSE)
        BY <2>1
    <2>7. /\ shown["require_last_push_approval"]
                = get(wanted, "require_last_push_approval", FALSE)
          /\ shown["required_review_thread_resolution"]
                = get(wanted, "required_review_thread_resolution", FALSE)
        BY <2>1
    <2> QED BY <2>2, <2>3, <2>4, <2>5, <2>6, <2>7
<1>2. ToSet(methods) = MethodsWanted(m)
    BY MethodsInForce
<1>3. {"allowed_merge_methods", "required_approving_review_count"} \subseteq PullRequestKeys
    BY DEF PullRequestKeys
<1> HIDE DEF methods, shown, wanted
<1>4. /\ get(shown, "allowed_merge_methods", <<>>) = methods
      /\ get(shown, "required_approving_review_count", 0)
            = get(wanted, "required_approving_review_count", 0)
      /\ \A flag \in PullRequestKeys
                \ {"allowed_merge_methods", "required_approving_review_count"} :
            get(shown, flag, FALSE) = get(wanted, flag, FALSE)
    <2>1. \A default : \A key \in PullRequestKeys : get(shown, key, default) = shown[key]
        BY <1>1 DEF get
    <2> QED BY <1>1, <1>3, <2>1
<1> QED BY <1>2, <1>4 DEF PullRequestsInForce, shown, wanted

\* The contexts of the status checks are those the manifest names.
LEMMA ContextsInForce ==
    ASSUME NEW contexts, IsSeq(contexts)
    PROVE  {<<c.context, c.integration_id>> : c \in ToSet(normalize_status_checks(contexts))}
             = {<<c["context"], get(c, "integration_id", Nil)>> : c \in ToSet(contexts)}
<1> DEFINE Normal(c) == [context |-> c["context"],
                         integration_id |-> get(c, "integration_id", Nil)]
           list == [i \in DOMAIN contexts |-> Normal(contexts[i])]
<1>1. IsSeq(list)
    BY ListMade
<1>2. ToSet(list) = {Normal(c) : c \in ToSet(contexts)}
    BY DEF ToSet
<1>3. normalize_status_checks(contexts) = sorted(list)
    BY DEF normalize_status_checks
<1> HIDE DEF list
<1>4. ToSet(normalize_status_checks(contexts)) = {Normal(c) : c \in ToSet(contexts)}
    BY <1>1, <1>2, <1>3, SortedElements
<1>5. \A c : /\ Normal(c).context = c["context"]
             /\ Normal(c).integration_id = get(c, "integration_id", Nil)
    OBVIOUS
<1> HIDE DEF Normal
<1> QED BY <1>4, <1>5

LEMMA StatusChecksInForce ==
    ASSUME NEW config, NEW r,
           ChecksEnabled(config) => IsSeq(contexts_of(config)),
           Has(r, "required_status_checks") <=>
                ChecksEnabled(config) /\ contexts_of(config) # <<>>,
           Has(r, "required_status_checks") =>
                ParametersOf(r, "required_status_checks") = StatusCheckParameters(config)
    PROVE  ChecksInForce(get(config, "status_checks", Empty), r)
<1> DEFINE wanted == get(config, "status_checks", Empty)
           shown == ParametersOf(r, "required_status_checks")
           contexts == get(wanted, "contexts", <<>>)
           flags == {"do_not_enforce_on_create", "strict_required_status_checks_policy"}
<1>1. /\ ChecksEnabled(config) = get(wanted, "enabled", FALSE)
      /\ contexts_of(config) = contexts
    BY DEF ChecksEnabled, contexts_of, checks
<1>2. ASSUME ChecksEnabled(config), contexts # <<>>
      PROVE  /\ get(shown, "required_status_checks", <<>>) = normalize_status_checks(contexts)
             /\ \A flag \in flags : get(shown, flag, FALSE) = get(wanted, flag, FALSE)
    <2>1. shown = StatusCheckParameters(config)
        BY <1>1, <1>2
    <2>2. /\ DOMAIN shown = flags \cup {"required_status_checks"}
          /\ shown["required_status_checks"] = normalize_status_checks(contexts)
          /\ \A flag \in flags : shown[flag] = get(wanted, flag, FALSE)
        <3>1. shown =
                [do_not_enforce_on_create |-> get(wanted, "do_not_enforce_on_create", FALSE),
                 required_status_checks |-> normalize_status_checks(contexts),
                 strict_required_status_checks_policy |->
                    get(wanted, "strict_required_status_checks_policy", FALSE)]
            BY <1>1, <2>1 DEF StatusCheckParameters, checks
        <3> HIDE DEF shown, contexts, wanted
        <3> QED BY <3>1
    <2> HIDE DEF shown, contexts, wanted
    <2> QED BY <2>2 DEF get
<1>3. ASSUME ChecksEnabled(config), contexts # <<>>
      PROVE  {<<c.context, c.integration_id>> :
                c \in ToSet(get(shown, "required_status_checks", <<>>))}
               = {<<c["context"], get(c, "integration_id", Nil)>> : c \in ToSet(contexts)}
    BY <1>1, <1>2, <1>3, ContextsInForce
<1> QED BY <1>1, <1>2, <1>3 DEF ChecksInForce

\* GitHub keeps a payload as it was sent.
LEMMA PayloadKept ==
    ASSUME NEW m, NEW t, NEW stored,
           stored = Merged(PayloadOf(m, t), [source_type |-> "Repository"])
    PROVE  LET config == ruleset_table(m, t)
           IN  /\ stored.enforcement = get(config, "enforcement", "active")
               /\ stored.include = <<DefaultRefs(t)>> /\ stored.exclude = <<>>
               /\ stored.bypass_actors = resolve_bypass_actors(get(config, "bypass", <<>>))
               /\ stored.rules = build_ruleset_payload(config, t, repository(m)).rules
<1> DEFINE p == PayloadOf(m, t)
           s == [source_type |-> "Repository"]
           config == ruleset_table(m, t)
<1>1. /\ {"enforcement", "include", "exclude", "bypass_actors", "rules"} \subseteq DOMAIN p
      /\ p["enforcement"] = get(config, "enforcement", "active")
      /\ p["include"] = <<DefaultRefs(t)>> /\ p["exclude"] = <<>>
      /\ p["bypass_actors"] = resolve_bypass_actors(get(config, "bypass", <<>>))
      /\ p["rules"] = build_ruleset_payload(config, t, repository(m)).rules
    BY DEF PayloadOf, build_ruleset_payload
<1>2. DOMAIN s = {"source_type"}
    OBVIOUS
<1>3. stored = Merged(p, s)
    OBVIOUS
<1> HIDE DEF p, s, config
<1>4. \A k \in {"enforcement", "include", "exclude", "bypass_actors", "rules"} :
         stored[k] = p[k]
    BY <1>1, <1>2, <1>3 DEF Merged
<1> QED BY <1>1, <1>4 DEF config

\* What is sent for a target is what the manifest asks for
\* (build_ruleset_payload).
LEMMA PayloadInForce ==
    ASSUME NEW m, NEW t \in {"branch", "tag"}, ManifestShape(m), load_manifest(m),
           ~RulesetRefused(ruleset_table(m, t), t, repository(m)), NEW stored,
           stored = Merged(PayloadOf(m, t), [source_type |-> "Repository"])
    PROVE  InForce(m, t, stored)
<1> DEFINE config == ruleset_table(m, t)
           bypass == get(config, "bypass", <<>>)
<1>1. /\ stored.enforcement = get(config, "enforcement", "active")
      /\ stored.include = <<DefaultRefs(t)>> /\ stored.exclude = <<>>
      /\ stored.bypass_actors = resolve_bypass_actors(bypass)
      /\ stored.rules = build_ruleset_payload(config, t, repository(m)).rules
    BY PayloadKept
<1>2. validate_ruleset_table(config, TRUE) \/ validate_ruleset_table(config, FALSE)
    BY DEF load_manifest, ruleset_table
<1>3. \A list \in {bypass, contexts_of(config)} \ {Misfit} : IsSeq(list)
    BY DEF ManifestShape, IsSeq
<1>4. IsSeq(bypass)
    BY <1>2, <1>3 DEF validate_ruleset_table
<1>5. ChecksEnabled(config) => IsSeq(contexts_of(config))
    BY <1>3 DEF RulesetRefused, ContextsRefused
<1>6. {<<a.actor_type, a.actor_id, a.bypass_mode>> : a \in ToSet(stored.bypass_actors)}
        = ActorsWanted(config)
    BY <1>1, <1>4, ActorsInForce DEF RulesetRefused
<1>7. \A rule : rule \in ToSet(stored.rules) <=> IsRuleOf(config, t, repository(m), rule)
    BY <1>1, RulesBuilt
<1>8. ToSet(stored.include) = {IF t = "branch" THEN "~DEFAULT_BRANCH" ELSE "~ALL"}
    BY <1>1, OneElement DEF DefaultRefs
<1> HIDE DEF config
<1>9. /\ \A flag \in DOMAIN RuleOfFlag :
            \/ flag = "require_pull_request" /\ t = "tag"
            \/ get(config, flag, FALSE) <=> Has(stored, RuleOfFlag[flag])
      /\ Has(stored, "update") =>
            get(ParametersOf(stored, "update"), "update_allows_fetch_and_merge", FALSE)
              = get(config, "update_allows_fetch_and_merge", FALSE)
    <2>1. DOMAIN RuleOfFlag = {"restrict_creations", "restrict_updates", "restrict_deletions",
                               "require_linear_history", "require_signed_commits",
                               "block_force_pushes", "require_pull_request"}
        BY DEF RuleOfFlag
    <2>2. /\ RuleOfFlag["restrict_creations"] = "creation"
          /\ RuleOfFlag["restrict_updates"] = "update"
          /\ RuleOfFlag["restrict_deletions"] = "deletion"
          /\ RuleOfFlag["require_linear_history"] = "required_linear_history"
          /\ RuleOfFlag["require_signed_commits"] = "required_signatures"
          /\ RuleOfFlag["block_force_pushes"] = "non_fast_forward"
          /\ RuleOfFlag["require_pull_request"] = "pull_request"
        BY DEF RuleOfFlag
    <2>3. \A x : get([update_allows_fetch_and_merge |-> x],
                     "update_allows_fetch_and_merge", FALSE) = x
        BY DEF get
    <2>4. /\ Has(stored, "creation") <=> get(config, "restrict_creations", FALSE)
          /\ Has(stored, "update") <=> get(config, "restrict_updates", FALSE)
          /\ Has(stored, "deletion") <=> get(config, "restrict_deletions", FALSE)
          /\ Has(stored, "required_linear_history")
                <=> get(config, "require_linear_history", FALSE)
          /\ Has(stored, "required_signatures")
                <=> get(config, "require_signed_commits", FALSE)
          /\ Has(stored, "non_fast_forward") <=> get(config, "block_force_pushes", FALSE)
          /\ Has(stored, "pull_request")
                <=> t = "branch" /\ get(config, "require_pull_request", FALSE)
        BY <1>7, RulesTold
    <2>5. Has(stored, "update") => ParametersOf(stored, "update") =
            [update_allows_fetch_and_merge |->
                get(config, "update_allows_fetch_and_merge", FALSE)]
        BY <1>7, RulesTold
    <2>6. \A flag \in DOMAIN RuleOfFlag :
              \/ flag = "require_pull_request" /\ t = "tag"
              \/ get(config, flag, FALSE) <=> Has(stored, RuleOfFlag[flag])
        BY <2>1, <2>2, <2>4
    <2> QED BY <2>3, <2>5, <2>6
<1>10. t = "branch" /\ Has(stored, "pull_request") => PullRequestsInForce(m, stored)
    <2>1. Has(stored, "pull_request") =>
            ParametersOf(stored, "pull_request") = PullRequestParameters(config, repository(m))
        BY <1>7, RulesTold
    <2> QED BY <2>1, PullRequestInForce DEF config
<1>11. ChecksInForce(get(config, "status_checks", Empty), stored)
    BY <1>5, <1>7, RulesTold, StatusChecksInForce
<1> QED BY <1>1, <1>6, <1>8, <1>9, <1>10, <1>11 DEF InForce, Wanted, config

-----------------------------------------------------------------------------
(* The inductive invariant: what is planned says what the manifest says. *)

Meant(m, q) ==
    /\ q.kind = "patch_repository" =>
        \/ /\ DOMAIN q.payload \subseteq SettingKeys(m)
           /\ \A k \in DOMAIN q.payload : q.payload[k] = repository(m)[k]
        \/ /\ DOMAIN q.payload = {"advanced_security"}
           /\ q.payload["advanced_security"] = get(security(m), "advanced_security", Nil)
    /\ q.kind = "toggle" => q.enabled = ToggleWanted(m, q.toggle)
    /\ q.kind \in {"create_pages", "update_pages"} =>
        /\ DOMAIN q.payload \subseteq {"build_type"} \cup DOMAIN pages(m)
        /\ \A k \in DOMAIN q.payload : q.payload[k] = get(pages(m), k, "workflow")
    /\ q.kind = "create_pages" => "build_type" \in DOMAIN q.payload

AllMeant(m, changes) ==
    \A change \in ToSet(changes) : \A q \in ToSet(change.requests) : Meant(m, q)

MInv ==
    /\ CInv
    /\ SiteShape(github)
    /\ \A r \in Runs : AllMeant(manifest, run[r].changes)

LEMMA NoneMeant ==
    ASSUME NEW m
    PROVE  AllMeant(m, <<>>)
BY NoElements DEF AllMeant

LEMMA OneMeant ==
    ASSUME NEW m, NEW key, NEW requests, \A q \in ToSet(requests) : Meant(m, q)
    PROVE  AllMeant(m, Change(key, requests))
<1> DEFINE change == [key |-> key, requests |-> requests]
<1>1. change.requests = requests /\ Change(key, requests) = <<change>>
    BY DEF Change
<1> HIDE DEF change
<1> QED BY <1>1, OneElement DEF AllMeant

LEMMA JoinedMeant ==
    ASSUME NEW m, NEW a, NEW b, IsSeq(a), IsSeq(b), AllMeant(m, a), AllMeant(m, b)
    PROVE  AllMeant(m, a \o b)
BY ElementsJoined DEF AllMeant

LEMMA SentMeant ==
    ASSUME NEW m, NEW rulesets, NEW changes, ChangesFit(m, changes, rulesets),
           changes # <<>>, AllMeant(m, changes)
    PROVE  /\ Meant(m, Head(Head(changes).requests))
           /\ AllMeant(m, Sent(changes))
<1> DEFINE requests == Tail(Head(changes).requests)
           change == [Head(changes) EXCEPT !.requests = requests]
<1>1. /\ Head(changes) \in ToSet(changes)
      /\ IsSeq(Tail(changes)) /\ ToSet(Tail(changes)) \subseteq ToSet(changes)
    BY ElementsLeft DEF ChangesFit
<1>2. /\ DOMAIN Head(changes) = {"key", "requests"}
      /\ IsSeq(Head(changes).requests) /\ Head(changes).requests # <<>>
    BY <1>1 DEF ChangesFit, ChangeFits
<1>3. /\ Head(Head(changes).requests) \in ToSet(Head(changes).requests)
      /\ ToSet(requests) \subseteq ToSet(Head(changes).requests)
    BY <1>2, ElementsLeft
<1>4. AllMeant(m, Tail(changes))
    BY <1>1 DEF AllMeant
<1>5. AllMeant(m, <<change>> \o Tail(changes))
    <2>1. change.requests = requests
        BY <1>2
    <2> HIDE DEF change, requests
    <2>2. AllMeant(m, <<change>>)
        BY <1>1, <1>3, <2>1, OneElement DEF AllMeant
    <2> QED BY <1>1, <1>4, <2>2, OneElement, JoinedMeant
<1> QED BY <1>1, <1>3, <1>4, <1>5 DEF AllMeant, Sent

-----------------------------------------------------------------------------
(* What each step of the planner plans. *)

LEMMA SettingsChangeMeant == AllMeant(manifest, SettingsChange)
<1> DEFINE desired == build_repository_patch(manifest)
           keys == {k \in DOMAIN desired : get(github.settings, k, Nil) # desired[k]}
           q == [kind |-> "patch_repository", payload |-> [k \in keys |-> desired[k]]]
<1>1. \A k \in DOMAIN desired : k \in SettingKeys(manifest) /\ desired[k] = repository(manifest)[k]
    BY DEF build_repository_patch, SettingKeys, SUPPORTED_REPOSITORY_FIELDS
<1>2. /\ q.kind = "patch_repository" /\ DOMAIN q.payload = keys
      /\ \A k \in keys : q.payload[k] = desired[k]
    OBVIOUS
<1>3. keys \subseteq DOMAIN desired
    OBVIOUS
<1>4. SettingsChange = IF keys = {} THEN <<>> ELSE Change("repository.settings", <<q>>)
    BY DEF SettingsChange
<1> HIDE DEF desired, keys, q
<1>5. Meant(manifest, q)
    BY <1>1, <1>2, <1>3 DEF Meant
<1> QED BY <1>4, <1>5, NoneMeant, OneMeant, OneElement

LEMMA AdvancedSecurityChangeMeant == AllMeant(manifest, AdvancedSecurityChange)
<1> DEFINE desired == get(security(manifest), "advanced_security", Nil)
           q == [kind |-> "patch_repository", payload |-> [advanced_security |-> desired]]
<1>1. \/ AdvancedSecurityChange = <<>>
      \/ AdvancedSecurityChange = Change("security.advanced_security", <<q>>)
    BY DEF AdvancedSecurityChange
<1>2. /\ q.kind = "patch_repository" /\ DOMAIN q.payload = {"advanced_security"}
      /\ q.payload["advanced_security"] = desired
    OBVIOUS
<1> HIDE DEF q
<1>3. Meant(manifest, q)
    BY <1>2 DEF Meant
<1> QED BY <1>1, <1>3, NoneMeant, OneMeant, OneElement

\* GitHub has one toggle for the dependency graph and the alerts, and the
\* manifest does not contradict itself.
LEMMA TogglesAgree ==
    ASSUME NEW m, load_manifest(m), ManifestShape(m), ~ContradictsDependencyGraph(m),
           NEW t \in ToSet(Toggles)
    PROVE  toggle_desired(m)[t] = ToggleWanted(m, t)
<1>1. /\ \A k \in DOMAIN security(m) : security(m)[k] # Nil
      /\ t = "immutable_releases" =>
            toggle_desired(m)[t] = get(repository(m), "immutable_releases", Nil)
      /\ t = "private_vulnerability_reporting" =>
            toggle_desired(m)[t] = get(security(m), "private_vulnerability_reporting", Nil)
      /\ t = "vulnerability_alerts" =>
            toggle_desired(m)[t] = coerce_dependency_graph_setting(m)
      /\ t = "automated_security_fixes" =>
            toggle_desired(m)[t] = get(security(m), "automated_security_fixes", Nil)
    BY DEF toggle_desired, ManifestShape
<1>2. t \in {"vulnerability_alerts", "immutable_releases",
             "private_vulnerability_reporting", "automated_security_fixes"}
    BY ToggleNames
<1>3. CASE t = "vulnerability_alerts"
    BY <1>1, <1>3 DEF ToggleWanted, coerce_dependency_graph_setting, get,
                      ContradictsDependencyGraph
<1>4. CASE t # "vulnerability_alerts"
    BY <1>1, <1>2, <1>4 DEF ToggleWanted
<1> QED BY <1>3, <1>4

LEMMA ToggleChangeMeant ==
    ASSUME load_manifest(manifest), ManifestShape(manifest),
           ~ContradictsDependencyGraph(manifest), NEW t \in ToSet(Toggles)
    PROVE  AllMeant(manifest, ToggleChange(t))
<1> DEFINE q == [kind |-> "toggle", toggle |-> t, enabled |-> toggle_desired(manifest)[t]]
<1>1. ToggleChange(t) = <<>> \/ ToggleChange(t) = Change(t, <<q>>)
    BY DEF ToggleChange
<1>2. q.kind = "toggle" /\ q.toggle = t /\ q.enabled = ToggleWanted(manifest, t)
    BY TogglesAgree
<1> HIDE DEF q
<1>3. Meant(manifest, q)
    BY <1>2 DEF Meant
<1> QED BY <1>1, <1>3, NoneMeant, OneMeant, OneElement

LEMMA PagesChangeMeant == AllMeant(manifest, PagesChange)
<1> DEFINE desired == build_pages_state(manifest)
           type    == [build_type |-> desired["build_type"]]
           rest    == [k \in DOMAIN desired \ {"build_type"} |-> desired[k]]
           create  == [kind |-> "create_pages", payload |-> type]
           Put(payload) == [kind |-> "update_pages", payload |-> payload]
           more == IF rest = Empty THEN <<>> ELSE <<Put(rest)>>
<1>1. \/ PagesChange = <<>>
      \/ PagesChange = Change("pages.site", <<create>> \o more)
      \/ PagesChange = Change("pages.site", <<Put(desired)>>)
    BY DEF PagesChange
<1>2. /\ create.kind = "create_pages" /\ create.payload = type
      /\ \A p : Put(p).kind = "update_pages" /\ Put(p).payload = p
    OBVIOUS
<1>3. /\ "build_type" \in DOMAIN desired
      /\ DOMAIN desired \subseteq {"build_type"} \cup DOMAIN pages(manifest)
      /\ \A k \in DOMAIN desired : desired[k] = get(pages(manifest), k, "workflow")
    BY DEF build_pages_state
<1> HIDE DEF desired
<1>4. /\ DOMAIN type = {"build_type"} /\ type["build_type"] = desired["build_type"]
      /\ DOMAIN rest \subseteq DOMAIN desired
      /\ \A k \in DOMAIN rest : rest[k] = desired[k]
    OBVIOUS
<1> HIDE DEF create, Put, rest, type
<1>5. Meant(manifest, create)
    BY <1>2, <1>3, <1>4 DEF Meant
<1>6. Meant(manifest, Put(desired)) /\ Meant(manifest, Put(rest))
    BY <1>2, <1>3, <1>4 DEF Meant
<1>7. IsSeq(more) /\ \A q \in ToSet(more) : Meant(manifest, q)
    BY <1>6, NoElements, OneElement
<1> HIDE DEF more
<1>8. \A q \in ToSet(<<create>> \o more) : Meant(manifest, q)
    BY <1>5, <1>7, OneElement, ElementsJoined
<1> QED BY <1>1, <1>6, <1>8, NoneMeant, OneMeant, OneElement

LEMMA RulesetChangeMeant ==
    ASSUME NEW found, NEW t
    PROVE  AllMeant(manifest, RulesetChange(found, t))
<1> DEFINE create == [kind |-> "create_ruleset", payload |-> Payload(t)]
           update == [kind |-> "update_ruleset", ruleset_id |-> found[t].id,
                      payload |-> Payload(t)]
<1>1. \/ RulesetChange(found, t) = <<>>
      \/ RulesetChange(found, t) = Change(RulesetKey(t), <<create>>)
      \/ RulesetChange(found, t) = Change(RulesetKey(t), <<update>>)
    BY DEF RulesetChange
<1>2. create.kind = "create_ruleset" /\ update.kind = "update_ruleset"
    OBVIOUS
<1> HIDE DEF create, update
<1>3. Meant(manifest, create) /\ Meant(manifest, update)
    BY <1>2 DEF Meant
<1> QED BY <1>1, <1>3, NoneMeant, OneMeant, OneElement

-----------------------------------------------------------------------------
(* The invariant is inductive. *)

LEMMA InitMInv == Init => MInv
<1> SUFFICES ASSUME Init PROVE MInv
    OBVIOUS
<1>1. \A r \in Runs : AllMeant(manifest, run[r].changes)
    BY NoneMeant DEF Init, Idle
<1> QED BY <1>1, InitCInv, WorldsAssumption DEF Init, MInv

\* A run is disturbed, and plans what it planned.
LEMMA DisturbedMeant ==
    ASSUME NEW m, NEW runs, NEW but, NEW q \in Runs, AllMeant(m, runs[q].changes),
           run' = Disturb(runs, but)
    PROVE  AllMeant(m, run'[q].changes)
<1>1. run'[q] = runs[q] \/ run'[q] = [runs[q] EXCEPT !.disturbed = TRUE]
    BY DEF Disturb
<1>2. [runs[q] EXCEPT !.disturbed = TRUE].changes = runs[q].changes
    OBVIOUS
<1> QED BY <1>1, <1>2

LEMMA ReadingStaysMeant ==
    ASSUME MInv, NEW r \in Runs,
           \/ ReadRepository(r) \/ ReadToggle(r) \/ ReadPages(r) \/ FinishPlan(r)
    PROVE  \A q \in Runs : AllMeant(manifest, run'[q].changes)
<1>1. /\ RunFits(manifest, run[r], github.rulesets) /\ ManifestShape(manifest)
      /\ DOMAIN run = Runs /\ DOMAIN run[r] = RunFields
      /\ IsSeq(run[r].changes) /\ AllMeant(manifest, run[r].changes)
    BY DEF MInv, CInv, RunFits, ChangesFit
<1>2. ASSUME NEW x, run' = [run EXCEPT ![r] = x], AllMeant(manifest, x.changes)
      PROVE  \A q \in Runs : AllMeant(manifest, run'[q].changes)
    BY <1>1, <1>2 DEF MInv
<1>3. CASE ReadRepository(r)
    <2>1. CASE ContradictsDependencyGraph(manifest)
        <3> DEFINE x == [run[r] EXCEPT !.pc = "failed"]
        <3>1. run' = [run EXCEPT ![r] = x]
            BY <1>3, <2>1 DEF ReadRepository, Fails, Goto
        <3>2. x.changes = run[r].changes
            BY <1>1
        <3> QED BY <1>1, <1>2, <3>1, <3>2
    <2>2. CASE ~ContradictsDependencyGraph(manifest)
        <3> DEFINE more == SettingsChange \o AdvancedSecurityChange
                   x == [run[r] EXCEPT !.changes = more, !.pc = "reads",
                            !.reads = TogglesToRead
                                      \o Where(DOMAIN pages(manifest) # {}, "pages")]
        <3>1. run' = [run EXCEPT ![r] = x]
            BY <1>3, <2>2 DEF ReadRepository
        <3>2. IsSeq(SettingsChange) /\ IsSeq(AdvancedSecurityChange)
            BY SettingsChangeFits, AdvancedSecurityChangeFits DEF ChangesFit
        <3>3. AllMeant(manifest, more)
            BY <3>2, SettingsChangeMeant, AdvancedSecurityChangeMeant, JoinedMeant
        <3> HIDE DEF more
        <3>4. x.changes = more
            BY <1>1 DEF RunFields
        <3> HIDE DEF x
        <3> QED BY <1>2, <3>1, <3>3, <3>4
    <2> QED BY <2>1, <2>2
<1>4. ASSUME NEW more, IsSeq(more), AllMeant(manifest, more),
             run' = [run EXCEPT ![r].reads = Tail(@), ![r].changes = @ \o more]
      PROVE  \A q \in Runs : AllMeant(manifest, run'[q].changes)
    <2> DEFINE x == [run[r] EXCEPT !.reads = Tail(@), !.changes = @ \o more]
    <2>1. run' = [run EXCEPT ![r] = x]
        BY <1>4
    <2>2. x.changes = run[r].changes \o more
        BY <1>1 DEF RunFields
    <2> HIDE DEF x
    <2>3. AllMeant(manifest, run[r].changes \o more)
        BY <1>1, <1>4, JoinedMeant
    <2> QED BY <1>2, <2>1, <2>2, <2>3
<1>5. CASE ReadToggle(r)
    <2> DEFINE t == Head(run[r].reads)
    <2>1. /\ run[r].pc = "reads" /\ run[r].reads # <<>> /\ t # "pages"
          /\ run' = [run EXCEPT ![r].reads = Tail(@), ![r].changes = @ \o ToggleChange(t)]
        BY <1>5 DEF ReadToggle, At
    <2>2. /\ ReadsFit(manifest, run[r].reads) /\ load_manifest(manifest)
          /\ ~ContradictsDependencyGraph(manifest)
        BY <1>1, <2>1 DEF RunFits, ChecksPassed
    <2>3. t \in ToSet(Toggles) /\ ToggleWanted(manifest, t) # Nil
        BY <2>1, <2>2, ElementsLeft DEF ReadsFit
    <2>4. IsSeq(ToggleChange(t)) /\ AllMeant(manifest, ToggleChange(t))
        BY <1>1, <2>2, <2>3, ToggleChangeFits, ToggleChangeMeant DEF ChangesFit
    <2> QED BY <1>4, <2>1, <2>4
<1>6. CASE ReadPages(r)
    <2>1. /\ run[r].pc = "reads" /\ run[r].reads # <<>> /\ Head(run[r].reads) = "pages"
          /\ run' = [run EXCEPT ![r].reads = Tail(@), ![r].changes = @ \o PagesChange]
        BY <1>6 DEF ReadPages, At
    <2>2. ReadsFit(manifest, run[r].reads)
        BY <1>1 DEF RunFits
    <2>3. DOMAIN pages(manifest) # {}
        BY <2>1, <2>2, ElementsLeft, ToggleNames DEF ReadsFit
    <2>4. IsSeq(PagesChange)
        BY <2>3, PagesChangeFits DEF ChangesFit
    <2> QED BY <1>4, <2>1, <2>4, PagesChangeMeant
<1>7. CASE FinishPlan(r)
    <2> DEFINE b == RulesetChange(run[r].found, "branch")
               t == RulesetChange(run[r].found, "tag")
               pc == IF run[r].mode = "plan" THEN "succeeded" ELSE "apply"
               x == [run[r] EXCEPT !.changes = @ \o b \o t, !.found = Empty, !.pc = pc]
    <2>1. run' = [run EXCEPT ![r] = x]
        BY <1>7 DEF FinishPlan
    <2>2. IsSeq(b) /\ IsSeq(t)
        BY <1>1, RulesetChangeFits, TargetNames DEF RunFits, RulesetsFit, ChangesFit
    <2>3. AllMeant(manifest, b) /\ AllMeant(manifest, t)
        BY RulesetChangeMeant
    <2> HIDE DEF b, t, pc
    <2>4. x.changes = run[r].changes \o b \o t
        BY <1>1 DEF RunFields
    <2> HIDE DEF x
    <2>5. AllMeant(manifest, run[r].changes \o b) /\ IsSeq(run[r].changes \o b)
        BY <1>1, <2>2, <2>3, JoinedMeant, ElementsJoined
    <2>6. AllMeant(manifest, run[r].changes \o b \o t)
        BY <2>2, <2>3, <2>5, JoinedMeant
    <2> QED BY <1>2, <2>1, <2>4, <2>6
<1> QED BY <1>3, <1>5, <1>6, <1>7

\* A request leaves a site with all its settings.
LEMMA RequestKeepsSite ==
    ASSUME NEW m, NEW g, NEW q, RepositoryShape(g), SiteShape(g), ~Refuses(g, q),
           SpokenOf(m, q, g.rulesets), Meant(m, q)
    PROVE  SiteShape(Effect(g, q))
<1> DEFINE h == Effect(g, q)
<1>1. CASE q.kind \in {"patch_repository", "toggle", "create_ruleset", "update_ruleset"}
    <2>1. h.pages = g.pages
        BY <1>1 DEF Effect, RepositoryShape
    <2> QED BY <2>1 DEF SiteShape
<1>2. CASE q.kind = "create_pages"
    <2>1. h.pages = NewSite(q.payload)
        BY <1>2 DEF Effect, RepositoryShape
    <2>2. "build_type" \in DOMAIN q.payload
        BY <1>2 DEF Meant
    <2>3. /\ DOMAIN NewSite(q.payload) = {"https_enforced"} \cup DOMAIN q.payload
          /\ NewSite(q.payload) = [k \in DOMAIN NewSite(q.payload) |-> NewSite(q.payload)[k]]
        BY DEF NewSite, Merged
    <2> QED BY <2>1, <2>2, <2>3 DEF SiteShape, SUPPORTED_PAGES_FIELDS
<1>3. CASE q.kind = "update_pages"
    <2>1. h.pages = Merged(g.pages, q.payload) /\ g.pages # Nil
        BY <1>3 DEF Effect, RepositoryShape, Refuses
    <2> DEFINE site == Merged(g.pages, q.payload)
    <2>2. DOMAIN site = DOMAIN g.pages \cup DOMAIN q.payload /\ site = [k \in DOMAIN site |-> site[k]]
        BY DEF Merged
    <2> QED BY <2>1, <2>2 DEF SiteShape
<1> QED BY <1>1, <1>2, <1>3 DEF SpokenOf

LEMMA EditKeepsSite ==
    ASSUME RepositoryShape(github), SiteShape(github), NEW kind, NEW h \in EditsOf(kind), kind \in
           {"setting", "toggle", "noSite", "deleteRuleset", "changeRules", "newRuleset"}
    PROVE  SiteShape(h)
<1>1. h.pages \in {github.pages, Nil}
    BY DEF EditsOf, Effect, RepositoryShape
<1> QED BY <1>1 DEF SiteShape

LEMMA MInvInductive == MInv /\ [Next]_vars => MInv'
<1> SUFFICES ASSUME MInv, [Next]_vars PROVE MInv'
    OBVIOUS
<1>1. CInv' 
    BY CInvInductive DEF MInv
<1>2. \A r \in Runs : /\ AllMeant(manifest, run[r].changes)
                      /\ RunFits(manifest, run[r], github.rulesets)
                      /\ DOMAIN run[r] = RunFields
    BY DEF MInv, CInv, RunFits
<1>3. ASSUME manifest' = manifest, SiteShape(github'),
             \A q \in Runs : AllMeant(manifest, run'[q].changes)
      PROVE  MInv'
    BY <1>1, <1>3 DEF MInv, AllMeant, SiteShape
<1>4. CASE UNCHANGED vars
    BY <1>3, <1>4 DEF vars, MInv
<1>5. ASSUME NEW r \in Runs, UNCHANGED <<manifest, github>>, NEW x,
             run' = [run EXCEPT ![r] = x], AllMeant(manifest, x.changes)
      PROVE  MInv'
    <2>1. \A q \in Runs : AllMeant(manifest, run'[q].changes)
        BY <1>5 DEF MInv, CInv
    <2> QED BY <1>3, <1>5, <2>1 DEF MInv
<1>6. ASSUME NEW r \in Runs, UNCHANGED <<manifest, github>>, NEW pc, Goto(r, pc)
      PROVE  MInv'
    <2> DEFINE x == [run[r] EXCEPT !.pc = pc]
    <2>1. run' = [run EXCEPT ![r] = x] /\ x.changes = run[r].changes
        BY <1>2, <1>6 DEF Goto, RunFields
    <2> HIDE DEF x
    <2> QED BY <1>2, <1>5, <1>6, <2>1
<1>7. ASSUME NEW r \in Runs, NEW mode \in {"plan", "apply"}, Start(r, mode)
      PROVE  MInv'
    <2> DEFINE x == [run[r] EXCEPT !.mode = mode,
                        !.pc = IF load_manifest(manifest) THEN "repository" ELSE "failed"]
    <2>1. run' = [run EXCEPT ![r] = x] /\ UNCHANGED <<manifest, github>>
        BY <1>7 DEF Start
    <2>2. x.changes = run[r].changes
        BY <1>2 DEF RunFields
    <2> HIDE DEF x
    <2> QED BY <1>2, <1>5, <2>1, <2>2
<1>8. ASSUME NEW r \in Runs,
             \/ ReadRepository(r) \/ ReadToggle(r) \/ ReadPages(r) \/ FinishPlan(r)
      PROVE  MInv'
    <2>1. UNCHANGED <<manifest, github>>
        BY <1>8 DEF ReadRepository, ReadToggle, ReadPages, FinishPlan
    <2>2. \A q \in Runs : AllMeant(manifest, run'[q].changes)
        BY <1>8, ReadingStaysMeant
    <2> QED BY <1>3, <2>1, <2>2 DEF MInv
<1>9. ASSUME NEW r \in Runs, ListRulesets(r)
      PROVE  MInv'
    <2>1. UNCHANGED <<manifest, github>>
        BY <1>9 DEF ListRulesets
    <2>2. CASE Fails(r)
        BY <1>6, <2>1, <2>2 DEF Fails
    <2>3. ASSUME NEW ids, run' = [run EXCEPT ![r].pc = "rulesets", ![r].ids = ids]
          PROVE  MInv'
        <3> DEFINE x == [run[r] EXCEPT !.pc = "rulesets", !.ids = ids]
        <3>1. run' = [run EXCEPT ![r] = x] /\ x.changes = run[r].changes
            BY <1>2, <2>3 DEF RunFields
        <3> HIDE DEF x
        <3> QED BY <1>2, <1>5, <2>1, <3>1
    <2> QED BY <1>9, <2>2, <2>3 DEF ListRulesets
<1>10. ASSUME NEW r \in Runs, ReadRuleset(r)
       PROVE  MInv'
    <2>1. UNCHANGED <<manifest, github>>
        BY <1>10 DEF ReadRuleset
    <2>2. CASE Fails(r)
        BY <1>6, <2>1, <2>2 DEF Fails
    <2>3. ASSUME NEW ids, NEW found, run' = [run EXCEPT ![r].ids = ids, ![r].found = found]
          PROVE  MInv'
        <3> DEFINE x == [run[r] EXCEPT !.ids = ids, !.found = found]
        <3>1. run' = [run EXCEPT ![r] = x] /\ x.changes = run[r].changes
            BY <1>2, <2>3 DEF RunFields
        <3> HIDE DEF x
        <3> QED BY <1>2, <1>5, <2>1, <3>1
    <2>4. \/ Fails(r)
          \/ \E ids, found : run' = [run EXCEPT ![r].ids = ids, ![r].found = found]
        <3>1. PICK id \in run[r].ids :
                IF id \notin Ids(github.rulesets)
                        \/ github.rulesets[id].target \in DOMAIN run[r].found
                THEN Fails(r)
                ELSE \E form \in Forms :
                        run' = [run EXCEPT ![r].ids = @ \ {id},
                                    ![r].found = Found(@, id, Shown(github.rulesets[id], form))]
            BY <1>10 DEF ReadRuleset
        <3> QED BY <3>1
    <2> QED BY <2>2, <2>3, <2>4
<1>11. ASSUME NEW r \in Runs, Exit(r)
       PROVE  MInv'
    <2>1. run' = [run EXCEPT ![r] = Idle] /\ UNCHANGED <<manifest, github>>
        BY <1>11 DEF Exit
    <2>2. AllMeant(manifest, Idle.changes)
        BY NoneMeant DEF Idle
    <2> QED BY <1>5, <2>1, <2>2
<1>12. ASSUME NEW r \in Runs, At(r, "apply"), run[r].changes # <<>>,
              ~Refuses(github, ToSend(r)), github' = Effect(github, ToSend(r)),
              manifest' = manifest, NEW x, run' = Disturb([run EXCEPT ![r] = x], r),
              AllMeant(manifest, x.changes)
       PROVE  MInv'
    <2>1. SpokenOf(manifest, ToSend(r), github.rulesets) /\ RepositoryShape(github)
        BY <1>12, RequestFits DEF MInv
    <2>2. Meant(manifest, ToSend(r))
        BY <1>2, <1>12, SentMeant DEF RunFits, ToSend
    <2>3. SiteShape(github')
        BY <1>12, <2>1, <2>2, RequestKeepsSite DEF MInv
    <2>4. \A q \in Runs : AllMeant(manifest, [run EXCEPT ![r] = x][q].changes)
        BY <1>2, <1>12 DEF MInv, CInv
    <2>5. \A q \in Runs : AllMeant(manifest, run'[q].changes)
        BY <1>12, <2>4, DisturbedMeant
    <2> QED BY <1>3, <1>12, <2>3, <2>5
<1>13. ASSUME NEW r \in Runs, SendRequest(r)
       PROVE  MInv'
    <2>1. CASE Refuses(github, ToSend(r))
        BY <1>6, <1>13, <2>1 DEF SendRequest, Fails
    <2>2. CASE ~Refuses(github, ToSend(r))
        <3> DEFINE x == [run[r] EXCEPT !.changes = Sent(@)]
        <3>1. /\ At(r, "apply") /\ run[r].changes # <<>>
              /\ github' = Effect(github, ToSend(r)) /\ manifest' = manifest
              /\ run' = Disturb([run EXCEPT ![r] = x], r)
            BY <1>13, <2>2 DEF SendRequest
        <3>2. x.changes = Sent(run[r].changes)
            BY <1>2 DEF RunFields
        <3> HIDE DEF x
        <3>3. AllMeant(manifest, Sent(run[r].changes))
            BY <1>2, <3>1, SentMeant DEF RunFits
        <3> QED BY <1>12, <2>2, <3>1, <3>2, <3>3
    <2> QED BY <2>1, <2>2
<1>14. ASSUME NEW r \in Runs, AnswerLost(r)
       PROVE  MInv'
    <2> DEFINE x == [run[r] EXCEPT !.pc = "failed"]
    <2>1. /\ At(r, "apply") /\ run[r].changes # <<>> /\ ~Refuses(github, ToSend(r))
          /\ github' = Effect(github, ToSend(r)) /\ manifest' = manifest
          /\ run' = Disturb([run EXCEPT ![r] = x], r)
        BY <1>14 DEF AnswerLost
    <2>2. x.changes = run[r].changes
        BY <1>2 DEF RunFields
    <2> HIDE DEF x
    <2> QED BY <1>2, <1>12, <2>1, <2>2
<1>15. CASE Edit
    <2>1. PICK kind \in EditKinds : github' \in EditsOf(kind) \ {github}
        BY <1>15 DEF Edit
    <2>2. SiteShape(github')
        BY <2>1, EditKeepsSite, BoundsAssumption DEF MInv, CInv
    <2>3. manifest' = manifest /\ run' = Disturb(run, Nil)
        BY <1>15 DEF Edit
    <2>4. \A q \in Runs : AllMeant(manifest, run'[q].changes)
        BY <1>2, <2>3, DisturbedMeant
    <2> QED BY <1>3, <2>2, <2>3, <2>4
<1>16. ASSUME NEW r \in Runs, FinishApply(r) \/ RequestFails(r)
       PROVE  MInv'
    BY <1>6, <1>16 DEF FinishApply, RequestFails, Fails
<1> QED BY <1>4, <1>7, <1>8, <1>9, <1>10, <1>11, <1>13, <1>14, <1>15, <1>16 DEF Next, Step

-----------------------------------------------------------------------------
(* A request puts one part right and none wrong. *)

LEMMA DiffersByPart ==
    ASSUME NEW m, NEW g
    PROVE  /\ Differs(m, g, "manifest") = FALSE
           /\ Differs(m, g, "repository.settings") <=> SettingsDiffer(m, g)
           /\ Differs(m, g, "security.advanced_security") <=> AdvancedSecurityDiffers(m, g)
           /\ Differs(m, g, "pages.site") <=> PagesDiffer(m, g)
           /\ Differs(m, g, "rulesets.branch") <=> RulesetDiffers(m, g, "branch")
           /\ Differs(m, g, "rulesets.tag") <=> RulesetDiffers(m, g, "tag")
           /\ \A t \in ToSet(Toggles) :
                Differs(m, g, t) <=> ToggleWanted(m, t) \notin {Nil, g.toggles[t]}
<1>1. \A t \in ToSet(Toggles) :
         t \notin {"manifest", "repository.settings", "security.advanced_security",
                   "pages.site", "rulesets.branch", "rulesets.tag"}
    BY ToggleNames
<1> QED BY <1>1 DEF Differs

\* What one request may do to the parts.
PutsOneRight(m, g, h) ==
    \E key \in DriftKeys :
        /\ \A k \in DriftKeys \ {key} : Differs(m, h, k) <=> Differs(m, g, k)
        /\ Differs(m, h, key) => Differs(m, g, key)

LEMMA OnePartPutRight ==
    ASSUME NEW m, NEW g, NEW h, Applicable(m), PutsOneRight(m, g, h)
    PROVE  \/ Drift(m, h) = Drift(m, g)
           \/ \E part \in Drift(m, g) : Drift(m, h) = Drift(m, g) \ {part}
<1>1. PICK key \in DriftKeys :
        /\ \A k \in DriftKeys \ {key} : Differs(m, h, k) <=> Differs(m, g, k)
        /\ Differs(m, h, key) => Differs(m, g, key)
    BY DEF PutsOneRight
<1>2. /\ Drift(m, g) = {k \in DriftKeys : Differs(m, g, k)}
      /\ Drift(m, h) = {k \in DriftKeys : Differs(m, h, k)}
    BY DEF Drift
<1>3. CASE Differs(m, h, key) <=> Differs(m, g, key)
    BY <1>1, <1>2, <1>3
<1>4. CASE ~Differs(m, h, key) /\ Differs(m, g, key)
    BY <1>1, <1>2, <1>4
<1> QED BY <1>1, <1>3, <1>4

\* The parts that read nothing but the rulesets.
LEMMA SameRulesetsSame ==
    ASSUME NEW m, NEW g, NEW h, g.rulesets = h.rulesets
    PROVE  \A t : /\ RulesetDiffers(m, g, t) <=> RulesetDiffers(m, h, t)
                  /\ ManagedIds(m, g.rulesets, t) = ManagedIds(m, h.rulesets, t)
BY DEF RulesetDiffers

LEMMA SettingsRequestPutsRight ==
    ASSUME NEW m, NEW g, NEW q, NEW h, RepositoryShape(g), load_manifest(m), Meant(m, q),
           q.kind = "patch_repository", h = Effect(g, q)
    PROVE  PutsOneRight(m, g, h) /\ h.rulesets = g.rulesets
<1>1. /\ h.private = g.private /\ h.toggles = g.toggles /\ h.pages = g.pages
      /\ h.rulesets = g.rulesets /\ h.settings = Merged(g.settings, q.payload)
    BY DEF Effect, RepositoryShape
<1>2. \A k, default :
        get(h.settings, k, default) =
            IF k \in DOMAIN q.payload THEN q.payload[k] ELSE get(g.settings, k, default)
    BY <1>1 DEF get, Merged
<1>3. "advanced_security" \notin SettingKeys(m)
    BY DEF SettingKeys, load_manifest, TableOf, repository, SUPPORTED_REPOSITORY_FIELDS
<1>4. /\ PagesDiffer(m, h) <=> PagesDiffer(m, g)
      /\ \A t : RulesetDiffers(m, h, t) <=> RulesetDiffers(m, g, t)
      /\ \A t \in ToSet(Toggles) :
            Differs(m, h, t) <=> Differs(m, g, t)
    BY <1>1, DiffersByPart DEF PagesDiffer, RulesetDiffers
<1>5. DriftKeys = {"manifest", "repository.settings", "security.advanced_security",
                   "pages.site", "rulesets.branch", "rulesets.tag"} \cup ToSet(Toggles)
    BY DEF DriftKeys
<1>6. CASE /\ DOMAIN q.payload \subseteq SettingKeys(m)
           /\ \A k \in DOMAIN q.payload : q.payload[k] = repository(m)[k]
    <2>1. SettingsDiffer(m, h) => SettingsDiffer(m, g)
        BY <1>2, <1>6 DEF SettingsDiffer
    <2>2. AdvancedSecurityDiffers(m, h) <=> AdvancedSecurityDiffers(m, g)
        <3>1. get(h.settings, "advanced_security", FALSE)
                = get(g.settings, "advanced_security", FALSE)
            BY <1>2, <1>3, <1>6
        <3> QED BY <1>1, <3>1 DEF AdvancedSecurityDiffers
    <2>3. \A k \in DriftKeys \ {"repository.settings"} : Differs(m, h, k) <=> Differs(m, g, k)
        BY <1>4, <1>5, <2>2, DiffersByPart
    <2> QED BY <1>1, <1>5, <2>1, <2>3, DiffersByPart DEF PutsOneRight
<1>7. CASE /\ DOMAIN q.payload = {"advanced_security"}
           /\ q.payload["advanced_security"] = get(security(m), "advanced_security", Nil)
    <2>1. SettingsDiffer(m, h) <=> SettingsDiffer(m, g)
        BY <1>2, <1>3, <1>7 DEF SettingsDiffer
    <2>2. ~AdvancedSecurityDiffers(m, h)
        BY <1>2, <1>7 DEF AdvancedSecurityDiffers
    <2>3. \A k \in DriftKeys \ {"security.advanced_security"} :
             Differs(m, h, k) <=> Differs(m, g, k)
        BY <1>4, <1>5, <2>1, DiffersByPart
    <2> QED BY <1>1, <1>5, <2>2, <2>3, DiffersByPart DEF PutsOneRight
<1> QED BY <1>6, <1>7 DEF Meant

LEMMA ToggleRequestPutsRight ==
    ASSUME NEW m, NEW g, NEW q, NEW h, RepositoryShape(g), Meant(m, q),
           q.kind = "toggle", q.toggle \in ToSet(Toggles), h = Effect(g, q)
    PROVE  PutsOneRight(m, g, h) /\ h.rulesets = g.rulesets
<1>1. h = [g EXCEPT !.toggles = [@ EXCEPT ![q.toggle] = q.enabled]]
    BY DEF Effect
<1>2. /\ h.private = g.private /\ h.settings = g.settings /\ h.pages = g.pages
      /\ h.rulesets = g.rulesets /\ h.toggles[q.toggle] = q.enabled
      /\ \A t \in ToSet(Toggles) : t # q.toggle => h.toggles[t] = g.toggles[t]
    BY <1>1 DEF RepositoryShape
<1>3. q.enabled = ToggleWanted(m, q.toggle)
    BY DEF Meant
<1>4. DriftKeys = {"manifest", "repository.settings", "security.advanced_security",
                   "pages.site", "rulesets.branch", "rulesets.tag"} \cup ToSet(Toggles)
    BY DEF DriftKeys
<1>5. /\ SettingsDiffer(m, h) <=> SettingsDiffer(m, g)
      /\ AdvancedSecurityDiffers(m, h) <=> AdvancedSecurityDiffers(m, g)
      /\ PagesDiffer(m, h) <=> PagesDiffer(m, g)
      /\ \A t : RulesetDiffers(m, h, t) <=> RulesetDiffers(m, g, t)
    BY <1>2 DEF SettingsDiffer, AdvancedSecurityDiffers, PagesDiffer, RulesetDiffers
<1>6. \A t \in ToSet(Toggles) \ {q.toggle} : Differs(m, h, t) <=> Differs(m, g, t)
    BY <1>2, DiffersByPart
<1>7. \A k \in DriftKeys \ {q.toggle} : Differs(m, h, k) <=> Differs(m, g, k)
    BY <1>4, <1>5, <1>6, DiffersByPart
<1>8. ~Differs(m, h, q.toggle)
    <2>1. Differs(m, h, q.toggle) <=>
            ToggleWanted(m, q.toggle) \notin {Nil, h.toggles[q.toggle]}
        BY DiffersByPart
    <2>2. h.toggles[q.toggle] = ToggleWanted(m, q.toggle)
        BY <1>2, <1>3
    <2> QED BY <2>1, <2>2
<1> QED BY <1>2, <1>4, <1>7, <1>8 DEF PutsOneRight

LEMMA PagesRequestPutsRight ==
    ASSUME NEW m, NEW g, NEW q, NEW h, RepositoryShape(g), SiteShape(g), load_manifest(m),
           Meant(m, q), ~Refuses(g, q), DOMAIN pages(m) # {},
           q.kind \in {"create_pages", "update_pages"}, h = Effect(g, q)
    PROVE  PutsOneRight(m, g, h) /\ h.rulesets = g.rulesets
<1>1. \E site : h = [g EXCEPT !.pages = site]
    BY DEF Effect
<1>2. /\ h.private = g.private /\ h.settings = g.settings /\ h.toggles = g.toggles
      /\ h.rulesets = g.rulesets
    BY <1>1 DEF RepositoryShape
<1>3. DriftKeys = {"manifest", "repository.settings", "security.advanced_security",
                   "pages.site", "rulesets.branch", "rulesets.tag"} \cup ToSet(Toggles)
    BY DEF DriftKeys
<1>4. /\ SettingsDiffer(m, h) <=> SettingsDiffer(m, g)
      /\ AdvancedSecurityDiffers(m, h) <=> AdvancedSecurityDiffers(m, g)
      /\ \A t : RulesetDiffers(m, h, t) <=> RulesetDiffers(m, g, t)
      /\ \A t \in ToSet(Toggles) : Differs(m, h, t) <=> Differs(m, g, t)
    BY <1>2, DiffersByPart DEF SettingsDiffer, AdvancedSecurityDiffers, RulesetDiffers
<1>5. PagesDiffer(m, h) => PagesDiffer(m, g)
    <2>1. CASE q.kind = "create_pages"
        BY <2>1 DEF Refuses, PagesDiffer
    <2>2. CASE q.kind = "update_pages"
        <3>1. h.pages = Merged(g.pages, q.payload) /\ g.pages # Nil
            BY <2>2 DEF Effect, Refuses, RepositoryShape
        <3>2. /\ SUPPORTED_PAGES_FIELDS \subseteq DOMAIN g.pages
              /\ g.pages = [k \in DOMAIN g.pages |-> g.pages[k]]
              /\ {"build_type"} \cup DOMAIN pages(m) \subseteq SUPPORTED_PAGES_FIELDS
            BY <3>1 DEF SiteShape, load_manifest, TableOf, pages, SUPPORTED_PAGES_FIELDS
        <3>3. /\ DOMAIN q.payload \subseteq {"build_type"} \cup DOMAIN pages(m)
              /\ \A k \in DOMAIN q.payload : q.payload[k] = get(pages(m), k, "workflow")
            BY <2>2 DEF Meant
        <3>4. \A k \in DOMAIN pages(m) : get(pages(m), k, "workflow") = pages(m)[k]
            BY DEF get
        <3> SUFFICES ASSUME ~PagesDiffer(m, g) PROVE ~PagesDiffer(m, h)
            OBVIOUS
        <3>5. \A k \in {"build_type"} \cup DOMAIN pages(m) :
                 g.pages[k] = get(pages(m), k, "workflow")
            BY <3>4 DEF PagesDiffer
        <3>6. Merged(g.pages, q.payload) = [k \in DOMAIN g.pages |-> g.pages[k]]
            <4>1. DOMAIN g.pages \cup DOMAIN q.payload = DOMAIN g.pages
                BY <3>2, <3>3
            <4>2. \A k \in DOMAIN q.payload : q.payload[k] = g.pages[k]
                BY <3>3, <3>5
            <4> QED BY <4>1, <4>2 DEF Merged
        <3>7. h.pages = g.pages
            BY <3>1, <3>2, <3>6
        <3> QED BY <3>7 DEF PagesDiffer
    <2> QED BY <2>1, <2>2
<1>6. \A k \in DriftKeys \ {"pages.site"} : Differs(m, h, k) <=> Differs(m, g, k)
    BY <1>3, <1>4, DiffersByPart
<1> QED BY <1>2, <1>3, <1>5, <1>6, DiffersByPart DEF PutsOneRight

\* One target's rulesets change, the other's do not.
LEMMA OneTargetPutRight ==
    ASSUME NEW m, NEW g, NEW h, NEW t \in {"branch", "tag"},
           h.private = g.private, h.settings = g.settings, h.toggles = g.toggles,
           h.pages = g.pages,
           \A u \in {"branch", "tag"} \ {t} :
                RulesetDiffers(m, h, u) <=> RulesetDiffers(m, g, u),
           RulesetDiffers(m, h, t) => RulesetDiffers(m, g, t)
    PROVE  PutsOneRight(m, g, h)
<1>1. DriftKeys = {"manifest", "repository.settings", "security.advanced_security",
                   "pages.site", "rulesets.branch", "rulesets.tag"} \cup ToSet(Toggles)
    BY DEF DriftKeys
<1>2. /\ SettingsDiffer(m, h) <=> SettingsDiffer(m, g)
      /\ AdvancedSecurityDiffers(m, h) <=> AdvancedSecurityDiffers(m, g)
      /\ PagesDiffer(m, h) <=> PagesDiffer(m, g)
      /\ \A s \in ToSet(Toggles) : Differs(m, h, s) <=> Differs(m, g, s)
    BY DiffersByPart DEF SettingsDiffer, AdvancedSecurityDiffers, PagesDiffer
<1>3. CASE t = "branch"
    <2>1. \A k \in DriftKeys \ {"rulesets.branch"} : Differs(m, h, k) <=> Differs(m, g, k)
        BY <1>1, <1>2, <1>3, DiffersByPart
    <2> QED BY <1>1, <1>3, <2>1, DiffersByPart DEF PutsOneRight
<1>4. CASE t = "tag"
    <2>1. \A k \in DriftKeys \ {"rulesets.tag"} : Differs(m, h, k) <=> Differs(m, g, k)
        BY <1>1, <1>2, <1>4, DiffersByPart
    <2> QED BY <1>1, <1>4, <2>1, DiffersByPart DEF PutsOneRight
<1> QED BY <1>3, <1>4

\* The rulesets of one target are crowded: only a person can choose.
Crowded(m, rulesets) ==
    \E t \in ToSet(Targets) : Cardinality(ManagedIds(m, rulesets, t)) > 1

\* What GitHub does not refuse has a name of its own, unless it lets rulesets
\* share one.
LEMMA CreationPutsRight ==
    ASSUME NEW m, NEW g, NEW q, NEW h, NEW t \in {"branch", "tag"}, RepositoryShape(g),
           ManifestShape(m), load_manifest(m),
           ~RulesetRefused(ruleset_table(m, t), t, repository(m)),
           DuplicateNames = FALSE, q.kind = "create_ruleset", q.payload = PayloadOf(m, t),
           ~Refuses(g, q), h = Effect(g, q)
    PROVE  PutsOneRight(m, g, h) /\ (Crowded(m, h.rulesets) <=> Crowded(m, g.rulesets))
<1> DEFINE stored == Merged(q.payload, [source_type |-> "Repository"])
           n == Len(g.rulesets) + 1
<1>1. /\ h.private = g.private /\ h.settings = g.settings /\ h.toggles = g.toggles
      /\ h.pages = g.pages /\ DOMAIN h = DOMAIN g
      /\ h.rulesets = Append(g.rulesets, stored)
    BY DEF Effect, RepositoryShape
<1>2. /\ RulesetShape(stored) /\ stored.source_type # "Organization"
      /\ stored.target = t /\ stored.name = RulesetNameOf(m, t) /\ stored # Nil
    BY PayloadIsManaged DEF ManifestShape, PayloadOf
<1> HIDE DEF stored
<1>3. Joined(m, t, g, h)
    BY <1>1, <1>2, RulesetAdded
<1>4. /\ \A id \in DOMAIN g.rulesets : h.rulesets[id] = g.rulesets[id]
      /\ DOMAIN h.rulesets = DOMAIN g.rulesets \cup {n} /\ n \notin DOMAIN g.rulesets
      /\ h.rulesets[n] = stored
    BY <1>1, <1>3, ElementsAppended DEF Joined, RepositoryShape, IsSeq
<1> HIDE DEF n
<1>5. q.payload.name = RulesetNameOf(m, t) /\ q.payload.target = t
    <2>1. PayloadOf(m, t).name = RulesetNameOf(m, t) /\ PayloadOf(m, t).target = t
        BY DEF PayloadOf, build_ruleset_payload, RulesetNameOf, ruleset_name
    <2> QED BY <2>1
<1>6. ManagedIds(m, g.rulesets, t) = {}
    <2>1. ~ \E id \in Ids(g.rulesets) :
                /\ g.rulesets[id].source_type # "Organization"
                /\ g.rulesets[id].name = q.payload.name
                /\ g.rulesets[id].target = q.payload.target
        BY DEF Refuses
    <2> QED BY <1>5, <2>1 DEF ManagedIds
<1>7. ManagedIds(m, h.rulesets, t) = {n}
    <2>1. n \in ManagedIds(m, h.rulesets, t)
        BY <1>2, <1>4 DEF ManagedIds, Ids
    <2>2. \A id : id # n => (id \in ManagedIds(m, h.rulesets, t)
                                <=> id \in ManagedIds(m, g.rulesets, t))
        BY <1>4 DEF ManagedIds, Ids
    <2> QED BY <1>6, <2>1, <2>2
<1>8. \A u \in {"branch", "tag"} \ {t} :
         /\ ManagedIds(m, h.rulesets, u) = ManagedIds(m, g.rulesets, u)
         /\ \A id \in ManagedIds(m, g.rulesets, u) : h.rulesets[id] = g.rulesets[id]
    BY <1>2, <1>4 DEF ManagedIds, Ids
<1>9. RulesetDiffers(m, g, t)
    BY <1>6, FS_EmptySet DEF RulesetDiffers
<1>10. \A u \in {"branch", "tag"} \ {t} :
          RulesetDiffers(m, h, u) <=> RulesetDiffers(m, g, u)
    BY <1>8 DEF RulesetDiffers
<1>11. PutsOneRight(m, g, h)
    BY <1>1, <1>9, <1>10, OneTargetPutRight
<1>12. Crowded(m, h.rulesets) <=> Crowded(m, g.rulesets)
    <2>1. /\ Cardinality(ManagedIds(m, g.rulesets, t)) = 0
          /\ Cardinality(ManagedIds(m, h.rulesets, t)) = 1
        BY <1>6, <1>7, FS_EmptySet, FS_Singleton
    <2>2. /\ ~(Cardinality(ManagedIds(m, g.rulesets, t)) > 1)
          /\ ~(Cardinality(ManagedIds(m, h.rulesets, t)) > 1)
        BY <2>1
    <2> QED BY <1>8, <2>2, TargetNames DEF Crowded
<1> QED BY <1>11, <1>12

LEMMA UpdatePutsRight ==
    ASSUME NEW m, NEW g, NEW q, NEW h, NEW t \in {"branch", "tag"}, RepositoryShape(g),
           ManifestShape(m), load_manifest(m),
           ~RulesetRefused(ruleset_table(m, t), t, repository(m)),
           q.kind = "update_ruleset", q.payload = PayloadOf(m, t),
           Manageable(m, t, g.rulesets, q.ruleset_id),
           ~Refuses(g, q), h = Effect(g, q)
    PROVE  PutsOneRight(m, g, h) /\ (Crowded(m, h.rulesets) <=> Crowded(m, g.rulesets))
<1> DEFINE stored == Merged(q.payload, [source_type |-> "Repository"])
           n == q.ruleset_id
<1>1. n \in ManagedIds(m, g.rulesets, t)
    BY DEF Refuses, Ids, Manageable
<1>2. /\ h.private = g.private /\ h.settings = g.settings /\ h.toggles = g.toggles
      /\ h.pages = g.pages /\ h.rulesets = [g.rulesets EXCEPT ![n] = stored]
    BY DEF Effect, RepositoryShape
<1>3. /\ stored.source_type # "Organization" /\ stored # Nil
      /\ stored.target = t /\ stored.name = RulesetNameOf(m, t)
    BY PayloadIsManaged DEF ManifestShape, PayloadOf
<1>4. InForce(m, t, stored)
    BY PayloadInForce
<1> HIDE DEF stored
<1>5. /\ n \in DOMAIN g.rulesets /\ DOMAIN h.rulesets = DOMAIN g.rulesets
      /\ h.rulesets[n] = stored
      /\ \A i \in DOMAIN g.rulesets : i # n => h.rulesets[i] = g.rulesets[i]
    BY <1>1, <1>2 DEF ManagedIds, Ids
<1> HIDE DEF n
<1>6. \A u \in {"branch", "tag"} : ManagedIds(m, h.rulesets, u) = ManagedIds(m, g.rulesets, u)
    <2> TAKE u \in {"branch", "tag"}
    <2>1. \A id : id # n => (id \in ManagedIds(m, h.rulesets, u)
                                <=> id \in ManagedIds(m, g.rulesets, u))
        BY <1>5 DEF ManagedIds, Ids
    <2>2. n \in ManagedIds(m, h.rulesets, u) <=> n \in ManagedIds(m, g.rulesets, u)
        BY <1>1, <1>3, <1>5 DEF ManagedIds, Ids
    <2> QED BY <2>1, <2>2
<1>7. \A u \in {"branch", "tag"} \ {t} : n \notin ManagedIds(m, g.rulesets, u)
    BY <1>1 DEF ManagedIds
<1>8. \A u \in {"branch", "tag"} : \A id \in ManagedIds(m, g.rulesets, u) :
          id # n => h.rulesets[id] = g.rulesets[id]
    BY <1>5 DEF ManagedIds, Ids
<1>9. \A u \in {"branch", "tag"} \ {t} :
          RulesetDiffers(m, h, u) <=> RulesetDiffers(m, g, u)
    BY <1>6, <1>7, <1>8 DEF RulesetDiffers
<1>10. RulesetDiffers(m, h, t) => RulesetDiffers(m, g, t)
    BY <1>4, <1>5, <1>6, <1>8 DEF RulesetDiffers
<1>11. PutsOneRight(m, g, h)
    BY <1>2, <1>9, <1>10, OneTargetPutRight
<1>12. Crowded(m, h.rulesets) <=> Crowded(m, g.rulesets)
    BY <1>6, TargetNames DEF Crowded
<1> QED BY <1>11, <1>12

\* The request a run is about to send.
LEMMA RequestPutsRight ==
    ASSUME DuplicateNames = FALSE, MInv, NEW r \in Runs, At(r, "apply"),
           run[r].changes # <<>>, ~Refuses(github, ToSend(r)),
           NEW h, h = Effect(github, ToSend(r))
    PROVE  /\ PutsOneRight(manifest, github, h)
           /\ Crowded(manifest, h.rulesets) <=> Crowded(manifest, github.rulesets)
           /\ Applicable(manifest)
<1> DEFINE q == ToSend(r)
<1>1. /\ SpokenOf(manifest, q, github.rulesets) /\ Applicable(manifest)
      /\ RepositoryShape(github) /\ SiteShape(github) /\ ManifestShape(manifest)
    BY RequestFits DEF MInv, CInv
<1>2. /\ RunFits(manifest, run[r], github.rulesets) /\ run[r].pc = "apply"
      /\ AllMeant(manifest, run[r].changes)
    BY DEF MInv, CInv, At
<1>3. /\ load_manifest(manifest)
      /\ \A t \in {"branch", "tag"} :
            ~RulesetRefused(ruleset_table(manifest, t), t, repository(manifest))
    BY <1>2 DEF RunFits, ChecksPassed
<1>4. Meant(manifest, q)
    BY <1>2, SentMeant DEF RunFits, ToSend
<1> HIDE DEF q
<1>5. ~Refuses(github, q) /\ h = Effect(github, q)
    BY DEF q
<1>6. CASE q.kind = "patch_repository"
    BY <1>1, <1>3, <1>4, <1>5, <1>6, SettingsRequestPutsRight
<1>7. CASE q.kind = "toggle"
    <2>1. q.toggle \in ToSet(Toggles)
        BY <1>1, <1>7 DEF SpokenOf
    <2> QED BY <1>1, <1>4, <1>5, <1>7, <2>1, ToggleRequestPutsRight
<1>8. CASE q.kind \in {"create_pages", "update_pages"}
    <2>1. DOMAIN pages(manifest) # {}
        BY <1>1, <1>8 DEF SpokenOf
    <2> QED BY <1>1, <1>3, <1>4, <1>5, <1>8, <2>1, PagesRequestPutsRight
<1>9. CASE q.kind = "create_ruleset"
    <2>1. PICK t \in {"branch", "tag"} : q.payload = PayloadOf(manifest, t)
        BY <1>1, <1>9, TargetNames DEF SpokenOf
    <2> QED BY <1>1, <1>3, <1>5, <1>9, <2>1, CreationPutsRight
<1>10. CASE q.kind = "update_ruleset"
    <2>1. PICK t \in {"branch", "tag"} :
            /\ q.payload = PayloadOf(manifest, t)
            /\ Manageable(manifest, t, github.rulesets, q.ruleset_id)
        BY <1>1, <1>10, TargetNames DEF SpokenOf
    <2> QED BY <1>1, <1>3, <1>5, <1>10, <2>1, UpdatePutsRight
<1> QED BY <1>1, <1>6, <1>7, <1>8, <1>9, <1>10 DEF SpokenOf

-----------------------------------------------------------------------------
(* The theorem. *)

\* Every request puts at most one part of the repository right and none wrong,
\* and leaves to a person what only a person can settle, whatever was read
\* before it, whoever else wrote meanwhile and however requests fail, as long
\* as GitHub lets no two rulesets of a repository share a name: were it to, a
\* second run would create a second one (plan_ruleset_changes, apply_plan).
THEOREM RequestsPutRight ==
    ASSUME DuplicateNames = FALSE
    PROVE  Spec => PutsRight
<1>1. Drift(manifest, github) \subseteq DriftKeys
    BY DEF Drift, DriftKeys
<1>2. Blocked \in BOOLEAN
    BY DEF Blocked
<1>3. Blocked <=> ~Applicable(manifest) \/ Crowded(manifest, github.rulesets)
    BY DEF Blocked, Crowded
<1>4. Init => Contract!Init
    BY <1>1, <1>2 DEF Init, Contract!Init
<1>5. MInv /\ [Next]_vars => [Contract!Next]_(Contract!vars)
    <2> SUFFICES ASSUME MInv, [Next]_vars PROVE [Contract!Next]_(Contract!vars)
        OBVIOUS
    <2>1. ASSUME NEW r \in Runs, At(r, "apply"), run[r].changes # <<>>,
                 ~Refuses(github, ToSend(r)), github' = Effect(github, ToSend(r)),
                 UNCHANGED <<manifest, edits>>
          PROVE  [Contract!Next]_(Contract!vars)
        <3>1. /\ PutsOneRight(manifest, github, github')
              /\ Crowded(manifest, github'.rulesets) <=> Crowded(manifest, github.rulesets)
              /\ Applicable(manifest)
            BY <2>1, RequestPutsRight
        <3>2. \/ Drift(manifest, github') = Drift(manifest, github)
              \/ \E part \in Drift(manifest, github) :
                    Drift(manifest, github') = Drift(manifest, github) \ {part}
            BY <3>1, OnePartPutRight
        <3>3. /\ Drift(manifest, github)' = Drift(manifest, github')
              /\ Blocked' = Blocked /\ edits' = edits
            BY <2>1, <3>1 DEF Blocked, Crowded
        <3> QED BY <3>2, <3>3 DEF Contract!Next, Contract!PutRight, Contract!vars
    <2>2. ASSUME UNCHANGED <<manifest, github, edits>>
          PROVE  UNCHANGED Contract!vars
        BY <2>2 DEF Contract!vars, Blocked
    <2>3. CASE Edit
        <3>1. edits < MaxEdits /\ edits' = edits + 1
            BY <2>3 DEF Edit
        <3>2. Drift(manifest, github)' \subseteq DriftKeys /\ Blocked' \in BOOLEAN
            BY DEF Drift, DriftKeys, Blocked
        <3> QED BY <3>1, <3>2 DEF Contract!Next, Contract!Edit
    <2>4. CASE UNCHANGED vars
        BY <2>2, <2>4 DEF vars
    <2>5. ASSUME NEW r \in Runs, SendRequest(r)
          PROVE  [Contract!Next]_(Contract!vars)
        BY <2>1, <2>2, <2>5 DEF SendRequest
    <2>6. ASSUME NEW r \in Runs, AnswerLost(r)
          PROVE  [Contract!Next]_(Contract!vars)
        BY <2>1, <2>6 DEF AnswerLost
    <2>7. ASSUME NEW r \in Runs, NEW mode \in {"plan", "apply"},
                 \/ Start(r, mode) \/ ReadRepository(r) \/ ReadToggle(r) \/ ReadPages(r)
                 \/ ListRulesets(r) \/ ReadRuleset(r) \/ FinishPlan(r) \/ FinishApply(r)
                 \/ Exit(r) \/ RequestFails(r)
          PROVE  UNCHANGED <<manifest, github, edits>>
        BY <2>7 DEF Start, ReadRepository, ReadToggle, ReadPages, ListRulesets, ReadRuleset,
                    FinishPlan, FinishApply, Exit, RequestFails
    <2> QED BY <2>2, <2>3, <2>4, <2>5, <2>6, <2>7 DEF Next, Step
<1>6. Spec => []MInv
    BY InitMInv, MInvInductive, PTL DEF Spec
<1> QED BY <1>4, <1>5, <1>6, PTL DEF Spec, PutsRight, Contract!Safety

=============================================================================
