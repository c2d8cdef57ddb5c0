------------------------------ MODULE Ruleset ------------------------------
(***************************************************************************)
(* Rulesets, as the configurator builds them from the manifest and as it   *)
(* compares them with what GitHub shows.                                   *)
(*                                                                         *)
(* A rule is its type and a table of parameters, empty when GitHub sends   *)
(* none.  The order in which Python sorts is of no consequence beyond      *)
(* being the same for equal lists, so sorted picks one fixed permutation.  *)
(***************************************************************************)
EXTENDS Manifest, SequencesExt

CONSTANT AppIds   \* slug -> id of the GitHub App, Nil when GitHub gives none

ADMIN_REPOSITORY_ROLE_ID == 5
DefaultRefs(target) == IF target = "branch" THEN "~DEFAULT_BRANCH" ELSE "~ALL"

\* Mutant: lists are compared in the order they come in.
sorted_KeepsOrder(s) == s

sorted(s) == CHOOSE t \in [DOMAIN s -> ToSet(s)] :
                \A x \in ToSet(s) :
                    Cardinality({i \in DOMAIN s : s[i] = x})
                        = Cardinality({i \in DOMAIN t : t[i] = x})

Rule(type, parameters) == [type |-> type, parameters |-> parameters]
Where(condition, x) == IF condition THEN <<x>> ELSE <<>>

-----------------------------------------------------------------------------
(* From the manifest: bypass actors, status checks, the payload *)

BypassRefused(actor) ==
    CASE get(actor, "type", Nil) \in {"repository_admin_role", "organization_admin"} -> FALSE
      [] get(actor, "type", Nil) = "app" ->
            \/ get(actor, "slug", Nil) \notin DOMAIN AppIds
            \/ AppIds[actor["slug"]] = Nil
      [] get(actor, "type", Nil) = "integration" -> get(actor, "actor_id", Nil) = Nil
      [] OTHER -> TRUE

BypassActor(actor) ==
    LET Actor(type, id) == [actor_type  |-> type, actor_id |-> id,
                            bypass_mode |-> get(actor, "mode", "always")]
    IN  CASE actor["type"] = "repository_admin_role" ->
                Actor("RepositoryRole", ADMIN_REPOSITORY_ROLE_ID)
          [] actor["type"] = "organization_admin" -> Actor("OrganizationAdmin", 1)
          [] actor["type"] = "app" -> Actor("Integration", AppIds[actor["slug"]])
          [] OTHER -> Actor("Integration", actor["actor_id"])

resolve_bypass_actors(bypass) ==
    sorted([i \in DOMAIN bypass |-> BypassActor(bypass[i])])

\* A context is a table; one written as a string stands for its table.
ContextsRefused(contexts) ==
    \/ contexts = Misfit
    \/ \E i \in DOMAIN contexts : contexts[i] = Misfit \/ "context" \notin DOMAIN contexts[i]

normalize_status_checks(contexts) ==
    sorted([i \in DOMAIN contexts |->
                [context        |-> contexts[i]["context"],
                 integration_id |-> get(contexts[i], "integration_id", Nil)]])

derive_allowed_merge_methods(repo) ==
    Where(get(repo, "allow_merge_commit", FALSE), "merge")
    \o Where(get(repo, "allow_squash_merge", FALSE), "squash")
    \o Where(get(repo, "allow_rebase_merge", FALSE), "rebase")

allowed_merge_methods(config, repo) ==
    LET given == get(get(config, "pull_request", Empty), "allowed_merge_methods", <<>>)
    IN  IF given = <<>> THEN derive_allowed_merge_methods(repo) ELSE given

checks(config) == get(config, "status_checks", Empty)
contexts_of(config) == get(checks(config), "contexts", <<>>)
ChecksEnabled(config) == get(checks(config), "enabled", FALSE)

\* The table cannot be built: a ConfigError, or an App GitHub does not know.
RulesetRefused(config, target, repo) ==
    \/ \E i \in DOMAIN get(config, "bypass", <<>>) : BypassRefused(config["bypass"][i])
    \/ /\ target = "branch"
       /\ get(config, "require_pull_request", FALSE)
       /\ allowed_merge_methods(config, repo) = <<>>
    \/ ChecksEnabled(config) /\ ContextsRefused(contexts_of(config))

RuleTypes == {"creation", "deletion", "non_fast_forward", "pull_request",
              "required_linear_history", "required_signatures",
              "required_status_checks", "update"}

rule_types_under_management(config, target) ==
    {t \in RuleTypes :
        /\ t = "pull_request" => target = "branch"
        /\ t = "required_status_checks" =>
              ~(ChecksEnabled(config) /\ contexts_of(config) = <<>>)}

PullRequestParameters(config, repo) ==
    LET given == get(config, "pull_request", Empty)
    IN  [allowed_merge_methods |-> allowed_merge_methods(config, repo),
         dismiss_stale_reviews_on_push |->
            get(given, "dismiss_stale_reviews_on_push", FALSE),
         require_code_owner_review |-> get(given, "require_code_owner_review", FALSE),
         require_last_push_approval |-> get(given, "require_last_push_approval", FALSE),
         required_approving_review_count |->
            get(given, "required_approving_review_count", 0),
         required_review_thread_resolution |->
            get(given, "required_review_thread_resolution", FALSE)]

StatusCheckParameters(config) ==
    [do_not_enforce_on_create |-> get(checks(config), "do_not_enforce_on_create", FALSE),
     required_status_checks |-> normalize_status_checks(contexts_of(config)),
     strict_required_status_checks_policy |->
        get(checks(config), "strict_required_status_checks_policy", FALSE)]

ruleset_name(config, target) ==
    get(config, "name", IF target = "branch" THEN "Default branch" ELSE "Default tags")

build_ruleset_payload(config, target, repo) ==
    LET Wants(flag) == get(config, flag, FALSE)
    IN  [name          |-> ruleset_name(config, target),
         target        |-> target,
         enforcement   |-> get(config, "enforcement", "active"),
         bypass_actors |-> resolve_bypass_actors(get(config, "bypass", <<>>)),
         include       |-> <<DefaultRefs(target)>>,
         exclude       |-> <<>>,
         rules |->
            Where(Wants("restrict_creations"), Rule("creation", Empty))
            \o Where(Wants("restrict_updates"),
                     Rule("update", [update_allows_fetch_and_merge |->
                                        Wants("update_allows_fetch_and_merge")]))
            \o Where(Wants("restrict_deletions"), Rule("deletion", Empty))
            \o Where(Wants("require_linear_history"), Rule("required_linear_history", Empty))
            \o Where(Wants("require_signed_commits"), Rule("required_signatures", Empty))
            \o Where(Wants("block_force_pushes"), Rule("non_fast_forward", Empty))
            \o Where(target = "branch" /\ Wants("require_pull_request"),
                     Rule("pull_request", PullRequestParameters(config, repo)))
            \o Where(ChecksEnabled(config) /\ contexts_of(config) # <<>>,
                     Rule("required_status_checks", StatusCheckParameters(config)))]

-----------------------------------------------------------------------------
(* Both sides in one normal form *)

normalize_rule(rule) ==
    LET given == rule.parameters
        Flags(names) == [n \in names |-> get(given, n, FALSE)]
    IN  CASE rule.type = "update" ->
                Rule("update", Flags({"update_allows_fetch_and_merge"}))
          [] rule.type = "pull_request" ->
                Rule("pull_request",
                     Merged(Flags(PullRequestKeys),
                            [allowed_merge_methods |->
                                sorted(get(given, "allowed_merge_methods", <<>>)),
                             required_approving_review_count |->
                                get(given, "required_approving_review_count", 0)]))
          [] rule.type = "required_status_checks" ->
                Rule("required_status_checks",
                     Merged(Flags({"do_not_enforce_on_create",
                                   "strict_required_status_checks_policy"}),
                            [required_status_checks |->
                                sorted(get(given, "required_status_checks", <<>>))]))
          [] OTHER -> Rule(rule.type, Empty)

\* The rules under management, normalized one after another; sorting them by
\* type keeps the order of those of one type.
KeptRules(rules, managed) ==
    LET Kept[n \in 0..Len(rules)] ==
            IF n = 0 THEN [type \in managed |-> <<>>]
            ELSE [type \in managed |->
                    Kept[n - 1][type]
                    \o Where(rules[n].type = type, normalize_rule(rules[n]))]
    IN  Kept[Len(rules)]

normalize_ruleset_payload(payload, managed) ==
    [name          |-> payload.name,
     target        |-> payload.target,
     enforcement   |-> payload.enforcement,
     bypass_actors |-> sorted(payload.bypass_actors),
     include       |-> sorted(payload.include),
     exclude       |-> sorted(payload.exclude),
     rules         |-> KeptRules(payload.rules, managed)]

=============================================================================
