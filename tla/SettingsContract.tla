-------------------------- MODULE SettingsContract --------------------------
(***************************************************************************)
(* What it means that a repository is as the manifest says, apart from how *)
(* the configurator finds out: which manifests can be applied at all, and  *)
(* which parts of the repository differ.                                   *)
(***************************************************************************)
EXTENDS GitHub

RulesetNameOf(config, target) ==
    get(ruleset_table(config, target), "name",
        IF target = "branch" THEN "Default branch" ELSE "Default tags")

\* The rulesets of the repository the manifest speaks of.
ManagedIds(config, rulesets, target) ==
    {id \in Ids(rulesets) : /\ rulesets[id].source_type # "Organization"
                            /\ rulesets[id].target = target
                            /\ rulesets[id].name = RulesetNameOf(config, target)}

-----------------------------------------------------------------------------
(* Manifests that can be applied *)

Vocabulary ==
    [repository |-> SUPPORTED_REPOSITORY_FIELDS \cup {"immutable_releases"},
     security   |-> SecurityKeys,
     pages      |-> SUPPORTED_PAGES_FIELDS,
     rulesets   |-> {"branch_default", "tags_default"}]

\* Every key of the manifest has a meaning.
Understood(config) ==
    /\ DOMAIN config \subseteq DOMAIN Vocabulary \cup {"unsupported"}
    /\ \A t \in DOMAIN config : config[t] # Misfit
    /\ \A t \in DOMAIN config \cap DOMAIN Vocabulary :
            DOMAIN config[t] \subseteq Vocabulary[t]
    /\ \A target \in {"branch", "tag"} :
        LET r == ruleset_table(config, target)
        IN  /\ r # Misfit
            /\ DOMAIN r \subseteq RulesetKeys
                 \cup (IF target = "branch"
                       THEN {"require_pull_request", "pull_request"} ELSE {})
            /\ \A part \in {"status_checks", "pull_request"} :
                  /\ get(r, part, Empty) # Misfit
                  /\ DOMAIN get(r, part, Empty)
                       \subseteq SUPPORTED_STATUS_CHECK_KEYS \cup PullRequestKeys
            /\ get(r, "bypass", <<>>) # Misfit

MergeMethodFlags ==
    [merge |-> "allow_merge_commit", squash |-> "allow_squash_merge",
     rebase |-> "allow_rebase_merge"]

MethodsWanted(config) ==
    LET given == ToSet(get(get(ruleset_table(config, "branch"), "pull_request", Empty),
                           "allowed_merge_methods", <<>>))
    IN  IF given # {} THEN given
        ELSE {method \in DOMAIN MergeMethodFlags :
                get(repository(config), MergeMethodFlags[method], FALSE)}

Wanted(config, target, flag) == get(ruleset_table(config, target), flag, FALSE)

Applicable(config) ==
    /\ config # Nil
    /\ Understood(config)
    /\ get(pages(config), "build_type", "workflow") \in SUPPORTED_PAGES_BUILD_TYPES
    /\ LET wishes == {security(config)[k] : k \in DOMAIN security(config)
                        \cap {"dependency_graph", "vulnerability_alerts"}}
       IN  Cardinality(wishes) <= 1
    /\ Wanted(config, "branch", "require_pull_request") => MethodsWanted(config) # {}
    /\ \A target \in {"branch", "tag"} :
        /\ \A actor \in ToSet(get(ruleset_table(config, target), "bypass", <<>>)) :
            /\ actor # Misfit
            /\ \/ get(actor, "type", Nil) \in {"repository_admin_role", "organization_admin"}
               \/ actor["type"] = "app" /\ get(AppIds, actor["slug"], Nil) # Nil
               \/ actor["type"] = "integration" /\ "actor_id" \in DOMAIN actor
        /\ get(checks(ruleset_table(config, target)), "enabled", FALSE) =>
              LET contexts == get(checks(ruleset_table(config, target)), "contexts", <<>>)
              IN  /\ contexts # Misfit
                  /\ \A c \in ToSet(contexts) : c # Misfit /\ "context" \in DOMAIN c

-----------------------------------------------------------------------------
(* Drift *)

RuleOfFlag ==
    [restrict_creations |-> "creation", restrict_updates |-> "update",
     restrict_deletions |-> "deletion", require_linear_history |-> "required_linear_history",
     require_signed_commits |-> "required_signatures",
     block_force_pushes |-> "non_fast_forward", require_pull_request |-> "pull_request"]

Has(r, type) == \E i \in DOMAIN r.rules : r.rules[i].type = type
ParametersOf(r, type) ==
    r.rules[CHOOSE i \in DOMAIN r.rules : r.rules[i].type = type].parameters

ActorsWanted(config) ==
    {LET Is(type) == actor["type"] = type
     IN  <<IF Is("repository_admin_role") THEN "RepositoryRole"
           ELSE IF Is("organization_admin") THEN "OrganizationAdmin" ELSE "Integration",
           IF Is("repository_admin_role") THEN ADMIN_REPOSITORY_ROLE_ID
           ELSE IF Is("organization_admin") THEN 1
           ELSE IF Is("app") THEN AppIds[actor["slug"]] ELSE actor["actor_id"],
           get(actor, "mode", "always")>>
     : actor \in ToSet(get(config, "bypass", <<>>))}

PullRequestsInForce(config, r) ==
    LET wanted == get(ruleset_table(config, "branch"), "pull_request", Empty)
        shown  == ParametersOf(r, "pull_request")
    IN  /\ ToSet(get(shown, "allowed_merge_methods", <<>>)) = MethodsWanted(config)
        /\ get(shown, "required_approving_review_count", 0)
             = get(wanted, "required_approving_review_count", 0)
        /\ \A flag \in PullRequestKeys
                \ {"allowed_merge_methods", "required_approving_review_count"} :
              get(shown, flag, FALSE) = get(wanted, flag, FALSE)

ChecksInForce(wanted, r) ==
    LET enabled  == get(wanted, "enabled", FALSE)
        contexts == get(wanted, "contexts", <<>>)
        shown    == ParametersOf(r, "required_status_checks")
    IN  IF ~enabled THEN ~Has(r, "required_status_checks")
        ELSE contexts # <<>> =>
              /\ Has(r, "required_status_checks")
              /\ {<<c.context, c.integration_id>> :
                    c \in ToSet(get(shown, "required_status_checks", <<>>))}
                   = {<<c["context"], get(c, "integration_id", Nil)>> : c \in ToSet(contexts)}
              /\ \A flag \in {"do_not_enforce_on_create", "strict_required_status_checks_policy"} :
                    get(shown, flag, FALSE) = get(wanted, flag, FALSE)

\* The ruleset r does what the manifest asks for the target.
InForce(config, target, r) ==
    LET wanted == ruleset_table(config, target)
    IN  /\ r.enforcement = get(wanted, "enforcement", "active")
        /\ ToSet(r.include) = {IF target = "branch" THEN "~DEFAULT_BRANCH" ELSE "~ALL"}
        /\ r.exclude = <<>>
        /\ {<<a.actor_type, a.actor_id, a.bypass_mode>> : a \in ToSet(r.bypass_actors)}
             = ActorsWanted(wanted)
        /\ \A flag \in DOMAIN RuleOfFlag :
              \/ flag = "require_pull_request" /\ target = "tag"
              \/ Wanted(config, target, flag) <=> Has(r, RuleOfFlag[flag])
        /\ Has(r, "update") =>
              get(ParametersOf(r, "update"), "update_allows_fetch_and_merge", FALSE)
                = Wanted(config, target, "update_allows_fetch_and_merge")
        /\ target = "branch" /\ Has(r, "pull_request") => PullRequestsInForce(config, r)
        /\ ChecksInForce(get(wanted, "status_checks", Empty), r)

ToggleWanted(config, toggle) ==
    CASE toggle = "immutable_releases" -> get(repository(config), toggle, Nil)
      [] toggle = "vulnerability_alerts" ->
            IF "dependency_graph" \in DOMAIN security(config)
            THEN security(config)["dependency_graph"]
            ELSE get(security(config), toggle, Nil)
      [] OTHER -> get(security(config), toggle, Nil)

SettingKeys(config) == DOMAIN repository(config) \ {"immutable_releases"}

SettingsDiffer(config, github) ==
    \E k \in SettingKeys(config) : get(github.settings, k, Nil) # repository(config)[k]

\* On a public repository advanced security is not a setting.
AdvancedSecurityDiffers(config, github) ==
    /\ github.private
    /\ get(security(config), "advanced_security", Nil)
         \notin {Nil, get(github.settings, "advanced_security", FALSE)}

PagesDiffer(config, github) ==
    /\ DOMAIN pages(config) # {}
    /\ \/ github.pages = Nil
       \/ github.pages["build_type"] # get(pages(config), "build_type", "workflow")
       \/ \E k \in DOMAIN pages(config) : github.pages[k] # pages(config)[k]

RulesetDiffers(config, github, target) ==
    LET ids == ManagedIds(config, github.rulesets, target)
    IN  \/ Cardinality(ids) # 1
        \/ \E id \in ids : ~InForce(config, target, github.rulesets[id])

DriftKeys ==
    {"manifest", "repository.settings", "security.advanced_security", "pages.site",
     "rulesets.branch", "rulesets.tag"} \cup ToSet(Toggles)

Differs(config, github, key) ==
    CASE key = "manifest"                   -> FALSE
      [] key = "repository.settings"        -> SettingsDiffer(config, github)
      [] key = "security.advanced_security" -> AdvancedSecurityDiffers(config, github)
      [] key = "pages.site"                 -> PagesDiffer(config, github)
      [] key = "rulesets.branch"            -> RulesetDiffers(config, github, "branch")
      [] key = "rulesets.tag"               -> RulesetDiffers(config, github, "tag")
      [] OTHER -> ToggleWanted(config, key) \notin {Nil, github.toggles[key]}

\* The parts of the repository that are not as the manifest says; of a
\* manifest that cannot be applied, the manifest itself.
Drift(config, github) ==
    IF Applicable(config) THEN {key \in DriftKeys : Differs(config, github, key)}
    ELSE {"manifest"}

=============================================================================
