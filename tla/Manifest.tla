------------------------------ MODULE Manifest ------------------------------
(***************************************************************************)
(* The manifest of the repository configurator: what load_manifest accepts *)
(* and what the planner reads of it.                                       *)
(*                                                                         *)
(* A TOML table is a function from its keys, an array a sequence, and a    *)
(* value of another TOML type than the place asks for is Misfit.  Every    *)
(* refusal is a ConfigError; their texts are left out.                     *)
(***************************************************************************)
EXTENDS Integers, Sequences

CONSTANTS
    Nil,     \* Python's None
    Misfit   \* a value of the wrong type

Empty == <<>>

get(table, key, default) ==
    IF key \in DOMAIN table THEN table[key] ELSE default

\* {**table, **changes}
Merged(table, changes) ==
    [k \in DOMAIN table \cup DOMAIN changes |->
        IF k \in DOMAIN changes THEN changes[k] ELSE table[k]]

SUPPORTED_REPOSITORY_FIELDS ==
    {"default_branch", "is_template", "allow_auto_merge", "allow_update_branch",
     "delete_branch_on_merge", "allow_merge_commit", "allow_squash_merge",
     "allow_rebase_merge", "has_discussions", "has_issues", "has_projects",
     "has_wiki", "web_commit_signoff_required", "squash_merge_commit_title",
     "squash_merge_commit_message"}
SUPPORTED_STATUS_CHECK_KEYS ==
    {"enabled", "strict_required_status_checks_policy",
     "do_not_enforce_on_create", "contexts"}
SUPPORTED_PAGES_FIELDS == {"build_type", "https_enforced"}
SUPPORTED_PAGES_BUILD_TYPES == {"legacy", "workflow"}

SecurityKeys ==
    {"advanced_security", "dependency_graph", "vulnerability_alerts",
     "private_vulnerability_reporting", "automated_security_fixes"}
RulesetKeys ==
    {"name", "enforcement", "bypass", "restrict_creations", "restrict_updates",
     "update_allows_fetch_and_merge", "restrict_deletions",
     "require_linear_history", "require_signed_commits", "block_force_pushes",
     "status_checks"}
PullRequestKeys ==
    {"allowed_merge_methods", "dismiss_stale_reviews_on_push",
     "require_code_owner_review", "require_last_push_approval",
     "required_approving_review_count", "required_review_thread_resolution"}

-----------------------------------------------------------------------------
(* load_manifest *)

\* A table with keys that mean something; the rest is a typing error.
TableOf(value, allowed) == value # Misfit /\ DOMAIN value \subseteq allowed

validate_ruleset_table(data, allowPullRequest) ==
    /\ TableOf(data, RulesetKeys \cup
                IF allowPullRequest THEN {"require_pull_request", "pull_request"} ELSE {})
    /\ get(data, "bypass", <<>>) # Misfit
    /\ \A i \in DOMAIN get(data, "bypass", <<>>) : data["bypass"][i] # Misfit
    /\ allowPullRequest => TableOf(get(data, "pull_request", Empty), PullRequestKeys)
    /\ TableOf(get(data, "status_checks", Empty), SUPPORTED_STATUS_CHECK_KEYS)

validate_pages_table(data) ==
    get(data, "build_type", Nil) \in SUPPORTED_PAGES_BUILD_TYPES \cup {Nil}

\* Mutant: keys that mean nothing are skipped in silence.
load_manifest_SkipsUnknownKeys(data) ==
    /\ data \notin {Nil, Misfit}
    /\ \A t \in DOMAIN data : data[t] # Misfit
    /\ validate_pages_table(get(data, "pages", Empty))

\* The manifest loads; a file that is not there is Nil.
load_manifest(data) ==
    /\ data # Nil
    /\ TableOf(data, {"repository", "security", "pages", "rulesets", "unsupported"})
    /\ TableOf(get(data, "repository", Empty),
               SUPPORTED_REPOSITORY_FIELDS \cup {"immutable_releases"})
    /\ TableOf(get(data, "security", Empty), SecurityKeys)
    /\ TableOf(get(data, "pages", Empty), SUPPORTED_PAGES_FIELDS)
    /\ validate_pages_table(get(data, "pages", Empty))
    /\ get(data, "unsupported", Empty) # Misfit
    /\ LET rulesets == get(data, "rulesets", Empty)
       IN  /\ TableOf(rulesets, {"branch_default", "tags_default"})
           /\ validate_ruleset_table(get(rulesets, "branch_default", Empty), TRUE)
           /\ validate_ruleset_table(get(rulesets, "tags_default", Empty), FALSE)

-----------------------------------------------------------------------------
(* What the planner reads *)

repository(config) == get(config, "repository", Empty)
security(config) == get(config, "security", Empty)
pages(config) == get(config, "pages", Empty)
ruleset_table(config, target) ==
    get(get(config, "rulesets", Empty),
        IF target = "branch" THEN "branch_default" ELSE "tags_default", Empty)

\* GitHub has one toggle for the dependency graph and the alerts; a manifest
\* that wants them to differ is a ConfigError.
ContradictsDependencyGraph(config) ==
    LET graph  == get(security(config), "dependency_graph", Nil)
        alerts == get(security(config), "vulnerability_alerts", Nil)
    IN  graph # Nil /\ alerts # Nil /\ graph # alerts

coerce_dependency_graph_setting(config) ==
    get(security(config), "vulnerability_alerts",
        get(security(config), "dependency_graph", Nil))

\* The toggles in the order the planner reads them.
Toggles == <<"vulnerability_alerts", "immutable_releases",
             "private_vulnerability_reporting", "automated_security_fixes">>

toggle_desired(config) ==
    [immutable_releases |-> get(repository(config), "immutable_releases", Nil),
     private_vulnerability_reporting |->
        get(security(config), "private_vulnerability_reporting", Nil),
     vulnerability_alerts |-> coerce_dependency_graph_setting(config),
     automated_security_fixes |-> get(security(config), "automated_security_fixes", Nil)]

build_repository_patch(config) ==
    [k \in DOMAIN repository(config) \cap SUPPORTED_REPOSITORY_FIELDS |->
        repository(config)[k]]

build_pages_state(config) ==
    [k \in {"build_type"} \cup (DOMAIN pages(config) \cap {"https_enforced"}) |->
        get(pages(config), k, "workflow")]

=============================================================================
