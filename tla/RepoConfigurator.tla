-------------------------- MODULE RepoConfigurator --------------------------
(***************************************************************************)
(* configure_github_repo.py: runs of the script, each a process of its own *)
(* that loads the manifest, reads the repository one request at a time,    *)
(* plans, and in mode "apply" sends the planned requests one by one.       *)
(*                                                                         *)
(* Nothing is locked and nothing is remembered from one run to the next:   *)
(* other runs and people change the repository between any two requests.   *)
(* A request may fail, or take effect and have its answer lost; either     *)
(* ends the run with exit code 2, and whoever needs it starts another.     *)
(***************************************************************************)
EXTENDS SettingsContract

CONSTANTS
    Runs,          \* the runs that may be under way together
    Worlds,        \* what there is at first: [manifest, github]
    MaxFailures,   \* bound: requests that fail or lose their answer
    MaxEdits,      \* bound: changes made by people
    EditKinds      \* the changes people make

ASSUME BoundsAssumption ==
    /\ MaxFailures \in Nat /\ MaxEdits \in Nat /\ IsFiniteSet(Runs)
    /\ EditKinds \subseteq {"setting", "toggle", "noSite", "deleteRuleset",
                            "changeRules", "newRuleset"}

\* None is no string and no run, and a misfit is no table.
ASSUME NoneAssumption ==
    /\ Nil \notin Runs
    /\ Nil \notin {"app", "integration", "repository_admin_role", "organization_admin"}
    /\ Nil \notin DOMAIN AppIds /\ Nil # "Organization" /\ Misfit # Empty

\* TOML has no null, its arrays are sequences, and None is no ruleset.
ManifestShape(config) ==
    load_manifest(config) =>
        /\ \A table \in {repository(config), security(config), pages(config)} :
              \A k \in DOMAIN table : table[k] # Nil
        /\ LET given == get(get(ruleset_table(config, "branch"), "pull_request", Empty),
                            "allowed_merge_methods", <<>>)
           IN  DOMAIN given = {} => given = <<>>
        /\ \A target \in {"branch", "tag"} :
              LET r == ruleset_table(config, target)
              IN  /\ \A list \in {get(r, "bypass", <<>>), contexts_of(r)} \ {Misfit} :
                        list \in Seq(ToSet(list))
                  /\ ~RulesetRefused(r, target, repository(config)) =>
                        Merged(build_ruleset_payload(r, target, repository(config)),
                               [source_type |-> "Repository"]) # Nil

\* What GitHub shows of a ruleset.
RulesetShape(ruleset) ==
    /\ {"name", "target", "source_type", "rules"} \subseteq DOMAIN ruleset
    /\ ruleset.source_type \in {Nil, "Repository", "Organization"}

\* What there is at GitHub.
RepositoryShape(g) ==
    /\ DOMAIN g = {"private", "settings", "toggles", "pages", "rulesets"}
    /\ DOMAIN g.toggles = ToSet(Toggles)
    /\ g.rulesets \in Seq(ToSet(g.rulesets))
    /\ \A id \in Ids(g.rulesets) : RulesetShape(g.rulesets[id])

\* A Pages site is a table with every setting the manifest may speak of.
SiteShape(g) ==
    g.pages # Nil =>
        /\ g.pages = [k \in DOMAIN g.pages |-> g.pages[k]]
        /\ SUPPORTED_PAGES_FIELDS \subseteq DOMAIN g.pages

ASSUME WorldsAssumption ==
    \A w \in Worlds :
        ManifestShape(w.manifest) /\ RepositoryShape(w.github) /\ SiteShape(w.github)

\* A parameter of a rule: a list, the number of reviews, or a flag.
ParameterTyped(name, value) ==
    /\ name \in ListParameters => value \in Seq(ToSet(value))
    /\ name \notin ListParameters \cup {"required_approving_review_count"} =>
          value \in BOOLEAN

ParametersTyped(table) == \A name \in DOMAIN table : ParameterTyped(name, table[name])

\* A Pages site as GitHub shows it; None is none.
PagesSites ==
    [build_type : SUPPORTED_PAGES_BUILD_TYPES \cup {Nil}, https_enforced : BOOLEAN]
SiteTyped(g) == g.pages # Nil => g.pages \in PagesSites

\* The flags of a manifest are booleans, its merge methods an array.
ManifestTyped(config) ==
    load_manifest(config) =>
        /\ get(pages(config), "https_enforced", FALSE) \in BOOLEAN
        /\ ParametersTyped(get(ruleset_table(config, "branch"), "pull_request", Empty))
        /\ \A target \in {"branch", "tag"} :
              LET r == ruleset_table(config, target)
              IN  /\ get(r, "update_allows_fetch_and_merge", FALSE) \in BOOLEAN
                  /\ \A flag \in {"do_not_enforce_on_create",
                                  "strict_required_status_checks_policy"} :
                        get(checks(r), flag, FALSE) \in BOOLEAN

\* The lists of a ruleset are lists, and its rules have parameters of their type.
RulesetTyped(ruleset) ==
    /\ "enforcement" \in DOMAIN ruleset
    /\ \A list \in {"bypass_actors", "include", "exclude", "rules"} :
          list \in DOMAIN ruleset /\ ruleset[list] \in Seq(ToSet(ruleset[list]))
    /\ \A i \in DOMAIN ruleset.rules :
          /\ DOMAIN ruleset.rules[i] = {"type", "parameters"}
          /\ ParametersTyped(ruleset.rules[i].parameters)

ASSUME TypesAssumption ==
    /\ Nil \notin PagesSites
    /\ \A w \in Worlds :
        /\ ManifestTyped(w.manifest) /\ SiteTyped(w.github)
        /\ \A id \in Ids(w.github.rulesets) : RulesetTyped(w.github.rulesets[id])

VARIABLES
    manifest,   \* the file, the same for every run
    github,     \* the repository
    run,        \* run[r]: a run of the script
    failures,
    edits

vars == <<manifest, github, run, failures, edits>>

Targets == <<"branch", "tag">>

(***************************************************************************)
(* A run: pc says what it does next; reads are the requests it has still   *)
(* to send before it lists the rulesets, ids the rulesets it has still to  *)
(* fetch, found the ones it fetched, by target.  A planned change is its   *)
(* key and its requests.  disturbed (history) is set when somebody else    *)
(* changes the repository while the run is under way.                      *)
(***************************************************************************)
Idle == [pc |-> "idle", mode |-> "plan", changes |-> <<>>, reads |-> <<>>,
         ids |-> {}, found |-> Empty, disturbed |-> FALSE]

Init ==
    /\ \E w \in Worlds : manifest = w.manifest /\ github = w.github
    /\ run = [r \in Runs |-> Idle]
    /\ failures = 0
    /\ edits = 0

At(r, pc) == run[r].pc = pc
UnderWay(r) == run[r].pc \notin {"idle", "succeeded", "failed"}
Change(key, requests) == <<[key |-> key, requests |-> requests]>>

Goto(r, pc) == run' = [run EXCEPT ![r].pc = pc]
\* A ConfigError or an ApiError: exit code 2, nothing is undone.
Fails(r) == Goto(r, "failed")

-----------------------------------------------------------------------------
(* Planning *)

\* main: load_manifest.
Start(r, mode) ==
    /\ At(r, "idle")
    /\ run' = [run EXCEPT ![r].mode = mode,
                          ![r].pc = IF load_manifest(manifest) THEN "repository" ELSE "failed"]
    /\ UNCHANGED <<manifest, github, failures, edits>>

SettingsChange ==
    LET desired == build_repository_patch(manifest)
        keys    == {k \in DOMAIN desired : get(github.settings, k, Nil) # desired[k]}
    IN  IF keys = {} THEN <<>>
        ELSE Change("repository.settings",
                    <<[kind |-> "patch_repository", payload |-> [k \in keys |-> desired[k]]]>>)

AdvancedSecurityChange ==
    LET desired == get(security(manifest), "advanced_security", Nil)
    IN  IF ~github.private \/ desired \in {Nil, get(github.settings, "advanced_security", FALSE)}
        THEN <<>>
        ELSE Change("security.advanced_security",
                    <<[kind |-> "patch_repository", payload |-> [advanced_security |-> desired]]>>)

\* One request for each toggle the manifest speaks of.
TogglesToRead ==
    LET Read(t) == Where(toggle_desired(manifest)[t] # Nil, t)
    IN  Read("vulnerability_alerts") \o Read("immutable_releases")
        \o Read("private_vulnerability_reporting") \o Read("automated_security_fixes")

ReadRepository(r) ==
    /\ At(r, "repository")
    /\ IF ContradictsDependencyGraph(manifest) THEN Fails(r)
       ELSE run' = [run EXCEPT
               ![r].changes = SettingsChange \o AdvancedSecurityChange,
               ![r].reads = TogglesToRead
                            \o Where(DOMAIN pages(manifest) # {}, "pages"),
               ![r].pc = "reads"]
    /\ UNCHANGED <<manifest, github, failures, edits>>

ToggleChange(toggle) ==
    LET desired == toggle_desired(manifest)[toggle]
    IN  IF github.toggles[toggle] = desired THEN <<>>
        ELSE Change(toggle, <<[kind |-> "toggle", toggle |-> toggle, enabled |-> desired]>>)

ReadToggle(r) ==
    /\ At(r, "reads") /\ run[r].reads # <<>> /\ Head(run[r].reads) # "pages"
    /\ run' = [run EXCEPT ![r].reads = Tail(@),
                          ![r].changes = @ \o ToggleChange(Head(run[r].reads))]
    /\ UNCHANGED <<manifest, github, failures, edits>>

\* Creating a site takes two requests when more than its type is wanted.
PagesChange ==
    LET desired == build_pages_state(manifest)
        rest    == [k \in DOMAIN desired \ {"build_type"} |-> desired[k]]
        Put(payload) == <<[kind |-> "update_pages", payload |-> payload]>>
    IN  IF github.pages = Nil
        THEN Change("pages.site",
                    <<[kind |-> "create_pages",
                       payload |-> [build_type |-> desired["build_type"]]]>>
                    \o IF rest = Empty THEN <<>> ELSE Put(rest))
        ELSE IF \A k \in DOMAIN desired : github.pages[k] = desired[k] THEN <<>>
        ELSE Change("pages.site", Put(desired))

\* Mutant: the 404 of a repository without a site ends the run.
ReadPages_NotFoundIsAnError(r) ==
    /\ At(r, "reads") /\ run[r].reads # <<>> /\ Head(run[r].reads) = "pages"
    /\ IF github.pages = Nil THEN Fails(r)
       ELSE run' = [run EXCEPT ![r].reads = Tail(@), ![r].changes = @ \o PagesChange]
    /\ UNCHANGED <<manifest, github, failures, edits>>

ReadPages(r) ==
    /\ At(r, "reads") /\ run[r].reads # <<>> /\ Head(run[r].reads) = "pages"
    /\ run' = [run EXCEPT ![r].reads = Tail(@), ![r].changes = @ \o PagesChange]
    /\ UNCHANGED <<manifest, github, failures, edits>>

NameOf(target) == ruleset_name(ruleset_table(manifest, target), target)
Payload(target) ==
    build_ruleset_payload(ruleset_table(manifest, target), target, repository(manifest))

\* Mutant: an organisation's ruleset of the same name is taken for the repository's.
IsManaged_AnySource(entry, target) ==
    entry.target = target /\ entry.name = NameOf(target)

\* Mutant: only an entry without a source is the repository's.
IsManaged_NoSource(entry, target) ==
    IsManaged_AnySource(entry, target) /\ entry.source_type = Nil

IsManaged(entry, target) ==
    /\ entry.target = target /\ entry.name = NameOf(target)
    /\ entry.source_type \in {Nil, "Repository"}

\* The payloads are built first; building them may ask for ids of Apps.
ListRulesets(r) ==
    /\ At(r, "reads") /\ run[r].reads = <<>>
    /\ IF \E i \in DOMAIN Targets : RulesetRefused(ruleset_table(manifest, Targets[i]),
                                                   Targets[i], repository(manifest))
       THEN Fails(r)
       ELSE \E page \in Pages(github.rulesets) :
               run' = [run EXCEPT ![r].pc = "rulesets",
                                  ![r].ids = {id \in page : \E i \in DOMAIN Targets :
                                        IsManaged(github.rulesets[id], Targets[i])}]
    /\ UNCHANGED <<manifest, github, failures, edits>>

\* The rulesets found, and one more.
Found(found, id, ruleset) ==
    Merged(found, [t \in {ruleset.target} |-> [id |-> id, ruleset |-> ruleset]])

\* Mutant: the last of several rulesets with the same key is the one.
ReadRuleset_LastWins(r) ==
    /\ At(r, "rulesets")
    /\ \E id \in run[r].ids :
           IF id \notin Ids(github.rulesets) THEN Fails(r)
           ELSE run' = [run EXCEPT ![r].ids = @ \ {id},
                    ![r].found = Found(@, id, github.rulesets[id])]
    /\ UNCHANGED <<manifest, github, failures, edits>>

\* In the order of the list, which is GitHub's choice.  A second ruleset with
\* the same key is a ConfigError, a deleted one a 404.
ReadRuleset(r) ==
    /\ At(r, "rulesets")
    /\ \E id \in run[r].ids :
           IF id \notin Ids(github.rulesets) \/ github.rulesets[id].target \in DOMAIN run[r].found
           THEN Fails(r)
           ELSE \E form \in Forms :
                run' = [run EXCEPT ![r].ids = @ \ {id},
                    ![r].found = Found(@, id, Shown(github.rulesets[id], form))]
    /\ UNCHANGED <<manifest, github, failures, edits>>

RulesetKey(target) == IF target = "branch" THEN "rulesets.branch" ELSE "rulesets.tag"

\* Mutant: both updates go to one id.
RulesetChange_OneId(found, target) ==
    LET managed == rule_types_under_management(ruleset_table(manifest, target), target)
        Normal(payload) == normalize_ruleset_payload(payload, managed)
    IN  IF target \notin DOMAIN found \/ Normal(Payload(target)) = Normal(found[target].ruleset)
        THEN <<>>
        ELSE Change(RulesetKey(target),
                    <<[kind       |-> "update_ruleset",
                       ruleset_id |-> found[CHOOSE t \in DOMAIN found : TRUE].id,
                       payload    |-> Payload(target)]>>)

RulesetChange(found, target) ==
    LET key     == RulesetKey(target)
        managed == rule_types_under_management(ruleset_table(manifest, target), target)
        Normal(payload) == normalize_ruleset_payload(payload, managed)
    IN  IF target \notin DOMAIN found
        THEN Change(key, <<[kind |-> "create_ruleset", payload |-> Payload(target)]>>)
        ELSE IF Normal(Payload(target)) = Normal(found[target].ruleset) THEN <<>>
        ELSE Change(key, <<[kind       |-> "update_ruleset",
                            ruleset_id |-> found[target].id,
                            payload    |-> Payload(target)]>>)

\* plan_ruleset_changes, then main by its mode.
FinishPlan(r) ==
    /\ At(r, "rulesets") /\ run[r].ids = {}
    /\ run' = [run EXCEPT
            ![r].changes = @ \o RulesetChange(run[r].found, "branch")
                             \o RulesetChange(run[r].found, "tag"),
            ![r].found = Empty,
            ![r].pc = IF run[r].mode = "plan" THEN "succeeded" ELSE "apply"]
    /\ UNCHANGED <<manifest, github, failures, edits>>

-----------------------------------------------------------------------------
(* Applying *)

ToSend(r) == Head(Head(run[r].changes).requests)

\* Mutant: creating a site is one request.
Sent_OncePerChange(changes) == Tail(changes)

\* Mutant: a change stays planned when all of it was sent.
Sent_NeverDone(changes) ==
    <<[Head(changes) EXCEPT !.requests = Tail(@)]>> \o Tail(changes)

\* The changes of a run after it sent a request.
Sent(changes) ==
    LET requests == Tail(Head(changes).requests)
    IN  IF requests = <<>> THEN Tail(changes)
        ELSE <<[Head(changes) EXCEPT !.requests = requests]>> \o Tail(changes)

\* The repository changes under the other runs.
Disturb(runs, but) ==
    [q \in Runs |-> IF q # but /\ runs[q].pc # "idle" /\ github' # github
                    THEN [runs[q] EXCEPT !.disturbed = TRUE] ELSE runs[q]]

\* Mutant: the answer to a request is not looked at.
SendRequest_SwallowsErrors(r) ==
    /\ At(r, "apply") /\ run[r].changes # <<>>
    /\ github' = IF Refuses(github, ToSend(r)) THEN github ELSE Effect(github, ToSend(r))
    /\ run' = Disturb([run EXCEPT ![r].changes = Sent(@)], r)
    /\ UNCHANGED <<manifest, failures, edits>>

SendRequest(r) ==
    /\ At(r, "apply") /\ run[r].changes # <<>>
    /\ IF Refuses(github, ToSend(r)) THEN Fails(r) /\ UNCHANGED github
       ELSE /\ github' = Effect(github, ToSend(r))
            /\ run' = Disturb([run EXCEPT ![r].changes = Sent(@)], r)
    /\ UNCHANGED <<manifest, failures, edits>>

FinishApply(r) ==
    /\ At(r, "apply") /\ run[r].changes = <<>>
    /\ Goto(r, "succeeded")
    /\ UNCHANGED <<manifest, github, failures, edits>>

\* The process ends; the next run of this name starts afresh.
Exit(r) ==
    /\ run[r].pc \in {"succeeded", "failed"}
    /\ run' = [run EXCEPT ![r] = Idle]
    /\ UNCHANGED <<manifest, github, failures, edits>>

-----------------------------------------------------------------------------
(* What goes wrong, and who else is there *)

\* An ApiError before the request took effect.
RequestFails(r) ==
    /\ failures < MaxFailures
    /\ UnderWay(r)
    /\ At(r, "apply") => run[r].changes # <<>>
    /\ At(r, "rulesets") => run[r].ids # {}
    /\ failures' = failures + 1
    /\ Fails(r)
    /\ UNCHANGED <<manifest, github, edits>>

\* Mutant: the request is sent again.
AnswerLost_Retries(r) ==
    /\ failures < MaxFailures
    /\ At(r, "apply") /\ run[r].changes # <<>>
    /\ ~Refuses(github, ToSend(r))
    /\ failures' = failures + 1
    /\ github' = Effect(github, ToSend(r))
    /\ run' = Disturb(run, r)
    /\ UNCHANGED <<manifest, edits>>

\* An ApiError although the request took effect: a gateway timeout, a lost connection.
AnswerLost(r) ==
    /\ failures < MaxFailures
    /\ At(r, "apply") /\ run[r].changes # <<>>
    /\ ~Refuses(github, ToSend(r))
    /\ failures' = failures + 1
    /\ github' = Effect(github, ToSend(r))
    /\ run' = Disturb([run EXCEPT ![r].pc = "failed"], r)
    /\ UNCHANGED <<manifest, edits>>

Bare(target) ==
    [name |-> NameOf(target), target |-> target, enforcement |-> "active",
     bypass_actors |-> <<>>, include |-> <<DefaultRefs(target)>>, exclude |-> <<>>,
     rules |-> <<>>]
Deletion == Rule("deletion", Empty)

\* What a person may make of the repository at github.com.
EditsOf(kind) ==
    CASE kind = "setting" ->
            {[github EXCEPT !.settings[k] = ~@] :
                k \in {k \in DOMAIN github.settings : github.settings[k] \in BOOLEAN}}
      [] kind = "toggle" ->
            {[github EXCEPT !.toggles[t] = ~@] : t \in ToSet(Toggles)}
      [] kind = "noSite" -> {[github EXCEPT !.pages = Nil]}
      [] kind = "deleteRuleset" ->
            {[github EXCEPT !.rulesets[id] = Nil] : id \in Ids(github.rulesets)}
      [] kind = "changeRules" ->
            {[github EXCEPT !.rulesets[id].rules = IF @ = <<>> THEN <<Deletion>> ELSE Tail(@)] :
                id \in Ids(github.rulesets)}
      [] kind = "newRuleset" ->
            {Effect(github, [kind |-> "create_ruleset", payload |-> Bare(target)]) :
                target \in {t \in ToSet(Targets) :
                    /\ load_manifest(manifest)
                    /\ ~Refuses(github, [kind |-> "create_ruleset", payload |-> Bare(t)])}}

Edit ==
    /\ edits < MaxEdits
    /\ \E kind \in EditKinds : github' \in EditsOf(kind) \ {github}
    /\ edits' = edits + 1
    /\ run' = Disturb(run, Nil)
    /\ UNCHANGED <<manifest, failures>>

-----------------------------------------------------------------------------
Step(r) ==
    \/ ReadRepository(r) \/ ReadToggle(r) \/ ReadPages(r)
    \/ ListRulesets(r) \/ ReadRuleset(r) \/ FinishPlan(r)
    \/ SendRequest(r) \/ FinishApply(r) \/ Exit(r)

Next ==
    \/ \E r \in Runs : \/ \E mode \in {"plan", "apply"} : Start(r, mode)
                       \/ Step(r)
                       \/ RequestFails(r) \/ AnswerLost(r)
    \/ Edit

(***************************************************************************)
(* A process that runs goes on, and somebody starts an apply from time to  *)
(* time: the script itself never tries again.                              *)
(***************************************************************************)
Fairness == \A r \in Runs : WF_vars(Step(r)) /\ SF_vars(Start(r, "apply"))

Spec == Init /\ [][Next]_vars
FairSpec == Spec /\ Fairness

-----------------------------------------------------------------------------
(* The properties *)

TypeOK ==
    /\ DOMAIN run = Runs
    /\ \A r \in Runs :
        /\ run[r].pc \in {"idle", "repository", "reads", "rulesets", "apply",
                         "succeeded", "failed"}
        /\ run[r].mode \in {"plan", "apply"}
        /\ run[r].disturbed \in BOOLEAN
        /\ \A i \in DOMAIN run[r].changes :
              /\ run[r].changes[i].key \in DriftKeys
              /\ run[r].changes[i].requests # <<>>
        /\ run[r].reads \in Seq(ToSet(Toggles) \cup {"pages"})
        /\ run[r].ids \subseteq DOMAIN github.rulesets
        /\ DOMAIN run[r].found \subseteq ToSet(Targets)
        /\ At(r, "idle") => run[r] = Idle
    /\ DOMAIN github.toggles = ToSet(Toggles)
    /\ failures \in 0..MaxFailures
    /\ edits \in 0..MaxEdits

\* What a dry run reports is what is wrong: when nobody else changed the
\* repository, the keys of a finished plan are the parts of the repository
\* that differ from the manifest, in whatever order and with whatever
\* defaults left out GitHub shows its rulesets (build_plan).
PlanIsDrift ==
    \A r \in Runs :
        At(r, "succeeded") /\ run[r].mode = "plan" /\ ~run[r].disturbed =>
            {change.key : change \in ToSet(run[r].changes)} = Drift(manifest, github)

\* Exit code 0 of an apply means that the repository is as the manifest
\* says, unless somebody else changed it meanwhile: no key is skipped, no
\* second request forgotten, no second ruleset left alone (main, apply_plan).
ExitZeroMeansConverged ==
    \A r \in Runs :
        At(r, "succeeded") /\ run[r].mode = "apply" /\ ~run[r].disturbed =>
            Drift(manifest, github) = {}

\* However requests fail, lose their answer or overtake each other, the runs
\* leave at most one ruleset of a managed name for each run that may be
\* under way at once, and one run alone never makes a second; people may have
\* made others (get_managed_rulesets, plan_ruleset_changes).
DuplicatesBounded ==
    Applicable(manifest) =>
        \A target \in ToSet(Targets) :
            Cardinality(ManagedIds(manifest, github.rulesets, target))
                <= Cardinality(Runs) + edits

\* What the manifest does not speak of.
Unmanaged(config, g) ==
    IF ~Applicable(config) THEN g
    ELSE [private  |-> g.private,
          settings |-> Restrict(g.settings, DOMAIN g.settings \ (SettingKeys(config)
                            \cup (DOMAIN security(config) \cap {"advanced_security"}))),
          toggles  |-> [t \in {u \in ToSet(Toggles) : ToggleWanted(config, u) = Nil} |->
                            g.toggles[t]],
          pages    |-> IF DOMAIN pages(config) = {} THEN g.pages ELSE Nil,
          rulesets |-> LET managed == UNION {ManagedIds(config, g.rulesets, t) :
                                                t \in ToSet(Targets)}
                       IN  [id \in Ids(g.rulesets) \ managed |-> g.rulesets[id]]]

\* A run never changes what the manifest does not speak of: other settings,
\* toggles it leaves out, Pages without a [pages] table, rulesets of other
\* names or of the organisation; and nothing at all when the manifest cannot
\* be applied as a whole (load_manifest, build_plan, get_managed_rulesets).
UnmanagedUntouched ==
    [][edits' = edits => Unmanaged(manifest, github)' = Unmanaged(manifest, github)]_vars

\* Managed rulesets with status checks that the manifest leaves to the operator.
LeftToOperator(g) ==
    {id \in Ids(g.rulesets) :
        \E t \in ToSet(Targets) :
            /\ id \in ManagedIds(manifest, g.rulesets, t)
            /\ "required_status_checks"
                 \notin rule_types_under_management(ruleset_table(manifest, t), t)
            /\ Has(g.rulesets[id], "required_status_checks")}

\* What the report lists for a manual follow-up is kept once it was done by
\* hand: the manifest that leaves the status checks to the operator does not
\* take them away again (build_ruleset_payload removes their rule type from
\* those under management).
ManualFollowUpKept ==
    [][edits' = edits => LeftToOperator(github) \subseteq LeftToOperator(github')]_vars

\* Only a person can go on: the manifest cannot be applied, or two rulesets
\* have the name of a managed one.
Blocked ==
    \/ ~Applicable(manifest)
    \/ \E t \in ToSet(Targets) : Cardinality(ManagedIds(manifest, github.rulesets, t)) > 1

Contract == INSTANCE Reconciler WITH
                Parts <- DriftKeys, drift <- Drift(manifest, github), blocked <- Blocked

\* Every request puts one part right and none wrong, whatever was read before
\* it and whoever else wrote meanwhile (apply_plan).
PutsRight == Contract!Safety

\* Moreover, when people leave the repository alone and somebody goes on
\* starting applies, everything becomes right: a failed request, a lost
\* answer, a change of the plan half sent or two runs at once never leave a
\* state the next run cannot repair.
ImplementsReconciler == Contract!Spec

=============================================================================
