------------------------------- MODULE GitHub -------------------------------
(***************************************************************************)
(* The repository at GitHub, as the configurator uses it through GitHubApi *)
(* (external).  A request is a record of its kind and arguments; a refused *)
(* one changes nothing.  A ruleset keeps the place in rulesets it was      *)
(* given, its id; a deleted one leaves Nil there, since an id is not given *)
(* twice.  The advanced-security status is one of the settings.            *)
(***************************************************************************)
EXTENDS Ruleset

CONSTANTS
    DuplicateNames,   \* may two rulesets of a repository share name and target?
    PageSize          \* the entries of one page of list_rulesets

ASSUME GitHubAssumption == DuplicateNames \in BOOLEAN /\ PageSize \in Nat \ {0}

Ids(rulesets) == {id \in DOMAIN rulesets : rulesets[id] # Nil}

\* A site that was just created.
NewSite(payload) == Merged([https_enforced |-> FALSE], payload)

Refuses(github, request) ==
    CASE request.kind = "create_pages"   -> github.pages # Nil
      [] request.kind = "update_pages"   -> github.pages = Nil
      [] request.kind = "update_ruleset" -> request.ruleset_id \notin Ids(github.rulesets)
      [] request.kind = "create_ruleset" ->
            /\ ~DuplicateNames
            /\ \E id \in Ids(github.rulesets) :
                  /\ github.rulesets[id].source_type # "Organization"
                  /\ github.rulesets[id].name = request.payload.name
                  /\ github.rulesets[id].target = request.payload.target
      [] OTHER -> FALSE

Effect(github, request) ==
    LET ruleset == Merged(request.payload, [source_type |-> "Repository"])
    IN  CASE request.kind = "patch_repository" ->
                [github EXCEPT !.settings = Merged(@, request.payload)]
          [] request.kind = "toggle" ->
                [github EXCEPT !.toggles[request.toggle] = request.enabled]
          [] request.kind = "create_pages" ->
                [github EXCEPT !.pages = NewSite(request.payload)]
          [] request.kind = "update_pages" ->
                [github EXCEPT !.pages = Merged(@, request.payload)]
          [] request.kind = "create_ruleset" ->
                [github EXCEPT !.rulesets = Append(@, ruleset)]
          [] request.kind = "update_ruleset" ->
                [github EXCEPT !.rulesets[request.ruleset_id] = ruleset]

\* What a page of the list may hold.
Pages(rulesets) ==
    IF Cardinality(Ids(rulesets)) <= PageSize THEN {Ids(rulesets)}
    ELSE kSubset(PageSize, Ids(rulesets))

-----------------------------------------------------------------------------
(* GitHub shows a ruleset as it was sent, or with its lists in another     *)
(* order and without the parameters that have their default.               *)

Forms == {"asSent", "reordered"}
ListParameters == {"allowed_merge_methods", "required_status_checks"}

IsDefault(name, value) ==
    CASE name \in ListParameters -> FALSE
      [] name = "required_approving_review_count" -> value = 0
      [] OTHER -> ~value

Reordered(rule) ==
    [rule EXCEPT !.parameters =
        [name \in {n \in DOMAIN @ : ~IsDefault(n, @[n])} |->
            IF name \in ListParameters THEN Reverse(@[name]) ELSE @[name]]]

Shown(ruleset, form) ==
    IF form = "asSent" THEN ruleset
    ELSE [ruleset EXCEPT !.bypass_actors = Reverse(@),
                         !.rules = Reverse([i \in DOMAIN @ |-> Reordered(@[i])])]

=============================================================================
