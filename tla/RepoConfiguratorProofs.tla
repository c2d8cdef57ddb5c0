----------------------- MODULE RepoConfiguratorProofs -----------------------
(***************************************************************************)
(* Runs of the configurator, for every set of runs, manifest, repository   *)
(* and number of failures and edits: what a run has planned still fits the *)
(* repository when it comes to send it, whatever happened in between.      *)
(***************************************************************************)
EXTENDS RepoConfigurator, FiniteSetTheorems, TLAPS

-----------------------------------------------------------------------------
(* Sequences and the sets of their elements. *)

IsSeq(s) == s \in Seq(ToSet(s))

LEMMA ElementsOf ==
    ASSUME NEW S, NEW s \in Seq(S)
    PROVE  IsSeq(s) /\ ToSet(s) \subseteq S
BY DEF IsSeq, ToSet

LEMMA NoElements == IsSeq(<<>>) /\ ToSet(<<>>) = {}
BY DEF IsSeq, ToSet

LEMMA OneElement ==
    ASSUME NEW x
    PROVE  IsSeq(<<x>>) /\ ToSet(<<x>>) = {x}
BY DEF IsSeq, ToSet

LEMMA ElementsJoined ==
    ASSUME NEW s, NEW t, IsSeq(s), IsSeq(t)
    PROVE  IsSeq(s \o t) /\ ToSet(s \o t) = ToSet(s) \cup ToSet(t)
<1> DEFINE S == ToSet(s) \cup ToSet(t)
<1>1. s \in Seq(S) /\ t \in Seq(S)
    BY DEF IsSeq
<1>2. s \o t \in Seq(S) /\ Len(s \o t) = Len(s) + Len(t)
    BY <1>1
<1>3. /\ \A i \in 1..Len(s) : (s \o t)[i] = s[i]
      /\ \A i \in 1..Len(t) : (s \o t)[Len(s) + i] = t[i]
    BY <1>1
<1>4. S \subseteq ToSet(s \o t)
    <2>1. ASSUME NEW i \in DOMAIN s
          PROVE  s[i] \in ToSet(s \o t)
        <3>1. i \in 1..Len(s) /\ i \in DOMAIN (s \o t)
            BY <1>1, <1>2
        <3> QED BY <1>3, <3>1 DEF ToSet
    <2>2. ASSUME NEW i \in DOMAIN t
          PROVE  t[i] \in ToSet(s \o t)
        <3>1. i \in 1..Len(t) /\ Len(s) + i \in DOMAIN (s \o t)
            BY <1>1, <1>2
        <3> QED BY <1>3, <3>1 DEF ToSet
    <2> QED BY <2>1, <2>2 DEF ToSet
<1> HIDE DEF S
<1>5. ToSet(s \o t) \subseteq S
    BY <1>2 DEF ToSet
<1> QED BY <1>2, <1>4, <1>5 DEF IsSeq, S

LEMMA ElementsLeft ==
    ASSUME NEW s, IsSeq(s), s # <<>>
    PROVE  /\ Head(s) \in ToSet(s) /\ Head(s) = s[1]
           /\ IsSeq(Tail(s)) /\ ToSet(Tail(s)) \subseteq ToSet(s)
           /\ Len(Tail(s)) = Len(s) - 1
           /\ \A i \in 1..Len(Tail(s)) : Tail(s)[i] = s[i + 1]
<1>1. s \in Seq(ToSet(s))
    BY DEF IsSeq
<1>2. Tail(s) \in Seq(ToSet(s)) /\ Head(s) \in ToSet(s)
    BY <1>1
<1>3. /\ Head(s) = s[1] /\ Len(Tail(s)) = Len(s) - 1
      /\ \A i \in 1..Len(Tail(s)) : Tail(s)[i] = s[i + 1]
    BY <1>1
<1> QED BY <1>2, <1>3, ElementsOf

LEMMA ElementsAppended ==
    ASSUME NEW s, NEW x, IsSeq(s)
    PROVE  /\ IsSeq(Append(s, x)) /\ DOMAIN s = 1..Len(s)
           /\ DOMAIN Append(s, x) = 1..(Len(s) + 1)
           /\ Append(s, x)[Len(s) + 1] = x
           /\ \A i \in DOMAIN s : Append(s, x)[i] = s[i]
<1> DEFINE S == ToSet(s) \cup {x}
<1>1. s \in Seq(S)
    BY DEF IsSeq
<1> HIDE DEF S
<1>2. x \in S
    BY DEF S
<1>3. Append(s, x) \in Seq(S)
    BY <1>1, <1>2
<1>4. /\ DOMAIN s = 1..Len(s) /\ DOMAIN Append(s, x) = 1..(Len(s) + 1)
      /\ Append(s, x)[Len(s) + 1] = x
      /\ \A i \in DOMAIN s : Append(s, x)[i] = s[i]
    BY <1>1, <1>2
<1> QED BY <1>3, <1>4, ElementsOf

LEMMA ElementReplaced ==
    ASSUME NEW s, NEW i \in DOMAIN s, NEW x, IsSeq(s)
    PROVE  /\ IsSeq([s EXCEPT ![i] = x])
           /\ DOMAIN [s EXCEPT ![i] = x] = DOMAIN s
           /\ [s EXCEPT ![i] = x][i] = x
           /\ \A j \in DOMAIN s : j # i => [s EXCEPT ![i] = x][j] = s[j]
<1> DEFINE S == ToSet(s) \cup {x}
<1>1. s \in Seq(S) /\ x \in S
    BY DEF IsSeq
<1> HIDE DEF S
<1>2. [s EXCEPT ![i] = x] \in Seq(S)
    BY <1>1
<1> QED BY <1>1, <1>2, ElementsOf

-----------------------------------------------------------------------------
(* Names. *)

LEMMA TargetNames ==
    /\ ToSet(Targets) = {"branch", "tag"}
    /\ \A i \in DOMAIN Targets : Targets[i] \in ToSet(Targets)
    /\ \A t \in ToSet(Targets) : \E i \in DOMAIN Targets : Targets[i] = t
BY DEF ToSet, Targets

LEMMA ToggleNames ==
    ToSet(Toggles) = {"vulnerability_alerts", "immutable_releases",
                      "private_vulnerability_reporting", "automated_security_fixes"}
BY DEF ToSet, Toggles

-----------------------------------------------------------------------------
(* A manifest that the planner accepts can be applied. *)

LEMMA AtMostOne ==
    ASSUME NEW S, \A a, b \in S : a = b
    PROVE  Cardinality(S) <= 1
<1>1. CASE S = {}
    BY <1>1, FS_EmptySet
<1>2. CASE S # {}
    <2>1. PICK a : a \in S
        BY <1>2
    <2>2. S = {a}
        BY <2>1
    <2> QED BY <2>2, FS_Singleton
<1> QED BY <1>1, <1>2

LEMMA LoadedIsUnderstood ==
    ASSUME NEW m, load_manifest(m)
    PROVE  Understood(m)
<1>1. /\ m # Misfit
      /\ DOMAIN m \subseteq {"repository", "security", "pages", "rulesets", "unsupported"}
      /\ TableOf(get(m, "repository", Empty),
                 SUPPORTED_REPOSITORY_FIELDS \cup {"immutable_releases"})
      /\ TableOf(get(m, "security", Empty), SecurityKeys)
      /\ TableOf(get(m, "pages", Empty), SUPPORTED_PAGES_FIELDS)
      /\ get(m, "unsupported", Empty) # Misfit
      /\ TableOf(get(m, "rulesets", Empty), {"branch_default", "tags_default"})
      /\ validate_ruleset_table(ruleset_table(m, "branch"), TRUE)
      /\ validate_ruleset_table(ruleset_table(m, "tag"), FALSE)
    BY DEF load_manifest, TableOf, ruleset_table
<1>2. DOMAIN Vocabulary = {"repository", "security", "pages", "rulesets"}
    BY DEF Vocabulary
<1>3. ASSUME NEW t \in DOMAIN m
      PROVE  m[t] # Misfit /\ (t \in DOMAIN Vocabulary => DOMAIN m[t] \subseteq Vocabulary[t])
    BY <1>1, <1>2 DEF TableOf, get, Vocabulary
<1>4. ASSUME NEW t \in {"branch", "tag"}, NEW r, r = ruleset_table(m, t)
      PROVE  /\ r # Misfit
             /\ DOMAIN r \subseteq RulesetKeys
                  \cup (IF t = "branch" THEN {"require_pull_request", "pull_request"} ELSE {})
             /\ get(r, "bypass", <<>>) # Misfit
             /\ TableOf(get(r, "status_checks", Empty), SUPPORTED_STATUS_CHECK_KEYS)
             /\ TableOf(get(r, "pull_request", Empty), PullRequestKeys)
    <2>1. CASE t = "branch"
        BY <1>1, <1>4, <2>1 DEF validate_ruleset_table, TableOf
    <2>2. CASE t = "tag"
        <3>1. DOMAIN r \subseteq RulesetKeys /\ r # Misfit
            BY <1>1, <1>4, <2>2 DEF validate_ruleset_table, TableOf
        <3>2. get(r, "pull_request", Empty) = Empty
            BY <3>1 DEF get, RulesetKeys
        <3>3. TableOf(Empty, PullRequestKeys)
            BY NoneAssumption DEF TableOf, Empty
        <3> QED BY <1>1, <1>4, <2>2, <3>1, <3>2, <3>3 DEF validate_ruleset_table, TableOf
    <2> QED BY <2>1, <2>2
<1>5. ASSUME NEW t \in {"branch", "tag"}, NEW r, r = ruleset_table(m, t)
      PROVE  \A part \in {"status_checks", "pull_request"} :
                /\ get(r, part, Empty) # Misfit
                /\ DOMAIN get(r, part, Empty)
                     \subseteq SUPPORTED_STATUS_CHECK_KEYS \cup PullRequestKeys
    BY <1>4, <1>5 DEF TableOf
<1> QED BY <1>1, <1>2, <1>3, <1>4, <1>5 DEF Understood

LEMMA ActorsAccepted ==
    ASSUME NEW actor, ~BypassRefused(actor)
    PROVE  \/ get(actor, "type", Nil) \in {"repository_admin_role", "organization_admin"}
           \/ actor["type"] = "app" /\ get(AppIds, actor["slug"], Nil) # Nil
           \/ actor["type"] = "integration" /\ "actor_id" \in DOMAIN actor
<1> DEFINE type == get(actor, "type", Nil)
<1>1. /\ type \in {"repository_admin_role", "organization_admin", "app", "integration"}
      /\ type = "app" =>
            get(actor, "slug", Nil) \in DOMAIN AppIds /\ AppIds[actor["slug"]] # Nil
      /\ type = "integration" => get(actor, "actor_id", Nil) # Nil
    BY DEF BypassRefused
<1>2. type \in {"app", "integration"} => actor["type"] = type
    BY NoneAssumption DEF get
<1>3. type = "app" => get(AppIds, actor["slug"], Nil) # Nil
    BY <1>1, NoneAssumption DEF get
<1>4. type = "integration" => "actor_id" \in DOMAIN actor
    BY <1>1 DEF get
<1> QED BY <1>1, <1>2, <1>3, <1>4

LEMMA MethodsAccepted ==
    ASSUME NEW m, ManifestShape(m), load_manifest(m),
           allowed_merge_methods(ruleset_table(m, "branch"), repository(m)) # <<>>
    PROVE  MethodsWanted(m) # {}
<1> DEFINE given == get(get(ruleset_table(m, "branch"), "pull_request", Empty),
                        "allowed_merge_methods", <<>>)
           Flag(k) == get(repository(m), k, FALSE)
<1>1. given # <<>> => ToSet(given) # {}
    BY DEF ManifestShape, ToSet
<1>2. ASSUME given = <<>>
      PROVE  Flag("allow_merge_commit") \/ Flag("allow_squash_merge") \/ Flag("allow_rebase_merge")
    <2>1. derive_allowed_merge_methods(repository(m)) # <<>>
        BY <1>2 DEF allowed_merge_methods
    <2>2. <<>> \o <<>> \o <<>> = <<>>
        OBVIOUS
    <2> QED BY <2>1, <2>2 DEF derive_allowed_merge_methods, Where
<1>3. /\ DOMAIN MergeMethodFlags = {"merge", "squash", "rebase"}
      /\ MergeMethodFlags["merge"] = "allow_merge_commit"
      /\ MergeMethodFlags["squash"] = "allow_squash_merge"
      /\ MergeMethodFlags["rebase"] = "allow_rebase_merge"
    BY DEF MergeMethodFlags
<1> HIDE DEF Flag
<1>4. ASSUME given = <<>>
      PROVE  {method \in DOMAIN MergeMethodFlags : Flag(MergeMethodFlags[method])} # {}
    BY <1>2, <1>3, <1>4
<1> QED BY <1>1, <1>4, NoElements DEF MethodsWanted, Flag

\* What the planner accepts, step by step, is what can be applied as a whole
\* (load_manifest, coerce_dependency_graph_setting, build_ruleset_payload).
LEMMA AcceptedIsApplicable ==
    ASSUME NEW m, ManifestShape(m), load_manifest(m), ~ContradictsDependencyGraph(m),
           \A t \in {"branch", "tag"} : ~RulesetRefused(ruleset_table(m, t), t, repository(m))
    PROVE  Applicable(m)
<1>1. m # Nil /\ Understood(m)
    BY LoadedIsUnderstood DEF load_manifest
<1>2. get(pages(m), "build_type", "workflow") \in SUPPORTED_PAGES_BUILD_TYPES
    BY DEF load_manifest, validate_pages_table, get, pages, ManifestShape, SUPPORTED_PAGES_BUILD_TYPES
<1>3. LET wishes == {security(m)[k] : k \in DOMAIN security(m)
                        \cap {"dependency_graph", "vulnerability_alerts"}}
      IN  Cardinality(wishes) <= 1
    <2>1. \A a, b \in {security(m)[k] : k \in DOMAIN security(m)
                            \cap {"dependency_graph", "vulnerability_alerts"}} : a = b
        BY DEF ContradictsDependencyGraph, ManifestShape, get
    <2> QED BY <2>1, AtMostOne
<1>4. Wanted(m, "branch", "require_pull_request") => MethodsWanted(m) # {}
    BY MethodsAccepted DEF Wanted, RulesetRefused
<1>5. ASSUME NEW t \in {"branch", "tag"}, NEW r, r = ruleset_table(m, t)
      PROVE  \A actor \in ToSet(get(r, "bypass", <<>>)) :
                /\ actor # Misfit
                /\ \/ get(actor, "type", Nil) \in {"repository_admin_role", "organization_admin"}
                   \/ actor["type"] = "app" /\ get(AppIds, actor["slug"], Nil) # Nil
                   \/ actor["type"] = "integration" /\ "actor_id" \in DOMAIN actor
    <2> TAKE actor \in ToSet(get(r, "bypass", <<>>))
    <2>1. PICK i \in DOMAIN get(r, "bypass", <<>>) : actor = get(r, "bypass", <<>>)[i]
        BY DEF ToSet
    <2>2. get(r, "bypass", <<>>)[i] = r["bypass"][i]
        BY <2>1 DEF get
    <2>3. validate_ruleset_table(r, TRUE) \/ validate_ruleset_table(r, FALSE)
        BY <1>5 DEF load_manifest, ruleset_table
    <2>4. actor # Misfit
        BY <2>1, <2>2, <2>3 DEF validate_ruleset_table
    <2>5. ~BypassRefused(actor)
        BY <1>5, <2>1, <2>2 DEF RulesetRefused
    <2> QED BY <2>4, <2>5, ActorsAccepted
<1>6. ASSUME NEW t \in {"branch", "tag"}, NEW r, r = ruleset_table(m, t),
             get(checks(r), "enabled", FALSE)
      PROVE  LET contexts == get(checks(r), "contexts", <<>>)
             IN  /\ contexts # Misfit
                 /\ \A c \in ToSet(contexts) : c # Misfit /\ "context" \in DOMAIN c
    BY <1>6 DEF RulesetRefused, ChecksEnabled, ContextsRefused, contexts_of, ToSet
<1> QED BY <1>1, <1>2, <1>3, <1>4, <1>5, <1>6 DEF Applicable

-----------------------------------------------------------------------------
(* A request speaks of what the manifest speaks of. *)

PayloadOf(m, t) == build_ruleset_payload(ruleset_table(m, t), t, repository(m))

\* The id stands for a ruleset of the target that the manifest speaks of, or
\* for one that is gone.
Manageable(m, t, rulesets, id) ==
    /\ id \in DOMAIN rulesets
    /\ rulesets[id] = Nil \/ id \in ManagedIds(m, rulesets, t)

SpokenOf(m, request, rulesets) ==
    \/ /\ request.kind = "patch_repository"
       /\ DOMAIN request.payload \subseteq
            SettingKeys(m) \cup (DOMAIN security(m) \cap {"advanced_security"})
    \/ /\ request.kind = "toggle"
       /\ request.toggle \in ToSet(Toggles) /\ ToggleWanted(m, request.toggle) # Nil
    \/ /\ request.kind \in {"create_pages", "update_pages"}
       /\ DOMAIN pages(m) # {}
    \/ /\ request.kind = "create_ruleset"
       /\ \E t \in ToSet(Targets) : request.payload = PayloadOf(m, t)
    \/ /\ request.kind = "update_ruleset"
       /\ \E t \in ToSet(Targets) :
            /\ request.payload = PayloadOf(m, t)
            /\ Manageable(m, t, rulesets, request.ruleset_id)

\* What a request, or a person, makes of the repository g keeps its shape and
\* what the runs know of its rulesets.
Keeps(m, g, h) ==
    /\ RepositoryShape(h)
    /\ \A id \in DOMAIN g.rulesets :
        /\ id \in DOMAIN h.rulesets
        /\ \A t \in ToSet(Targets) :
            Manageable(m, t, g.rulesets, id) => Manageable(m, t, h.rulesets, id)

LEMMA SameRulesetsKept ==
    ASSUME NEW m, NEW g, NEW h, RepositoryShape(g),
           DOMAIN h = DOMAIN g, DOMAIN h.toggles = DOMAIN g.toggles, h.rulesets = g.rulesets
    PROVE  Keeps(m, g, h)
BY DEF Keeps, RepositoryShape

\* A ruleset of the manifest, as GitHub keeps it.
LEMMA PayloadIsManaged ==
    ASSUME NEW m, NEW t, NEW stored,
           stored = Merged(PayloadOf(m, t), [source_type |-> "Repository"])
    PROVE  /\ RulesetShape(stored)
           /\ stored.source_type # "Organization"
           /\ stored.target = t /\ stored.name = RulesetNameOf(m, t)
<1> DEFINE p == PayloadOf(m, t)
           s == [source_type |-> "Repository"]
<1>1. {"name", "target", "rules"} \subseteq DOMAIN p
    BY DEF PayloadOf, build_ruleset_payload
<1>2. p.target = t /\ p.name = RulesetNameOf(m, t)
    BY DEF PayloadOf, build_ruleset_payload, RulesetNameOf, ruleset_name
<1>3. DOMAIN s = {"source_type"} /\ s["source_type"] = "Repository"
    OBVIOUS
<1>0. stored = Merged(p, s)
    OBVIOUS
<1> HIDE DEF p, s
<1>4. /\ DOMAIN stored = DOMAIN p \cup {"source_type"}
      /\ stored["source_type"] = "Repository"
      /\ stored["target"] = p["target"] /\ stored["name"] = p["name"]
    <2>1. /\ DOMAIN stored = DOMAIN p \cup DOMAIN s
          /\ \A k \in DOMAIN s : stored[k] = s[k]
          /\ \A k \in DOMAIN p \ DOMAIN s : stored[k] = p[k]
        BY <1>0 DEF Merged
    <2>2. "target" \in DOMAIN p \ DOMAIN s /\ "name" \in DOMAIN p \ DOMAIN s
        BY <1>1, <1>3
    <2> QED BY <1>3, <2>1, <2>2
<1> QED BY <1>1, <1>2, <1>4 DEF RulesetShape

\* A new ruleset of the manifest joins the others.
Joined(m, t, g, h) ==
    LET n == Len(g.rulesets) + 1
    IN  /\ \A id \in DOMAIN g.rulesets : h.rulesets[id] = g.rulesets[id]
        /\ DOMAIN h.rulesets = DOMAIN g.rulesets \cup {n} /\ n \notin DOMAIN g.rulesets
        /\ Manageable(m, t, h.rulesets, n)

LEMMA RulesetAdded ==
    ASSUME NEW m, NEW g, NEW h, NEW new, NEW t, RepositoryShape(g),
           DOMAIN h = DOMAIN g, h.toggles = g.toggles,
           h.rulesets = Append(g.rulesets, new),
           RulesetShape(new), new.source_type # "Organization",
           new.target = t, new.name = RulesetNameOf(m, t)
    PROVE  Keeps(m, g, h) /\ Joined(m, t, g, h)
<1> DEFINE n == Len(g.rulesets) + 1
<1>2. /\ IsSeq(g.rulesets) /\ IsSeq(h.rulesets) /\ h.rulesets[n] = new
      /\ DOMAIN g.rulesets = 1..Len(g.rulesets)
      /\ DOMAIN h.rulesets = 1..(Len(g.rulesets) + 1)
      /\ \A id \in DOMAIN g.rulesets : h.rulesets[id] = g.rulesets[id]
    BY ElementsAppended DEF RepositoryShape, IsSeq
<1>3. Len(g.rulesets) \in Nat
    BY <1>2 DEF IsSeq
<1>4. DOMAIN h.rulesets = DOMAIN g.rulesets \cup {n} /\ n \notin DOMAIN g.rulesets
    BY <1>2, <1>3
<1> HIDE DEF n
<1>5. RepositoryShape(h)
    BY <1>2, <1>4 DEF RepositoryShape, Ids, IsSeq
<1>6. Keeps(m, g, h)
    BY <1>2, <1>4, <1>5 DEF Keeps, Manageable, ManagedIds, Ids
<1>7. Manageable(m, t, h.rulesets, n)
    BY <1>2, <1>4 DEF Manageable, ManagedIds, Ids
<1> QED BY <1>2, <1>4, <1>6, <1>7 DEF n, Joined

\* A ruleset is replaced by one that is managed if it was, or deleted.
LEMMA RulesetReplaced ==
    ASSUME NEW m, NEW g, NEW h, NEW id \in DOMAIN g.rulesets, NEW new, RepositoryShape(g),
           h = [g EXCEPT !.rulesets = [@ EXCEPT ![id] = new]],
           new # Nil => RulesetShape(new),
           new # Nil => \A t \in ToSet(Targets) :
              Manageable(m, t, g.rulesets, id) =>
                /\ new.source_type # "Organization"
                /\ new.target = t /\ new.name = RulesetNameOf(m, t)
    PROVE  /\ Keeps(m, g, h)
           /\ DOMAIN h.rulesets = DOMAIN g.rulesets /\ h.rulesets[id] = new
           /\ \A i \in DOMAIN g.rulesets : i # id => h.rulesets[i] = g.rulesets[i]
<1>1. /\ DOMAIN h = DOMAIN g /\ h.toggles = g.toggles
      /\ h.rulesets = [g.rulesets EXCEPT ![id] = new]
    BY DEF RepositoryShape
<1>2. /\ IsSeq(h.rulesets) /\ DOMAIN h.rulesets = DOMAIN g.rulesets
      /\ h.rulesets[id] = new
      /\ \A i \in DOMAIN g.rulesets : i # id => h.rulesets[i] = g.rulesets[i]
    BY <1>1, ElementReplaced DEF RepositoryShape, IsSeq
<1>3. RepositoryShape(h)
    BY <1>1, <1>2 DEF RepositoryShape, Ids, IsSeq
<1>4. Keeps(m, g, h)
    BY <1>2, <1>3 DEF Keeps, Manageable, ManagedIds, Ids
<1> QED BY <1>2, <1>4

\* Sending a request, whatever became of the repository since it was planned.
LEMMA RequestKeeps ==
    ASSUME NEW m, NEW g, NEW q, RepositoryShape(g), SpokenOf(m, q, g.rulesets),
           ~Refuses(g, q)
    PROVE  Keeps(m, g, Effect(g, q))
<1> DEFINE h == Effect(g, q)
           stored == Merged(q.payload, [source_type |-> "Repository"])
<1>1. CASE q.kind = "patch_repository"
    <2>1. h = [g EXCEPT !.settings = Merged(@, q.payload)]
        BY <1>1 DEF Effect
    <2> QED BY <2>1, SameRulesetsKept DEF RepositoryShape
<1>2. CASE q.kind = "toggle"
    <2>1. h = [g EXCEPT !.toggles = [@ EXCEPT ![q.toggle] = q.enabled]]
        BY <1>2 DEF Effect
    <2> QED BY <2>1, SameRulesetsKept DEF RepositoryShape
<1>3. CASE q.kind \in {"create_pages", "update_pages"}
    <2>1. \E site : h = [g EXCEPT !.pages = site]
        BY <1>3 DEF Effect
    <2> QED BY <2>1, SameRulesetsKept DEF RepositoryShape
<1>4. CASE q.kind = "create_ruleset"
    <2>1. h = [g EXCEPT !.rulesets = Append(@, stored)]
        BY <1>4 DEF Effect
    <2>2. PICK t \in ToSet(Targets) : q.payload = PayloadOf(m, t)
        BY <1>4 DEF SpokenOf
    <2>3. /\ DOMAIN h = DOMAIN g /\ h.toggles = g.toggles
          /\ h.rulesets = Append(g.rulesets, stored)
        BY <2>1 DEF RepositoryShape
    <2> HIDE DEF stored, h
    <2>4. /\ RulesetShape(stored) /\ stored.source_type # "Organization"
          /\ stored.target = t /\ stored.name = RulesetNameOf(m, t)
        BY <2>2, PayloadIsManaged DEF stored
    <2> QED BY <2>3, <2>4, RulesetAdded DEF h
<1>5. CASE q.kind = "update_ruleset"
    <2>1. h = [g EXCEPT !.rulesets = [@ EXCEPT ![q.ruleset_id] = stored]]
        BY <1>5 DEF Effect
    <2>2. PICK t \in ToSet(Targets) :
             q.payload = PayloadOf(m, t) /\ Manageable(m, t, g.rulesets, q.ruleset_id)
        BY <1>5 DEF SpokenOf
    <2>3. q.ruleset_id \in DOMAIN g.rulesets /\ g.rulesets[q.ruleset_id] # Nil
        BY <1>5 DEF Refuses, Ids
    <2>4. \A u \in ToSet(Targets) : Manageable(m, u, g.rulesets, q.ruleset_id) => u = t
        BY <2>2, <2>3 DEF Manageable, ManagedIds
    <2> HIDE DEF stored
    <2>5. /\ RulesetShape(stored) /\ stored.source_type # "Organization"
          /\ stored.target = t /\ stored.name = RulesetNameOf(m, t)
        BY <2>2, PayloadIsManaged DEF stored
    <2> QED BY <2>1, <2>3, <2>4, <2>5, RulesetReplaced
<1> QED BY <1>1, <1>2, <1>3, <1>4, <1>5 DEF SpokenOf

\* The rulesets the manifest does not speak of.
OtherIds(m, rulesets) ==
    {id \in Ids(rulesets) : \A t \in ToSet(Targets) : id \notin ManagedIds(m, rulesets, t)}

LEMMA UnmanagedParts ==
    ASSUME NEW m, NEW g, NEW h, Applicable(m),
           h.private = g.private,
           \A k : k \notin SettingKeys(m) \cup (DOMAIN security(m) \cap {"advanced_security"})
                    => /\ k \in DOMAIN g.settings <=> k \in DOMAIN h.settings
                       /\ k \in DOMAIN g.settings => g.settings[k] = h.settings[k],
           \A t \in ToSet(Toggles) : ToggleWanted(m, t) = Nil => g.toggles[t] = h.toggles[t],
           DOMAIN pages(m) = {} => g.pages = h.pages,
           OtherIds(m, g.rulesets) = OtherIds(m, h.rulesets),
           \A id \in OtherIds(m, g.rulesets) : g.rulesets[id] = h.rulesets[id]
    PROVE  Unmanaged(m, g) = Unmanaged(m, h)
<1> DEFINE K == SettingKeys(m) \cup (DOMAIN security(m) \cap {"advanced_security"})
           T == {u \in ToSet(Toggles) : ToggleWanted(m, u) = Nil}
           MG == UNION {ManagedIds(m, g.rulesets, t) : t \in ToSet(Targets)}
           MH == UNION {ManagedIds(m, h.rulesets, t) : t \in ToSet(Targets)}
<1>1. Restrict(g.settings, DOMAIN g.settings \ K) = Restrict(h.settings, DOMAIN h.settings \ K)
    <2>1. DOMAIN g.settings \ K = DOMAIN h.settings \ K
        OBVIOUS
    <2>2. \A k \in DOMAIN g.settings \ K : g.settings[k] = h.settings[k]
        OBVIOUS
    <2> HIDE DEF K
    <2> QED BY <2>1, <2>2 DEF Restrict
<1>2. [t \in T |-> g.toggles[t]] = [t \in T |-> h.toggles[t]]
    OBVIOUS
<1>3. [id \in Ids(g.rulesets) \ MG |-> g.rulesets[id]] = [id \in Ids(h.rulesets) \ MH |-> h.rulesets[id]]
    <2>1. /\ Ids(g.rulesets) \ MG = OtherIds(m, g.rulesets)
          /\ Ids(h.rulesets) \ MH = OtherIds(m, h.rulesets)
        BY DEF OtherIds
    <2>2. \A id \in Ids(g.rulesets) \ MG : g.rulesets[id] = h.rulesets[id]
        BY <2>1
    <2> HIDE DEF MG, MH
    <2> QED BY <2>1, <2>2
<1> HIDE DEF K, T, MG, MH
<1>4. Unmanaged(m, g) = [private |-> g.private,
                         settings |-> Restrict(g.settings, DOMAIN g.settings \ K),
                         toggles |-> [t \in T |-> g.toggles[t]],
                         pages |-> IF DOMAIN pages(m) = {} THEN g.pages ELSE Nil,
                         rulesets |-> [id \in Ids(g.rulesets) \ MG |-> g.rulesets[id]]]
    BY DEF Unmanaged, K, T, MG
<1>5. Unmanaged(m, h) = [private |-> h.private,
                         settings |-> Restrict(h.settings, DOMAIN h.settings \ K),
                         toggles |-> [t \in T |-> h.toggles[t]],
                         pages |-> IF DOMAIN pages(m) = {} THEN h.pages ELSE Nil,
                         rulesets |-> [id \in Ids(h.rulesets) \ MH |-> h.rulesets[id]]]
    BY DEF Unmanaged, K, T, MH
<1> QED BY <1>1, <1>2, <1>3, <1>4, <1>5

\* It leaves alone what the manifest does not speak of.
LEMMA RequestSpares ==
    ASSUME NEW m, NEW g, NEW q, RepositoryShape(g), SpokenOf(m, q, g.rulesets),
           ~Refuses(g, q), Applicable(m)
    PROVE  Unmanaged(m, g) = Unmanaged(m, Effect(g, q))
<1> DEFINE h == Effect(g, q)
           stored == Merged(q.payload, [source_type |-> "Repository"])
<1>1. CASE q.kind = "patch_repository"
    <2>1. h = [g EXCEPT !.settings = Merged(@, q.payload)]
        BY <1>1 DEF Effect
    <2>2. /\ h.private = g.private /\ h.toggles = g.toggles /\ h.pages = g.pages
          /\ h.rulesets = g.rulesets /\ h.settings = Merged(g.settings, q.payload)
        BY <2>1 DEF RepositoryShape
    <2>3. DOMAIN q.payload \subseteq
            SettingKeys(m) \cup (DOMAIN security(m) \cap {"advanced_security"})
        BY <1>1 DEF SpokenOf
    <2>4. \A k : k \notin DOMAIN q.payload =>
                /\ k \in DOMAIN g.settings <=> k \in DOMAIN h.settings
                /\ k \in DOMAIN g.settings => g.settings[k] = h.settings[k]
        BY <2>2 DEF Merged
    <2> QED BY <2>2, <2>3, <2>4, UnmanagedParts
<1>2. CASE q.kind = "toggle"
    <2>1. h = [g EXCEPT !.toggles = [@ EXCEPT ![q.toggle] = q.enabled]]
        BY <1>2 DEF Effect
    <2>2. /\ h.private = g.private /\ h.settings = g.settings /\ h.pages = g.pages
          /\ h.rulesets = g.rulesets
          /\ \A t \in ToSet(Toggles) : t # q.toggle => h.toggles[t] = g.toggles[t]
        BY <2>1 DEF RepositoryShape
    <2>3. ToggleWanted(m, q.toggle) # Nil
        BY <1>2 DEF SpokenOf
    <2> QED BY <2>2, <2>3, UnmanagedParts
<1>3. CASE q.kind \in {"create_pages", "update_pages"}
    <2>1. \E site : h = [g EXCEPT !.pages = site]
        BY <1>3 DEF Effect
    <2>2. /\ h.private = g.private /\ h.settings = g.settings /\ h.toggles = g.toggles
          /\ h.rulesets = g.rulesets
        BY <2>1 DEF RepositoryShape
    <2>3. DOMAIN pages(m) # {}
        BY <1>3 DEF SpokenOf
    <2> QED BY <2>2, <2>3, UnmanagedParts
<1>4. CASE q.kind = "create_ruleset"
    <2>1. h = [g EXCEPT !.rulesets = Append(@, stored)]
        BY <1>4 DEF Effect
    <2>2. PICK t \in ToSet(Targets) : q.payload = PayloadOf(m, t)
        BY <1>4 DEF SpokenOf
    <2>3. /\ h.private = g.private /\ h.settings = g.settings /\ h.toggles = g.toggles
          /\ h.pages = g.pages /\ DOMAIN h = DOMAIN g
          /\ h.rulesets = Append(g.rulesets, stored)
        BY <2>1 DEF RepositoryShape
    <2> DEFINE n == Len(g.rulesets) + 1
    <2>4. /\ \A id \in DOMAIN g.rulesets : h.rulesets[id] = g.rulesets[id]
          /\ DOMAIN h.rulesets = DOMAIN g.rulesets \cup {n}
          /\ n \notin DOMAIN g.rulesets
          /\ Manageable(m, t, h.rulesets, n)
        <3> HIDE DEF stored, h
        <3>1. /\ RulesetShape(stored) /\ stored.source_type # "Organization"
              /\ stored.target = t /\ stored.name = RulesetNameOf(m, t)
            BY <2>2, PayloadIsManaged DEF stored
        <3>2. Joined(m, t, g, h)
            BY <2>3, <3>1, RulesetAdded
        <3> QED BY <3>2 DEF Joined
    <2> HIDE DEF n, h, stored
    <2>5. OtherIds(m, g.rulesets) = OtherIds(m, h.rulesets)
        BY <2>4 DEF OtherIds, Ids, ManagedIds, Manageable
    <2>6. \A id \in OtherIds(m, g.rulesets) : h.rulesets[id] = g.rulesets[id]
        BY <2>4 DEF OtherIds, Ids
    <2> QED BY <2>3, <2>5, <2>6, UnmanagedParts DEF h
<1>5. CASE q.kind = "update_ruleset"
    <2>1. h = [g EXCEPT !.rulesets = [@ EXCEPT ![q.ruleset_id] = stored]]
        BY <1>5 DEF Effect
    <2>2. PICK t \in ToSet(Targets) :
             q.payload = PayloadOf(m, t) /\ Manageable(m, t, g.rulesets, q.ruleset_id)
        BY <1>5 DEF SpokenOf
    <2>3. q.ruleset_id \in DOMAIN g.rulesets /\ g.rulesets[q.ruleset_id] # Nil
        BY <1>5 DEF Refuses, Ids
    <2>4. /\ h.private = g.private /\ h.settings = g.settings /\ h.toggles = g.toggles
          /\ h.pages = g.pages
          /\ h.rulesets = [g.rulesets EXCEPT ![q.ruleset_id] = stored]
        BY <2>1 DEF RepositoryShape
    <2> HIDE DEF h, stored
    <2>5. /\ DOMAIN h.rulesets = DOMAIN g.rulesets /\ h.rulesets[q.ruleset_id] = stored
          /\ \A i \in DOMAIN g.rulesets : i # q.ruleset_id => h.rulesets[i] = g.rulesets[i]
        BY <2>3, <2>4
    <2>6. /\ stored.source_type # "Organization"
          /\ stored.target = t /\ stored.name = RulesetNameOf(m, t)
        BY <2>2, PayloadIsManaged DEF stored
    <2>7. q.ruleset_id \notin OtherIds(m, g.rulesets) /\ q.ruleset_id \notin OtherIds(m, h.rulesets)
        BY <2>2, <2>3, <2>5, <2>6 DEF OtherIds, Manageable, Ids, ManagedIds
    <2>8. \A id : id # q.ruleset_id => (id \in OtherIds(m, g.rulesets) <=> id \in OtherIds(m, h.rulesets))
        BY <2>5 DEF OtherIds, Ids, ManagedIds
    <2>9. OtherIds(m, g.rulesets) = OtherIds(m, h.rulesets)
        BY <2>7, <2>8
    <2>10. \A id \in OtherIds(m, g.rulesets) : h.rulesets[id] = g.rulesets[id]
        BY <2>5, <2>7 DEF OtherIds, Ids
    <2> QED BY <2>4, <2>9, <2>10, UnmanagedParts DEF h
<1> QED BY <1>1, <1>2, <1>3, <1>4, <1>5 DEF SpokenOf

-----------------------------------------------------------------------------
(* What is planned. *)

\* A planned change is one of the keys that can drift, and its requests, at
\* least one, speak of what the manifest speaks of.
ChangeFits(m, change, rulesets) ==
    /\ DOMAIN change = {"key", "requests"}
    /\ change.key \in DriftKeys
    /\ IsSeq(change.requests) /\ change.requests # <<>>
    /\ \A q \in ToSet(change.requests) : SpokenOf(m, q, rulesets)

ChangesFit(m, changes, rulesets) ==
    /\ IsSeq(changes)
    /\ \A change \in ToSet(changes) : ChangeFits(m, change, rulesets)

LEMMA NoChangeFits ==
    ASSUME NEW m, NEW rulesets
    PROVE  ChangesFit(m, <<>>, rulesets)
BY NoElements DEF ChangesFit

LEMMA OneChangeFits ==
    ASSUME NEW m, NEW rulesets, NEW key \in DriftKeys, NEW requests,
           IsSeq(requests), requests # <<>>,
           \A q \in ToSet(requests) : SpokenOf(m, q, rulesets)
    PROVE  ChangesFit(m, Change(key, requests), rulesets)
<1> DEFINE change == [key |-> key, requests |-> requests]
<1>1. /\ DOMAIN change = {"key", "requests"}
      /\ change.key = key /\ change.requests = requests
    OBVIOUS
<1> HIDE DEF change
<1>2. ChangeFits(m, change, rulesets)
    BY <1>1 DEF ChangeFits
<1>3. Change(key, requests) = <<change>>
    BY DEF Change, change
<1> QED BY <1>2, <1>3, OneElement DEF ChangesFit

LEMMA OneRequestFits ==
    ASSUME NEW m, NEW rulesets, NEW key \in DriftKeys, NEW q, SpokenOf(m, q, rulesets)
    PROVE  ChangesFit(m, Change(key, <<q>>), rulesets)
<1>1. IsSeq(<<q>>) /\ <<q>> # <<>> /\ ToSet(<<q>>) = {q}
    BY OneElement
<1> QED BY <1>1, OneChangeFits

LEMMA JoinedChangesFit ==
    ASSUME NEW m, NEW rulesets, NEW a, NEW b,
           ChangesFit(m, a, rulesets), ChangesFit(m, b, rulesets)
    PROVE  ChangesFit(m, a \o b, rulesets)
BY ElementsJoined DEF ChangesFit

LEMMA SentChangesFit ==
    ASSUME NEW m, NEW rulesets, NEW changes, ChangesFit(m, changes, rulesets), changes # <<>>
    PROVE  /\ SpokenOf(m, Head(Head(changes).requests), rulesets)
           /\ ChangesFit(m, Sent(changes), rulesets)
<1>1. /\ Head(changes) \in ToSet(changes)
      /\ IsSeq(Tail(changes)) /\ ToSet(Tail(changes)) \subseteq ToSet(changes)
    BY ElementsLeft DEF ChangesFit
<1>2. /\ DOMAIN Head(changes) = {"key", "requests"} /\ Head(changes).key \in DriftKeys
      /\ IsSeq(Head(changes).requests) /\ Head(changes).requests # <<>>
      /\ \A q \in ToSet(Head(changes).requests) : SpokenOf(m, q, rulesets)
    BY <1>1 DEF ChangesFit, ChangeFits
<1> DEFINE requests == Tail(Head(changes).requests)
           change == [Head(changes) EXCEPT !.requests = requests]
<1>3. /\ Head(Head(changes).requests) \in ToSet(Head(changes).requests)
      /\ IsSeq(requests) /\ ToSet(requests) \subseteq ToSet(Head(changes).requests)
    BY <1>2, ElementsLeft
<1>4. ChangesFit(m, Tail(changes), rulesets)
    BY <1>1 DEF ChangesFit
<1>5. ASSUME requests # <<>>
      PROVE  ChangesFit(m, <<change>> \o Tail(changes), rulesets)
    <2>1. /\ DOMAIN change = {"key", "requests"}
          /\ change.key = Head(changes).key /\ change.requests = requests
        BY <1>2
    <2> HIDE DEF change
    <2>2. ChangeFits(m, change, rulesets)
        BY <1>2, <1>3, <1>5, <2>1 DEF ChangeFits
    <2>3. ChangesFit(m, <<change>>, rulesets)
        BY <2>2, OneElement DEF ChangesFit
    <2> QED BY <1>4, <2>3, JoinedChangesFit
<1> QED BY <1>2, <1>3, <1>4, <1>5 DEF Sent

\* A toggle the planner reads is one the manifest speaks of.
LEMMA TogglesWanted ==
    ASSUME NEW m, load_manifest(m), ManifestShape(m), NEW t \in ToSet(Toggles),
           toggle_desired(m)[t] # Nil
    PROVE  ToggleWanted(m, t) # Nil
<1>1. /\ \A k \in DOMAIN security(m) : security(m)[k] # Nil
      /\ t = "immutable_releases" =>
            toggle_desired(m)[t] = get(repository(m), "immutable_releases", Nil)
      /\ t = "private_vulnerability_reporting" =>
            toggle_desired(m)[t] = get(security(m), "private_vulnerability_reporting", Nil)
      /\ t = "vulnerability_alerts" =>
            toggle_desired(m)[t] = coerce_dependency_graph_setting(m)
      /\ t = "automated_security_fixes" =>
            toggle_desired(m)[t] = get(security(m), "automated_security_fixes", Nil)
    BY DEF toggle_desired, ManifestShape
<1>2. t \in {"vulnerability_alerts", "immutable_releases",
             "private_vulnerability_reporting", "automated_security_fixes"}
    BY ToggleNames
<1> QED BY <1>1, <1>2 DEF ToggleWanted, coerce_dependency_graph_setting, get

LEMMA SettingsChangeFits ==
    ASSUME NEW rulesets
    PROVE  ChangesFit(manifest, SettingsChange, rulesets)
<1> DEFINE desired == build_repository_patch(manifest)
           keys == {k \in DOMAIN desired : get(github.settings, k, Nil) # desired[k]}
           q == [kind |-> "patch_repository", payload |-> [k \in keys |-> desired[k]]]
<1>1. DOMAIN desired \subseteq SettingKeys(manifest)
    BY DEF build_repository_patch, SettingKeys, SUPPORTED_REPOSITORY_FIELDS
<1>2. DOMAIN q.payload \subseteq SettingKeys(manifest) /\ q.kind = "patch_repository"
    BY <1>1
<1>3. SettingsChange = IF keys = {} THEN <<>> ELSE Change("repository.settings", <<q>>)
    BY DEF SettingsChange
<1> HIDE DEF desired, keys, q
<1>4. SpokenOf(manifest, q, rulesets)
    BY <1>2 DEF SpokenOf
<1>5. "repository.settings" \in DriftKeys
    BY DEF DriftKeys
<1> QED BY <1>3, <1>4, <1>5, OneRequestFits, NoChangeFits

LEMMA AdvancedSecurityChangeFits ==
    ASSUME NEW rulesets
    PROVE  ChangesFit(manifest, AdvancedSecurityChange, rulesets)
<1> DEFINE desired == get(security(manifest), "advanced_security", Nil)
           q == [kind |-> "patch_repository", payload |-> [advanced_security |-> desired]]
<1>1. CASE AdvancedSecurityChange = <<>>
    BY <1>1, NoChangeFits
<1>2. CASE AdvancedSecurityChange # <<>>
    <2>1. desired # Nil /\ AdvancedSecurityChange = Change("security.advanced_security", <<q>>)
        BY <1>2 DEF AdvancedSecurityChange
    <2>2. "advanced_security" \in DOMAIN security(manifest)
        BY <2>1 DEF get
    <2>3. q.kind = "patch_repository" /\ DOMAIN q.payload = {"advanced_security"}
        OBVIOUS
    <2> HIDE DEF desired, q
    <2>4. SpokenOf(manifest, q, rulesets)
        BY <2>2, <2>3 DEF SpokenOf
    <2>5. "security.advanced_security" \in DriftKeys
        BY DEF DriftKeys
    <2> QED BY <2>1, <2>4, <2>5, OneRequestFits
<1> QED BY <1>1, <1>2

LEMMA ToggleChangeFits ==
    ASSUME NEW rulesets, NEW t \in ToSet(Toggles), ToggleWanted(manifest, t) # Nil
    PROVE  ChangesFit(manifest, ToggleChange(t), rulesets)
<1> DEFINE q == [kind |-> "toggle", toggle |-> t, enabled |-> toggle_desired(manifest)[t]]
<1>1. ToggleChange(t) = <<>> \/ ToggleChange(t) = Change(t, <<q>>)
    BY DEF ToggleChange
<1>2. q.kind = "toggle" /\ q.toggle = t
    OBVIOUS
<1> HIDE DEF q
<1>3. SpokenOf(manifest, q, rulesets)
    BY <1>2 DEF SpokenOf
<1>4. t \in DriftKeys
    BY DEF DriftKeys
<1> QED BY <1>1, <1>3, <1>4, OneRequestFits, NoChangeFits

LEMMA PagesChangeFits ==
    ASSUME NEW rulesets, DOMAIN pages(manifest) # {}
    PROVE  ChangesFit(manifest, PagesChange, rulesets)
<1> DEFINE desired == build_pages_state(manifest)
           rest    == [k \in DOMAIN desired \ {"build_type"} |-> desired[k]]
           create  == [kind |-> "create_pages",
                       payload |-> [build_type |-> desired["build_type"]]]
           Put(payload) == [kind |-> "update_pages", payload |-> payload]
           more == IF rest = Empty THEN <<>> ELSE <<Put(rest)>>
<1>1. \/ PagesChange = <<>>
      \/ PagesChange = Change("pages.site", <<create>> \o more)
      \/ PagesChange = Change("pages.site", <<Put(desired)>>)
    BY DEF PagesChange
<1>2. create.kind = "create_pages" /\ \A p : Put(p).kind = "update_pages"
    OBVIOUS
<1> HIDE DEF create, Put, rest, desired
<1>3. SpokenOf(manifest, create, rulesets) /\ \A p : SpokenOf(manifest, Put(p), rulesets)
    BY <1>2 DEF SpokenOf
<1>4. IsSeq(more) /\ \A q \in ToSet(more) : SpokenOf(manifest, q, rulesets)
    BY <1>3, NoElements, OneElement
<1> HIDE DEF more
<1>5. /\ IsSeq(<<create>> \o more)
      /\ \A q \in ToSet(<<create>> \o more) : SpokenOf(manifest, q, rulesets)
      /\ create \in ToSet(<<create>> \o more)
    BY <1>3, <1>4, OneElement, ElementsJoined
<1>6. <<create>> \o more # <<>>
    BY <1>5, NoElements
<1>7. "pages.site" \in DriftKeys
    BY DEF DriftKeys
<1> QED BY <1>1, <1>3, <1>5, <1>6, <1>7, OneRequestFits, OneChangeFits, NoChangeFits

LEMMA RulesetChangeFits ==
    ASSUME NEW rulesets, NEW found, NEW t \in ToSet(Targets),
           t \in DOMAIN found => Manageable(manifest, t, rulesets, found[t].id)
    PROVE  ChangesFit(manifest, RulesetChange(found, t), rulesets)
<1> DEFINE create == [kind |-> "create_ruleset", payload |-> Payload(t)]
           update == [kind |-> "update_ruleset", ruleset_id |-> found[t].id,
                      payload |-> Payload(t)]
<1>1. \/ RulesetChange(found, t) = <<>>
      \/ RulesetChange(found, t) = Change(RulesetKey(t), <<create>>)
      \/ t \in DOMAIN found /\ RulesetChange(found, t) = Change(RulesetKey(t), <<update>>)
    BY DEF RulesetChange
<1>2. /\ create.kind = "create_ruleset" /\ create.payload = PayloadOf(manifest, t)
      /\ update.kind = "update_ruleset" /\ update.payload = PayloadOf(manifest, t)
      /\ update.ruleset_id = found[t].id
    BY DEF Payload, PayloadOf
<1> HIDE DEF create, update
<1>3. SpokenOf(manifest, create, rulesets)
    BY <1>2 DEF SpokenOf
<1>4. t \in DOMAIN found => SpokenOf(manifest, update, rulesets)
    BY <1>2 DEF SpokenOf
<1>5. RulesetKey(t) \in DriftKeys
    BY DEF DriftKeys, RulesetKey
<1> QED BY <1>1, <1>3, <1>4, <1>5, OneRequestFits, NoChangeFits

-----------------------------------------------------------------------------
(* The inductive invariant. *)

ReadsFit(m, reads) ==
    /\ IsSeq(reads)
    /\ \A t \in ToSet(reads) :
        \/ t \in ToSet(Toggles) /\ ToggleWanted(m, t) # Nil
        \/ t = "pages" /\ DOMAIN pages(m) # {}

\* The rulesets a run is about to fetch, and those it fetched, are of the
\* manifest, or gone.
RulesetsFit(m, x, rulesets) ==
    /\ \A id \in x.ids : \E t \in ToSet(Targets) : Manageable(m, t, rulesets, id)
    /\ DOMAIN x.found \subseteq ToSet(Targets)
    /\ \A t \in DOMAIN x.found : Manageable(m, t, rulesets, x.found[t].id)

\* What a run has passed of the checks that refuse a manifest.
ChecksPassed(m, pc) ==
    /\ pc \in {"repository", "reads", "rulesets", "apply"} => load_manifest(m)
    /\ pc \in {"reads", "rulesets", "apply"} => ~ContradictsDependencyGraph(m)
    /\ pc \in {"rulesets", "apply"} =>
          \A t \in {"branch", "tag"} : ~RulesetRefused(ruleset_table(m, t), t, repository(m))

RunFields == {"pc", "mode", "changes", "reads", "ids", "found", "disturbed"}

RunFits(m, x, rulesets) ==
    /\ DOMAIN x = RunFields
    /\ x.pc \in {"idle", "repository", "reads", "rulesets", "apply", "succeeded", "failed"}
    /\ x.mode \in {"plan", "apply"}
    /\ x.disturbed \in BOOLEAN
    /\ x.pc = "idle" => x = Idle
    /\ ChecksPassed(m, x.pc)
    /\ ChangesFit(m, x.changes, rulesets)
    /\ ReadsFit(m, x.reads)
    /\ RulesetsFit(m, x, rulesets)

CInv ==
    /\ ManifestShape(manifest) /\ RepositoryShape(github)
    /\ DOMAIN run = Runs
    /\ \A r \in Runs : RunFits(manifest, run[r], github.rulesets)
    /\ failures \in 0..MaxFailures /\ edits \in 0..MaxEdits

LEMMA CInvTypeOK == CInv => TypeOK
<1> SUFFICES ASSUME CInv PROVE TypeOK
    OBVIOUS
<1>1. ASSUME NEW r \in Runs
      PROVE  /\ \A i \in DOMAIN run[r].changes :
                  /\ run[r].changes[i].key \in DriftKeys
                  /\ run[r].changes[i].requests # <<>>
             /\ run[r].reads \in Seq(ToSet(Toggles) \cup {"pages"})
             /\ run[r].ids \subseteq DOMAIN github.rulesets
    <2>1. /\ ChangesFit(manifest, run[r].changes, github.rulesets)
          /\ ReadsFit(manifest, run[r].reads)
          /\ RulesetsFit(manifest, run[r], github.rulesets)
        BY DEF CInv, RunFits
    <2>2. run[r].reads \in Seq(ToSet(Toggles) \cup {"pages"})
        <3>1. run[r].reads \in Seq(ToSet(run[r].reads))
            BY <2>1 DEF ReadsFit, IsSeq
        <3>2. ToSet(run[r].reads) \subseteq ToSet(Toggles) \cup {"pages"}
            BY <2>1 DEF ReadsFit
        <3> QED BY <3>1, <3>2
    <2>3. run[r].ids \subseteq DOMAIN github.rulesets
        BY <2>1 DEF RulesetsFit, Manageable
    <2> QED BY <2>1, <2>2, <2>3 DEF ChangesFit, ChangeFits, ToSet
<1>2. ASSUME NEW r \in Runs
      PROVE  /\ run[r].pc \in {"idle", "repository", "reads", "rulesets", "apply",
                               "succeeded", "failed"}
             /\ run[r].mode \in {"plan", "apply"}
             /\ run[r].disturbed \in BOOLEAN
             /\ DOMAIN run[r].found \subseteq ToSet(Targets)
             /\ At(r, "idle") => run[r] = Idle
    BY DEF CInv, RunFits, RulesetsFit, At
<1>3. DOMAIN github.toggles = ToSet(Toggles)
    BY DEF CInv, RepositoryShape
<1> QED BY <1>1, <1>2, <1>3 DEF CInv, TypeOK

LEMMA IdleFits ==
    ASSUME NEW m, NEW rulesets
    PROVE  RunFits(m, Idle, rulesets)
<1>1. /\ DOMAIN Idle = RunFields /\ Idle.pc = "idle" /\ Idle.mode = "plan"
      /\ Idle.disturbed = FALSE /\ Idle.changes = <<>> /\ Idle.reads = <<>>
      /\ Idle.ids = {} /\ Idle.found = <<>>
    BY DEF Idle, RunFields, Empty
<1> HIDE DEF Idle
<1>2. ChecksPassed(m, Idle.pc) /\ RulesetsFit(m, Idle, rulesets)
    BY <1>1 DEF ChecksPassed, RulesetsFit
<1>3. ReadsFit(m, Idle.reads) /\ ChangesFit(m, Idle.changes, rulesets)
    BY <1>1, NoElements, NoChangeFits DEF ReadsFit
<1> QED BY <1>1, <1>2, <1>3 DEF RunFits

LEMMA InitCInv == Init => CInv
<1> SUFFICES ASSUME Init PROVE CInv
    OBVIOUS
<1>1. ManifestShape(manifest) /\ RepositoryShape(github)
    BY WorldsAssumption DEF Init
<1>2. DOMAIN run = Runs /\ \A r \in Runs : RunFits(manifest, run[r], github.rulesets)
    BY IdleFits DEF Init
<1>3. failures \in 0..MaxFailures /\ edits \in 0..MaxEdits
    BY BoundsAssumption DEF Init
<1> QED BY <1>1, <1>2, <1>3 DEF CInv

\* A run is as it was, but disturbed perhaps, while the repository changed.
LEMMA RunStillFits ==
    ASSUME NEW m, NEW g, NEW h, NEW x, NEW y, Keeps(m, g, h), RunFits(m, x, g.rulesets),
           y = x \/ (x.pc # "idle" /\ y = [x EXCEPT !.disturbed = TRUE])
    PROVE  RunFits(m, y, h.rulesets)
<1>1. \A t \in ToSet(Targets) : \A id :
          Manageable(m, t, g.rulesets, id) => Manageable(m, t, h.rulesets, id)
    BY DEF Keeps, Manageable
<1>2. \A q : SpokenOf(m, q, g.rulesets) => SpokenOf(m, q, h.rulesets)
    BY <1>1 DEF SpokenOf
<1>3. /\ DOMAIN y = RunFields /\ y.pc = x.pc /\ y.mode = x.mode /\ y.changes = x.changes
      /\ y.reads = x.reads /\ y.ids = x.ids /\ y.found = x.found
      /\ y.disturbed \in BOOLEAN /\ (x.pc = "idle" => y = x)
    BY DEF RunFits, RunFields
<1>4. ChangesFit(m, y.changes, h.rulesets)
    BY <1>2, <1>3 DEF RunFits, ChangesFit, ChangeFits
<1>5. RulesetsFit(m, y, h.rulesets)
    BY <1>1, <1>3 DEF RunFits, RulesetsFit
<1> QED BY <1>3, <1>4, <1>5 DEF RunFits

-----------------------------------------------------------------------------
(* One run takes a step and the repository stays. *)

LEMMA OneRunSteps ==
    ASSUME CInv, NEW r \in Runs, UNCHANGED <<manifest, github, edits>>,
           failures' \in 0..MaxFailures, NEW x, run' = [run EXCEPT ![r] = x],
           RunFits(manifest, x, github.rulesets)
    PROVE  CInv'
BY DEF CInv

\* A run that ends, or goes on without having read anything.
LEMMA RunGoes ==
    ASSUME CInv, NEW r \in Runs, UNCHANGED <<manifest, github, edits>>,
           failures' \in 0..MaxFailures, NEW pc, Goto(r, pc),
           pc \in {"failed", "succeeded"}
    PROVE  CInv'
<1> DEFINE x == [run[r] EXCEPT !.pc = pc]
<1>1. run' = [run EXCEPT ![r] = x]
    BY DEF Goto
<1>2. RunFits(manifest, run[r], github.rulesets)
    BY DEF CInv
<1>3. /\ DOMAIN x = RunFields /\ x.pc = pc /\ x.mode = run[r].mode
      /\ x.changes = run[r].changes /\ x.reads = run[r].reads /\ x.ids = run[r].ids
      /\ x.found = run[r].found /\ x.disturbed = run[r].disturbed
    BY <1>2 DEF RunFits, RunFields
<1> HIDE DEF x
<1>4. RunFits(manifest, x, github.rulesets)
    BY <1>2, <1>3 DEF RunFits, ChecksPassed, RulesetsFit
<1> QED BY <1>1, <1>4, OneRunSteps

LEMMA StartKeeps ==
    ASSUME CInv, NEW r \in Runs, NEW mode \in {"plan", "apply"}, Start(r, mode)
    PROVE  CInv'
<1> DEFINE pc == IF load_manifest(manifest) THEN "repository" ELSE "failed"
           x == [run[r] EXCEPT !.mode = mode, !.pc = pc]
<1>1. run' = [run EXCEPT ![r] = x] /\ UNCHANGED <<manifest, github, failures, edits>>
    BY DEF Start
<1>2. RunFits(manifest, run[r], github.rulesets)
    BY DEF CInv
<1>3. /\ DOMAIN x = RunFields /\ x.pc = pc /\ x.mode = mode
      /\ x.changes = run[r].changes /\ x.reads = run[r].reads /\ x.ids = run[r].ids
      /\ x.found = run[r].found /\ x.disturbed = run[r].disturbed
    BY <1>2 DEF RunFits, RunFields
<1> HIDE DEF x
<1>4. RunFits(manifest, x, github.rulesets)
    BY <1>2, <1>3 DEF RunFits, ChecksPassed, RulesetsFit
<1> QED BY <1>1, <1>4, OneRunSteps DEF CInv

LEMMA TogglesToReadFit ==
    ASSUME load_manifest(manifest), ManifestShape(manifest)
    PROVE  ReadsFit(manifest, TogglesToRead \o Where(DOMAIN pages(manifest) # {}, "pages"))
<1> DEFINE Read(t) == Where(toggle_desired(manifest)[t] # Nil, t)
           site == Where(DOMAIN pages(manifest) # {}, "pages")
<1>1. ASSUME NEW t \in ToSet(Toggles)
      PROVE  ReadsFit(manifest, Read(t))
    <2>1. \/ toggle_desired(manifest)[t] # Nil /\ Read(t) = <<t>>
          \/ Read(t) = <<>>
        BY DEF Where
    <2> HIDE DEF Read
    <2> QED BY <2>1, NoElements, OneElement, TogglesWanted DEF ReadsFit
<1>2. ReadsFit(manifest, site)
    BY NoElements, OneElement DEF ReadsFit, Where
<1>3. ASSUME NEW a, NEW b, ReadsFit(manifest, a), ReadsFit(manifest, b)
      PROVE  ReadsFit(manifest, a \o b)
    BY <1>3, ElementsJoined DEF ReadsFit
<1>4. TogglesToRead = ((Read("vulnerability_alerts") \o Read("immutable_releases"))
                        \o Read("private_vulnerability_reporting"))
                       \o Read("automated_security_fixes")
    BY DEF TogglesToRead
<1> HIDE DEF Read, site
<1> QED BY <1>1, <1>2, <1>3, <1>4, ToggleNames DEF site

LEMMA ReadRepositoryKeeps ==
    ASSUME CInv, NEW r \in Runs, ReadRepository(r)
    PROVE  CInv'
<1> DEFINE changes == SettingsChange \o AdvancedSecurityChange
           reads == TogglesToRead \o Where(DOMAIN pages(manifest) # {}, "pages")
           x == [run[r] EXCEPT !.changes = changes, !.reads = reads, !.pc = "reads"]
<1>1. UNCHANGED <<manifest, github, failures, edits>> /\ run[r].pc = "repository"
    BY DEF ReadRepository, At
<1>2. CASE ContradictsDependencyGraph(manifest)
    BY <1>1, <1>2, RunGoes DEF ReadRepository, Fails, CInv
<1>3. CASE ~ContradictsDependencyGraph(manifest)
    <2>1. run' = [run EXCEPT ![r] = x]
        BY <1>3 DEF ReadRepository
    <2>2. RunFits(manifest, run[r], github.rulesets) /\ ManifestShape(manifest)
        BY DEF CInv
    <2>3. load_manifest(manifest)
        BY <1>1, <2>2 DEF RunFits, ChecksPassed
    <2>4. ReadsFit(manifest, reads)
        BY <2>2, <2>3, TogglesToReadFit
    <2>5. ChangesFit(manifest, changes, github.rulesets)
        BY SettingsChangeFits, AdvancedSecurityChangeFits, JoinedChangesFit
    <2> HIDE DEF changes, reads
    <2>6. /\ DOMAIN x = RunFields /\ x.pc = "reads" /\ x.mode = run[r].mode
          /\ x.changes = changes /\ x.reads = reads /\ x.ids = run[r].ids
          /\ x.found = run[r].found /\ x.disturbed = run[r].disturbed
        BY <2>2 DEF RunFits, RunFields
    <2> HIDE DEF x
    <2>7. RunFits(manifest, x, github.rulesets)
        BY <1>3, <2>2, <2>3, <2>4, <2>5, <2>6 DEF RunFits, ChecksPassed, RulesetsFit
    <2> QED BY <1>1, <2>1, <2>7, OneRunSteps DEF CInv
<1> QED BY <1>2, <1>3

\* A run that read one thing more.
LEMMA ReadingKeeps ==
    ASSUME CInv, NEW r \in Runs, UNCHANGED <<manifest, github, failures, edits>>,
           run[r].pc = "reads", run[r].reads # <<>>,
           NEW more, ChangesFit(manifest, more, github.rulesets),
           run' = [run EXCEPT ![r].reads = Tail(@), ![r].changes = @ \o more]
    PROVE  CInv'
<1> DEFINE x == [run[r] EXCEPT !.reads = Tail(@), !.changes = @ \o more]
<1>1. run' = [run EXCEPT ![r] = x]
    OBVIOUS
<1>2. RunFits(manifest, run[r], github.rulesets)
    BY DEF CInv
<1>3. /\ DOMAIN x = RunFields /\ x.pc = run[r].pc /\ x.mode = run[r].mode
      /\ x.changes = run[r].changes \o more /\ x.reads = Tail(run[r].reads)
      /\ x.ids = run[r].ids /\ x.found = run[r].found /\ x.disturbed = run[r].disturbed
    BY <1>2 DEF RunFits, RunFields
<1>4. ReadsFit(manifest, Tail(run[r].reads))
    BY <1>2, ElementsLeft DEF RunFits, ReadsFit
<1>5. ChangesFit(manifest, run[r].changes \o more, github.rulesets)
    BY <1>2, JoinedChangesFit DEF RunFits
<1> HIDE DEF x
<1>6. RunFits(manifest, x, github.rulesets)
    BY <1>2, <1>3, <1>4, <1>5 DEF RunFits, RulesetsFit
<1> QED BY <1>1, <1>6, OneRunSteps DEF CInv

LEMMA ReadToggleKeeps ==
    ASSUME CInv, NEW r \in Runs, ReadToggle(r)
    PROVE  CInv'
<1> DEFINE t == Head(run[r].reads)
<1>1. /\ run[r].pc = "reads" /\ run[r].reads # <<>> /\ t # "pages"
      /\ run' = [run EXCEPT ![r].reads = Tail(@), ![r].changes = @ \o ToggleChange(t)]
      /\ UNCHANGED <<manifest, github, failures, edits>>
    BY DEF ReadToggle, At
<1>2. ReadsFit(manifest, run[r].reads)
    BY DEF CInv, RunFits
<1>3. t \in ToSet(Toggles) /\ ToggleWanted(manifest, t) # Nil
    BY <1>1, <1>2, ElementsLeft DEF ReadsFit
<1> QED BY <1>1, <1>3, ToggleChangeFits, ReadingKeeps

LEMMA ReadPagesKeeps ==
    ASSUME CInv, NEW r \in Runs, ReadPages(r)
    PROVE  CInv'
<1>1. /\ run[r].pc = "reads" /\ run[r].reads # <<>> /\ Head(run[r].reads) = "pages"
      /\ run' = [run EXCEPT ![r].reads = Tail(@), ![r].changes = @ \o PagesChange]
      /\ UNCHANGED <<manifest, github, failures, edits>>
    BY DEF ReadPages, At
<1>2. ReadsFit(manifest, run[r].reads)
    BY DEF CInv, RunFits
<1>3. DOMAIN pages(manifest) # {}
    BY <1>1, <1>2, ElementsLeft, ToggleNames DEF ReadsFit
<1> QED BY <1>1, <1>3, PagesChangeFits, ReadingKeeps

LEMMA ListRulesetsKeeps ==
    ASSUME CInv, NEW r \in Runs, ListRulesets(r)
    PROVE  CInv'
<1>1. UNCHANGED <<manifest, github, failures, edits>> /\ run[r].pc = "reads"
    BY DEF ListRulesets, At
<1> DEFINE refused == \E i \in DOMAIN Targets :
                RulesetRefused(ruleset_table(manifest, Targets[i]), Targets[i],
                               repository(manifest))
<1>2. CASE refused
    BY <1>1, <1>2, RunGoes DEF ListRulesets, Fails, CInv
<1>3. CASE ~refused
    <2>1. PICK page \in Pages(github.rulesets) :
             run' = [run EXCEPT ![r].pc = "rulesets",
                                ![r].ids = {id \in page : \E i \in DOMAIN Targets :
                                    IsManaged(github.rulesets[id], Targets[i])}]
        BY <1>3 DEF ListRulesets
    <2> DEFINE ids == {id \in page : \E i \in DOMAIN Targets :
                                    IsManaged(github.rulesets[id], Targets[i])}
               x == [run[r] EXCEPT !.pc = "rulesets", !.ids = ids]
    <2>2. run' = [run EXCEPT ![r] = x]
        BY <2>1
    <2>3. RunFits(manifest, run[r], github.rulesets)
        BY DEF CInv
    <2>4. page \subseteq Ids(github.rulesets)
        BY DEF Pages, kSubset
    <2>5. \A id \in ids : \E t \in ToSet(Targets) : Manageable(manifest, t, github.rulesets, id)
        <3> TAKE id \in ids
        <3>1. PICK i \in DOMAIN Targets : IsManaged(github.rulesets[id], Targets[i])
            OBVIOUS
        <3>2. id \in ManagedIds(manifest, github.rulesets, Targets[i])
            BY <2>4, <3>1, NoneAssumption
               DEF IsManaged, NameOf, ManagedIds, RulesetNameOf, ruleset_name
        <3> QED BY <3>2, TargetNames DEF Manageable, ManagedIds, Ids
    <2> HIDE DEF ids
    <2>6. /\ DOMAIN x = RunFields /\ x.pc = "rulesets" /\ x.mode = run[r].mode
          /\ x.changes = run[r].changes /\ x.reads = run[r].reads /\ x.ids = ids
          /\ x.found = run[r].found /\ x.disturbed = run[r].disturbed
        BY <2>3 DEF RunFits, RunFields
    <2> HIDE DEF x
    <2>7. ChecksPassed(manifest, "rulesets")
        <3>1. \A t \in {"branch", "tag"} :
                 ~RulesetRefused(ruleset_table(manifest, t), t, repository(manifest))
            BY <1>3, TargetNames
        <3> QED BY <1>1, <2>3, <3>1 DEF RunFits, ChecksPassed
    <2>8. RunFits(manifest, x, github.rulesets)
        BY <2>3, <2>5, <2>6, <2>7 DEF RunFits, RulesetsFit
    <2> QED BY <1>1, <2>2, <2>8, OneRunSteps DEF CInv
<1> QED BY <1>2, <1>3

LEMMA ReadRulesetKeeps ==
    ASSUME CInv, NEW r \in Runs, ReadRuleset(r)
    PROVE  CInv'
<1>1. /\ UNCHANGED <<manifest, github, failures, edits>> /\ run[r].pc = "rulesets"
      /\ RunFits(manifest, run[r], github.rulesets)
    BY DEF ReadRuleset, At, CInv
<1>2. PICK id \in run[r].ids :
        IF id \notin Ids(github.rulesets) \/ github.rulesets[id].target \in DOMAIN run[r].found
        THEN Fails(r)
        ELSE \E form \in Forms :
                run' = [run EXCEPT ![r].ids = @ \ {id},
                    ![r].found = Found(@, id, Shown(github.rulesets[id], form))]
    BY DEF ReadRuleset
<1>3. CASE Fails(r)
    BY <1>1, <1>3, RunGoes DEF Fails, CInv
<1>4. CASE /\ id \in Ids(github.rulesets)
           /\ \E form \in Forms :
                run' = [run EXCEPT ![r].ids = @ \ {id},
                    ![r].found = Found(@, id, Shown(github.rulesets[id], form))]
    <2> DEFINE ruleset == github.rulesets[id]
    <2>1. PICK form \in Forms :
             run' = [run EXCEPT ![r].ids = @ \ {id},
                                ![r].found = Found(@, id, Shown(ruleset, form))]
        BY <1>4
    <2> DEFINE shown == Shown(ruleset, form)
               found == Found(run[r].found, id, shown)
               x == [run[r] EXCEPT !.ids = @ \ {id}, !.found = found]
    <2>2. run' = [run EXCEPT ![r] = x]
        BY <2>1
    <2>3. shown.target = ruleset.target
        <3>1. RulesetShape(ruleset)
            BY <1>4 DEF CInv, RepositoryShape
        <3> QED BY <3>1 DEF Shown, RulesetShape
    <2>4. PICK t \in ToSet(Targets) : Manageable(manifest, t, github.rulesets, id)
        BY <1>1 DEF RunFits, RulesetsFit
    <2>5. ruleset.target = t
        BY <1>4, <2>4 DEF Manageable, ManagedIds, Ids
    <2> HIDE DEF shown, ruleset
    <2>6. /\ DOMAIN found = DOMAIN run[r].found \cup {t} /\ found[t].id = id
          /\ \A u \in DOMAIN run[r].found : u # t => found[u] = run[r].found[u]
        BY <2>3, <2>5 DEF Found, Merged
    <2> HIDE DEF found
    <2>7. /\ DOMAIN x = RunFields /\ x.pc = "rulesets" /\ x.mode = run[r].mode
          /\ x.changes = run[r].changes /\ x.reads = run[r].reads
          /\ x.ids = run[r].ids \ {id}
          /\ x.found = found /\ x.disturbed = run[r].disturbed
        BY <1>1 DEF RunFits, RunFields
    <2> HIDE DEF x
    <2>8. RulesetsFit(manifest, x, github.rulesets)
        BY <1>1, <2>4, <2>6, <2>7 DEF RunFits, RulesetsFit
    <2>9. RunFits(manifest, x, github.rulesets)
        BY <1>1, <2>7, <2>8 DEF RunFits
    <2> QED BY <1>1, <2>2, <2>9, OneRunSteps DEF CInv
<1> QED BY <1>2, <1>3, <1>4

LEMMA FinishPlanKeeps ==
    ASSUME CInv, NEW r \in Runs, FinishPlan(r)
    PROVE  CInv'
<1> DEFINE changes == run[r].changes \o RulesetChange(run[r].found, "branch")
                                     \o RulesetChange(run[r].found, "tag")
           pc == IF run[r].mode = "plan" THEN "succeeded" ELSE "apply"
           x == [run[r] EXCEPT !.changes = changes, !.found = Empty, !.pc = pc]
<1>1. /\ UNCHANGED <<manifest, github, failures, edits>> /\ run[r].pc = "rulesets"
      /\ RunFits(manifest, run[r], github.rulesets)
      /\ run' = [run EXCEPT ![r] = x]
    BY DEF FinishPlan, At, CInv
<1>2. \A t \in ToSet(Targets) :
         ChangesFit(manifest, RulesetChange(run[r].found, t), github.rulesets)
    BY <1>1, RulesetChangeFits DEF RunFits, RulesetsFit
<1>3. ChangesFit(manifest, changes, github.rulesets)
    <2>1. ChangesFit(manifest, run[r].changes, github.rulesets)
        BY <1>1 DEF RunFits
    <2>2. /\ ChangesFit(manifest, RulesetChange(run[r].found, "branch"), github.rulesets)
          /\ ChangesFit(manifest, RulesetChange(run[r].found, "tag"), github.rulesets)
        BY <1>2, TargetNames
    <2> QED BY <2>1, <2>2, JoinedChangesFit
<1> HIDE DEF changes
<1>4. /\ DOMAIN x = RunFields /\ x.pc = pc /\ x.mode = run[r].mode
      /\ x.changes = changes /\ x.reads = run[r].reads
      /\ x.ids = run[r].ids
      /\ x.found = Empty /\ x.disturbed = run[r].disturbed
    BY <1>1 DEF RunFits, RunFields
<1> HIDE DEF x
<1>5. RulesetsFit(manifest, x, github.rulesets)
    BY <1>1, <1>4 DEF RunFits, RulesetsFit, Empty
<1>6. RunFits(manifest, x, github.rulesets)
    BY <1>1, <1>3, <1>4, <1>5 DEF RunFits, ChecksPassed
<1> QED BY <1>1, <1>6, OneRunSteps DEF CInv

-----------------------------------------------------------------------------
(* The repository changes. *)

LEMMA RepositoryChanges ==
    ASSUME CInv, Keeps(manifest, github, github'), manifest' = manifest,
           failures' \in 0..MaxFailures, edits' \in 0..MaxEdits,
           NEW runs, \A q \in Runs : RunFits(manifest, runs[q], github.rulesets),
           NEW but, run' = Disturb(runs, but)
    PROVE  CInv'
<1>1. DOMAIN run' = Runs
    BY DEF Disturb
<1>2. ASSUME NEW q \in Runs
      PROVE  RunFits(manifest, run'[q], github'.rulesets)
    <2>1. \/ run'[q] = runs[q]
          \/ runs[q].pc # "idle" /\ run'[q] = [runs[q] EXCEPT !.disturbed = TRUE]
        BY DEF Disturb
    <2> QED BY <2>1, RunStillFits
<1>3. ManifestShape(manifest) /\ RepositoryShape(github')
    BY DEF CInv, Keeps
<1> QED BY <1>1, <1>2, <1>3 DEF CInv

\* A run that sends a request has one that fits, and a manifest that can be
\* applied.
LEMMA RequestFits ==
    ASSUME CInv, NEW r \in Runs, At(r, "apply"), run[r].changes # <<>>
    PROVE  /\ SpokenOf(manifest, ToSend(r), github.rulesets)
           /\ ChangesFit(manifest, Sent(run[r].changes), github.rulesets)
           /\ RepositoryShape(github) /\ Applicable(manifest)
<1>1. /\ RunFits(manifest, run[r], github.rulesets) /\ run[r].pc = "apply"
      /\ ManifestShape(manifest) /\ RepositoryShape(github)
    BY DEF CInv, At
<1>2. Applicable(manifest)
    BY <1>1, AcceptedIsApplicable DEF RunFits, ChecksPassed
<1> QED BY <1>1, <1>2, SentChangesFit DEF RunFits, ToSend

LEMMA SendRequestKeeps ==
    ASSUME CInv, NEW r \in Runs, SendRequest(r)
    PROVE  CInv'
<1>1. /\ At(r, "apply") /\ run[r].changes # <<>>
      /\ UNCHANGED <<manifest, failures, edits>>
      /\ RunFits(manifest, run[r], github.rulesets)
    BY DEF SendRequest, CInv
<1>2. CASE Refuses(github, ToSend(r))
    BY <1>1, <1>2, RunGoes DEF SendRequest, Fails, CInv
<1>3. CASE ~Refuses(github, ToSend(r))
    <2> DEFINE x == [run[r] EXCEPT !.changes = Sent(@)]
               runs == [run EXCEPT ![r] = x]
    <2>1. github' = Effect(github, ToSend(r)) /\ run' = Disturb(runs, r)
        BY <1>3 DEF SendRequest
    <2>2. Keeps(manifest, github, github')
        BY <1>1, <1>3, <2>1, RequestFits, RequestKeeps
    <2>3. /\ DOMAIN x = RunFields /\ x.pc = run[r].pc /\ x.mode = run[r].mode
          /\ x.changes = Sent(run[r].changes) /\ x.reads = run[r].reads
          /\ x.ids = run[r].ids /\ x.found = run[r].found /\ x.disturbed = run[r].disturbed
        BY <1>1 DEF RunFits, RunFields
    <2>4. run[r].pc = "apply"
        BY <1>1 DEF At
    <2> HIDE DEF x
    <2>5. RunFits(manifest, x, github.rulesets)
        BY <1>1, <2>3, <2>4, RequestFits DEF RunFits, RulesetsFit
    <2>6. \A q \in Runs : RunFits(manifest, runs[q], github.rulesets)
        BY <2>5 DEF CInv
    <2> HIDE DEF runs
    <2>7. failures' \in 0..MaxFailures /\ edits' \in 0..MaxEdits /\ manifest' = manifest
        BY <1>1 DEF CInv
    <2> QED BY <2>1, <2>2, <2>6, <2>7, RepositoryChanges
<1> QED BY <1>2, <1>3

LEMMA AnswerLostKeeps ==
    ASSUME CInv, NEW r \in Runs, AnswerLost(r)
    PROVE  CInv'
<1> DEFINE x == [run[r] EXCEPT !.pc = "failed"]
           runs == [run EXCEPT ![r] = x]
<1>1. /\ At(r, "apply") /\ run[r].changes # <<>> /\ ~Refuses(github, ToSend(r))
      /\ UNCHANGED <<manifest, edits>>
      /\ failures < MaxFailures /\ failures' = failures + 1
      /\ github' = Effect(github, ToSend(r)) /\ run' = Disturb(runs, r)
      /\ RunFits(manifest, run[r], github.rulesets)
    BY DEF AnswerLost, CInv
<1>2. Keeps(manifest, github, github')
    BY <1>1, RequestFits, RequestKeeps
<1>3. /\ DOMAIN x = RunFields /\ x.pc = "failed" /\ x.mode = run[r].mode
      /\ x.changes = run[r].changes /\ x.reads = run[r].reads
      /\ x.ids = run[r].ids /\ x.found = run[r].found /\ x.disturbed = run[r].disturbed
    BY <1>1 DEF RunFits, RunFields
<1> HIDE DEF x
<1>4. RunFits(manifest, x, github.rulesets)
    BY <1>1, <1>3 DEF RunFits, RulesetsFit, ChecksPassed
<1>5. \A q \in Runs : RunFits(manifest, runs[q], github.rulesets)
    BY <1>4 DEF CInv
<1> HIDE DEF runs
<1>6. failures' \in 0..MaxFailures /\ edits' \in 0..MaxEdits /\ manifest' = manifest
    BY <1>1, BoundsAssumption DEF CInv
<1> QED BY <1>1, <1>2, <1>5, <1>6, RepositoryChanges

\* What people do keeps what the runs know as well.
LEMMA EditKeeps ==
    ASSUME CInv, NEW kind, NEW h \in EditsOf(kind), kind \in
           {"setting", "toggle", "noSite", "deleteRuleset", "changeRules", "newRuleset"}
    PROVE  Keeps(manifest, github, h)
<1>1. RepositoryShape(github)
    BY DEF CInv
<1>2. CASE kind = "setting"
    <2>1. PICK k : h = [github EXCEPT !.settings[k] = ~@]
        BY <1>2 DEF EditsOf
    <2> QED BY <1>1, <2>1, SameRulesetsKept DEF RepositoryShape
<1>3. CASE kind = "toggle"
    <2>1. PICK t : h = [github EXCEPT !.toggles[t] = ~@]
        BY <1>3 DEF EditsOf
    <2> QED BY <1>1, <2>1, SameRulesetsKept DEF RepositoryShape
<1>4. CASE kind = "noSite"
    <2>1. h = [github EXCEPT !.pages = Nil]
        BY <1>4 DEF EditsOf
    <2> QED BY <1>1, <2>1, SameRulesetsKept DEF RepositoryShape
<1>5. CASE kind = "deleteRuleset"
    <2>1. PICK id \in Ids(github.rulesets) : h = [github EXCEPT !.rulesets[id] = Nil]
        BY <1>5 DEF EditsOf
    <2>2. h = [github EXCEPT !.rulesets = [@ EXCEPT ![id] = Nil]] /\ id \in DOMAIN github.rulesets
        BY <2>1 DEF Ids
    <2> QED BY <1>1, <2>2, RulesetReplaced
<1>6. CASE kind = "changeRules"
    <2>1. PICK id \in Ids(github.rulesets) :
            h = [github EXCEPT !.rulesets[id].rules =
                    IF @ = <<>> THEN <<Deletion>> ELSE Tail(@)]
        BY <1>6 DEF EditsOf
    <2> DEFINE old == github.rulesets[id]
               new == [old EXCEPT !.rules = IF @ = <<>> THEN <<Deletion>> ELSE Tail(@)]
    <2>2. h = [github EXCEPT !.rulesets = [@ EXCEPT ![id] = new]]
        BY <2>1
    <2>3. id \in DOMAIN github.rulesets /\ old # Nil /\ RulesetShape(old)
        BY <1>1 DEF RepositoryShape, Ids
    <2>4. /\ RulesetShape(new) /\ new.source_type = old.source_type
          /\ new.target = old.target /\ new.name = old.name
        BY <2>3 DEF RulesetShape
    <2> HIDE DEF new
    <2>5. \A t \in ToSet(Targets) :
              Manageable(manifest, t, github.rulesets, id) =>
                /\ new.source_type # "Organization"
                /\ new.target = t /\ new.name = RulesetNameOf(manifest, t)
        BY <2>3, <2>4 DEF Manageable, ManagedIds
    <2> QED BY <1>1, <2>2, <2>3, <2>4, <2>5, RulesetReplaced
<1>7. CASE kind = "newRuleset"
    <2>1. PICK t \in ToSet(Targets) :
            h = Effect(github, [kind |-> "create_ruleset", payload |-> Bare(t)])
        BY <1>7 DEF EditsOf
    <2> DEFINE q == [kind |-> "create_ruleset", payload |-> Bare(t)]
               new == Merged(Bare(t), [source_type |-> "Repository"])
    <2>2. q.kind = "create_ruleset" /\ q.payload = Bare(t)
        OBVIOUS
    <2>3. h = [github EXCEPT !.rulesets = Append(@, new)]
        BY <2>1 DEF Effect
    <2>4. /\ DOMAIN h = DOMAIN github /\ h.toggles = github.toggles
          /\ h.rulesets = Append(github.rulesets, new)
        BY <1>1, <2>3 DEF RepositoryShape
    <2>5. /\ RulesetShape(new) /\ new.source_type # "Organization"
          /\ new.target = t /\ new.name = RulesetNameOf(manifest, t)
        BY DEF Bare, NameOf, Merged, RulesetShape, RulesetNameOf, ruleset_name
    <2> HIDE DEF new
    <2> QED BY <1>1, <2>4, <2>5, RulesetAdded
<1> QED BY <1>2, <1>3, <1>4, <1>5, <1>6, <1>7

-----------------------------------------------------------------------------
(* The invariant is inductive. *)

LEMMA CInvInductive == CInv /\ [Next]_vars => CInv'
<1> SUFFICES ASSUME CInv, [Next]_vars PROVE CInv'
    OBVIOUS
<1>1. CASE UNCHANGED vars
    BY <1>1 DEF vars, CInv
<1>2. ASSUME NEW r \in Runs, NEW mode \in {"plan", "apply"}, Start(r, mode)
      PROVE  CInv'
    BY <1>2, StartKeeps
<1>3. ASSUME NEW r \in Runs, Step(r)
      PROVE  CInv'
    <2>1. CASE FinishApply(r)
        BY <2>1, RunGoes DEF FinishApply, CInv
    <2>2. CASE Exit(r)
        BY <2>2, IdleFits, OneRunSteps DEF Exit, CInv
    <2> QED BY <1>3, <2>1, <2>2, ReadRepositoryKeeps, ReadToggleKeeps, ReadPagesKeeps,
               ListRulesetsKeeps, ReadRulesetKeeps, FinishPlanKeeps, SendRequestKeeps
            DEF Step
<1>4. ASSUME NEW r \in Runs, RequestFails(r)
      PROVE  CInv'
    <2>1. /\ failures' \in 0..MaxFailures /\ Goto(r, "failed")
          /\ UNCHANGED <<manifest, github, edits>>
        BY <1>4, BoundsAssumption DEF RequestFails, Fails, CInv
    <2> QED BY <2>1, RunGoes
<1>5. ASSUME NEW r \in Runs, AnswerLost(r)
      PROVE  CInv'
    BY <1>5, AnswerLostKeeps
<1>6. CASE Edit
    <2>1. PICK kind \in EditKinds : github' \in EditsOf(kind) \ {github}
        BY <1>6 DEF Edit
    <2>2. Keeps(manifest, github, github')
        BY <2>1, EditKeeps, BoundsAssumption
    <2>3. /\ manifest' = manifest /\ failures' \in 0..MaxFailures
          /\ edits' \in 0..MaxEdits /\ run' = Disturb(run, Nil)
        BY <1>6, BoundsAssumption DEF Edit, CInv
    <2>4. \A q \in Runs : RunFits(manifest, run[q], github.rulesets)
        BY DEF CInv
    <2> QED BY <2>2, <2>3, <2>4, RepositoryChanges
<1> QED BY <1>1, <1>2, <1>3, <1>4, <1>5, <1>6 DEF Next

LEMMA ConfiguratorInvariant == Spec => []CInv
BY InitCInv, CInvInductive, PTL DEF Spec

-----------------------------------------------------------------------------
(* The theorems. *)

\* Types: a planned change has one of the keys that can drift and a request
\* left to send, the rulesets to fetch are or were rulesets of the repository.
THEOREM ConfiguratorTypes == Spec => []TypeOK
BY ConfiguratorInvariant, CInvTypeOK, PTL

\* Whatever other runs and people do between the reading and the sending, and
\* however requests fail, a run never changes what the manifest does not speak
\* of, and nothing at all for a manifest that cannot be applied as a whole.
THEOREM UnmanagedStaysUntouched == Spec => UnmanagedUntouched
<1>1. CInv /\ [Next]_vars =>
        [edits' = edits => Unmanaged(manifest, github)' = Unmanaged(manifest, github)]_vars
    <2> SUFFICES ASSUME CInv, Next, edits' = edits
                 PROVE  Unmanaged(manifest, github)' = Unmanaged(manifest, github)
        BY DEF vars
    <2>1. manifest' = manifest
        BY DEF Next, Step, Start, ReadRepository, ReadToggle, ReadPages, ListRulesets,
               ReadRuleset, FinishPlan, SendRequest, FinishApply, Exit, RequestFails,
               AnswerLost, Edit
    <2>2. \/ github' = github
          \/ \E r \in Runs : /\ At(r, "apply") /\ run[r].changes # <<>>
                             /\ ~Refuses(github, ToSend(r))
                             /\ github' = Effect(github, ToSend(r))
        <3>1. ~Edit
            BY DEF Edit, CInv
        <3> QED BY <3>1 DEF Next, Step, Start, ReadRepository, ReadToggle, ReadPages,
                   ListRulesets, ReadRuleset, FinishPlan, SendRequest, FinishApply, Exit,
                   RequestFails, AnswerLost
    <2>3. CASE github' = github
        BY <2>1, <2>3
    <2>4. ASSUME NEW r \in Runs, At(r, "apply"), run[r].changes # <<>>,
                 ~Refuses(github, ToSend(r)), github' = Effect(github, ToSend(r))
          PROVE  Unmanaged(manifest, github)' = Unmanaged(manifest, github)
        <3>1. Unmanaged(manifest, github') = Unmanaged(manifest, github)
            BY <2>4, RequestFits, RequestSpares
        <3>2. Unmanaged(manifest, github)' = Unmanaged(manifest', github')
            OBVIOUS
        <3> QED BY <2>1, <3>1, <3>2
    <2> QED BY <2>2, <2>3, <2>4
<1> QED BY <1>1, ConfiguratorInvariant, PTL DEF Spec, UnmanagedUntouched

=============================================================================
