------------------------- MODULE ConvergenceProofs -------------------------
(***************************************************************************)
(* What a run that nobody disturbed knows of the repository while it       *)
(* reads, plans and applies, for every set of runs, manifest and           *)
(* repository: exit code 0 of an apply means that nothing differs any      *)
(* more, and the plan of a dry run is what differs.                        *)
(***************************************************************************)
EXTENDS ComparisonProofs, DuplicateProofs

-----------------------------------------------------------------------------
(* What a planned change does. *)

SettingWrong(m, g, k) == get(g.settings, k, Nil) # repository(m)[k]
PageWrong(m, g, k) == g.pages = Nil \/ g.pages[k] # get(pages(m), k, "workflow")
PageKeys(m) == {"build_type"} \cup DOMAIN pages(m)

RepairsSettings(m, g, q) ==
    /\ q.kind = "patch_repository"
    /\ DOMAIN q.payload \subseteq SettingKeys(m)
    /\ \A k \in DOMAIN q.payload : q.payload[k] = repository(m)[k]
    /\ \A k \in SettingKeys(m) : SettingWrong(m, g, k) => k \in DOMAIN q.payload

RepairsAdvancedSecurity(m, q) ==
    /\ q.kind = "patch_repository"
    /\ DOMAIN q.payload = {"advanced_security"}
    /\ q.payload["advanced_security"] = get(security(m), "advanced_security", Nil)

RepairsToggle(m, q, toggle) ==
    q.kind = "toggle" /\ q.toggle = toggle /\ q.enabled = ToggleWanted(m, toggle)

RepairsPages(m, g, requests) ==
    /\ \A q \in ToSet(requests) :
        /\ q.kind \in {"create_pages", "update_pages"}
        /\ \A k \in DOMAIN q.payload : q.payload[k] = get(pages(m), k, "workflow")
    /\ \A k \in PageKeys(m) :
          PageWrong(m, g, k) => \E q \in ToSet(requests) : k \in DOMAIN q.payload

RepairsRuleset(m, g, q, t) ==
    /\ q.payload = PayloadOf(m, t)
    /\ \/ /\ q.kind = "create_ruleset"
          /\ ManagedIds(m, g.rulesets, t) = {} \/ DuplicateNames = FALSE
       \/ q.kind = "update_ruleset" /\ ManagedIds(m, g.rulesets, t) = {q.ruleset_id}

\* The requests of the change put its part right, whatever is wrong of it; all
\* but the one for Pages is one request.
Repairs(m, g, change) ==
    LET q == Head(change.requests)
    IN  /\ change.key # "manifest"
        /\ change.key # "pages.site" => Tail(change.requests) = <<>>
        /\ change.key = "repository.settings" => RepairsSettings(m, g, q)
        /\ change.key = "security.advanced_security" => RepairsAdvancedSecurity(m, q)
        /\ change.key \in ToSet(Toggles) => RepairsToggle(m, q, change.key)
        /\ change.key = "pages.site" => RepairsPages(m, g, change.requests)
        /\ \A t \in ToSet(Targets) :
              change.key = RulesetKey(t) => RepairsRuleset(m, g, q, t)

\* One part of the repository is as it was.
SameRulesets(m, g, h, t) ==
    /\ ManagedIds(m, h.rulesets, t) = ManagedIds(m, g.rulesets, t)
    /\ \A id \in ManagedIds(m, g.rulesets, t) : h.rulesets[id] = g.rulesets[id]

SamePart(m, g, h, key) ==
    /\ h.private = g.private
    /\ key = "repository.settings" =>
          \A k \in SettingKeys(m) : get(h.settings, k, Nil) = get(g.settings, k, Nil)
    /\ key = "security.advanced_security" =>
          get(h.settings, "advanced_security", FALSE)
            = get(g.settings, "advanced_security", FALSE)
    /\ key \in ToSet(Toggles) => h.toggles[key] = g.toggles[key]
    /\ key = "pages.site" => h.pages = g.pages
    /\ \A t \in ToSet(Targets) : key = RulesetKey(t) => SameRulesets(m, g, h, t)

LEMMA KeyNames ==
    /\ DriftKeys = {"manifest", "repository.settings", "security.advanced_security",
                    "pages.site", "rulesets.branch", "rulesets.tag"} \cup ToSet(Toggles)
    /\ \A t \in ToSet(Toggles) :
         t \notin {"manifest", "repository.settings", "security.advanced_security",
                   "pages.site", "rulesets.branch", "rulesets.tag", "pages"}
    /\ ToSet(Targets) = {"branch", "tag"}
    /\ RulesetKey("branch") = "rulesets.branch" /\ RulesetKey("tag") = "rulesets.tag"
    /\ \A t \in ToSet(Targets) : RulesetKey(t) \in {"rulesets.branch", "rulesets.tag"}
BY ToggleNames, TargetNames DEF DriftKeys, RulesetKey

LEMMA RulesetsDifferByKey ==
    ASSUME NEW m, NEW g, NEW t \in ToSet(Targets)
    PROVE  Differs(m, g, RulesetKey(t)) <=> RulesetDiffers(m, g, t)
BY DiffersByPart, KeyNames

LEMMA SamePartDiffers ==
    ASSUME NEW m, NEW g, NEW h, NEW key \in DriftKeys, SamePart(m, g, h, key)
    PROVE  Differs(m, h, key) <=> Differs(m, g, key)
<1>1. CASE key = "manifest"
    BY <1>1, DiffersByPart
<1>2. CASE key = "repository.settings"
    <2>1. \A k \in SettingKeys(m) : get(h.settings, k, Nil) = get(g.settings, k, Nil)
        BY <1>2 DEF SamePart
    <2>2. SettingsDiffer(m, h) <=> SettingsDiffer(m, g)
        BY <2>1 DEF SettingsDiffer
    <2> QED BY <1>2, <2>2, DiffersByPart
<1>3. CASE key = "security.advanced_security"
    BY <1>3, DiffersByPart DEF SamePart, AdvancedSecurityDiffers
<1>4. CASE key = "pages.site"
    <2>1. h.pages = g.pages
        BY <1>4 DEF SamePart
    <2>2. PagesDiffer(m, h) <=> PagesDiffer(m, g)
        BY <2>1 DEF PagesDiffer
    <2> QED BY <1>4, <2>2, DiffersByPart
<1>5. CASE key \in ToSet(Toggles)
    <2>1. h.toggles[key] = g.toggles[key]
        BY <1>5 DEF SamePart
    <2> QED BY <1>5, <2>1, DiffersByPart
<1>6. ASSUME NEW t \in ToSet(Targets), key = RulesetKey(t)
      PROVE  Differs(m, h, key) <=> Differs(m, g, key)
    <2>1. SameRulesets(m, g, h, t)
        BY <1>6 DEF SamePart
    <2>2. RulesetDiffers(m, h, t) <=> RulesetDiffers(m, g, t)
        BY <2>1 DEF SameRulesets, RulesetDiffers
    <2> QED BY <1>6, <2>2, RulesetsDifferByKey
<1> QED BY <1>1, <1>2, <1>3, <1>4, <1>5, <1>6, KeyNames

LEMMA SamePartRepairs ==
    ASSUME NEW m, NEW g, NEW h, NEW change, SamePart(m, g, h, change.key),
           Repairs(m, g, change)
    PROVE  Repairs(m, h, change)
<1> DEFINE q == Head(change.requests)
<1>1. change.key = "repository.settings" => RepairsSettings(m, h, q)
    BY DEF Repairs, SamePart, RepairsSettings, SettingWrong
<1>2. change.key = "pages.site" => RepairsPages(m, h, change.requests)
    BY DEF Repairs, SamePart, RepairsPages, PageWrong
<1>3. ASSUME NEW t \in ToSet(Targets), change.key = RulesetKey(t)
      PROVE  RepairsRuleset(m, h, q, t)
    <2>1. SameRulesets(m, g, h, t) /\ RepairsRuleset(m, g, q, t)
        BY <1>3 DEF SamePart, Repairs
    <2> QED BY <2>1 DEF SameRulesets, RepairsRuleset
<1> QED BY <1>1, <1>2, <1>3 DEF Repairs

-----------------------------------------------------------------------------
(* What a request of a planned change does, and what it leaves alone. *)

\* The head request of the change was sent: nothing else changed, and what is
\* left of the change repairs what is still wrong.
HeadSent(m, g, h, change) ==
    LET rest == Tail(change.requests)
    IN  /\ \A key \in DriftKeys \ {change.key} : SamePart(m, g, h, key)
        /\ rest = <<>> => ~Differs(m, h, change.key)
        /\ rest # <<>> => Repairs(m, h, [change EXCEPT !.requests = rest])

LEMMA SettingsSent ==
    ASSUME NEW m, NEW g, NEW change, NEW h, RepositoryShape(g), load_manifest(m),
           Repairs(m, g, change), h = Effect(g, Head(change.requests)),
           change.key \in {"repository.settings", "security.advanced_security"}
    PROVE  HeadSent(m, g, h, change)
<1> DEFINE q == Head(change.requests)
<1>1. q.kind = "patch_repository" /\ Tail(change.requests) = <<>>
    BY DEF Repairs, RepairsSettings, RepairsAdvancedSecurity
<1>2. /\ h.private = g.private /\ h.toggles = g.toggles /\ h.pages = g.pages
      /\ h.rulesets = g.rulesets /\ h.settings = Merged(g.settings, q.payload)
    BY <1>1 DEF Effect, RepositoryShape
<1>3. \A k, default :
        get(h.settings, k, default) =
            IF k \in DOMAIN q.payload THEN q.payload[k] ELSE get(g.settings, k, default)
    BY <1>2 DEF get, Merged
<1>4. "advanced_security" \notin SettingKeys(m)
    BY DEF SettingKeys, load_manifest, TableOf, repository, SUPPORTED_REPOSITORY_FIELDS
<1>5. ASSUME NEW key \in DriftKeys \ {"repository.settings", "security.advanced_security"}
      PROVE  SamePart(m, g, h, key)
    BY <1>2, <1>5 DEF SamePart, SameRulesets
<1>6. CASE change.key = "repository.settings"
    <2>1. RepairsSettings(m, g, q)
        BY <1>6 DEF Repairs
    <2>2. SamePart(m, g, h, "security.advanced_security")
        <3>1. get(h.settings, "advanced_security", FALSE)
                = get(g.settings, "advanced_security", FALSE)
            BY <1>3, <1>4, <2>1 DEF RepairsSettings
        <3> QED BY <1>2, <3>1, KeyNames DEF SamePart
    <2>3. ~SettingsDiffer(m, h)
        BY <1>3, <2>1 DEF SettingsDiffer, RepairsSettings, SettingWrong
    <2> QED BY <1>1, <1>5, <1>6, <2>2, <2>3, DiffersByPart DEF HeadSent
<1>7. CASE change.key = "security.advanced_security"
    <2>1. RepairsAdvancedSecurity(m, q)
        BY <1>7 DEF Repairs
    <2>2. SamePart(m, g, h, "repository.settings")
        <3>1. \A k \in SettingKeys(m) : get(h.settings, k, Nil) = get(g.settings, k, Nil)
            BY <1>3, <1>4, <2>1 DEF RepairsAdvancedSecurity
        <3> QED BY <1>2, <3>1, KeyNames DEF SamePart
    <2>3. ~AdvancedSecurityDiffers(m, h)
        BY <1>3, <2>1 DEF AdvancedSecurityDiffers, RepairsAdvancedSecurity
    <2> QED BY <1>1, <1>5, <1>7, <2>2, <2>3, DiffersByPart DEF HeadSent
<1> QED BY <1>6, <1>7

LEMMA ToggleSent ==
    ASSUME NEW m, NEW g, NEW change, NEW h, RepositoryShape(g),
           Repairs(m, g, change), h = Effect(g, Head(change.requests)),
           change.key \in ToSet(Toggles)
    PROVE  HeadSent(m, g, h, change)
<1> DEFINE q == Head(change.requests)
<1>1. /\ q.kind = "toggle" /\ q.toggle = change.key
      /\ q.enabled = ToggleWanted(m, change.key) /\ Tail(change.requests) = <<>>
    BY KeyNames DEF Repairs, RepairsToggle
<1>2. h = [g EXCEPT !.toggles = [@ EXCEPT ![q.toggle] = q.enabled]]
    BY <1>1 DEF Effect
<1>3. /\ h.private = g.private /\ h.settings = g.settings /\ h.pages = g.pages
      /\ h.rulesets = g.rulesets /\ h.toggles[change.key] = ToggleWanted(m, change.key)
      /\ \A t \in ToSet(Toggles) : t # change.key => h.toggles[t] = g.toggles[t]
    BY <1>1, <1>2 DEF RepositoryShape
<1>4. \A key \in DriftKeys \ {change.key} : SamePart(m, g, h, key)
    BY <1>3 DEF SamePart, SameRulesets
<1>5. ~Differs(m, h, change.key)
    <2>1. Differs(m, h, change.key) <=>
            ToggleWanted(m, change.key) \notin {Nil, h.toggles[change.key]}
        BY DiffersByPart
    <2> QED BY <1>3, <2>1
<1> QED BY <1>1, <1>4, <1>5 DEF HeadSent

\* A request for Pages leaves a site.
LEMMA SiteMade ==
    ASSUME NEW m, NEW g, NEW q, ManifestShape(m), ManifestTyped(m), load_manifest(m),
           SiteTyped(g), RepositoryShape(g), Meant(m, q), ~Refuses(g, q),
           q.kind \in {"create_pages", "update_pages"}
    PROVE  Effect(g, q).pages \in PagesSites
<1> DEFINE site == Effect(g, q).pages
<1>1. /\ DOMAIN q.payload \subseteq {"build_type"} \cup DOMAIN pages(m)
      /\ \A k \in DOMAIN q.payload : q.payload[k] = get(pages(m), k, "workflow")
      /\ q.kind = "create_pages" => "build_type" \in DOMAIN q.payload
    BY DEF Meant
<1>2. DOMAIN q.payload \subseteq {"build_type", "https_enforced"}
    BY <1>1 DEF load_manifest, TableOf, pages, SUPPORTED_PAGES_FIELDS
<1>3. get(pages(m), "build_type", "workflow") \in SUPPORTED_PAGES_BUILD_TYPES
    BY DEF ManifestShape, load_manifest, validate_pages_table, pages, get,
           SUPPORTED_PAGES_BUILD_TYPES
<1>4. "https_enforced" \in DOMAIN q.payload => q.payload["https_enforced"] \in BOOLEAN
    BY <1>1 DEF ManifestTyped, get
<1>5. "build_type" \in DOMAIN q.payload =>
            q.payload["build_type"] \in SUPPORTED_PAGES_BUILD_TYPES
    BY <1>1, <1>3
<1>6. CASE q.kind = "create_pages"
    <2>1. site = NewSite(q.payload)
        BY <1>6 DEF Effect, RepositoryShape
    <2>2. {"https_enforced"} \cup DOMAIN q.payload = {"build_type", "https_enforced"}
        BY <1>1, <1>2, <1>6
    <2> DEFINE p == q.payload
    <2>3. NewSite(p) = [k \in {"https_enforced"} \cup DOMAIN p |->
                            IF k \in DOMAIN p THEN p[k] ELSE [https_enforced |-> FALSE][k]]
        BY DEF NewSite, Merged
    <2>4. "build_type" \in DOMAIN p /\ [https_enforced |-> FALSE]["https_enforced"] = FALSE
        BY <1>1, <1>6
    <2> DEFINE new == NewSite(p)
               table == [k \in {"build_type", "https_enforced"} |->
                            IF k \in DOMAIN p THEN p[k] ELSE [https_enforced |-> FALSE][k]]
    <2>5. new = table
        BY <2>2, <2>3
    <2> HIDE DEF p, new
    <2>6. /\ new["build_type"] = p["build_type"]
          /\ new["https_enforced"] =
                IF "https_enforced" \in DOMAIN p THEN p["https_enforced"] ELSE FALSE
          /\ DOMAIN new = {"build_type", "https_enforced"}
          /\ new = [k \in {"build_type", "https_enforced"} |-> new[k]]
        BY <2>4, <2>5
    <2>7. p["build_type"] \in SUPPORTED_PAGES_BUILD_TYPES /\ new["https_enforced"] \in BOOLEAN
        BY <1>4, <1>5, <2>4, <2>6 DEF p
    <2>8. new \in PagesSites
        BY <2>6, <2>7 DEF PagesSites
    <2> QED BY <2>1, <2>8 DEF new, p
<1>7. CASE q.kind = "update_pages"
    <2>1. site = Merged(g.pages, q.payload) /\ g.pages \in PagesSites
        BY <1>7 DEF Effect, RepositoryShape, Refuses, SiteTyped
    <2>2. /\ DOMAIN g.pages = {"build_type", "https_enforced"}
          /\ g.pages["build_type"] \in SUPPORTED_PAGES_BUILD_TYPES \cup {Nil}
          /\ g.pages["https_enforced"] \in BOOLEAN
        BY <2>1 DEF PagesSites
    <2>3. DOMAIN g.pages \cup DOMAIN q.payload = {"build_type", "https_enforced"}
        BY <1>2, <2>2
    <2>4. site = [k \in {"build_type", "https_enforced"} |->
                IF k \in DOMAIN q.payload THEN q.payload[k] ELSE g.pages[k]]
        BY <2>1, <2>3 DEF Merged
    <2> QED BY <1>4, <1>5, <2>2, <2>4 DEF PagesSites
<1> QED BY <1>6, <1>7

LEMMA PagesSent ==
    ASSUME NEW m, NEW g, NEW change, NEW h, RepositoryShape(g), SiteShape(g),
           ManifestShape(m), ManifestTyped(m), SiteTyped(g), load_manifest(m),
           IsSeq(change.requests), change.requests # <<>>,
           DOMAIN change = {"key", "requests"}, Meant(m, Head(change.requests)),
           Repairs(m, g, change), ~Refuses(g, Head(change.requests)),
           h = Effect(g, Head(change.requests)), change.key = "pages.site"
    PROVE  HeadSent(m, g, h, change)
<1> DEFINE q == Head(change.requests)
           rest == Tail(change.requests)
<1>1. /\ RepairsPages(m, g, change.requests) /\ q \in ToSet(change.requests)
      /\ ToSet(change.requests) = {q} \cup ToSet(rest)
    BY HeadAndRest DEF Repairs
<1>2. /\ q.kind \in {"create_pages", "update_pages"}
      /\ \A k \in DOMAIN q.payload : q.payload[k] = get(pages(m), k, "workflow")
    BY <1>1 DEF RepairsPages
<1>3. /\ h.private = g.private /\ h.settings = g.settings /\ h.toggles = g.toggles
      /\ h.rulesets = g.rulesets
      /\ q.kind = "create_pages" => g.pages = Nil /\ h.pages = NewSite(q.payload)
      /\ q.kind = "update_pages" => g.pages # Nil /\ h.pages = Merged(g.pages, q.payload)
    BY <1>2 DEF Effect, Refuses, RepositoryShape
<1>4. \A key \in DriftKeys \ {change.key} : SamePart(m, g, h, key)
    BY <1>3 DEF SamePart, SameRulesets
<1>5. h.pages # Nil
    BY <1>2, SiteMade, TypesAssumption
<1>6. ASSUME NEW k \in PageKeys(m), PageWrong(m, h, k)
      PROVE  k \notin DOMAIN q.payload /\ PageWrong(m, g, k)
    <2>1. k \in SUPPORTED_PAGES_FIELDS
        BY DEF PageKeys, load_manifest, TableOf, pages, SUPPORTED_PAGES_FIELDS
    <2>2. h.pages[k] # get(pages(m), k, "workflow")
        BY <1>5, <1>6 DEF PageWrong
    <2>3. CASE q.kind = "create_pages"
        <3>1. k \in DOMAIN q.payload => h.pages[k] = q.payload[k]
            BY <1>3, <2>3 DEF NewSite, Merged
        <3> QED BY <1>2, <1>3, <2>2, <2>3, <3>1 DEF PageWrong
    <2>4. CASE q.kind = "update_pages"
        <3>1. k \in DOMAIN g.pages
            BY <1>3, <2>1, <2>4 DEF SiteShape
        <3>2. h.pages[k] = IF k \in DOMAIN q.payload THEN q.payload[k] ELSE g.pages[k]
            BY <1>3, <2>4, <3>1 DEF Merged
        <3> QED BY <1>2, <2>2, <3>2 DEF PageWrong
    <2> QED BY <1>2, <2>3, <2>4
<1>7. ASSUME NEW k \in PageKeys(m), PageWrong(m, h, k)
      PROVE  \E p \in ToSet(rest) : k \in DOMAIN p.payload
    BY <1>1, <1>6, <1>7 DEF RepairsPages
<1>8. CASE rest = <<>>
    <2>1. \A k \in PageKeys(m) : ~PageWrong(m, h, k)
        BY <1>7, <1>8, NoElements
    <2>2. ~PagesDiffer(m, h)
        BY <1>5, <2>1 DEF PagesDiffer, PageWrong, PageKeys, get
    <2> QED BY <1>4, <1>8, <2>2, DiffersByPart DEF HeadSent
<1>9. CASE rest # <<>>
    <2> DEFINE left == [change EXCEPT !.requests = rest]
    <2>1. left.key = "pages.site" /\ left.requests = rest
        OBVIOUS
    <2> HIDE DEF left, rest
    <2>2. RepairsPages(m, h, rest)
        BY <1>1, <1>7 DEF RepairsPages
    <2>3. Repairs(m, h, left)
        BY <2>1, <2>2, KeyNames DEF Repairs
    <2> QED BY <1>4, <1>9, <2>3 DEF HeadSent, left, rest
<1> QED BY <1>8, <1>9

LEMMA CreationSent ==
    ASSUME NEW m, NEW g, NEW change, NEW h, NEW t \in ToSet(Targets), RepositoryShape(g),
           ManifestShape(m), load_manifest(m),
           ~RulesetRefused(ruleset_table(m, t), t, repository(m)),
           Repairs(m, g, change), change.key = RulesetKey(t),
           Head(change.requests).kind = "create_ruleset",
           ~Refuses(g, Head(change.requests)), h = Effect(g, Head(change.requests))
    PROVE  HeadSent(m, g, h, change)
<1> DEFINE q == Head(change.requests)
           stored == Merged(q.payload, [source_type |-> "Repository"])
           n == Len(g.rulesets) + 1
<1>1. RepairsRuleset(m, g, q, t) /\ Tail(change.requests) = <<>>
    BY KeyNames DEF Repairs
<1>2. /\ q.payload = PayloadOf(m, t)
      /\ ManagedIds(m, g.rulesets, t) = {} \/ DuplicateNames = FALSE
    BY <1>1 DEF RepairsRuleset
<1>3. /\ h.private = g.private /\ h.settings = g.settings /\ h.toggles = g.toggles
      /\ h.pages = g.pages /\ DOMAIN h = DOMAIN g
      /\ h.rulesets = Append(g.rulesets, stored)
    BY DEF Effect, RepositoryShape
<1>4. /\ RulesetShape(stored) /\ stored.source_type # "Organization"
      /\ stored.target = t /\ stored.name = RulesetNameOf(m, t) /\ stored # Nil
    BY <1>2, PayloadIsManaged, KeyNames DEF ManifestShape, PayloadOf
<1>5. InForce(m, t, stored)
    BY <1>2, PayloadInForce, KeyNames
<1>6. q.payload.name = RulesetNameOf(m, t) /\ q.payload.target = t
    <2>1. PayloadOf(m, t).name = RulesetNameOf(m, t) /\ PayloadOf(m, t).target = t
        BY DEF PayloadOf, build_ruleset_payload, RulesetNameOf, ruleset_name
    <2> QED BY <1>2, <2>1
<1> HIDE DEF stored
<1>7. Joined(m, t, g, h)
    BY <1>3, <1>4, RulesetAdded
<1>8. /\ \A id \in DOMAIN g.rulesets : h.rulesets[id] = g.rulesets[id]
      /\ DOMAIN h.rulesets = DOMAIN g.rulesets \cup {n} /\ n \notin DOMAIN g.rulesets
      /\ h.rulesets[n] = stored
    BY <1>3, <1>7, ElementsAppended DEF Joined, RepositoryShape, IsSeq
<1> HIDE DEF n
<1>9. ManagedIds(m, g.rulesets, t) = {}
    <2>1. CASE DuplicateNames = FALSE
        <3>1. ~ \E id \in Ids(g.rulesets) :
                    /\ g.rulesets[id].source_type # "Organization"
                    /\ g.rulesets[id].name = q.payload.name
                    /\ g.rulesets[id].target = q.payload.target
            BY <2>1 DEF Refuses
        <3> QED BY <1>6, <3>1 DEF ManagedIds
    <2> QED BY <1>2, <2>1
<1>10. ManagedIds(m, h.rulesets, t) = {n}
    <2>1. n \in ManagedIds(m, h.rulesets, t)
        BY <1>4, <1>8 DEF ManagedIds, Ids
    <2>2. \A id : id # n => (id \in ManagedIds(m, h.rulesets, t)
                                <=> id \in ManagedIds(m, g.rulesets, t))
        BY <1>8 DEF ManagedIds, Ids
    <2> QED BY <1>9, <2>1, <2>2
<1>11. \A u \in ToSet(Targets) \ {t} : SameRulesets(m, g, h, u)
    BY <1>4, <1>8 DEF SameRulesets, ManagedIds, Ids
<1>12. ASSUME NEW key \in DriftKeys \ {change.key} PROVE SamePart(m, g, h, key)
    BY <1>3, <1>11 DEF SamePart
<1>13. ~RulesetDiffers(m, h, t)
    BY <1>5, <1>8, <1>10, FS_Singleton DEF RulesetDiffers
<1> QED BY <1>1, <1>12, <1>13, RulesetsDifferByKey DEF HeadSent

LEMMA UpdateSent ==
    ASSUME NEW m, NEW g, NEW change, NEW h, NEW t \in ToSet(Targets), RepositoryShape(g),
           ManifestShape(m), load_manifest(m),
           ~RulesetRefused(ruleset_table(m, t), t, repository(m)),
           Repairs(m, g, change), change.key = RulesetKey(t),
           Head(change.requests).kind = "update_ruleset",
           h = Effect(g, Head(change.requests))
    PROVE  HeadSent(m, g, h, change)
<1> DEFINE q == Head(change.requests)
           stored == Merged(q.payload, [source_type |-> "Repository"])
           n == q.ruleset_id
<1>1. RepairsRuleset(m, g, q, t) /\ Tail(change.requests) = <<>>
    BY KeyNames DEF Repairs
<1>2. q.payload = PayloadOf(m, t) /\ ManagedIds(m, g.rulesets, t) = {n}
    BY <1>1 DEF RepairsRuleset
<1>3. /\ h.private = g.private /\ h.settings = g.settings /\ h.toggles = g.toggles
      /\ h.pages = g.pages /\ h.rulesets = [g.rulesets EXCEPT ![n] = stored]
    BY DEF Effect, RepositoryShape
<1>4. /\ stored.source_type # "Organization" /\ stored # Nil
      /\ stored.target = t /\ stored.name = RulesetNameOf(m, t)
    BY <1>2, PayloadIsManaged, KeyNames DEF ManifestShape, PayloadOf
<1>5. InForce(m, t, stored)
    BY <1>2, PayloadInForce, KeyNames
<1> HIDE DEF stored
<1>6. /\ n \in DOMAIN g.rulesets /\ DOMAIN h.rulesets = DOMAIN g.rulesets
      /\ h.rulesets[n] = stored
      /\ \A i \in DOMAIN g.rulesets : i # n => h.rulesets[i] = g.rulesets[i]
    <2>1. n \in DOMAIN g.rulesets
        BY <1>2 DEF ManagedIds, Ids
    <2> QED BY <1>3, <2>1
<1> HIDE DEF n
<1>7. n \in ManagedIds(m, g.rulesets, t)
    BY <1>2
<1>8. \A u \in ToSet(Targets) \ {t} : SameRulesets(m, g, h, u)
    <2> TAKE u \in ToSet(Targets) \ {t}
    <2>1. \A id : id # n => (id \in ManagedIds(m, h.rulesets, u)
                                <=> id \in ManagedIds(m, g.rulesets, u))
        BY <1>6 DEF ManagedIds, Ids
    <2>2. n \notin ManagedIds(m, h.rulesets, u) /\ n \notin ManagedIds(m, g.rulesets, u)
        BY <1>4, <1>6, <1>7 DEF ManagedIds, Ids
    <2>3. ManagedIds(m, h.rulesets, u) = ManagedIds(m, g.rulesets, u)
        BY <2>1, <2>2
    <2>4. \A id \in ManagedIds(m, g.rulesets, u) : id \in DOMAIN g.rulesets /\ id # n
        BY <2>2 DEF ManagedIds, Ids
    <2> QED BY <1>6, <2>3, <2>4 DEF SameRulesets
<1>9. ManagedIds(m, h.rulesets, t) = {n}
    <2>1. \A id : id # n => (id \in ManagedIds(m, h.rulesets, t)
                                <=> id \in ManagedIds(m, g.rulesets, t))
        BY <1>6 DEF ManagedIds, Ids
    <2>2. n \in ManagedIds(m, h.rulesets, t)
        BY <1>4, <1>6 DEF ManagedIds, Ids
    <2> QED BY <1>2, <2>1, <2>2
<1>10. ASSUME NEW key \in DriftKeys \ {change.key} PROVE SamePart(m, g, h, key)
    BY <1>3, <1>8 DEF SamePart
<1>11. ~RulesetDiffers(m, h, t)
    BY <1>5, <1>6, <1>9, FS_Singleton DEF RulesetDiffers
<1> QED BY <1>1, <1>10, <1>11, RulesetsDifferByKey DEF HeadSent

\* A request of a planned change, whatever its part.
LEMMA ChangeSent ==
    ASSUME NEW m, NEW g, NEW change, NEW h, RepositoryShape(g), SiteShape(g),
           ManifestShape(m), ManifestTyped(m), SiteTyped(g), load_manifest(m),
           \A t \in {"branch", "tag"} : ~RulesetRefused(ruleset_table(m, t), t, repository(m)),
           ChangeFits(m, change, g.rulesets), Meant(m, Head(change.requests)),
           Repairs(m, g, change), ~Refuses(g, Head(change.requests)),
           h = Effect(g, Head(change.requests))
    PROVE  HeadSent(m, g, h, change)
<1>1. /\ change.key \in DriftKeys /\ change.key # "manifest"
      /\ IsSeq(change.requests) /\ change.requests # <<>>
      /\ DOMAIN change = {"key", "requests"}
    BY DEF ChangeFits, Repairs
<1>2. CASE change.key \in {"repository.settings", "security.advanced_security"}
    BY <1>2, SettingsSent
<1>3. CASE change.key \in ToSet(Toggles)
    BY <1>3, ToggleSent
<1>4. CASE change.key = "pages.site"
    BY <1>1, <1>4, PagesSent
<1>5. ASSUME NEW t \in ToSet(Targets), change.key = RulesetKey(t)
      PROVE  HeadSent(m, g, h, change)
    <2>1. ~RulesetRefused(ruleset_table(m, t), t, repository(m))
        BY KeyNames
    <2>2. RepairsRuleset(m, g, Head(change.requests), t)
        BY <1>5 DEF Repairs
    <2>3. Head(change.requests).kind \in {"create_ruleset", "update_ruleset"}
        BY <2>2 DEF RepairsRuleset
    <2>4. CASE Head(change.requests).kind = "create_ruleset"
        BY <1>5, <2>1, <2>4, CreationSent
    <2>5. CASE Head(change.requests).kind = "update_ruleset"
        BY <1>5, <2>1, <2>5, UpdateSent
    <2> QED BY <2>3, <2>4, <2>5
<1> QED BY <1>1, <1>2, <1>3, <1>4, <1>5, KeyNames

-----------------------------------------------------------------------------
(* Plans. *)

\* No two changes are of one part.
KeysApart(changes) == \A i, j \in DOMAIN changes : changes[i].key = changes[j].key => i = j

\* The changes put right every part that differs, but for those still pending.
Plan(m, g, changes, pending) ==
    /\ KeysApart(changes)
    /\ \A change \in ToSet(changes) : change.key \notin pending /\ Repairs(m, g, change)
    /\ \A key \in DriftKeys \ pending :
          Differs(m, g, key) => \E change \in ToSet(changes) : change.key = key

LEMMA KeysJoined ==
    ASSUME NEW a, NEW b, IsSeq(a), IsSeq(b), KeysApart(a), KeysApart(b),
           \A x \in ToSet(a), y \in ToSet(b) : x.key # y.key
    PROVE  KeysApart(a \o b)
<1> SUFFICES ASSUME NEW i \in DOMAIN (a \o b), NEW j \in DOMAIN (a \o b),
                    (a \o b)[i].key = (a \o b)[j].key
             PROVE  i = j
    BY DEF KeysApart
<1>1. \A k \in DOMAIN (a \o b) :
        \/ k \in DOMAIN a /\ (a \o b)[k] = a[k]
        \/ k \notin DOMAIN a /\ k - Len(a) \in DOMAIN b /\ (a \o b)[k] = b[k - Len(a)]
    BY ElementsInOrder
<1>2. \A k \in DOMAIN a : a[k] \in ToSet(a)
    BY DEF ToSet
<1>3. \A k \in DOMAIN b : b[k] \in ToSet(b)
    BY DEF ToSet
<1>4. CASE i \in DOMAIN a /\ j \in DOMAIN a
    BY <1>1, <1>4 DEF KeysApart
<1>5. CASE i \notin DOMAIN a /\ j \notin DOMAIN a
    <2>1. i - Len(a) = j - Len(a)
        BY <1>1, <1>5 DEF KeysApart
    <2>2. i \in Int /\ j \in Int /\ Len(a) \in Int
        BY ElementsInOrder
    <2> QED BY <2>1, <2>2
<1>6. ~(i \in DOMAIN a /\ j \notin DOMAIN a) /\ ~(i \notin DOMAIN a /\ j \in DOMAIN a)
    BY <1>1, <1>2, <1>3
<1> QED BY <1>4, <1>5, <1>6

LEMMA OneKey ==
    ASSUME NEW x
    PROVE  KeysApart(<<x>>) /\ KeysApart(<<>>)
BY DEF KeysApart

LEMMA KeysLeft ==
    ASSUME NEW s, IsSeq(s), s # <<>>, KeysApart(s)
    PROVE  /\ KeysApart(Tail(s)) /\ IsSeq(Tail(s))
           /\ \A change \in ToSet(Tail(s)) : change.key # Head(s).key
<1>1. /\ Head(s) = s[1] /\ IsSeq(Tail(s)) /\ Len(Tail(s)) = Len(s) - 1
      /\ \A i \in 1..Len(Tail(s)) : Tail(s)[i] = s[i + 1]
    BY ElementsLeft
<1>2. Len(s) \in Nat /\ DOMAIN s = 1..Len(s) /\ DOMAIN Tail(s) = 1..Len(Tail(s))
    BY <1>1 DEF IsSeq
<1>3. ASSUME NEW i \in DOMAIN Tail(s)
      PROVE  /\ i \in Int /\ 1 \in DOMAIN s /\ i + 1 \in DOMAIN s /\ i + 1 # 1
             /\ Tail(s)[i] = s[i + 1]
    BY <1>1, <1>2
<1>4. KeysApart(Tail(s))
    <2> SUFFICES ASSUME NEW i \in DOMAIN Tail(s), NEW j \in DOMAIN Tail(s),
                        Tail(s)[i].key = Tail(s)[j].key
                 PROVE  i = j
        BY DEF KeysApart
    <2>1. i + 1 = j + 1
        BY <1>3 DEF KeysApart
    <2> QED BY <1>3, <2>1
<1>5. \A change \in ToSet(Tail(s)) : change.key # Head(s).key
    BY <1>1, <1>3 DEF KeysApart, ToSet
<1> QED BY <1>1, <1>4, <1>5

\* What the planner made of one part: nothing, or a change that puts it right.
Finds(m, g, key, more) ==
    \/ more = <<>> /\ ~Differs(m, g, key)
    \/ \E change : more = <<change>> /\ change.key = key /\ Repairs(m, g, change)

LEMMA PlanExtended ==
    ASSUME NEW m, NEW g, NEW changes, NEW pending, NEW key \in pending, NEW more,
           IsSeq(changes), Plan(m, g, changes, pending), Finds(m, g, key, more)
    PROVE  Plan(m, g, changes \o more, pending \ {key})
<1>1. CASE more = <<>> /\ ~Differs(m, g, key)
    <2>1. changes \o more = changes
        BY <1>1 DEF IsSeq
    <2> QED BY <1>1, <2>1 DEF Plan
<1>2. ASSUME NEW change, more = <<change>>, change.key = key, Repairs(m, g, change)
      PROVE  Plan(m, g, changes \o more, pending \ {key})
    <2>1. ToSet(changes \o more) = ToSet(changes) \cup {change} /\ IsSeq(more)
        BY <1>2, OneElement, ElementsJoined
    <2>2. \A other \in ToSet(changes) : other.key # key
        BY DEF Plan
    <2>3. KeysApart(changes \o more)
        BY <1>2, <2>1, <2>2, KeysJoined, OneKey, OneElement DEF Plan
    <2> QED BY <1>2, <2>1, <2>2, <2>3 DEF Plan
<1> QED BY <1>1, <1>2 DEF Finds

\* A part need not be looked at.
LEMMA PlanShrunk ==
    ASSUME NEW m, NEW g, NEW changes, NEW pending, NEW fewer, fewer \subseteq pending,
           Plan(m, g, changes, pending), \A key \in pending \ fewer : ~Differs(m, g, key)
    PROVE  Plan(m, g, changes, fewer)
BY DEF Plan

LEMMA EmptyPlan ==
    ASSUME NEW m, NEW g
    PROVE  Plan(m, g, <<>>, DriftKeys)
BY NoElements, OneKey DEF Plan

\* A request is sent.
LEMMA PlanSent ==
    ASSUME NEW m, NEW g, NEW h, NEW changes, ChangesFit(m, changes, g.rulesets),
           changes # <<>>, Plan(m, g, changes, {}), HeadSent(m, g, h, Head(changes))
    PROVE  Plan(m, h, Sent(changes), {})
<1> DEFINE first == Head(changes)
           rest == Tail(first.requests)
           left == [first EXCEPT !.requests = rest]
           others == Tail(changes)
<1>1. /\ IsSeq(changes) /\ first \in ToSet(changes) /\ IsSeq(others)
      /\ ToSet(changes) = {first} \cup ToSet(others)
    BY ElementsLeft, HeadAndRest DEF ChangesFit
<1>2. /\ KeysApart(others)
      /\ \A change \in ToSet(others) : change.key # first.key
    BY <1>1, KeysLeft DEF Plan
<1>3. \A change \in ToSet(changes) :
        change.key \in DriftKeys /\ DOMAIN change = {"key", "requests"} /\ Repairs(m, g, change)
    BY DEF Plan, ChangesFit, ChangeFits
<1>4. \A key \in DriftKeys \ {first.key} : SamePart(m, g, h, key)
    BY DEF HeadSent
<1>5. \A change \in ToSet(others) : Repairs(m, h, change)
    BY <1>1, <1>2, <1>3, <1>4, SamePartRepairs
<1>6. ASSUME NEW key \in DriftKeys \ {first.key}, Differs(m, h, key)
      PROVE  \E change \in ToSet(others) : change.key = key
    <2>1. Differs(m, g, key)
        BY <1>4, <1>6, SamePartDiffers
    <2> QED BY <1>1, <2>1 DEF Plan
<1>7. CASE rest = <<>>
    <2>1. Sent(changes) = others
        BY <1>7 DEF Sent
    <2>2. ~Differs(m, h, first.key)
        BY <1>7 DEF HeadSent
    <2> HIDE DEF first, rest, left, others
    <2> QED BY <1>2, <1>5, <1>6, <2>1, <2>2 DEF Plan
<1>8. CASE rest # <<>>
    <2>1. Sent(changes) = <<left>> \o others
        BY <1>8 DEF Sent
    <2>2. left.key = first.key
        BY <1>1, <1>3
    <2>3. Repairs(m, h, left)
        BY <1>8 DEF HeadSent
    <2> HIDE DEF first, rest, left, others
    <2>4. IsSeq(<<left>>) /\ ToSet(<<left>>) = {left} /\ KeysApart(<<left>>)
        BY OneElement, OneKey
    <2>5. ToSet(Sent(changes)) = {left} \cup ToSet(others)
        BY <1>1, <2>1, <2>4, ElementsJoined
    <2>6. KeysApart(Sent(changes))
        BY <1>1, <1>2, <2>1, <2>2, <2>4, KeysJoined
    <2> QED BY <1>5, <1>6, <2>2, <2>3, <2>5, <2>6 DEF Plan
<1> QED BY <1>7, <1>8

\* Nothing is left to be sent.
LEMMA NothingPlanned ==
    ASSUME NEW m, NEW g, Applicable(m), Plan(m, g, <<>>, {})
    PROVE  Drift(m, g) = {}
BY NoElements DEF Plan, Drift

-----------------------------------------------------------------------------
(* What the planner makes of each part. *)

LEMMA ChangeFound ==
    ASSUME NEW m, NEW g, NEW key, NEW requests,
           \A change : change.key = key /\ change.requests = requests
                            => Repairs(m, g, change)
    PROVE  Finds(m, g, key, Change(key, requests))
<1> DEFINE change == [key |-> key, requests |-> requests]
<1>1. change.key = key /\ change.requests = requests /\ Change(key, requests) = <<change>>
    BY DEF Change
<1> HIDE DEF change
<1> QED BY <1>1 DEF Finds

LEMMA SettingsFound ==
    ASSUME load_manifest(manifest)
    PROVE  Finds(manifest, github, "repository.settings", SettingsChange)
<1> DEFINE desired == build_repository_patch(manifest)
           keys == {k \in DOMAIN desired : get(github.settings, k, Nil) # desired[k]}
           q == [kind |-> "patch_repository", payload |-> [k \in keys |-> desired[k]]]
<1>1. /\ DOMAIN desired = SettingKeys(manifest)
      /\ \A k \in SettingKeys(manifest) : desired[k] = repository(manifest)[k]
    BY DEF build_repository_patch, SettingKeys, load_manifest, TableOf, repository,
           SUPPORTED_REPOSITORY_FIELDS
<1> HIDE DEF desired
<1>2. CASE keys = {}
    <2>1. SettingsChange = <<>>
        BY <1>2 DEF SettingsChange, desired
    <2>2. ~SettingsDiffer(manifest, github)
        BY <1>1, <1>2 DEF SettingsDiffer
    <2> QED BY <2>1, <2>2, DiffersByPart DEF Finds
<1>3. CASE keys # {}
    <2>1. SettingsChange = Change("repository.settings", <<q>>)
        BY <1>3 DEF SettingsChange, desired
    <2>2. RepairsSettings(manifest, github, q)
        BY <1>1 DEF RepairsSettings, SettingWrong
    <2> HIDE DEF q
    <2>3. \A change : change.key = "repository.settings" /\ change.requests = <<q>>
                            => Repairs(manifest, github, change)
        BY <2>2, KeyNames DEF Repairs
    <2> QED BY <2>1, <2>3, ChangeFound
<1> QED BY <1>2, <1>3

LEMMA AdvancedSecurityFound ==
    Finds(manifest, github, "security.advanced_security", AdvancedSecurityChange)
<1> DEFINE desired == get(security(manifest), "advanced_security", Nil)
           q == [kind |-> "patch_repository", payload |-> [advanced_security |-> desired]]
<1>1. CASE ~AdvancedSecurityDiffers(manifest, github)
    <2>1. AdvancedSecurityChange = <<>>
        BY <1>1 DEF AdvancedSecurityChange, AdvancedSecurityDiffers
    <2> QED BY <1>1, <2>1, DiffersByPart DEF Finds
<1>2. CASE AdvancedSecurityDiffers(manifest, github)
    <2>1. AdvancedSecurityChange = Change("security.advanced_security", <<q>>)
        BY <1>2 DEF AdvancedSecurityChange, AdvancedSecurityDiffers
    <2>2. RepairsAdvancedSecurity(manifest, q)
        BY DEF RepairsAdvancedSecurity
    <2> HIDE DEF q
    <2>3. \A change : change.key = "security.advanced_security" /\ change.requests = <<q>>
                            => Repairs(manifest, github, change)
        BY <2>2, KeyNames DEF Repairs
    <2> QED BY <2>1, <2>3, ChangeFound
<1> QED BY <1>1, <1>2

LEMMA ToggleFound ==
    ASSUME load_manifest(manifest), ManifestShape(manifest),
           ~ContradictsDependencyGraph(manifest), NEW t \in ToSet(Toggles),
           ToggleWanted(manifest, t) # Nil
    PROVE  Finds(manifest, github, t, ToggleChange(t))
<1> DEFINE desired == toggle_desired(manifest)[t]
           q == [kind |-> "toggle", toggle |-> t, enabled |-> desired]
<1>1. desired = ToggleWanted(manifest, t)
    BY TogglesAgree
<1> HIDE DEF desired
<1>2. CASE github.toggles[t] = desired
    <2>1. ToggleChange(t) = <<>>
        BY <1>2 DEF ToggleChange, desired
    <2>2. ToggleWanted(manifest, t) \in {Nil, github.toggles[t]}
        BY <1>1, <1>2
    <2> QED BY <2>1, <2>2, DiffersByPart DEF Finds
<1>3. CASE github.toggles[t] # desired
    <2>1. ToggleChange(t) = Change(t, <<q>>)
        BY <1>3 DEF ToggleChange, desired
    <2>2. RepairsToggle(manifest, q, t)
        BY <1>1 DEF RepairsToggle
    <2> HIDE DEF q
    <2>3. \A change : change.key = t /\ change.requests = <<q>>
                            => Repairs(manifest, github, change)
        BY <2>2, KeyNames DEF Repairs
    <2> QED BY <2>1, <2>3, ChangeFound
<1> QED BY <1>2, <1>3

LEMMA PagesFound ==
    ASSUME load_manifest(manifest), DOMAIN pages(manifest) # {}
    PROVE  Finds(manifest, github, "pages.site", PagesChange)
<1> DEFINE desired == build_pages_state(manifest)
           rest == [k \in DOMAIN desired \ {"build_type"} |-> desired[k]]
           create == [kind |-> "create_pages",
                      payload |-> [build_type |-> desired["build_type"]]]
           Put(payload) == [kind |-> "update_pages", payload |-> payload]
<1>1. /\ DOMAIN desired = PageKeys(manifest)
      /\ \A k \in PageKeys(manifest) : desired[k] = get(pages(manifest), k, "workflow")
      /\ "build_type" \in PageKeys(manifest)
    BY DEF build_pages_state, PageKeys, load_manifest, TableOf, pages, SUPPORTED_PAGES_FIELDS
<1> HIDE DEF desired
<1>2. ASSUME NEW requests, RepairsPages(manifest, github, requests)
      PROVE  Finds(manifest, github, "pages.site", Change("pages.site", requests))
    <2>1. \A change : change.key = "pages.site" /\ change.requests = requests
                            => Repairs(manifest, github, change)
        BY <1>2, KeyNames DEF Repairs
    <2> QED BY <2>1, ChangeFound
<1>3. CASE github.pages = Nil /\ rest = Empty
    <2>1. PagesChange = Change("pages.site", <<create>> \o <<>>)
        BY <1>3 DEF PagesChange, desired
    <2>2. <<create>> \o <<>> = <<create>> /\ ToSet(<<create>>) = {create}
        BY OneElement
    <2>3. DOMAIN desired = {"build_type"}
        <3>1. DOMAIN rest = {}
            BY <1>3 DEF Empty
        <3> QED BY <1>1, <3>1
    <2>4. create.kind = "create_pages" /\ DOMAIN create.payload = {"build_type"}
          /\ create.payload["build_type"] = desired["build_type"]
        OBVIOUS
    <2> HIDE DEF create
    <2>5. RepairsPages(manifest, github, <<create>>)
        BY <1>1, <2>2, <2>3, <2>4 DEF RepairsPages
    <2> QED BY <1>2, <2>1, <2>2, <2>5
<1>4. CASE github.pages = Nil /\ rest # Empty
    <2>1. PagesChange = Change("pages.site", <<create>> \o <<Put(rest)>>)
        BY <1>4 DEF PagesChange, desired
    <2>2. ToSet(<<create>> \o <<Put(rest)>>) = {create, Put(rest)}
        <3>1. /\ IsSeq(<<create>>) /\ ToSet(<<create>>) = {create}
              /\ IsSeq(<<Put(rest)>>) /\ ToSet(<<Put(rest)>>) = {Put(rest)}
            BY OneElement
        <3> HIDE DEF create, rest, Put
        <3> QED BY <3>1, ElementsJoined
    <2>3. /\ create.kind = "create_pages" /\ DOMAIN create.payload = {"build_type"}
          /\ create.payload["build_type"] = desired["build_type"]
          /\ Put(rest).kind = "update_pages"
          /\ DOMAIN Put(rest).payload = DOMAIN desired \ {"build_type"}
          /\ \A k \in DOMAIN Put(rest).payload : Put(rest).payload[k] = desired[k]
        OBVIOUS
    <2> HIDE DEF create, Put
    <2>4. RepairsPages(manifest, github, <<create>> \o <<Put(rest)>>)
        BY <1>1, <2>2, <2>3 DEF RepairsPages
    <2> QED BY <1>2, <2>1, <2>4
<1>5. CASE github.pages # Nil /\ \A k \in DOMAIN desired : github.pages[k] = desired[k]
    <2>1. PagesChange = <<>>
        BY <1>5 DEF PagesChange, desired
    <2>2. ~PagesDiffer(manifest, github)
        BY <1>1, <1>5 DEF PagesDiffer, PageKeys, get
    <2> QED BY <2>1, <2>2, DiffersByPart DEF Finds
<1>6. CASE github.pages # Nil /\ ~ \A k \in DOMAIN desired : github.pages[k] = desired[k]
    <2>1. PagesChange = Change("pages.site", <<Put(desired)>>)
        BY <1>6 DEF PagesChange, desired
    <2>2. ToSet(<<Put(desired)>>) = {Put(desired)}
        BY OneElement
    <2>3. Put(desired).kind = "update_pages" /\ Put(desired).payload = desired
        OBVIOUS
    <2> HIDE DEF Put
    <2>4. RepairsPages(manifest, github, <<Put(desired)>>)
        BY <1>1, <2>2, <2>3 DEF RepairsPages
    <2> QED BY <1>2, <2>1, <2>4
<1> QED BY <1>3, <1>4, <1>5, <1>6

\* A managed ruleset has no second one of its name, and gets none.
Alone(m, rulesets, t) ==
    DuplicateNames = FALSE /\ \A i, j \in ManagedIds(m, rulesets, t) : i = j

\* The rulesets of the manifest are all found, or to be fetched.
Listed(m, g, ids, found) ==
    /\ \A t \in DOMAIN found :
        /\ found[t].id \in ManagedIds(m, g.rulesets, t)
        /\ \E form \in Forms : found[t].ruleset = Shown(g.rulesets[found[t].id], form)
    /\ \A t \in ToSet(Targets) :
        \/ Alone(m, g.rulesets, t)
        \/ \A id \in ManagedIds(m, g.rulesets, t) :
              id \in ids \/ (t \in DOMAIN found /\ found[t].id = id)

LEMMA RulesetFound ==
    ASSUME ManifestShape(manifest), ManifestTyped(manifest), load_manifest(manifest),
           NEW t \in {"branch", "tag"},
           ~RulesetRefused(ruleset_table(manifest, t), t, repository(manifest)),
           \A id \in Ids(github.rulesets) : RulesetTyped(github.rulesets[id]),
           NEW found, Listed(manifest, github, {}, found)
    PROVE  Finds(manifest, github, RulesetKey(t), RulesetChange(found, t))
<1> DEFINE managed == rule_types_under_management(ruleset_table(manifest, t), t)
           Normal(payload) == normalize_ruleset_payload(payload, managed)
           M == ManagedIds(manifest, github.rulesets, t)
           id == found[t].id
<1>1. t \in ToSet(Targets) /\ Payload(t) = PayloadOf(manifest, t)
    BY KeyNames DEF Payload, PayloadOf
<1>2. \A q : RepairsRuleset(manifest, github, q, t) =>
            Finds(manifest, github, RulesetKey(t), Change(RulesetKey(t), <<q>>))
    <2> SUFFICES ASSUME NEW q, RepairsRuleset(manifest, github, q, t)
                 PROVE  Finds(manifest, github, RulesetKey(t), Change(RulesetKey(t), <<q>>))
        OBVIOUS
    <2>1. \A change : change.key = RulesetKey(t) /\ change.requests = <<q>>
                            => Repairs(manifest, github, change)
        BY <1>1, KeyNames DEF Repairs
    <2> QED BY <2>1, ChangeFound
<1>3. CASE t \notin DOMAIN found
    <2> DEFINE q == [kind |-> "create_ruleset", payload |-> Payload(t)]
    <2>1. RulesetChange(found, t) = Change(RulesetKey(t), <<q>>)
        BY <1>3 DEF RulesetChange
    <2>2. M = {} \/ DuplicateNames = FALSE
        BY <1>1, <1>3 DEF Listed, Alone
    <2>3. RepairsRuleset(manifest, github, q, t)
        BY <1>1, <2>2 DEF RepairsRuleset
    <2> HIDE DEF q
    <2> QED BY <1>2, <2>1, <2>3
<1>4. CASE t \in DOMAIN found
    <2>1. /\ id \in M /\ M = {id}
          /\ \E form \in Forms : found[t].ruleset = Shown(github.rulesets[id], form)
        BY <1>1, <1>4 DEF Listed, Alone
    <2>2. PICK form \in Forms : found[t].ruleset = Shown(github.rulesets[id], form)
        BY <2>1
    <2>3. CASE Normal(Payload(t)) = Normal(found[t].ruleset)
        <3>1. RulesetChange(found, t) = <<>>
            BY <1>4, <2>3 DEF RulesetChange
        <3>2. RulesetTyped(github.rulesets[id])
            BY <2>1 DEF ManagedIds
        <3>3. InForce(manifest, t, github.rulesets[id])
            BY <1>1, <2>2, <2>3, <3>2, NormalMeansInForce
        <3>4. ~RulesetDiffers(manifest, github, t)
            BY <2>1, <3>3, FS_Singleton DEF RulesetDiffers
        <3> QED BY <1>1, <3>1, <3>4, RulesetsDifferByKey DEF Finds
    <2>4. CASE Normal(Payload(t)) # Normal(found[t].ruleset)
        <3> DEFINE q == [kind |-> "update_ruleset", ruleset_id |-> id, payload |-> Payload(t)]
        <3>1. RulesetChange(found, t) = Change(RulesetKey(t), <<q>>)
            BY <1>4, <2>4 DEF RulesetChange
        <3>2. RepairsRuleset(manifest, github, q, t)
            BY <1>1, <2>1 DEF RepairsRuleset
        <3> HIDE DEF q
        <3> QED BY <1>2, <3>1, <3>2
    <2> QED BY <2>3, <2>4
<1> QED BY <1>3, <1>4

-----------------------------------------------------------------------------
(* What there is at GitHub keeps its types. *)

AllTyped(g) == SiteTyped(g) /\ \A id \in Ids(g.rulesets) : RulesetTyped(g.rulesets[id])

LEMMA AddedTyped ==
    ASSUME NEW g, NEW h, NEW new, RepositoryShape(g), AllTyped(g), RulesetTyped(new),
           h.pages = g.pages, h.rulesets = Append(g.rulesets, new)
    PROVE  AllTyped(h)
<1>1. /\ DOMAIN h.rulesets = 1..(Len(g.rulesets) + 1) /\ DOMAIN g.rulesets = 1..Len(g.rulesets)
      /\ h.rulesets[Len(g.rulesets) + 1] = new
      /\ \A id \in DOMAIN g.rulesets : h.rulesets[id] = g.rulesets[id]
    BY ElementsAppended DEF RepositoryShape, IsSeq
<1>2. Len(g.rulesets) \in Nat
    BY DEF RepositoryShape
<1>3. \A id \in DOMAIN h.rulesets : id \in DOMAIN g.rulesets \/ id = Len(g.rulesets) + 1
    BY <1>1, <1>2
<1>4. \A id \in Ids(h.rulesets) : RulesetTyped(h.rulesets[id])
    BY <1>1, <1>3 DEF AllTyped, Ids
<1> QED BY <1>4 DEF AllTyped, SiteTyped

LEMMA ReplacedTyped ==
    ASSUME NEW g, NEW h, NEW id \in DOMAIN g.rulesets, NEW new, AllTyped(g),
           new # Nil => RulesetTyped(new), h.pages = g.pages,
           h.rulesets = [g.rulesets EXCEPT ![id] = new]
    PROVE  AllTyped(h)
<1>1. /\ DOMAIN h.rulesets = DOMAIN g.rulesets /\ h.rulesets[id] = new
      /\ \A i \in DOMAIN g.rulesets : i # id => h.rulesets[i] = g.rulesets[i]
    OBVIOUS
<1>2. \A i \in Ids(h.rulesets) : RulesetTyped(h.rulesets[i])
    BY <1>1 DEF AllTyped, Ids
<1> QED BY <1>2 DEF AllTyped, SiteTyped

LEMMA RequestKeepsTypes ==
    ASSUME NEW m, NEW g, NEW q, NEW h, RepositoryShape(g), ManifestShape(m), ManifestTyped(m),
           load_manifest(m),
           \A t \in {"branch", "tag"} : ~RulesetRefused(ruleset_table(m, t), t, repository(m)),
           AllTyped(g), SpokenOf(m, q, g.rulesets), Meant(m, q), ~Refuses(g, q),
           h = Effect(g, q)
    PROVE  AllTyped(h)
<1> DEFINE stored == Merged(q.payload, [source_type |-> "Repository"])
<1>1. CASE q.kind = "patch_repository"
    <2>1. h.pages = g.pages /\ h.rulesets = g.rulesets
        BY <1>1 DEF Effect, RepositoryShape
    <2> QED BY <2>1 DEF AllTyped, SiteTyped
<1>2. CASE q.kind = "toggle"
    <2>1. h.pages = g.pages /\ h.rulesets = g.rulesets
        BY <1>2 DEF Effect, RepositoryShape
    <2> QED BY <2>1 DEF AllTyped, SiteTyped
<1>3. CASE q.kind \in {"create_pages", "update_pages"}
    <2>1. h.pages \in PagesSites
        BY <1>3, SiteMade DEF AllTyped
    <2>2. h.rulesets = g.rulesets
        BY <1>3 DEF Effect, RepositoryShape
    <2> QED BY <2>1, <2>2 DEF AllTyped, SiteTyped
<1>4. CASE q.kind = "create_ruleset"
    <2>1. PICK t \in {"branch", "tag"} : q.payload = PayloadOf(m, t)
        BY <1>4, TargetNames DEF SpokenOf
    <2>2. RulesetTyped(stored)
        BY <2>1, PayloadTyped
    <2>3. h.pages = g.pages /\ h.rulesets = Append(g.rulesets, stored)
        BY <1>4 DEF Effect, RepositoryShape
    <2> HIDE DEF stored
    <2> QED BY <2>2, <2>3, AddedTyped
<1>5. CASE q.kind = "update_ruleset"
    <2>1. PICK t \in {"branch", "tag"} : q.payload = PayloadOf(m, t)
        BY <1>5, TargetNames DEF SpokenOf
    <2>2. RulesetTyped(stored)
        BY <2>1, PayloadTyped
    <2>3. h.pages = g.pages /\ h.rulesets = [g.rulesets EXCEPT ![q.ruleset_id] = stored]
        BY <1>5 DEF Effect, RepositoryShape
    <2>4. q.ruleset_id \in DOMAIN g.rulesets
        BY <1>5 DEF Refuses, Ids
    <2> HIDE DEF stored
    <2> QED BY <2>2, <2>3, <2>4, ReplacedTyped
<1> QED BY <1>1, <1>2, <1>3, <1>4, <1>5 DEF SpokenOf

LEMMA ListsMakeTyped ==
    ASSUME NEW new,
           {"enforcement", "bypass_actors", "include", "exclude", "rules"} \subseteq DOMAIN new,
           IsSeq(new.bypass_actors), IsSeq(new.include), IsSeq(new.exclude), IsSeq(new.rules),
           \A rule \in ToSet(new.rules) : RuleTyped(rule)
    PROVE  RulesetTyped(new)
<1>1. \A i \in DOMAIN new.rules : RuleTyped(new.rules[i])
    BY DEF ToSet
<1> QED BY <1>1 DEF RulesetTyped, IsSeq, RuleTyped

\* Rules taken away one by one, or one put in.
LEMMA ChangedRulesTyped ==
    ASSUME NEW old, NEW new, RulesetTyped(old), NEW rules,
           new = [old EXCEPT !.rules = rules],
           rules = IF old.rules = <<>> THEN <<Deletion>> ELSE Tail(old.rules)
    PROVE  RulesetTyped(new)
<1>1. /\ IsSeq(old.bypass_actors) /\ IsSeq(old.include) /\ IsSeq(old.exclude)
      /\ IsSeq(old.rules) /\ \A rule \in ToSet(old.rules) : RuleTyped(rule)
      /\ {"enforcement", "bypass_actors", "include", "exclude", "rules"} \subseteq DOMAIN old
    BY TypedLists
<1>2. IsSeq(rules) /\ \A rule \in ToSet(rules) : RuleTyped(rule)
    <2>1. CASE old.rules = <<>>
        BY <2>1, OneElement, RuleMade, NoParameters DEF Deletion
    <2>2. CASE old.rules # <<>>
        BY <1>1, <2>2, ElementsLeft
    <2> QED BY <2>1, <2>2
<1>3. /\ DOMAIN new = DOMAIN old /\ new.rules = rules
      /\ new.bypass_actors = old.bypass_actors /\ new.include = old.include
      /\ new.exclude = old.exclude
    BY <1>1
<1> QED BY <1>1, <1>2, <1>3, ListsMakeTyped

LEMMA BareTyped ==
    ASSUME NEW t, NEW new, new = Merged(Bare(t), [source_type |-> "Repository"])
    PROVE  RulesetTyped(new)
<1>1. /\ {"enforcement", "bypass_actors", "include", "exclude", "rules"} \subseteq DOMAIN new
      /\ new.bypass_actors = <<>> /\ new.include = <<DefaultRefs(t)>>
      /\ new.exclude = <<>> /\ new.rules = <<>>
    BY DEF Bare, Merged
<1>2. IsSeq(<<>>) /\ IsSeq(<<DefaultRefs(t)>>)
    BY NoElements, OneElement
<1> QED BY <1>1, <1>2, NoElements, ListsMakeTyped

LEMMA EditKeepsTypes ==
    ASSUME RepositoryShape(github), AllTyped(github), NEW kind, NEW h \in EditsOf(kind),
           kind \in {"setting", "toggle", "noSite", "deleteRuleset", "changeRules",
                     "newRuleset"}
    PROVE  AllTyped(h)
<1>1. CASE kind = "setting"
    <2>1. PICK k : h = [github EXCEPT !.settings[k] = ~@]
        BY <1>1 DEF EditsOf
    <2>2. h.pages = github.pages /\ h.rulesets = github.rulesets
        BY <2>1 DEF RepositoryShape
    <2> QED BY <2>2 DEF AllTyped, SiteTyped
<1>2. CASE kind = "toggle"
    <2>1. PICK t : h = [github EXCEPT !.toggles[t] = ~@]
        BY <1>2 DEF EditsOf
    <2>2. h.pages = github.pages /\ h.rulesets = github.rulesets
        BY <2>1 DEF RepositoryShape
    <2> QED BY <2>2 DEF AllTyped, SiteTyped
<1>3. CASE kind = "noSite"
    <2>1. h = [github EXCEPT !.pages = Nil]
        BY <1>3 DEF EditsOf
    <2>2. h.pages = Nil /\ h.rulesets = github.rulesets
        BY <2>1 DEF RepositoryShape
    <2> QED BY <2>2 DEF AllTyped, SiteTyped
<1>4. CASE kind = "deleteRuleset"
    <2>1. PICK id \in Ids(github.rulesets) : h = [github EXCEPT !.rulesets[id] = Nil]
        BY <1>4 DEF EditsOf
    <2>2. /\ h.rulesets = [github.rulesets EXCEPT ![id] = Nil] /\ h.pages = github.pages
          /\ id \in DOMAIN github.rulesets
        BY <2>1 DEF Ids, RepositoryShape
    <2> QED BY <2>2, ReplacedTyped
<1>5. CASE kind = "changeRules"
    <2>1. PICK id \in Ids(github.rulesets) :
            h = [github EXCEPT !.rulesets[id].rules =
                    IF @ = <<>> THEN <<Deletion>> ELSE Tail(@)]
        BY <1>5 DEF EditsOf
    <2> DEFINE old == github.rulesets[id]
               rules == IF old.rules = <<>> THEN <<Deletion>> ELSE Tail(old.rules)
               new == [old EXCEPT !.rules = rules]
    <2>2. /\ h.rulesets = [github.rulesets EXCEPT ![id] = new] /\ h.pages = github.pages
          /\ id \in DOMAIN github.rulesets
        BY <2>1 DEF Ids, RepositoryShape
    <2>3. RulesetTyped(old)
        BY DEF AllTyped
    <2>4. RulesetTyped(new)
        BY <2>3, ChangedRulesTyped
    <2> HIDE DEF new
    <2> QED BY <2>2, <2>4, ReplacedTyped
<1>6. CASE kind = "newRuleset"
    <2>1. PICK t \in ToSet(Targets) :
            h = Effect(github, [kind |-> "create_ruleset", payload |-> Bare(t)])
        BY <1>6 DEF EditsOf
    <2> DEFINE q == [kind |-> "create_ruleset", payload |-> Bare(t)]
               new == Merged(Bare(t), [source_type |-> "Repository"])
    <2>2. q.kind = "create_ruleset" /\ q.payload = Bare(t)
        OBVIOUS
    <2>3. h = [github EXCEPT !.rulesets = Append(@, new)]
        BY <2>1 DEF Effect
    <2>4. RulesetTyped(new)
        BY BareTyped
    <2> HIDE DEF new
    <2>5. h.pages = github.pages /\ h.rulesets = Append(github.rulesets, new)
        BY <2>3 DEF RepositoryShape
    <2> QED BY <2>4, <2>5, AddedTyped
<1> QED BY <1>1, <1>2, <1>3, <1>4, <1>5, <1>6

-----------------------------------------------------------------------------
(* The inductive invariant. *)

RulesetParts == {RulesetKey(t) : t \in ToSet(Targets)}

\* The parts a run has still to look at while it has reads to send.
Unread(reads) ==
    {IF read = "pages" THEN "pages.site" ELSE read : read \in ToSet(reads)} \cup RulesetParts

\* What a run that nobody disturbed knows of the repository.
Converges(m, g, x) ==
    /\ x.pc \in {"repository", "reads"} => DOMAIN x.found = {}
    /\ x.pc = "reads" => Plan(m, g, x.changes, Unread(x.reads)) /\ Apart(x.reads)
    /\ x.pc = "rulesets" =>
          Plan(m, g, x.changes, RulesetParts) /\ Listed(m, g, x.ids, x.found)
    /\ x.pc = "apply" => Plan(m, g, x.changes, {})
    /\ x.pc = "succeeded" =>
          /\ Applicable(m) /\ Plan(m, g, x.changes, {})
          /\ x.mode = "apply" => x.changes = <<>>

VInv ==
    /\ MInv
    /\ ManifestTyped(manifest) /\ AllTyped(github)
    /\ \A r \in Runs : ~run[r].disturbed => Converges(manifest, github, run[r])

\* The list of rulesets tells of every one that counts.
NamesUnique ==
    /\ DuplicateNames = FALSE
    /\ \A t \in ToSet(Targets) :
          \A i, j \in ManagedIds(manifest, github.rulesets, t) : i = j

LEMMA AtRest ==
    ASSUME NEW m, NEW g, NEW x, x.pc \in {"idle", "failed"}
    PROVE  Converges(m, g, x)
BY DEF Converges

LEMMA RunOf ==
    ASSUME MInv, NEW r \in Runs
    PROVE  /\ DOMAIN run = Runs /\ RunFits(manifest, run[r], github.rulesets)
           /\ DOMAIN run[r] = RunFields /\ IsSeq(run[r].changes)
           /\ ManifestShape(manifest) /\ RepositoryShape(github) /\ SiteShape(github)
BY DEF MInv, CInv, RunFits, ChangesFit

\* One run takes a step that changes nothing else.
LEMMA OneRunConverges ==
    ASSUME VInv, MInv', NEW r \in Runs, UNCHANGED <<manifest, github>>, NEW x,
           run' = [run EXCEPT ![r] = x],
           ~x.disturbed => Converges(manifest, github, x)
    PROVE  VInv'
<1>1. ASSUME NEW q \in Runs, ~run'[q].disturbed
      PROVE  Converges(manifest, github, run'[q])
    BY <1>1, RunOf DEF VInv
<1> QED BY <1>1 DEF VInv

LEMMA RunEnds ==
    ASSUME VInv, MInv', NEW r \in Runs, UNCHANGED <<manifest, github>>, Fails(r)
    PROVE  VInv'
<1> DEFINE x == [run[r] EXCEPT !.pc = "failed"]
<1>1. run' = [run EXCEPT ![r] = x]
    BY DEF Fails, Goto
<1>2. x.pc = "failed"
    BY RunOf DEF VInv, RunFields
<1> HIDE DEF x
<1>3. Converges(manifest, github, x)
    BY <1>2, AtRest
<1> QED BY <1>1, <1>3, OneRunConverges

\* The repository changes under the runs.
LEMMA OthersDisturbed ==
    ASSUME VInv, MInv', manifest' = manifest, AllTyped(github'), NEW runs, NEW but,
           run' = Disturb(runs, but),
           \A q \in Runs : \/ runs[q] = run[q] /\ q # but
                           \/ /\ q = but
                              /\ ~runs[q].disturbed => Converges(manifest, github', runs[q])
    PROVE  VInv'
<1>1. ASSUME NEW q \in Runs, ~run'[q].disturbed
      PROVE  Converges(manifest, github', run'[q])
    <2>1. run'[q] = IF q # but /\ runs[q].pc # "idle" /\ github' # github
                    THEN [runs[q] EXCEPT !.disturbed = TRUE] ELSE runs[q]
        BY DEF Disturb
    <2>2. CASE q = but
        <3>1. run'[q] = runs[q]
            BY <2>1, <2>2
        <3> QED BY <1>1, <2>2, <3>1
    <2>3. CASE q # but
        <3>1. runs[q] = run[q] /\ DOMAIN run[q] = RunFields
            BY <2>3, RunOf DEF VInv
        <3>2. CASE runs[q].pc # "idle" /\ github' # github
            <4>1. run'[q] = [run[q] EXCEPT !.disturbed = TRUE]
                BY <2>1, <2>3, <3>1, <3>2
            <4>2. run'[q].disturbed = TRUE
                BY <3>1, <4>1 DEF RunFields
            <4> QED BY <1>1, <4>2
        <3>3. CASE runs[q].pc = "idle"
            BY <2>1, <3>1, <3>3, AtRest
        <3>4. CASE github' = github
            BY <1>1, <2>1, <3>1, <3>4 DEF VInv
        <3> QED BY <3>2, <3>3, <3>4
    <2> QED BY <2>2, <2>3
<1> QED BY <1>1 DEF VInv

-----------------------------------------------------------------------------
(* Planning. *)

\* The planner reads each toggle of the manifest once, and Pages if it is there.
LEMMA ReadsListed ==
    LET reads == TogglesToRead \o Where(DOMAIN pages(manifest) # {}, "pages")
    IN  /\ IsSeq(reads) /\ Apart(reads)
        /\ \A read : read \in ToSet(reads) <=>
              \/ read \in ToSet(Toggles) /\ toggle_desired(manifest)[read] # Nil
              \/ read = "pages" /\ DOMAIN pages(manifest) # {}
<1> DEFINE Read(t) == Where(toggle_desired(manifest)[t] # Nil, t)
           site == Where(DOMAIN pages(manifest) # {}, "pages")
           a == Read("vulnerability_alerts")
           b == Read("immutable_releases")
           c == Read("private_vulnerability_reporting")
           d == Read("automated_security_fixes")
<1>2. TogglesToRead \o site = (((a \o b) \o c) \o d) \o site
    BY DEF TogglesToRead
<1>3. /\ IsSeq(a) /\ Apart(a) /\ IsSeq(b) /\ Apart(b) /\ IsSeq(c) /\ Apart(c)
      /\ IsSeq(d) /\ Apart(d) /\ IsSeq(site) /\ Apart(site)
    BY WhereAtMost
<1>4. /\ \A y : y \in ToSet(a) <=> /\ toggle_desired(manifest)["vulnerability_alerts"] # Nil
                                   /\ y = "vulnerability_alerts"
      /\ \A y : y \in ToSet(b) <=> /\ toggle_desired(manifest)["immutable_releases"] # Nil
                                   /\ y = "immutable_releases"
      /\ \A y : y \in ToSet(c) <=>
            /\ toggle_desired(manifest)["private_vulnerability_reporting"] # Nil
            /\ y = "private_vulnerability_reporting"
      /\ \A y : y \in ToSet(d) <=>
            /\ toggle_desired(manifest)["automated_security_fixes"] # Nil
            /\ y = "automated_security_fixes"
      /\ \A y : y \in ToSet(site) <=> DOMAIN pages(manifest) # {} /\ y = "pages"
    BY WhereElements
<1> HIDE DEF a, b, c, d, site
<1>5. IsSeq(a \o b) /\ Apart(a \o b) /\ ToSet(a \o b) = ToSet(a) \cup ToSet(b)
    BY <1>3, <1>4, ElementsJoined, ApartJoined
<1>6. /\ IsSeq((a \o b) \o c) /\ Apart((a \o b) \o c)
      /\ ToSet((a \o b) \o c) = ToSet(a) \cup ToSet(b) \cup ToSet(c)
    BY <1>3, <1>4, <1>5, ElementsJoined, ApartJoined
<1>7. /\ IsSeq(((a \o b) \o c) \o d) /\ Apart(((a \o b) \o c) \o d)
      /\ ToSet(((a \o b) \o c) \o d) = ToSet(a) \cup ToSet(b) \cup ToSet(c) \cup ToSet(d)
    BY <1>3, <1>4, <1>6, ElementsJoined, ApartJoined
<1>8. /\ IsSeq((((a \o b) \o c) \o d) \o site) /\ Apart((((a \o b) \o c) \o d) \o site)
      /\ ToSet((((a \o b) \o c) \o d) \o site)
            = ToSet(a) \cup ToSet(b) \cup ToSet(c) \cup ToSet(d) \cup ToSet(site)
    BY <1>3, <1>4, <1>7, ElementsJoined, ApartJoined
<1> QED BY <1>2, <1>4, <1>8, ToggleNames DEF site

LEMMA NothingBefore ==
    ASSUME NEW s, IsSeq(s)
    PROVE  <<>> \o s = s
BY DEF IsSeq

LEMMA ReadRepositoryConverges ==
    ASSUME VInv, MInv', NEW r \in Runs, ReadRepository(r)
    PROVE  VInv'
<1>1. /\ UNCHANGED <<manifest, github>> /\ run[r].pc = "repository"
      /\ DOMAIN run[r] = RunFields /\ RunFits(manifest, run[r], github.rulesets)
      /\ ManifestShape(manifest)
    BY RunOf DEF ReadRepository, At, VInv
<1>2. load_manifest(manifest)
    BY <1>1 DEF RunFits, ChecksPassed
<1>3. CASE ContradictsDependencyGraph(manifest)
    BY <1>1, <1>3, RunEnds DEF ReadRepository
<1>4. CASE ~ContradictsDependencyGraph(manifest)
    <2> DEFINE changes == SettingsChange \o AdvancedSecurityChange
               reads == TogglesToRead \o Where(DOMAIN pages(manifest) # {}, "pages")
               x == [run[r] EXCEPT !.changes = changes, !.reads = reads, !.pc = "reads"]
               some == DriftKeys \ {"repository.settings"}
               fewer == some \ {"security.advanced_security"}
    <2>1. run' = [run EXCEPT ![r] = x]
        BY <1>4 DEF ReadRepository
    <2>2. IsSeq(SettingsChange) /\ <<>> \o SettingsChange = SettingsChange
        <3>1. IsSeq(SettingsChange)
            BY <1>1, <1>2, <1>4, SettingsChangeFits DEF ChangesFit
        <3> HIDE DEF SettingsChange
        <3> QED BY <3>1, NothingBefore
    <2>3. Plan(manifest, github, SettingsChange, some)
        <3>1. /\ Finds(manifest, github, "repository.settings", SettingsChange)
              /\ Plan(manifest, github, <<>>, DriftKeys) /\ IsSeq(<<>>)
              /\ "repository.settings" \in DriftKeys
            BY <1>2, SettingsFound, EmptyPlan, NoElements, KeyNames
        <3>2. Plan(manifest, github, <<>> \o SettingsChange, some)
            BY <3>1, PlanExtended
        <3> QED BY <2>2, <3>2
    <2>4. Plan(manifest, github, changes, fewer)
        <3>1. /\ Finds(manifest, github, "security.advanced_security", AdvancedSecurityChange)
              /\ "security.advanced_security" \in some
            BY AdvancedSecurityFound, KeyNames
        <3> QED BY <2>2, <2>3, <3>1, PlanExtended
    <2>5. /\ IsSeq(reads) /\ Apart(reads)
          /\ \A read : read \in ToSet(reads) <=>
                \/ read \in ToSet(Toggles) /\ toggle_desired(manifest)[read] # Nil
                \/ read = "pages" /\ DOMAIN pages(manifest) # {}
        BY ReadsListed
    <2> HIDE DEF changes, reads
    <2>6. Unread(reads) \subseteq fewer
        BY <2>5, KeyNames DEF Unread, RulesetParts
    <2>7. ASSUME NEW key \in fewer \ Unread(reads)
          PROVE  ~Differs(manifest, github, key)
        <3>1. CASE key = "manifest"
            BY <3>1, DiffersByPart
        <3>2. CASE key = "pages.site"
            <4>1. "pages" \notin ToSet(reads)
                BY <2>7, <3>2 DEF Unread
            <4>2. ~PagesDiffer(manifest, github)
                BY <2>5, <4>1 DEF PagesDiffer
            <4> QED BY <3>2, <4>2, DiffersByPart
        <3>3. CASE key \in ToSet(Toggles)
            <4>1. key # "pages"
                BY <3>3, KeyNames
            <4>2. key \notin ToSet(reads)
                BY <2>7, <4>1 DEF Unread
            <4>3. ToggleWanted(manifest, key) = Nil
                BY <1>1, <1>2, <1>4, <2>5, <3>3, <4>2, TogglesAgree
            <4> QED BY <3>3, <4>3, DiffersByPart
        <3> QED BY <2>7, <3>1, <3>2, <3>3, KeyNames DEF Unread, RulesetParts
    <2>8. Plan(manifest, github, changes, Unread(reads))
        BY <2>4, <2>6, <2>7, PlanShrunk
    <2>9. /\ x.pc = "reads" /\ x.changes = changes /\ x.reads = reads
          /\ x.found = run[r].found /\ x.disturbed = run[r].disturbed
        BY <1>1 DEF RunFields
    <2> HIDE DEF x
    <2>10. ASSUME ~x.disturbed PROVE Converges(manifest, github, x)
        <3>1. DOMAIN run[r].found = {}
            BY <1>1, <2>9, <2>10 DEF VInv, Converges
        <3> QED BY <2>5, <2>8, <2>9, <3>1 DEF Converges
    <2> QED BY <1>1, <2>1, <2>10, OneRunConverges
<1> QED BY <1>3, <1>4

\* The answer to the head of the reads.
LEMMA ReadingConverges ==
    ASSUME VInv, MInv', NEW r \in Runs, UNCHANGED <<manifest, github>>,
           run[r].pc = "reads", run[r].reads # <<>>, NEW more,
           Finds(manifest, github,
                 IF Head(run[r].reads) = "pages" THEN "pages.site" ELSE Head(run[r].reads), more),
           run' = [run EXCEPT ![r].reads = Tail(@), ![r].changes = @ \o more]
    PROVE  VInv'
<1> DEFINE reads == run[r].reads
           read == Head(reads)
           Key(y) == IF y = "pages" THEN "pages.site" ELSE y
           x == [run[r] EXCEPT !.reads = Tail(@), !.changes = @ \o more]
<1>1. /\ DOMAIN run[r] = RunFields /\ RunFits(manifest, run[r], github.rulesets)
      /\ IsSeq(run[r].changes)
    BY RunOf DEF VInv
<1>2. run' = [run EXCEPT ![r] = x]
    OBVIOUS
<1>3. /\ x.pc = "reads" /\ x.reads = Tail(reads) /\ x.changes = run[r].changes \o more
      /\ x.found = run[r].found /\ x.disturbed = run[r].disturbed
    BY <1>1 DEF RunFields
<1>4. IsSeq(reads) /\ \A y \in ToSet(reads) : y \in ToSet(Toggles) \cup {"pages"}
    BY <1>1 DEF RunFits, ReadsFit
<1> HIDE DEF x
<1>5. ASSUME ~x.disturbed PROVE Converges(manifest, github, x)
    <2>1. /\ Plan(manifest, github, run[r].changes, Unread(reads)) /\ Apart(reads)
          /\ DOMAIN run[r].found = {}
        BY <1>3, <1>5 DEF VInv, Converges
    <2> HIDE DEF reads
    <2>2. /\ Apart(Tail(reads)) /\ ToSet(Tail(reads)) = ToSet(reads) \ {read}
          /\ read \in ToSet(reads)
        BY <1>4, <2>1, ApartLeft, ElementsLeft DEF reads
    <2>3. Unread(Tail(reads)) = Unread(reads) \ {Key(read)} /\ Key(read) \in Unread(reads)
        <3>1. \A y \in ToSet(reads) : Key(y) = Key(read) => y = read
            BY <1>4, <2>2, KeyNames
        <3>2. \A y \in ToSet(reads) : Key(y) \notin RulesetParts
            BY <1>4, KeyNames DEF RulesetParts
        <3>3. /\ Unread(reads) = {Key(y) : y \in ToSet(reads)} \cup RulesetParts
              /\ Unread(Tail(reads)) = {Key(y) : y \in ToSet(Tail(reads))} \cup RulesetParts
            BY DEF Unread
        <3> HIDE DEF Key
        <3> QED BY <2>2, <3>1, <3>2, <3>3
    <2>4. Plan(manifest, github, run[r].changes \o more, Unread(Tail(reads)))
        BY <1>1, <2>1, <2>3, PlanExtended DEF reads
    <2> QED BY <1>3, <2>1, <2>2, <2>4 DEF Converges, reads
<1> QED BY <1>2, <1>5, OneRunConverges

LEMMA ReadToggleConverges ==
    ASSUME VInv, MInv', NEW r \in Runs, ReadToggle(r)
    PROVE  VInv'
<1> DEFINE t == Head(run[r].reads)
<1>1. /\ run[r].pc = "reads" /\ run[r].reads # <<>> /\ t # "pages"
      /\ run' = [run EXCEPT ![r].reads = Tail(@), ![r].changes = @ \o ToggleChange(t)]
      /\ UNCHANGED <<manifest, github>>
    BY DEF ReadToggle, At
<1>2. RunFits(manifest, run[r], github.rulesets) /\ ManifestShape(manifest)
    BY RunOf DEF VInv
<1>3. /\ ReadsFit(manifest, run[r].reads) /\ load_manifest(manifest)
      /\ ~ContradictsDependencyGraph(manifest)
    BY <1>1, <1>2 DEF RunFits, ChecksPassed
<1>4. t \in ToSet(Toggles) /\ ToggleWanted(manifest, t) # Nil
    BY <1>1, <1>3, ElementsLeft DEF ReadsFit
<1>5. Finds(manifest, github, t, ToggleChange(t))
    BY <1>2, <1>3, <1>4, ToggleFound
<1> QED BY <1>1, <1>5, ReadingConverges

LEMMA ReadPagesConverges ==
    ASSUME VInv, MInv', NEW r \in Runs, ReadPages(r)
    PROVE  VInv'
<1>1. /\ run[r].pc = "reads" /\ run[r].reads # <<>> /\ Head(run[r].reads) = "pages"
      /\ run' = [run EXCEPT ![r].reads = Tail(@), ![r].changes = @ \o PagesChange]
      /\ UNCHANGED <<manifest, github>>
    BY DEF ReadPages, At
<1>2. RunFits(manifest, run[r], github.rulesets)
    BY RunOf DEF VInv
<1>3. ReadsFit(manifest, run[r].reads) /\ load_manifest(manifest)
    BY <1>1, <1>2 DEF RunFits, ChecksPassed
<1>4. DOMAIN pages(manifest) # {}
    BY <1>1, <1>3, ElementsLeft, KeyNames DEF ReadsFit
<1>5. Finds(manifest, github, "pages.site", PagesChange)
    BY <1>3, <1>4, PagesFound
<1> QED BY <1>1, <1>5, ReadingConverges

LEMMA ListRulesetsConverges ==
    ASSUME VInv, MInv', OnePage \/ NamesUnique, NEW r \in Runs, ListRulesets(r)
    PROVE  VInv'
<1>1. /\ UNCHANGED <<manifest, github>> /\ run[r].pc = "reads" /\ run[r].reads = <<>>
      /\ DOMAIN run[r] = RunFields /\ RepositoryShape(github)
    BY RunOf DEF ListRulesets, At, VInv
<1>2. CASE Fails(r)
    BY <1>1, <1>2, RunEnds
<1>3. ASSUME NEW page \in Pages(github.rulesets),
             run' = [run EXCEPT ![r].pc = "rulesets",
                                ![r].ids = {id \in page : \E i \in DOMAIN Targets :
                                    IsManaged(github.rulesets[id], Targets[i])}]
      PROVE  VInv'
    <2> DEFINE ids == {id \in page : \E i \in DOMAIN Targets :
                            IsManaged(github.rulesets[id], Targets[i])}
               x == [run[r] EXCEPT !.pc = "rulesets", !.ids = ids]
    <2>1. run' = [run EXCEPT ![r] = x]
        BY <1>3
    <2>2. ASSUME NEW t \in ToSet(Targets), ~Alone(manifest, github.rulesets, t),
                 NEW id \in ManagedIds(manifest, github.rulesets, t)
          PROVE  id \in ids
        <3>1. OnePage
            BY <2>2 DEF Alone, NamesUnique
        <3>2. page = Ids(github.rulesets)
            BY <3>1 DEF Pages, OnePage
        <3>3. id \in Ids(github.rulesets) /\ RulesetShape(github.rulesets[id])
            BY <1>1 DEF ManagedIds, RepositoryShape
        <3>4. IsManaged(github.rulesets[id], t)
            BY <3>3 DEF ManagedIds, IsManaged, NameOf, RulesetNameOf, ruleset_name, RulesetShape
        <3> QED BY <3>2, <3>3, <3>4, TargetNames
    <2> HIDE DEF ids
    <2>3. /\ x.pc = "rulesets" /\ x.changes = run[r].changes /\ x.ids = ids
          /\ x.found = run[r].found /\ x.disturbed = run[r].disturbed
        BY <1>1 DEF RunFields
    <2> HIDE DEF x
    <2>4. ASSUME ~x.disturbed PROVE Converges(manifest, github, x)
        <3>1. /\ Plan(manifest, github, run[r].changes, Unread(<<>>))
              /\ DOMAIN run[r].found = {}
            BY <1>1, <2>3, <2>4 DEF VInv, Converges
        <3>2. Unread(<<>>) = RulesetParts
            BY NoElements DEF Unread
        <3>3. Listed(manifest, github, ids, run[r].found)
            BY <2>2, <3>1 DEF Listed
        <3> QED BY <2>3, <3>1, <3>2, <3>3 DEF Converges
    <2> QED BY <1>1, <2>1, <2>4, OneRunConverges
<1> QED BY <1>2, <1>3 DEF ListRulesets

LEMMA ReadRulesetConverges ==
    ASSUME VInv, MInv', NEW r \in Runs, ReadRuleset(r)
    PROVE  VInv'
<1>1. /\ UNCHANGED <<manifest, github>> /\ run[r].pc = "rulesets"
      /\ DOMAIN run[r] = RunFields /\ RunFits(manifest, run[r], github.rulesets)
    BY RunOf DEF ReadRuleset, At, VInv
<1>2. PICK id \in run[r].ids :
        IF id \notin Ids(github.rulesets) \/ github.rulesets[id].target \in DOMAIN run[r].found
        THEN Fails(r)
        ELSE \E form \in Forms :
                run' = [run EXCEPT ![r].ids = @ \ {id},
                    ![r].found = Found(@, id, Shown(github.rulesets[id], form))]
    BY DEF ReadRuleset
<1>3. CASE Fails(r)
    BY <1>1, <1>3, RunEnds
<1>4. ASSUME id \in Ids(github.rulesets), github.rulesets[id].target \notin DOMAIN run[r].found,
             NEW form \in Forms,
             run' = [run EXCEPT ![r].ids = @ \ {id},
                        ![r].found = Found(@, id, Shown(github.rulesets[id], form))]
      PROVE  VInv'
    <2> DEFINE ruleset == github.rulesets[id]
               shown == Shown(ruleset, form)
               found == run[r].found
               now == Found(found, id, shown)
               x == [run[r] EXCEPT !.ids = @ \ {id}, !.found = now]
               t == ruleset.target
    <2>1. run' = [run EXCEPT ![r] = x]
        BY <1>4
    <2>2. t \in ToSet(Targets) /\ id \in ManagedIds(manifest, github.rulesets, t)
        <3>1. PICK u \in ToSet(Targets) : Manageable(manifest, u, github.rulesets, id)
            BY <1>1 DEF RunFits, RulesetsFit
        <3>2. id \in ManagedIds(manifest, github.rulesets, u)
            BY <1>4, <3>1 DEF Manageable, Ids
        <3> QED BY <3>2 DEF ManagedIds
    <2>3. shown.target = t
        BY DEF Shown
    <2>4. /\ DOMAIN now = DOMAIN found \cup {t}
          /\ now[t].id = id /\ now[t].ruleset = shown
          /\ \A u \in DOMAIN found : u # t => now[u] = found[u]
        <3> DEFINE entry == [id |-> id, ruleset |-> shown]
                   added == [u \in {shown.target} |-> entry]
        <3>1. DOMAIN added = {t} /\ added[t] = entry /\ now = Merged(found, added)
            BY <2>3 DEF Found
        <3>2. entry.id = id /\ entry.ruleset = shown
            OBVIOUS
        <3> HIDE DEF entry, added, shown, found, now, t
        <3> QED BY <3>1, <3>2 DEF Merged
    <2>5. /\ x.pc = "rulesets" /\ x.changes = run[r].changes /\ x.ids = run[r].ids \ {id}
          /\ x.found = now /\ x.disturbed = run[r].disturbed
        BY <1>1 DEF RunFields
    <2> HIDE DEF x, now
    <2>6. ASSUME ~x.disturbed PROVE Converges(manifest, github, x)
        <3>1. /\ Plan(manifest, github, run[r].changes, RulesetParts)
              /\ Listed(manifest, github, run[r].ids, found)
            BY <1>1, <2>5, <2>6 DEF VInv, Converges
        <3>2. ASSUME NEW u \in DOMAIN now
              PROVE  /\ now[u].id \in ManagedIds(manifest, github.rulesets, u)
                     /\ \E f \in Forms :
                            now[u].ruleset = Shown(github.rulesets[now[u].id], f)
            <4>1. CASE u = t
                BY <2>2, <2>4, <4>1
            <4>2. CASE u # t
                BY <2>4, <3>1, <4>2 DEF Listed
            <4> QED BY <4>1, <4>2
        <3>3. ASSUME NEW u \in ToSet(Targets), ~Alone(manifest, github.rulesets, u),
                     NEW i \in ManagedIds(manifest, github.rulesets, u)
              PROVE  i \in x.ids \/ (u \in DOMAIN now /\ now[u].id = i)
            <4>1. i \in run[r].ids \/ (u \in DOMAIN found /\ found[u].id = i)
                BY <3>1, <3>3 DEF Listed
            <4>2. i = id => u = t
                BY <2>2, <3>3 DEF ManagedIds
            <4> QED BY <1>4, <2>4, <2>5, <4>1, <4>2
        <3>4. Listed(manifest, github, x.ids, now)
            BY <3>2, <3>3 DEF Listed
        <3> QED BY <2>5, <3>1, <3>4 DEF Converges
    <2> QED BY <1>1, <2>1, <2>6, OneRunConverges
<1> QED BY <1>2, <1>3, <1>4

LEMMA FinishPlanConverges ==
    ASSUME VInv, MInv', NEW r \in Runs, FinishPlan(r)
    PROVE  VInv'
<1> DEFINE found == run[r].found
           b == RulesetChange(found, "branch")
           t == RulesetChange(found, "tag")
           pc == IF run[r].mode = "plan" THEN "succeeded" ELSE "apply"
           x == [run[r] EXCEPT !.changes = @ \o b \o t, !.found = Empty, !.pc = pc]
<1>1. /\ UNCHANGED <<manifest, github>> /\ run[r].pc = "rulesets" /\ run[r].ids = {}
      /\ DOMAIN run[r] = RunFields /\ RunFits(manifest, run[r], github.rulesets)
      /\ ManifestShape(manifest) /\ IsSeq(run[r].changes)
    BY RunOf DEF FinishPlan, At, VInv
<1>2. /\ load_manifest(manifest) /\ ~ContradictsDependencyGraph(manifest)
      /\ \A u \in {"branch", "tag"} :
            ~RulesetRefused(ruleset_table(manifest, u), u, repository(manifest))
      /\ run[r].mode \in {"plan", "apply"}
    BY <1>1 DEF RunFits, ChecksPassed
<1>3. Applicable(manifest)
    BY <1>1, <1>2, AcceptedIsApplicable
<1>4. run' = [run EXCEPT ![r] = x]
    BY DEF FinishPlan
<1>5. IsSeq(b)
    BY <1>1, RulesetChangeFits, TargetNames DEF RunFits, RulesetsFit, ChangesFit
<1> HIDE DEF b, t
<1>6. /\ x.pc = pc /\ x.changes = run[r].changes \o b \o t
      /\ x.mode = run[r].mode /\ x.disturbed = run[r].disturbed
    BY <1>1 DEF RunFields
<1> HIDE DEF x
<1>7. ASSUME ~x.disturbed PROVE Converges(manifest, github, x)
    <2>1. /\ Plan(manifest, github, run[r].changes, RulesetParts)
          /\ Listed(manifest, github, {}, found)
        BY <1>1, <1>6, <1>7 DEF VInv, Converges
    <2>2. /\ Finds(manifest, github, "rulesets.branch", b)
          /\ Finds(manifest, github, "rulesets.tag", t)
        BY <1>1, <1>2, <2>1, RulesetFound, KeyNames DEF VInv, AllTyped, b, t
    <2>3. RulesetParts = {"rulesets.branch", "rulesets.tag"}
        BY KeyNames DEF RulesetParts
    <2>4. Plan(manifest, github, run[r].changes \o b, {"rulesets.tag"})
        <3>1. RulesetParts \ {"rulesets.branch"} = {"rulesets.tag"}
            BY <2>3
        <3> QED BY <1>1, <2>1, <2>2, <2>3, <3>1, PlanExtended
    <2>5. Plan(manifest, github, run[r].changes \o b \o t, {})
        <3>1. IsSeq(run[r].changes \o b) /\ {"rulesets.tag"} \ {"rulesets.tag"} = {}
            BY <1>1, <1>5, ElementsJoined
        <3> QED BY <2>2, <2>4, <3>1, PlanExtended
    <2>6. pc \in {"succeeded", "apply"} /\ (pc = "succeeded" => x.mode # "apply")
        BY <1>6
    <2> HIDE DEF pc
    <2> QED BY <1>3, <1>6, <2>5, <2>6 DEF Converges
<1> QED BY <1>1, <1>4, <1>7, OneRunConverges

-----------------------------------------------------------------------------
(* Applying. *)

\* Somebody changed the repository: every run under way is disturbed, but for
\* one whose plan is known to hold still.
LEMMA RepositoryConverges ==
    ASSUME VInv, MInv', manifest' = manifest, AllTyped(github'), NEW r \in Runs, NEW x,
           run' = Disturb([run EXCEPT ![r] = x], r),
           ~x.disturbed => Converges(manifest, github', x)
    PROVE  VInv'
<1> DEFINE runs == [run EXCEPT ![r] = x]
<1>1. \A q \in Runs : \/ runs[q] = run[q] /\ q # r
                      \/ /\ q = r
                         /\ ~runs[q].disturbed => Converges(manifest, github', runs[q])
    BY RunOf DEF VInv
<1> HIDE DEF runs
<1>2. run' = Disturb(runs, r)
    BY DEF runs
<1> QED BY <1>1, <1>2, OthersDisturbed

\* What the request of a run that applies its plan does.
LEMMA ApplyingSends ==
    ASSUME VInv, NEW r \in Runs, At(r, "apply"), run[r].changes # <<>>,
           ~Refuses(github, ToSend(r)), NEW h, h = Effect(github, ToSend(r))
    PROVE  /\ AllTyped(h)
           /\ ~run[r].disturbed => Plan(manifest, h, Sent(run[r].changes), {})
<1> DEFINE change == Head(run[r].changes)
           q == ToSend(r)
<1>1. /\ MInv /\ CInv /\ ManifestTyped(manifest) /\ AllTyped(github) /\ SiteTyped(github)
      /\ RunFits(manifest, run[r], github.rulesets) /\ run[r].pc = "apply"
      /\ AllMeant(manifest, run[r].changes)
      /\ ManifestShape(manifest) /\ RepositoryShape(github) /\ SiteShape(github)
    BY DEF VInv, MInv, CInv, At, AllTyped
<1>2. SpokenOf(manifest, q, github.rulesets)
    BY <1>1, RequestFits
<1>3. /\ load_manifest(manifest)
      /\ \A t \in {"branch", "tag"} :
            ~RulesetRefused(ruleset_table(manifest, t), t, repository(manifest))
      /\ ChangesFit(manifest, run[r].changes, github.rulesets)
    BY <1>1 DEF RunFits, ChecksPassed
<1>4. Meant(manifest, q)
    BY <1>1, <1>3, SentMeant DEF ToSend
<1>5. change \in ToSet(run[r].changes) /\ ChangeFits(manifest, change, github.rulesets)
    BY <1>3, ElementsLeft DEF ChangesFit
<1>6. q = Head(change.requests)
    BY DEF ToSend
<1> HIDE DEF q, change
<1>7. ~Refuses(github, q) /\ h = Effect(github, q)
    BY DEF q
<1>8. AllTyped(h)
    BY <1>1, <1>2, <1>3, <1>4, <1>7, RequestKeepsTypes
<1>9. ASSUME ~run[r].disturbed
      PROVE  Plan(manifest, h, Sent(run[r].changes), {})
    <2>1. Plan(manifest, github, run[r].changes, {})
        BY <1>1, <1>9 DEF VInv, Converges
    <2>2. Repairs(manifest, github, change)
        BY <1>5, <2>1 DEF Plan
    <2>3. HeadSent(manifest, github, h, change)
        BY <1>1, <1>3, <1>4, <1>5, <1>6, <1>7, <2>2, ChangeSent
    <2>4. HeadSent(manifest, github, h, Head(run[r].changes))
        BY <2>3 DEF change
    <2> QED BY <1>3, <2>1, <2>4, PlanSent
<1> QED BY <1>8, <1>9

LEMMA SendRequestConverges ==
    ASSUME VInv, MInv', NEW r \in Runs, SendRequest(r)
    PROVE  VInv'
<1>1. /\ At(r, "apply") /\ run[r].changes # <<>> /\ manifest' = manifest
      /\ DOMAIN run[r] = RunFields /\ run[r].pc = "apply"
    BY RunOf DEF SendRequest, VInv, At
<1>2. CASE Refuses(github, ToSend(r))
    BY <1>1, <1>2, RunEnds DEF SendRequest
<1>3. CASE ~Refuses(github, ToSend(r))
    <2> DEFINE x == [run[r] EXCEPT !.changes = Sent(@)]
    <2>1. github' = Effect(github, ToSend(r)) /\ run' = Disturb([run EXCEPT ![r] = x], r)
        BY <1>3 DEF SendRequest
    <2>2. /\ x.pc = "apply" /\ x.changes = Sent(run[r].changes)
          /\ x.disturbed = run[r].disturbed
        BY <1>1 DEF RunFields
    <2> HIDE DEF x
    <2>3. /\ AllTyped(github')
          /\ ~run[r].disturbed => Plan(manifest, github', Sent(run[r].changes), {})
        BY <1>1, <1>3, <2>1, ApplyingSends
    <2>4. ~x.disturbed => Converges(manifest, github', x)
        BY <2>2, <2>3 DEF Converges
    <2> QED BY <1>1, <2>1, <2>3, <2>4, RepositoryConverges
<1> QED BY <1>2, <1>3

LEMMA AnswerLostConverges ==
    ASSUME VInv, MInv', NEW r \in Runs, AnswerLost(r)
    PROVE  VInv'
<1> DEFINE x == [run[r] EXCEPT !.pc = "failed"]
<1>1. /\ At(r, "apply") /\ run[r].changes # <<>> /\ manifest' = manifest
      /\ ~Refuses(github, ToSend(r)) /\ github' = Effect(github, ToSend(r))
      /\ run' = Disturb([run EXCEPT ![r] = x], r) /\ DOMAIN run[r] = RunFields
    BY RunOf DEF AnswerLost, VInv
<1>2. x.pc = "failed"
    BY <1>1 DEF RunFields
<1> HIDE DEF x
<1>3. Converges(manifest, github', x)
    BY <1>2, AtRest
<1>4. AllTyped(github')
    BY <1>1, ApplyingSends
<1> QED BY <1>1, <1>3, <1>4, RepositoryConverges

LEMMA FinishApplyConverges ==
    ASSUME VInv, MInv', NEW r \in Runs, FinishApply(r)
    PROVE  VInv'
<1> DEFINE x == [run[r] EXCEPT !.pc = "succeeded"]
<1>1. /\ run[r].pc = "apply" /\ run[r].changes = <<>> /\ UNCHANGED <<manifest, github>>
      /\ run' = [run EXCEPT ![r] = x]
      /\ RunFits(manifest, run[r], github.rulesets) /\ DOMAIN run[r] = RunFields
      /\ ManifestShape(manifest)
    BY RunOf DEF FinishApply, At, Goto, VInv
<1>2. x.pc = "succeeded" /\ x.changes = <<>> /\ x.disturbed = run[r].disturbed
    BY <1>1 DEF RunFields
<1> HIDE DEF x
<1>3. Applicable(manifest)
    BY <1>1, AcceptedIsApplicable DEF RunFits, ChecksPassed
<1>4. ASSUME ~x.disturbed PROVE Converges(manifest, github, x)
    <2>1. Plan(manifest, github, <<>>, {})
        BY <1>1, <1>2, <1>4 DEF VInv, Converges
    <2> QED BY <1>2, <1>3, <2>1 DEF Converges
<1> QED BY <1>1, <1>4, OneRunConverges

-----------------------------------------------------------------------------
(* The other steps. *)

LEMMA StartConverges ==
    ASSUME VInv, MInv', NEW r \in Runs, NEW mode, Start(r, mode)
    PROVE  VInv'
<1> DEFINE pc == IF load_manifest(manifest) THEN "repository" ELSE "failed"
           x == [run[r] EXCEPT !.mode = mode, !.pc = pc]
<1>1. /\ run' = [run EXCEPT ![r] = x] /\ UNCHANGED <<manifest, github>>
      /\ run[r] = Idle /\ DOMAIN run[r] = RunFields
    BY RunOf DEF Start, At, VInv, RunFits
<1>2. Idle.found = <<>>
    BY DEF Idle, Empty
<1>3. x.pc = pc /\ x.found = <<>>
    BY <1>1, <1>2 DEF RunFields
<1>4. pc \in {"repository", "failed"}
    OBVIOUS
<1> HIDE DEF x, pc
<1>5. Converges(manifest, github, x)
    BY <1>3, <1>4 DEF Converges
<1> QED BY <1>1, <1>5, OneRunConverges

LEMMA ExitConverges ==
    ASSUME VInv, MInv', NEW r \in Runs, Exit(r)
    PROVE  VInv'
<1>1. run' = [run EXCEPT ![r] = Idle] /\ UNCHANGED <<manifest, github>>
    BY DEF Exit
<1>2. Idle.pc = "idle"
    BY DEF Idle
<1>3. Converges(manifest, github, Idle)
    BY <1>2, AtRest
<1> QED BY <1>1, <1>3, OneRunConverges

LEMMA EditConverges ==
    ASSUME VInv, MInv', Edit
    PROVE  VInv'
<1>1. PICK kind \in EditKinds : github' \in EditsOf(kind) \ {github}
    BY DEF Edit
<1>2. AllTyped(github')
    BY <1>1, EditKeepsTypes, BoundsAssumption DEF VInv, MInv, CInv
<1>3. manifest' = manifest /\ run' = Disturb(run, Nil)
    BY DEF Edit
<1>4. \A q \in Runs : run[q] = run[q] /\ q # Nil
    BY NoneAssumption
<1> QED BY <1>2, <1>3, <1>4, OthersDisturbed

-----------------------------------------------------------------------------
(* The invariant is inductive. *)

LEMMA InitVInv == Init => VInv
<1> SUFFICES ASSUME Init PROVE VInv
    OBVIOUS
<1>1. MInv
    BY InitMInv
<1>2. ManifestTyped(manifest) /\ AllTyped(github)
    BY TypesAssumption DEF Init, AllTyped
<1>3. \A r \in Runs : run[r].pc = "idle"
    BY DEF Init, Idle
<1> QED BY <1>1, <1>2, <1>3, AtRest DEF VInv

LEMMA VInvInductive == VInv /\ (OnePage \/ NamesUnique) /\ [Next]_vars => VInv'
<1> SUFFICES ASSUME VInv, OnePage \/ NamesUnique, [Next]_vars PROVE VInv'
    OBVIOUS
<1>1. MInv'
    BY MInvInductive DEF VInv
<1>2. CASE UNCHANGED vars
    BY <1>1, <1>2 DEF vars, VInv
<1>3. ASSUME NEW r \in Runs, NEW mode \in {"plan", "apply"}, Start(r, mode)
      PROVE  VInv'
    BY <1>1, <1>3, StartConverges
<1>4. ASSUME NEW r \in Runs, Step(r)
      PROVE  VInv'
    BY <1>1, <1>4, ReadRepositoryConverges, ReadToggleConverges, ReadPagesConverges,
       ListRulesetsConverges, ReadRulesetConverges, FinishPlanConverges,
       SendRequestConverges, FinishApplyConverges, ExitConverges
    DEF Step
<1>5. ASSUME NEW r \in Runs, RequestFails(r)
      PROVE  VInv'
    BY <1>1, <1>5, RunEnds DEF RequestFails
<1>6. ASSUME NEW r \in Runs, AnswerLost(r)
      PROVE  VInv'
    BY <1>1, <1>6, AnswerLostConverges
<1>7. CASE Edit
    BY <1>1, <1>7, EditConverges
<1> QED BY <1>2, <1>3, <1>4, <1>5, <1>6, <1>7 DEF Next

LEMMA VInvConverged == VInv => ExitZeroMeansConverged
<1> SUFFICES ASSUME VInv, NEW r \in Runs, At(r, "succeeded"), run[r].mode = "apply",
                    ~run[r].disturbed
             PROVE  Drift(manifest, github) = {}
    BY DEF ExitZeroMeansConverged
<1>1. Applicable(manifest) /\ Plan(manifest, github, <<>>, {})
    BY DEF VInv, Converges, At
<1> QED BY <1>1, NothingPlanned

\* A request keeps the managed names unique.
LEMMA UniqueStays ==
    ASSUME NamesUnique, manifest' = manifest,
           \A t \in ToSet(Targets) :
              \/ NoMore(manifest, t, github, github')
              \/ OneMore(manifest, t, github, github') /\ OnlyNew(manifest, t, github)
    PROVE  NamesUnique'
<1> SUFFICES ASSUME NEW t \in ToSet(Targets),
                    NEW i \in ManagedIds(manifest, github'.rulesets, t),
                    NEW j \in ManagedIds(manifest, github'.rulesets, t)
             PROVE  i = j
    BY DEF NamesUnique
<1>1. CASE NoMore(manifest, t, github, github')
    BY <1>1 DEF NoMore, NamesUnique
<1>2. CASE OneMore(manifest, t, github, github') /\ OnlyNew(manifest, t, github)
    BY <1>2 DEF OneMore, OnlyNew, NamesUnique
<1> QED BY <1>1, <1>2

LEMMA RequestKeepsUnique ==
    ASSUME CInv, NamesUnique, manifest' = manifest, NEW r \in Runs, At(r, "apply"),
           run[r].changes # <<>>, ~Refuses(github, ToSend(r)),
           github' = Effect(github, ToSend(r))
    PROVE  NamesUnique'
<1> DEFINE q == ToSend(r)
<1>1. SpokenOf(manifest, q, github.rulesets) /\ RepositoryShape(github)
    BY RequestFits
<1> HIDE DEF q
<1>2. ~Refuses(github, q) /\ github' = Effect(github, q)
    BY DEF q
<1>3. ASSUME NEW t \in ToSet(Targets), q.kind = "create_ruleset", q.payload.target = t
      PROVE  OnlyNew(manifest, t, github)
    <2>1. PICK u \in ToSet(Targets) : q.payload = PayloadOf(manifest, u)
        BY <1>1, <1>3 DEF SpokenOf
    <2>2. q.payload.target = u /\ q.payload.name = RulesetNameOf(manifest, u)
        <3>1. /\ PayloadOf(manifest, u).name = RulesetNameOf(manifest, u)
              /\ PayloadOf(manifest, u).target = u
            BY DEF PayloadOf, build_ruleset_payload, RulesetNameOf, ruleset_name
        <3> QED BY <2>1, <3>1
    <2> QED BY <1>2, <1>3, <2>2, CreatedIsOnly
<1> QED BY <1>1, <1>2, <1>3, RequestCounted, UniqueStays

\* Where GitHub refuses a second ruleset of a name, there never is one.
LEMMA UniqueInductive == CInv /\ NamesUnique /\ [Next]_vars => NamesUnique'
<1> SUFFICES ASSUME CInv, NamesUnique, [Next]_vars PROVE NamesUnique'
    OBVIOUS
<1>1. CASE UNCHANGED <<manifest, github>>
    BY <1>1 DEF NamesUnique
<1>2. CASE UNCHANGED vars
    BY <1>1, <1>2 DEF vars
<1>3. ASSUME NEW r \in Runs, SendRequest(r) \/ AnswerLost(r)
      PROVE  NamesUnique'
    <2>1. \/ UNCHANGED <<manifest, github>>
          \/ /\ At(r, "apply") /\ run[r].changes # <<>> /\ ~Refuses(github, ToSend(r))
             /\ github' = Effect(github, ToSend(r)) /\ manifest' = manifest
        BY <1>3 DEF SendRequest, AnswerLost
    <2> QED BY <1>1, <2>1, RequestKeepsUnique
<1>4. ASSUME NEW r \in Runs, NEW mode,
             \/ Start(r, mode) \/ ReadRepository(r) \/ ReadToggle(r) \/ ReadPages(r)
             \/ ListRulesets(r) \/ ReadRuleset(r) \/ FinishPlan(r) \/ FinishApply(r)
             \/ Exit(r) \/ RequestFails(r)
      PROVE  NamesUnique'
    BY <1>1, <1>4 DEF Start, ReadRepository, ReadToggle, ReadPages, ListRulesets, ReadRuleset,
                      FinishPlan, FinishApply, Exit, RequestFails
<1>5. CASE Edit
    <2>1. PICK kind \in EditKinds : github' \in EditsOf(kind) \ {github}
        BY <1>5 DEF Edit
    <2>2. manifest' = manifest
        BY <1>5 DEF Edit
    <2> QED BY <2>1, <2>2, EditCounted, BoundsAssumption, UniqueStays
<1> QED BY <1>2, <1>3, <1>4, <1>5 DEF Next, Step

\* Exit code 0 of an apply means what the script says (main, apply_plan): when
\* nobody but the run itself changed the repository while it read, planned and
\* sent, nothing the manifest asks for differs when it returns.  The list of
\* rulesets is fetched in one page (get_managed_rulesets), and a name found
\* twice is refused; so either one page holds all rulesets, or no managed name
\* is in the repository twice at first, in which case it never is.
THEOREM ExitZeroConverges ==
    Spec /\ (NamesUnique \/ []OnePage) => []ExitZeroMeansConverged
BY InitVInv, VInvInductive, VInvConverged, ConfiguratorInvariant, UniqueInductive, PTL DEF Spec

-----------------------------------------------------------------------------
(* What there is at GitHub goes on repeating nothing. *)

AllTidy(g) == \A id \in Ids(g.rulesets) : Tidy(g.rulesets[id])

LEMMA AddedTidy ==
    ASSUME NEW g, NEW h, NEW new, RepositoryShape(g), AllTidy(g), Tidy(new),
           h.rulesets = Append(g.rulesets, new)
    PROVE  AllTidy(h)
<1>1. /\ DOMAIN h.rulesets = 1..(Len(g.rulesets) + 1) /\ DOMAIN g.rulesets = 1..Len(g.rulesets)
      /\ h.rulesets[Len(g.rulesets) + 1] = new
      /\ \A id \in DOMAIN g.rulesets : h.rulesets[id] = g.rulesets[id]
    BY ElementsAppended DEF RepositoryShape, IsSeq
<1>2. Len(g.rulesets) \in Nat
    BY DEF RepositoryShape
<1>3. \A id \in DOMAIN h.rulesets : id \in DOMAIN g.rulesets \/ id = Len(g.rulesets) + 1
    BY <1>1, <1>2
<1> QED BY <1>1, <1>3 DEF AllTidy, Ids

LEMMA ReplacedTidy ==
    ASSUME NEW g, NEW h, NEW id \in DOMAIN g.rulesets, NEW new, AllTidy(g),
           new # Nil => Tidy(new), h.rulesets = [g.rulesets EXCEPT ![id] = new]
    PROVE  AllTidy(h)
<1>1. /\ DOMAIN h.rulesets = DOMAIN g.rulesets /\ h.rulesets[id] = new
      /\ \A i \in DOMAIN g.rulesets : i # id => h.rulesets[i] = g.rulesets[i]
    OBVIOUS
<1> QED BY <1>1 DEF AllTidy, Ids

LEMMA RequestKeepsTidy ==
    ASSUME NEW m, NEW g, NEW q, NEW h, RepositoryShape(g), ManifestShape(m), ManifestTyped(m),
           load_manifest(m),
           \A t \in {"branch", "tag"} :
              /\ ~RulesetRefused(ruleset_table(m, t), t, repository(m))
              /\ NothingTwice(PayloadOf(m, t)),
           AllTidy(g), SpokenOf(m, q, g.rulesets), ~Refuses(g, q), h = Effect(g, q)
    PROVE  AllTidy(h)
<1> DEFINE stored == Merged(q.payload, [source_type |-> "Repository"])
<1>1. CASE q.kind \in {"patch_repository", "toggle", "create_pages", "update_pages"}
    <2>1. h.rulesets = g.rulesets
        BY <1>1 DEF Effect, RepositoryShape
    <2> QED BY <2>1 DEF AllTidy
<1>2. CASE q.kind \in {"create_ruleset", "update_ruleset"}
    <2>1. PICK t \in {"branch", "tag"} : q.payload = PayloadOf(m, t)
        BY <1>2, TargetNames DEF SpokenOf
    <2>2. Tidy(stored)
        BY <2>1, PayloadTidy
    <2> HIDE DEF stored
    <2>3. CASE q.kind = "create_ruleset"
        <3>1. h.rulesets = Append(g.rulesets, stored)
            BY <2>3 DEF Effect, RepositoryShape, stored
        <3> QED BY <2>2, <3>1, AddedTidy
    <2>4. CASE q.kind = "update_ruleset"
        <3>1. h.rulesets = [g.rulesets EXCEPT ![q.ruleset_id] = stored]
            BY <2>4 DEF Effect, RepositoryShape, stored
        <3>2. q.ruleset_id \in DOMAIN g.rulesets
            BY <2>4 DEF Refuses, Ids
        <3> QED BY <2>2, <3>1, <3>2, ReplacedTidy
    <2> QED BY <1>2, <2>3, <2>4
<1> QED BY <1>1, <1>2 DEF SpokenOf

LEMMA OneEachLeft ==
    ASSUME NEW rules, IsSeq(rules), rules # <<>>, OneEach(rules)
    PROVE  OneEach(Tail(rules))
<1>1. /\ IsSeq(Tail(rules)) /\ Len(Tail(rules)) = Len(rules) - 1
      /\ \A i \in 1..Len(Tail(rules)) : Tail(rules)[i] = rules[i + 1]
    BY ElementsLeft
<1>2. Len(rules) \in Nat /\ DOMAIN rules = 1..Len(rules) /\ DOMAIN Tail(rules) = 1..Len(Tail(rules))
    BY <1>1 DEF IsSeq
<1>3. \A i \in DOMAIN Tail(rules) :
            i \in Int /\ i + 1 \in DOMAIN rules /\ Tail(rules)[i] = rules[i + 1]
    BY <1>1, <1>2
<1>4. \A i, j \in DOMAIN Tail(rules) : i + 1 = j + 1 => i = j
    BY <1>3
<1> QED BY <1>3, <1>4 DEF OneEach

\* A rule without parameters names nothing.
LEMMA BareRuleTidy ==
    /\ ListsApart(Deletion.parameters) /\ ChecksOf(Deletion.parameters) = {}
    /\ OneEach(<<Deletion>>) /\ OneEach(<<>>)
<1>1. Deletion.parameters = Empty /\ DOMAIN Empty = {}
    BY DEF Deletion, Rule, Empty
<1>2. \A name : get(Empty, name, <<>>) = <<>>
    BY <1>1 DEF get
<1> QED BY <1>1, <1>2, OneApart, NoElements DEF ListsApart, ChecksOf, OneEach

LEMMA ChangedRulesTidy ==
    ASSUME NEW old, NEW new, RulesetTyped(old), Tidy(old), NEW rules,
           new = [old EXCEPT !.rules = rules],
           rules = IF old.rules = <<>> THEN <<Deletion>> ELSE Tail(old.rules)
    PROVE  Tidy(new)
<1>1. /\ IsSeq(old.rules)
      /\ {"enforcement", "bypass_actors", "include", "exclude", "rules"} \subseteq DOMAIN old
    BY TypedLists
<1>2. /\ new.rules = rules /\ new.bypass_actors = old.bypass_actors /\ new.include = old.include
    BY <1>1
<1>3. /\ OneEach(rules)
      /\ \A rule \in ToSet(rules) : /\ ListsApart(rule.parameters)
                                    /\ \A check \in ChecksOf(rule.parameters) : IsCheck(check)
    <2>1. CASE old.rules = <<>>
        BY <2>1, OneElement, BareRuleTidy
    <2>2. CASE old.rules # <<>>
        <3>1. rules = Tail(old.rules) /\ ToSet(rules) \subseteq ToSet(old.rules)
            BY <1>1, <2>2, ElementsLeft
        <3> QED BY <1>1, <2>2, <3>1, OneEachLeft DEF Tidy, NothingTwice
    <2> QED BY <2>1, <2>2
<1> QED BY <1>2, <1>3 DEF Tidy, NothingTwice

LEMMA BareTidy ==
    ASSUME NEW t, NEW new, new = Merged(Bare(t), [source_type |-> "Repository"])
    PROVE  Tidy(new)
<1>1. /\ new.bypass_actors = <<>> /\ new.include = <<DefaultRefs(t)>> /\ new.rules = <<>>
    BY DEF Bare, Merged
<1> QED BY <1>1, NoElements, OneApart, BareRuleTidy DEF Tidy, NothingTwice

LEMMA EditKeepsTidy ==
    ASSUME RepositoryShape(github), AllTyped(github), AllTidy(github), NEW kind,
           NEW h \in EditsOf(kind),
           kind \in {"setting", "toggle", "noSite", "deleteRuleset", "changeRules",
                     "newRuleset"}
    PROVE  AllTidy(h)
<1>1. CASE kind = "setting"
    <2>1. PICK k : h = [github EXCEPT !.settings[k] = ~@]
        BY <1>1 DEF EditsOf
    <2>2. h.rulesets = github.rulesets
        BY <2>1 DEF RepositoryShape
    <2> QED BY <2>2 DEF AllTidy
<1>2. CASE kind = "toggle"
    <2>1. PICK t : h = [github EXCEPT !.toggles[t] = ~@]
        BY <1>2 DEF EditsOf
    <2>2. h.rulesets = github.rulesets
        BY <2>1 DEF RepositoryShape
    <2> QED BY <2>2 DEF AllTidy
<1>3. CASE kind = "noSite"
    <2>1. h = [github EXCEPT !.pages = Nil]
        BY <1>3 DEF EditsOf
    <2>2. h.rulesets = github.rulesets
        BY <2>1 DEF RepositoryShape
    <2> QED BY <2>2 DEF AllTidy
<1>4. CASE kind = "deleteRuleset"
    <2>1. PICK id \in Ids(github.rulesets) : h = [github EXCEPT !.rulesets[id] = Nil]
        BY <1>4 DEF EditsOf
    <2>2. /\ h.rulesets = [github.rulesets EXCEPT ![id] = Nil]
          /\ id \in DOMAIN github.rulesets
        BY <2>1 DEF Ids, RepositoryShape
    <2> QED BY <2>2, ReplacedTidy
<1>5. CASE kind = "changeRules"
    <2>1. PICK id \in Ids(github.rulesets) :
            h = [github EXCEPT !.rulesets[id].rules =
                    IF @ = <<>> THEN <<Deletion>> ELSE Tail(@)]
        BY <1>5 DEF EditsOf
    <2> DEFINE old == github.rulesets[id]
               rules == IF old.rules = <<>> THEN <<Deletion>> ELSE Tail(old.rules)
               new == [old EXCEPT !.rules = rules]
    <2>2. /\ h.rulesets = [github.rulesets EXCEPT ![id] = new]
          /\ id \in DOMAIN github.rulesets
        BY <2>1 DEF Ids, RepositoryShape
    <2>3. RulesetTyped(old) /\ Tidy(old)
        BY DEF AllTyped, AllTidy
    <2>4. Tidy(new)
        BY <2>3, ChangedRulesTidy
    <2> HIDE DEF new
    <2> QED BY <2>2, <2>4, ReplacedTidy
<1>6. CASE kind = "newRuleset"
    <2>1. PICK t \in ToSet(Targets) :
            h = Effect(github, [kind |-> "create_ruleset", payload |-> Bare(t)])
        BY <1>6 DEF EditsOf
    <2> DEFINE q == [kind |-> "create_ruleset", payload |-> Bare(t)]
               new == Merged(Bare(t), [source_type |-> "Repository"])
    <2>2. q.kind = "create_ruleset" /\ q.payload = Bare(t)
        OBVIOUS
    <2>3. h = [github EXCEPT !.rulesets = Append(@, new)]
        BY <2>1 DEF Effect
    <2>4. Tidy(new)
        BY BareTidy
    <2> HIDE DEF new
    <2>5. h.rulesets = Append(github.rulesets, new)
        BY <2>3 DEF RepositoryShape
    <2> QED BY <2>4, <2>5, AddedTidy
<1> QED BY <1>1, <1>2, <1>3, <1>4, <1>5, <1>6

-----------------------------------------------------------------------------
(* Nothing is planned in vain. *)

\* Each change is of a part that differs.
Needed(m, g, changes) == \A change \in ToSet(changes) : Differs(m, g, change.key)

\* The rulesets of the manifest are all found, or to be fetched, without exception.
AllListed(m, g, ids, found) ==
    \A t \in ToSet(Targets) : \A id \in ManagedIds(m, g.rulesets, t) :
        id \in ids \/ (t \in DOMAIN found /\ found[t].id = id)

\* What a run that nobody disturbed knows of its plan.
Drifts(m, g, x) ==
    /\ x.pc \in {"reads", "rulesets"} => Needed(m, g, x.changes)
    /\ x.pc = "rulesets" => AllListed(m, g, x.ids, x.found)
    /\ x.pc = "succeeded" /\ x.mode = "plan" => Needed(m, g, x.changes)

NothingRepeated ==
    /\ Applicable(manifest) =>
          \A t \in ToSet(Targets) : NothingTwice(PayloadOf(manifest, t))
    /\ AllTidy(github)

NInv ==
    /\ NothingRepeated
    /\ \A r \in Runs : ~run[r].disturbed => Drifts(manifest, github, run[r])

LEMMA SettingsNeeded ==
    ASSUME load_manifest(manifest), SettingsChange # <<>>
    PROVE  Differs(manifest, github, "repository.settings")
<1> DEFINE desired == build_repository_patch(manifest)
           keys == {k \in DOMAIN desired : get(github.settings, k, Nil) # desired[k]}
<1>1. /\ DOMAIN desired = SettingKeys(manifest)
      /\ \A k \in SettingKeys(manifest) : desired[k] = repository(manifest)[k]
    BY DEF build_repository_patch, SettingKeys, load_manifest, TableOf, repository,
           SUPPORTED_REPOSITORY_FIELDS
<1>2. keys # {}
    BY DEF SettingsChange
<1> HIDE DEF desired
<1>3. SettingsDiffer(manifest, github)
    BY <1>1, <1>2 DEF SettingsDiffer
<1> QED BY <1>3, DiffersByPart

LEMMA AdvancedSecurityNeeded ==
    ASSUME AdvancedSecurityChange # <<>>
    PROVE  Differs(manifest, github, "security.advanced_security")
<1>1. AdvancedSecurityDiffers(manifest, github)
    BY DEF AdvancedSecurityChange, AdvancedSecurityDiffers
<1> QED BY <1>1, DiffersByPart

LEMMA ToggleNeeded ==
    ASSUME load_manifest(manifest), ManifestShape(manifest),
           ~ContradictsDependencyGraph(manifest), NEW t \in ToSet(Toggles),
           ToggleWanted(manifest, t) # Nil, ToggleChange(t) # <<>>
    PROVE  Differs(manifest, github, t)
<1>1. toggle_desired(manifest)[t] = ToggleWanted(manifest, t)
    BY TogglesAgree
<1>2. github.toggles[t] # toggle_desired(manifest)[t]
    BY DEF ToggleChange
<1>3. ToggleWanted(manifest, t) \notin {Nil, github.toggles[t]}
    BY <1>1, <1>2
<1> QED BY <1>3, DiffersByPart

LEMMA PagesNeeded ==
    ASSUME load_manifest(manifest), DOMAIN pages(manifest) # {}, PagesChange # <<>>
    PROVE  Differs(manifest, github, "pages.site")
<1> DEFINE desired == build_pages_state(manifest)
<1>1. /\ DOMAIN desired = PageKeys(manifest)
      /\ \A k \in PageKeys(manifest) : desired[k] = get(pages(manifest), k, "workflow")
    BY DEF build_pages_state, PageKeys, load_manifest, TableOf, pages, SUPPORTED_PAGES_FIELDS
<1>2. github.pages = Nil \/ ~ \A k \in DOMAIN desired : github.pages[k] = desired[k]
    BY DEF PagesChange
<1> HIDE DEF desired
<1>3. PagesDiffer(manifest, github)
    BY <1>1, <1>2 DEF PagesDiffer, PageKeys, get
<1> QED BY <1>3, DiffersByPart

LEMMA RulesetNeeded ==
    ASSUME ManifestShape(manifest), ManifestTyped(manifest), load_manifest(manifest),
           NEW t \in {"branch", "tag"},
           ~RulesetRefused(ruleset_table(manifest, t), t, repository(manifest)),
           NothingTwice(PayloadOf(manifest, t)), RepositoryShape(github),
           AllTyped(github), AllTidy(github),
           NEW found, Listed(manifest, github, {}, found), AllListed(manifest, github, {}, found),
           RulesetChange(found, t) # <<>>
    PROVE  Differs(manifest, github, RulesetKey(t))
<1> DEFINE managed == rule_types_under_management(ruleset_table(manifest, t), t)
           Normal(payload) == normalize_ruleset_payload(payload, managed)
           M == ManagedIds(manifest, github.rulesets, t)
           id == found[t].id
           r == github.rulesets[id]
<1>1. t \in ToSet(Targets) /\ Payload(t) = PayloadOf(manifest, t)
    BY KeyNames DEF Payload, PayloadOf
<1>2. ASSUME t \notin DOMAIN found
      PROVE  RulesetDiffers(manifest, github, t)
    <2>1. M = {}
        BY <1>1, <1>2 DEF AllListed
    <2>2. Cardinality(M) = 0
        BY <2>1, FS_EmptySet
    <2> QED BY <2>2 DEF RulesetDiffers
<1>3. ASSUME t \in DOMAIN found
      PROVE  RulesetDiffers(manifest, github, t)
    <2>1. id \in M
        BY <1>3 DEF Listed
    <2>2. PICK form \in Forms : found[t].ruleset = Shown(r, form)
        BY <1>3 DEF Listed
    <2>3. Normal(Payload(t)) # Normal(found[t].ruleset)
        BY <1>3 DEF RulesetChange
    <2>4. /\ r.target = t /\ r.name = RulesetNameOf(manifest, t)
          /\ RulesetTyped(r) /\ Tidy(r) /\ {"name", "target"} \subseteq DOMAIN r
        BY <2>1 DEF ManagedIds, AllTyped, AllTidy, RepositoryShape, RulesetShape
    <2>5. ~InForce(manifest, t, r)
        <3>1. Normal(Payload(t)) # Normal(Shown(r, form))
            BY <2>2, <2>3
        <3> HIDE DEF r
        <3> QED BY <1>1, <2>4, <3>1, InForceMeansNormal
    <2> QED BY <2>1, <2>5 DEF RulesetDiffers
<1> QED BY <1>1, <1>2, <1>3, RulesetsDifferByKey

-----------------------------------------------------------------------------
(* The steps. *)

LEMMA NoneNeeded ==
    ASSUME NEW m, NEW g
    PROVE  Needed(m, g, <<>>)
BY NoElements DEF Needed

\* What is planned of a part that differs.
LEMMA NeededExtended ==
    ASSUME NEW m, NEW g, NEW changes, IsSeq(changes), Needed(m, g, changes), NEW key, NEW more,
           Finds(m, g, key, more), more # <<>> => Differs(m, g, key)
    PROVE  Needed(m, g, changes \o more) /\ IsSeq(changes \o more)
<1>1. CASE more = <<>>
    <2>1. changes \o more = changes
        BY <1>1 DEF IsSeq
    <2> QED BY <2>1
<1>2. CASE more # <<>>
    <2>1. PICK change : more = <<change>> /\ change.key = key
        BY <1>2 DEF Finds
    <2>2. /\ IsSeq(changes \o more) /\ ToSet(changes \o more) = ToSet(changes) \cup {change}
        BY <2>1, OneElement, ElementsJoined
    <2> QED BY <1>2, <2>1, <2>2 DEF Needed
<1> QED BY <1>1, <1>2

LEMMA NothingRepeatedStays ==
    ASSUME NothingRepeated, manifest' = manifest, AllTidy(github')
    PROVE  NothingRepeated'
BY DEF NothingRepeated

LEMMA OneRunDrifts ==
    ASSUME VInv, NInv, NEW r \in Runs, UNCHANGED <<manifest, github>>, NEW x,
           run' = [run EXCEPT ![r] = x],
           ~x.disturbed => Drifts(manifest, github, x)
    PROVE  NInv'
<1>1. ASSUME NEW q \in Runs, ~run'[q].disturbed
      PROVE  Drifts(manifest, github, run'[q])
    BY <1>1, RunOf DEF VInv, NInv
<1>2. NothingRepeated'
    BY NothingRepeatedStays DEF NInv, NothingRepeated
<1> QED BY <1>1, <1>2 DEF NInv

LEMMA RunEndsDrifts ==
    ASSUME VInv, NInv, NEW r \in Runs, UNCHANGED <<manifest, github>>, Fails(r)
    PROVE  NInv'
<1> DEFINE x == [run[r] EXCEPT !.pc = "failed"]
<1>1. run' = [run EXCEPT ![r] = x]
    BY DEF Fails, Goto
<1>2. x.pc = "failed"
    BY RunOf DEF VInv, RunFields
<1> HIDE DEF x
<1>3. Drifts(manifest, github, x)
    BY <1>2 DEF Drifts
<1> QED BY <1>1, <1>3, OneRunDrifts

\* The repository changes under the runs.
LEMMA OthersDrift ==
    ASSUME VInv, NInv, manifest' = manifest, AllTidy(github'), NEW runs, NEW but,
           run' = Disturb(runs, but),
           \A q \in Runs : \/ runs[q] = run[q] /\ q # but
                           \/ /\ q = but
                              /\ ~runs[q].disturbed => Drifts(manifest, github', runs[q])
    PROVE  NInv'
<1>1. ASSUME NEW q \in Runs, ~run'[q].disturbed
      PROVE  Drifts(manifest, github', run'[q])
    <2>1. run'[q] = IF q # but /\ runs[q].pc # "idle" /\ github' # github
                    THEN [runs[q] EXCEPT !.disturbed = TRUE] ELSE runs[q]
        BY DEF Disturb
    <2>2. CASE q = but
        <3>1. run'[q] = runs[q]
            BY <2>1, <2>2
        <3> QED BY <1>1, <2>2, <3>1
    <2>3. CASE q # but
        <3>1. runs[q] = run[q] /\ DOMAIN run[q] = RunFields
            BY <2>3, RunOf DEF VInv
        <3>2. CASE runs[q].pc # "idle" /\ github' # github
            <4>1. run'[q] = [run[q] EXCEPT !.disturbed = TRUE]
                BY <2>1, <2>3, <3>1, <3>2
            <4>2. run'[q].disturbed = TRUE
                BY <3>1, <4>1 DEF RunFields
            <4> QED BY <1>1, <4>2
        <3>3. CASE runs[q].pc = "idle"
            BY <2>1, <3>1, <3>3 DEF Drifts
        <3>4. CASE github' = github
            BY <1>1, <2>1, <3>1, <3>4 DEF NInv
        <3> QED BY <3>2, <3>3, <3>4
    <2> QED BY <2>2, <2>3
<1>2. NothingRepeated'
    BY NothingRepeatedStays DEF NInv
<1> QED BY <1>1, <1>2 DEF NInv

LEMMA ReadRepositoryDrifts ==
    ASSUME VInv, NInv, NEW r \in Runs, ReadRepository(r)
    PROVE  NInv'
<1> DEFINE changes == SettingsChange \o AdvancedSecurityChange
           x == [run[r] EXCEPT !.changes = changes,
                    !.reads = TogglesToRead \o Where(DOMAIN pages(manifest) # {}, "pages"),
                    !.pc = "reads"]
<1>1. /\ UNCHANGED <<manifest, github>> /\ run[r].pc = "repository"
      /\ DOMAIN run[r] = RunFields /\ RunFits(manifest, run[r], github.rulesets)
    BY RunOf DEF ReadRepository, At, VInv
<1>2. load_manifest(manifest)
    BY <1>1 DEF RunFits, ChecksPassed
<1>3. CASE ContradictsDependencyGraph(manifest)
    BY <1>1, <1>3, RunEndsDrifts DEF ReadRepository
<1>4. CASE ~ContradictsDependencyGraph(manifest)
    <2>1. run' = [run EXCEPT ![r] = x]
        BY <1>4 DEF ReadRepository
    <2>2. Needed(manifest, github, <<>> \o SettingsChange) /\ IsSeq(<<>> \o SettingsChange)
        <3>1. Finds(manifest, github, "repository.settings", SettingsChange)
            BY <1>2, SettingsFound
        <3>2. SettingsChange # <<>> => Differs(manifest, github, "repository.settings")
            BY <1>2, SettingsNeeded
        <3> QED BY <3>1, <3>2, NoElements, NoneNeeded, NeededExtended
    <2>3. <<>> \o SettingsChange = SettingsChange
        <3>1. SettingsChange = <<>> \/ \E change : SettingsChange = <<change>>
            BY <1>2, SettingsFound DEF Finds
        <3> QED BY <3>1
    <2>4. Needed(manifest, github, changes)
        <3>1. Finds(manifest, github, "security.advanced_security", AdvancedSecurityChange)
            BY AdvancedSecurityFound
        <3>2. AdvancedSecurityChange # <<>>
                => Differs(manifest, github, "security.advanced_security")
            BY AdvancedSecurityNeeded
        <3> QED BY <2>2, <2>3, <3>1, <3>2, NeededExtended
    <2> HIDE DEF changes
    <2>5. x.pc = "reads" /\ x.changes = changes
        BY <1>1 DEF RunFields
    <2> HIDE DEF x
    <2>6. Drifts(manifest, github, x)
        BY <2>4, <2>5 DEF Drifts
    <2> QED BY <1>1, <2>1, <2>6, OneRunDrifts
<1> QED BY <1>3, <1>4

\* The answer to the head of the reads.
LEMMA ReadingDrifts ==
    ASSUME VInv, NInv, NEW r \in Runs, UNCHANGED <<manifest, github>>,
           run[r].pc = "reads", NEW key, NEW more,
           Finds(manifest, github, key, more), more # <<>> => Differs(manifest, github, key),
           run' = [run EXCEPT ![r].reads = Tail(@), ![r].changes = @ \o more]
    PROVE  NInv'
<1> DEFINE x == [run[r] EXCEPT !.reads = Tail(@), !.changes = @ \o more]
<1>1. DOMAIN run[r] = RunFields /\ IsSeq(run[r].changes)
    BY RunOf DEF VInv
<1>2. run' = [run EXCEPT ![r] = x]
    OBVIOUS
<1>3. x.pc = "reads" /\ x.changes = run[r].changes \o more /\ x.disturbed = run[r].disturbed
    BY <1>1 DEF RunFields
<1> HIDE DEF x
<1>4. ASSUME ~x.disturbed PROVE Drifts(manifest, github, x)
    <2>1. Needed(manifest, github, run[r].changes)
        BY <1>3, <1>4 DEF NInv, Drifts
    <2>2. Needed(manifest, github, run[r].changes \o more)
        BY <1>1, <2>1, NeededExtended
    <2> QED BY <1>3, <2>2 DEF Drifts
<1> QED BY <1>2, <1>4, OneRunDrifts

LEMMA ReadToggleDrifts ==
    ASSUME VInv, NInv, NEW r \in Runs, ReadToggle(r)
    PROVE  NInv'
<1> DEFINE t == Head(run[r].reads)
<1>1. /\ run[r].pc = "reads" /\ run[r].reads # <<>> /\ t # "pages"
      /\ run' = [run EXCEPT ![r].reads = Tail(@), ![r].changes = @ \o ToggleChange(t)]
      /\ UNCHANGED <<manifest, github>>
    BY DEF ReadToggle, At
<1>2. RunFits(manifest, run[r], github.rulesets) /\ ManifestShape(manifest)
    BY RunOf DEF VInv
<1>3. /\ ReadsFit(manifest, run[r].reads) /\ load_manifest(manifest)
      /\ ~ContradictsDependencyGraph(manifest)
    BY <1>1, <1>2 DEF RunFits, ChecksPassed
<1>4. t \in ToSet(Toggles) /\ ToggleWanted(manifest, t) # Nil
    BY <1>1, <1>3, ElementsLeft DEF ReadsFit
<1>5. /\ Finds(manifest, github, t, ToggleChange(t))
      /\ ToggleChange(t) # <<>> => Differs(manifest, github, t)
    BY <1>2, <1>3, <1>4, ToggleFound, ToggleNeeded
<1> QED BY <1>1, <1>5, ReadingDrifts

LEMMA ReadPagesDrifts ==
    ASSUME VInv, NInv, NEW r \in Runs, ReadPages(r)
    PROVE  NInv'
<1>1. /\ run[r].pc = "reads" /\ run[r].reads # <<>> /\ Head(run[r].reads) = "pages"
      /\ run' = [run EXCEPT ![r].reads = Tail(@), ![r].changes = @ \o PagesChange]
      /\ UNCHANGED <<manifest, github>>
    BY DEF ReadPages, At
<1>2. RunFits(manifest, run[r], github.rulesets)
    BY RunOf DEF VInv
<1>3. ReadsFit(manifest, run[r].reads) /\ load_manifest(manifest)
    BY <1>1, <1>2 DEF RunFits, ChecksPassed
<1>4. DOMAIN pages(manifest) # {}
    BY <1>1, <1>3, ElementsLeft, KeyNames DEF ReadsFit
<1>5. /\ Finds(manifest, github, "pages.site", PagesChange)
      /\ PagesChange # <<>> => Differs(manifest, github, "pages.site")
    BY <1>3, <1>4, PagesFound, PagesNeeded
<1> QED BY <1>1, <1>5, ReadingDrifts

LEMMA ListRulesetsDrifts ==
    ASSUME VInv, NInv, OnePage, NEW r \in Runs, ListRulesets(r)
    PROVE  NInv'
<1>1. /\ UNCHANGED <<manifest, github>> /\ run[r].pc = "reads"
      /\ DOMAIN run[r] = RunFields /\ RepositoryShape(github)
    BY RunOf DEF ListRulesets, At, VInv
<1>2. CASE Fails(r)
    BY <1>1, <1>2, RunEndsDrifts
<1>3. ASSUME NEW page \in Pages(github.rulesets),
             run' = [run EXCEPT ![r].pc = "rulesets",
                                ![r].ids = {id \in page : \E i \in DOMAIN Targets :
                                    IsManaged(github.rulesets[id], Targets[i])}]
      PROVE  NInv'
    <2> DEFINE ids == {id \in page : \E i \in DOMAIN Targets :
                            IsManaged(github.rulesets[id], Targets[i])}
               x == [run[r] EXCEPT !.pc = "rulesets", !.ids = ids]
    <2>1. run' = [run EXCEPT ![r] = x]
        BY <1>3
    <2>2. ASSUME NEW t \in ToSet(Targets), NEW id \in ManagedIds(manifest, github.rulesets, t)
          PROVE  id \in ids
        <3>1. page = Ids(github.rulesets)
            BY DEF Pages, OnePage
        <3>2. id \in Ids(github.rulesets) /\ RulesetShape(github.rulesets[id])
            BY <1>1 DEF ManagedIds, RepositoryShape
        <3>3. IsManaged(github.rulesets[id], t)
            BY <3>2 DEF ManagedIds, IsManaged, NameOf, RulesetNameOf, ruleset_name, RulesetShape
        <3> QED BY <3>1, <3>2, <3>3, TargetNames
    <2> HIDE DEF ids
    <2>3. /\ x.pc = "rulesets" /\ x.changes = run[r].changes /\ x.ids = ids
          /\ x.disturbed = run[r].disturbed
        BY <1>1 DEF RunFields
    <2> HIDE DEF x
    <2>4. ASSUME ~x.disturbed PROVE Drifts(manifest, github, x)
        <3>1. Needed(manifest, github, run[r].changes)
            BY <1>1, <2>3, <2>4 DEF NInv, Drifts
        <3> QED BY <2>2, <2>3, <3>1 DEF Drifts, AllListed
    <2> QED BY <1>1, <2>1, <2>4, OneRunDrifts
<1> QED BY <1>2, <1>3 DEF ListRulesets

LEMMA ReadRulesetDrifts ==
    ASSUME VInv, NInv, NEW r \in Runs, ReadRuleset(r)
    PROVE  NInv'
<1>1. /\ UNCHANGED <<manifest, github>> /\ run[r].pc = "rulesets"
      /\ DOMAIN run[r] = RunFields
    BY RunOf DEF ReadRuleset, At, VInv
<1>2. PICK id \in run[r].ids :
        IF id \notin Ids(github.rulesets) \/ github.rulesets[id].target \in DOMAIN run[r].found
        THEN Fails(r)
        ELSE \E form \in Forms :
                run' = [run EXCEPT ![r].ids = @ \ {id},
                    ![r].found = Found(@, id, Shown(github.rulesets[id], form))]
    BY DEF ReadRuleset
<1>3. CASE Fails(r)
    BY <1>1, <1>3, RunEndsDrifts
<1>4. ASSUME github.rulesets[id].target \notin DOMAIN run[r].found, NEW form \in Forms,
             run' = [run EXCEPT ![r].ids = @ \ {id},
                        ![r].found = Found(@, id, Shown(github.rulesets[id], form))]
      PROVE  NInv'
    <2> DEFINE ruleset == github.rulesets[id]
               shown == Shown(ruleset, form)
               found == run[r].found
               now == Found(found, id, shown)
               x == [run[r] EXCEPT !.ids = @ \ {id}, !.found = now]
               t == ruleset.target
    <2>1. run' = [run EXCEPT ![r] = x]
        BY <1>4
    <2>2. shown.target = t
        BY DEF Shown
    <2>3. /\ DOMAIN now = DOMAIN found \cup {t} /\ now[t].id = id
          /\ \A u \in DOMAIN found : u # t => now[u] = found[u]
        <3> DEFINE entry == [id |-> id, ruleset |-> shown]
                   added == [u \in {shown.target} |-> entry]
        <3>1. DOMAIN added = {t} /\ added[t] = entry /\ now = Merged(found, added)
            BY <2>2 DEF Found
        <3>2. entry.id = id
            OBVIOUS
        <3> HIDE DEF entry, added, shown, found, now, t
        <3> QED BY <3>1, <3>2 DEF Merged
    <2>4. /\ x.pc = "rulesets" /\ x.changes = run[r].changes /\ x.ids = run[r].ids \ {id}
          /\ x.found = now /\ x.disturbed = run[r].disturbed
        BY <1>1 DEF RunFields
    <2> HIDE DEF x, now
    <2>5. ASSUME ~x.disturbed PROVE Drifts(manifest, github, x)
        <3>1. /\ Needed(manifest, github, run[r].changes)
              /\ AllListed(manifest, github, run[r].ids, found)
            BY <1>1, <2>4, <2>5 DEF NInv, Drifts
        <3>2. ASSUME NEW u \in ToSet(Targets),
                     NEW i \in ManagedIds(manifest, github.rulesets, u)
              PROVE  i \in x.ids \/ (u \in DOMAIN now /\ now[u].id = i)
            <4>1. i \in run[r].ids \/ (u \in DOMAIN found /\ found[u].id = i)
                BY <3>1, <3>2 DEF AllListed
            <4>2. i = id => u = t
                BY <3>2 DEF ManagedIds
            <4> QED BY <1>4, <2>3, <2>4, <4>1, <4>2
        <3>3. AllListed(manifest, github, x.ids, now)
            BY <3>2 DEF AllListed
        <3> QED BY <2>4, <3>1, <3>3 DEF Drifts
    <2> QED BY <1>1, <2>1, <2>5, OneRunDrifts
<1> QED BY <1>2, <1>3, <1>4

LEMMA FinishPlanDrifts ==
    ASSUME VInv, NInv, NEW r \in Runs, FinishPlan(r)
    PROVE  NInv'
<1> DEFINE found == run[r].found
           b == RulesetChange(found, "branch")
           t == RulesetChange(found, "tag")
           pc == IF run[r].mode = "plan" THEN "succeeded" ELSE "apply"
           x == [run[r] EXCEPT !.changes = @ \o b \o t, !.found = Empty, !.pc = pc]
<1>1. /\ UNCHANGED <<manifest, github>> /\ run[r].pc = "rulesets" /\ run[r].ids = {}
      /\ DOMAIN run[r] = RunFields /\ RunFits(manifest, run[r], github.rulesets)
      /\ ManifestShape(manifest) /\ RepositoryShape(github) /\ IsSeq(run[r].changes)
    BY RunOf DEF FinishPlan, At, VInv
<1>2. /\ load_manifest(manifest) /\ ~ContradictsDependencyGraph(manifest)
      /\ \A u \in {"branch", "tag"} :
            ~RulesetRefused(ruleset_table(manifest, u), u, repository(manifest))
    BY <1>1 DEF RunFits, ChecksPassed
<1>3. \A u \in {"branch", "tag"} : NothingTwice(PayloadOf(manifest, u))
    BY <1>1, <1>2, AcceptedIsApplicable, TargetNames DEF NInv, NothingRepeated
<1>4. run' = [run EXCEPT ![r] = x]
    BY DEF FinishPlan
<1> HIDE DEF b, t
<1>5. /\ x.pc = pc /\ x.changes = run[r].changes \o b \o t /\ x.disturbed = run[r].disturbed
    BY <1>1 DEF RunFields
<1> HIDE DEF x
<1>6. ASSUME ~x.disturbed PROVE Drifts(manifest, github, x)
    <2>1. /\ Needed(manifest, github, run[r].changes)
          /\ AllListed(manifest, github, {}, found)
        BY <1>1, <1>5, <1>6 DEF NInv, Drifts
    <2>2. Listed(manifest, github, {}, found)
        BY <1>1, <1>5, <1>6 DEF VInv, Converges
    <2> HIDE DEF found
    <2>3. AllTyped(github) /\ AllTidy(github) /\ ManifestTyped(manifest)
        BY DEF VInv, NInv, NothingRepeated
    <2>4. /\ Finds(manifest, github, "rulesets.branch", b)
          /\ Finds(manifest, github, "rulesets.tag", t)
        BY <1>1, <1>2, <2>2, <2>3, RulesetFound, KeyNames DEF AllTyped, b, t
    <2>5. /\ b # <<>> => Differs(manifest, github, "rulesets.branch")
          /\ t # <<>> => Differs(manifest, github, "rulesets.tag")
        BY <1>1, <1>2, <1>3, <2>1, <2>2, <2>3, RulesetNeeded, KeyNames DEF b, t
    <2>6. /\ Needed(manifest, github, run[r].changes \o b) /\ IsSeq(run[r].changes \o b)
        BY <1>1, <2>1, <2>4, <2>5, NeededExtended
    <2>7. Needed(manifest, github, run[r].changes \o b \o t)
        BY <2>4, <2>5, <2>6, NeededExtended
    <2>8. pc \in {"succeeded", "apply"}
        OBVIOUS
    <2> HIDE DEF pc
    <2> QED BY <1>5, <2>7, <2>8 DEF Drifts
<1> QED BY <1>1, <1>4, <1>6, OneRunDrifts

-----------------------------------------------------------------------------
(* The repository changes. *)

LEMMA ChangedWhileTidy ==
    ASSUME VInv, NInv, manifest' = manifest, AllTidy(github'), NEW r \in Runs, NEW x,
           run' = Disturb([run EXCEPT ![r] = x], r), x.pc \in {"apply", "failed"}
    PROVE  NInv'
<1> DEFINE runs == [run EXCEPT ![r] = x]
<1>1. Drifts(manifest, github', x)
    BY DEF Drifts
<1>2. \A q \in Runs : \/ runs[q] = run[q] /\ q # r
                      \/ /\ q = r
                         /\ ~runs[q].disturbed => Drifts(manifest, github', runs[q])
    BY <1>1, RunOf DEF VInv
<1> HIDE DEF runs
<1>3. run' = Disturb(runs, r)
    BY DEF runs
<1> QED BY <1>2, <1>3, OthersDrift

LEMMA SentStaysTidy ==
    ASSUME VInv, NInv, NEW r \in Runs, At(r, "apply"), run[r].changes # <<>>,
           ~Refuses(github, ToSend(r)), NEW h, h = Effect(github, ToSend(r))
    PROVE  AllTidy(h)
<1> DEFINE q == ToSend(r)
<1>1. /\ CInv /\ ManifestTyped(manifest) /\ AllTidy(github)
      /\ RunFits(manifest, run[r], github.rulesets) /\ run[r].pc = "apply"
      /\ ManifestShape(manifest) /\ RepositoryShape(github)
    BY RunOf DEF VInv, MInv, NInv, NothingRepeated, At
<1>2. SpokenOf(manifest, q, github.rulesets) /\ Applicable(manifest)
    BY <1>1, RequestFits
<1>3. /\ load_manifest(manifest)
      /\ \A t \in {"branch", "tag"} :
            ~RulesetRefused(ruleset_table(manifest, t), t, repository(manifest))
    BY <1>1 DEF RunFits, ChecksPassed
<1>4. \A t \in {"branch", "tag"} : NothingTwice(PayloadOf(manifest, t))
    BY <1>2, TargetNames DEF NInv, NothingRepeated
<1> HIDE DEF q
<1>5. ~Refuses(github, q) /\ h = Effect(github, q)
    BY DEF q
<1> QED BY <1>1, <1>2, <1>3, <1>4, <1>5, RequestKeepsTidy

LEMMA SendRequestDrifts ==
    ASSUME VInv, NInv, NEW r \in Runs, SendRequest(r)
    PROVE  NInv'
<1>1. /\ At(r, "apply") /\ run[r].changes # <<>> /\ manifest' = manifest
      /\ DOMAIN run[r] = RunFields /\ run[r].pc = "apply"
    BY RunOf DEF SendRequest, VInv, At
<1>2. CASE Refuses(github, ToSend(r))
    BY <1>1, <1>2, RunEndsDrifts DEF SendRequest
<1>3. CASE ~Refuses(github, ToSend(r))
    <2> DEFINE x == [run[r] EXCEPT !.changes = Sent(@)]
    <2>1. github' = Effect(github, ToSend(r)) /\ run' = Disturb([run EXCEPT ![r] = x], r)
        BY <1>3 DEF SendRequest
    <2>2. x.pc = "apply"
        BY <1>1 DEF RunFields
    <2> HIDE DEF x
    <2>3. AllTidy(github')
        BY <1>1, <1>3, <2>1, SentStaysTidy
    <2> QED BY <1>1, <2>1, <2>2, <2>3, ChangedWhileTidy
<1> QED BY <1>2, <1>3

LEMMA AnswerLostDrifts ==
    ASSUME VInv, NInv, NEW r \in Runs, AnswerLost(r)
    PROVE  NInv'
<1> DEFINE x == [run[r] EXCEPT !.pc = "failed"]
<1>1. /\ At(r, "apply") /\ run[r].changes # <<>> /\ manifest' = manifest
      /\ ~Refuses(github, ToSend(r)) /\ github' = Effect(github, ToSend(r))
      /\ run' = Disturb([run EXCEPT ![r] = x], r) /\ DOMAIN run[r] = RunFields
    BY RunOf DEF AnswerLost, VInv
<1>2. x.pc = "failed"
    BY <1>1 DEF RunFields
<1> HIDE DEF x
<1>3. AllTidy(github')
    BY <1>1, SentStaysTidy
<1> QED BY <1>1, <1>2, <1>3, ChangedWhileTidy

LEMMA FinishApplyDrifts ==
    ASSUME VInv, NInv, NEW r \in Runs, FinishApply(r)
    PROVE  NInv'
<1> DEFINE x == [run[r] EXCEPT !.pc = "succeeded"]
<1>1. /\ run[r].changes = <<>> /\ UNCHANGED <<manifest, github>>
      /\ run' = [run EXCEPT ![r] = x] /\ DOMAIN run[r] = RunFields
    BY RunOf DEF FinishApply, Goto, VInv
<1>2. x.pc = "succeeded" /\ x.changes = <<>>
    BY <1>1 DEF RunFields
<1> HIDE DEF x
<1>3. Drifts(manifest, github, x)
    BY <1>2, NoneNeeded DEF Drifts
<1> QED BY <1>1, <1>3, OneRunDrifts

LEMMA StartDrifts ==
    ASSUME VInv, NInv, NEW r \in Runs, NEW mode, Start(r, mode)
    PROVE  NInv'
<1> DEFINE pc == IF load_manifest(manifest) THEN "repository" ELSE "failed"
           x == [run[r] EXCEPT !.mode = mode, !.pc = pc]
<1>1. /\ run' = [run EXCEPT ![r] = x] /\ UNCHANGED <<manifest, github>>
      /\ DOMAIN run[r] = RunFields
    BY RunOf DEF Start, VInv
<1>2. x.pc = pc
    BY <1>1 DEF RunFields
<1>3. pc \in {"repository", "failed"}
    OBVIOUS
<1> HIDE DEF x, pc
<1>4. Drifts(manifest, github, x)
    BY <1>2, <1>3 DEF Drifts
<1> QED BY <1>1, <1>4, OneRunDrifts

LEMMA ExitDrifts ==
    ASSUME VInv, NInv, NEW r \in Runs, Exit(r)
    PROVE  NInv'
<1>1. run' = [run EXCEPT ![r] = Idle] /\ UNCHANGED <<manifest, github>>
    BY DEF Exit
<1>2. Idle.pc = "idle"
    BY DEF Idle
<1>3. Drifts(manifest, github, Idle)
    BY <1>2 DEF Drifts
<1> QED BY <1>1, <1>3, OneRunDrifts

LEMMA EditDrifts ==
    ASSUME VInv, NInv, Edit
    PROVE  NInv'
<1>1. PICK kind \in EditKinds : github' \in EditsOf(kind) \ {github}
    BY DEF Edit
<1>2. RepositoryShape(github) /\ AllTyped(github) /\ AllTidy(github)
    BY DEF VInv, MInv, CInv, NInv, NothingRepeated
<1>3. AllTidy(github')
    BY <1>1, <1>2, EditKeepsTidy, BoundsAssumption
<1>4. manifest' = manifest /\ run' = Disturb(run, Nil)
    BY DEF Edit
<1>5. \A q \in Runs : run[q] = run[q] /\ q # Nil
    BY NoneAssumption
<1> QED BY <1>3, <1>4, <1>5, OthersDrift

-----------------------------------------------------------------------------
(* The invariant is inductive. *)

LEMMA InitNInv == Init /\ NothingRepeated => NInv
<1> SUFFICES ASSUME Init, NothingRepeated PROVE NInv
    OBVIOUS
<1>1. \A r \in Runs : run[r].pc = "idle"
    BY DEF Init, Idle
<1>2. \A r \in Runs : Drifts(manifest, github, run[r])
    BY <1>1 DEF Drifts
<1> QED BY <1>2 DEF NInv

LEMMA NInvInductive == VInv /\ NInv /\ OnePage /\ [Next]_vars => NInv'
<1> SUFFICES ASSUME VInv, NInv, OnePage, [Next]_vars PROVE NInv'
    OBVIOUS
<1>1. CASE UNCHANGED vars
    BY <1>1 DEF vars, NInv, NothingRepeated
<1>2. ASSUME NEW r \in Runs, NEW mode \in {"plan", "apply"}, Start(r, mode)
      PROVE  NInv'
    BY <1>2, StartDrifts
<1>3. ASSUME NEW r \in Runs, Step(r)
      PROVE  NInv'
    BY <1>3, ReadRepositoryDrifts, ReadToggleDrifts, ReadPagesDrifts, ListRulesetsDrifts,
       ReadRulesetDrifts, FinishPlanDrifts, SendRequestDrifts, FinishApplyDrifts, ExitDrifts
    DEF Step
<1>4. ASSUME NEW r \in Runs, RequestFails(r)
      PROVE  NInv'
    BY <1>4, RunEndsDrifts DEF RequestFails
<1>5. ASSUME NEW r \in Runs, AnswerLost(r)
      PROVE  NInv'
    BY <1>5, AnswerLostDrifts
<1>6. CASE Edit
    BY <1>6, EditDrifts
<1> QED BY <1>1, <1>2, <1>3, <1>4, <1>5, <1>6 DEF Next

LEMMA NInvDrift == VInv /\ NInv => PlanIsDrift
<1> SUFFICES ASSUME VInv, NInv, NEW r \in Runs, At(r, "succeeded"), run[r].mode = "plan",
                    ~run[r].disturbed
             PROVE  {change.key : change \in ToSet(run[r].changes)} = Drift(manifest, github)
    BY DEF PlanIsDrift
<1>1. /\ Applicable(manifest) /\ Plan(manifest, github, run[r].changes, {})
      /\ Needed(manifest, github, run[r].changes)
    BY DEF VInv, Converges, NInv, Drifts, At
<1>2. \A change \in ToSet(run[r].changes) : change.key \in DriftKeys
    BY RunOf DEF VInv, RunFits, ChangesFit, ChangeFits
<1>3. Drift(manifest, github) = {key \in DriftKeys : Differs(manifest, github, key)}
    BY <1>1 DEF Drift
<1>4. ASSUME NEW key \in DriftKeys, Differs(manifest, github, key)
      PROVE  \E change \in ToSet(run[r].changes) : change.key = key
    BY <1>1, <1>4 DEF Plan
<1> QED BY <1>1, <1>2, <1>3, <1>4 DEF Needed

\* What a dry run reports is what is wrong (build_plan), and nothing that is
\* right: when nobody else changed the repository meanwhile, the keys of a
\* finished plan are the parts that differ, although GitHub shows a ruleset in
\* an order of its own, with defaults left out and fields it adds
\* (normalize_ruleset_payload).  The normal form sorts lists and keeps what
\* they repeat, so the manifest must list nothing twice in a ruleset, and
\* neither may the rulesets there are at first, which have one rule of a type
\* and in their actors and checks no field beyond the known ones; and
\* get_managed_rulesets fetches one page, which must hold every ruleset.
THEOREM PlanIsAlwaysDrift ==
    Spec /\ NothingRepeated /\ []OnePage => []PlanIsDrift
BY InitVInv, VInvInductive, InitNInv, NInvInductive, NInvDrift, PTL DEF Spec

=============================================================================
