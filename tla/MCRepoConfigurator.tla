------------------------- MODULE MCRepoConfigurator -------------------------
(***************************************************************************)
(* Manifests and repositories for checking RepoConfigurator.               *)
(***************************************************************************)
EXTENDS RepoConfigurator

CONSTANTS r1, r2

MCAppIds == ("release-bot" :> 7) @@ ("ghost" :> Nil)

Tables(repo, sec, site, branch, tags) ==
    [repository |-> repo, security |-> sec, pages |-> site,
     rulesets |-> [branch_default |-> branch, tags_default |-> tags]]

Repo == [has_wiki |-> FALSE, allow_squash_merge |-> TRUE, immutable_releases |-> TRUE]
Sec == [dependency_graph |-> TRUE, advanced_security |-> TRUE]
Site == [build_type |-> "workflow", https_enforced |-> TRUE]
Context(name) == [context |-> name]

Branch ==
    [restrict_deletions |-> TRUE, restrict_updates |-> TRUE, require_pull_request |-> TRUE,
     bypass |-> <<[type |-> "repository_admin_role"],
                  [type |-> "app", slug |-> "release-bot", mode |-> "pull_request"]>>,
     pull_request |-> [required_approving_review_count |-> 1],
     status_checks |-> [enabled |-> TRUE,
                        contexts |-> <<Context("test"), [context |-> "lint", integration_id |-> 3]>>]]
Tags == [name |-> "Release tags", block_force_pushes |-> TRUE, enforcement |-> "evaluate"]

Full == Tables(Repo, Sec, Site, Branch, Tags)

\* Without [pages]; with a ruleset table left out, which is managed all the
\* same; with the status checks left to the operator.
Partial ==
    [repository |-> [has_wiki |-> FALSE],
     security |-> [private_vulnerability_reporting |-> FALSE, automated_security_fixes |-> TRUE],
     rulesets |-> [branch_default |-> [block_force_pushes |-> TRUE,
                                       status_checks |-> [enabled |-> TRUE]]]]

Small == [pages |-> Site,
          rulesets |-> [branch_default |-> [restrict_deletions |-> TRUE]]]

Refused ==
    {Nil,
     [Full EXCEPT !.security = [dependency_graph |-> TRUE, vulnerability_alerts |-> FALSE]],
     [Full EXCEPT !.repository = [has_wikis |-> FALSE, allow_squash_merge |-> TRUE]],
     [Full EXCEPT !.repository = Misfit],
     [Full EXCEPT !.pages = [build_type |-> "hugo"]],
     [Full EXCEPT !.repository = [has_wiki |-> FALSE]],
     [Full EXCEPT !.rulesets = [branches |-> Branch]],
     [Full EXCEPT !.rulesets = [tags_default |-> [require_pull_request |-> TRUE]]],
     [Full EXCEPT !.rulesets = [tags_default |-> [bypass |-> <<[type |-> "app", slug |-> "ghost"]>>]]],
     [Full EXCEPT !.rulesets = [tags_default |-> [bypass |-> <<[type |-> "integration"]>>]]],
     [Full EXCEPT !.rulesets = [tags_default |->
        [status_checks |-> [enabled |-> TRUE, contexts |-> <<Empty>>]]]]}

Repository(private, settings, alerts, site, rulesets) ==
    [private |-> private, settings |-> settings,
     toggles |-> [t \in ToSet(Toggles) |-> t = "vulnerability_alerts" /\ alerts],
     pages |-> site, rulesets |-> rulesets]

New == Repository(FALSE, [has_wiki |-> TRUE, has_issues |-> TRUE, allow_squash_merge |-> TRUE],
                  FALSE, Nil, <<>>)

Stored(source, name, target, rules) ==
    [source_type |-> source, name |-> name, target |-> target, enforcement |-> "active",
     bypass_actors |-> <<>>, include |-> <<DefaultRefs(target)>>, exclude |-> <<>>,
     rules |-> rules]

\* One that was configured, by hand in part, in an organisation with rulesets
\* of its own.
Grown ==
    Repository(TRUE, [has_wiki |-> FALSE, has_issues |-> TRUE, allow_squash_merge |-> FALSE,
                      advanced_security |-> FALSE],
               TRUE, [build_type |-> "legacy", https_enforced |-> TRUE],
               <<Stored("Organization", "Default branch", "branch", <<Deletion>>),
                 Stored("Repository", "Default branch", "branch",
                        <<Rule("required_status_checks",
                               [required_status_checks |->
                                    <<[context |-> "test", integration_id |-> Nil]>>])>>),
                 Stored("Repository", "Mine", "tag", <<Deletion>>)>>)

AloneWorlds ==
    [manifest : {Full, Partial}, github : {New, Grown}]
    \cup [manifest : Refused, github : {New}]
SmallWorlds == [manifest : {Small}, github : {New}]
PageWorlds == [manifest : {Small}, github : {Grown}]
RetryWorlds == [manifest : {Small, Partial}, github : {New}]
FollowUpWorlds == [manifest : {Partial}, github : {Grown}]

=============================================================================
