SPECIFICATION Spec
CONSTANTS
    Nil = Nil
    Misfit = Misfit
    r1 = r1
    r2 = r2
    AppIds <- MCAppIds
    Runs = {r1}
    Worlds <- RetryWorlds
    MaxFailures = 4
    MaxEdits = 1
    EditKinds = {"deleteRuleset", "newRuleset"}
    DuplicateNames = TRUE
    PageSize = 100
INVARIANTS DuplicatesBounded
