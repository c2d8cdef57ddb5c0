SPECIFICATION Spec
CONSTANTS
    Nil = Nil
    Misfit = Misfit
    r1 = r1
    r2 = r2
    AppIds <- MCAppIds
    Runs = {r1, r2}
    Worlds <- SmallWorlds
    MaxFailures = 2
    MaxEdits = 0
    EditKinds = {"deleteRuleset"}
    DuplicateNames = TRUE
    PageSize = 100
INVARIANTS DuplicatesBounded ExitZeroMeansConverged
