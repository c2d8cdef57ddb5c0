SPECIFICATION Spec
CONSTANTS
    Nil = Nil
    Misfit = Misfit
    r1 = r1
    r2 = r2
    AppIds <- MCAppIds
    Runs = {r1, r2}
    Worlds <- PageWorlds
    MaxFailures = 1
    MaxEdits = 1
    EditKinds = {"deleteRuleset"}
    DuplicateNames = FALSE
    PageSize = 2
INVARIANT ExitZeroMeansConverged
