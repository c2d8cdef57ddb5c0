SPECIFICATION Spec
CONSTANTS
    Nil = Nil
    Misfit = Misfit
    r1 = r1
    r2 = r2
    AppIds <- MCAppIds
    Runs = {r1}
    Worlds <- AloneWorlds
    MaxFailures = 2
    MaxEdits = 1
    EditKinds = {"setting", "toggle", "noSite", "deleteRuleset", "changeRules", "newRuleset"}
    DuplicateNames = FALSE
    PageSize = 100
INVARIANTS TypeOK PlanIsDrift ExitZeroMeansConverged
PROPERTIES UnmanagedUntouched PutsRight
