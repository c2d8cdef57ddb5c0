SPECIFICATION FairSpec
CONSTANTS
    Nil = Nil
    Misfit = Misfit
    r1 = r1
    r2 = r2
    AppIds <- MCAppIds
    Runs = {r1, r2}
    Worlds <- SmallWorlds
    MaxFailures = 1
    MaxEdits = 1
    EditKinds = {"deleteRuleset"}
    DuplicateNames = FALSE
    PageSize = 100
PROPERTIES ImplementsReconciler
