SPECIFICATION MCSpec
CONSTANTS
    base = base
    lib = lib
    app = app
    left = left
    right = right
    Plugins <- AllPlugins
    Depends <- Everything
    Catalog <- Offered
    Workers = {"w1"}
    Faults <- EveryFault
    MaxStarts = 3
    tool = tool
    user = user
    Loadable <- Runnable
    Requires <- Needs
    Packages <- Contents
    RunThreads = {"run"}
    MaxPackages <- Unpacked
    MaxPluginRuns = 1
INVARIANTS  DependenciesKept  SoundIsCallable
PROPERTY InstallsEnd
CHECK_DEADLOCK FALSE
