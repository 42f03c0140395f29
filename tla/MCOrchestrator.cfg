SPECIFICATION FairSpec
CONSTANTS
    Persistence = "fallible"
    ModuleCount = 4
    Dependencies <- MCDependencies
    Critical <- MCCritical
    StageCount = 3
    Trading <- MCTrading
    s1 = s1
    s2 = s2
    Signaller = {s1, s2}
    DrainExpires = TRUE
INVARIANTS TypeOK EmergencySticks CriticalModulesUp StageKeepsModules
PROPERTIES LifecycleSpec NoCycleAfterShutdown ShutdownCompletes
