SPECIFICATION Spec
CONSTANTS
    c1 = c1
    Trigger <- MCTrigger
    AllowSoftAutoResume = TRUE
    RequireAckForHard = TRUE
    Caller = {c1}
    MonitorCount = 2
    Owner <- MCOwner
    Reports <- MCReports
    CallerHalts <- MCCallerHalts
    GuardTriggers <- MCGuardTriggers
    ControllerError = "IN_CONTROLLER_ERROR"
    HaltOnFailure = TRUE
INVARIANTS FailSafePass
