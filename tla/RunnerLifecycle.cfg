SPECIFICATION FairLifecycleSpec
CONSTANTS
    sigterm = sigterm
    sigint = sigint
    again = again
    Main = Main
    Signal = {sigterm, sigint, again}
    MaxContinues = 3
INVARIANTS ExitLeavesNothing PingsHaveAClient
PROPERTIES SignalEndsRunner IdleSessionIsPinged
CHECK_DEADLOCK FALSE
