SPECIFICATION Spec
CONSTANTS
    Threads = {t1}
    Apps = {gui1, gui2}
    Guis = {gui1, gui2}
    NoApp = NoApp
    Main = Main
    Watchdog = Watchdog
    Offered <- AllCommands
    RoutesFail = FALSE
    MaxStarts = 2
INVARIANTS
    
    NoLeak
    
PROPERTIES
    EveryCommandEnds
CHECK_DEADLOCK FALSE
