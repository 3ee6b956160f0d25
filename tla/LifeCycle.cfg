\* Three executors and three guests, one of which stops the system; three
\* collector threads, as many collections as they like.
SPECIFICATION LifeCycleSpec
CONSTANTS
    ExecutorNum = 3
    Guests = {m, g1, g2}
    MainGuest = m
    NoGuest = nil
    MaxStops = 1
    Collectors = {1, 2, 3}
    NumGenerations = 3
\* After executor_stop every OS thread has exited.
CHECK_DEADLOCK FALSE
INVARIANTS
    GuestsDestroyedOnce
    ShareOutlivesExecutors
    CollectorsAgree
PROPERTIES
    ShutdownEnds
    PhasesInOrder
    BarriersOpen
