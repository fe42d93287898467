CONSTANTS
    Semaphores = {0, 1, 2, 3, 4, 5}
    Processes = {1, 2, 3, 4, 5}
    mutexp = 5
    bufferSize = 2
    MAX_WORKERS = 2
    Codes = 2
    Leftover = {0, 1}
    Garbage = {"THINKING", "EATING"}
    Workers = {1, 2, 3}
SPECIFICATION DummySpec
INVARIANTS RingIsQueue WorkersTracked NeighboursExclude SleepersAreTested
PROPERTIES RemovesOldest ConsumptionGoesOn
CHECK_DEADLOCK FALSE
