\* Two requests at a time, the ticker, and the start and the stop of main.
SPECIFICATION FairSpec
CONSTANTS
    Requests = {"r", "s"}
    None = none
INVARIANTS
    NoCyclicWait
PROPERTIES
    AllFinish
