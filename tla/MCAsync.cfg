SPECIFICATION FairSpec
CONSTANTS
    Threads = {1, 2, 3}
    Main = 1
    Stacks = {s1, s2}
    MainStack = MainStack
    NoStack = NoStack
    MaxSuspend = 1
    MaxGeneration = 3
    MaxSuspensions = 2
INVARIANTS
    NoRunAhead
    NoLostAnswer
    StacksHeld
PROPERTIES
    CallsEnd
