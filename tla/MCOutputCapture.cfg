CONSTANTS
    main = main
    io = io
    compute = compute
    Calls = {main, io, compute}
    Root = main
    Threaded = {io}
    Streams = {"STDOUT", "STDERR"}
    Captured = {"STDOUT", "STDERR"}
    MaxBytes = 4
    ChunkBytes = 3
    Prints <- MCPrints
    MaxPrinted = 4
SPECIFICATION OutputSpec
CHECK_DEADLOCK FALSE
INVARIANTS OutputIsBounded OutputBelongs NothingLostSilently
PROPERTIES LateOutputIsDropped
