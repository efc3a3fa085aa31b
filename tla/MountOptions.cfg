\* Two options, each a mount flag or an inline one, and those that the request adds.
CONSTANTS
    UserOptions <- ClassOptions
    AllowedInline <- Inline
    Begins <- Starts
    Within <- Parts
    MaxOptions = 2
SPECIFICATION Spec
INVARIANTS ArgsAsPromised DistributedOnlyWhereSupported
\* The arguments are done, or the request is rejected.
CHECK_DEADLOCK FALSE
