\* Two threads that switch and make every system call and one too many, with
\* a breakpoint, or a fault with an error code, at any place.
CONSTANTS
    Cells = 8
    WordMod = 8
    MaxWrite = 3
    Regions <- FewRegions
    OpsSets <- FewOps
    Threads = {1, 2}
    Vectors = {3, 17}
    Requests <- FewRequests
    Args = {0, 1, 2, 3, 7}
SPECIFICATION Spec
INVARIANTS TypeOK ThreadsUndisturbed FrameFaithful UserBytesOnly BytesMoved UserRangeExact
PROPERTIES BreakpointInvisible SyscallAnswered
