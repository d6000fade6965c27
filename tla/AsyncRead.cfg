\* Every variant of read()/async_read() against a peer that sends up to
\* four bytes and closes: buffers of up to two bytes each, transfers of
\* at most two bytes per read_some.
CONSTANTS
    MaxBuf = 2
    MaxData = 4
    MaxK = 3
    MaxTransfer = 2
SPECIFICATION Spec
INVARIANTS DataInPlace ContinuationHint
PROPERTY ComposedReadSpec
CHECK_DEADLOCK FALSE
