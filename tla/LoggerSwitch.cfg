\* The stream switch racing a write: set_ostream against write()
\* on two threads.
CONSTANTS
    t1 = t1  t2 = t2  b1 = b1  b2 = b2  s1 = s1  s2 = s2
    Threads <- MCThreads
    Bits <- MCBits
    Streams <- MCStreams
    Static <- MCStatic
    OtherLogger = FALSE
SPECIFICATION Spec
INVARIANT FlushedWhereWritten
