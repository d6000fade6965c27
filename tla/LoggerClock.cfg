\* write() on two threads while a second logger (an endpoint's access and
\* error logs) writes at the same time: what std::localtime shares.
CONSTANTS
    t1 = t1  t2 = t2  b1 = b1  b2 = b2  s1 = s1  s2 = s2
    Threads <- MCThreads
    Bits <- MCBits
    Streams <- MCStreams
    Static <- MCStatic
    OtherLogger = TRUE
SPECIFICATION Spec
INVARIANT StampIsOwn
