\* Two threads calling write, set_channels, clear_channels and set_ostream
\* on a logger built with one of two channels, over two streams, while a
\* second logger calls localtime.
CONSTANTS
    t1 = t1  t2 = t2  b1 = b1  b2 = b2  s1 = s1  s2 = s2
    Threads <- MCThreads
    Bits <- MCBits
    Streams <- MCStreams
    Static <- MCStatic
    OtherLogger = TRUE
SPECIFICATION Spec
INVARIANT LoggedOnlyWhenEnabled
PROPERTY LockReleased
