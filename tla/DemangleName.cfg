\* Every type name up to three levels of template nesting, in both
\* spellings, as a complete, incomplete or undecodable type; size_t of 6 bits.
CONSTANTS
    Width = 6
    Depth = 3
SPECIFICATION Spec
INVARIANT NameRoundTrip
\* One call per behaviour: the routine returns and the behaviour ends.
CHECK_DEADLOCK FALSE
