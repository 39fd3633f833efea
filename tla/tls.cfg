CONSTANTS
    Channs = {c1, c2}
    Null = Null
    Freed = Freed
SPECIFICATION FairSpec
INVARIANTS StateAgrees NoStrandedSocket AcceptNamesListener
PROPERTIES DataAfterHandshake HandshakeEnds
