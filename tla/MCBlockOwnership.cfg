CONSTANTS
    r1 = r1
    r2 = r2
    Requests = {r1, r2}
    Blocks = {b1, b2, b3}
    Hashes = {"a", "ab", "ad"}
    NoHash = NoHash
    PrefixHashes <- MCPrefixHashes
SPECIFICATION Spec
SYMMETRY BlockSymmetry
INVARIANTS
    RefCountExact
    FreeIffUnheld
    SoleWriter
    OwnPrefixOnly
