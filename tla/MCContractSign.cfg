SPECIFICATION Spec
CONSTANTS
    Calls = {c1, c2}
    Payloads = {p1}
    Nodes = {n1, n2}
    MaxDepth = 2
    MaxRestarts = 1
SYMMETRY Symmetry
INVARIANTS TypeOK ChainOwnsEntry ReturnsOwnSignature
PROPERTIES OrphanBlocksPayload
