SPECIFICATION Spec
CONSTANTS
    Nodes <- MCNodes
    Kind <- MCKind
    Kids <- MCKids
    Hash <- MCHash
    Statements = {"pair", "ab", "abx", "one", "two", "deep"}
    Values = {"ab", "rep", "abx"}
    Texts = {"s"}
    None = None
    Cap = 4
    MaxLive = 2
    MaxBlocks = 11
INVARIANT ZetaPerMatch
