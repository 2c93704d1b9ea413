SPECIFICATION Spec
CONSTANTS
    Conversations = {c1, c2, c3}
    Standalone = {s1}
    Hybrid = {h1, h2}
    CacheSize = 2
INVARIANTS
    TypeOK
    NeverOverCounts
PROPERTY StickySession
