CONSTANT MaxChunks = 3
SPECIFICATION FairSpec
INVARIANTS
    BufferIsStable
    OutlivesConnections
PROPERTIES
    ImplementsRelay
    EveryChunkArrives
    EndsTogether
