SPECIFICATION FairChunkSpec
CONSTANTS
    MaxTokens = 4
    OverlapTokens = 1
    Sizes = {1, 2, 4, 5}
    MaxWords = 4
INVARIANTS
    Sound
PROPERTIES
    EverythingChunked
CHECK_DEADLOCK FALSE
