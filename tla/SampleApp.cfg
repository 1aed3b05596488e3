\* Three generations of data, both threads scheduled fairly.
SPECIFICATION FairSpec
CONSTANT MaxGen = 3
INVARIANTS TypeOK EveryGenerationNotifies FrameIsFresh
PROPERTIES RepaintNotLost
