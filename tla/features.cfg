CONSTANTS
    VectorInput <- Jobs
SPECIFICATION VectorSpec
INVARIANTS DividedOnce AcceptedIsClean LayersAreSound NamesAreClear
