SPECIFICATION FairSpec
CONSTANTS
    feed = feed
    replay = replay
    points = points
    Feeds = {feed}
    Replays = {replay}
    Points = {points}
    Workers = {w1, w2}
    Corpus <- Corpora
    LastId <- MostItems
    LastText = 2
    Correctable = {2}
    PageSize = 1
    MaxPages = 2
    MaxItems = 3
    MaxFailures = 1
CHECK_DEADLOCK FALSE
INVARIANTS
    NoRollback
    NothingSkipped
PROPERTIES
    PositionsMoveForward
    CaughtUp
