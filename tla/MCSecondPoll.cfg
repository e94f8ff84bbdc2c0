SPECIFICATION FairSpec
CONSTANTS
    feed = feed
    replay = replay
    points = points
    Feeds = {}
    Replays = {}
    Points = {points}
    Workers = {w1, w2}
    Corpus <- Corpora
    LastId <- MorePoints
    LastText = 1
    Correctable = {}
    PageSize = 1
    MaxPages = 1
    MaxItems = 2
    MaxFailures = 1
PROPERTIES
    CaughtUp
