\* A gateway of the Domain is behind its migration fence.
SPECIFICATION JobSpec
CONSTANTS
    MaxSends = 1
    MaxReplies = 1
    MaxAttempts = 2
INVARIANTS SendsTaken
CHECK_DEADLOCK FALSE
