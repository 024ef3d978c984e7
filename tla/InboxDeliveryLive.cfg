\* Connections and the gateway break between handlers, the queue of the
\* session holds one message: each message ends.
SPECIFICATION FairSpec
CONSTANTS
    Messages = {m1, m2}
    Capacity = 1
    MaxBreaks = 3
    Faults = {}
INVARIANTS InHand
PROPERTIES SettledWhenLive
CHECK_DEADLOCK FALSE
