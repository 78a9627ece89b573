\* Three presses, three unread events; ticks of 125 ms, the longest wait and the time after it cut short.
CONSTANTS
    Delay = 2
    Interval = 1
    Quiet = 2
    Limit = 4
    Ignore = 2
    QueueMax = 3
    MaxPresses = 3
SPECIFICATION InputSpec
INVARIANTS StaleKeysDropped ReactsAgain
