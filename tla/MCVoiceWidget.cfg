SPECIFICATION WidgetFairSpec
CONSTANT MaxHolds = 3
INVARIANTS CancelledNotSent MicIsReleased
PROPERTY PollEnds
CHECK_DEADLOCK FALSE
