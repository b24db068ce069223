CONSTANT MaxSteps = 2
SPECIFICATION FairSpec
INVARIANTS TypeOK NoSpuriousVector PendingIsHighest PendingIsAnnounced
PROPERTIES IdeNeverLost HaltWakes
CHECK_DEADLOCK FALSE
