SPECIFICATION FairLockSpec
CONSTANT InboxBound = 3
\* After Ctrl-C the program ends.
CHECK_DEADLOCK FALSE
INVARIANTS NoBorrowClash
PROPERTIES NobodyStarves InterruptEnds
