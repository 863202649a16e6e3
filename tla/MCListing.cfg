SPECIFICATION FairSpec
CONSTANTS
  Files = {1, 2, 3}
  Lists = {"mine", "trash", "shared", "starred", "messages", "notifications", "search"}
  Take = 1
  MaxPosts = 3
  MaxChanges = 2
INVARIANTS TypeOK MissedOnlyIfSlipped RepeatedOnlyIfClimbed
PROPERTIES ShownIsGranted ScanEnds
CHECK_DEADLOCK FALSE
