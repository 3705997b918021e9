SPECIFICATION FairSpec
CONSTANTS
  Events = {e1}
  Bodies = {b1, b2, b3}
  Writing = {b3}
  Consumers = {c1, c2}
  MaxCopies = 3
  NoBody = NoBody
  NoMessage = NoMessage
INVARIANTS AppliedOnce AckedWasApplied PublishedNotLost
PROPERTIES PublishedIsApplied
CHECK_DEADLOCK FALSE
