\* Goals of one or two rounds, five events of people, models and faults.
SPECIFICATION FairSpec
CONSTANTS
  Caps = {1, 2}
  MaxEvents = 5
INVARIANTS RoundsFollowGoal PromptsFirst JoinedViewCurrent
PROPERTY ArmedGoalsMove
CHECK_DEADLOCK FALSE
