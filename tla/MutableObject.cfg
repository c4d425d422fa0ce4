SPECIFICATION LiveSpec
CONSTANTS
  Instances = {1, 2}
  Roles <- AllRoles
  Freq = 2
  OneLoad = TRUE
INVARIANTS CheckpointHasNoHoles ContentsFollowOps
PROPERTIES FollowsTheStore
CHECK_DEADLOCK FALSE
