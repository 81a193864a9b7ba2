CONSTANTS
    LayerKeys <- MCKeys
    JoinedKeys <- MCJoinedKeys
    UserValues <- MCUserValues
    Names <- MCNames
SPECIFICATION Spec
INVARIANTS NoLocalUserFile ForcedStands NothingLost EnvironmentShipped NoDirectoryLeft
CHECK_DEADLOCK FALSE
