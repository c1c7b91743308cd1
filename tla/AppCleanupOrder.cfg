SPECIFICATION Spec
CONSTANTS
    NBefore = 1
    NComponents = 2
    NCleanups = 2
    Kind <- MCKind
    MaxInflight = 1
INVARIANT CleanupsAfterComponentsStop
CHECK_DEADLOCK FALSE
