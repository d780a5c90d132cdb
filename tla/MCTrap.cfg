CONSTANTS
    HandlerKeeps = {"a1", "a2"}
SPECIFICATION Spec
INVARIANT HandlerEnvironment
PROPERTY ResumedIntact
