CONSTANTS
    HandlerKeeps = {"a1", "a2"}
SPECIFICATION Spec
PROPERTY TemporariesIntact
