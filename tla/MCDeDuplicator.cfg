CONSTANTS
    max_history = 2
    loss_threshold = 30
    Loss = {0, 10, 50}
    MaxSeq = 4
SPECIFICATION Spec
INVARIANTS SizeBounded
PROPERTIES ImplementsSlidingWindow
CHECK_DEADLOCK FALSE
