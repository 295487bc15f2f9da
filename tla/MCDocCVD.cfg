CONSTANTS
    Collectors = {c1}
    Flows <- OneFlow
    Nil = Nil
    Periods = 3
    Window = 2
    Orders = {"desc"}
    MaxRevisions = 0
    MaxDeaths = 0
SPECIFICATION Spec
INVARIANT RecalculableCVD
CHECK_DEADLOCK FALSE
