CONSTANTS
    t1 = t1
    Tokens = {t1}
    Budgets <- AllBudgets
    MaxMessage = 40
SPECIFICATION Spec
CHECK_DEADLOCK FALSE
INVARIANTS LayersInStep NoEngineLeftWaiting StateIsCurrent
PROPERTIES ChannelPromise
