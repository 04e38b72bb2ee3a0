SPECIFICATION RulesSpec
CONSTANTS
    Tab = {"t1", "t2"}
    Bodies <- MCBodies
    Forms <- MCForms
    Foreign <- MCForeign
    RuleBounds <- MCRuleBounds
INVARIANT PendingIsExact
CHECK_DEADLOCK FALSE
