CONSTANTS
    Input <- MCUnique
    Outcomes <- AnyOutcomes
    Followed = {"function", "library"}
    MaxCalls = 4
    MaxInstr = 4
SPECIFICATION Spec
INVARIANTS CallTree StacksAgree NoUnderflow SmallerIsCaller
CHECK_DEADLOCK FALSE
