SPECIFICATION Spec
CONSTANTS
    Calls = {c1, c2}
    Legacies <- MCLegacies
    OldMessages = 2
    Statuses = {"completed", "denied"}
    MaxEntries = 7
    MaxOldEntries = 5
    MaxJumps = 3
    MaxFaults = 1
SYMMETRY MCSymmetry
INVARIANTS UpgradeIsFaithful KnowledgeIsCarried ViewsAgree
CHECK_DEADLOCK FALSE
