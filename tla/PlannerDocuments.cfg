SPECIFICATION Spec
CONSTANTS
    None = None
    na = na
    nb = nb
    l1 = l1
    l2 = l2
    Names = {na, nb}
    Labels = {l1, l2}
    Configs <- AllConfigs
    Groups <- AllGroups
    MaxDepth <- AllDepths
    MaxColumn = 4
    MaxConditionals = 1
INVARIANTS
    TypeOK
    StackShape
    LabelsExact
    VisibleAgreesWithRaw
PROPERTIES
    EndAlignsWithOpener
    RefactoredEndNamesItsFrame
