SPECIFICATION LayoutSpec
CONSTANTS
    Statements <- MCStatements
    Groups <- MCGroups
    Plans <- MCPlans
    Configs <- MCConfigs
    MaxPieces = 2
    LineLength = 15
    Pages <- MCPages
    Styles <- MCStyles
INVARIANTS WrappedLinesFit LinesReadAsWritten LayoutSettles
CHECK_DEADLOCK FALSE
