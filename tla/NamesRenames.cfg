SPECIFICATION ProjectSpec
CONSTANTS
    Intrinsics <- MCIntrinsics
    Contents <- MCContents
    Unreadable <- MCUnreadable
    Projects <- MCProjects
CHECK_DEADLOCK FALSE
INVARIANTS
    RenamesNeverGuessed
