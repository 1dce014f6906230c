SPECIFICATION Spec
CONSTANTS
    Files <- MCFiles
    Folders <- MCFolders
    Root = "root"
    In <- MCIn
    Silent = {"root"}
    MaxStamp = 1
    Limit = 1
    Reconcile = 1
    Unknown = Unknown
PROPERTY FailedReadsProveNothing
