\* A backup taken with nothing written meanwhile, restored once.
SPECIFICATION RestoreSpec
CONSTANTS
    Used = {"channel", "delivery", "message", "act"}
    Admin = {ann}
    MaxId = 1
    MaxRows = 3
    MaxRestores = 1
    WritesInDump = FALSE
    OlderArchives = FALSE
INVARIANT BackupRestores
CHECK_DEADLOCK FALSE
