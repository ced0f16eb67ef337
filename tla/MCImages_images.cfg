SPECIFICATION FairSpec
CONSTANTS
    None = None
    Users = {"ann"}
    Images <- SomeImages
    Outputs = {"out1", "out2"}
    Owner <- SomeOwner
    Object <- SomeObject
    Content <- SomeContent
    Calls = {"c1", "c2"}
    Together <- SomeTogether
    MaxLinks = 1
    MaxFaults = 1
INVARIANTS
    TypeOK
    LiveHasObject
    PurgedIsGone
PROPERTIES
    DeletedStaysDeleted
    NoLinkRevived
    DeletedIsPurged
CHECK_DEADLOCK FALSE
