\* Each of the sequential tools on all of its small inputs.
CONSTANTS
    OuterSize = 2
    EntrySize = 3
    InnerSize = 2
    PatchSize = 3
    FileSizes = {0, 1, 2, 7, 13, 21, 22}
    Words = {0, 1, 3, 4, 6, 30}
    UintMax = 65535
    Speeds = {0, 1, 367, 368, 371, 65535}
    BlobSize = 6
    HeaderSize = 4
    IdentSize = 2
    Lengths = {0, 3, 6, 7, 8, 11, 12}
    UrlLines <- MCUrlLines
    CaseLines <- MCCaseLines
    OffsetMax = 15
    LengthMax = 7
    UnknownOffset = 9
    BufferLength = 3
    Dumps <- MCDumps
    SessionLists <- MCSessionLists
    Users = {1000, 1001}
    Nobody = Nobody
    Directories <- MCLookDirectories
    Creds <- MCCreds
    Passwds <- MCPasswds
    Gids = {0, 9}
    None = None
    Names = {"home", "data"}
    Uuids = {1, 2}
    Chunks = 2
    NoUuid = NoUuid
    Paths = 2
    MaxInode = 4
    NoInode = NoInode
    Machines = {1, 2}
    Pongs = 2
    Pieces = 1
    Seconds = {1, 2}
    MaxDumps = 2
SPECIFICATION MCSpec
INVARIANTS WalkInBounds SpeedNotWrapped FirstBlobFound UrlDecoded CaseSanitized DumpExact
    UserAtDisplay LookupFindsFirst ServesAsUser ExitMeansMapped SameNodesBlocked DumpsKept
PROPERTIES ToolsEnd
CHECK_DEADLOCK FALSE
