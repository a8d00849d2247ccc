SPECIFICATION MainSpec
CONSTANTS
    Conns = {c1, c2, c3}
    MAX_PENDING_SESSIONS = 2
    ExportSize = 4
    READ_BUF_SIZE = 2
    MAX_READ_LENGTH = 3
    Requests <- MCProtocol
    MaxRequests = 2
    ImageFaults = {"error", "panic"}
    Suffixes = {"e01", "vmdk", "dd", "iso"}
    BootFaults = {"log", "handler", "bind", "open", "trace"}
    None = None
INVARIANTS
    TypeOK
    StreamInSync
    LogCountsSession
    SlotsMatchSessions
PROPERTIES
    LockIsTaken
    AllComesBack
    SignalSurvived
CHECK_DEADLOCK FALSE
