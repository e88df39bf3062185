SPECIFICATION Spec
CONSTANTS
    Items = {"i1", "i2"}
    StartItems = {"i1"}
    Labels = {"l1"}
    Texts = {"", "a"}
    SectionSets <- MCSections
    MaxWork = 3
    Shown = {"A", "B"}
    NoTask = "none"
    Files = {"f1", "f2", "f3", "f4"}
    Stored0 <- MCStored
    MaxFileWork = 3
    TalkTasks = {"A", "B"}
    Thread0 <- MCThread
    COMMENTS_PAGE_LIMIT = 1
    MaxComments = 5
    MaxTalkWork = 3
    Hooks = {"board", "bell", "list"}
    Rooms = {"boardRoom", "userRoom"}
    RoomOf <- MCRoomOf
    BoardHooks = {"board"}
    MaxAttempts = 2
    MaxDelay = 3
CHECK_DEADLOCK FALSE
INVARIANTS
    
    FilesSound
    TalkSound
    
PROPERTIES
    ScreensSettle
