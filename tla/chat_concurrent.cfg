\* Two turns of one session at a time: a client tool, a server tool.
CONSTANTS
    s1 = s1  t1 = t1  t2 = t2  
    summarize = summarize  list_dir = list_dir
    Sessions = {s1}
    Turns = {t1, t2}
    TurnSession <- OneSession
    ServerTools = {summarize}
    ClientTools = {list_dir}
    PromptTool <- MixedPrompts
    MaxSteps = 2
    MaxOpen = 2
    Outputs = {o1}
    ServerOutput = ServerOutput
    Unavailable = Unavailable
    Timeout = Timeout
    TooDeep = TooDeep
    None = None
SPECIFICATION FairSpec
INVARIANTS TypeOK PendingMatchesTranscript ResultFollowsItsCall DepthSuffices
    UndisturbedAnswersOwn
PROPERTY TurnsEnd
CHECK_DEADLOCK FALSE
