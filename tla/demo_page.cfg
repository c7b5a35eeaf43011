\* Two pages, a prompt of either, a restart of the backend.
CONSTANTS
    Pages = {p1, p2}
    Conversations = {p1, p2}
    Tools = {list_dir}
    Prompts = {m1}
    MaxRestarts = 1
    None = None
    Failure = Failure
SPECIFICATION FairSpec
INVARIANTS TypeOK StrangersAreSurvivors OwnersSeeTools DestroyedStaysClosed
PROPERTIES OnlyOvertakenGoBack StatusSettles
CHECK_DEADLOCK FALSE
