\* One run beside any others, and up to two lines of each program; what Claude
\* starts itself may hold its streams.
SPECIFICATION FairSpec
CONSTANTS
    Run = {r1}
    TriageTimeout = 1
    AnswerTimeout = 2
    Quiet = 1
    Ttl = 2
    MaxLines = 2
    Holders = {"claude"}
    Absent = Absent
    None = None
INVARIANTS InProgressIsKept ClaudeIsHeard
PROPERTIES FollowedRunEnds
