\* What Codex starts itself may hold its streams too: runCommand waits for them
\* and FollowedRunEnds is violated.
SPECIFICATION FairSpec
CONSTANTS
    Run = {r1}
    TriageTimeout = 1
    AnswerTimeout = 2
    Quiet = 1
    Ttl = 2
    MaxLines = 1
    Holders = {"claude", "codex"}
    Absent = Absent
    None = None

PROPERTIES FollowedRunEnds
