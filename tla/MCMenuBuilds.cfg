SPECIFICATION BuildsSpec
CONSTANTS
    Absent = Absent
    Tables <- MCTables
    Requests = {r1, r2}
    MaxCommits = 2
    MaxRestarts = 1
INVARIANTS SeesEarlierEdits
