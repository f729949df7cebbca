SPECIFICATION MigrationSpec
CONSTANTS
    s1 = s1
    s2 = s2
    s3 = s3
    vps = vps
    docker = docker
    Servers = {s1, s2}
    Home = s1
    Local = {s1}
    Host <- OneEach
    TD = td
    Artists = {a1}
    MaxCommits = 4
    Habits = {"deleteOld", "keepOld", "deleteTarget", "keepTarget", "commitOrphan", "goBack"}
    Faults = {}
INVARIANT HistoryPreserved
