\* One Run, its pipeline, two humans and one scan, in every order.
SPECIFICATION SystemSpec
CONSTANTS
    src = src
    rule = rule
    net = net
    built = built
    NoLimit = NoLimit
    None = None
    Run = {r1}
    MaxVersion = 40
    Cli = {c1, c2}
    MaxCommands <- MCCommands
    c1 = c1
    c2 = c2
    Scanner = {s1}
    Path = {src}
    Pattern = {rule}
    Matches <- MCMatches
    Item = {net}
    Gated = {net}
    HardDenied = {}
    Ungrantable = {}
    Ceiling = {net}
    Content <- MCContent
    NoFile = "no file"
    Criterion = {built}
    Mandatory = {built}
    ByCommand = {built}
    CeilingScope <- MCScope
    MaxTurns = 5
    Base <- MCBase
    Drafts <- MCDrafts
    Additional <- MCAdditional
    Manifests <- MCManifests
    Executions <- MCExecutions
    Answers <- MCAnswers
    Turns <- MCTurns
PROPERTIES
    AbandonedRunsSettle
    NoZombieWrites
    ScanNeverMovesFreshRun
    DecidesWhatWasShown
    WorktreeOnlyRemovedWhenOver
    ImplementsAtomicStore
CHECK_DEADLOCK FALSE
