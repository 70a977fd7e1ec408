\* An out-of-scope change that outlives the attempt that made it.
SPECIFICATION Spec
CONSTANTS
    src = src
    other = other
    rule = rule
    cmd = cmd
    net = net
    forbidden = forbidden
    meta = meta
    built = built
    style = style
    NoLimit = NoLimit
    None = None
    Run = {r1}
    MaxVersion = 30
    Path = {src, other}
    Pattern = {rule}
    Matches <- MCMatches
    Item = {cmd, net, forbidden, meta}
    Gated = {net, meta}
    HardDenied = {meta}
    Ungrantable = {}
    Ceiling = {cmd, net, meta}
    Content <- MCContent
    NoFile = "no file"
    Criterion = {built, style}
    Mandatory = {built}
    ByCommand = {built}
    CeilingScope <- MCScope
    MaxTurns = 6
    Base <- MCBase
    Drafts <- MCDrafts
    Additional <- MCAdditional
    Manifests <- MCManifests
    Executions <- MCExecutions
    Answers <- MCAnswers
    Turns <- MCTurns
INVARIANT
    ReadyOnlyWithinScope
CHECK_DEADLOCK FALSE
