CONSTANTS
    fam = fam
    tid = tid
    arn = arn
    web = web
    none = none
    c1 = c1
    app = app
    v1 = v1
    tok = tok
    Family = fam
    TaskId = tid
    TaskARN = arn
    NoName = none
    ConfigNames <- MCConfigNames
    CheckIds <- MCCheckIds
    Containers <- MCContainers
    MetaKeys <- MCMetaKeys
    MetaValues <- MCMetaValues
    Tokens <- MCTokens
    MaxRejects <- MCMaxRejects
SPECIFICATION Spec
\* mesh-init is a one-shot command; a run whose registration the agent
\* keeps refusing retries forever, which TLC sees as a final state.
CHECK_DEADLOCK FALSE
INVARIANTS
    RunRegistersAsConfigured
    MetaMergedAsConfigured
PROPERTIES
    BootstrapSpec
