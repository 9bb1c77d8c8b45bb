SPECIFICATION Spec
CONSTANTS
    query = query
    views = views
    script = script
    view = view
    base = base
    old = old
    Capabilities = {query, views, script}
    SideEffecting = {views, script}
    Catching = {views}
    Commands <- MCCommands
    Broken = {old}
    AwareParameter = {view}
    AwareCommand = {base}
    Messages <- MCMessages
    Languages = {"en", "pt"}
    Levels = {3}
    None = None
    MaxDepth = 2
    MaxCalls = 3
    MaxSessions = 2
INVARIANT Balanced
INVARIANT FailureReported
INVARIANT BrokerScoped
INVARIANT LevelIsOwn
\* The process stops after its last session.
CHECK_DEADLOCK FALSE
