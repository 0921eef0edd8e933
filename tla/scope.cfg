CONSTANTS
    Trees <- MCTrees
    Metas <- MCMetas
    Modes <- MCModes
    Scopes <- MCScopes
    LocalScope = "local"
    EmptyScope = ""
    NoScope = "none"
    Slug <- MCSlug
    Views = {"findings_summary", "open_findings"}
    Dialect = "postgres"
    MaxRows = 1
    MaxEdits = 2
SPECIFICATION Spec
INVARIANT CorpusIsRead
INVARIANT AnswersAreWhole
INVARIANT ScopeDoesNotLeak
PROPERTY RegisteringOnlyAdds
CHECK_DEADLOCK FALSE
