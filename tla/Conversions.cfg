SPECIFICATION Spec
CONSTANTS
    Number <- NumberDef
    Default <- DefaultDef
    HardMax = 6
    ServerName <- ServerNameDef
    ArgLists <- ArgListsDef
    Envs <- EnvsDef
    Values <- ValuesDef
    McpLists <- McpListsDef
    Records <- RecordsDef
INVARIANTS TypeOK Precedence SettingsValid McpServersKept TextAndToolsInOrder TerminalLineEnds CompletedHasReason CutsMarked WithinLimits
