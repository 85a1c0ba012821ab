SPECIFICATION Spec
CONSTANTS
    MaxHosts = 4
    MaxNodes = 2
    MaxSpaces = 3
    MaxLoad = 9
INVARIANTS PanelsApart RowsOwnTheirPanels NoBlankLines
CHECK_DEADLOCK FALSE
