\* A scalar, a table and a table of a table, read from and written to another Lua state.
SPECIFICATION Spec
CONSTANTS
    Globals <- MCGlobals
    Tables <- MCTables
    Fresh = {"copy1", "copy2", "copy3"}
INVARIANTS
    Transferred
