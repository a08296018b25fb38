SPECIFICATION Spec
CONSTANTS
    Outpoints = {1, 2, 3}
    Txids = {1, 2}
    MaximumBytes = 5
    MaxStamp = 5
    Scripts <- MCScripts
    ScriptBytes <- MCScriptBytes
    Wtxids <- MCWtxids
    OutputBytes <- MCOutputBytes
INVARIANTS
    SharedBudget
    OutputsAreCurrent
PROPERTIES
    ImplementsRecencyCache
