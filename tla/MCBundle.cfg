SPECIFICATION Spec
CONSTANTS
    Names = {1, 2, 3}
    Homes <- MCHomes
    Edits <- MCEdits
    Rewrites <- MCRewrites
    Foreign <- MCForeign
    Representations <- MCRepresentations
    DepthLimit = 2
    EntryLimit = 4
    MaxWrites = 3
INVARIANTS
    ExportSound
    ParsedCanonical
    ImportSound
CHECK_DEADLOCK FALSE
