\* Every text of the passing run.
SPECIFICATION RedactionSpec
CONSTANTS
 ScrubInputs <- MCScrubInputs
 MAX_ATTRIBUTE_DEPTH = 2
 CaptureBytes = 14
CHECK_DEADLOCK FALSE
INVARIANT SourceLinesKept
