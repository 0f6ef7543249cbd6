\* --mode match and then --mode upload.
CONSTANTS
    Scripts <- MCPair
    Commands <- MCStages
    RunIds <- MCRunIds
SPECIFICATION Spec
INVARIANT UploadModeUploads
CHECK_DEADLOCK FALSE
