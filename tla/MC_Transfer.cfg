SPECIFICATION TransferSpec
CONSTANTS
    None = None
    Torn = Torn
    Absent = Absent
    Jobs <- MCJobs
    Details <- MCDetails
    Arguments <- MCArguments
    Formats = {"safetensors", "awq", "gguf"}
    MaxRuns = 1
    MaxCommands = 4
    MaxShard = 4
    MaxPorts = 2
CHECK_DEADLOCK FALSE
INVARIANTS MetadataDescribesReport CandidatesImprove ComparisonSupportsVerdict ResultsFitTarget
PROPERTIES SkippedPairsAreReported ImplementsAdapterFiles
