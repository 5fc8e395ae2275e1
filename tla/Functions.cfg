\* Every request and echo over two values, one level of nesting; seven devices of which any
\* may be configured; texts of four lines with up to two tabs; three lines of log in any year.
CONSTANTS
    Fields = {"command", "id", "urn", "object", "pretty", "state"}
    Names = {"500003", "500004", "GetValue", "SetValue", "true"}
    Nesting = 2
    Requests <- SomeRequests
    Echoes <- SomeEchoes
    Display <- DisplayNames
    Typed <- TypedAddresses
    Universe <- KnownDevices
    CommandLines <- TargetOptions
    Snapshots <- OldAddresses
    Patches <- NewAddresses
    Year = 6
    Day = 2
    FailureWindow = 1
    Labels = {"SIP daemon restarted", "SIP operation failed"}
    MaxDepth = 2
    MaxLines = 4
    MaxLog = 3
SPECIFICATION QuestionSpec
INVARIANTS
    AgreesWithPaths
    PasswordsStayHome NoGatewayIsGuessed LogsOfTheChosenDevice
    DetectionOfOneMind BlobSections OnlyAskedSettingsChange GatewaySummary
\* a question is answered
CHECK_DEADLOCK FALSE
