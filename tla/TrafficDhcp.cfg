\* DHCP messages with the header fields that dhcp.rs documents: 236 bytes.
SPECIFICATION Spec
CONSTANTS
    None = None
    DhcpHeader = 236
    MaxOptions = 3
    MaxRecords = 3
    Heads <- MCHeads
    OptionChoices <- MCOptionChoices
    RecordChoices <- MCRecordChoices
INVARIANTS
    DhcpNamesFound
CHECK_DEADLOCK FALSE
