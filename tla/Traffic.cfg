\* DHCP messages with the fixed part parse_dhcp and its tests assume.
SPECIFICATION Spec
CONSTANTS
    None = None
    DhcpHeader = 240
    MaxOptions = 4
    MaxRecords = 4
    Heads <- MCHeads
    OptionChoices <- MCOptionChoices
    RecordChoices <- MCRecordChoices
INVARIANTS
    ServicesRecognised
    DhcpNamesFound
    MdnsNamesFound
CHECK_DEADLOCK FALSE
