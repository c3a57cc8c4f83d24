SPECIFICATION FairSpec
CONSTANTS
    W = 2
    Saturation = 2
    QueueLimit = 2
    MaxSeq = 2
    MaxEpoch = 2
    RecordType <- MCRecordType
    Datagrams <- MCDatagrams
    NULL = NULL
PROPERTY PermanentError
CHECK_DEADLOCK FALSE
