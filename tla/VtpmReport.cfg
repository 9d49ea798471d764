CONSTANTS
    c1 = c1
    c2 = c2
    none = none
    a = a
    b = b
    blank = blank
    Callers = {c1, c2}
    NoCaller = none
    Cells = {a, b, blank}
    BlankCell = blank
    Data <- MCData
    MaxNvBuffer = 2
    Chunks = 2
    Delay = 2
    Latency = 1
    Slots = 2
    Batch = 1
    MaxCalls = 3
    MaxExtends = 1
SPECIFICATION Spec
CHECK_DEADLOCK FALSE
INVARIANTS
    VtpmTypeOK
    ReportIsMine
    PlainReportWhole
    QuoteVerifies
PROPERTY
    CallsReturn
