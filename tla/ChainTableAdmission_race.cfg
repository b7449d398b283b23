CONSTANTS
    a = a  b = b  c = c  d = d  e = e  f = f  g = g
    r1 = r1  r2 = r2  r3 = r3  r4 = r4  r5 = r5
    Requests <- MCRequests
    Type <- MCType
    OldNode <- MCOldNode
    NewNode <- MCNewNode
    DebugLabelled = {}
    BackupNodes <- MCBackupNodes
    FaultNodes <- MCFaultNodes
    InitStorage <- MCInitStorage
    Replica = 3
    TargetPaths = 2
    TargetPerDisk = 1
    StripeSize = 2
    ConcurrentClients = FALSE
SPECIFICATION Spec
INVARIANT AtMostOneInFlight
