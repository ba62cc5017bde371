SPECIFICATION IpcFairSpec
CONSTANTS
    plain = plain
    hook1 = hook1
    hook2 = hook2
    release = release
    command = command
    invalid = invalid
    hci1 = hci1
    hci2 = hci2
    acl1 = acl1
    None = None
    Request <- MCRequest
    KindOf <- MCKindOf
    SendsOverReply = FALSE
INVARIANTS
    IpcTypeOK
    Accounted
    AckMatchesReply
    

    
