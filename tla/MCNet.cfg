CONSTANTS
    Servers = {1, 2}
    Addrs = {1, 2}
    Owner <- MCOwner
    Retry = 1
    RxSlots = 1
    MaxRestarts = 1
    MaxLost = 0
    Me = "me"
    Gw = "gw"
    Local = {"gw", "a", "b"}
    Remote = {"far"}
    Macs = {"m1", "m2"}
    ARP_CACHE_SIZE = 2
    Period = 1
    Bytes = {0, 1, 255}
    Lengths = {8, 9}
    SrcIp <- MCSrcIp
    DstIp <- MCDstIp
SPECIFICATION MCSpec
INVARIANTS
    AddressLeased
    CacheCurrent
    RightNextHop
    ChecksumVerifies
PROPERTIES
    AddressStable
    
