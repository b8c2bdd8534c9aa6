SPECIFICATION Spec
CONSTANTS
    p1 = p1 p2 = p2
    Peer = {p1, p2} Fast = {p2} Downloader = {p1} Incoming = {p2} NoPeer = NoPeer
    BlocksInPiece <- TwoAndOne Bitfield <- FirstHasAll Later <- Nothing AllowedFast = {1} OnDisk = {{}}
    MaxUploaders = 1 MaxDownloaders = 1 MaxQueueLen = 2 MaxRecv = 1 MaxInvalid = 0
    MetadataLen = 1 Faults = 1
INVARIANTS CountsExact ReservedIsRequested HaveIsGood 
CHECK_DEADLOCK FALSE
