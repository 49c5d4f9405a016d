\* Two handshake nonces over two TTLs; a window of two or three packets.
SPECIFICATION ReplaySpec
CONSTANTS
    Nonces = {n1, n2}
    TTL = 5
    MaxTime = 11
    DataNonces = {p1, p2, p3, p4}
    MaxSeen = 2
    MaxOpened = 5
INVARIANTS
    RememberedForHalf
    RefusedOnlyRecent
    RecentRefused
    NothingElseRefused
    AntiReplayInv
