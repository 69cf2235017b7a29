SPECIFICATION Spec
CONSTANTS
    Peers = {p1, p2}
    MaxNews = 2
INVARIANTS TypeOK NoLostWakeup TableCurrent
PROPERTIES ListedTaken SearchEnds
