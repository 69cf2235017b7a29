SPECIFICATION Spec
CONSTANT MaxSignals = 2
INVARIANT AlwaysAWayOn
PROPERTIES ConnectStartsAlone DisconnectWorks
