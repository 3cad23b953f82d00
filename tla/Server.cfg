SPECIFICATION FairSpec
CONSTANTS
  MaxConnections = 3
  Sockets = {s1, s2}
  NoSocket = NoSocket
CHECK_DEADLOCK FALSE
INVARIANTS OneSubscription SessionNamesOpenSocket
PROPERTIES MessageIsHandled ShutdownEnds
