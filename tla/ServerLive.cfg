SPECIFICATION FairSpec
CONSTANTS
 Null = Null
 Concurrencies = {1}
 Conns = {c1, c2}
 Offered <- LongSendings
 MaxSent = 1
 Timeout = 0
PROPERTIES GoneConnectionsAreFreed StoppedServersEnd
CHECK_DEADLOCK FALSE
