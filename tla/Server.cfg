SPECIFICATION Spec
CONSTANTS
 Null = Null
 Concurrencies = {1, 3}
 Conns = {c1, c2}
 Offered <- Sendings
 MaxSent = 1
 Timeout = 1
INVARIANTS TypeOK QueueCountsConnections NoneLivesForItsDeadline AnswersFitRequests
SYMMETRY ConnsAreAlike
CHECK_DEADLOCK FALSE
