\* Three stations with buffers of two slots, up to four clients: the buffers
\* of all three stations are overrun.  The bounds stop the clients.
CONSTANTS
    LEN_QUEUE = 2
    TOTAL_NUMBER_OF_EVENTS = 3
    MaxClients = 4
    MaxGvt = 1
SPECIFICATION TandemSpec
INVARIANTS
    ServedInTurn
CHECK_DEADLOCK FALSE
