SPECIFICATION IngestSpec
CONSTANTS
    failed = failed
    fixable = fixable
    authorised = authorised
    anonymous = anonymous
    Webhooks <- AllWebhooks
    Kind <- Kind4
    Bodies <- Bodies4
    Identified <- Identified4
    MaxDeliveries = 2
    MaxRestarts = 2
    RowsSeen <- MCRows
    MaxRows = 3
    Currency = "INR"
INVARIANTS
    AcceptedOnce
    NothingSwallowed
    EveryRowAccounted
    EventsMatchRows
CHECK_DEADLOCK FALSE
