SPECIFICATION PartsSpec
CONSTANTS
    Tasks = {t1, t2, t3}
    MaxDrops = 2
    Texts <- JsonTexts
    MaxMessages = 2
    MaxDropped = 1
    MaxBackoffs = {1, 3, 8}
    Horizon = 9
    Names = {n1, n2, n3}
    OfPorts = {1, 2, 3}
INVARIANTS PartsTypeOK GuardHoldsClient MapsAgree
PROPERTIES EveryTaskServed MessagesInOrder MessagesReturned AttemptsSpaced KeepsTrying
CHECK_DEADLOCK FALSE
