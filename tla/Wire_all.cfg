SPECIFICATION Spec
CONSTANTS
    Programs <- AllPrograms
    Proxies <- ProxyOrder
    Entries <- ProxyEntries
INVARIANTS StreamInStep DumpTellsFlows UpdatesTellChanges OnlyIncompleteRefused
           NothingMisread
PROPERTIES AnswersQuestions AskersAreTold
CHECK_DEADLOCK FALSE
