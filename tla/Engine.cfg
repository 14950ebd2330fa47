SPECIFICATION FairSpec
CONSTANTS
    Parallel = 2
    Reverse = {TRUE, FALSE}
    Omit = {TRUE, FALSE}
    MayStop = TRUE
INVARIANT TypeOK
INVARIANT OnlyStoppedSendersOutlive
INVARIANT SendersQuietAfterEnd
INVARIANT OmitOnce
INVARIANT SummaryOnce
INVARIANT SocketsClosed
PROPERTY EngineReturns
PROPERTY ImplementsPhases
