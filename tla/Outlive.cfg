SPECIFICATION Spec
CONSTANTS
    Parallel = 1
    Reverse = {FALSE}
    Omit = {FALSE}
    MayStop = TRUE
INVARIANT NoWorkerOutlivesTest
