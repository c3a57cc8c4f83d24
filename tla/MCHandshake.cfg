SPECIFICATION Spec
CONSTANT Settings <- MCSettings
INVARIANTS TypeOK NoDesync OnlyAcceptable Agreement
PROPERTIES FailureReachesBoth Completes
