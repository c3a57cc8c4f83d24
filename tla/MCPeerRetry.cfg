SPECIFICATION Spec
CONSTANTS IsServer = FALSE
          OptionSet <- MCClientOptions
          Hellos <- MCServerHellos
CHECK_DEADLOCK FALSE
INVARIANT RetryChangesShare
