SPECIFICATION Spec
CONSTANTS IsServer = FALSE
          OptionSet <- MCClientOptions
          Hellos <- MCServerHellos
CHECK_DEADLOCK FALSE
INVARIANTS ServerAuthenticated KeysProtected NothingHeldBack
PROPERTY NeverGoesBack
