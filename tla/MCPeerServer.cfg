SPECIFICATION Spec
CONSTANTS IsServer = TRUE
          OptionSet <- MCServerOptions
          Hellos <- MCClientHellos
CHECK_DEADLOCK FALSE
INVARIANTS TypeOK ClientAuthenticated KeysProtected NothingHeldBack
PROPERTY NeverGoesBack
