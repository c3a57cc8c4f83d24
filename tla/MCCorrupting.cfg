SPECIFICATION CSpec
CONSTANTS Settings <- MCSettings
          MaxDamage = 2
INVARIANT NegotiationIntact
