\* Every prompt of a few events, with signals, errors and panics anywhere.
SPECIFICATION Spec
CONSTANTS
  Keys <- MCKeys
  Pastes <- MCPastes
  MaxSecretBytes = 3
  MaxEvents = 4
  MaxQueued = 1
INVARIANTS
  AcceptedIsEntered
  TerminalRestored
\* The prompt ends.
CHECK_DEADLOCK FALSE
