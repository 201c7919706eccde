SPECIFICATION Spec
CONSTANTS
  c1 = c1
  c2 = c2
  c3 = c3
  c4 = c4
  None = None
  Conns <- const_Conns
  MaxClients = 3
INVARIANTS TypeOK CountIsExact CountNeverHigh SlotsAreOwned
PROPERTIES SlotFreedByOwner
SYMMETRY const_Symmetry
\* a slot that clients_close finds emptied stops the program
CHECK_DEADLOCK FALSE
