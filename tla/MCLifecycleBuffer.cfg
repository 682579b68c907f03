SPECIFICATION Spec
CONSTANTS
  g1 = g1
  g2 = g2
  g3 = g3
  d1 = d1
  d2 = d2
  Guids <- MCGuids
  Domains <- MCDomains
  DomainOf <- MCDomainOf
  MaxEvents = 3
  MaxParticipants = 2
  MaxTime = 2
INVARIANTS
  StatusAgrees
PROPERTIES
  TombstonesFirst
  ReconcileComplete
  KeepsPromise
