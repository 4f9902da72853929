SPECIFICATION Spec
CONSTANTS
  Clients = {c1, c2}
  Profiles = {default, work}
  Accounts = {a1, a2}
  Tokens = {t1, t2}
  MaxOpens = 2
  MaxUpdates = 3
SYMMETRY MCSymmetry
INVARIANTS
  TypeOK
  TokensBelong
  LoginsSurvive
PROPERTIES
  DamageStays
