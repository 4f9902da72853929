SPECIFICATION Spec
CONSTANTS
  Programs = {p1, p2}
  Fields <- MCFields
  Maps <- MCMaps
  MaxRetries = 1
  MaxOps = 2
  MaxLate = 1
SYMMETRY MCSymmetry
INVARIANTS
  TypeOK
  CreateOwns
  
