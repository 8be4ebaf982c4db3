CONSTANTS
  Processes = {p1}
  Sessions = {s1, s2}
  Keys = {k1, k2}
  Capacity = 1
  MaxRequests = 2
  Answers <- MCAnswers
SPECIFICATION Spec
INVARIANTS TypeOK OutcomeIsTheUsers PerLifeStaysInService
 
SYMMETRY KeySymmetry
