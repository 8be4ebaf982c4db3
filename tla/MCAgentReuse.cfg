SPECIFICATION Spec
CONSTANTS
  Ids = {i1}
  NoId = NoId
  Answers = {"Allow", "Deny"}
  MaxAsk = 3
  MaxCancel = 1
INVARIANTS
  OneResponsePerRequest
  Registry

  
