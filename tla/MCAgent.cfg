SPECIFICATION Spec
CONSTANTS
  Ids = {i1, i2}
  NoId = NoId
  Answers = {"Allow", "Never"}
  MaxAsk = 1
  MaxCancel = 1
SYMMETRY IdSymmetry
INVARIANTS
  TypeOK
  CallbackTargetAlive
  AnswersAreTheUsers
  GrantsFollowConsent
  NoForgottenRequest
PROPERTY
  ImplementsContract
