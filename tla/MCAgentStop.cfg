SPECIFICATION Spec
CONSTANTS
  Ids = {i1}
  NoId = NoId
  Answers = {"Allow"}
  MaxAsk = 1
  MaxCancel = 1
PROPERTY StopFailsOnlyWhileRunning
