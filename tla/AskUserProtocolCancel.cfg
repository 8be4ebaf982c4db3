SPECIFICATION Spec
CONSTANTS
  Users = {1, 2}
  Conns = {c1, c2, c3}
  Ids = {r1, r2}
  Oversized = {}
  AckSized = {}
  DismissSized = {}
  MaxAdd = 2
  MaxErrors = 0
  Clickable = {"Allow"}
PROPERTIES
  CancelRemoves
