SPECIFICATION FairSpec
CONSTANTS
  Users = {1}
  Conns = {c1, c2}
  Ids = {r1, r2}
  Oversized = {r2}
  AckSized = {}
  DismissSized = {}
  MaxAdd = 2
  MaxErrors = 1
  Clickable = {"Allow", "Deny"}
PROPERTIES
  RequestsAreAnswered
