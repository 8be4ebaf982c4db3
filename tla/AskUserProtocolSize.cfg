SPECIFICATION Spec
CONSTANTS
  Users = {1}
  Conns = {c1, c2}
  Ids = {r1, r2}
  Oversized = {}
  AckSized = {r2}
  DismissSized = {}
  MaxAdd = 2
  MaxErrors = 0
  Clickable = {"Allow"}
INVARIANTS
  SettingsWereTaken
