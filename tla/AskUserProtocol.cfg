SPECIFICATION Spec
CONSTANTS
  Users = {1}
  Conns = {c1, c2}
  Ids = {r1, r2}
  Oversized = {}
  AckSized = {r1}
  DismissSized = {r2}
  MaxAdd = 3
  MaxErrors = 1
  Clickable = {"Allow", "Deny"}
INVARIANTS
  NoStall
  PopupIsCurrent
  
  AtRequestBoundary
