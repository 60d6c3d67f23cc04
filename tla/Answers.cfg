SPECIFICATION Spec
CONSTANTS
  Urls = {"u1"}
  MaxUser = 1
  MaxItems = 2
  MaxChanges = 1
  MaxPauses = 1
  MaxKills = 1
  MaxOutages = 1
  Anchors <- TwoAnchors
  Adapters = {"generic"}
  Site = "other"
  MaxClicks = 2
  MaxMoves = 2
  Links = {"u1", "u2"}
  MediaLinks = {"u2"}
  MaxEdits = 2
  MaxOpens = 1
  MaxSends = 2
\* Nobody has to download, point at anything or use the application.
CHECK_DEADLOCK FALSE
INVARIANTS TypesOK HandedOverOnce AnswersFit
PROPERTIES WaitsEnd
