SPECIFICATION Spec
CONSTANTS
  k1 = k1 k2 = k2 party = party o1 = o1 o2 = o2
  Signers <- MCFewSigners
  PartyKeys <- MCPartyKeys
  Outpoints <- MCOutpoints
  SpentOffchain = {}
  Tasks = {t1}
  Calls = {"connect", "prepare"}
  None = None
CHECK_DEADLOCK FALSE
PROPERTIES RefreshOutputActive
