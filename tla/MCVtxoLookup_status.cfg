SPECIFICATION Spec
CONSTANTS
  k1 = k1 k2 = k2 party = party o1 = o1 o2 = o2
  Signers = {k1}
  PartyKeys <- MCPartyKeys
  Outpoints <- MCOutpoints
  SpentOffchain = {o1}
  Tasks = {t1, t2}
  Calls = {"connect", "status", "prepare"}
  None = None
CHECK_DEADLOCK FALSE
INVARIANTS StatusIsASnapshot
