SPECIFICATION FairSpec
CONSTANTS
  Data = {a}
  XONChar = xon
  XOFFChar = xoff
  EOFChar = eof
  NulChar = nul
  PEChar = pe
  EVTChar = evt
  NoChar = none
  PeerChars = {a}
  QInSize = 1
  QOutSize = 1
  XONLim = 0
  XOFFLim = 0
  Flags <- LiveFlags
  Calls <- LiveCalls
  EvtMask = {}
  LineErrors = {}
  PeerObeys = TRUE
  PeerMovesLine = TRUE
INVARIANTS TxArmed
PROPERTIES QueueDrains PeerReleased
