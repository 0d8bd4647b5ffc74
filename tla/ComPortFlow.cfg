SPECIFICATION Spec
CONSTANTS
  Data = {a}
  XONChar = xon
  XOFFChar = xoff
  EOFChar = eof
  NulChar = nul
  PEChar = pe
  EVTChar = evt
  NoChar = none
  PeerChars = {a, xon, xoff}
  QInSize = 3
  QOutSize = 1
  XONLim = 0
  XOFFLim = 1
  Flags <- FlowFlags
  Calls <- FlowCalls
  EvtMask = {}
  LineErrors = {}
  PeerObeys = TRUE
  PeerMovesLine = FALSE
INVARIANTS TypeOK TxArmed PeerRemembered FlowLossReported
