SPECIFICATION Spec
CONSTANTS
  Data = {a}
  XONChar = xon
  XOFFChar = xoff
  EOFChar = eof
  NulChar = nul
  PEChar = b
  EVTChar = b
  NoChar = none
  PeerChars = {a, b, nul, eof}
  QInSize = 2
  QOutSize = 1
  XONLim = 1
  XOFFLim = 0
  Flags <- RxFlags
  Calls <- RxCalls
  EvtMask = {}
  LineErrors = {"PE", "OR"}
  PeerObeys = TRUE
  PeerMovesLine = FALSE
INVARIANTS PeerRemembered
PROPERTIES RxIsQueue
