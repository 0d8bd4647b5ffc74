SPECIFICATION Spec
CONSTANTS
  Data = {a, b}
  XONChar = ack
  XOFFChar = etx
  EOFChar = eof
  NulChar = nul
  PEChar = pe
  EVTChar = evt
  NoChar = none
  PeerChars = {ack, etx}
  QInSize = 1
  QOutSize = 2
  XONLim = 2
  XOFFLim = 0
  Flags <- TxFlags
  Calls <- TxCalls
  EvtMask = {"TxEmpty"}
  LineErrors = {}
  PeerObeys = TRUE
  PeerMovesLine = FALSE
PROPERTIES TxIsQueue
