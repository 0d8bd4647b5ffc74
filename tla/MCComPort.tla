----------------------------- MODULE MCComPort -----------------------------
(***************************************************************************)
(* The settings under which TLC checks ComPort.  Each run gives the        *)
(* characters model values and small queues, and picks the DCB flags and   *)
(* the entry points whose interplay it is about.                           *)
(***************************************************************************)
EXTENDS ComPort

(* XON/XOFF in both directions, with immediate characters.                 *)
FlowFlags == {"fInX", "fOutX", "fBinary"}
FlowCalls == {"SNDCOM", "SNDIMM", "RECCOM", "FN3", "FN4"}

(* XON/XOFF from us, the CTS line from the peer; STACOM clears the errors  *)
(* that keep $RECCOM from its characters.                                  *)
LiveFlags == {"fInX", "fOutXCTSFlow", "fBinary"}
LiveCalls == {"SNDCOM", "RECCOM", "STACOM"}

(* Everything that touches the receive queue, with the lines held down for *)
(* flow control and every treatment of a received character.               *)
RxFlags == {"fNullStrip", "fPErrChar", "fDTRFlow"}
RxCalls == {"RECCOM", "STACOM", "FLUSHRX", "SETQUE", "SETCOM", "TRMCOM"}

(* Everything that touches the transmit queue, under the ETX/ACK protocol  *)
(* with marks every XONLim characters and a CTS timeout.                   *)
TxFlags == {"fOutX", "fEtxAck", "fBinary", "CTSTimeout"}
TxCalls == {"SNDCOM", "FLUSHTX", "SETBRK", "CLRBRK", "FN1", "FN2", "EVTGET", "TRMCOM"}

=============================================================================
