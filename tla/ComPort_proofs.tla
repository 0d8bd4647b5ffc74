--------------------------- MODULE ComPort_proofs ---------------------------
(***************************************************************************)
(* Proofs about one serial port (ComPort), for queues of any size, any     *)
(* characters and any settings of the DCB; at the end, that its two rings  *)
(* are queues: every step of the driver, the interrupt and the line leaves *)
(* the contents of a ring as they are or is a step of ByteQueue on them,   *)
(* wherever the interrupt cuts an entry point in two.                      *)
(***************************************************************************)
EXTENDS ComPort, SequenceTheorems, TLAPS

USE QueueAssumption, CharAssumption, SettingsAssumption

-----------------------------------------------------------------------------
(* Lemmas about the operators the actions are built from.                  *)

\* Arming the transmitter keeps the registers well formed.
LEMMA KickType == \A u \in Uart : Kick(u) \in Uart
  BY DEF Kick, Uart

LEMMA WordType == WordSize \in Nat /\ WordSize > 1
  BY DEF WordSize

\* An index that is advanced stays in its ring.
LEMMA WrapType == \A n \in Nat \ {0} : \A i \in 0 .. n - 1 : Wrap(i, n) \in 0 .. n - 1
  BY DEF Wrap

\* A character put into a ring that has room leaves a ring.
LEMMA PutType ==
  ASSUME NEW q \in RxRing, NEW c \in Char, q.count < QInSize
  PROVE  Put(q, c, QInSize) \in RxRing
  <1>1. Wrap(q.put, QInSize) \in 0 .. QInSize - 1
    BY WrapType DEF RxRing
  <1>2. [q.buf EXCEPT ![q.put] = c] \in [0 .. QInSize - 1 -> Char]
    BY DEF RxRing
  <1>3. q.count + 1 \in 0 .. QInSize
    BY DEF RxRing
  <1> QED
    BY <1>1, <1>2, <1>3 DEF Put, RxRing

\* An emptied ring is a ring.
LEMMA EmptiedType ==
  /\ \A q \in RxRing : Emptied(q) \in RxRing
  /\ \A q \in TxRing : Emptied(q) \in TxRing
  <1>1. 0 \in 0 .. QInSize - 1 /\ 0 \in 0 .. QInSize
    OBVIOUS
  <1>2. 0 \in 0 .. QOutSize - 1 /\ 0 \in 0 .. QOutSize
    OBVIOUS
  <1>3. ASSUME NEW q \in RxRing
        PROVE  Emptied(q) \in RxRing
    BY <1>1 DEF Emptied, RxRing
  <1>4. ASSUME NEW q \in TxRing
        PROVE  Emptied(q) \in TxRing
    BY <1>2 DEF Emptied, TxRing
  <1> QED
    BY <1>3, <1>4

----------------------------------------------------------------------------
(* Type correctness.  TypeOK is not inductive: $RECCOM subtracts from a    *)
(* count it tested a step before, and $SNDCOM adds to one.                 *)

TInv ==
  /\ TypeOK
  /\ pc = "rec_dec" => rx.count > 0
  /\ pc = "snd_queue" => tx.count < QOutSize

\* A port just opened has the types and the two facts.
LEMMA TInvInit == Init => TInv
  <1> SUFFICES ASSUME Init PROVE TInv
    OBVIOUS
  <1>1. rx \in RxRing /\ tx \in TxRing
    <2>1. NulChar \in Char
      BY DEF Char
    <2> QED
      BY <2>1, WordType DEF Init, RxRing, TxRing
  <1>2. uart \in Uart /\ MSRShadow \in BOOLEAN
    BY DEF Init, Uart
  <1> QED
    BY <1>1, <1>2 DEF Init, TInv, TypeOK, Pcs

\* The line and the peer keep the types.
LEMMA TInvLine == TInv /\ Line => TInv'
  <1> SUFFICES ASSUME TInv, Line PROVE TInv'
    OBVIOUS
  <1> USE DEF TInv, TypeOK, debVars, cpuVars, peerVars
  <1>1. CASE TsrLoad
    BY <1>1 DEF TsrLoad, Uart
  <1>2. CASE TsrDone
    BY <1>2 DEF TsrDone, Uart
  <1>3. CASE \E c \in PeerChars, e \in SUBSET LineErrors : PeerSend(c, e)
    <2> PICK c \in PeerChars, e \in SUBSET LineErrors : PeerSend(c, e)
      BY <1>3
    <2>1. c \in Char /\ uart.err \cup e \subseteq {"OR", "PE", "BI"}
      BY DEF Uart, Char
    <2>2. uart' \in Uart
      BY <2>1 DEF PeerSend, Uart
    <2>3. peerStop' \in BOOLEAN
      BY DEF PeerSend
    <2> QED
      BY <2>2, <2>3 DEF PeerSend
  <1>4. CASE PeerLine
    <2>1. uart' \in Uart
      BY <1>4 DEF PeerLine, Uart
    <2> QED
      BY <1>4, <2>1 DEF PeerLine
  <1> QED
    BY <1>1, <1>2, <1>3, <1>4 DEF Line

\* The receive passes of the interrupt keep the types.
LEMMA TInvReceive ==
  ASSUME TInv,
         LineStat \/ ModemStatus \/ RxOverflow \/ RxStrip \/ RxEOF \/ RxXOff
           \/ RxXOn \/ RxDiscard \/ RxQueue
  PROVE  TInv'
  <1> USE DEF TInv, TypeOK, debVars, cpuVars, peerVars, Flagged, EventNames
  <1>r. [uart EXCEPT !.rbr = NoChar] \in Uart
    BY DEF Uart
  <1>a. ASSUME NEW f, AfterRead(f), f \in BOOLEAN
        PROVE  uart' \in Uart /\ ForcedInt' \in BOOLEAN
    BY <1>a, <1>r, KickType DEF AfterRead
  <1>d. ASSUME NEW k, NEW ev, NEW er, DataAvail(k, ev, er),
               ev \subseteq EventNames, er \subseteq ErrorNames
        PROVE  /\ LSRShadow' \subseteq {"OR", "PE", "BI"}
               /\ ComErr' \subseteq ErrorNames
               /\ EvtWord' \subseteq EventNames
               /\ UNCHANGED <<tx, ImmedChar, MSRShadow, cpuVars, peerVars>>
    BY <1>d DEF DataAvail, ErrorNames
  <1>h. HSNames = {"XOffPending", "XOnPending", "XOffReceived", "HHSDown", "XOffSent",
                   "HHSDropped", "BreakSet", "Discard"}
    BY DEF HSNames, CannotXmit, HSPending, HSReceived, HSSent
  <1>1. CASE LineStat
    BY <1>1 DEF LineStat, Uart
  <1>2. CASE ModemStatus
    <2>1. [uart EXCEPT !.dcts = FALSE] \in Uart
      BY DEF Uart
    <2>2. uart' \in Uart
      BY <1>2, <2>1, KickType DEF ModemStatus
    <2>3. HSFlag' \subseteq HSNames /\ ForcedInt' \in BOOLEAN /\ MSRShadow' \in BOOLEAN
      BY <1>2, <1>h DEF ModemStatus, OutHHSLines, Uart
    <2> QED
      BY <1>2, <2>2, <2>3 DEF ModemStatus
  <1>3. CASE RxOverflow
    BY <1>3, <1>a, <1>d DEF RxOverflow, ErrorNames
  <1>4. CASE RxStrip
    BY <1>4, <1>a, <1>d DEF RxStrip
  <1>5. CASE RxEOF
    BY <1>5, <1>a, <1>d DEF RxEOF
  <1>6. CASE RxXOff
    BY <1>6, <1>a, <1>d, <1>h DEF RxXOff
  <1>7. CASE RxXOn
    BY <1>7, <1>a, <1>d DEF RxXOn
  <1>8. CASE RxDiscard
    BY <1>8, <1>a, <1>d DEF RxDiscard
  <1>9. CASE RxQueue
    <2>1. uart.rbr # NoChar /\ RxKind = "queue"
      BY <1>9 DEF RxQueue, DataAvail, IIR, DataInt
    <2>2. rx.count < QInSize
      BY <2>1 DEF RxKind, RxRing
    <2>3. RxChar \in Char
      BY <2>1 DEF RxChar, Uart, Char
    <2>4. rx' \in RxRing
      BY <1>9, <2>2, <2>3, PutType DEF RxQueue
    <2>5. rx'.count = rx.count + 1
      BY <1>9 DEF RxQueue, Put, RxRing
    <2>6. uart' \in Uart /\ ForcedInt' \in BOOLEAN
      <3>1. \A d \in BOOLEAN : [uart EXCEPT !.rbr = NoChar, !.mcr = uart.mcr /\ ~d] \in Uart
        BY DEF Uart
      <3> QED
        BY <1>9, <3>1, KickType DEF RxQueue
    <2>7. HSFlag' \subseteq HSNames
      BY <1>9, <1>h DEF RxQueue
    <2>8. /\ LSRShadow' \subseteq {"OR", "PE", "BI"}
          /\ ComErr' \subseteq ErrorNames
          /\ EvtWord' \subseteq EventNames
          /\ UNCHANGED <<tx, ImmedChar, MSRShadow, EOFSeen, cpuVars, peerVars>>
      BY <1>9, <1>d DEF RxQueue
    <2>9. rx.count > 0 => rx'.count > 0
      BY <2>5 DEF RxRing
    <2> QED
      BY <2>4, <2>6, <2>7, <2>8, <2>9
  <1> QED
    BY <1>1, <1>2, <1>3, <1>4, <1>5, <1>6, <1>7, <1>8, <1>9

\* The transmit passes of the interrupt keep the types.
LEMMA TInvTransmit ==
  ASSUME TInv,
         XmitBusy \/ XmitFlow \/ XmitStop \/ XmitImmed \/ XmitDone \/ XmitMark
           \/ XmitQueue
  PROVE  TInv'
  <1> USE DEF TInv, TypeOK, debVars, cpuVars, peerVars, Flagged, EventNames
  <1>r. XmitRegs \in Uart
    BY DEF XmitRegs, Uart
  <1>s. ASSUME NEW c \in Char, Send(c)
        PROVE  uart' \in Uart
    BY <1>s, <1>r DEF Send, Uart
  <1>d. ASSUME Disarm
        PROVE  uart' \in Uart
    BY <1>d, <1>r DEF Disarm, Uart
  <1>x. ASSUME NEW r, XmitEmpty(r)
        PROVE  /\ ForcedInt' \in BOOLEAN
               /\ UNCHANGED <<rx, EOFSeen, ComErr, MSRShadow, LSRShadow, cpuVars, peerVars>>
    BY <1>x DEF XmitEmpty
  <1>h. HSNames = {"XOffPending", "XOnPending", "XOffReceived", "HHSDown", "XOffSent",
                   "HHSDropped", "BreakSet", "Discard"}
    BY DEF HSNames, CannotXmit, HSPending, HSReceived, HSSent
  <1>1. CASE XmitBusy
    <2>1. uart' \in Uart
      BY <1>1, <1>r DEF XmitBusy, Uart
    <2> QED
      BY <1>1, <1>x, <2>1 DEF XmitBusy
  <1>2. CASE XmitFlow
    <2>1. uart' \in Uart
      BY <1>2, <1>s DEF XmitFlow, Char
    <2>2. HSFlag' \subseteq HSNames
      BY <1>2, <1>h DEF XmitFlow
    <2> QED
      BY <1>2, <1>x, <2>1, <2>2 DEF XmitFlow
  <1>3. CASE XmitStop
    BY <1>3, <1>x, <1>d DEF XmitStop
  <1>4. CASE XmitImmed
    <2>1. uart' \in Uart
      BY <1>4, <1>s DEF XmitImmed, Char
    <2> QED
      BY <1>4, <1>x, <2>1 DEF XmitImmed
  <1>5. CASE XmitDone
    BY <1>5, <1>x, <1>d DEF XmitDone
  <1>6. CASE XmitMark
    <2>1. uart' \in Uart
      BY <1>6, <1>s DEF XmitMark, Char
    <2>2. HSFlag' \subseteq HSNames
      BY <1>6, <1>h DEF XmitMark
    <2>3. tx' \in TxRing /\ tx'.count = tx.count
      BY <1>6, WordType DEF XmitMark, TxRing
    <2> QED
      BY <1>6, <1>x, <2>1, <2>2, <2>3 DEF XmitMark
  <1>7. CASE XmitQueue
    <2>1. tx.buf[tx.get] \in Data \cup {NulChar}
      BY DEF TxRing
    <2>2. uart' \in Uart
      BY <1>7, <1>s, <2>1 DEF XmitQueue, Char
    <2>3. NextMod \in 0 .. WordSize - 1
      BY WordType DEF NextMod, TxRing
    <2>4. Wrap(tx.get, QOutSize) \in 0 .. QOutSize - 1
      BY WrapType DEF TxRing
    <2>5. tx.count - 1 \in 0 .. QOutSize
      BY <1>7 DEF XmitQueue, TxRing
    <2>6. tx' \in TxRing /\ tx'.count = tx.count - 1
      BY <1>7, <2>3, <2>4, <2>5 DEF XmitQueue, TxRing
    <2>7. tx.count < QOutSize => tx'.count < QOutSize
      BY <2>6 DEF TxRing
    <2> QED
      BY <1>7, <1>x, <2>2, <2>6, <2>7 DEF XmitQueue
  <1> QED
    BY <1>1, <1>2, <1>3, <1>4, <1>5, <1>6, <1>7

\* The entry points that send keep the types.
LEMMA TInvSend ==
  ASSUME TInv,
         SndTimeout \/ SndFull \/ (\E c \in Data : SndStore(c) \/ SndImm(c))
           \/ SndQueue \/ SndForce \/ SndCall
  PROVE  TInv'
  <1> USE DEF TInv, TypeOK, debVars, cpuVars, peerVars, Call, At, GoTo
  <1>1. CASE SndTimeout
    BY <1>1 DEF SndTimeout, ErrorNames
  <1>2. CASE SndFull
    BY <1>2 DEF SndFull, ErrorNames
  <1>3. ASSUME NEW c \in Data, SndStore(c)
        PROVE  TInv'
    <2>1. [tx.buf EXCEPT ![tx.put] = c] \in [0 .. QOutSize - 1 -> Data \cup {NulChar}]
      BY DEF TxRing
    <2>2. tx' \in TxRing /\ tx'.count < QOutSize
      BY <1>3, <2>1 DEF SndStore, TxRing
    <2> QED
      BY <1>3, <2>2 DEF SndStore, Pcs
  <1>4. ASSUME NEW c \in Data, SndImm(c)
        PROVE  TInv'
    BY <1>4, KickType DEF SndImm
  <1>5. CASE SndQueue
    <2>1. Wrap(tx.put, QOutSize) \in 0 .. QOutSize - 1 /\ tx.count + 1 \in 0 .. QOutSize
      BY <1>5, WrapType DEF SndQueue, TxRing
    <2>2. tx' \in TxRing
      BY <1>5, <2>1 DEF SndQueue, TxRing
    <2>3. uart' \in Uart
      BY <1>5, KickType DEF SndQueue
    <2> QED
      BY <1>5, <2>2, <2>3 DEF SndQueue, Pcs
  <1>6. CASE SndForce
    BY <1>6 DEF SndForce, Pcs
  <1>7. CASE SndCall
    BY <1>7 DEF SndCall, Pcs
  <1> QED
    BY <1>1, <1>2, <1>3, <1>4, <1>5, <1>6, <1>7

\* The entry points that receive, flush and close keep the types.
LEMMA TInvReceiveCalls ==
  ASSUME TInv,
         RecCall \/ RecTest \/ RecLines \/ RecErr \/ RecGet \/ RecDec \/ FlushRx
           \/ FlushTx \/ SetQue \/ TrmCom \/ TrmWait \/ TrmDrain \/ IniCom \/ IniDone
  PROVE  TInv'
  <1> USE DEF TInv, TypeOK, debVars, cpuVars, peerVars, Call, At, GoTo
  <1>h. HSNames = {"XOffPending", "XOnPending", "XOffReceived", "HHSDown", "XOffSent",
                   "HHSDropped", "BreakSet", "Discard"}
    BY DEF HSNames, CannotXmit, HSPending, HSReceived, HSSent
  <1>p. Programmed(uart) \in Uart
    BY DEF Programmed, Uart
  <1>e. Emptied(rx) \in RxRing /\ Emptied(tx) \in TxRing
    BY EmptiedType
  <1>1. CASE RecCall
    BY <1>1 DEF RecCall, Pcs
  <1>2. CASE RecTest
    BY <1>2 DEF RecTest, Pcs
  <1>3. CASE RecLines
    <2>1. HSFlag' \subseteq HSNames
      BY <1>3, <1>h DEF RecLines
    <2>2. [uart EXCEPT !.mcr = uart.mcr \/ HHSLines] \in Uart
      BY DEF Uart, HHSLines
    <2>3. uart' \in Uart
      BY <1>3, <2>2, KickType DEF RecLines
    <2> QED
      BY <1>3, <2>1, <2>3 DEF RecLines, Pcs
  <1>4. CASE RecErr
    BY <1>4 DEF RecErr, RecReturn, Pcs
  <1>5. CASE RecGet
    <2>1. Wrap(rx.get, QInSize) \in 0 .. QInSize - 1
      BY WrapType DEF RxRing
    <2>2. rx' \in RxRing /\ rx'.count = rx.count
      BY <1>5, <2>1 DEF RecGet, RxRing
    <2>3. pc' \in Pcs /\ pc' # "snd_queue" /\ (pc' = "rec_dec" => rx.count # 0)
      BY <1>5 DEF RecGet, RecReturn, Pcs
    <2> QED
      BY <1>5, <2>2, <2>3 DEF RecGet, RxRing
  <1>6. CASE RecDec
    <2>1. rx' \in RxRing
      BY <1>6 DEF RecDec, RxRing
    <2> QED
      BY <1>6, <2>1 DEF RecDec, RecReturn, Pcs
  <1>7. CASE FlushRx
    BY <1>7, <1>e DEF FlushRx, Pcs
  <1>8. CASE FlushTx
    BY <1>8, <1>e DEF FlushTx
  <1>9. CASE SetQue
    BY <1>9, <1>e DEF SetQue
  <1>10. CASE TrmCom
    <2>1. rx' \in RxRing
      BY <1>10 DEF TrmCom, RxRing
    <2>2. HSFlag' \subseteq HSNames
      BY <1>10, <1>h DEF TrmCom
    <2> QED
      BY <1>10, <2>1, <2>2 DEF TrmCom, Pcs
  <1>11. CASE TrmWait
    <2>1. uart' \in Uart
      BY <1>11 DEF TrmWait, Uart
    <2> QED
      BY <1>11, <2>1 DEF TrmWait, Pcs
  <1>12. CASE TrmDrain
    BY <1>12 DEF TrmDrain, Pcs
  <1>13. CASE IniCom
    <2>1. MSRShadow' \in BOOLEAN
      BY <1>13 DEF IniCom, Uart
    <2> QED
      BY <1>13, <1>e, <1>p, <2>1 DEF IniCom, Pcs
  <1>14. CASE IniDone
    BY <1>14 DEF IniDone, Pcs
  <1> QED
    BY <1>1, <1>2, <1>3, <1>4, <1>5, <1>6, <1>7, <1>8, <1>9, <1>10, <1>11, <1>12,
       <1>13, <1>14

\* The entry points that read or set a single word keep the types.
LEMMA TInvSettings ==
  ASSUME TInv,
         StaCom \/ EvtGet \/ SetBrk \/ ClrBrk \/ ExtCom_FN1 \/ ExtCom_FN2
           \/ ExtCom_FN3 \/ ExtCom_FN4 \/ SetCom
  PROVE  TInv'
  <1> USE DEF TInv, TypeOK, debVars, cpuVars, peerVars, Call
  <1>h. HSNames = {"XOffPending", "XOnPending", "XOffReceived", "HHSDown", "XOffSent",
                   "HHSDropped", "BreakSet", "Discard"}
    BY DEF HSNames, CannotXmit, HSPending, HSReceived, HSSent
  <1>f. ASSUME NEW n, NEW f \in SUBSET HSNames, NEW k \in BOOLEAN, SetFlags(n, f, k)
        PROVE  TInv'
    BY <1>f, KickType DEF SetFlags
  <1>l. ASSUME NEW n, NEW up \in BOOLEAN, SetLine(n, up)
        PROVE  TInv'
    <2>1. uart' \in Uart
      BY <1>l DEF SetLine, Uart
    <2> QED
      BY <1>l, <2>1 DEF SetLine
  <1>1. CASE StaCom
    BY <1>1 DEF StaCom
  <1>2. CASE EvtGet
    BY <1>2 DEF EvtGet
  <1>3. CASE SetBrk \/ ClrBrk \/ ExtCom_FN1 \/ ExtCom_FN2
    <2>1. /\ HSFlag \cup {"BreakSet"} \in SUBSET HSNames
          /\ HSFlag \ {"BreakSet"} \in SUBSET HSNames
          /\ HSFlag \cup {"XOffReceived"} \in SUBSET HSNames
          /\ HSFlag \ {"XOffReceived"} \in SUBSET HSNames
      BY <1>h
    <2> QED
      BY <1>3, <1>f, <2>1 DEF SetBrk, ClrBrk, ExtCom_FN1, ExtCom_FN2
  <1>4. CASE ExtCom_FN3 \/ ExtCom_FN4
    BY <1>4, <1>l DEF ExtCom_FN3, ExtCom_FN4
  <1>5. CASE SetCom
    <2>1. uart' \in Uart /\ MSRShadow' \in BOOLEAN
      BY <1>5 DEF SetCom, Programmed, Uart
    <2> QED
      BY <1>5, <2>1 DEF SetCom
  <1> QED
    BY <1>1, <1>2, <1>3, <1>4, <1>5

\* Every step keeps the types.
LEMMA TInvStep == TInv /\ [Next]_vars => TInv'
  <1> SUFFICES ASSUME TInv, [Next]_vars PROVE TInv'
    OBVIOUS
  <1>1. CASE Line
    BY <1>1, TInvLine
  <1>2. CASE CommInt \/ CommIntExit
    BY <1>2 DEF CommInt, CommIntExit, TInv, TypeOK, debVars, peerVars
  <1>3. CASE InterruptLoop
    BY <1>3, TInvReceive, TInvTransmit DEF InterruptLoop
  <1>4. CASE Application
    BY <1>4, TInvSend, TInvReceiveCalls, TInvSettings DEF Application, Continue
  <1>5. CASE UNCHANGED vars
    BY <1>5 DEF vars, debVars, cpuVars, peerVars, TInv, TypeOK
  <1> QED
    BY <1>1, <1>2, <1>3, <1>4, <1>5 DEF Next, Interrupt

\* TypeOK is an invariant of the port: in particular the counts and indexes of
\* both queues stay within them, whichever step the interrupt cuts in two.
THEOREM PortTypes == Spec => []TypeOK
  <1>1. Spec => []TInv
    BY TInvInit, TInvStep, PTL DEF Spec
  <1>2. TInv => TypeOK
    BY DEF TInv
  <1> QED
    BY <1>1, <1>2, PTL

-----------------------------------------------------------------------------
(* No wakeup of the transmitter is lost.                                   *)

\* The places in which the interrupts of the port are off.
Off == pc \in {"trm_drain", "closed"}

\* A character in THR will interrupt; while the port is off there are neither
\* interrupts nor, in the end, characters.
ThrInv ==
  /\ uart.thr # NoChar /\ ~Off => "tx" \in uart.ier
  /\ "tx" \in uart.ier /\ uart.thr = NoChar => uart.thrint
  /\ Off => uart.ier = {} /\ ~inISR
  /\ pc = "closed" => uart.thr = NoChar

\* Whatever can be sent, a forced pass included, finds the interrupt armed.
WorkInv ==
  /\ Open /\ Work => "tx" \in uart.ier
  /\ pc = "opening" => tx.count = 0 /\ (FlowTurn \/ ForcedInt => "tx" \in uart.ier)
  /\ ForcedInt => inISR \/ pc = "snd_call"
  /\ "HHSDropped" \notin HSFlag

AInv == TInv /\ ThrInv /\ WorkInv

\* KickTx leaves the interrupt armed, whatever it finds.
LEMMA KickArms ==
  ASSUME NEW u \in Uart, u.thr # NoChar => "tx" \in u.ier,
         "tx" \in u.ier /\ u.thr = NoChar => u.thrint
  PROVE  /\ "tx" \in Kick(u).ier /\ Kick(u).thr = u.thr
         /\ Kick(u).thr = NoChar => Kick(u).thrint
  BY DEF Kick, Uart

\* The two ways in which a step outside the transmit passes keeps AInv: it ends
\* with a KickTx ...
LEMMA Kicked ==
  ASSUME AInv, ~Off, ~Off',
         NEW u \in Uart, u.thr = uart.thr, u.ier = uart.ier, u.thrint = uart.thrint,
         uart' = Kick(u),
         pc' = "opening" => tx'.count = 0,
         ForcedInt' => inISR' \/ pc' = "snd_call",
         "HHSDropped" \notin HSFlag'
  PROVE  ThrInv' /\ WorkInv'
  <1>1. "tx" \in uart'.ier /\ (uart'.thr = NoChar => uart'.thrint)
    BY KickArms DEF AInv, ThrInv
  <1> QED
    BY <1>1 DEF ThrInv, WorkInv, Off

\* ... or it leaves the transmitter alone and gives it nothing more to send.
LEMMA Kept ==
  ASSUME AInv,
         uart'.thr = uart.thr, uart'.ier = uart.ier, uart'.thrint = uart.thrint,
         Open' /\ Work' => Open /\ Work,
         pc' = "opening" => /\ pc = "opening" /\ tx'.count = 0
                            /\ (FlowTurn' => FlowTurn) /\ (ForcedInt' => ForcedInt),
         Off' => Off /\ ~inISR', ~Off' => ~Off,
         pc' = "closed" => uart.thr = NoChar,
         ForcedInt' => inISR' \/ pc' = "snd_call",
         "HHSDropped" \notin HSFlag'
  PROVE  ThrInv' /\ WorkInv'
  BY DEF AInv, ThrInv, WorkInv, Off

\* What can be sent depends on three variables.
LEMMA WorkKept ==
  ASSUME UNCHANGED HSFlag, UNCHANGED ImmedChar, tx'.count = tx.count
  PROVE  Work' = Work /\ FlowTurn' = FlowTurn
  BY DEF Work, FlowTurn, DataTurn, AnyOf

\* A port just opened has nothing to send.
LEMMA AInvInit == Init => ThrInv /\ WorkInv
  <1> SUFFICES ASSUME Init PROVE ThrInv /\ WorkInv
    OBVIOUS
  <1>1. uart.ier = {"rx"} /\ uart.thr = NoChar /\ pc = "idle" /\ ~ForcedInt
    BY DEF Init
  <1>2. ~Work
    BY DEF Init, Work, FlowTurn, AnyOf
  <1> QED
    BY <1>1, <1>2 DEF ThrInv, WorkInv, Off, Init

\* The line and the peer.
LEMMA AInvLine == AInv /\ Line => ThrInv' /\ WorkInv'
  <1> SUFFICES ASSUME AInv, Line PROVE ThrInv' /\ WorkInv'
    OBVIOUS
  <1>t. uart \in Uart
    BY DEF AInv, TInv, TypeOK
  <1>w. ASSUME UNCHANGED <<HSFlag, ForcedInt, rx, tx, debVars, cpuVars>>
        PROVE  /\ Work' = Work /\ FlowTurn' = FlowTurn /\ Open' = Open /\ Off' = Off
               /\ UNCHANGED <<pc, inISR, ForcedInt, HSFlag, tx>>
    BY <1>w, WorkKept DEF debVars, cpuVars, Open, Off
  <1>1. CASE TsrLoad
    <2>1. /\ UNCHANGED <<HSFlag, ForcedInt, rx, tx, debVars, cpuVars>>
          /\ uart'.ier = uart.ier /\ uart'.thr = NoChar /\ uart'.thrint
          /\ uart.thr # NoChar
      BY <1>1, <1>t DEF TsrLoad, Uart
    <2> QED
      BY <2>1, <1>w DEF AInv, ThrInv, WorkInv
  <1>2. ASSUME TsrDone \/ (\E c \in PeerChars, e \in SUBSET LineErrors : PeerSend(c, e))
                 \/ PeerLine
        PROVE  ThrInv' /\ WorkInv'
    <2>1. /\ UNCHANGED <<HSFlag, ForcedInt, rx, tx, debVars, cpuVars>>
          /\ uart'.thr = uart.thr /\ uart'.ier = uart.ier /\ uart'.thrint = uart.thrint
      BY <1>2, <1>t DEF TsrDone, PeerSend, PeerLine, Uart
    <2> QED
      BY <2>1, <1>w DEF AInv, ThrInv, WorkInv
  <1> QED
    BY <1>1, <1>2 DEF Line

\* A port whose interrupts are off takes none.
LEMMA OffTakesNone == AInv /\ Interrupt => ~Off
  <1>1. ASSUME AInv, Off PROVE ~inISR /\ IIR = "none"
    BY <1>1 DEF AInv, ThrInv, IIR, LineInt, DataInt, XmitInt, ModemInt
  <1> QED
    BY <1>1 DEF Interrupt, CommInt, CommIntExit, InterruptLoop, LineStat, ModemStatus,
       RxOverflow, RxStrip, RxEOF, RxXOff, RxXOn, RxDiscard, RxQueue, DataAvail,
       XmitBusy, XmitFlow, XmitStop, XmitImmed, XmitDone, XmitMark, XmitQueue, XmitEmpty

\* The receive passes: those that call FakeCOMInt kick the transmitter, and the
\* others permit nothing new.
LEMMA AInvReceive ==
  ASSUME AInv, ~HHSLines,
         LineStat \/ ModemStatus \/ RxOverflow \/ RxStrip \/ RxEOF \/ RxXOff
           \/ RxXOn \/ RxDiscard \/ RxQueue
  PROVE  ThrInv' /\ WorkInv'
  <1> USE DEF debVars, cpuVars, peerVars
  <1>t. uart \in Uart /\ inISR /\ ~Off /\ "HHSDropped" \notin HSFlag
    <2>1. inISR
      BY DEF LineStat, ModemStatus, RxOverflow, RxStrip, RxEOF, RxXOff, RxXOn,
         RxDiscard, RxQueue, DataAvail
    <2> QED
      BY <2>1 DEF AInv, TInv, TypeOK, ThrInv, WorkInv
  <1>o. pc = "opening" => tx.count = 0
    BY DEF AInv, WorkInv
  <1>p. UNCHANGED <<tx, cpuVars, ImmedChar>>
    BY DEF LineStat, ModemStatus, RxOverflow, RxStrip, RxEOF, RxXOff, RxXOn,
       RxDiscard, RxQueue, DataAvail
  <1>q. Off' = Off /\ Open' = Open
    BY <1>p DEF Off, Open
  <1>k. ASSUME NEW u \in Uart, u.thr = uart.thr, u.ier = uart.ier,
               u.thrint = uart.thrint, uart' = Kick(u), "HHSDropped" \notin HSFlag'
        PROVE  ThrInv' /\ WorkInv'
    BY <1>k, <1>t, <1>o, <1>p, <1>q, Kicked
  <1>n. ASSUME uart'.thr = uart.thr, uart'.ier = uart.ier, uart'.thrint = uart.thrint,
               Work' => Work, FlowTurn' => FlowTurn, ForcedInt' => ForcedInt,
               "HHSDropped" \notin HSFlag'
        PROVE  ThrInv' /\ WorkInv'
    BY <1>n, <1>t, <1>o, <1>p, <1>q, Kept DEF Off
  <1>s. ASSUME uart'.thr = uart.thr, uart'.ier = uart.ier, uart'.thrint = uart.thrint,
               UNCHANGED HSFlag, ForcedInt' => ForcedInt
        PROVE  ThrInv' /\ WorkInv'
    BY <1>s, <1>n, <1>p, <1>t, WorkKept
  <1>r. LET u == [uart EXCEPT !.rbr = NoChar]
        IN  u \in Uart /\ u.thr = uart.thr /\ u.ier = uart.ier /\ u.thrint = uart.thrint
    BY <1>t DEF Uart
  <1>a. ASSUME NEW fake \in BOOLEAN, AfterRead(fake),
               "HHSDropped" \notin HSFlag', fake \/ UNCHANGED HSFlag
        PROVE  ThrInv' /\ WorkInv'
    <2>1. CASE fake
      BY <2>1, <1>a, <1>r, <1>k DEF AfterRead
    <2>2. CASE ~fake
      BY <2>2, <1>a, <1>r, <1>s DEF AfterRead
    <2> QED
      BY <2>1, <2>2
  <1>1. CASE LineStat
    <2>1. uart'.thr = uart.thr /\ uart'.ier = uart.ier /\ uart'.thrint = uart.thrint
      BY <1>1, <1>t DEF LineStat, Uart
    <2> QED
      BY <2>1, <1>1, <1>s DEF LineStat
  <1>2. CASE ModemStatus
    <2> DEFINE u == [uart EXCEPT !.dcts = FALSE]
    <2>1. u \in Uart /\ u.thr = uart.thr /\ u.ier = uart.ier /\ u.thrint = uart.thrint
      BY <1>t DEF Uart
    <2>2. "HHSDropped" \notin HSFlag'
      BY <1>2, <1>t DEF ModemStatus
    <2>3. CASE OutHHSLines /\ uart.cts
      <3>1. uart' = Kick(u)
        BY <1>2, <2>3 DEF ModemStatus
      <3> QED
        BY <3>1, <2>1, <2>2, <1>k
    <2>4. CASE ~(OutHHSLines /\ uart.cts)
      <3>1. uart' = u /\ ForcedInt' = FALSE /\ HSFlag \subseteq HSFlag'
            /\ ("HHSDown" \in HSFlag' \/ HSFlag' = HSFlag)
        BY <1>2, <2>4 DEF ModemStatus
      <3>2. (FlowTurn' => FlowTurn) /\ (Work' => Work)
        BY <3>1, <1>p DEF Work, FlowTurn, DataTurn, AnyOf, CannotXmit, HSReceived
      <3> QED
        BY <3>1, <3>2, <2>1, <2>2, <1>n
    <2> QED
      BY <2>3, <2>4
  <1>3. CASE RxOverflow \/ RxStrip \/ RxEOF \/ RxDiscard
    BY <1>3, <1>a, <1>t DEF RxOverflow, RxStrip, RxEOF, RxDiscard
  <1>4. CASE RxXOff
    <2>1. "HHSDropped" \notin HSFlag'
      BY <1>4, <1>t DEF RxXOff
    <2>2. CASE EnqOrEtx /\ rx.count <= XONLim
      BY <1>4, <2>1, <2>2, <1>a DEF RxXOff
    <2>3. CASE ~(EnqOrEtx /\ rx.count <= XONLim)
      <3>1. HSFlag' = HSFlag \cup {"XOffReceived"} /\ AfterRead(FALSE)
        BY <1>4, <2>3 DEF RxXOff
      <3>2. (FlowTurn' => FlowTurn) /\ (Work' => Work)
        BY <3>1, <1>p DEF Work, FlowTurn, DataTurn, AnyOf, CannotXmit, HSReceived, HSPending
      <3> QED
        BY <3>1, <3>2, <2>1, <1>r, <1>n DEF AfterRead
    <2> QED
      BY <2>2, <2>3
  <1>5. CASE RxXOn
    BY <1>5, <1>a, <1>t DEF RxXOn
  <1>6. CASE RxQueue
    <2> DEFINE u == [uart EXCEPT !.rbr = NoChar, !.mcr = uart.mcr /\ ~FALSE]
    <2>0. HHSLines = FALSE
      BY DEF HHSLines
    <2>1. u \in Uart /\ u.thr = uart.thr /\ u.ier = uart.ier /\ u.thrint = uart.thrint
      BY <1>t DEF Uart
    <2>2. "HHSDropped" \notin HSFlag'
      BY <1>6, <1>t DEF RxQueue
    <2>3. \/ uart' = Kick(u)
          \/ uart' = u /\ UNCHANGED HSFlag /\ ForcedInt' = FALSE
      BY <1>6, <2>0 DEF RxQueue
    <2> QED
      BY <2>1, <2>2, <2>3, <1>k, <1>s
  <1> QED
    BY <1>1, <1>2, <1>3, <1>4, <1>5, <1>6

\* The transmit passes: what can be sent is sent with the interrupt armed, and the
\* interrupt is disarmed only when there is nothing to send.
LEMMA AInvTransmit ==
  ASSUME AInv,
         XmitBusy \/ XmitFlow \/ XmitStop \/ XmitImmed \/ XmitDone \/ XmitMark
           \/ XmitQueue
  PROVE  ThrInv' /\ WorkInv'
  <1> USE DEF debVars, cpuVars, peerVars
  <1>x. /\ inISR /\ ~ForcedInt' /\ UNCHANGED <<pc, inISR>>
        /\ ForcedInt \/ IIR = "XmitEmpty"
    BY DEF XmitBusy, XmitFlow, XmitStop, XmitImmed, XmitDone, XmitMark, XmitQueue,
       XmitEmpty
  <1>t. uart \in Uart /\ ~Off /\ "HHSDropped" \notin HSFlag
    BY <1>x DEF AInv, TInv, TypeOK, ThrInv, WorkInv
  <1>q. Off' = Off /\ Open' = Open /\ (~Open => pc = "opening")
    BY <1>x, <1>t DEF Off, Open
  <1>r. /\ XmitRegs \in Uart /\ XmitRegs.thr = uart.thr /\ XmitRegs.ier = uart.ier
    BY <1>t DEF XmitRegs, Uart
  <1>w. ASSUME FlowTurn \/ Work \/ ~Open
        PROVE  "tx" \in uart.ier
    <2>1. ASSUME ~Open, ~ForcedInt PROVE "tx" \in uart.ier
      BY <2>1, <1>x DEF IIR, XmitInt
    <2>2. ASSUME ~Open, ForcedInt PROVE "tx" \in uart.ier
      BY <2>2, <1>q DEF AInv, WorkInv
    <2>3. ASSUME Open PROVE "tx" \in uart.ier
      BY <2>3, <1>w DEF AInv, WorkInv, Work
    <2> QED
      BY <2>1, <2>2, <2>3
  <1>s. ASSUME NEW c \in Char, Send(c), "tx" \in uart.ier, "HHSDropped" \notin HSFlag',
               Open \/ tx'.count = tx.count
        PROVE  ThrInv' /\ WorkInv'
    <2>1. uart'.thr = c /\ uart'.ier = uart.ier
      BY <1>s, <1>r DEF Send, Uart
    <2> QED
      BY <2>1, <1>s, <1>x, <1>t, <1>q DEF AInv, ThrInv, WorkInv, Off, Open
  <1>d. ASSUME Disarm, uart.thr = NoChar, ~Work, UNCHANGED <<HSFlag, tx, ImmedChar>>
        PROVE  ThrInv' /\ WorkInv'
    <2>1. uart'.thr = NoChar /\ "tx" \notin uart'.ier
      BY <1>d, <1>r DEF Disarm, Uart
    <2>2. ~Work' /\ ~FlowTurn'
      BY <1>d DEF Work, FlowTurn, DataTurn, AnyOf
    <2> QED
      BY <2>1, <2>2, <1>d, <1>x, <1>t, <1>q DEF AInv, ThrInv, WorkInv, Off
  <1>1. CASE XmitBusy
    <2>1. /\ uart.thr # NoChar /\ UNCHANGED <<HSFlag, tx, ImmedChar>>
          /\ uart'.thr = uart.thr /\ uart'.ier = uart.ier
      BY <1>1, <1>r DEF XmitBusy, XmitEmpty, Uart
    <2>2. "tx" \in uart'.ier
      BY <2>1, <1>t DEF AInv, ThrInv
    <2> QED
      BY <2>1, <2>2, <1>x, <1>t, <1>q DEF AInv, ThrInv, WorkInv, Off
  <1>2. CASE XmitFlow
    <2>1. "tx" \in uart.ier
      BY <1>2, <1>w DEF XmitFlow
    <2>2. PICK c \in {XONChar, XOFFChar} : Send(c)
      BY <1>2 DEF XmitFlow
    <2>3. "HHSDropped" \notin HSFlag' /\ tx'.count = tx.count
      BY <1>2, <1>t DEF XmitFlow
    <2> QED
      BY <2>1, <2>2, <2>3, <1>s DEF Char
  <1>3. CASE XmitStop
    <2>1. ~Work
      BY <1>3 DEF XmitStop, Work
    <2> QED
      BY <2>1, <1>3, <1>d DEF XmitStop, XmitEmpty
  <1>4. CASE XmitImmed
    <2>1. "tx" \in uart.ier
      BY <1>4, <1>w DEF XmitImmed, Work
    <2>2. ImmedChar \in Char
      BY <1>4 DEF XmitImmed, AInv, TInv, TypeOK, Char
    <2> QED
      BY <2>1, <2>2, <1>4, <1>s, <1>t DEF XmitImmed
  <1>5. CASE XmitDone
    <2>1. ~FlowTurn
      BY <1>5 DEF XmitDone, FlowTurn, DataTurn, AnyOf, CannotXmit
    <2>2. ~Work
      BY <2>1, <1>5 DEF XmitDone, Work, AInv, TInv, TypeOK, TxRing
    <2> QED
      BY <2>2, <1>5, <1>d DEF XmitDone, XmitEmpty
  <1>6. ASSUME XmitMark \/ XmitQueue
        PROVE  ThrInv' /\ WorkInv'
    <2>0. tx \in TxRing /\ tx.count # 0 /\ DataTurn
      BY <1>6 DEF XmitMark, XmitQueue, AInv, TInv, TypeOK
    <2>1. "tx" \in uart.ier /\ Open
      <3>1. tx.count > 0
        BY <2>0 DEF TxRing
      <3>2. Open
        BY <2>0, <1>q DEF AInv, WorkInv
      <3> QED
        BY <2>0, <3>1, <3>2, <1>w DEF Work
    <2>2. tx.buf[tx.get] \in Char /\ XOFFChar \in Char
      <3>1. tx.buf[tx.get] \in Data \cup {NulChar}
        BY <2>0 DEF TxRing
      <3>2. Data \cup {NulChar} \subseteq Char /\ XOFFChar \in Char
        BY DEF Char
      <3> QED
        BY <3>1, <3>2
    <2>3. HSFlag' = HSFlag \cup {"XOffReceived"} \/ HSFlag' = HSFlag
      BY <1>6 DEF XmitMark, XmitQueue
    <2>4. CASE XmitMark
      BY <2>1, <2>2, <2>3, <2>4, <1>s, <1>t DEF XmitMark
    <2>5. CASE XmitQueue
      BY <2>1, <2>2, <2>3, <2>5, <1>s, <1>t DEF XmitQueue
    <2> QED
      BY <1>6, <2>4, <2>5
  <1> QED
    BY <1>1, <1>2, <1>3, <1>4, <1>5, <1>6

\* The entry points.  Those that give the transmitter something to send end with a
\* KickTx; $CLRBRK and $SETCOM, which do not, are left out.
LEMMA AInvApplication ==
  ASSUME AInv, Application, ~HHSLines, Calls \cap {"SETCOM", "CLRBRK"} = {}
  PROVE  ThrInv' /\ WorkInv'
  <1> USE DEF debVars, cpuVars, peerVars, Call, At, GoTo
  <1>t. /\ uart \in Uart /\ "HHSDropped" \notin HSFlag
        /\ tx \in TxRing /\ rx \in RxRing
        /\ ForcedInt => inISR \/ pc = "snd_call"
    BY DEF AInv, TInv, TypeOK, WorkInv
  <1>s. \/ SndTimeout \/ SndFull \/ RecCall \/ FlushRx \/ StaCom \/ EvtGet
        \/ RecTest \/ RecErr \/ RecGet \/ RecDec \/ (\E c \in Data : SndStore(c))
        \/ SndForce \/ SndCall
        => ThrInv' /\ WorkInv'
    <2> SUFFICES ASSUME SndTimeout \/ SndFull \/ RecCall \/ FlushRx \/ StaCom \/ EvtGet
                          \/ RecTest \/ RecErr \/ RecGet \/ RecDec
                          \/ (\E c \in Data : SndStore(c)) \/ SndForce \/ SndCall
                 PROVE  ThrInv' /\ WorkInv'
      OBVIOUS
    <2>1. UNCHANGED <<HSFlag, ImmedChar, uart>> /\ tx'.count = tx.count
      BY <1>t DEF SndTimeout, SndFull, RecCall, FlushRx, StaCom, EvtGet, RecTest, RecErr,
         RecGet, RecDec, SndStore, SndForce, SndCall, TxRing
    <2>2. /\ pc \notin {"opening", "trm_drain", "closed"}
          /\ pc' \notin {"opening", "trm_drain", "closed"}
          /\ ForcedInt' => inISR' \/ pc' = "snd_call"
      BY <1>t DEF SndTimeout, SndFull, RecCall, FlushRx, StaCom, EvtGet, RecTest, RecErr,
         RecGet, RecDec, SndStore, SndForce, SndCall, RecReturn
    <2> QED
      BY <2>1, <2>2, <1>t, WorkKept, Kept DEF Open, Off
  <1>1. ASSUME NEW c \in Data, SndImm(c)
        PROVE  ThrInv' /\ WorkInv'
    BY <1>1, <1>t, Kicked DEF SndImm, Off
  <1>2. CASE SndQueue
    BY <1>2, <1>t, Kicked DEF SndQueue, Off
  <1>3. CASE RecLines
    <2> DEFINE u == [uart EXCEPT !.mcr = uart.mcr \/ HHSLines]
    <2>1. u \in Uart /\ u.thr = uart.thr /\ u.ier = uart.ier /\ u.thrint = uart.thrint
      BY <1>t DEF Uart, HHSLines
    <2>2. "HHSDropped" \notin HSFlag' /\ ~ForcedInt' /\ pc' = "rec_err" /\ pc = "rec_lines"
      BY <1>3, <1>t DEF RecLines
    <2>3. CASE AnyOf({"XOffSent"})
      BY <1>3, <2>1, <2>2, <2>3, Kicked DEF RecLines, Off
    <2>4. CASE ~AnyOf({"XOffSent"})
      <3>1. uart' = u /\ HSFlag' = HSFlag /\ ImmedChar' = ImmedChar /\ tx'.count = tx.count
        BY <1>3, <2>4 DEF RecLines, AnyOf, HHSLines
      <3> QED
        BY <3>1, <2>1, <2>2, WorkKept, Kept DEF Open, Off
    <2> QED
      BY <2>3, <2>4
  <1>4. CASE FlushTx \/ SetQue
    <2>1. /\ UNCHANGED <<HSFlag, ImmedChar, uart, pc, inISR, ForcedInt>>
          /\ tx'.count = 0 /\ pc = "idle"
      BY <1>4, <1>t DEF FlushTx, SetQue, Emptied, TxRing
    <2>2. Work' => Work
      BY <2>1 DEF Work, FlowTurn, DataTurn, AnyOf
    <2> QED
      BY <2>1, <2>2, <1>t, Kept DEF Open, Off
  <1>5. CASE SetBrk \/ ExtCom_FN1 \/ TrmCom
    <2>1. /\ UNCHANGED <<ImmedChar, uart, tx, inISR, ForcedInt>>
          /\ pc = "idle" /\ pc' \in {"idle", "rec_test"} /\ ~inISR
          /\ \E f \in {"BreakSet", "XOffReceived", "Discard"} : HSFlag' = HSFlag \cup {f}
      BY <1>5 DEF SetBrk, ExtCom_FN1, SetFlags, TrmCom
    <2>2. Work' => Work
      BY <2>1 DEF Work, FlowTurn, DataTurn, AnyOf, CannotXmit, HSPending
    <2>3. "HHSDropped" \notin HSFlag'
      BY <2>1, <1>t
    <2> QED
      BY <2>1, <2>2, <2>3, <1>t, Kept DEF Open, Off
  <1>6. CASE ExtCom_FN2
    BY <1>6, <1>t, Kicked DEF ExtCom_FN2, SetFlags, Off
  <1>7. CASE ExtCom_FN3 \/ ExtCom_FN4
    <2>1. /\ UNCHANGED <<HSFlag, ImmedChar, tx, pc, inISR, ForcedInt>> /\ pc = "idle"
          /\ uart'.thr = uart.thr /\ uart'.ier = uart.ier /\ uart'.thrint = uart.thrint
      BY <1>7, <1>t DEF ExtCom_FN3, ExtCom_FN4, SetLine, Uart
    <2> QED
      BY <2>1, <1>t, WorkKept, Kept DEF Open, Off
  <1>8. CASE TrmWait
    <2>1. /\ uart'.ier = {} /\ pc' = "trm_drain" /\ ~inISR' /\ ~ForcedInt'
          /\ UNCHANGED HSFlag
      BY <1>8, <1>t DEF TrmWait, Uart
    <2> QED
      BY <2>1, <1>t DEF ThrInv, WorkInv, Off, Open
  <1>9. CASE TrmDrain
    BY <1>9 DEF TrmDrain, AInv, ThrInv, WorkInv, Off, Open
  <1>10. CASE IniCom
    <2>1. /\ uart'.ier = {"rx"} /\ uart'.thr = uart.thr /\ pc' = "opening" /\ pc = "closed"
          /\ HSFlag' = {} /\ ~ForcedInt' /\ tx'.count = 0
      BY <1>10, <1>t DEF IniCom, Programmed, Uart, Emptied, TxRing
    <2>2. ~FlowTurn'
      BY <2>1 DEF FlowTurn, AnyOf
    <2> QED
      BY <2>1, <2>2 DEF AInv, ThrInv, WorkInv, Off, Open
  <1>11. CASE IniDone
    <2>1. /\ UNCHANGED <<HSFlag, tx, uart, ForcedInt, inISR>> /\ ImmedChar' = NoChar
          /\ pc = "opening" /\ pc' = "idle" /\ ~inISR
      BY <1>11 DEF IniDone
    <2>2. tx.count = 0
      BY <2>1 DEF AInv, WorkInv
    <2>3. Work' => FlowTurn
      BY <2>1, <2>2 DEF Work, FlowTurn, AnyOf
    <2> QED
      BY <2>1, <2>2, <2>3, <1>t DEF AInv, ThrInv, WorkInv, Off, Open
  <1>12. ~ClrBrk /\ ~SetCom
    BY DEF ClrBrk, SetFlags, SetCom
  <1> QED
    BY <1>s, <1>1, <1>2, <1>3, <1>4, <1>5, <1>6, <1>7, <1>8, <1>9, <1>10, <1>11, <1>12
    DEF Application, Continue

\* No wakeup of the transmitter is lost, in a port that uses no DTR or RTS flow
\* control and an application that uses neither $CLRBRK nor $SETCOM: those three
\* give the transmitter something to send without a KickTx.
THEOREM PortTxArmed ==
  ASSUME "fDTRFlow" \notin Flags, Calls \cap {"SETCOM", "CLRBRK"} = {}
  PROVE  Spec => []TxArmed
  <1>1. Init => AInv
    BY TInvInit, AInvInit DEF AInv
  <1>2. AInv /\ [Next]_vars => AInv'
    <2> SUFFICES ASSUME AInv, [Next]_vars PROVE AInv'
      OBVIOUS
    <2>1. TInv'
      BY TInvStep DEF AInv
    <2>2. ~HHSLines
      BY DEF HHSLines
    <2>3. CASE Line
      BY <2>1, <2>3, AInvLine DEF AInv
    <2>4. CASE CommInt \/ CommIntExit
      <3>1. ~Off
        BY <2>4, OffTakesNone DEF Interrupt
      <3>2. /\ UNCHANGED <<HSFlag, ImmedChar, tx, uart, pc, ForcedInt>>
            /\ ForcedInt => inISR' \/ pc = "snd_call"
        BY <2>4 DEF CommInt, CommIntExit, debVars, AInv, WorkInv
      <3>3. "HHSDropped" \notin HSFlag /\ (pc = "opening" => tx.count = 0)
        BY DEF AInv, WorkInv
      <3> QED
        BY <2>1, <3>1, <3>2, <3>3, WorkKept, Kept DEF AInv, Off, Open
    <2>5. CASE InterruptLoop
      BY <2>1, <2>2, <2>5, AInvReceive, AInvTransmit DEF AInv, InterruptLoop
    <2>6. CASE Application
      BY <2>1, <2>2, <2>6, AInvApplication DEF AInv
    <2>7. CASE UNCHANGED vars
      <3>1. /\ UNCHANGED <<HSFlag, ImmedChar, tx, uart, pc, inISR, ForcedInt>>
        BY <2>7 DEF vars, debVars, cpuVars
      <3>2. Work' = Work /\ FlowTurn' = FlowTurn
        BY <3>1, WorkKept
      <3> QED
        BY <2>1, <3>1, <3>2 DEF AInv, ThrInv, WorkInv, Off, Open
    <2> QED
      BY <2>3, <2>4, <2>5, <2>6, <2>7 DEF Next, Interrupt
  <1>3. AInv => TxArmed
    BY DEF AInv, ThrInv, WorkInv, TxArmed, Armed
  <1> QED
    BY <1>1, <1>2, <1>3, PTL DEF Spec

-----------------------------------------------------------------------------
(* A peer that was stopped is remembered.                                  *)

\* The two facts of PeerRemembered, for a port that is never closed.
HeldInv  == LastFlow = XOFFChar /\ ~EnqOrEtx => AnyOf({"XOffSent", "XOnPending"})
LinesInv == HHSLines /\ ~uart.mcr => "HHSDropped" \in HSFlag

StaysOpen ==
  /\ pc \notin {"trm_wait", "trm_drain", "closed", "opening"}
  /\ "Discard" \notin HSFlag

PInv == TInv /\ StaysOpen /\ HeldInv /\ LinesInv

\* No pass of the interrupt closes the port or discards what arrives.
LEMMA LoopStaysOpen == StaysOpen /\ InterruptLoop => StaysOpen'
  <1> SUFFICES ASSUME StaysOpen, InterruptLoop PROVE StaysOpen'
    OBVIOUS
  <1> USE DEF HSNames, CannotXmit, HSReceived, HSSent, HSPending
  <1>1. pc' = pc
    BY DEF InterruptLoop, LineStat, ModemStatus, RxOverflow, RxStrip, RxEOF,
       RxXOff, RxXOn, RxDiscard, RxQueue, DataAvail, XmitBusy, XmitFlow, XmitStop,
       XmitImmed, XmitDone, XmitMark, XmitQueue, XmitEmpty, cpuVars
  <1>2. HSFlag' \subseteq HSFlag \cup (HSNames \ {"Discard"})
    <2>1. CASE LineStat \/ ModemStatus \/ RxOverflow \/ RxStrip \/ RxEOF \/ RxDiscard
      BY <2>1 DEF LineStat, ModemStatus, RxOverflow, RxStrip, RxEOF, RxDiscard
    <2>2. CASE RxXOff \/ RxXOn
      BY <2>2 DEF RxXOff, RxXOn
    <2>3. CASE RxQueue
      BY <2>3 DEF RxQueue
    <2>4. CASE XmitBusy \/ XmitStop \/ XmitImmed \/ XmitDone \/ XmitQueue
      BY <2>4 DEF XmitBusy, XmitStop, XmitImmed, XmitDone, XmitQueue
    <2>5. CASE XmitFlow \/ XmitMark
      BY <2>5 DEF XmitFlow, XmitMark
    <2> QED
      BY <2>1, <2>2, <2>3, <2>4, <2>5 DEF InterruptLoop
  <1> QED
    BY <1>1, <1>2 DEF StaysOpen

\* KickTx leaves the characters and the lines of the 8250 alone.
LEMMA KickKeeps ==
  \A u \in Uart : Kick(u).thr = u.thr /\ Kick(u).tsr = u.tsr /\ Kick(u).mcr = u.mcr
  BY DEF Kick, Uart

\* A step that moves no character and forgets no flag keeps both facts.
LEMMA FlowKept ==
  ASSUME PInv,
         uart'.thr = uart.thr, uart'.tsr = uart.tsr, peerHeld' = peerHeld,
         AnyOf({"XOffSent", "XOnPending"}) => AnyOf({"XOffSent", "XOnPending"})',
         HHSLines /\ ~uart'.mcr => \/ "HHSDropped" \in HSFlag'
                                   \/ ~uart.mcr /\ ("HHSDropped" \in HSFlag
                                                     => "HHSDropped" \in HSFlag')
  PROVE  HeldInv' /\ LinesInv'
  <1>1. LastFlow' = LastFlow
    BY DEF LastFlow
  <1>2. HeldInv'
    BY <1>1 DEF PInv, HeldInv
  <1>3. LinesInv'
    BY DEF PInv, LinesInv, HHSLines
  <1> QED
    BY <1>2, <1>3

\* A character on its way does not change what was said last.
LEMMA FlowLine == PInv /\ Line => HeldInv' /\ LinesInv'
  <1> SUFFICES ASSUME PInv, Line PROVE HeldInv' /\ LinesInv'
    OBVIOUS
  <1> USE DEF debVars, cpuVars, peerVars
  <1>t. uart \in Uart /\ NoChar \notin {XONChar, XOFFChar}
    BY DEF PInv, TInv, TypeOK, Char
  <1>1. CASE TsrLoad
    <2>1. /\ uart'.thr = NoChar /\ uart'.tsr = uart.thr /\ uart.tsr = NoChar
          /\ uart'.mcr = uart.mcr /\ UNCHANGED <<HSFlag, peerHeld>>
      BY <1>1, <1>t DEF TsrLoad, Uart
    <2>2. LastFlow' = LastFlow
      BY <2>1, <1>t DEF LastFlow
    <2> QED
      BY <2>1, <2>2 DEF PInv, HeldInv, LinesInv, AnyOf
  <1>2. CASE TsrDone
    <2>1. /\ uart'.thr = uart.thr /\ uart'.tsr = NoChar /\ uart'.mcr = uart.mcr
          /\ peerHeld' = (uart.tsr = XOFFChar \/ (uart.tsr # XONChar /\ peerHeld))
          /\ UNCHANGED HSFlag
      BY <1>2, <1>t DEF TsrDone, Uart
    <2>2. LastFlow' = LastFlow
      BY <2>1, <1>t DEF LastFlow
    <2> QED
      BY <2>1, <2>2 DEF PInv, HeldInv, LinesInv, AnyOf
  <1>3. ASSUME (\E c \in PeerChars, e \in SUBSET LineErrors : PeerSend(c, e)) \/ PeerLine
        PROVE  HeldInv' /\ LinesInv'
    <2>1. /\ uart'.thr = uart.thr /\ uart'.tsr = uart.tsr /\ uart'.mcr = uart.mcr
          /\ UNCHANGED <<HSFlag, peerHeld>>
      BY <1>3, <1>t DEF PeerSend, PeerLine, Uart
    <2> QED
      BY <2>1, FlowKept DEF AnyOf
  <1> QED
    BY <1>1, <1>2, <1>3 DEF Line

\* The receive passes drop the lines only together with the flag.
LEMMA FlowReceive ==
  ASSUME PInv,
         LineStat \/ ModemStatus \/ RxOverflow \/ RxStrip \/ RxEOF \/ RxXOff
           \/ RxXOn \/ RxDiscard \/ RxQueue
  PROVE  HeldInv' /\ LinesInv'
  <1> USE DEF debVars, cpuVars, peerVars
  <1>t. uart \in Uart
    BY DEF PInv, TInv, TypeOK
  <1>h. peerHeld' = peerHeld
    BY DEF LineStat, ModemStatus, RxOverflow, RxStrip, RxEOF, RxXOff, RxXOn,
       RxDiscard, RxQueue, DataAvail
  <1>f. \A x \in {"XOffSent", "XOnPending", "HHSDropped"} : x \in HSFlag => x \in HSFlag'
    BY DEF LineStat, ModemStatus, RxOverflow, RxStrip, RxEOF, RxXOff, RxXOn,
       RxDiscard, RxQueue
  <1>a. AnyOf({"XOffSent", "XOnPending"}) => AnyOf({"XOffSent", "XOnPending"})'
    BY <1>f DEF AnyOf
  <1>u. /\ uart'.thr = uart.thr /\ uart'.tsr = uart.tsr
        /\ uart'.mcr = uart.mcr \/ "HHSDropped" \in HSFlag'
    <2>1. CASE LineStat
      BY <2>1, <1>t DEF LineStat, Uart
    <2>2. CASE ModemStatus
      <3> DEFINE u == [uart EXCEPT !.dcts = FALSE]
      <3>1. u \in Uart /\ u.thr = uart.thr /\ u.tsr = uart.tsr /\ u.mcr = uart.mcr
        BY <1>t DEF Uart
      <3>2. uart' = u \/ uart' = Kick(u)
        BY <2>2 DEF ModemStatus
      <3> QED
        BY <3>1, <3>2, KickKeeps
    <2>3. ASSUME NEW fake, AfterRead(fake)
          PROVE  uart'.thr = uart.thr /\ uart'.tsr = uart.tsr /\ uart'.mcr = uart.mcr
      <3> DEFINE u == [uart EXCEPT !.rbr = NoChar]
      <3>1. u \in Uart /\ u.thr = uart.thr /\ u.tsr = uart.tsr /\ u.mcr = uart.mcr
        BY <1>t DEF Uart
      <3>2. uart' = u \/ uart' = Kick(u)
        BY <2>3 DEF AfterRead
      <3> QED
        BY <3>1, <3>2, KickKeeps
    <2>4. CASE RxOverflow \/ RxStrip \/ RxEOF \/ RxXOff \/ RxXOn \/ RxDiscard
      BY <2>4, <2>3 DEF RxOverflow, RxStrip, RxEOF, RxXOff, RxXOn, RxDiscard
    <2>5. CASE RxQueue
      <3>1. PICK drop \in BOOLEAN :
               /\ drop => "HHSDropped" \in HSFlag'
               /\ LET u == [uart EXCEPT !.rbr = NoChar, !.mcr = uart.mcr /\ ~drop]
                  IN  uart' = u \/ uart' = Kick(u)
        <4>1. LET stop == rx.count + 1 >= XOffPoint /\ ~AnyOf(HSSent \cup {"XOffPending"})
                  drop == stop /\ HHSLines
                  u == [uart EXCEPT !.rbr = NoChar, !.mcr = uart.mcr /\ ~drop]
              IN  /\ drop \in BOOLEAN
                  /\ drop => "HHSDropped" \in HSFlag'
                  /\ uart' = u \/ uart' = Kick(u)
          BY <2>5 DEF RxQueue, HHSLines
        <4> QED
          BY <4>1
      <3> DEFINE u == [uart EXCEPT !.rbr = NoChar, !.mcr = uart.mcr /\ ~drop]
      <3>2. u \in Uart /\ u.thr = uart.thr /\ u.tsr = uart.tsr /\ u.mcr = (uart.mcr /\ ~drop)
        BY <1>t DEF Uart
      <3>3. uart'.thr = u.thr /\ uart'.tsr = u.tsr /\ uart'.mcr = u.mcr
        BY <3>1, <3>2, KickKeeps
      <3>4. ~drop => u.mcr = uart.mcr
        BY <3>2, <1>t DEF Uart
      <3> QED
        BY <3>1, <3>2, <3>3, <3>4
    <2> QED
      BY <2>1, <2>2, <2>4, <2>5
  <1> QED
    BY <1>a, <1>f, <1>h, <1>u, FlowKept

\* The transmit passes: the character that stops the peer sets the flag, the one
\* that releases it clears it, and no other character is either.
LEMMA FlowTransmit ==
  ASSUME PInv,
         XmitBusy \/ XmitFlow \/ XmitStop \/ XmitImmed \/ XmitDone \/ XmitMark
           \/ XmitQueue
  PROVE  HeldInv' /\ LinesInv'
  <1> USE DEF debVars, cpuVars, peerVars
  <1>t. uart \in Uart /\ tx \in TxRing /\ ImmedChar \in Data \cup {NoChar}
    BY DEF PInv, TInv, TypeOK
  <1>h. peerHeld' = peerHeld
    BY DEF XmitBusy, XmitFlow, XmitStop, XmitImmed, XmitDone, XmitMark, XmitQueue,
       XmitEmpty
  <1>r. /\ XmitRegs \in Uart /\ XmitRegs.thr = uart.thr /\ XmitRegs.tsr = uart.tsr
        /\ XmitRegs.mcr = uart.mcr
    BY <1>t DEF XmitRegs, Uart
  <1>s. ASSUME NEW c, Send(c)
        PROVE  uart'.thr = c /\ uart'.tsr = uart.tsr /\ uart'.mcr = uart.mcr
    BY <1>s, <1>r DEF Send, Uart
  <1>k. ASSUME uart'.thr = uart.thr, uart'.tsr = uart.tsr, uart'.mcr = uart.mcr,
               UNCHANGED HSFlag
        PROVE  HeldInv' /\ LinesInv'
    BY <1>k, <1>h, FlowKept DEF AnyOf
  <1>c. ASSUME NEW c, c \notin {XONChar, XOFFChar}, Send(c), XmitEmpty(TRUE),
               UNCHANGED HSFlag
        PROVE  HeldInv' /\ LinesInv'
    <2>1. uart.thr = NoChar /\ NoChar \notin {XONChar, XOFFChar}
      BY <1>c DEF XmitEmpty, Char
    <2>2. uart'.thr = c /\ uart'.tsr = uart.tsr /\ uart'.mcr = uart.mcr
      BY <1>c, <1>s
    <2>3. LastFlow' = LastFlow
      BY <1>c, <1>h, <2>1, <2>2 DEF LastFlow
    <2> QED
      BY <1>c, <2>2, <2>3 DEF PInv, HeldInv, LinesInv, AnyOf
  <1>1. CASE XmitBusy
    <2>1. uart'.thr = uart.thr /\ uart'.tsr = uart.tsr /\ uart'.mcr = uart.mcr
      BY <1>1, <1>r DEF XmitBusy, Uart
    <2> QED
      BY <2>1, <1>1, <1>k DEF XmitBusy
  <1>2. CASE XmitFlow
    <2>1. CASE AnyOf({"XOffPending"})
      <3>1. /\ HSFlag' = (HSFlag \ {"XOffPending"}) \cup {"XOffSent"}
            /\ Send(XOFFChar)
        BY <1>2, <2>1 DEF XmitFlow
      <3>2. HeldInv'
        BY <3>1 DEF HeldInv, AnyOf
      <3>3. LinesInv'
        BY <3>1, <1>s DEF PInv, LinesInv, HHSLines
      <3> QED
        BY <3>2, <3>3
    <2>2. CASE ~AnyOf({"XOffPending"})
      <3>1. HSFlag' = HSFlag \ {"XOnPending", "XOffSent"} /\ Send(XONChar)
        BY <1>2, <2>2 DEF XmitFlow
      <3>2. uart'.thr = XONChar /\ uart'.mcr = uart.mcr
        BY <3>1, <1>s
      <3>3. HeldInv'
        BY <3>2 DEF HeldInv, LastFlow
      <3>4. LinesInv'
        BY <3>1, <3>2 DEF PInv, LinesInv, HHSLines
      <3> QED
        BY <3>3, <3>4
    <2> QED
      BY <2>1, <2>2
  <1>3. CASE XmitStop \/ XmitDone
    <2>1. uart'.thr = uart.thr /\ uart'.tsr = uart.tsr /\ uart'.mcr = uart.mcr
      BY <1>3, <1>r DEF XmitStop, XmitDone, Disarm, Uart
    <2> QED
      BY <2>1, <1>3, <1>k DEF XmitStop, XmitDone
  <1>4. CASE XmitImmed
    <2>1. ImmedChar \notin {XONChar, XOFFChar}
      BY <1>4, <1>t DEF XmitImmed
    <2> QED
      BY <2>1, <1>4, <1>c DEF XmitImmed
  <1>5. CASE XmitMark
    <2>1. EnqOrEtx
      BY <1>5 DEF XmitMark, TxMark, EnqOrEtx
    <2>2. uart'.mcr = uart.mcr /\ HSFlag' = HSFlag \cup {"XOffReceived"}
      BY <1>5, <1>s DEF XmitMark
    <2>3. HeldInv'
      BY <2>1 DEF HeldInv, EnqOrEtx
    <2>4. LinesInv'
      BY <2>2 DEF PInv, LinesInv, HHSLines
    <2> QED
      BY <2>3, <2>4
  <1>6. CASE XmitQueue
    <2>1. tx.buf[tx.get] \in Data \cup {NulChar}
      BY <1>t DEF TxRing
    <2> QED
      BY <2>1, <1>6, <1>c DEF XmitQueue
  <1> QED
    BY <1>1, <1>2, <1>3, <1>4, <1>5, <1>6

\* The entry points: $RECCOM forgets that it has sent an XOFF only to remember that
\* it has to send an XON, and that it has dropped the lines only to raise them.
LEMMA FlowApplication ==
  ASSUME PInv, Application, Calls \cap {"TRMCOM", "FN4"} = {}
  PROVE  StaysOpen' /\ HeldInv' /\ LinesInv'
  <1> USE DEF debVars, cpuVars, peerVars, Call, At, GoTo
  <1>t. uart \in Uart
    BY DEF PInv, TInv, TypeOK
  <1>o. StaysOpen
    BY DEF PInv
  <1>k. ASSUME uart'.thr = uart.thr, uart'.tsr = uart.tsr, UNCHANGED peerHeld,
               uart'.mcr = uart.mcr \/ uart'.mcr,
               \A x \in {"XOffSent", "XOnPending", "HHSDropped"} : x \in HSFlag => x \in HSFlag'
        PROVE  HeldInv' /\ LinesInv'
    BY <1>k, FlowKept DEF AnyOf
  <1>1. ASSUME SndTimeout \/ SndFull \/ (\E c \in Data : SndStore(c)) \/ SndForce \/ SndCall
                 \/ RecCall \/ RecTest \/ RecErr \/ RecGet \/ RecDec \/ FlushRx \/ FlushTx
                 \/ SetQue \/ StaCom \/ EvtGet
        PROVE  StaysOpen' /\ HeldInv' /\ LinesInv'
    <2>1. UNCHANGED <<HSFlag, uart, peerHeld>>
      BY <1>1 DEF SndTimeout, SndFull, SndStore, SndForce, SndCall, RecCall, RecTest,
         RecErr, RecGet, RecDec, FlushRx, FlushTx, SetQue, StaCom, EvtGet
    <2>2. pc' \notin {"trm_wait", "trm_drain", "closed", "opening"}
      BY <1>1, <1>o DEF SndTimeout, SndFull, SndStore, SndForce, SndCall, RecCall, RecTest,
         RecErr, RecGet, RecDec, FlushRx, FlushTx, SetQue, StaCom, EvtGet, RecReturn,
         StaysOpen, AnyOf
    <2> QED
      BY <2>1, <2>2, <1>o, <1>k DEF StaysOpen
  <1>2. ASSUME SndQueue \/ (\E c \in Data : SndImm(c))
        PROVE  StaysOpen' /\ HeldInv' /\ LinesInv'
    <2>1. /\ uart' = Kick(uart) /\ UNCHANGED <<HSFlag, peerHeld>>
          /\ pc' \in {"snd_force", "idle"}
      BY <1>2 DEF SndQueue, SndImm
    <2> QED
      BY <2>1, <1>t, <1>o, <1>k, KickKeeps DEF StaysOpen
  <1>3. CASE RecLines
    <2> DEFINE u == [uart EXCEPT !.mcr = uart.mcr \/ HHSLines]
    <2>1. u \in Uart /\ u.thr = uart.thr /\ u.tsr = uart.tsr /\ u.mcr = (uart.mcr \/ HHSLines)
      BY <1>t DEF Uart, HHSLines
    <2>2. uart' = u \/ uart' = Kick(u)
      BY <1>3 DEF RecLines
    <2>3. /\ uart'.thr = uart.thr /\ uart'.tsr = uart.tsr
          /\ uart'.mcr = (uart.mcr \/ HHSLines)
      BY <2>1, <2>2, KickKeeps
    <2>4. /\ "XOffSent" \in HSFlag => "XOnPending" \in HSFlag'
          /\ "XOnPending" \in HSFlag => "XOnPending" \in HSFlag'
          /\ "Discard" \notin HSFlag'
      BY <1>3, <1>o DEF RecLines, AnyOf, StaysOpen
    <2>5. AnyOf({"XOffSent", "XOnPending"}) => AnyOf({"XOffSent", "XOnPending"})'
      BY <2>4 DEF AnyOf
    <2>6. pc' = "rec_err" /\ peerHeld' = peerHeld
      BY <1>3 DEF RecLines
    <2> QED
      BY <2>3, <2>4, <2>5, <2>6, FlowKept DEF StaysOpen
  <1>4. CASE SetBrk \/ ClrBrk \/ ExtCom_FN1 \/ ExtCom_FN2
    <2>1. /\ uart' = uart \/ uart' = Kick(uart)
          /\ UNCHANGED <<peerHeld, pc>>
      BY <1>4 DEF SetBrk, ClrBrk, ExtCom_FN1, ExtCom_FN2, SetFlags
    <2>2. /\ \A x \in {"XOffSent", "XOnPending", "HHSDropped"} : x \in HSFlag => x \in HSFlag'
          /\ "Discard" \notin HSFlag'
      BY <1>4, <1>o DEF SetBrk, ClrBrk, ExtCom_FN1, ExtCom_FN2, SetFlags, StaysOpen
    <2>3. uart'.thr = uart.thr /\ uart'.tsr = uart.tsr /\ uart'.mcr = uart.mcr
      BY <2>1, <1>t, KickKeeps
    <2> QED
      BY <2>1, <2>2, <2>3, <1>o, <1>k DEF StaysOpen
  <1>5. CASE ExtCom_FN3 \/ SetCom
    <2>1. uart'.thr = uart.thr /\ uart'.tsr = uart.tsr /\ uart'.mcr = TRUE
      BY <1>5, <1>t DEF ExtCom_FN3, SetLine, SetCom, Programmed, Uart
    <2>2. UNCHANGED <<HSFlag, peerHeld, pc>>
      BY <1>5 DEF ExtCom_FN3, SetLine, SetCom
    <2> QED
      BY <2>1, <2>2, <1>o, <1>k DEF StaysOpen
  <1>6. /\ ~ExtCom_FN4 /\ ~TrmCom /\ ~TrmWait /\ ~TrmDrain /\ ~IniCom /\ ~IniDone
    BY <1>o DEF ExtCom_FN4, SetLine, TrmCom, TrmWait, TrmDrain, IniCom, IniDone, StaysOpen
  <1> QED
    BY <1>1, <1>2, <1>3, <1>4, <1>5, <1>6 DEF Application, Continue

\* A peer we have stopped is never forgotten, as long as the port stays open and the
\* application does not itself lower the line that stops the peer.
THEOREM PortRemembersPeer ==
  ASSUME Calls \cap {"TRMCOM", "FN4"} = {}
  PROVE  Spec => []PeerRemembered
  <1>1. Init => PInv
    <2> SUFFICES ASSUME Init PROVE PInv
      OBVIOUS
    <2>1. StaysOpen
      BY DEF Init, StaysOpen
    <2>2. uart.thr = NoChar /\ uart.tsr = NoChar /\ uart.mcr = TRUE /\ ~peerHeld
      BY DEF Init
    <2>3. HeldInv /\ LinesInv
      BY <2>2 DEF HeldInv, LinesInv, LastFlow, Char
    <2> QED
      BY <2>1, <2>3, TInvInit DEF PInv
  <1>2. PInv /\ [Next]_vars => PInv'
    <2> SUFFICES ASSUME PInv, [Next]_vars PROVE PInv'
      OBVIOUS
    <2>1. TInv'
      BY TInvStep DEF PInv
    <2>2. ASSUME UNCHANGED <<pc, HSFlag>>
          PROVE  StaysOpen'
      BY <2>2 DEF PInv, StaysOpen
    <2>3. CASE Line
      <3>1. UNCHANGED <<pc, HSFlag>>
        BY <2>3 DEF Line, TsrLoad, TsrDone, PeerSend, PeerLine, cpuVars
      <3> QED
        BY <2>1, <2>2, <2>3, <3>1, FlowLine DEF PInv
    <2>4. CASE CommInt \/ CommIntExit
      <3>1. UNCHANGED <<pc, HSFlag, uart, peerHeld>>
        BY <2>4 DEF CommInt, CommIntExit, peerVars
      <3>2. HeldInv' /\ LinesInv'
        BY <3>1, FlowKept DEF AnyOf
      <3> QED
        BY <2>1, <2>2, <3>1, <3>2 DEF PInv
    <2>5. CASE InterruptLoop
      <3>1. StaysOpen'
        BY <2>5, LoopStaysOpen DEF PInv
      <3>3. HeldInv' /\ LinesInv'
        BY <2>5, FlowReceive, FlowTransmit DEF InterruptLoop
      <3> QED
        BY <2>1, <3>1, <3>3 DEF PInv
    <2>6. CASE Application
      BY <2>1, <2>6, FlowApplication DEF PInv
    <2>7. CASE UNCHANGED vars
      <3>1. UNCHANGED <<pc, HSFlag, uart, peerHeld>>
        BY <2>7 DEF vars, cpuVars, peerVars
      <3>2. HeldInv' /\ LinesInv'
        BY <3>1, FlowKept DEF AnyOf
      <3> QED
        BY <2>1, <2>2, <3>1, <3>2 DEF PInv
    <2> QED
      BY <2>3, <2>4, <2>5, <2>6, <2>7 DEF Next, Interrupt
  <1>3. PInv => PeerRemembered
    BY DEF PInv, HeldInv, LinesInv, PeerRemembered, AnyOf
  <1> QED
    BY <1>1, <1>2, <1>3, PTL DEF Spec

-----------------------------------------------------------------------------
(* What the peer said is heard, or its loss is reported.                   *)

\* The port uses XON/XOFF both of whose characters reach their test in DataAvail:
\* neither is the end of file of a text mode port, and no parity or overrun error
\* takes one before.  The application does not read the errors away, set the flag
\* itself, set the UART up again under a character that has just come, or close
\* the port.
HearsFlow ==
  /\ "fOutX" \in Flags /\ ~EnqOrEtx
  /\ "fBinary" \in Flags \/ EOFChar \notin {XONChar, XOFFChar}
  /\ "OR" \notin LineErrors
  /\ "fPErrChar" \in Flags => "PE" \notin LineErrors
  /\ Calls \cap {"STACOM", "FN1", "FN2", "SETCOM", "TRMCOM"} = {}

\* What the driver will think the peer said when it has read its receiver.
Heard == uart.rbr = XOFFChar \/ (uart.rbr # XONChar /\ "XOffReceived" \in HSFlag)

ErrorsInv == uart.err \subseteq LineErrors /\ LSRShadow \subseteq LineErrors
HeardInv  == "RXOVER" \in ComErr \/ (peerStop <=> Heard)

LInv == TInv /\ StaysOpen /\ ErrorsInv /\ HeardInv

LEMMA KickHears ==
  \A u \in Uart : /\ Kick(u).rbr = u.rbr
                  /\ Kick(u).err \subseteq u.err
  BY DEF Kick, Uart

\* A step that takes no character from the receiver and leaves the flag alone.
LEMMA HeardKept ==
  ASSUME LInv,
         uart'.rbr = uart.rbr, uart'.err \subseteq uart.err, LSRShadow' = LSRShadow,
         "RXOVER" \in ComErr => "RXOVER" \in ComErr', peerStop' = peerStop,
         "XOffReceived" \in HSFlag' <=> "XOffReceived" \in HSFlag
  PROVE  ErrorsInv' /\ HeardInv'
  BY DEF LInv, ErrorsInv, HeardInv, Heard

\* A character is not overwritten in the receiver, so a flow-control character that
\* has come is there until it is read.
LEMMA HeardLine ==
  ASSUME LInv, HearsFlow, Line
  PROVE  StaysOpen' /\ ErrorsInv' /\ HeardInv'
  <1> USE DEF debVars, cpuVars, peerVars
  <1>t. uart \in Uart
    BY DEF LInv, TInv, TypeOK
  <1>o. StaysOpen'
    BY DEF LInv, StaysOpen, Line, TsrLoad, TsrDone, PeerSend, PeerLine
  <1>1. CASE TsrLoad \/ TsrDone \/ PeerLine
    <2>1. /\ uart'.rbr = uart.rbr /\ uart'.err = uart.err
          /\ UNCHANGED <<LSRShadow, ComErr, peerStop, HSFlag>>
      BY <1>1, <1>t DEF TsrLoad, TsrDone, PeerLine, Uart
    <2> QED
      BY <2>1, <1>o, HeardKept
  <1>2. CASE \E c \in PeerChars, e \in SUBSET LineErrors : PeerSend(c, e)
    <2> PICK c \in PeerChars, e \in SUBSET LineErrors : PeerSend(c, e)
      BY <1>2
    <2>1. uart.rbr = NoChar
      BY DEF PeerSend, HearsFlow
    <2>2. uart'.rbr = c /\ uart'.err = uart.err \cup e
      BY <1>t DEF PeerSend, Uart
    <2>3. /\ peerStop' <=> (c = XOFFChar \/ (c # XONChar /\ peerStop))
          /\ UNCHANGED <<LSRShadow, ComErr, HSFlag>>
      BY DEF PeerSend
    <2>4. ErrorsInv'
      BY <2>2, <2>3 DEF LInv, ErrorsInv
    <2>5. NoChar \notin {XONChar, XOFFChar}
      BY DEF Char
    <2>6. HeardInv'
      BY <2>1, <2>2, <2>3, <2>5 DEF LInv, HeardInv, Heard
    <2> QED
      BY <1>o, <2>4, <2>6
  <1> QED
    BY <1>1, <1>2 DEF Line

\* What becomes of a flow-control character: it is heard, or it is an overflow.
LEMMA FlowKinds ==
  ASSUME LInv, HearsFlow
  PROVE  /\ uart.rbr \in {XONChar, XOFFChar} /\ RxKind # "overflow" =>
              RxKind = IF uart.rbr = XOFFChar THEN "xoff" ELSE "xon"
         /\ RxKind = "xoff" => uart.rbr = XOFFChar
         /\ RxKind = "xon" => uart.rbr = XONChar
  <1>1. "fPErrChar" \in Flags => "PE" \notin LSRShadow
    BY DEF LInv, ErrorsInv, HearsFlow
  <1>2. NulChar \notin {XONChar, XOFFChar}
    OBVIOUS
  <1> QED
    BY <1>1, <1>2 DEF RxKind, HearsFlow

\* The receive passes.
LEMMA HeardReceive ==
  ASSUME LInv, HearsFlow,
         LineStat \/ ModemStatus \/ RxOverflow \/ RxStrip \/ RxEOF \/ RxXOff
           \/ RxXOn \/ RxDiscard \/ RxQueue
  PROVE  ErrorsInv' /\ HeardInv'
  <1> USE DEF debVars, cpuVars, peerVars
  <1>t. uart \in Uart /\ NoChar \notin {XONChar, XOFFChar}
    BY DEF LInv, TInv, TypeOK, Char
  <1>r. ASSUME NEW u \in Uart, u.rbr = NoChar, u.err = uart.err,
               uart' = u \/ uart' = Kick(u)
        PROVE  uart'.rbr = NoChar /\ uart'.err \subseteq uart.err
    BY <1>r, KickHears
  <1>a. ASSUME NEW f, AfterRead(f)
        PROVE  uart'.rbr = NoChar /\ uart'.err \subseteq uart.err
    <2>1. /\ [uart EXCEPT !.rbr = NoChar] \in Uart
          /\ [uart EXCEPT !.rbr = NoChar].rbr = NoChar
          /\ [uart EXCEPT !.rbr = NoChar].err = uart.err
      BY <1>t DEF Uart
    <2> QED
      BY <1>a, <2>1, <1>r DEF AfterRead
  <1>d. ASSUME NEW k, NEW ev, NEW er, DataAvail(k, ev, er)
        PROVE  /\ LSRShadow' = {} /\ RxKind = k /\ UNCHANGED peerStop
               /\ ComErr' = ComErr \cup LSRShadow \cup er
    BY <1>d DEF DataAvail
  <1>1. CASE LineStat
    <2>1. uart'.rbr = uart.rbr /\ uart'.err = {}
      BY <1>1, <1>t DEF LineStat, Uart
    <2>2. /\ LSRShadow' = uart.err \/ LSRShadow' = LSRShadow
          /\ UNCHANGED <<ComErr, peerStop, HSFlag>>
      BY <1>1 DEF LineStat
    <2> QED
      BY <2>1, <2>2 DEF LInv, ErrorsInv, HeardInv, Heard
  <1>2. CASE ModemStatus
    <2> DEFINE u == [uart EXCEPT !.dcts = FALSE]
    <2>1. u \in Uart /\ u.rbr = uart.rbr /\ u.err = uart.err
      BY <1>t DEF Uart
    <2>2. uart' = u \/ uart' = Kick(u)
      BY <1>2 DEF ModemStatus
    <2>3. uart'.rbr = uart.rbr /\ uart'.err \subseteq uart.err
      BY <2>1, <2>2, KickHears
    <2>4. /\ "XOffReceived" \in HSFlag' <=> "XOffReceived" \in HSFlag
          /\ UNCHANGED <<LSRShadow, ComErr, peerStop>>
      BY <1>2 DEF ModemStatus
    <2> QED
      BY <2>3, <2>4, HeardKept
  <1>3. CASE RxOverflow
    <2>1. DataAvail("overflow", {}, {"RXOVER"}) /\ AfterRead(FALSE)
      BY <1>3 DEF RxOverflow
    <2>2. LSRShadow' = {} /\ "RXOVER" \in ComErr'
      BY <2>1, <1>d
    <2>3. uart'.err \subseteq uart.err
      BY <2>1, <1>a
    <2> QED
      BY <2>2, <2>3 DEF LInv, ErrorsInv, HeardInv
  <1>k. ASSUME uart'.rbr = NoChar, uart'.err \subseteq uart.err, LSRShadow' = {},
               UNCHANGED peerStop, ComErr \subseteq ComErr',
               uart.rbr \notin {XONChar, XOFFChar},
               "XOffReceived" \in HSFlag' <=> "XOffReceived" \in HSFlag
        PROVE  ErrorsInv' /\ HeardInv'
    BY <1>k, <1>t DEF LInv, ErrorsInv, HeardInv, Heard
  <1>4. CASE RxStrip \/ RxEOF \/ RxDiscard
    <2>1. /\ LSRShadow' = {} /\ RxKind \in {"strip", "eof", "queue"}
          /\ UNCHANGED <<HSFlag, peerStop>> /\ ComErr \subseteq ComErr'
      BY <1>4, <1>d DEF RxStrip, RxEOF, RxDiscard
    <2>2. uart'.rbr = NoChar /\ uart'.err \subseteq uart.err
      BY <1>4, <1>a DEF RxStrip, RxEOF, RxDiscard
    <2>3. uart.rbr \notin {XONChar, XOFFChar}
      BY <2>1, FlowKinds
    <2> QED
      BY <2>1, <2>2, <2>3, <1>k
  <1>5. CASE RxXOff
    <2>1. /\ LSRShadow' = {} /\ RxKind = "xoff" /\ peerStop' = peerStop
          /\ ComErr \subseteq ComErr'
      BY <1>5, <1>d DEF RxXOff
    <2>2. uart.rbr = XOFFChar
      BY <2>1, FlowKinds
    <2>3. HSFlag' = HSFlag \cup {"XOffReceived"}
      BY <1>5 DEF RxXOff, HearsFlow
    <2>4. uart'.rbr = NoChar /\ uart'.err \subseteq uart.err
      BY <1>5, <1>a DEF RxXOff
    <2> QED
      BY <2>1, <2>2, <2>3, <2>4, <1>t DEF LInv, ErrorsInv, HeardInv, Heard
  <1>6. CASE RxXOn
    <2>1. /\ LSRShadow' = {} /\ RxKind = "xon" /\ peerStop' = peerStop
          /\ ComErr \subseteq ComErr'
      BY <1>6, <1>d DEF RxXOn
    <2>2. uart.rbr = XONChar /\ XONChar # XOFFChar
      BY <2>1, FlowKinds
    <2>3. HSFlag' = HSFlag \ {"XOffReceived"}
      BY <1>6 DEF RxXOn
    <2>4. uart'.rbr = NoChar /\ uart'.err \subseteq uart.err
      BY <1>6, <1>a DEF RxXOn
    <2> QED
      BY <2>1, <2>2, <2>3, <2>4, <1>t DEF LInv, ErrorsInv, HeardInv, Heard
  <1>7. CASE RxQueue
    <2> DEFINE stop == rx.count + 1 >= XOffPoint /\ ~AnyOf(HSSent \cup {"XOffPending"})
               drop == stop /\ HHSLines
               u == [uart EXCEPT !.rbr = NoChar, !.mcr = uart.mcr /\ ~drop]
    <2>1. /\ LSRShadow' = {} /\ RxKind = "queue" /\ peerStop' = peerStop
          /\ ComErr \subseteq ComErr'
      BY <1>7, <1>d DEF RxQueue
    <2>2. uart.rbr \notin {XONChar, XOFFChar}
      BY <2>1, FlowKinds
    <2>3. "XOffReceived" \in HSFlag' <=> "XOffReceived" \in HSFlag
      BY <1>7 DEF RxQueue
    <2>4. uart' = u \/ uart' = Kick(u)
      BY <1>7 DEF RxQueue
    <2>5. u \in Uart /\ u.rbr = NoChar /\ u.err = uart.err
      BY <1>t DEF Uart
    <2>6. uart'.rbr = NoChar /\ uart'.err \subseteq uart.err
      BY <2>4, <2>5, <1>r
    <2> QED
      BY <2>1, <2>2, <2>3, <2>6, <1>k
  <1> QED
    BY <1>1, <1>2, <1>3, <1>4, <1>5, <1>6, <1>7

\* The transmit passes do not touch the receiver, and without the ENQ and ETX
\* protocols only a received character sets or clears XOffReceived.
LEMMA HeardTransmit ==
  ASSUME LInv, HearsFlow,
         XmitBusy \/ XmitFlow \/ XmitStop \/ XmitImmed \/ XmitDone \/ XmitMark
           \/ XmitQueue
  PROVE  ErrorsInv' /\ HeardInv'
  <1> USE DEF debVars, cpuVars, peerVars
  <1>t. uart \in Uart
    BY DEF LInv, TInv, TypeOK
  <1>1. ~XmitMark
    BY DEF XmitMark, TxMark, HearsFlow, EnqOrEtx
  <1>2. UNCHANGED <<LSRShadow, ComErr, peerStop>>
    BY <1>1 DEF XmitBusy, XmitFlow, XmitStop, XmitImmed, XmitDone, XmitQueue, XmitEmpty
  <1>3. "XOffReceived" \in HSFlag' <=> "XOffReceived" \in HSFlag
    <2>1. CASE XmitFlow
      BY <2>1 DEF XmitFlow
    <2>2. CASE XmitBusy \/ XmitStop \/ XmitImmed \/ XmitDone \/ XmitQueue
      BY <2>2 DEF XmitBusy, XmitStop, XmitImmed, XmitDone, XmitQueue
    <2> QED
      BY <1>1, <2>1, <2>2
  <1>4. XmitRegs \in Uart /\ XmitRegs.rbr = uart.rbr /\ XmitRegs.err = {}
    BY <1>t DEF XmitRegs, Uart
  <1>5. \/ \E d : uart' = [XmitRegs EXCEPT !.dcts = d]
        \/ \E c : Send(c)
        \/ Disarm
    BY <1>1 DEF XmitBusy, XmitFlow, XmitStop, XmitImmed, XmitDone, XmitQueue
  <1>6. uart'.rbr = uart.rbr /\ uart'.err = {}
    BY <1>4, <1>5 DEF Send, Disarm, Uart
  <1> QED
    BY <1>2, <1>3, <1>6, HeardKept

\* The entry points that are left neither read the receiver nor touch the flag.
LEMMA HeardApplication ==
  ASSUME LInv, HearsFlow, Application
  PROVE  StaysOpen' /\ ErrorsInv' /\ HeardInv'
  <1> USE DEF debVars, cpuVars, peerVars, Call, At, GoTo
  <1>t. uart \in Uart
    BY DEF LInv, TInv, TypeOK
  <1>o. StaysOpen
    BY DEF LInv
  <1>1. ASSUME SndTimeout \/ SndFull \/ (\E c \in Data : SndStore(c)) \/ SndForce \/ SndCall
                 \/ RecCall \/ RecTest \/ RecErr \/ RecGet \/ RecDec \/ FlushRx \/ FlushTx
                 \/ SetQue \/ EvtGet
        PROVE  StaysOpen' /\ ErrorsInv' /\ HeardInv'
    <2>1. UNCHANGED <<HSFlag, uart, peerStop, LSRShadow>> /\ ComErr \subseteq ComErr'
      BY <1>1 DEF SndTimeout, SndFull, SndStore, SndForce, SndCall, RecCall, RecTest,
         RecErr, RecGet, RecDec, FlushRx, FlushTx, SetQue, EvtGet
    <2>2. pc' \notin {"trm_wait", "trm_drain", "closed", "opening"}
      BY <1>1, <1>o DEF SndTimeout, SndFull, SndStore, SndForce, SndCall, RecCall, RecTest,
         RecErr, RecGet, RecDec, FlushRx, FlushTx, SetQue, EvtGet, RecReturn,
         StaysOpen, AnyOf
    <2> QED
      BY <2>1, <2>2, <1>o, HeardKept DEF StaysOpen
  <1>2. ASSUME SndQueue \/ (\E c \in Data : SndImm(c))
        PROVE  StaysOpen' /\ ErrorsInv' /\ HeardInv'
    <2>1. /\ uart' = Kick(uart) /\ UNCHANGED <<HSFlag, peerStop, LSRShadow, ComErr>>
          /\ pc' \in {"snd_force", "idle"}
      BY <1>2 DEF SndQueue, SndImm
    <2> QED
      BY <2>1, <1>t, <1>o, KickHears, HeardKept DEF StaysOpen
  <1>3. CASE RecLines
    <2> DEFINE u == [uart EXCEPT !.mcr = uart.mcr \/ HHSLines]
    <2>1. u \in Uart /\ u.rbr = uart.rbr /\ u.err = uart.err
      BY <1>t DEF Uart, HHSLines
    <2>2. uart' = u \/ uart' = Kick(u)
      BY <1>3 DEF RecLines
    <2>3. uart'.rbr = uart.rbr /\ uart'.err \subseteq uart.err
      BY <2>1, <2>2, KickHears
    <2>4. /\ "XOffReceived" \in HSFlag' <=> "XOffReceived" \in HSFlag
          /\ "Discard" \in HSFlag' => "Discard" \in HSFlag
      BY <1>3 DEF RecLines
    <2>5. pc' = "rec_err" /\ UNCHANGED <<peerStop, LSRShadow, ComErr>>
      BY <1>3 DEF RecLines
    <2> QED
      BY <2>3, <2>4, <2>5, <1>o, HeardKept DEF StaysOpen
  <1>4. CASE SetBrk \/ ClrBrk
    <2>1. /\ UNCHANGED <<uart, peerStop, LSRShadow, ComErr, pc>>
          /\ "XOffReceived" \in HSFlag' <=> "XOffReceived" \in HSFlag
          /\ "Discard" \in HSFlag' => "Discard" \in HSFlag
      BY <1>4 DEF SetBrk, ClrBrk, SetFlags
    <2> QED
      BY <2>1, <1>o, HeardKept DEF StaysOpen
  <1>5. CASE ExtCom_FN3 \/ ExtCom_FN4
    <2>1. /\ uart'.rbr = uart.rbr /\ uart'.err = uart.err
          /\ UNCHANGED <<HSFlag, peerStop, LSRShadow, ComErr, pc>>
      BY <1>5, <1>t DEF ExtCom_FN3, ExtCom_FN4, SetLine, Uart
    <2> QED
      BY <2>1, <1>o, HeardKept DEF StaysOpen
  <1>6. /\ ~StaCom /\ ~ExtCom_FN1 /\ ~ExtCom_FN2 /\ ~SetCom /\ ~TrmCom
        /\ ~TrmWait /\ ~TrmDrain /\ ~IniCom /\ ~IniDone
    BY <1>o DEF StaCom, ExtCom_FN1, ExtCom_FN2, SetFlags, SetCom, TrmCom, TrmWait, TrmDrain,
       IniCom, IniDone, StaysOpen, HearsFlow
  <1> QED
    BY <1>1, <1>2, <1>3, <1>4, <1>5, <1>6 DEF Application, Continue

\* The driver's idea of whether the peer has stopped us is the peer's own, except
\* while a flow-control character waits in the receiver, or after one was lost and
\* the loss reported as an overflow of the receive queue; under HearsFlow, for
\* queues of any size and whatever the other settings of the port.
THEOREM PortHearsPeer ==
  ASSUME HearsFlow
  PROVE  Spec => []FlowLossReported
  <1>1. Init => LInv
    <2> SUFFICES ASSUME Init PROVE LInv
      OBVIOUS
    <2>1. /\ uart.rbr = NoChar /\ uart.err = {} /\ LSRShadow = {} /\ ~peerStop
          /\ HSFlag = {}
      BY DEF Init
    <2>2. StaysOpen
      BY DEF Init, StaysOpen
    <2>3. HeardInv /\ ErrorsInv
      BY <2>1 DEF HeardInv, Heard, ErrorsInv, Char
    <2> QED
      BY <2>2, <2>3, TInvInit DEF LInv
  <1>2. LInv /\ [Next]_vars => LInv'
    <2> SUFFICES ASSUME LInv, [Next]_vars PROVE LInv'
      OBVIOUS
    <2>1. TInv'
      BY TInvStep DEF LInv
    <2>2. ASSUME UNCHANGED <<pc, HSFlag, uart, LSRShadow, ComErr, peerStop>>
          PROVE  LInv'
      BY <2>1, <2>2, HeardKept DEF LInv, StaysOpen
    <2>3. CASE Line
      BY <2>1, <2>3, HeardLine DEF LInv
    <2>4. CASE CommInt \/ CommIntExit
      BY <2>4, <2>2 DEF CommInt, CommIntExit, debVars, peerVars
    <2>5. CASE InterruptLoop
      <3>1. StaysOpen'
        BY <2>5, LoopStaysOpen DEF LInv
      <3>2. ErrorsInv' /\ HeardInv'
        BY <2>5, HeardReceive, HeardTransmit DEF InterruptLoop
      <3> QED
        BY <2>1, <3>1, <3>2 DEF LInv
    <2>6. CASE Application
      BY <2>1, <2>6, HeardApplication DEF LInv
    <2>7. CASE UNCHANGED vars
      BY <2>7, <2>2 DEF vars, cpuVars, debVars, peerVars
    <2> QED
      BY <2>3, <2>4, <2>5, <2>6, <2>7 DEF Next, Interrupt
  <1>3. LInv => FlowLossReported
    BY DEF LInv, HeardInv, Heard, FlowLossReported, AnyOf, TInv, TypeOK
  <1> QED
    BY <1>1, <1>2, <1>3, PTL DEF Spec

-----------------------------------------------------------------------------
(* A ring of n slots, read as a sequence: k items from slot g on.          *)

HIDE CharAssumption

\* The slot k places after slot g.
Slot(g, k, n) == IF g + k < n THEN g + k ELSE g + k - n

View(buf, g, k, n) == [i \in 1 .. k |-> buf[Slot(g, i - 1, n)]]

\* What the model calls the contents of a ring is such a view.
LEMMA ContentsView ==
  \A q, n, taken : Contents(q, n, taken) = View(q.buf, q.get, q.count - taken, n)
  BY DEF Contents, View, Slot

\* The ring new is the ring buf with c stored in the slot j.
Stored(new, buf, j, c, n) ==
  \A i \in 0 .. n - 1 : new[i] = IF i = j THEN c ELSE buf[i]

\* The slots of the view hold items of S.
Holds(buf, g, k, n, S) == \A i \in 1 .. k : buf[Slot(g, i - 1, n)] \in S

\* The slots of a ring are its own, and those less than a turn apart differ.
LEMMA SlotType ==
  ASSUME NEW n \in Nat \ {0}, NEW g \in 0 .. n - 1
  PROVE  /\ \A k \in 0 .. n : Slot(g, k, n) \in 0 .. n - 1
         /\ \A k \in 0 .. n - 1 : \A j \in 0 .. n - 1 :
              j # k => Slot(g, k, n) # Slot(g, j, n)
         /\ \A k \in 0 .. n - 1 : /\ Slot(g, k + 1, n) = Wrap(Slot(g, k, n), n)
                                  /\ Slot(g, k + 1, n) = Slot(Wrap(g, n), k, n)
  BY DEF Slot, Wrap

\* A view of a ring is a sequence of what the ring holds.
LEMMA ViewSeq ==
  ASSUME NEW S, NEW n, NEW buf, NEW g, NEW k \in Nat, Holds(buf, g, k, n, S)
  PROVE  View(buf, g, k, n) \in Seq(S) /\ Len(View(buf, g, k, n)) = k
  <1>1. View(buf, g, k, n) \in [1 .. k -> S]
    BY DEF View, Holds
  <1>2. View(buf, g, k, n) \in Seq(S) /\ DOMAIN View(buf, g, k, n) = 1 .. k
    BY <1>1, SeqDef
  <1>3. Len(View(buf, g, k, n)) = k
    BY <1>2, LenProperties
  <1> QED
    BY <1>2, <1>3

\* Storing an item in the slot after the last one changes no item of the view.
LEMMA ViewStore ==
  ASSUME NEW S, NEW n \in Nat \ {0}, NEW buf, NEW new,
         NEW g \in 0 .. n - 1, NEW k \in 0 .. n - 1, Holds(buf, g, k, n, S),
         NEW c, Stored(new, buf, Slot(g, k, n), c, n)
  PROVE  /\ View(new, g, k, n) = View(buf, g, k, n)
         /\ Holds(new, g, k, n, S)
         /\ new[Slot(g, k, n)] = c
  <1>1. ASSUME NEW i \in 1 .. k
        PROVE  new[Slot(g, i - 1, n)] = buf[Slot(g, i - 1, n)]
    <2>1. i - 1 \in 0 .. n - 1 /\ i - 1 # k /\ i - 1 \in 0 .. n
      OBVIOUS
    <2>2. Slot(g, i - 1, n) # Slot(g, k, n) /\ Slot(g, i - 1, n) \in 0 .. n - 1
      BY <2>1, SlotType
    <2> QED
      BY <2>2 DEF Stored
  <1>2. Slot(g, k, n) \in 0 .. n - 1
    <2>1. k \in 0 .. n
      OBVIOUS
    <2> QED
      BY <2>1, SlotType
  <1>3. new[Slot(g, k, n)] = c
    BY <1>2 DEF Stored
  <1>4. View(new, g, k, n) = View(buf, g, k, n)
    BY <1>1 DEF View
  <1>5. Holds(new, g, k, n, S)
    BY <1>1 DEF Holds
  <1> QED
    BY <1>3, <1>4, <1>5

\* When the slot after the last one is counted, its item is the last of the view.
LEMMA ViewAppend ==
  ASSUME NEW S, NEW n, NEW buf, NEW g, NEW k \in Nat,
         Holds(buf, g, k, n, S), buf[Slot(g, k, n)] \in S
  PROVE  /\ Holds(buf, g, k + 1, n, S)
         /\ View(buf, g, k + 1, n) = Append(View(buf, g, k, n), buf[Slot(g, k, n)])
  <1>1. Holds(buf, g, k + 1, n, S)
    <2> SUFFICES ASSUME NEW i \in 1 .. k + 1 PROVE buf[Slot(g, i - 1, n)] \in S
      BY DEF Holds
    <2>1. CASE i \in 1 .. k
      BY <2>1 DEF Holds
    <2>2. CASE i - 1 = k
      BY <2>2
    <2> QED
      BY <2>1, <2>2
  <1> DEFINE c == buf[Slot(g, k, n)]
             m == k + 1
             old == View(buf, g, k, n)
             more == View(buf, g, m, n)
  <1>2. m \in Nat /\ Holds(buf, g, m, n, S)
    BY <1>1
  <1>3. /\ \A i \in 1 .. k : old[i] = buf[Slot(g, i - 1, n)]
        /\ \A i \in 1 .. k + 1 : more[i] = buf[Slot(g, i - 1, n)]
    BY DEF View
  <1>4. old \in Seq(S) /\ Len(old) = k
    BY ViewSeq
  <1> HIDE DEF old, m
  <1>5. more \in Seq(S) /\ Len(more) = m
    BY <1>2, ViewSeq
  <1> HIDE DEF more
  <1>6. /\ Append(old, c) \in Seq(S) /\ Len(Append(old, c)) = m
        /\ \A i \in 1 .. k : Append(old, c)[i] = old[i]
        /\ Append(old, c)[m] = c
    BY <1>4, AppendProperties DEF m
  <1>7. ASSUME NEW i \in 1 .. m
        PROVE  more[i] = Append(old, c)[i]
    <2>1. CASE i \in 1 .. k
      BY <2>1, <1>3, <1>6 DEF m
    <2>2. CASE i = m
      <3>1. more[m] = c
        BY <1>3 DEF m
      <3> QED
        BY <2>2, <3>1, <1>6
    <2>3. i \in 1 .. k \/ i = m
      BY DEF m
    <2> QED
      BY <2>1, <2>2, <2>3
  <1>8. more = Append(old, c)
    BY <1>5, <1>6, <1>7, SeqEqual
  <1> QED
    BY <1>1, <1>8 DEF old, more, m

\* The view that begins one slot later and is one shorter is the tail.
LEMMA ViewTail ==
  ASSUME NEW S, NEW n \in Nat \ {0}, NEW buf, NEW g \in 0 .. n - 1, NEW k \in 1 .. n,
         Holds(buf, g, k, n, S)
  PROVE  /\ Holds(buf, Wrap(g, n), k - 1, n, S)
         /\ View(buf, g, k, n) # << >>
         /\ View(buf, Wrap(g, n), k - 1, n) = Tail(View(buf, g, k, n))
  <1>1. ASSUME NEW i \in 1 .. k - 1
        PROVE  /\ i + 1 \in 1 .. k /\ (i + 1) - 1 = i
               /\ Slot(Wrap(g, n), i - 1, n) = Slot(g, i, n)
    <2>1. i - 1 \in 0 .. n - 1 /\ (i - 1) + 1 = i /\ i + 1 \in 1 .. k /\ (i + 1) - 1 = i
      OBVIOUS
    <2> QED
      BY <2>1, SlotType
  <1> DEFINE h == Wrap(g, n)
             m == k - 1
             old == View(buf, g, k, n)
             less == View(buf, h, m, n)
  <1>2. m \in Nat /\ Holds(buf, h, m, n, S)
    BY <1>1 DEF Holds
  <1>3. /\ \A i \in 1 .. k : old[i] = buf[Slot(g, i - 1, n)]
        /\ \A i \in 1 .. k - 1 : less[i] = buf[Slot(h, i - 1, n)]
    BY DEF View
  <1>4. old \in Seq(S) /\ Len(old) = k
    BY ViewSeq
  <1> HIDE DEF old, m, h
  <1>5. less \in Seq(S) /\ Len(less) = m
    BY <1>2, ViewSeq
  <1> HIDE DEF less
  <1>6. old # << >>
    BY <1>4, EmptySeq
  <1>7. /\ Tail(old) \in Seq(S) /\ Len(Tail(old)) = m
        /\ \A i \in 1 .. m : Tail(old)[i] = old[i + 1]
    BY <1>4, <1>6, HeadTailProperties DEF m
  <1>8. ASSUME NEW i \in 1 .. m
        PROVE  less[i] = Tail(old)[i]
    BY <1>1, <1>3, <1>7 DEF m, h
  <1>9. less = Tail(old)
    BY <1>5, <1>7, <1>8, SeqEqual
  <1> QED
    BY <1>2, <1>6, <1>9 DEF old, less, m, h

\* The view of no items is the empty sequence.
LEMMA ViewEmpty == \A n, buf, g : View(buf, g, 0, n) = << >>
  <1> TAKE n, buf, g
  <1>1. Holds(buf, g, 0, n, {})
    BY DEF Holds
  <1>2. View(buf, g, 0, n) \in Seq({}) /\ Len(View(buf, g, 0, n)) = 0
    BY <1>1, ViewSeq
  <1> QED
    BY <1>2, EmptySeq

-----------------------------------------------------------------------------
(* The receive ring.                                                       *)

Closing == "Discard" \in HSFlag

\* The next character goes to the slot after the last one held.  $RECCOM is in
\* between two steps when it has passed over the first and not yet counted it;
\* $TRMCOM sets the count alone to zero, and nothing is queued until $INICOM.
RxInv ==
  /\ Closing => rx.count = 0
  /\ ~Closing => rx.put = Slot(rx.get, rx.count - Taken, QInSize)

RxContents == Contents(rx, QInSize, Taken)

\* All that a step of the port may do to the receive ring.
RxSame  == UNCHANGED rx /\ Taken' = Taken /\ Closing' = Closing
RxPut   == /\ rx.count < QInSize /\ ~Closing /\ ~Closing' /\ Taken' = Taken
           /\ \E c \in Char : rx' = Put(rx, c, QInSize)
RxPass  == /\ rx.count # 0 /\ Taken = 0 /\ Taken' = 1 /\ Closing' = Closing
           /\ rx' = [rx EXCEPT !.get = Wrap(rx.get, QInSize)]
RxCount == /\ Taken = 1 /\ Taken' = 0 /\ Closing' = Closing
           /\ rx' = [rx EXCEPT !.count = rx.count - 1]
RxEmpty == rx' = Emptied(rx) /\ Taken' = 0
RxClose == rx' = [rx EXCEPT !.count = 0] /\ Closing' /\ Taken' = 0

\* The interrupt queues a character or leaves the ring alone.
LEMMA RxInterrupt == TInv /\ InterruptLoop => RxSame \/ RxPut
  <1> SUFFICES ASSUME TInv, InterruptLoop PROVE RxSame \/ RxPut
    OBVIOUS
  <1>p. pc' = pc /\ Taken' = Taken
    <2>1. ASSUME NEW k, NEW e, NEW f, DataAvail(k, e, f)
          PROVE  pc' = pc
      BY <2>1 DEF DataAvail, cpuVars
    <2>2. ASSUME NEW r, XmitEmpty(r)
          PROVE  pc' = pc
      BY <2>2 DEF XmitEmpty, cpuVars
    <2>3. CASE LineStat \/ ModemStatus
      BY <2>3 DEF LineStat, ModemStatus, cpuVars, Taken
    <2>4. CASE RxOverflow \/ RxStrip \/ RxEOF \/ RxXOff \/ RxXOn \/ RxDiscard \/ RxQueue
      BY <2>1, <2>4 DEF RxOverflow, RxStrip, RxEOF, RxXOff, RxXOn, RxDiscard, RxQueue, Taken
    <2>5. CASE XmitBusy \/ XmitFlow \/ XmitStop \/ XmitImmed \/ XmitDone \/ XmitMark
                 \/ XmitQueue
      BY <2>2, <2>5 DEF XmitBusy, XmitFlow, XmitStop, XmitImmed, XmitDone, XmitMark,
         XmitQueue, Taken
    <2> QED
      BY <2>3, <2>4, <2>5 DEF InterruptLoop
  <1>s. ASSUME rx' = rx, "Discard" \in HSFlag' <=> "Discard" \in HSFlag
        PROVE  RxSame
    BY <1>p, <1>s DEF RxSame, Closing
  <1>1. CASE LineStat \/ ModemStatus \/ RxOverflow \/ RxStrip \/ RxEOF \/ RxDiscard
    BY <1>1, <1>s DEF LineStat, ModemStatus, RxOverflow, RxStrip, RxEOF, RxDiscard
  <1>2. CASE RxXOff \/ RxXOn
    BY <1>2, <1>s DEF RxXOff, RxXOn
  <1>3. CASE RxQueue
    <2>1. uart.rbr # NoChar /\ RxKind = "queue"
      BY <1>3 DEF RxQueue, DataAvail, IIR, DataInt
    <2>2. rx.count < QInSize
      BY <2>1 DEF RxKind, RxRing, TInv, TypeOK
    <2>3. RxChar \in Char
      BY <2>1 DEF RxChar, Uart, Char, TInv, TypeOK
    <2>4. rx' = Put(rx, RxChar, QInSize) /\ ~Closing /\ ~Closing'
      BY <1>3 DEF RxQueue, AnyOf, Closing
    <2> QED
      BY <1>p, <2>2, <2>3, <2>4 DEF RxPut
  <1>4. CASE XmitBusy \/ XmitStop \/ XmitImmed \/ XmitDone \/ XmitQueue
    BY <1>4, <1>s DEF XmitBusy, XmitStop, XmitImmed, XmitDone, XmitQueue, XmitEmpty
  <1>5. CASE XmitFlow \/ XmitMark
    BY <1>5, <1>s DEF XmitFlow, XmitMark, XmitEmpty
  <1> QED
    BY <1>1, <1>2, <1>3, <1>4, <1>5 DEF InterruptLoop

\* The entry points take a character in two steps, empty the ring, or leave it alone.
LEMMA RxApplication ==
  Application => RxSame \/ RxPass \/ RxCount \/ RxEmpty \/ RxClose
  <1> SUFFICES ASSUME Application PROVE RxSame \/ RxPass \/ RxCount \/ RxEmpty \/ RxClose
    OBVIOUS
  <1> USE DEF Taken, Closing, cpuVars, Call, At, GoTo
  <1>1. CASE SndTimeout \/ SndFull \/ (\E c \in Data : SndStore(c) \/ SndImm(c))
               \/ SndQueue \/ SndForce \/ SndCall
    BY <1>1 DEF RxSame, SndTimeout, SndFull, SndStore, SndImm, SndQueue, SndForce, SndCall
  <1>2. CASE RecCall \/ RecTest \/ RecErr \/ FlushTx \/ StaCom \/ EvtGet
    BY <1>2 DEF RxSame, RecCall, RecTest, RecErr, RecReturn, FlushTx, StaCom, EvtGet
  <1>3. CASE RecLines
    BY <1>3 DEF RxSame, RecLines, HSSent
  <1>4. CASE RecGet
    BY <1>4 DEF RxSame, RxPass, RecGet, RecReturn
  <1>5. CASE RecDec
    BY <1>5 DEF RxCount, RecDec, RecReturn
  <1>6. CASE FlushRx \/ SetQue \/ IniCom
    BY <1>6 DEF RxEmpty, FlushRx, SetQue, IniCom
  <1>7. CASE TrmCom
    BY <1>7 DEF RxClose, TrmCom
  <1>8. CASE SetBrk \/ ClrBrk \/ ExtCom_FN1 \/ ExtCom_FN2
    BY <1>8 DEF RxSame, SetBrk, ClrBrk, ExtCom_FN1, ExtCom_FN2, SetFlags
  <1>9. CASE ExtCom_FN3 \/ ExtCom_FN4 \/ SetCom
    BY <1>9 DEF RxSame, ExtCom_FN3, ExtCom_FN4, SetLine, SetCom
  <1>10. CASE TrmWait \/ TrmDrain \/ IniDone
    BY <1>10 DEF RxSame, TrmWait, TrmDrain, IniDone
  <1> QED
    BY <1>1, <1>2, <1>3, <1>4, <1>5, <1>6, <1>7, <1>8, <1>9, <1>10
       DEF Application, Continue

LEMMA RxSteps ==
  TInv /\ [Next]_vars => RxSame \/ RxPut \/ RxPass \/ RxCount \/ RxEmpty \/ RxClose
  <1> SUFFICES ASSUME TInv, [Next]_vars
               PROVE  RxSame \/ RxPut \/ RxPass \/ RxCount \/ RxEmpty \/ RxClose
    OBVIOUS
  <1>1. CASE Line \/ CommInt \/ CommIntExit \/ UNCHANGED vars
    BY <1>1 DEF RxSame, Taken, Closing, Line, TsrLoad, TsrDone, PeerSend, PeerLine,
       CommInt, CommIntExit, vars, cpuVars
  <1> QED
    BY <1>1, RxInterrupt, RxApplication DEF Next, Interrupt

\* Whatever a step does to the receive ring, it keeps the invariant and is a step
\* of a queue on what the ring holds.
LEMMA RxRefines ==
  ASSUME TInv, RxInv, [Next]_vars
  PROVE  RxInv' /\ [RxQueueSpec!Next]_RxContents
  <1> DEFINE n == QInSize
             t == Taken
             k == rx.count - t
             g == rx.get
             b == rx.buf
  <1>t. /\ n \in Nat \ {0} /\ b \in [0 .. n - 1 -> Char] /\ g \in 0 .. n - 1
        /\ rx.put \in 0 .. n - 1 /\ rx.count \in 0 .. n
        /\ t \in {0, 1} /\ (t = 1 => rx.count > 0)
    BY DEF TInv, TypeOK, RxRing, Taken
  <1>f. rx = [buf |-> b, get |-> g, put |-> rx.put, count |-> rx.count]
    BY DEF TInv, TypeOK, RxRing
  <1>v. RxContents = View(b, g, k, n)
    BY ContentsView DEF RxContents
  <1>w. RxContents' = View(rx'.buf, rx'.get, rx'.count - Taken', n)
    BY ContentsView DEF RxContents
  <1>i. RxInv = /\ Closing => rx.count = 0
                /\ ~Closing => rx.put = Slot(g, k, n)
    BY DEF RxInv
  <1>j. RxInv' = /\ Closing' => rx'.count = 0
                 /\ ~Closing' => rx'.put = Slot(rx'.get, rx'.count - Taken', n)
    BY DEF RxInv
  <1> HIDE DEF n, t, g, b
  <1>k. k \in 0 .. n
    BY <1>t
  <1>h. Holds(b, g, k, n, Char)
    <2> SUFFICES ASSUME NEW i \in 1 .. k PROVE b[Slot(g, i - 1, n)] \in Char
      BY DEF Holds
    <2>1. i - 1 \in 0 .. n
      BY <1>t
    <2>2. Slot(g, i - 1, n) \in 0 .. n - 1
      BY <1>t, <2>1, SlotType
    <2> QED
      BY <1>t, <2>2
  <1>n. ASSUME RxContents' = RxContents
               \/ (\E c \in Char : Len(RxContents) < QInSize /\ RxContents' = Append(RxContents, c))
               \/ (RxContents # << >> /\ RxContents' = Tail(RxContents))
               \/ RxContents' = << >>
        PROVE  [RxQueueSpec!Next]_RxContents
    BY <1>n DEF RxQueueSpec!Next, RxQueueSpec!Enter, RxQueueSpec!Leave, RxQueueSpec!GiveUp,
       RxContents
  <1>1. CASE RxSame
    <2>1. RxContents' = RxContents
      BY <1>1, <1>v, <1>w DEF RxSame, t, g, b
    <2> QED
      BY <1>1, <1>n, <2>1 DEF RxSame, RxInv
  <1>2. CASE RxPut
    <2>1. PICK c \in Char : rx' = Put(rx, c, QInSize)
      BY <1>2 DEF RxPut
    <2>2. /\ rx'.buf = [b EXCEPT ![rx.put] = c] /\ rx'.get = g
          /\ rx'.count = rx.count + 1 /\ rx'.put = Wrap(rx.put, n)
      BY <1>f, <2>1 DEF Put, n
    <2>3. /\ Taken' = t /\ ~Closing /\ ~Closing' /\ rx.count < n
          /\ rx.put = Slot(g, k, n)
      BY <1>2, <1>i DEF RxPut, RxInv, n, t
    <2>4. k \in 0 .. n - 1 /\ (rx.count + 1) - t = k + 1
      BY <1>t, <2>3
    <2>5. rx'.put = Slot(g, k + 1, n)
      <3> HIDE DEF k
      <3>1. Slot(g, k + 1, n) = Wrap(Slot(g, k, n), n)
        BY <1>t, <2>4, SlotType
      <3> QED
        BY <3>1, <2>2, <2>3
    <2>6. RxInv'
      BY <1>j, <2>2, <2>3, <2>4, <2>5
    <2>7. Len(RxContents) < QInSize
      BY <1>h, <1>v, <2>4, ViewSeq DEF n
    <2>8. View(rx'.buf, g, k + 1, n) = Append(View(b, g, k, n), c)
      <3> DEFINE a == [b EXCEPT ![Slot(g, k, n)] = c]
      <3>1. rx'.buf = a /\ a = [b EXCEPT ![Slot(g, k, n)] = c]
        BY <2>2, <2>3
      <3> HIDE DEF k, a
      <3>2. /\ View(a, g, k, n) = View(b, g, k, n)
            /\ Holds(a, g, k, n, Char) /\ a[Slot(g, k, n)] = c
        <4>1. /\ n \in Nat \ {0} /\ b \in [0 .. n - 1 -> Char] /\ g \in 0 .. n - 1
              /\ k \in 0 .. n - 1
          BY <1>t, <2>4
        <4>2. Stored(a, b, Slot(g, k, n), c, n)
          BY <1>t, <3>1 DEF Stored
        <4> QED
          BY <4>1, <4>2, <1>h, ViewStore
      <3>3. k \in Nat
        BY <1>t, <2>4
      <3>4. View(a, g, k + 1, n) = Append(View(a, g, k, n), a[Slot(g, k, n)])
        BY <3>2, <3>3, ViewAppend
      <3> QED
        BY <3>1, <3>2, <3>4
    <2>9. RxContents' = Append(RxContents, c)
      BY <1>v, <1>w, <2>2, <2>3, <2>4, <2>8
    <2> QED
      BY <1>n, <2>6, <2>7, <2>9
  <1>3. CASE RxPass
    <2>1. /\ rx'.buf = b /\ rx'.get = Wrap(g, n) /\ rx'.count = rx.count
          /\ rx'.put = rx.put
      BY <1>3, <1>f DEF RxPass, n, g
    <2>2. /\ rx.count # 0 /\ t = 0 /\ Taken' = 1 /\ Closing' = Closing
      BY <1>3 DEF RxPass, t
    <2>3. k \in 1 .. n /\ rx.count - 1 = k - 1 /\ k - 1 \in 0 .. n - 1 /\ (k - 1) + 1 = k
      BY <1>t, <2>2
    <2>4. Slot(Wrap(g, n), k - 1, n) = Slot(g, k, n)
      BY <1>t, <2>3, SlotType
    <2>5. RxInv'
      BY <1>i, <1>j, <2>1, <2>2, <2>3, <2>4
    <2>6. View(b, g, k, n) # << >> /\ View(b, Wrap(g, n), k - 1, n) = Tail(View(b, g, k, n))
      <3> HIDE DEF k
      <3>1. /\ Holds(b, Wrap(g, n), k - 1, n, Char)
            /\ View(b, g, k, n) # << >>
            /\ View(b, Wrap(g, n), k - 1, n) = Tail(View(b, g, k, n))
        BY <1>t, <1>h, <2>3, ViewTail
      <3> QED
        BY <3>1
    <2> QED
      BY <1>n, <1>v, <1>w, <2>1, <2>2, <2>3, <2>5, <2>6
  <1>4. CASE RxCount
    <2>1. /\ rx'.buf = b /\ rx'.get = g /\ rx'.count = rx.count - 1 /\ rx'.put = rx.put
      BY <1>4, <1>f DEF RxCount
    <2>2. t = 1 /\ Taken' = 0 /\ Closing' = Closing
      BY <1>4 DEF RxCount, t
    <2>3. (rx.count - 1) - 0 = k /\ rx.count # 0
      BY <1>t, <2>2
    <2>4. RxContents' = RxContents
      BY <1>v, <1>w, <2>1, <2>2, <2>3
    <2>5. RxInv'
      BY <1>i, <1>j, <2>1, <2>2, <2>3
    <2> QED
      BY <1>n, <2>4, <2>5
  <1>5. CASE RxEmpty
    <2>1. rx'.get = 0 /\ rx'.count = 0 /\ rx'.put = 0 /\ Taken' = 0
      BY <1>5, <1>f DEF RxEmpty, Emptied
    <2>2. RxInv'
      BY <1>j, <1>t, <2>1 DEF Slot
    <2>3. RxContents' = << >>
      BY <1>w, <2>1, ViewEmpty
    <2> QED
      BY <1>n, <2>2, <2>3
  <1>6. CASE RxClose
    <2>1. rx'.count = 0 /\ Closing' /\ Taken' = 0
      BY <1>6, <1>f DEF RxClose
    <2>2. RxContents' = << >>
      BY <1>w, <2>1, ViewEmpty
    <2> QED
      BY <1>j, <1>n, <2>1, <2>2
  <1> QED
    BY <1>1, <1>2, <1>3, <1>4, <1>5, <1>6, RxSteps

\* The receive queue of a port is a queue: characters leave it in the order in
\* which the interrupt put them there, each once, or all at once, whatever the
\* interrupt does between the two steps in which $RECCOM takes one.
THEOREM PortRxIsQueue == Spec => RxIsQueue
  <1>1. Init => TInv /\ RxInv /\ RxQueueSpec!Init
    <2> SUFFICES ASSUME Init PROVE RxInv /\ RxQueueSpec!Init
      BY TInvInit
    <2>1. rx.get = 0 /\ rx.put = 0 /\ rx.count = 0 /\ Taken = 0
      BY DEF Init, Taken
    <2>2. RxInv
      BY <2>1 DEF RxInv, Slot
    <2>3. RxContents = << >>
      BY <2>1, ContentsView, ViewEmpty DEF RxContents
    <2> QED
      BY <2>2, <2>3 DEF RxQueueSpec!Init, RxContents
  <1>2. TInv /\ RxInv /\ [Next]_vars => TInv' /\ RxInv' /\ [RxQueueSpec!Next]_RxContents
    BY TInvStep, RxRefines
  <1> QED
    BY <1>1, <1>2, PTL DEF Spec, RxIsQueue, RxQueueSpec!Spec, RxContents

-----------------------------------------------------------------------------
(* The transmit ring.                                                      *)

\* The next character goes to the slot after the last one held; it is there before
\* it is counted, and only characters the application sent are held.
TxInv ==
  /\ tx.put = Slot(tx.get, tx.count, QOutSize)
  /\ Holds(tx.buf, tx.get, tx.count, QOutSize, Data)
  /\ pc = "snd_queue" => tx.buf[tx.put] \in Data

TxContents == Contents(tx, QOutSize, 0)

\* All that a step of the port may do to the transmit ring.
TxSame  == /\ tx'.buf = tx.buf /\ tx'.get = tx.get /\ tx'.put = tx.put
           /\ tx'.count = tx.count
           /\ pc' = "snd_queue" => pc = "snd_queue"
TxStore == /\ tx.count < QOutSize
           /\ \E c \in Data : tx' = [tx EXCEPT !.buf[tx.put] = c]
TxCount == /\ pc = "snd_queue" /\ pc' # "snd_queue"
           /\ tx'.buf = tx.buf /\ tx'.get = tx.get
           /\ tx'.put = Wrap(tx.put, QOutSize) /\ tx'.count = tx.count + 1
TxTake  == /\ tx.count # 0 /\ pc' = pc
           /\ tx'.buf = tx.buf /\ tx'.get = Wrap(tx.get, QOutSize)
           /\ tx'.put = tx.put /\ tx'.count = tx.count - 1
TxEmpty == tx' = Emptied(tx) /\ pc' # "snd_queue"

\* The interrupt takes a character or leaves the ring alone.
LEMMA TxInterrupt == TInv /\ InterruptLoop => TxSame \/ TxTake
  <1> SUFFICES ASSUME TInv, InterruptLoop PROVE TxSame \/ TxTake
    OBVIOUS
  <1>t. tx = [buf |-> tx.buf, get |-> tx.get, put |-> tx.put, count |-> tx.count,
              mod |-> tx.mod]
    BY DEF TInv, TypeOK, TxRing
  <1>p. ASSUME NEW r, XmitEmpty(r)
        PROVE  pc' = pc
    BY <1>p DEF XmitEmpty, cpuVars
  <1>d. ASSUME NEW k, NEW e, NEW f, DataAvail(k, e, f)
        PROVE  pc' = pc /\ tx' = tx
    BY <1>d DEF DataAvail, cpuVars
  <1>1. CASE LineStat \/ ModemStatus
    BY <1>1 DEF LineStat, ModemStatus, cpuVars, TxSame
  <1>2. CASE RxOverflow \/ RxStrip \/ RxEOF \/ RxXOff \/ RxXOn \/ RxDiscard \/ RxQueue
    <2>1. pc' = pc /\ tx' = tx
      BY <1>2, <1>d DEF RxOverflow, RxStrip, RxEOF, RxXOff, RxXOn, RxDiscard, RxQueue
    <2> QED
      BY <2>1 DEF TxSame
  <1>3. CASE XmitBusy \/ XmitFlow \/ XmitStop \/ XmitImmed \/ XmitDone
    <2>1. pc' = pc /\ tx' = tx
      BY <1>3, <1>p DEF XmitBusy, XmitFlow, XmitStop, XmitImmed, XmitDone
    <2> QED
      BY <2>1 DEF TxSame
  <1>4. CASE XmitMark
    <2>1. pc' = pc
      BY <1>4, <1>p DEF XmitMark
    <2> QED
      BY <1>4, <1>t, <2>1 DEF XmitMark, TxSame
  <1>5. CASE XmitQueue
    <2>1. pc' = pc
      BY <1>5, <1>p DEF XmitQueue
    <2> QED
      BY <1>5, <1>t, <2>1 DEF XmitQueue, TxTake
  <1> QED
    BY <1>1, <1>2, <1>3, <1>4, <1>5 DEF InterruptLoop

\* The entry points store a character, count it, empty the ring, or leave it alone.
LEMMA TxApplication == TInv /\ Application => TxSame \/ TxStore \/ TxCount \/ TxEmpty
  <1> SUFFICES ASSUME TInv, Application PROVE TxSame \/ TxStore \/ TxCount \/ TxEmpty
    OBVIOUS
  <1> USE DEF cpuVars, Call, At, GoTo
  <1>t. tx = [buf |-> tx.buf, get |-> tx.get, put |-> tx.put, count |-> tx.count,
              mod |-> tx.mod]
    BY DEF TInv, TypeOK, TxRing
  <1>1. CASE SndTimeout \/ SndFull \/ (\E c \in Data : SndImm(c)) \/ SndForce \/ SndCall
    BY <1>1 DEF TxSame, SndTimeout, SndFull, SndImm, SndForce, SndCall
  <1>2. CASE \E c \in Data : SndStore(c)
    <2>1. tx.count \in Nat
      BY DEF TInv, TypeOK, TxRing
    <2> QED
      BY <1>2, <2>1 DEF TxStore, SndStore
  <1>3. CASE SndQueue
    BY <1>3, <1>t DEF TxCount, SndQueue
  <1>4. CASE RecCall \/ RecTest \/ RecLines \/ RecErr \/ RecGet \/ RecDec \/ FlushRx
    BY <1>4 DEF TxSame, RecCall, RecTest, RecLines, RecErr, RecReturn, RecGet, RecDec,
       FlushRx
  <1>5. CASE FlushTx \/ SetQue \/ IniCom
    BY <1>5 DEF TxEmpty, FlushTx, SetQue, IniCom
  <1>6. CASE StaCom \/ EvtGet \/ TrmCom \/ TrmWait \/ TrmDrain \/ IniDone
    BY <1>6 DEF TxSame, StaCom, EvtGet, TrmCom, TrmWait, TrmDrain, IniDone
  <1>7. CASE SetBrk \/ ClrBrk \/ ExtCom_FN1 \/ ExtCom_FN2 \/ ExtCom_FN3 \/ ExtCom_FN4
               \/ SetCom
    BY <1>7 DEF TxSame, SetBrk, ClrBrk, ExtCom_FN1, ExtCom_FN2, SetFlags, ExtCom_FN3,
       ExtCom_FN4, SetLine, SetCom
  <1> QED
    BY <1>1, <1>2, <1>3, <1>4, <1>5, <1>6, <1>7 DEF Application, Continue

LEMMA TxSteps ==
  TInv /\ [Next]_vars => TxSame \/ TxStore \/ TxCount \/ TxTake \/ TxEmpty
  <1> SUFFICES ASSUME TInv, [Next]_vars
               PROVE  TxSame \/ TxStore \/ TxCount \/ TxTake \/ TxEmpty
    OBVIOUS
  <1>1. CASE Line \/ CommInt \/ CommIntExit \/ UNCHANGED vars
    BY <1>1 DEF TxSame, Line, TsrLoad, TsrDone, PeerSend, PeerLine, CommInt,
       CommIntExit, vars, cpuVars
  <1> QED
    BY <1>1, TxInterrupt, TxApplication DEF Next, Interrupt

\* Whatever a step does to the transmit ring, it keeps the invariant and is a step
\* of a queue on what the ring holds.
LEMMA TxRefines ==
  ASSUME TInv, TxInv, [Next]_vars
  PROVE  TxInv' /\ [TxQueueSpec!Next]_TxContents
  <1> DEFINE n == QOutSize
             k == tx.count
             g == tx.get
             b == tx.buf
  <1>t. /\ n \in Nat \ {0} /\ b \in [0 .. n - 1 -> Data \cup {NulChar}]
        /\ g \in 0 .. n - 1 /\ tx.put \in 0 .. n - 1 /\ k \in 0 .. n /\ k \in Nat
        /\ k - 0 = k /\ (pc = "snd_queue" => k < n)
    BY DEF TInv, TypeOK, TxRing
  <1>f. tx = [buf |-> b, get |-> g, put |-> tx.put, count |-> k, mod |-> tx.mod]
    BY DEF TInv, TypeOK, TxRing
  <1>v. TxContents = View(b, g, k, n)
    BY <1>t, ContentsView DEF TxContents
  <1>w. TxContents' = View(tx'.buf, tx'.get, tx'.count - 0, n)
    BY ContentsView DEF TxContents
  <1>i. /\ tx.put = Slot(g, k, n) /\ Holds(b, g, k, n, Data)
        /\ pc = "snd_queue" => b[tx.put] \in Data
    BY DEF TxInv
  <1>j. TxInv' = /\ tx'.put = Slot(tx'.get, tx'.count, n)
                 /\ Holds(tx'.buf, tx'.get, tx'.count, n, Data)
                 /\ pc' = "snd_queue" => tx'.buf[tx'.put] \in Data
    BY DEF TxInv
  <1>l. Len(TxContents) = k
    BY <1>t, <1>i, <1>v, ViewSeq
  <1>n. ASSUME TxContents' = TxContents
               \/ (\E c \in Data : Len(TxContents) < QOutSize /\ TxContents' = Append(TxContents, c))
               \/ (TxContents # << >> /\ TxContents' = Tail(TxContents))
               \/ TxContents' = << >>
        PROVE  [TxQueueSpec!Next]_TxContents
    BY <1>n DEF TxQueueSpec!Next, TxQueueSpec!Enter, TxQueueSpec!Leave, TxQueueSpec!GiveUp,
       TxContents
  <1>q. QOutSize = n
    OBVIOUS
  <1> HIDE DEF n, k, g, b
  <1>1. CASE TxSame
    <2>1. tx'.buf = b /\ tx'.get = g /\ tx'.put = tx.put /\ tx'.count = k
      BY <1>1 DEF TxSame, b, g, k
    <2>2. TxContents' = TxContents
      BY <1>t, <1>v, <1>w, <2>1
    <2>3. TxInv'
      BY <1>1, <1>i, <1>j, <2>1 DEF TxSame
    <2> QED
      BY <1>n, <2>2, <2>3
  <1>2. CASE TxStore
    <2>1. PICK c \in Data : tx' = [tx EXCEPT !.buf[tx.put] = c]
      BY <1>2 DEF TxStore
    <2> DEFINE a == [b EXCEPT ![tx.put] = c]
    <2>2. tx'.buf = a /\ tx'.get = g /\ tx'.put = tx.put /\ tx'.count = k
      BY <1>f, <2>1 DEF b
    <2>3. Stored(a, b, Slot(g, k, n), c, n)
      BY <1>t, <1>i DEF Stored
    <2>4. k \in 0 .. n - 1
      BY <1>2, <1>t DEF TxStore, k, n
    <2> HIDE DEF a
    <2>5. View(a, g, k, n) = View(b, g, k, n) /\ Holds(a, g, k, n, Data) /\ a[Slot(g, k, n)] = c
      BY <1>t, <1>i, <2>3, <2>4, ViewStore
    <2>6. TxContents' = TxContents
      BY <1>t, <1>v, <1>w, <2>2, <2>5
    <2>7. TxInv'
      BY <1>i, <1>j, <2>2, <2>5
    <2> QED
      BY <1>n, <2>6, <2>7
  <1>3. CASE TxCount
    <2>1. /\ tx'.buf = b /\ tx'.get = g /\ tx'.count = k + 1 /\ tx'.put = Wrap(tx.put, n)
          /\ pc' # "snd_queue"
      BY <1>3 DEF TxCount, b, g, k, n
    <2>2. k \in 0 .. n - 1 /\ k < n /\ (k + 1) - 0 = k + 1
      BY <1>3, <1>t DEF TxCount
    <2>3. b[Slot(g, k, n)] \in Data
      BY <1>3, <1>i DEF TxCount
    <2>4. /\ Holds(b, g, k + 1, n, Data)
          /\ View(b, g, k + 1, n) = Append(View(b, g, k, n), b[Slot(g, k, n)])
      BY <1>t, <1>i, <2>3, ViewAppend
    <2>5. Slot(g, k + 1, n) = Wrap(Slot(g, k, n), n)
      BY <1>t, <2>2, SlotType
    <2>6. TxInv'
      BY <1>i, <1>j, <2>1, <2>4, <2>5
    <2>7. Len(TxContents) < QOutSize /\ TxContents' = Append(TxContents, b[Slot(g, k, n)])
      BY <1>l, <1>q, <1>v, <1>w, <2>1, <2>2, <2>4
    <2> QED
      BY <1>n, <2>3, <2>6, <2>7
  <1>4. CASE TxTake
    <2>1. /\ tx'.buf = b /\ tx'.get = Wrap(g, n) /\ tx'.put = tx.put /\ tx'.count = k - 1
          /\ k # 0 /\ pc' = pc
      BY <1>4 DEF TxTake, b, g, k, n
    <2>2. k \in 1 .. n /\ k - 1 \in 0 .. n - 1 /\ (k - 1) + 1 = k /\ (k - 1) - 0 = k - 1
      BY <1>t, <2>1
    <2>3. Slot(Wrap(g, n), k - 1, n) = Slot(g, k, n)
      BY <1>t, <2>2, SlotType
    <2>4. /\ Holds(b, Wrap(g, n), k - 1, n, Data)
          /\ View(b, g, k, n) # << >>
          /\ View(b, Wrap(g, n), k - 1, n) = Tail(View(b, g, k, n))
      <3>1. n \in Nat \ {0} /\ g \in 0 .. n - 1 /\ k \in 1 .. n
        BY <1>t, <2>2
      <3>2. Holds(b, g, k, n, Data)
        BY <1>i
      <3> QED
        BY <3>1, <3>2, ViewTail
    <2>5. TxInv'
      BY <1>i, <1>j, <2>1, <2>3, <2>4
    <2>6. TxContents # << >> /\ TxContents' = Tail(TxContents)
      BY <1>v, <1>w, <2>1, <2>2, <2>4
    <2> QED
      BY <1>n, <2>5, <2>6
  <1>5. CASE TxEmpty
    <2>1. tx'.get = 0 /\ tx'.count = 0 /\ tx'.put = 0 /\ pc' # "snd_queue"
      BY <1>5, <1>f DEF TxEmpty, Emptied
    <2>2. Slot(0, 0, n) = 0 /\ Holds(tx'.buf, 0, 0, n, Data)
      BY <1>t DEF Slot, Holds
    <2>3. TxInv'
      BY <1>j, <2>1, <2>2
    <2>4. TxContents' = << >>
      BY <1>w, <2>1, ViewEmpty
    <2> QED
      BY <1>n, <2>3, <2>4
  <1> QED
    BY <1>1, <1>2, <1>3, <1>4, <1>5, TxSteps

\* The transmit queue of a port is a queue: what $SNDCOM put there leaves it for the
\* line in that order, each character once, or all of it is given up at once,
\* although a character is stored before the section that counts it.
THEOREM PortTxIsQueue == Spec => TxIsQueue
  <1>1. Init => TInv /\ TxInv /\ TxQueueSpec!Init
    <2> SUFFICES ASSUME Init PROVE TxInv /\ TxQueueSpec!Init
      BY TInvInit
    <2>1. tx.get = 0 /\ tx.put = 0 /\ tx.count = 0 /\ pc = "idle" /\ 0 - 0 = 0
      BY DEF Init
    <2>2. Slot(0, 0, QOutSize) = 0 /\ Holds(tx.buf, 0, 0, QOutSize, Data)
      BY DEF Slot, Holds
    <2>3. TxInv
      BY <2>1, <2>2 DEF TxInv
    <2>4. TxContents = << >>
      BY <2>1, ContentsView, ViewEmpty DEF TxContents
    <2> QED
      BY <2>3, <2>4 DEF TxQueueSpec!Init, TxContents
  <1>2. TInv /\ TxInv /\ [Next]_vars => TInv' /\ TxInv' /\ [TxQueueSpec!Next]_TxContents
    BY TInvStep, TxRefines
  <1> QED
    BY <1>1, <1>2, PTL DEF Spec, TxIsQueue, TxQueueSpec!Spec, TxContents

=============================================================================
