----------------------------- MODULE TftpProofs -----------------------------
(***************************************************************************)
(* Proofs about Tftp, for every file, every limit, every number of         *)
(* restarts and every number of server sessions.                           *)
(***************************************************************************)
EXTENDS Tftp, TLAPS

(* A sequence number below TFTP_SEQUENCE_SIZE is not changed by the 16-bit field. *)
LEMMA SequenceNumber ==
  /\ \A n \in Nat : n % TFTP_SEQUENCE_SIZE \in 0..(TFTP_SEQUENCE_SIZE - 1)
  /\ \A n \in Nat : n < TFTP_SEQUENCE_SIZE => n % TFTP_SEQUENCE_SIZE = n
<1>1. \A n \in Nat : n % TFTP_SEQUENCE_SIZE \in 0..(TFTP_SEQUENCE_SIZE - 1)
  BY FileAssumption
<1>2. \A n \in Nat : n < TFTP_SEQUENCE_SIZE => n % TFTP_SEQUENCE_SIZE = n
  BY FileAssumption
<1> QED BY <1>1, <1>2

(* A step that leaves a group of variables alone keeps its types. *)
LEMMA UnchangedTyped ==
  ASSUME TypeOK
  PROVE  /\ UNCHANGED loopVars => LoopTypeOK'
         /\ UNCHANGED handlerVars => HandlerTypeOK'
         /\ UNCHANGED tftpVars => TftpTypeOK'
         /\ UNCHANGED arpVars => ArpTypeOK'
         /\ UNCHANGED fileVars => FileTypeOK'
         /\ UNCHANGED net => NetTypeOK'
         /\ UNCHANGED <<server, losses, resent>> => ServerTypeOK'
<1>1. UNCHANGED loopVars => LoopTypeOK'
  BY DEF TypeOK, LoopTypeOK, loopVars
<1>2. UNCHANGED handlerVars => HandlerTypeOK'
  BY DEF TypeOK, HandlerTypeOK, handlerVars
<1>3. UNCHANGED tftpVars => TftpTypeOK'
  BY DEF TypeOK, TftpTypeOK, tftpVars
<1>4. UNCHANGED arpVars => ArpTypeOK'
  BY DEF TypeOK, ArpTypeOK, arpVars
<1>5. UNCHANGED fileVars => FileTypeOK'
  BY DEF TypeOK, FileTypeOK, fileVars
<1>6. UNCHANGED net => NetTypeOK'
  BY DEF TypeOK, NetTypeOK
<1>7. UNCHANGED <<server, losses, resent>> => ServerTypeOK'
  BY DEF TypeOK, ServerTypeOK
<1> QED BY <1>1, <1>2, <1>3, <1>4, <1>5, <1>6, <1>7

(* Every packet the two ends put together is a packet of the model. *)
LEMMA PacketsTyped ==
  ASSUME NEW cport \in Nat, NEW sport \in Sessions \union {WELL_KNOWN_PORT}
  PROVE  /\ Rrq(cport) \in PacketType
         /\ \A block \in 0..(TFTP_SEQUENCE_SIZE - 1) : Ack(cport, sport, block) \in PacketType
         /\ \A n \in 1..NumBlocks : Data(cport, sport, n) \in PacketType
         /\ Oack(cport, sport) \in PacketType
         /\ Error(cport, sport) \in PacketType
<1> USE FileAssumption DEF PacketType, Packet
<1>1. Rrq(cport) \in PacketType
  BY DEF Rrq
<1>2. \A block \in 0..(TFTP_SEQUENCE_SIZE - 1) : Ack(cport, sport, block) \in PacketType
  BY DEF Ack
<1>3. \A n \in 1..NumBlocks : Data(cport, sport, n) \in PacketType
  BY SequenceNumber DEF Data
<1>4. Oack(cport, sport) \in PacketType
  BY DEF Oack
<1>5. Error(cport, sport) \in PacketType
  BY DEF Error
<1> QED BY <1>1, <1>2, <1>3, <1>4, <1>5

(* What TftpSend puts together is a packet of the model, and no DATA packet. *)
LEMMA TftpPacketTyped ==
  ASSUME TypeOK, NEW state, NEW sport \in Sessions \union {WELL_KNOWN_PORT},
         NEW block \in 0..(TFTP_SEQUENCE_SIZE - 1)
  PROVE  /\ TftpPacket(state, sport, block) \in PacketType
         /\ TftpPacket(state, sport, block).op # "DATA"
BY PacketsTyped DEF TftpPacket, TypeOK, TftpTypeOK, Rrq, Ack, Packet

(* What is left in transit after a packet has been received. *)
LEMMA WithoutTyped ==
  ASSUME TypeOK, NEW m \in net
  PROVE  /\ Without(m) \subseteq PacketType
         /\ \A p \in Without(m) : p.op = "DATA" => p.body # 0
         /\ m.cport \in Nat
         /\ m.sport \in Sessions \union {WELL_KNOWN_PORT}
         /\ m.block \in 0..(TFTP_SEQUENCE_SIZE - 1)
         /\ m.body \in 0..NumBlocks
         /\ m.op = "DATA" => m.body # 0
BY DEF TypeOK, NetTypeOK, Without, PacketType

(* Sending keeps the types of what it changes. *)
LEMMA SendTyped ==
  ASSUME TypeOK, NEW pkt \in PacketType, NEW rest, rest \subseteq PacketType,
         pkt.op # "DATA", \A m \in rest : m.op = "DATA" => m.body # 0,
         NetSendUDPPacket(pkt, rest)
  PROVE  NetTypeOK' /\ ArpTypeOK'
<1>1. CASE NetServerEther
  BY <1>1, UnchangedTyped DEF NetSendUDPPacket, eth_send, TypeOK, NetTypeOK
<1>2. CASE ~NetServerEther
  BY <1>2, LimitAssumption DEF NetSendUDPPacket, TypeOK, NetTypeOK, ArpTypeOK
<1> QED BY <1>1, <1>2

(* Starting again keeps the types of what it changes. *)
LEMMA StartAgainTyped ==
  ASSUME TypeOK, NEW th \in {"TftpTimeout", "startAgainTimeout", "none"},
         NetStartAgain(th)
  PROVE  /\ NetState' \in {"CONTINUE", "RESTART", "SUCCESS", "FAIL"}
         /\ HandlerTypeOK'
BY DEF NetStartAgain, TypeOK, LoopTypeOK, HandlerTypeOK

(* Taking a block into a cell of memory keeps the types of what it changes. *)
LEMMA TakeBlockTyped ==
  ASSUME TypeOK, NEW m \in net, m.op = "DATA",
         NEW sport \in Sessions \union {WELL_KNOWN_PORT}, NEW off \in Nat,
         m.block + off # 0, TakeBlock(m, sport, off)
  PROVE  /\ NetState' \in {"CONTINUE", "RESTART", "SUCCESS", "FAIL"}
         /\ TftpLastBlock' \in 0..(TFTP_SEQUENCE_SIZE - 1)
         /\ HandlerTypeOK' /\ ArpTypeOK' /\ FileTypeOK' /\ NetTypeOK'
<1> USE FileAssumption
<1>1. m.block \in 0..(TFTP_SEQUENCE_SIZE - 1) /\ m.body \in 1..NumBlocks
  BY WithoutTyped
<1>2. NetTypeOK' /\ ArpTypeOK'
  BY <1>1, WithoutTyped, TftpPacketTyped, SendTyped DEF TakeBlock
<1>3. Cell(m.block, off) \in Nat \ {0}
  BY <1>1 DEF Cell
<1>4. BlockLen(m.body) \in Nat
  BY DEF BlockLen, TFTP_BLOCK_SIZE
<1>5. NetBootFileXferSize' \in Nat
  BY <1>3, <1>4 DEF TakeBlock, store_block, TypeOK, FileTypeOK, TFTP_BLOCK_SIZE
<1>6. DOMAIN mem' \subseteq Nat \ {0} /\ \A c \in DOMAIN mem' : mem'[c] \in 1..NumBlocks
  BY <1>1, <1>3 DEF TakeBlock, store_block, TypeOK, FileTypeOK
<1>7. /\ NetState' \in {"CONTINUE", "RESTART", "SUCCESS", "FAIL"}
      /\ TftpLastBlock' \in 0..(TFTP_SEQUENCE_SIZE - 1)
      /\ HandlerTypeOK'
  BY <1>1 DEF TakeBlock, TypeOK, LoopTypeOK, HandlerTypeOK
<1> QED BY <1>2, <1>5, <1>6, <1>7 DEF FileTypeOK

(* TypeOK is not inductive by itself: that the timeout count stays within its *)
(* bounds rests on who may arm the timer, which LimitsOK says.                *)
LEMMA TypeInductive == TypeOK /\ LimitsOK /\ [Next]_vars => TypeOK'
<1> USE FileAssumption, LimitAssumption, EnvironmentAssumption
<1> SUFFICES ASSUME TypeOK, LimitsOK, [Next]_vars
             PROVE  TypeOK'
  OBVIOUS
<1> USE DEF TypeOK
<1>a. timeHandler \in {"TftpTimeout", "startAgainTimeout", "none"}
  BY DEF HandlerTypeOK
<1>b. /\ TftpPacket(TftpState, TftpServerPort, TftpBlock) \in PacketType
      /\ TftpPacket(TftpState, TftpServerPort, TftpBlock).op # "DATA"
  BY TftpPacketTyped DEF TftpTypeOK
<1>2. ASSUME NEW m \in net, Drop(m)
      PROVE  TypeOK'
  BY <1>2, WithoutTyped, UnchangedTyped DEF Drop, clientVars, NetTypeOK
<1>3. ASSUME NEW m \in net, RecvOack(m)
      PROVE  TypeOK'
  <2>1. /\ TftpPacket("OACK", m.sport, TftpBlock) \in PacketType
        /\ TftpPacket("OACK", m.sport, TftpBlock).op # "DATA"
    BY WithoutTyped, TftpPacketTyped DEF TftpTypeOK
  <2>2. NetTypeOK' /\ ArpTypeOK'
    BY <1>3, <2>1, WithoutTyped, SendTyped DEF RecvOack
  <2>3. TftpTypeOK'
    BY <1>3, WithoutTyped DEF RecvOack, TftpTypeOK
  <2> QED BY <1>3, <2>2, <2>3, UnchangedTyped DEF RecvOack
<1>4. ASSUME NEW m \in net, RecvFirstBlock(m)
      PROVE  TypeOK'
  <2>1. /\ NetState' \in {"CONTINUE", "RESTART", "SUCCESS", "FAIL"}
        /\ TftpLastBlock' \in 0..(TFTP_SEQUENCE_SIZE - 1)
        /\ HandlerTypeOK' /\ ArpTypeOK' /\ FileTypeOK' /\ NetTypeOK'
    <3>1. CASE m.block = 1
      <4>1. m.op = "DATA" /\ TakeBlock(m, m.sport, 0)
        BY <1>4, <3>1 DEF RecvFirstBlock, ReceivesData
      <4>2. 0 \in Nat /\ m.block + 0 # 0 /\ m.sport \in Sessions \union {WELL_KNOWN_PORT}
        BY <3>1, WithoutTyped
      <4> QED BY <4>1, <4>2, TakeBlockTyped
    <3>2. CASE m.block # 1
      BY <1>4, <3>2, <1>a, WithoutTyped, StartAgainTyped, UnchangedTyped
         DEF RecvFirstBlock, NetTypeOK
    <3> QED BY <3>1, <3>2
  <2>2. LoopTypeOK'
    BY <1>4, <2>1 DEF RecvFirstBlock, LoopTypeOK
  <2>3. TftpTypeOK'
    BY <1>4, <2>1, WithoutTyped DEF RecvFirstBlock, TftpTypeOK
  <2> QED BY <1>4, <2>1, <2>2, <2>3, UnchangedTyped DEF RecvFirstBlock
<1>5. ASSUME NEW m \in net, RecvSameBlock(m)
      PROVE  TypeOK'
  <2>1. TftpTypeOK'
    BY <1>5, WithoutTyped DEF RecvSameBlock, WrapOffset, TftpTypeOK
  <2>2. NetTypeOK'
    BY <1>5, WithoutTyped DEF RecvSameBlock, NetTypeOK
  <2> QED BY <1>5, <2>1, <2>2, UnchangedTyped DEF RecvSameBlock
<1>6. ASSUME NEW m \in net, RecvNextBlock(m)
      PROVE  TypeOK'
  <2>1. WrapOffset(m) \in Nat /\ m.block + WrapOffset(m) # 0
    BY WithoutTyped DEF WrapOffset, TftpTypeOK
  <2>2. TftpServerPort \in Sessions \union {WELL_KNOWN_PORT}
    BY DEF TftpTypeOK
  <2>3. /\ NetState' \in {"CONTINUE", "RESTART", "SUCCESS", "FAIL"}
        /\ TftpLastBlock' \in 0..(TFTP_SEQUENCE_SIZE - 1)
        /\ HandlerTypeOK' /\ ArpTypeOK' /\ FileTypeOK' /\ NetTypeOK'
    BY <1>6, <2>1, <2>2, TakeBlockTyped DEF RecvNextBlock, ReceivesData
  <2>4. LoopTypeOK'
    BY <1>6, <2>3 DEF RecvNextBlock, LoopTypeOK
  <2>5. TftpTypeOK'
    BY <1>6, <2>1, <2>3, WithoutTyped DEF RecvNextBlock, TftpTypeOK
  <2> QED BY <1>6, <2>3, <2>4, <2>5, UnchangedTyped DEF RecvNextBlock
<1>7. ASSUME NEW m \in net, RecvError(m)
      PROVE  TypeOK'
  <2>1. LoopTypeOK' /\ HandlerTypeOK'
    BY <1>7, <1>a, StartAgainTyped DEF RecvError, LoopTypeOK
  <2>2. NetTypeOK'
    BY <1>7, WithoutTyped DEF RecvError, NetTypeOK
  <2> QED BY <1>7, <2>1, <2>2, UnchangedTyped DEF RecvError
<1>8. CASE RecvArpReply
  <2>1. NetTypeOK' /\ ArpTypeOK'
    BY <1>8, <1>b DEF RecvArpReply, eth_send, NetTypeOK, ArpTypeOK
  <2> QED BY <1>8, <2>1, UnchangedTyped DEF RecvArpReply
<1>9. CASE EndRx \/ CtrlC \/ ArpInTime \/ NoTimeout \/ Continue
  <2>1. LoopTypeOK'
    BY <1>9 DEF EndRx, CtrlC, ArpInTime, NoTimeout, Continue, LoopTypeOK
  <2> QED
    BY <1>9, <2>1, UnchangedTyped DEF EndRx, CtrlC, ArpInTime, NoTimeout, Continue
<1>10. CASE ArpTimeout
  <2>1. LoopTypeOK' /\ HandlerTypeOK'
    BY <1>10, <1>a, StartAgainTyped, UnchangedTyped DEF ArpTimeout, LoopTypeOK
  <2>2. ArpTypeOK'
    BY <1>10 DEF ArpTimeout, ArpTypeOK
  <2> QED BY <1>10, <2>1, <2>2, UnchangedTyped DEF ArpTimeout
<1>11. CASE TftpTimeout
  <2>1. TftpTypeOK'
    BY <1>11 DEF TftpTimeout, TftpTypeOK, LimitsOK
  <2>2. LoopTypeOK' /\ HandlerTypeOK'
    BY <1>11, StartAgainTyped DEF TftpTimeout, LoopTypeOK, HandlerTypeOK
  <2>3. NetTypeOK' /\ ArpTypeOK'
    BY <1>11, <1>b, SendTyped, UnchangedTyped DEF TftpTimeout, NetTypeOK
  <2>4. ServerTypeOK'
    BY <1>11 DEF TftpTimeout, ServerTypeOK
  <2> QED BY <1>11, <2>1, <2>2, <2>3, <2>4, UnchangedTyped DEF TftpTimeout
<1>12. CASE startAgainTimeout
  <2>1. LoopTypeOK' /\ HandlerTypeOK'
    BY <1>12 DEF startAgainTimeout, LoopTypeOK, HandlerTypeOK
  <2> QED BY <1>12, <2>1, UnchangedTyped DEF startAgainTimeout
<1>13. CASE Return
  <2>1. LoopTypeOK'
    BY <1>13 DEF Return, LoopTypeOK, FileTypeOK
  <2> QED BY <1>13, <2>1, UnchangedTyped DEF Return
<1>14. CASE Restart
  <2>1. restarts + 1 \in 0..MaxRestarts
    BY <1>14 DEF Restart, LimitsOK, LoopTypeOK
  <2>2. LoopTypeOK' /\ HandlerTypeOK'
    BY <1>14, <2>1 DEF Restart, TftpStart, LoopTypeOK, HandlerTypeOK
  <2>3. TftpTypeOK'
    BY <1>14, <2>1 DEF Restart, TftpStart, TftpTypeOK
  <2>4. ArpTypeOK' /\ FileTypeOK'
    <3>1. NetArpWaitTry' \in 0..ARP_TIMEOUT_COUNT
      BY <1>14 DEF Restart, TftpStart
    <3>2. NetServerEther' \in BOOLEAN /\ NetArpWait' \in BOOLEAN
      BY <1>14 DEF Restart, TftpStart
    <3>3. FileTypeOK'
      BY <1>14 DEF Restart, TftpStart, FileTypeOK
    <3> QED BY <3>1, <3>2, <3>3 DEF ArpTypeOK
  <2> QED BY <1>14, <2>2, <2>3, <2>4, UnchangedTyped DEF Restart
<1>15. CASE Returned \/ UNCHANGED vars
  BY <1>15, UnchangedTyped DEF Returned, vars, clientVars
<1>16. ASSUME NEW s \in Sessions, NEW m \in net, NEW cport \in Nat,
              NEW n \in 0..(NumBlocks + 1), ServerAnswers(s, m, cport, n)
       PROVE  TypeOK'
  <2>1. /\ Oack(cport, s) \in PacketType /\ Oack(cport, s).op # "DATA"
        /\ n \in 1..NumBlocks =>
             Data(cport, s, n) \in PacketType /\ Data(cport, s, n).body # 0
    BY PacketsTyped DEF Oack, Data, Packet
  <2>2. NetTypeOK'
    BY <1>16, <2>1, WithoutTyped DEF ServerAnswers, NetTypeOK
  <2>3. ServerTypeOK'
    BY <1>16 DEF ServerAnswers, ServerTypeOK
  <2> QED BY <1>16, <2>2, <2>3, UnchangedTyped DEF ServerAnswers, clientVars
<1>17. ASSUME NEW s \in Sessions, NEW m \in net, ServerRequest(s, m) \/ ServerAck(s, m)
       PROVE  TypeOK'
  <2>1. CASE ServerRequest(s, m)
    BY <1>16, <2>1, WithoutTyped DEF ServerRequest
  <2>2. CASE ServerAck(s, m)
    <3>1. server[s].block \in 0..NumBlocks /\ ServerAnswers(s, m, m.cport, server[s].block + 1)
      BY <2>2 DEF ServerAck, Awaits, Waiting
    <3>2. server[s].block + 1 \in 0..(NumBlocks + 1)
      BY <3>1
    <3>3. m.cport \in Nat
      BY WithoutTyped
    <3> QED BY <1>16, <3>1, <3>2, <3>3
  <2> QED BY <1>17, <2>1, <2>2
<1>18. ASSUME NEW s \in Sessions, ServerResend(s)
       PROVE  TypeOK'
  <2>1. server[s].cport \in Nat
    BY DEF ServerTypeOK
  <2>2. LastSent(s) \in PacketType /\ (LastSent(s).op = "DATA" => LastSent(s).body # 0)
    <3>1. CASE server[s].block = 0
      BY <2>1, <3>1, PacketsTyped DEF LastSent, Oack, Packet
    <3>2. CASE server[s].block # 0
      <4>1. server[s].block \in 1..NumBlocks
        BY <1>18, <3>2 DEF ServerResend, Waiting
      <4>2. LastSent(s) = Data(server[s].cport, s, server[s].block)
        BY <3>2 DEF LastSent
      <4>3. Data(server[s].cport, s, server[s].block) \in PacketType
        BY <2>1, <4>1, PacketsTyped
      <4> QED BY <4>1, <4>2, <4>3 DEF Data, Packet
    <3> QED BY <3>1, <3>2
  <2>3. NetTypeOK' /\ ServerTypeOK'
    BY <1>18, <2>2 DEF ServerResend, NetTypeOK, ServerTypeOK
  <2> QED BY <1>18, <2>3, UnchangedTyped DEF ServerResend, clientVars
<1>19. ASSUME NEW s \in Sessions, ServerGivesUp(s)
       PROVE  TypeOK'
  <2>1. server[s].cport \in Nat
    BY DEF ServerTypeOK
  <2>2. Error(server[s].cport, s) \in PacketType /\ Error(server[s].cport, s).op # "DATA"
    BY <2>1, PacketsTyped DEF Error, Packet
  <2>3. ServerTypeOK'
    BY <1>19, <2>1 DEF ServerGivesUp, ServerTypeOK
  <2>4. NetTypeOK'
    BY <1>19, <2>2 DEF ServerGivesUp, NetTypeOK
  <2> QED BY <1>19, <2>3, <2>4, UnchangedTyped DEF ServerGivesUp, clientVars
<1>20. ASSUME NEW m \in net, ServerIgnores(m) \/ Lose(m)
       PROVE  TypeOK'
  <2>1. NetTypeOK'
    BY <1>20 DEF ServerIgnores, Lose, NetTypeOK
  <2>2. ServerTypeOK'
    <3>1. CASE ServerIgnores(m)
      BY <3>1, UnchangedTyped DEF ServerIgnores
    <3>2. CASE Lose(m)
      BY <3>2 DEF Lose, ServerTypeOK
    <3> QED BY <1>20, <3>1, <3>2
  <2> QED BY <1>20, <2>1, <2>2, UnchangedTyped DEF ServerIgnores, Lose, clientVars
<1> QED
  BY <1>2, <1>3, <1>4, <1>5, <1>6, <1>7, <1>8, <1>9, <1>10, <1>11, <1>12, <1>13,
     <1>14, <1>15, <1>17, <1>18, <1>19, <1>20
     DEF Next, Receive, Loop, Server

(* Every step keeps the limits of the timeout count and of the restarts. *)
LEMMA LimitsInductive == TypeOK /\ LimitsOK /\ [Next]_vars => LimitsOK'
<1> USE LimitAssumption
<1> SUFFICES ASSUME TypeOK, LimitsOK, [Next]_vars
             PROVE  LimitsOK'
  OBVIOUS
<1> USE DEF LimitsOK
<1>1. ASSUME NEW m \in net,
             Drop(m) \/ RecvOack(m) \/ RecvSameBlock(m) \/ ServerIgnores(m) \/ Lose(m)
      PROVE  LimitsOK'
  BY <1>1 DEF Drop, RecvOack, RecvSameBlock, ServerIgnores, Lose, clientVars, loopVars,
              handlerVars, tftpVars
<1>2. ASSUME NEW m \in net, RecvFirstBlock(m) \/ RecvNextBlock(m) \/ RecvError(m)
      PROVE  LimitsOK'
  <2>1. /\ pc = "eth_rx" /\ packetHandler = "TftpHandler"
        /\ UNCHANGED <<pc, restarts, TftpTimeoutCount>>
    BY <1>2 DEF RecvFirstBlock, RecvNextBlock, RecvError, ReceivesData, Receives, Accepts,
                tftpVars
  <2>2. TftpTimeoutCount <= TIMEOUT_COUNT
    BY <2>1 DEF TypeOK, TftpTypeOK
  <2>3. \/ NetStartAgain(timeHandler)
        \/ /\ NetState' \in {"SUCCESS", NetState}
           /\ UNCHANGED packetHandler
    BY <1>2 DEF RecvFirstBlock, RecvNextBlock, RecvError, TakeBlock
  <2> QED BY <2>1, <2>2, <2>3 DEF NetStartAgain, TypeOK, TftpTypeOK
<1>3. CASE RecvArpReply \/ EndRx \/ CtrlC \/ ArpInTime \/ NoTimeout \/ Continue \/ Return
  BY <1>3 DEF RecvArpReply, EndRx, CtrlC, ArpInTime, NoTimeout, Continue, Return,
              loopVars, handlerVars, tftpVars
<1>4. CASE ArpTimeout
  BY <1>4 DEF ArpTimeout, NetStartAgain, handlerVars, tftpVars
<1>5. CASE TftpTimeout
  BY <1>5 DEF TftpTimeout, NetStartAgain, TypeOK, TftpTypeOK
<1>6. CASE startAgainTimeout
  BY <1>6 DEF startAgainTimeout, tftpVars
<1>7. CASE Restart
  BY <1>7 DEF Restart, TftpStart
<1>8. CASE Returned \/ UNCHANGED vars
  BY <1>8 DEF Returned, vars, clientVars, loopVars, handlerVars, tftpVars
<1>9. ASSUME NEW s \in Sessions,
             \/ ServerResend(s) \/ ServerGivesUp(s)
             \/ \E m \in net : ServerRequest(s, m) \/ ServerAck(s, m)
      PROVE  LimitsOK'
  BY <1>9 DEF ServerResend, ServerGivesUp, ServerRequest, ServerAck, ServerAnswers,
              clientVars, loopVars, handlerVars, tftpVars
<1> QED
  BY <1>1, <1>2, <1>3, <1>4, <1>5, <1>6, <1>7, <1>8, <1>9 DEF Next, Receive, Loop, Server

(* The initial state has the types and is within the limits. *)
LEMMA InitTyped == Init => TypeOK /\ LimitsOK
<1> USE FileAssumption, LimitAssumption, EnvironmentAssumption
<1> SUFFICES ASSUME Init PROVE TypeOK /\ LimitsOK
  OBVIOUS
<1>1. LoopTypeOK /\ HandlerTypeOK
  BY DEF Init, LoopTypeOK, HandlerTypeOK
<1>2. TftpTypeOK /\ FileTypeOK /\ NetTypeOK
  BY DEF Init, TftpTypeOK, FileTypeOK, NetTypeOK
<1>3. NetArpWaitTry \in 0..ARP_TIMEOUT_COUNT
  BY DEF Init
<1>4. ArpTypeOK
  BY <1>3 DEF Init, ArpTypeOK
<1>5. Idle \in [cport : Nat, block : -1..(NumBlocks + 1)]
  BY DEF Idle
<1>6. ServerTypeOK
  BY <1>5 DEF Init, ServerTypeOK
<1>7. LimitsOK
  BY DEF Init, LimitsOK
<1> QED BY <1>1, <1>2, <1>4, <1>6, <1>7 DEF TypeOK

(* TypeOK: the variables of the client, of the server and of the network    *)
(* keep the types their C declarations and their uses give them.            *)
THEOREM TypeCorrect == Spec => []TypeOK
BY InitTyped, TypeInductive, LimitsInductive, PTL DEF Spec

-----------------------------------------------------------------------------
(* Memory stays as it is or gets the next block of the file. *)
MemGrows ==
  \/ mem' = mem
  \/ \E n \in 1..NumBlocks : mem = [k \in 1..(n - 1) |-> k] /\ mem' = [k \in 1..n |-> k]

(* Blocks that are in memory stay there when memory is only added to. *)
LEMMA LoadedKept ==
  ASSUME Kept, NEW n, Loaded(n)
  PROVE  Loaded(n)'
BY DEF Kept, Loaded

(* Loaded goes down: the first n blocks contain the first k, for k <= n. *)
LEMMA LoadedBelow ==
  ASSUME NEW n \in Int, NEW k \in Int, k <= n, Loaded(n)
  PROVE  Loaded(k)
BY DEF Loaded

(* In memory that is an initial part of the file, Loaded compares with its length. *)
LEMMA LoadedLength ==
  ASSUME NEW n \in Nat, mem = [k \in 1..n |-> k], NEW j \in Nat
  PROVE  Loaded(j) <=> j <= n
<1>1. ASSUME j <= n PROVE Loaded(j)
  BY <1>1 DEF Loaded
<1>2. ASSUME Loaded(j), ~(j <= n) PROVE FALSE
  <2>1. j \in 1..j
    BY <1>2
  <2>2. j \in DOMAIN mem
    BY <1>2, <2>1 DEF Loaded
  <2> QED BY <1>2, <2>2
<1> QED BY <1>1, <1>2

(* A port stays known as one of ours while a transfer goes on. *)
LEMMA PortKept ==
  ASSUME UNCHANGED <<restarts, TftpOurPort>>, NetServerEther => NetServerEther',
         NEW port, PortOK(port)
  PROVE  PortOK(port)'
BY DEF PortOK

(* What holds of a packet goes on holding of it. *)
LEMMA PacketKept ==
  ASSUME Kept, UNCHANGED <<restarts, TftpOurPort>>, NetServerEther => NetServerEther',
         NEW m, PacketOK(m)
  PROVE  PacketOK(m)'
BY LoadedKept, PortKept DEF PacketOK

(* So does what holds of a session of the server. *)
LEMMA SessionKept ==
  ASSUME Kept, UNCHANGED <<restarts, TftpOurPort, server>>, NetServerEther => NetServerEther',
         NEW s \in Sessions, SessionOK(s)
  PROVE  SessionOK(s)'
BY LoadedKept, PortKept DEF SessionOK, Waiting

(* A step that leaves memory and the client alone, and adds only packets and *)
(* sessions of which the invariant holds, keeps the invariant.               *)
LEMMA OutsideStep ==
  ASSUME TransferInv, TypeOK', LimitsOK', UNCHANGED clientVars,
         \A m \in net' : m \in net \/ PacketOK(m),
         \A s \in Sessions : server'[s] = server[s] \/ SessionOK(s)'
  PROVE  TransferInv'
<1> USE DEF clientVars, loopVars, handlerVars, tftpVars, arpVars, fileVars
<1>1. Kept /\ UNCHANGED <<restarts, TftpOurPort>> /\ (NetServerEther => NetServerEther')
  BY DEF Kept
<1>2. \A m \in net' : PacketOK(m)'
  BY <1>1, PacketKept DEF TransferInv
<1>3. \A s \in Sessions : SessionOK(s)'
  <2> SUFFICES ASSUME NEW s \in Sessions, server'[s] = server[s]
               PROVE  SessionOK(s)'
    OBVIOUS
  <2> QED BY <1>1, LoadedKept, PortKept DEF TransferInv, SessionOK, Waiting
<1>4. MemInOrder'
  BY DEF TransferInv, MemInOrder
<1>5. ClientOK' /\ SizeOK' /\ SuccessMeansWholeFile'
  BY DEF TransferInv, ClientOK, SizeOK, SuccessMeansWholeFile, Loaded
<1> QED BY <1>2, <1>3, <1>4, <1>5 DEF TransferInv

(* A step of the client that leaves memory and its port alone, forgets no    *)
(* Ethernet address and sends only packets of which the invariant holds      *)
(* keeps what the invariant says of memory, packets and sessions.            *)
LEMMA ClientStep ==
  ASSUME TransferInv, UNCHANGED <<mem, restarts, TftpOurPort, server>>,
         NetServerEther => NetServerEther',
         \A m \in net' : m \in net \/ PacketOK(m)'
  PROVE  /\ MemInOrder'
         /\ \A m \in net' : PacketOK(m)'
         /\ \A s \in Sessions : SessionOK(s)'
         /\ \A n : Loaded(n) => Loaded(n)'
<1>1. Kept
  BY DEF Kept
<1>2. \A m \in net' : PacketOK(m)'
  BY <1>1, PacketKept DEF TransferInv
<1>3. \A s \in Sessions : SessionOK(s)'
  BY <1>1, SessionKept DEF TransferInv
<1>4. MemInOrder'
  BY DEF TransferInv, MemInOrder
<1>5. \A n : Loaded(n) => Loaded(n)'
  BY DEF Loaded
<1> QED BY <1>2, <1>3, <1>4, <1>5

(* A packet the client listens to and takes proves that the server's address *)
(* is known: nobody has heard of the port before.                            *)
LEMMA HeardFromServer ==
  ASSUME TransferInv, NEW m \in net, Accepts(m)
  PROVE  NetServerEther /\ m.cport = TftpOurPort
BY DEF TransferInv, PacketOK, PortOK, Accepts

(* With the address known, sending adds the packet unless the device is       *)
(* halted, and changes nothing else.                                         *)
LEMMA SendsAtOnce ==
  ASSUME NetServerEther, NEW pkt, NEW rest, NetSendUDPPacket(pkt, rest)
  PROVE  net' = eth_send(pkt, rest) /\ UNCHANGED arpVars
BY DEF NetSendUDPPacket

(* An acknowledgement of a stored block, from the current port, is in order. *)
LEMMA AckOK ==
  ASSUME NEW sport, NEW block, Loaded(block)', PortOK(TftpOurPort)', UNCHANGED TftpOurPort
  PROVE  PacketOK(Ack(TftpOurPort, sport, block))'
BY DEF PacketOK, Ack, Packet

(* A read request from the current port is in order. *)
LEMMA RrqOK ==
  ASSUME PortOK(TftpOurPort)', UNCHANGED TftpOurPort
  PROVE  PacketOK(Rrq(TftpOurPort))'
BY DEF PacketOK, Rrq, Packet

(* The client's own port, once the server's address is known. *)
LEMMA OwnPortOK ==
  ASSUME TransferInv, NetServerEther', UNCHANGED <<restarts, TftpOurPort>>
  PROVE  PortOK(TftpOurPort)'
<1>1. restarts \in 0..restarts
  BY DEF TransferInv, TypeOK, LoopTypeOK
<1> QED BY <1>1 DEF TransferInv, ClientOK, PortOK

(* A block before the last one ends within the file. *)
LEMMA BlockRoom ==
  ASSUME NEW b \in Int, b <= NumBlocks - 1
  PROVE  (b - 1) * 512 + 512 <= (NumBlocks - 1) * 512 + LastLen
BY FileAssumption DEF TFTP_BLOCK_SIZE

(* Storing an accepted block: it is the next one or one that is there already, *)
(* so memory grows in order, the size stays right, and the acknowledgement is  *)
(* of a stored block.                                                          *)
LEMMA TakeBlockStep ==
  ASSUME Regular, TransferInv, NEW m \in net, Accepts(m), m.op = "DATA", NEW sport,
         TakeBlock(m, sport, 0), UNCHANGED <<restarts, TftpOurPort, server>>
  PROVE  /\ Kept /\ MemInOrder' /\ MemGrows
         /\ Loaded(m.block)'
         /\ \A p \in net' : PacketOK(p)'
         /\ \A s \in Sessions : SessionOK(s)'
         /\ UNCHANGED arpVars
         /\ SizeOK'
<1> USE FileAssumption DEF TFTP_BLOCK_SIZE
<1>1. m.block = m.body /\ m.body \in 1..NumBlocks /\ Loaded(m.body - 1)
  BY WithoutTyped DEF TransferInv, PacketOK
<1>2. NetServerEther
  BY HeardFromServer
<1>3. PICK n \in 0..NumBlocks : mem = [k \in 1..n |-> k]
  BY DEF TransferInv, MemInOrder
<1>4. m.body - 1 <= n
  BY <1>1, <1>3, LoadedLength
<1>5. mem' = [c \in DOMAIN mem \union {m.body} |-> IF c = m.body THEN m.body ELSE mem[c]]
  BY <1>1 DEF TakeBlock, store_block, Cell
<1>6. Kept
  BY <1>1, <1>3, <1>5 DEF Kept
<1>7. Loaded(m.block)'
  <2>1. Loaded(m.body - 1)'
    BY <1>1, <1>6, LoadedKept
  <2>2. m.body \in DOMAIN mem' /\ mem'[m.body] = m.body
    BY <1>5
  <2> QED BY <1>1, <2>1, <2>2 DEF Loaded
<1>8. MemInOrder' /\ MemGrows
  <2>1. CASE m.body <= n
    <3>1. mem' = mem
      BY <1>1, <1>3, <1>5, <2>1
    <3> QED BY <1>3, <3>1 DEF MemInOrder, MemGrows
  <2>2. CASE m.body = n + 1
    <3>1. mem' = [k \in 1..(n + 1) |-> k]
      BY <1>1, <1>3, <1>5, <2>2
    <3>2. n + 1 \in 1..NumBlocks /\ (n + 1) - 1 = n
      BY <1>1, <2>2
    <3> QED BY <1>3, <3>1, <3>2 DEF MemInOrder, MemGrows
  <2> QED BY <1>1, <1>4, <2>1, <2>2
<1>9. net' \subseteq Without(m) \union {Ack(TftpOurPort, sport, m.block)} /\ UNCHANGED arpVars
  BY <1>2, SendsAtOnce DEF TakeBlock, TftpPacket, eth_send
<1>10. \A p \in net' : PacketOK(p)'
  <2>1. PacketOK(Ack(TftpOurPort, sport, m.block))'
    BY <1>2, <1>7, <1>9, AckOK, OwnPortOK DEF arpVars
  <2>2. \A p \in net : PacketOK(p)'
    BY <1>2, <1>6, <1>9, PacketKept DEF TransferInv, arpVars
  <2> QED BY <1>9, <2>1, <2>2 DEF Without
<1>11. \A s \in Sessions : SessionOK(s)'
  BY <1>6, <1>9, SessionKept DEF TransferInv, arpVars
<1>12. SizeOK'
  <2> DEFINE newsize == (m.body - 1) * 512 + BlockLen(m.body)
  <2>1. /\ newsize \in Nat /\ newsize <= FileSize
        /\ BlockLen(m.body) < 512 => m.body = NumBlocks /\ newsize = FileSize
    <3>1. CASE m.body = NumBlocks
      BY <3>1, <1>1 DEF BlockLen, FileSize
    <3>2. CASE m.body # NumBlocks
      <4>1. BlockLen(m.body) = 512
        BY <3>2 DEF BlockLen
      <4>2. m.body \in Int /\ NumBlocks \in Int /\ m.body <= NumBlocks - 1 /\ 1 <= m.body
        BY <3>2, <1>1
      <4>3. (m.body - 1) * 512 + 512 \in Nat
        BY <4>2
      <4>4. (m.body - 1) * 512 + 512 <= (NumBlocks - 1) * 512 + LastLen
        BY <4>2, BlockRoom
      <4> QED BY <4>1, <4>3, <4>4 DEF FileSize
    <3> QED BY <3>1, <3>2
  <2>2. NetBootFileXferSize' = IF NetBootFileXferSize < newsize
                                 THEN newsize ELSE NetBootFileXferSize
    BY <1>1 DEF TakeBlock, store_block, Cell
  <2>3. NetBootFileXferSize \in Nat /\ FileSize \in Nat
    BY DEF TransferInv, TypeOK, FileTypeOK, FileSize
  <2> HIDE DEF newsize
  <2>4. NetBootFileXferSize' <= FileSize
    BY <2>1, <2>2, <2>3 DEF TransferInv, SizeOK
  <2>5. ASSUME NetState' = "SUCCESS"
        PROVE  Loaded(NumBlocks)' /\ NetBootFileXferSize' = FileSize
    <3>1. CASE BlockLen(m.body) < 512
      BY <3>1, <1>1, <1>7, <2>1, <2>2, <2>3 DEF TransferInv, SizeOK
    <3>2. CASE ~(BlockLen(m.body) < 512)
      <4>1. NetState = "SUCCESS"
        BY <2>5, <3>2 DEF TakeBlock
      <4>2. Loaded(NumBlocks)'
        BY <4>1, <1>6, LoadedKept DEF TransferInv, SizeOK
      <4> QED BY <4>1, <4>2, <2>1, <2>2, <2>3 DEF TransferInv, SizeOK
    <3> QED BY <3>1, <3>2
  <2> QED BY <2>4, <2>5 DEF SizeOK
<1> QED BY <1>6, <1>7, <1>8, <1>9, <1>10, <1>11, <1>12

(* A DATA packet of the server for a known port is in order when all the     *)
(* blocks before it are in memory.                                           *)
LEMMA DataOK ==
  ASSUME Regular, NEW cport, NEW sport, NEW n \in 1..NumBlocks, Loaded(n - 1), PortOK(cport)
  PROVE  PacketOK(Data(cport, sport, n))
<1>1. n % TFTP_SEQUENCE_SIZE = n
  BY SequenceNumber, FileAssumption DEF Regular
<1> QED BY <1>1 DEF PacketOK, Data, Packet

(* The server answers a packet of a known port with block n only when all    *)
(* the blocks before n are in memory: the invariant is kept.                 *)
LEMMA AnswerStep ==
  ASSUME Regular, TransferInv, TypeOK', LimitsOK', NEW s \in Sessions, NEW m \in net,
         NEW n \in 0..(NumBlocks + 1), ServerAnswers(s, m, m.cport, n),
         n # 0 => Loaded(n - 1), PortOK(m.cport)
  PROVE  TransferInv'
<1> USE FileAssumption
<1>1. UNCHANGED clientVars
  BY DEF ServerAnswers
<1>2. ASSUME NEW p \in net', p \notin net
      PROVE  PacketOK(p)
  <2>1. CASE n = 0
    <3>1. p = Oack(m.cport, s)
      BY <1>2, <2>1 DEF ServerAnswers, Without
    <3> QED BY <3>1 DEF PacketOK, Oack, Packet
  <2>2. CASE n # 0
    <3>1. p = Data(m.cport, s, n) /\ n \in 1..NumBlocks
      BY <1>2, <2>2 DEF ServerAnswers, Without
    <3> QED BY <2>2, <3>1, DataOK
  <2> QED BY <2>1, <2>2
<1>3. server' = [server EXCEPT ![s] = [cport |-> m.cport, block |-> n]] /\ server \in [Sessions -> [cport : Nat, block : -1..(NumBlocks + 1)]]
  BY DEF ServerAnswers, TransferInv, TypeOK, ServerTypeOK
<1>4. server'[s].block = n /\ server'[s].cport = m.cport /\ \A t \in Sessions \ {s} : server'[t] = server[t]
  BY <1>3
<1>5. SessionOK(s)'
  <2>1. (n # 0 => Loaded(n - 1)') /\ PortOK(m.cport)'
    BY <1>1 DEF clientVars, loopVars, tftpVars, arpVars, fileVars, Loaded, PortOK
  <2> QED BY <1>4, <2>1 DEF SessionOK
<1> QED BY <1>1, <1>2, <1>4, <1>5, OutsideStep

(* The invariant is kept by every step, when the transfer is Regular. *)
LEMMA TransferInductive == Regular /\ TransferInv /\ [Next]_vars => TransferInv'
<1> USE FileAssumption
<1> SUFFICES ASSUME Regular, TransferInv, [Next]_vars
             PROVE  TransferInv'
  OBVIOUS
<1>a. TypeOK /\ LimitsOK
  BY DEF TransferInv
<1>b. TypeOK' /\ LimitsOK'
  BY <1>a, TypeInductive, LimitsInductive
<1>c. TftpOurPort = OurPort[restarts] /\ restarts \in 0..MaxRestarts
  BY <1>a DEF TransferInv, ClientOK, TypeOK, LoopTypeOK
<1>1. ASSUME NEW m \in net, Drop(m) \/ ServerIgnores(m) \/ Lose(m)
      PROVE  TransferInv'
  <2>1. UNCHANGED <<clientVars, server>> /\ net' \subseteq net
    BY <1>1 DEF Drop, ServerIgnores, Lose, Without
  <2> QED BY <1>b, <2>1, OutsideStep
<1>2. ASSUME NEW m \in net, RecvOack(m)
      PROVE  TransferInv'
  <2>1. NetServerEther /\ packetHandler = "TftpHandler"
    BY <1>2, HeardFromServer DEF RecvOack, Accepts
  <2>2. net' = eth_send(Ack(TftpOurPort, m.sport, TftpBlock), Without(m)) /\ UNCHANGED arpVars
    BY <1>2, <2>1, SendsAtOnce DEF RecvOack, TftpPacket
  <2>3. /\ UNCHANGED <<mem, restarts, TftpOurPort, server>>
        /\ UNCHANGED <<packetHandler, eth, TftpBlock, TftpLastBlock, TftpBlockWrapOffset>>
        /\ UNCHANGED <<pc, ret, NetState, NetBootFileXferSize>>
        /\ NetServerEther' /\ NetArpWait' = NetArpWait
    BY <1>2, <2>1, <2>2 DEF RecvOack, loopVars, handlerVars, fileVars, arpVars
  <2>4. eth = "up" => Loaded(TftpBlock)'
    BY <2>1, <2>3 DEF TransferInv, ClientOK, Loaded
  <2>5. PortOK(TftpOurPort)'
    BY <2>3, OwnPortOK
  <2>6. \A p \in net' : p \in net \/ PacketOK(p)'
    <3> SUFFICES ASSUME NEW p, p = Ack(TftpOurPort, m.sport, TftpBlock), eth # "halted"
                 PROVE  PacketOK(p)'
      BY <2>2 DEF Without, eth_send
    <3>1. eth = "up"
      BY <1>a DEF TypeOK, HandlerTypeOK
    <3> QED BY <2>3, <2>4, <2>5, <3>1 DEF PacketOK, Ack, Packet
  <2>7. /\ MemInOrder' /\ \A p \in net' : PacketOK(p)'
        /\ \A s \in Sessions : SessionOK(s)'
        /\ \A n : Loaded(n) => Loaded(n)'
    BY <2>3, <2>6, ClientStep
  <2>8. ClientOK' /\ SizeOK' /\ SuccessMeansWholeFile'
    BY <2>1, <2>3, <2>4, <2>7 DEF TransferInv, ClientOK, SizeOK, SuccessMeansWholeFile, Loaded
  <2> QED BY <1>b, <2>7, <2>8 DEF TransferInv
<1>3. ASSUME NEW m \in net, RecvFirstBlock(m), m.block = 1
      PROVE  TransferInv'
  <2>1. Accepts(m) /\ m.op = "DATA" /\ pc # "returned"
    BY <1>3 DEF RecvFirstBlock, ReceivesData, Receives
  <2>2. TakeBlock(m, m.sport, 0)
    BY <1>3 DEF RecvFirstBlock
  <2>3. UNCHANGED <<restarts, TftpOurPort, server, pc>>
    BY <1>3 DEF RecvFirstBlock
  <2>4. /\ MemInOrder' /\ Loaded(m.block)' /\ \A p \in net' : PacketOK(p)'
        /\ \A s \in Sessions : SessionOK(s)'
        /\ UNCHANGED arpVars /\ SizeOK'
    BY <2>1, <2>2, <2>3, TakeBlockStep
  <2>5. /\ TftpBlock' = m.block /\ TftpLastBlock' = m.block /\ TftpBlockWrapOffset' = 0
        /\ TftpState' = "DATA"
    BY <1>3, <2>2 DEF RecvFirstBlock, TakeBlock
  <2>6. NetServerEther
    BY <2>1, HeardFromServer
  <2>7. ClientOK'
    BY <2>3, <2>4, <2>5, <2>6 DEF TransferInv, ClientOK, arpVars, Loaded
  <2>8. SuccessMeansWholeFile'
    BY <2>1, <2>3 DEF SuccessMeansWholeFile
  <2> QED BY <1>b, <2>4, <2>7, <2>8 DEF TransferInv
<1>4. ASSUME NEW m \in net, RecvFirstBlock(m), m.block # 1
      PROVE  TransferInv'
  <2>1. Accepts(m) /\ pc # "returned"
    BY <1>4 DEF RecvFirstBlock, ReceivesData, Receives
  <2>2. /\ UNCHANGED <<mem, restarts, TftpOurPort, server, pc, NetBootFileXferSize>>
        /\ UNCHANGED <<NetServerEther, NetArpWait>> /\ net' \subseteq net
        /\ TftpLastBlock' = 0 /\ TftpBlockWrapOffset' = 0
        /\ packetHandler' = "startAgainHandler" \/ eth' = "halted"
        /\ NetState' \in {NetState, "FAIL"}
    BY <1>4 DEF RecvFirstBlock, NetStartAgain, arpVars, fileVars, Without
  <2>3. /\ MemInOrder' /\ \A p \in net' : PacketOK(p)'
        /\ \A s \in Sessions : SessionOK(s)'
        /\ \A n : Loaded(n) => Loaded(n)'
    BY <2>2, ClientStep
  <2>4. NetServerEther
    BY <2>1, HeardFromServer
  <2>5. Loaded(TftpLastBlock)'
    BY <2>2 DEF Loaded
  <2>6. ClientOK' /\ SizeOK' /\ SuccessMeansWholeFile'
    BY <2>1, <2>2, <2>3, <2>4, <2>5 DEF TransferInv, ClientOK, SizeOK, SuccessMeansWholeFile
  <2> QED BY <1>b, <2>3, <2>6 DEF TransferInv
<1>5. ASSUME NEW m \in net, RecvSameBlock(m)
      PROVE  TransferInv'
  <2>1. Accepts(m) /\ m.op = "DATA" /\ m.block = TftpLastBlock
    BY <1>5 DEF RecvSameBlock, ReceivesData
  <2>2. m.block # 0
    BY <1>a, <2>1, WithoutTyped DEF TransferInv, PacketOK
  <2>3. /\ UNCHANGED <<mem, restarts, TftpOurPort, server, pc, ret, NetState>>
        /\ UNCHANGED <<NetBootFileXferSize, NetServerEther, NetArpWait, TftpState>>
        /\ net' \subseteq net /\ TftpBlock' = TftpLastBlock
        /\ UNCHANGED <<TftpLastBlock, TftpBlockWrapOffset>>
    BY <1>5, <2>1, <2>2
    DEF RecvSameBlock, loopVars, arpVars, fileVars, Without, WrapOffset
  <2>4. /\ MemInOrder' /\ \A p \in net' : PacketOK(p)'
        /\ \A s \in Sessions : SessionOK(s)'
        /\ \A n : Loaded(n) => Loaded(n)'
    BY <2>3, ClientStep
  <2>5. ClientOK' /\ SizeOK' /\ SuccessMeansWholeFile'
    BY <2>3, <2>4 DEF TransferInv, ClientOK, SizeOK, SuccessMeansWholeFile, Loaded
  <2> QED BY <1>b, <2>4, <2>5 DEF TransferInv
<1>6. ASSUME NEW m \in net, RecvNextBlock(m)
      PROVE  TransferInv'
  <2>1. Accepts(m) /\ m.op = "DATA" /\ pc # "returned"
    BY <1>6 DEF RecvNextBlock, ReceivesData, Receives
  <2>2. WrapOffset(m) = 0
    BY <1>a, <2>1, WithoutTyped DEF TransferInv, PacketOK, ClientOK, WrapOffset
  <2>3. /\ TakeBlock(m, TftpServerPort, 0) /\ UNCHANGED <<restarts, TftpOurPort, server, pc, TftpState>>
        /\ TftpBlock' = m.block /\ TftpBlockWrapOffset' = 0
    BY <1>6, <2>2 DEF RecvNextBlock
  <2>4. /\ MemInOrder' /\ Loaded(m.block)' /\ \A p \in net' : PacketOK(p)'
        /\ \A s \in Sessions : SessionOK(s)'
        /\ UNCHANGED arpVars /\ SizeOK'
    BY <2>1, <2>3, TakeBlockStep
  <2>5. TftpLastBlock' = m.block
    BY <2>3 DEF TakeBlock
  <2>6. ClientOK'
    BY <2>3, <2>4, <2>5 DEF TransferInv, ClientOK, arpVars, Loaded
  <2>7. SuccessMeansWholeFile'
    BY <2>1, <2>3 DEF SuccessMeansWholeFile
  <2> QED BY <1>b, <2>4, <2>6, <2>7 DEF TransferInv
<1>7. ASSUME NEW m \in net, RecvError(m)
      PROVE  TransferInv'
  <2>1. /\ UNCHANGED <<mem, restarts, TftpOurPort, server, pc, ret>>
        /\ UNCHANGED <<NetBootFileXferSize, NetServerEther, NetArpWait, TftpState>>
        /\ UNCHANGED <<TftpBlock, TftpLastBlock, TftpBlockWrapOffset>>
        /\ packetHandler' = "startAgainHandler" \/ eth' = "halted"
        /\ net' \subseteq net /\ NetState' \in {NetState, "FAIL"} /\ pc # "returned"
    BY <1>7 DEF RecvError, Receives, NetStartAgain, tftpVars, arpVars, fileVars, Without
  <2>2. /\ MemInOrder' /\ \A p \in net' : PacketOK(p)'
        /\ \A s \in Sessions : SessionOK(s)'
        /\ \A n : Loaded(n) => Loaded(n)'
    BY <2>1, ClientStep
  <2>3. ClientOK' /\ SizeOK' /\ SuccessMeansWholeFile'
    BY <2>1, <2>2 DEF TransferInv, ClientOK, SizeOK, SuccessMeansWholeFile, Loaded
  <2> QED BY <1>b, <2>2, <2>3 DEF TransferInv
<1>8. ASSUME RecvArpReply
      PROVE  TransferInv'
  <2>1. /\ UNCHANGED <<mem, restarts, TftpOurPort, server, pc, ret, NetState>>
        /\ UNCHANGED <<NetBootFileXferSize, TftpState, packetHandler, eth>>
        /\ UNCHANGED <<TftpBlock, TftpLastBlock, TftpBlockWrapOffset>>
        /\ NetServerEther' = TRUE /\ NetArpWait' = FALSE
    BY <1>8 DEF RecvArpReply, loopVars, handlerVars, tftpVars, fileVars
  <2>2. TftpState = "RRQ"
    BY <1>8 DEF RecvArpReply, TransferInv, ClientOK
  <2>3. net' \subseteq net \union {Rrq(TftpOurPort)}
    BY <1>8, <2>2 DEF RecvArpReply, TftpPacket, eth_send
  <2>4. PacketOK(Rrq(TftpOurPort))'
    BY <2>1, RrqOK, OwnPortOK
  <2>5. /\ MemInOrder' /\ \A p \in net' : PacketOK(p)'
        /\ \A s \in Sessions : SessionOK(s)'
        /\ \A n : Loaded(n) => Loaded(n)'
    BY <2>1, <2>3, <2>4, ClientStep
  <2>6. ClientOK' /\ SizeOK' /\ SuccessMeansWholeFile'
    BY <2>1, <2>5 DEF TransferInv, ClientOK, SizeOK, SuccessMeansWholeFile, Loaded
  <2> QED BY <1>b, <2>5, <2>6 DEF TransferInv
<1>9. ASSUME EndRx \/ ArpInTime \/ NoTimeout \/ Continue \/ CtrlC \/ Return
      PROVE  TransferInv'
  <2>1. /\ UNCHANGED <<mem, restarts, TftpOurPort, server, NetState, packetHandler, eth, net>>
        /\ UNCHANGED <<NetBootFileXferSize, NetServerEther, NetArpWait, TftpState>>
        /\ UNCHANGED <<TftpBlock, TftpLastBlock, TftpBlockWrapOffset>>
    BY <1>9 DEF EndRx, ArpInTime, NoTimeout, Continue, CtrlC, Return,
                handlerVars, tftpVars, arpVars, fileVars
  <2>2. /\ MemInOrder' /\ \A p \in net' : PacketOK(p)'
        /\ \A s \in Sessions : SessionOK(s)'
        /\ \A n : Loaded(n) => Loaded(n)'
    BY <2>1, ClientStep
  <2>3. ClientOK' /\ SizeOK'
    BY <2>1, <2>2 DEF TransferInv, ClientOK, SizeOK, Loaded
  <2>4. pc' = "returned" => ret' = -1 \/ (NetState = "SUCCESS" /\ ret' = NetBootFileXferSize)
    BY <1>9 DEF EndRx, ArpInTime, NoTimeout, Continue, CtrlC, Return
  <2>5. SuccessMeansWholeFile'
    BY <2>2, <2>4 DEF TransferInv, SizeOK, SuccessMeansWholeFile
  <2> QED BY <1>b, <2>2, <2>3, <2>5 DEF TransferInv
<1>10. ASSUME ArpTimeout
       PROVE  TransferInv'
  <2>1. /\ UNCHANGED <<mem, restarts, TftpOurPort, server, net>>
        /\ UNCHANGED <<NetBootFileXferSize, NetServerEther, NetArpWait, TftpState>>
        /\ UNCHANGED <<TftpBlock, TftpLastBlock, TftpBlockWrapOffset>>
        /\ \/ UNCHANGED <<packetHandler, eth>>
           \/ packetHandler' = "startAgainHandler"
           \/ eth' = "halted"
        /\ NetState' \in {NetState, "FAIL"} /\ pc' # "returned"
    BY <1>10 DEF ArpTimeout, NetStartAgain, handlerVars, tftpVars, fileVars
  <2>2. /\ MemInOrder' /\ \A p \in net' : PacketOK(p)'
        /\ \A s \in Sessions : SessionOK(s)'
        /\ \A n : Loaded(n) => Loaded(n)'
    BY <2>1, ClientStep
  <2>3. ClientOK' /\ SizeOK' /\ SuccessMeansWholeFile'
    BY <2>1, <2>2 DEF TransferInv, ClientOK, SizeOK, SuccessMeansWholeFile, Loaded
  <2> QED BY <1>b, <2>2, <2>3 DEF TransferInv
<1>11. ASSUME TftpTimeout
       PROVE  TransferInv'
  <2>1. /\ UNCHANGED <<mem, restarts, TftpOurPort, server, TftpState>>
        /\ UNCHANGED <<TftpBlock, TftpLastBlock, TftpBlockWrapOffset, NetBootFileXferSize>>
        /\ \/ UNCHANGED <<packetHandler, eth>>
           \/ packetHandler' = "startAgainHandler"
           \/ eth' = "halted"
        /\ NetState' \in {NetState, "FAIL"} /\ pc' # "returned"
    BY <1>11 DEF TftpTimeout, NetStartAgain, fileVars
  <2>2. packetHandler = "TftpHandler"
    BY <1>a, <1>11 DEF TftpTimeout, LimitsOK, TypeOK, HandlerTypeOK
  <2>3. /\ NetServerEther' = NetServerEther
        /\ NetArpWait' = NetArpWait
        /\ \/ net' = net
           \/ /\ NetServerEther /\ eth = "up"
              /\ net' = net \union {TftpPacket(TftpState, TftpServerPort, TftpBlock)}
    BY <1>a, <1>11 DEF TftpTimeout, NetSendUDPPacket, eth_send, arpVars, TransferInv, ClientOK,
                       TypeOK, HandlerTypeOK
  <2>4. ASSUME NetServerEther, eth = "up"
        PROVE  PacketOK(TftpPacket(TftpState, TftpServerPort, TftpBlock))'
    <3>1. Loaded(TftpBlock)' /\ NetServerEther'
      BY <2>1, <2>2, <2>3, <2>4 DEF TransferInv, ClientOK, Loaded
    <3>2. PortOK(TftpOurPort)'
      BY <2>1, <3>1, OwnPortOK
    <3>3. CASE TftpState = "RRQ"
      <4>1. TftpPacket(TftpState, TftpServerPort, TftpBlock)' = Rrq(TftpOurPort)'
        BY <2>1, <3>3 DEF TftpPacket
      <4> QED BY <2>1, <3>2, <4>1 DEF PacketOK, Rrq, Packet
    <3>4. CASE TftpState # "RRQ"
      <4>1. TftpPacket(TftpState, TftpServerPort, TftpBlock)' = Ack(TftpOurPort, TftpServerPort, TftpBlock)'
        BY <2>1, <3>4 DEF TftpPacket
      <4> QED BY <2>1, <3>1, <3>2, <4>1 DEF PacketOK, Ack, Packet
    <3> QED BY <3>3, <3>4
  <2>5. TftpServerPort' = TftpServerPort
    BY <1>11 DEF TftpTimeout
  <2>6. TftpPacket(TftpState, TftpServerPort, TftpBlock)' = TftpPacket(TftpState, TftpServerPort, TftpBlock)
    BY <2>1, <2>5 DEF TftpPacket
  <2>7. \A p \in net' : p \in net \/ PacketOK(p)'
    BY <2>3, <2>4, <2>6
  <2>8. /\ MemInOrder' /\ \A p \in net' : PacketOK(p)'
        /\ \A s \in Sessions : SessionOK(s)'
        /\ \A n : Loaded(n) => Loaded(n)'
    BY <2>1, <2>3, <2>7, ClientStep
  <2>9. ClientOK' /\ SizeOK' /\ SuccessMeansWholeFile'
    BY <2>1, <2>2, <2>3, <2>8 DEF TransferInv, ClientOK, SizeOK, SuccessMeansWholeFile, Loaded
  <2> QED BY <1>b, <2>8, <2>9 DEF TransferInv
<1>12. ASSUME startAgainTimeout
       PROVE  TransferInv'
  <2>1. /\ UNCHANGED <<mem, restarts, TftpOurPort, server, packetHandler, eth, net>>
        /\ UNCHANGED <<NetBootFileXferSize, NetServerEther, NetArpWait, TftpState>>
        /\ UNCHANGED <<TftpBlock, TftpLastBlock, TftpBlockWrapOffset>>
        /\ NetState' = "RESTART" /\ pc' # "returned"
    BY <1>12 DEF startAgainTimeout, tftpVars, arpVars, fileVars
  <2>2. /\ MemInOrder' /\ \A p \in net' : PacketOK(p)'
        /\ \A s \in Sessions : SessionOK(s)'
        /\ \A n : Loaded(n) => Loaded(n)'
    BY <2>1, ClientStep
  <2>3. ClientOK' /\ SizeOK' /\ SuccessMeansWholeFile'
    BY <2>1, <2>2 DEF TransferInv, ClientOK, SizeOK, SuccessMeansWholeFile, Loaded
  <2> QED BY <1>b, <2>2, <2>3 DEF TransferInv
<1>13. ASSUME Restart
       PROVE  TransferInv'
  <2>1. /\ UNCHANGED <<mem, net, server, TftpLastBlock, TftpBlockWrapOffset>>
        /\ restarts' = restarts + 1 /\ NetState' = "CONTINUE" /\ pc' = "eth_rx"
        /\ TftpOurPort' = OurPort[restarts + 1] /\ TftpBlock' = 0 /\ TftpState' = "RRQ"
        /\ NetServerEther' = FALSE /\ NetArpWait' = TRUE /\ NetBootFileXferSize' = 0
    BY <1>13 DEF Restart, TftpStart
  <2>2. restarts + 1 \in 0..MaxRestarts
    BY <1>b, <2>1 DEF TypeOK, LoopTypeOK
  <2>3. ASSUME NEW port, PortOK(port)
        PROVE  PortOK(port)'
    <3>1. PICK i \in 0..restarts : port = OurPort[i]
      BY <2>3 DEF PortOK
    <3>2. i \in 0..MaxRestarts /\ i # restarts + 1 /\ i \in 0..(restarts + 1)
      BY <1>c, <2>2, LimitAssumption
    <3>3. OurPort[i] # OurPort[restarts + 1]
      BY <2>2, <3>2 DEF Regular
    <3> QED BY <2>1, <3>1, <3>2, <3>3 DEF PortOK
  <2>4. \A n : Loaded(n) => Loaded(n)'
    BY <2>1 DEF Loaded
  <2>5. \A p \in net' : PacketOK(p)'
    BY <2>1, <2>3, <2>4 DEF TransferInv, PacketOK
  <2>6. \A s \in Sessions : SessionOK(s)'
    BY <2>1, <2>3, <2>4 DEF TransferInv, SessionOK, Waiting
  <2>7. MemInOrder'
    BY <2>1 DEF TransferInv, MemInOrder
  <2>8. ClientOK'
    <3>1. Loaded(TftpBlock)' /\ Loaded(TftpLastBlock)'
      BY <2>1, <2>4 DEF TransferInv, ClientOK, Loaded
    <3>2. TftpBlockWrapOffset' = 0 /\ TftpOurPort' = OurPort[restarts']
      BY <2>1 DEF TransferInv, ClientOK
    <3>3. NetArpWait' = ~NetServerEther'
      BY <2>1, Zenon
    <3> QED BY <2>1, <3>1, <3>2, <3>3 DEF ClientOK
  <2>9. SizeOK' /\ SuccessMeansWholeFile'
    BY <2>1 DEF SizeOK, SuccessMeansWholeFile, FileSize, TFTP_BLOCK_SIZE
  <2> QED BY <1>b, <2>5, <2>6, <2>7, <2>8, <2>9 DEF TransferInv
<1>14. ASSUME NEW s \in Sessions, NEW m \in net, ServerRequest(s, m)
       PROVE  TransferInv'
  <2>1. PICK n \in {0, 1} : ServerAnswers(s, m, m.cport, n)
    BY <1>14 DEF ServerRequest
  <2>2. PortOK(m.cport)
    BY DEF TransferInv, PacketOK
  <2>3. n # 0 => Loaded(n - 1)
    BY DEF Loaded
  <2> QED BY <1>b, <2>1, <2>2, <2>3, AnswerStep
<1>15. ASSUME NEW s \in Sessions, NEW m \in net, ServerAck(s, m)
       PROVE  TransferInv'
  <2> DEFINE b == server[s].block
  <2>1. b \in 0..NumBlocks /\ m.block = b % TFTP_SEQUENCE_SIZE /\ m.op = "ACK"
    BY <1>15 DEF ServerAck, Awaits, Waiting
  <2>2. m.block = b
    BY <2>1, SequenceNumber DEF Regular
  <2>3. Loaded(b) /\ PortOK(m.cport)
    BY <2>1, <2>2 DEF TransferInv, PacketOK
  <2>4. ServerAnswers(s, m, m.cport, b + 1) /\ b + 1 \in 0..(NumBlocks + 1) /\ (b + 1) - 1 = b
    BY <1>15, <2>1 DEF ServerAck
  <2> QED BY <1>b, <2>3, <2>4, AnswerStep
<1>16. ASSUME NEW s \in Sessions, ServerResend(s)
       PROVE  TransferInv'
  <2>1. UNCHANGED <<clientVars, server>> /\ net' = net \union {LastSent(s)} /\ Waiting(s)
    BY <1>16 DEF ServerResend
  <2>2. SessionOK(s) /\ server[s].block \in 0..NumBlocks
    BY <2>1 DEF TransferInv, Waiting
  <2>3. PacketOK(LastSent(s))
    <3>1. CASE server[s].block = 0
      BY <2>1, <2>2, <3>1 DEF PacketOK, LastSent, Oack, Packet, SessionOK
    <3>2. CASE server[s].block # 0
      BY <2>1, <2>2, <3>2, DataOK DEF LastSent, SessionOK
    <3> QED BY <3>1, <3>2
  <2> QED BY <1>b, <2>1, <2>3, OutsideStep
<1>17. ASSUME NEW s \in Sessions, ServerGivesUp(s)
       PROVE  TransferInv'
  <2>1. /\ UNCHANGED clientVars /\ net' = net \union {Error(server[s].cport, s)} /\ Waiting(s)
        /\ server' = [server EXCEPT ![s] = [cport |-> @.cport, block |-> NumBlocks + 1]]
    BY <1>17 DEF ServerGivesUp
  <2>2. PacketOK(Error(server[s].cport, s))
    BY <2>1 DEF TransferInv, SessionOK, PacketOK, Error, Packet
  <2>3. server'[s].block = NumBlocks + 1 /\ \A t \in Sessions \ {s} : server'[t] = server[t]
    BY <1>a, <2>1 DEF TypeOK, ServerTypeOK
  <2>4. SessionOK(s)'
    BY <2>3 DEF SessionOK, Waiting
  <2> QED BY <1>b, <2>1, <2>2, <2>3, <2>4, OutsideStep
<1>18. CASE UNCHANGED vars
  <2>1. UNCHANGED <<clientVars, net, server>>
    BY <1>18 DEF vars
  <2> QED BY <1>b, <2>1, OutsideStep
<1>19. CASE Returned
  BY <1>18, <1>19 DEF Returned
<1> QED
  BY <1>1, <1>2, <1>3, <1>4, <1>5, <1>6, <1>7, <1>8, <1>9, <1>10, <1>11, <1>12, <1>13,
     <1>14, <1>15, <1>16, <1>17, <1>18, <1>19
  DEF Next, Receive, Loop, Server

(* The invariant holds of every reachable state. *)
LEMMA TransferInvariant == Regular /\ Spec => []TransferInv
<1>1. Init => TransferInv
  <2> SUFFICES ASSUME Init PROVE TransferInv
    OBVIOUS
  <2> USE FileAssumption, LimitAssumption, EnvironmentAssumption
  <2>1. TypeOK /\ LimitsOK
    BY InitTyped
  <2>2. MemInOrder
    <3>1. mem = [k \in 1..0 |-> k]
      BY DEF Init
    <3>2. 0 \in 0..NumBlocks
      OBVIOUS
    <3> QED BY <3>1, <3>2, Zenon DEF MemInOrder
  <2>3. SizeOK /\ SuccessMeansWholeFile
    BY DEF Init, SizeOK, SuccessMeansWholeFile, FileSize, TFTP_BLOCK_SIZE
  <2>6. ClientOK
    <3>1. NetArpWait = ~NetServerEther
      BY Zenon DEF Init
    <3> QED BY <3>1 DEF Init, ClientOK, Loaded
  <2>4. \A m \in net : PacketOK(m)
    BY DEF Init
  <2>5. \A s \in Sessions : SessionOK(s)
    BY DEF Init, SessionOK, Waiting, Idle
  <2> QED BY <2>1, <2>2, <2>3, <2>4, <2>5, <2>6 DEF TransferInv
<1>2. Regular /\ TransferInv /\ [Next]_vars => TransferInv'
  BY TransferInductive
<1>3. CASE Regular
  <2>1. TransferInv /\ [Next]_vars => TransferInv'
    BY <1>2, <1>3
  <2> QED BY <1>1, <2>1, PTL DEF Spec
<1>4. CASE ~Regular
  BY <1>4
<1> QED BY <1>3, <1>4

(* When NetLoop reports a transfer, the whole file is in memory and the size *)
(* is right: for every file below the wraparound, any number of restarts,    *)
(* sessions, losses, duplicates and timeouts.                                *)
THEOREM WholeFile == Regular /\ Spec => []SuccessMeansWholeFile
<1>1. TransferInv => SuccessMeansWholeFile
  BY DEF TransferInv
<1> QED BY <1>1, TransferInvariant, PTL

(* The client never acknowledges a block it has not stored. *)
THEOREM AckedStored == Regular /\ Spec => []AcknowledgedIsStored
<1>1. TransferInv => AcknowledgedIsStored
  BY DEF TransferInv, AcknowledgedIsStored, PacketOK
<1> QED BY <1>1, TransferInvariant, PTL

-----------------------------------------------------------------------------
(* A step of the transfer as its caller sees it: memory grows by the next    *)
(* block while the transfer runs, or NetLoop answers, or nothing is seen.    *)
LEMMA DownloadStep ==
  ASSUME Regular, TransferInv, [Next]_vars
  PROVE  \/ UNCHANGED <<mem, Status>>
         \/ MemGrows /\ pc # "returned" /\ pc' # "returned"
         \/ /\ pc # "returned" /\ pc' = "returned" /\ mem' = mem
            /\ ret' = -1 \/ (NetState = "SUCCESS" /\ ret' = NetBootFileXferSize)
<1> DEFINE Goal == \/ UNCHANGED <<mem, Status>>
                   \/ MemGrows /\ pc # "returned" /\ pc' # "returned"
                   \/ /\ pc # "returned" /\ pc' = "returned" /\ mem' = mem
                      /\ ret' = -1 \/ (NetState = "SUCCESS" /\ ret' = NetBootFileXferSize)
<1>1. ASSUME NEW m \in net, RecvFirstBlock(m) \/ RecvNextBlock(m)
      PROVE  Goal
  <2>1. pc # "returned" /\ pc' # "returned" /\ UNCHANGED <<restarts, TftpOurPort, server>>
        /\ Accepts(m) /\ m.op = "DATA"
    BY <1>1 DEF RecvFirstBlock, RecvNextBlock, ReceivesData, Receives
  <2>2. WrapOffset(m) = 0
    BY <2>1, WithoutTyped DEF TransferInv, PacketOK, ClientOK, WrapOffset
  <2>3. CASE \E sport : TakeBlock(m, sport, 0)
    <3>1. PICK sport : TakeBlock(m, sport, 0)
      BY <2>3
    <3>2. MemGrows
      BY <2>1, <3>1, TakeBlockStep
    <3> QED BY <2>1, <3>2
  <2>4. CASE mem' = mem
    BY <2>1, <2>4 DEF MemGrows
  <2> QED BY <1>1, <2>2, <2>3, <2>4 DEF RecvFirstBlock, RecvNextBlock, fileVars
<1>2. ASSUME CtrlC \/ Return
      PROVE  Goal
  BY <1>2 DEF CtrlC, Return, fileVars
<1>3. ASSUME UNCHANGED <<mem, pc, ret>>
      PROVE  Goal
  BY <1>3 DEF Status
<1>4. ASSUME EndRx \/ ArpInTime \/ ArpTimeout \/ NoTimeout \/ TftpTimeout
             \/ startAgainTimeout \/ Continue \/ Restart
      PROVE  Goal
  <2>1. mem' = mem /\ pc # "returned" /\ pc' # "returned"
    BY <1>4 DEF EndRx, ArpInTime, ArpTimeout, NoTimeout, TftpTimeout, startAgainTimeout,
                Continue, Restart, fileVars
  <2> QED BY <2>1 DEF MemGrows
<1>5. ASSUME NEW m \in net,
             Drop(m) \/ RecvOack(m) \/ RecvSameBlock(m) \/ RecvError(m)
             \/ ServerIgnores(m) \/ Lose(m)
             \/ \E s \in Sessions : ServerRequest(s, m) \/ ServerAck(s, m)
      PROVE  UNCHANGED <<mem, pc, ret>>
  BY <1>5 DEF Drop, RecvOack, RecvSameBlock, RecvError, ServerIgnores, Lose, ServerRequest,
              ServerAck, ServerAnswers, clientVars, loopVars, fileVars
<1>6. ASSUME RecvArpReply \/ (\E s \in Sessions : ServerResend(s) \/ ServerGivesUp(s))
             \/ Returned \/ UNCHANGED vars
      PROVE  UNCHANGED <<mem, pc, ret>>
  BY <1>6 DEF RecvArpReply, ServerResend, ServerGivesUp, Returned, vars, clientVars,
              loopVars, fileVars
<1> HIDE DEF Goal
<1>7. Goal
  BY <1>1, <1>2, <1>3, <1>4, <1>5, <1>6 DEF Next, Receive, Loop, Server
<1> QED BY <1>7 DEF Goal

(* No packet, however late, is ever stored over another block of the file. *)
THEOREM NothingOverwritten == Regular /\ Spec => NeverOverwritten
<1>1. Regular /\ TransferInv /\ [Next]_vars => [Kept]_mem
  <2> SUFFICES ASSUME Regular, TransferInv, [Next]_vars, mem' # mem
               PROVE  Kept
    OBVIOUS
  <2>1. MemGrows
    BY DownloadStep
  <2>2. PICK n \in 1..NumBlocks : mem = [k \in 1..(n - 1) |-> k] /\ mem' = [k \in 1..n |-> k]
    BY <2>1 DEF MemGrows
  <2> QED BY <2>2, FileAssumption DEF Kept
<1>2. CASE Regular
  <2>1. TransferInv /\ [Next]_vars => [Kept]_mem
    BY <1>1, <1>2
  <2> QED BY <1>2, <2>1, TransferInvariant, PTL DEF Spec, NeverOverwritten
<1>3. CASE ~Regular
  BY <1>3
<1> QED BY <1>2, <1>3

(* The transfer implements Download: whatever the network, the server and    *)
(* the timers do, memory fills in the order of the file and the one answer   *)
(* given is a failure or the size of a file that is complete.                *)
THEOREM Refinement == Regular /\ Spec => ImplementsDownload
<1> USE FileAssumption
<1>1. Init => D!Init
  <2> SUFFICES ASSUME Init PROVE D!Init
    OBVIOUS
  <2>1. mem = [k \in 1..0 |-> k] /\ pc = "eth_rx"
    BY DEF Init
  <2> QED BY <2>1 DEF D!Init, D!First, D!Running, Status
<1>2. Regular /\ TransferInv /\ [Next]_vars => [D!Next]_<<mem, Status>>
  <2> SUFFICES ASSUME Regular, TransferInv, [Next]_vars
               PROVE  D!Next \/ UNCHANGED <<mem, Status>>
    OBVIOUS
  <2>1. ASSUME MemGrows, pc # "returned", pc' # "returned"
        PROVE  D!Next \/ UNCHANGED <<mem, Status>>
    <3>1. Status = D!Running /\ Status' = Status
      BY <2>1 DEF Status, D!Running
    <3>2. CASE mem' = mem
      BY <3>1, <3>2
    <3>3. CASE mem' # mem
      <4>1. D!Store
        BY <2>1, <3>1, <3>3 DEF MemGrows, D!Store, D!First
      <4> QED BY <4>1 DEF D!Next
    <3> QED BY <3>2, <3>3
  <2>2. ASSUME pc # "returned", pc' = "returned", mem' = mem,
               ret' = -1 \/ (NetState = "SUCCESS" /\ ret' = NetBootFileXferSize)
        PROVE  D!Next
    <3>1. Status = D!Running /\ Status' = [done |-> TRUE, size |-> ret']
      BY <2>2 DEF Status, D!Running
    <3>2. CASE ret' = -1
      BY <2>2, <3>1, <3>2 DEF D!Next, D!Fail, D!Failure
    <3>3. CASE NetState = "SUCCESS" /\ ret' = NetBootFileXferSize
      <4>1. Loaded(NumBlocks) /\ ret' = FileSize
        BY <3>3 DEF TransferInv, SizeOK
      <4>2. PICK n \in 0..NumBlocks : mem = [k \in 1..n |-> k]
        BY DEF TransferInv, MemInOrder
      <4>3. n = NumBlocks
        BY <4>1, <4>2, LoadedLength
      <4>4. D!Finish
        BY <2>2, <3>1, <4>1, <4>2, <4>3 DEF D!Finish, D!First, D!Success
      <4> QED BY <4>4 DEF D!Next
    <3> QED BY <2>2, <3>2, <3>3
  <2> QED BY <2>1, <2>2, DownloadStep
<1>3. CASE Regular
  <2>1. TransferInv /\ [Next]_vars => [D!Next]_<<mem, Status>>
    BY <1>2, <1>3
  <2> QED BY <1>1, <1>3, <2>1, TransferInvariant, PTL DEF Spec, ImplementsDownload, D!Spec
<1>4. CASE ~Regular
  BY <1>4
<1> QED BY <1>3, <1>4

-----------------------------------------------------------------------------
(* Losses and timeouts.  Between a client and a server that wait for each    *)
(* other one packet at most is on its way, and as long as none is lost it    *)
(* takes the transfer on; so every timeout of the client has a loss of its   *)
(* own behind it.                                                            *)

(* What it takes: a network that loses packets but neither repeats them nor   *)
(* keeps them longer than the timers wait, and a server that does not refuse. *)
Orderly == ~EarlyTimers /\ ~Duplicating /\ ~ServerErrors /\ Sessions # {}

(* The transfer has not been given up; until ARP has answered, nothing is on  *)
(* its way and the server has heard of nothing.                               *)
Steady ==
  /\ packetHandler = "TftpHandler" /\ timeHandler = "TftpTimeout" /\ eth = "up"
  /\ restarts = 0 /\ NetState \in {"CONTINUE", "SUCCESS"}
  /\ NetServerEther = ~NetArpWait
  /\ NetArpWait => TftpState = "RRQ" /\ net = {} /\ \A s \in Sessions : server[s] = Idle

(* What may be on its way: the request, the acknowledgement the client would  *)
(* send now, or what a session would send now.                                *)
Expected(m) ==
  \/ TftpState = "RRQ" /\ m = Rrq(TftpOurPort)
  \/ TftpState # "RRQ" /\ m = Ack(TftpOurPort, TftpServerPort, TftpBlock)
  \/ \E s \in Sessions : Waiting(s) /\ m = LastSent(s)

OneOnTheWay == net = {} \/ \E m \in net : net = {m} /\ Expected(m)

(* The session is one block ahead of the client, or waits for the             *)
(* acknowledgement of the block the client has stored last.                   *)
Ahead(s) == (server[s].block - 1) % TFTP_SEQUENCE_SIZE = TftpBlock
Behind(s) == server[s].block % TFTP_SEQUENCE_SIZE = TftpBlock

SessionsInStep ==
  /\ \A s \in Sessions :
       \/ server[s] = Idle
       \/ server[s].cport = TftpOurPort /\ server[s].block \in 0..(NumBlocks + 1)
  /\ \A s \in Sessions : TftpState = "RRQ" \/ s # TftpServerPort => server[s].block <= 1
  /\ TftpState # "RRQ" => TftpServerPort \in Sessions /\ server[TftpServerPort] # Idle
  /\ TftpState # "DATA" => TftpBlock = 0 /\ NetState = "CONTINUE"
  /\ TftpState = "OACK" => server[TftpServerPort].block <= 1
  /\ TftpState = "DATA" =>
       LET block == server[TftpServerPort].block
       IN /\ TftpLastBlock = TftpBlock /\ block >= 1
          /\ NetState = "CONTINUE" =>
               \/ Ahead(TftpServerPort) /\ block <= NumBlocks
               \/ Behind(TftpServerPort) /\ block < NumBlocks
          /\ NetState = "SUCCESS" =>
               \/ Behind(TftpServerPort) /\ block = NumBlocks
               \/ block = NumBlocks + 1

(* The transfer goes on by itself, without a timeout of the client.           *)
Useful(s) ==
  \/ TftpState = "RRQ"
  \/ s = TftpServerPort /\ (TftpState = "OACK" \/ Ahead(s))

Alive ==
  \/ NetArpWait
  \/ \E s \in Sessions : Waiting(s) /\ Useful(s) /\ (s \notin resent \/ LastSent(s) \in net)
  \/ TftpState = "RRQ" /\ Rrq(TftpOurPort) \in net /\ \E s \in Sessions : server[s] = Idle
  \/ /\ TftpState # "RRQ" /\ Behind(TftpServerPort)
     /\ Ack(TftpOurPort, TftpServerPort, TftpBlock) \in net

LossesCounted ==
  /\ TftpTimeoutCount <= losses
  /\ NetState = "CONTINUE" /\ TftpTimeoutCount = losses => Alive

RetryInv ==
  losses <= TIMEOUT_COUNT => Steady /\ OneOnTheWay /\ SessionsInStep /\ LossesCounted

(* Two blocks in a row have different sequence numbers.                       *)
LEMMA SequenceNext ==
  ASSUME NEW b \in Nat PROVE b % TFTP_SEQUENCE_SIZE # (b + 1) % TFTP_SEQUENCE_SIZE
<1> DEFINE N == TFTP_SEQUENCE_SIZE
           q == b \div N
           r == (b + 1) \div N
<1>1. N \in Nat /\ N >= 2
  BY FileAssumption
<1>2. b % N \in 0..(N - 1) /\ (b + 1) % N \in 0..(N - 1)
  BY <1>1
<1>3. q \in Int /\ b = N * q + (b % N)
  BY <1>1, Z3
<1>4. r \in Int /\ b + 1 = N * r + ((b + 1) % N)
  BY <1>1, Z3
<1> HIDE DEF N, q, r
<1> SUFFICES ASSUME b % N = (b + 1) % N PROVE FALSE
  BY DEF N
<1>5. N * (r - q) = 1
  <2>1. N * r - N * q = 1
    BY <1>1, <1>2, <1>3, <1>4
  <2> QED BY <1>1, <1>3, <1>4, <2>1, Z3
<1>6. CASE r - q <= 0
  BY <1>1, <1>3, <1>4, <1>5, <1>6
<1>7. CASE r - q >= 1
  BY <1>1, <1>3, <1>4, <1>5, <1>7
<1> QED BY <1>3, <1>4, <1>6, <1>7

(* What the packets look like.                                                *)
LEMMA PacketFields ==
  /\ \A c : Rrq(c).op = "RRQ"
  /\ \A c, s, b : /\ Ack(c, s, b).op = "ACK" /\ Ack(c, s, b).cport = c
                  /\ Ack(c, s, b).sport = s /\ Ack(c, s, b).block = b
  /\ \A c, s : /\ Oack(c, s).op = "OACK" /\ Oack(c, s).cport = c
               /\ Oack(c, s).sport = s /\ Oack(c, s).block = 0 /\ Oack(c, s).body = 0
  /\ \A c, s, n : /\ Data(c, s, n).op = "DATA" /\ Data(c, s, n).cport = c
                  /\ Data(c, s, n).sport = s /\ Data(c, s, n).body = n
                  /\ Data(c, s, n).block = n % TFTP_SEQUENCE_SIZE
BY DEF Rrq, Ack, Oack, Data, Packet

LEMMA LastSentFields ==
  ASSUME TypeOK, NEW s \in Sessions, Waiting(s)
  PROVE  /\ server[s].block \in 0..NumBlocks
         /\ LastSent(s).op = IF server[s].block = 0 THEN "OACK" ELSE "DATA"
         /\ LastSent(s).cport = server[s].cport /\ LastSent(s).sport = s
         /\ LastSent(s).body = server[s].block
         /\ LastSent(s).block = server[s].block % TFTP_SEQUENCE_SIZE
<1>1. server[s].block \in 0..NumBlocks
  BY DEF Waiting
<1>2. 0 % TFTP_SEQUENCE_SIZE = 0
  BY FileAssumption
<1> QED BY <1>1, <1>2, PacketFields DEF LastSent

(* A packet that is on its way is the only one.                               *)
LEMMA OnlyOne ==
  ASSUME OneOnTheWay, Orderly, NEW m \in net
  PROVE  net = {m} /\ Expected(m) /\ Without(m) = {}
BY DEF OneOnTheWay, Orderly, Without

(* One for the client is what its session would send now.                     *)
LEMMA ComesFromSession ==
  ASSUME TypeOK, Orderly, OneOnTheWay, SessionsInStep, NEW m \in ToClient
  PROVE  /\ net = {m} /\ Without(m) = {}
         /\ m.sport \in Sessions /\ Waiting(m.sport) /\ m = LastSent(m.sport)
         /\ m.cport = TftpOurPort
<1>1. m \in net /\ m.op \in {"DATA", "OACK", "ERROR"}
  BY DEF ToClient
<1>2. net = {m} /\ Expected(m) /\ Without(m) = {}
  BY <1>1, OnlyOne
<1>3. PICK s \in Sessions : Waiting(s) /\ m = LastSent(s)
  BY <1>1, <1>2, PacketFields DEF Expected
<1>4. m.sport = s /\ m.cport = server[s].cport /\ server[s].block \in 0..NumBlocks
  BY <1>3, LastSentFields
<1>5. server[s].cport = TftpOurPort
  BY <1>4 DEF SessionsInStep, Idle
<1> QED BY <1>2, <1>3, <1>4, <1>5

(* The operators do not change with steps that leave their variables alone.   *)
LEMMA SameSessions ==
  ASSUME server' = server
  PROVE  \A s : LastSent(s)' = LastSent(s) /\ Waiting(s)' = Waiting(s)
BY DEF LastSent, Waiting, Oack, Data, Packet

(* Steps that change nothing the argument is about.                           *)
LEMMA RetryElsewhere ==
  ASSUME RetryInv,
         UNCHANGED <<packetHandler, timeHandler, eth, NetState, restarts, TftpState, TftpServerPort,
                     TftpOurPort, TftpTimeoutCount, TftpBlock, TftpLastBlock, arpVars, net, server,
                     losses, resent>>
  PROVE  RetryInv'
<1>1. UNCHANGED <<NetServerEther, NetArpWait, NetArpWaitTry>>
  BY DEF arpVars
<1>2. \A s : LastSent(s)' = LastSent(s) /\ Waiting(s)' = Waiting(s)
  BY SameSessions
<1>3. \A s : Ahead(s)' = Ahead(s) /\ Behind(s)' = Behind(s) /\ Useful(s)' = Useful(s)
  BY DEF Ahead, Behind, Useful
<1>4. Rrq(TftpOurPort)' = Rrq(TftpOurPort)
      /\ Ack(TftpOurPort, TftpServerPort, TftpBlock)' = Ack(TftpOurPort, TftpServerPort, TftpBlock)
  BY DEF Rrq, Ack, Packet
<1>5. Steady' = Steady
  BY <1>1 DEF Steady, Idle
<1>6. OneOnTheWay' = OneOnTheWay
  BY <1>2, <1>4 DEF OneOnTheWay, Expected
<1>7. SessionsInStep' = SessionsInStep
  BY <1>3 DEF SessionsInStep, Idle, Ahead, Behind
<1>8. Alive' = Alive
  BY <1>1, <1>2, <1>3, <1>4 DEF Alive, Idle, Behind
<1>9. LossesCounted' = LossesCounted
  BY <1>8 DEF LossesCounted
<1> QED BY <1>5, <1>6, <1>7, <1>9 DEF RetryInv

(* What a step that leaves the client alone has to show.                      *)
LEMMA ServerSide ==
  ASSUME Steady, UNCHANGED clientVars, NetArpWait => net' = {} /\ UNCHANGED server
  PROVE  /\ Steady'
         /\ UNCHANGED <<TftpState, TftpServerPort, TftpOurPort, TftpTimeoutCount, TftpBlock,
                        TftpLastBlock, NetState, NetArpWait>>
BY DEF Steady, clientVars, loopVars, handlerVars, tftpVars, arpVars, Idle

(* A packet from a session the client does not listen to.                     *)
LEMMA RetryDrop ==
  ASSUME TypeOK, Orderly, Steady, OneOnTheWay, SessionsInStep, LossesCounted, NEW m, Drop(m)
  PROVE  Steady' /\ OneOnTheWay' /\ SessionsInStep' /\ LossesCounted'
<1>1. m \in ToClient /\ ~Accepts(m) /\ net' = Without(m) /\ UNCHANGED <<clientVars, server, losses, resent>>
  BY DEF Drop, Receives
<1>2. /\ net = {m} /\ Without(m) = {}
      /\ m.sport \in Sessions /\ Waiting(m.sport) /\ m = LastSent(m.sport)
      /\ m.cport = TftpOurPort
  BY <1>1, ComesFromSession
<1>3. TftpState # "RRQ" /\ m.sport # TftpServerPort
  BY <1>1, <1>2 DEF Accepts, Steady
<1>4. /\ Steady'
      /\ UNCHANGED <<TftpState, TftpServerPort, TftpOurPort, TftpTimeoutCount, TftpBlock,
                     TftpLastBlock, NetState, NetArpWait>>
  BY <1>1, <1>2, ServerSide
<1>5. net' = {}
  BY <1>1, <1>2
<1>6. OneOnTheWay'
  BY <1>5 DEF OneOnTheWay
<1>7. SessionsInStep'
  BY <1>1, <1>4 DEF SessionsInStep, Idle, Ahead, Behind
<1>8. Alive => Alive'
  <2> SUFFICES ASSUME Alive PROVE Alive'
    OBVIOUS
  <2>1. ~NetArpWait
    BY <1>2 DEF Steady
  <2>2. m # Ack(TftpOurPort, TftpServerPort, TftpBlock)
    BY <1>1, PacketFields DEF ToClient
  <2>3. PICK s \in Sessions : Waiting(s) /\ Useful(s) /\ (s \notin resent \/ LastSent(s) \in net)
    BY <1>2, <1>3, <2>1, <2>2 DEF Alive
  <2>4. s = TftpServerPort
    BY <1>3, <2>3 DEF Useful
  <2>5. LastSent(s).sport = s
    BY <2>3, LastSentFields
  <2>6. s \notin resent
    BY <1>2, <1>3, <2>3, <2>4, <2>5
  <2>7. Waiting(s)' /\ Useful(s)' /\ s \notin resent'
    BY <1>1, <1>4, <2>3, <2>6 DEF Waiting, Useful, Ahead
  <2> QED BY <2>7 DEF Alive
<1> QED BY <1>1, <1>4, <1>6, <1>7, <1>8 DEF LossesCounted

(* An OACK is answered with the acknowledgement of block 0.                   *)
LEMMA RetryOack ==
  ASSUME TypeOK, Orderly, Steady, OneOnTheWay, SessionsInStep, LossesCounted, NEW m, RecvOack(m)
  PROVE  Steady' /\ OneOnTheWay' /\ SessionsInStep' /\ LossesCounted'
<1> USE FileAssumption
<1>1. /\ m \in ToClient /\ Accepts(m) /\ m.op = "OACK" /\ TftpState' = "OACK"
      /\ TftpServerPort' = m.sport
      /\ NetSendUDPPacket(TftpPacket("OACK", m.sport, TftpBlock), Without(m))
      /\ UNCHANGED <<loopVars, handlerVars, TftpOurPort, TftpTimeoutCount, TftpBlock,
                     TftpLastBlock, server, losses, resent>>
  BY DEF RecvOack, Receives
<1>2. /\ net = {m} /\ Without(m) = {}
      /\ m.sport \in Sessions /\ Waiting(m.sport) /\ m = LastSent(m.sport)
      /\ m.cport = TftpOurPort
  BY <1>1, ComesFromSession
<1>3. server[m.sport].block = 0
  BY <1>1, <1>2, LastSentFields
<1>4. NetServerEther /\ eth = "up" /\ ~NetArpWait
  BY <1>2 DEF Steady
<1> DEFINE ack == Ack(TftpOurPort, m.sport, TftpBlock)
<1>5. net' = {ack} /\ UNCHANGED arpVars
  BY <1>1, <1>2, <1>4 DEF NetSendUDPPacket, eth_send, TftpPacket
<1>6. TftpState # "DATA" /\ TftpBlock = 0 /\ NetState = "CONTINUE"
  BY <1>1, <1>2, <1>3 DEF Accepts, SessionsInStep
<1>7. Steady'
  BY <1>1, <1>4, <1>5 DEF Steady, loopVars, handlerVars, arpVars
<1>8. OneOnTheWay'
  <2>1. Ack(TftpOurPort, TftpServerPort, TftpBlock)' = ack
    BY <1>1 DEF Ack, Packet
  <2> QED BY <1>1, <1>5, <2>1 DEF OneOnTheWay, Expected
<1>9. SessionsInStep'
  <2>1. \A s \in Sessions : server[s].block <= 1
    BY <1>1, <1>3, <1>6 DEF SessionsInStep, Accepts
  <2>2. server[m.sport] # Idle
    BY <1>3 DEF Idle
  <2>3. NetState' = NetState
    BY <1>1 DEF loopVars
  <2> QED BY <1>1, <1>2, <1>3, <1>6, <2>1, <2>2, <2>3 DEF SessionsInStep, Idle
<1>10. Alive'
  <2>1. 0 % TFTP_SEQUENCE_SIZE = 0
    OBVIOUS
  <2>2. Behind(TftpServerPort)'
    BY <1>1, <1>3, <1>6, <2>1 DEF Behind
  <2>3. Ack(TftpOurPort, TftpServerPort, TftpBlock)' \in net'
    BY <1>1, <1>5 DEF Ack, Packet
  <2> QED BY <1>1, <2>2, <2>3 DEF Alive
<1> QED BY <1>1, <1>7, <1>8, <1>9, <1>10 DEF LossesCounted

(* The client has stored block n of session p and acknowledged it.            *)
LEMMA RetryTaken ==
  ASSUME TypeOK, Orderly, Steady, SessionsInStep, LossesCounted, ~NetArpWait,
         NEW p \in Sessions, server[p].block \in 1..NumBlocks,
         \A s \in Sessions : s # p => server[s].block <= 1,
         NetState = "CONTINUE", timeHandler' = "TftpTimeout",
         NetState' = IF server[p].block = NumBlocks THEN "SUCCESS" ELSE NetState,
         TftpState' = "DATA", TftpServerPort' = p,
         TftpBlock' = server[p].block % TFTP_SEQUENCE_SIZE, TftpLastBlock' = TftpBlock',
         net' = {Ack(TftpOurPort, p, TftpBlock')},
         UNCHANGED <<packetHandler, eth, restarts, TftpOurPort, TftpTimeoutCount, arpVars, server,
                     losses, resent>>
  PROVE  Steady' /\ OneOnTheWay' /\ SessionsInStep' /\ LossesCounted'
<1>1. UNCHANGED <<NetServerEther, NetArpWait>>
  BY DEF arpVars
<1>2. Ack(TftpOurPort, TftpServerPort, TftpBlock)' = Ack(TftpOurPort, p, TftpBlock')
  BY DEF Ack, Packet
<1>3. Behind(p)' /\ Behind(TftpServerPort)'
  BY DEF Behind
<1>4. Steady'
  BY <1>1 DEF Steady
<1>5. OneOnTheWay'
  BY <1>2 DEF OneOnTheWay, Expected
<1>6. SessionsInStep'
  <2>1. \A s \in Sessions : \/ server'[s] = Idle
                            \/ server'[s].cport = TftpOurPort' /\ server'[s].block \in 0..(NumBlocks + 1)
    BY DEF SessionsInStep
  <2>2. \A s \in Sessions : s # TftpServerPort' => server'[s].block <= 1
    OBVIOUS
  <2>3. server'[p] # Idle
    BY DEF Idle
  <2>4. server'[p].block >= 1
    OBVIOUS
  <2>5. /\ NetState' = "CONTINUE" => Behind(p)' /\ server'[p].block < NumBlocks
        /\ NetState' = "SUCCESS" => Behind(p)' /\ server'[p].block = NumBlocks
    BY <1>3, FileAssumption
  <2> QED BY <1>3, <2>1, <2>2, <2>3, <2>4, <2>5 DEF SessionsInStep, Idle
<1>7. Alive'
  BY <1>2, <1>3 DEF Alive
<1> QED BY <1>4, <1>5, <1>6, <1>7 DEF LossesCounted

(* The first block after the request or an OACK is block 1.                   *)
LEMMA RetryFirstBlock ==
  ASSUME TypeOK, Orderly, Steady, OneOnTheWay, SessionsInStep, LossesCounted, NEW m,
         RecvFirstBlock(m)
  PROVE  Steady' /\ OneOnTheWay' /\ SessionsInStep' /\ LossesCounted'
<1> USE FileAssumption
<1>1. /\ m \in ToClient /\ Accepts(m) /\ m.op = "DATA" /\ TftpState \in {"RRQ", "OACK"}
      /\ TftpState' = "DATA" /\ TftpServerPort' = m.sport /\ TftpBlock' = m.block
      /\ m.block = 1 => TakeBlock(m, m.sport, 0)
      /\ UNCHANGED <<restarts, TftpOurPort, TftpTimeoutCount, server, losses, resent>>
  BY DEF RecvFirstBlock, ReceivesData, Receives
<1>2. /\ net = {m} /\ Without(m) = {}
      /\ m.sport \in Sessions /\ Waiting(m.sport) /\ m = LastSent(m.sport)
      /\ m.cport = TftpOurPort
  BY <1>1, ComesFromSession
<1>3. \A s \in Sessions : server[s].block <= 1
  BY <1>1 DEF SessionsInStep
<1>4. server[m.sport].block = 1 /\ m.body = 1 /\ m.block = 1 % TFTP_SEQUENCE_SIZE
  BY <1>1, <1>2, <1>3, LastSentFields
<1>5. 1 % TFTP_SEQUENCE_SIZE = 1
  OBVIOUS
<1>6. NetServerEther /\ eth = "up" /\ ~NetArpWait
  BY <1>2 DEF Steady
<1>7. NetState = "CONTINUE"
  BY <1>1 DEF SessionsInStep
<1>8. TakeBlock(m, m.sport, 0)
  BY <1>1, <1>4, <1>5
<1>9. BlockLen(m.body) < TFTP_BLOCK_SIZE <=> NumBlocks = 1
  BY <1>4 DEF BlockLen, TFTP_BLOCK_SIZE
<1>10. /\ TftpLastBlock' = m.block /\ timeHandler' = "TftpTimeout"
       /\ UNCHANGED <<packetHandler, eth, arpVars>>
       /\ NetState' = IF NumBlocks = 1 THEN "SUCCESS" ELSE NetState
       /\ net' = {Ack(TftpOurPort, m.sport, m.block)}
  BY <1>2, <1>6, <1>8, <1>9 DEF TakeBlock, NetSendUDPPacket, eth_send, TftpPacket
<1>11. server[m.sport].block \in 1..NumBlocks
  BY <1>4
<1> QED BY <1>1, <1>2, <1>3, <1>4, <1>5, <1>6, <1>7, <1>10, <1>11, RetryTaken

(* A block the client waits for.                                              *)
LEMMA RetryNextBlock ==
  ASSUME TypeOK, Orderly, Steady, OneOnTheWay, SessionsInStep, LossesCounted, NEW m,
         RecvNextBlock(m)
  PROVE  Steady' /\ OneOnTheWay' /\ SessionsInStep' /\ LossesCounted'
<1> USE FileAssumption
<1>1. /\ m \in ToClient /\ Accepts(m) /\ m.op = "DATA" /\ TftpState = "DATA"
      /\ m.block # TftpLastBlock /\ TftpBlock' = m.block
      /\ TakeBlock(m, TftpServerPort, WrapOffset(m))
      /\ UNCHANGED <<restarts, TftpState, TftpServerPort, TftpOurPort, TftpTimeoutCount, server,
                     losses, resent>>
  BY DEF RecvNextBlock, ReceivesData, Receives
<1>2. /\ net = {m} /\ Without(m) = {}
      /\ m.sport \in Sessions /\ Waiting(m.sport) /\ m = LastSent(m.sport)
      /\ m.cport = TftpOurPort
  BY <1>1, ComesFromSession
<1>3. m.sport = TftpServerPort
  BY <1>1 DEF Accepts
<1>4. /\ server[m.sport].block \in 1..NumBlocks /\ m.body = server[m.sport].block
      /\ m.block = server[m.sport].block % TFTP_SEQUENCE_SIZE
  BY <1>1, <1>2, LastSentFields
<1>5. NetServerEther /\ eth = "up" /\ ~NetArpWait
  BY <1>2 DEF Steady
<1>6. NetState = "CONTINUE"
  BY <1>1, <1>3, <1>4 DEF SessionsInStep, Behind, Steady
<1>7. BlockLen(m.body) < TFTP_BLOCK_SIZE <=> m.body = NumBlocks
  BY DEF BlockLen, TFTP_BLOCK_SIZE
<1>8. /\ TftpLastBlock' = m.block /\ timeHandler' = "TftpTimeout"
      /\ UNCHANGED <<packetHandler, eth, arpVars>>
      /\ NetState' = IF m.body = NumBlocks THEN "SUCCESS" ELSE NetState
      /\ net' = {Ack(TftpOurPort, m.sport, m.block)}
  BY <1>1, <1>2, <1>3, <1>5, <1>7 DEF TakeBlock, NetSendUDPPacket, eth_send, TftpPacket
<1>9. \A s \in Sessions : s # m.sport => server[s].block <= 1
  BY <1>3 DEF SessionsInStep
<1> QED BY <1>1, <1>2, <1>3, <1>4, <1>5, <1>6, <1>8, <1>9, RetryTaken

(* A block that comes again was not waited for: the client had a loss to spare. *)
LEMMA RetrySameBlock ==
  ASSUME TypeOK, Orderly, Steady, OneOnTheWay, SessionsInStep, LossesCounted, NEW m,
         RecvSameBlock(m)
  PROVE  Steady' /\ OneOnTheWay' /\ SessionsInStep' /\ LossesCounted'
<1> USE FileAssumption
<1>1. /\ m \in ToClient /\ Accepts(m) /\ m.op = "DATA" /\ TftpState = "DATA"
      /\ m.block = TftpLastBlock /\ TftpBlock' = m.block /\ net' = Without(m)
      /\ UNCHANGED <<loopVars, handlerVars, TftpState, TftpServerPort, TftpOurPort, TftpTimeoutCount,
                     TftpLastBlock, arpVars, server, losses, resent>>
  BY DEF RecvSameBlock, ReceivesData, Receives
<1>2. /\ net = {m} /\ Without(m) = {}
      /\ m.sport \in Sessions /\ Waiting(m.sport) /\ m = LastSent(m.sport)
      /\ m.cport = TftpOurPort
  BY <1>1, ComesFromSession
<1>3. m.sport = TftpServerPort
  BY <1>1 DEF Accepts
<1>4. /\ server[m.sport].block \in 1..NumBlocks
      /\ m.block = server[m.sport].block % TFTP_SEQUENCE_SIZE
  BY <1>1, <1>2, LastSentFields
<1>5. TftpBlock' = TftpBlock
  BY <1>1 DEF SessionsInStep
<1>6. ~Ahead(m.sport)
  <2>1. m.block = TftpBlock
    BY <1>1, <1>5
  <2>2. server[m.sport].block - 1 \in Nat
    BY <1>4
  <2>3. (server[m.sport].block - 1) % TFTP_SEQUENCE_SIZE
           # (server[m.sport].block - 1 + 1) % TFTP_SEQUENCE_SIZE
    BY <2>2, SequenceNext
  <2> QED BY <1>4, <2>1, <2>3 DEF Ahead
<1>7. UNCHANGED <<NetState, restarts, packetHandler, timeHandler, eth, NetServerEther, NetArpWait>>
  BY <1>1 DEF loopVars, handlerVars, arpVars
<1>8. net' = {}
  BY <1>1, <1>2
<1>9. Steady'
  BY <1>1, <1>7, <1>8 DEF Steady, Idle
<1>10. OneOnTheWay'
  BY <1>8 DEF OneOnTheWay
<1>11. SessionsInStep'
  BY <1>1, <1>5, <1>7 DEF SessionsInStep, Idle, Ahead, Behind
<1>12. ~Alive
  <2>1. ~NetArpWait
    BY <1>2 DEF Steady
  <2>2. m # Ack(TftpOurPort, TftpServerPort, TftpBlock)
    BY <1>1, PacketFields
  <2>3. \A s \in Sessions : ~Useful(s)
    BY <1>1, <1>3, <1>6 DEF Useful
  <2> QED BY <1>1, <1>2, <2>1, <2>2, <2>3 DEF Alive
<1>13. LossesCounted'
  BY <1>1, <1>7, <1>12 DEF LossesCounted
<1> QED BY <1>9, <1>10, <1>11, <1>13

(* ARP has answered: the request goes out.                                    *)
LEMMA RetryArpReply ==
  ASSUME TypeOK, Orderly, Steady, SessionsInStep, LossesCounted, RecvArpReply
  PROVE  Steady' /\ OneOnTheWay' /\ SessionsInStep' /\ LossesCounted'
<1>1. /\ NetArpWait /\ NetServerEther' = TRUE /\ NetArpWait' = FALSE
      /\ net' = eth_send(TftpPacket(TftpState, TftpServerPort, TftpBlock), net)
      /\ UNCHANGED <<loopVars, handlerVars, tftpVars, server, losses, resent>>
  BY DEF RecvArpReply
<1>2. TftpState = "RRQ" /\ net = {} /\ eth = "up" /\ \A s \in Sessions : server[s] = Idle
  BY <1>1 DEF Steady
<1>3. net' = {Rrq(TftpOurPort)}
  BY <1>1, <1>2 DEF eth_send, TftpPacket
<1>4. UNCHANGED <<NetState, restarts, packetHandler, timeHandler, eth, TftpState, TftpServerPort,
                  TftpOurPort, TftpTimeoutCount, TftpBlock, TftpLastBlock>>
  BY <1>1 DEF loopVars, handlerVars, tftpVars
<1>5. Rrq(TftpOurPort)' = Rrq(TftpOurPort)
  BY <1>4 DEF Rrq, Packet
<1>6. Steady'
  BY <1>1, <1>4 DEF Steady
<1>7. OneOnTheWay'
  BY <1>2, <1>3, <1>4, <1>5 DEF OneOnTheWay, Expected
<1>8. SessionsInStep'
  BY <1>1, <1>4 DEF SessionsInStep, Idle, Ahead, Behind
<1>9. Alive'
  BY <1>1, <1>2, <1>3, <1>4, <1>5 DEF Alive, Orderly, Idle
<1> QED BY <1>1, <1>4, <1>6, <1>7, <1>8, <1>9 DEF LossesCounted

(* A timeout when everything is quiet has a loss behind it that has not been   *)
(* counted yet, so it is not the one too many; the client and the server send  *)
(* again, and one of the two is heard.                                         *)
LEMMA RetryTimeout ==
  ASSUME TypeOK, Orderly, Steady, OneOnTheWay, SessionsInStep, LossesCounted,
         losses <= TIMEOUT_COUNT, TftpTimeout
  PROVE  Steady' /\ OneOnTheWay' /\ SessionsInStep' /\ LossesCounted'
<1> USE FileAssumption, LimitAssumption
<1>1. /\ net = {} /\ ~NetArpWait /\ NetState = "CONTINUE"
      /\ \A s \in Sessions : Waiting(s) => s \in resent
  BY DEF TftpTimeout, Quiet, Orderly
<1>2. ~Alive
  BY <1>1 DEF Alive
<1>3. TftpTimeoutCount + 1 <= losses
  BY <1>1, <1>2 DEF LossesCounted, TypeOK, TftpTypeOK, ServerTypeOK
<1>4. ~(TftpTimeoutCount + 1 > TIMEOUT_COUNT)
  BY <1>3 DEF TypeOK, TftpTypeOK, ServerTypeOK
<1>5. /\ TftpTimeoutCount' = TftpTimeoutCount + 1 /\ timeHandler' = "TftpTimeout" /\ resent' = {}
      /\ NetSendUDPPacket(TftpPacket(TftpState, TftpServerPort, TftpBlock), net)
      /\ UNCHANGED <<NetState, packetHandler, eth, restarts, TftpState, TftpServerPort, TftpOurPort,
                     TftpBlock, TftpLastBlock, server, losses>>
  BY <1>4 DEF TftpTimeout
<1> DEFINE pkt == TftpPacket(TftpState, TftpServerPort, TftpBlock)
<1>6. net' = {pkt} /\ UNCHANGED <<NetServerEther, NetArpWait>>
  BY <1>1, <1>5 DEF NetSendUDPPacket, eth_send, Steady, arpVars
<1>7. Rrq(TftpOurPort)' = Rrq(TftpOurPort)
      /\ Ack(TftpOurPort, TftpServerPort, TftpBlock)' = Ack(TftpOurPort, TftpServerPort, TftpBlock)
  BY <1>5 DEF Rrq, Ack, Packet
<1>8. Steady'
  BY <1>1, <1>5, <1>6 DEF Steady
<1>9. OneOnTheWay'
  <2>1. pkt = IF TftpState = "RRQ" THEN Rrq(TftpOurPort)
              ELSE Ack(TftpOurPort, TftpServerPort, TftpBlock)
    BY DEF TftpPacket
  <2>2. \/ net' = {Rrq(TftpOurPort)'} /\ TftpState' = "RRQ"
        \/ net' = {Ack(TftpOurPort, TftpServerPort, TftpBlock)'} /\ TftpState' # "RRQ"
    BY <1>5, <1>6, <1>7, <2>1
  <2> QED BY <2>2 DEF OneOnTheWay, Expected
<1>10. SessionsInStep'
  BY <1>5 DEF SessionsInStep, Idle, Ahead, Behind
<1>11. \A s \in Sessions : /\ Waiting(s)' = Waiting(s) /\ Useful(s)' = Useful(s)
                           /\ (server[s] = Idle)' = (server[s] = Idle)
                           /\ Behind(s)' = Behind(s)
  BY <1>5 DEF Waiting, Useful, Ahead, Idle, Behind
<1>12. (\E s \in Sessions : Waiting(s) /\ Useful(s)) => Alive'
  BY <1>5, <1>11 DEF Alive
<1>13. Alive'
  <2>1. CASE TftpState = "RRQ"
    <3>1. PICK s \in Sessions : TRUE
      BY DEF Orderly
    <3>2. CASE server[s] = Idle
      BY <1>5, <1>6, <1>7, <1>11, <2>1, <3>1, <3>2 DEF Alive, TftpPacket
    <3>3. CASE server[s] # Idle
      BY <1>12, <2>1, <3>1, <3>3 DEF SessionsInStep, Waiting, Useful
    <3> QED BY <3>2, <3>3
  <2>2. CASE TftpState = "OACK"
    <3>1. TftpServerPort \in Sessions /\ server[TftpServerPort] # Idle
          /\ server[TftpServerPort].block \in 0..1
      BY <2>2 DEF SessionsInStep
    <3> QED BY <1>12, <2>2, <3>1 DEF Waiting, Useful
  <2>3. CASE TftpState = "DATA"
    <3>1. TftpServerPort \in Sessions /\ server[TftpServerPort].block >= 1
          /\ server[TftpServerPort].block \in 0..(NumBlocks + 1)
      BY <2>3 DEF SessionsInStep, Idle
    <3>2. CASE Ahead(TftpServerPort) /\ server[TftpServerPort].block <= NumBlocks
      BY <1>12, <2>3, <3>1, <3>2 DEF Waiting, Useful
    <3>3. CASE Behind(TftpServerPort)
      <4>1. Behind(TftpServerPort)'
        BY <1>5, <3>3 DEF Behind
      <4> QED BY <1>5, <1>6, <1>7, <2>3, <4>1 DEF Alive, TftpPacket
    <3> QED BY <1>1, <2>3, <3>2, <3>3 DEF SessionsInStep
  <2> QED BY <2>1, <2>2, <2>3 DEF TypeOK, TftpTypeOK
<1> QED BY <1>3, <1>5, <1>8, <1>9, <1>10, <1>13 DEF LossesCounted

(* The server opens a session for the request.                                *)
LEMMA RetryServerRequest ==
  ASSUME TypeOK, Orderly, Steady, OneOnTheWay, SessionsInStep, LossesCounted,
         NEW s \in Sessions, NEW m, ServerRequest(s, m)
  PROVE  Steady' /\ OneOnTheWay' /\ SessionsInStep' /\ LossesCounted'
<1> USE FileAssumption
<1>1. m \in net /\ m.op = "RRQ" /\ server[s] = Idle
  BY DEF ServerRequest
<1>2. PICK n \in {0, 1} : ServerAnswers(s, m, m.cport, n)
  BY DEF ServerRequest
<1>3. net = {m} /\ Expected(m) /\ Without(m) = {}
  BY <1>1, OnlyOne
<1>4. TftpState = "RRQ" /\ m = Rrq(TftpOurPort)
  <2>1. ~\E t \in Sessions : Waiting(t) /\ m = LastSent(t)
    BY <1>1, LastSentFields
  <2> QED BY <1>1, <1>3, <2>1, PacketFields DEF Expected
<1>5. m.cport = TftpOurPort
  BY <1>4 DEF Rrq, Packet
<1>6. /\ server' = [server EXCEPT ![s] = [cport |-> TftpOurPort, block |-> n]]
      /\ net' = {IF n = 0 THEN Oack(TftpOurPort, s) ELSE Data(TftpOurPort, s, n)}
      /\ UNCHANGED <<clientVars, losses, resent>>
  BY <1>2, <1>3, <1>5 DEF ServerAnswers
<1>7. ~NetArpWait
  BY <1>3 DEF Steady
<1>8. /\ Steady'
      /\ UNCHANGED <<TftpState, TftpServerPort, TftpOurPort, TftpTimeoutCount, TftpBlock,
                     TftpLastBlock, NetState, NetArpWait>>
  BY <1>6, <1>7, ServerSide
<1>9. /\ server'[s] = [cport |-> TftpOurPort, block |-> n]
      /\ \A t \in Sessions : t # s => server'[t] = server[t]
  BY <1>6 DEF TypeOK, ServerTypeOK
<1>10. Waiting(s)' /\ LastSent(s)' \in net' /\ net' = {LastSent(s)'}
  BY <1>6, <1>9 DEF Waiting, LastSent, Oack, Data, Packet
<1>11. OneOnTheWay'
  BY <1>10 DEF OneOnTheWay, Expected
<1>12. SessionsInStep'
  BY <1>4, <1>8, <1>9 DEF SessionsInStep, Idle
<1>13. Alive'
  BY <1>4, <1>8, <1>10 DEF Alive, Useful
<1> QED BY <1>6, <1>8, <1>11, <1>12, <1>13 DEF LossesCounted

(* The acknowledgement the client's session waits for: the next block goes out. *)
LEMMA RetryServerAck ==
  ASSUME TypeOK, Orderly, Steady, OneOnTheWay, SessionsInStep, LossesCounted,
         NEW s \in Sessions, NEW m, ServerAck(s, m)
  PROVE  Steady' /\ OneOnTheWay' /\ SessionsInStep' /\ LossesCounted'
<1> USE FileAssumption
<1> DEFINE b == server[s].block
<1>1. /\ m \in net /\ m.op = "ACK" /\ m.sport = s /\ m.block = b % TFTP_SEQUENCE_SIZE
      /\ Waiting(s) /\ b \in 0..NumBlocks /\ ServerAnswers(s, m, m.cport, b + 1)
  BY DEF ServerAck, Awaits, Waiting
<1>2. net = {m} /\ Expected(m) /\ Without(m) = {}
  BY <1>1, OnlyOne
<1>3. TftpState # "RRQ" /\ m = Ack(TftpOurPort, TftpServerPort, TftpBlock)
  <2>1. ~\E t \in Sessions : Waiting(t) /\ m = LastSent(t)
    BY <1>1, LastSentFields
  <2> QED BY <1>1, <1>2, <2>1, PacketFields DEF Expected
<1>4. s = TftpServerPort /\ m.cport = TftpOurPort /\ b % TFTP_SEQUENCE_SIZE = TftpBlock
  BY <1>1, <1>3, PacketFields
<1>5. /\ server' = [server EXCEPT ![s] = [cport |-> TftpOurPort, block |-> b + 1]]
      /\ net' = IF b + 1 <= NumBlocks THEN {Data(TftpOurPort, s, b + 1)} ELSE {}
      /\ UNCHANGED <<clientVars, losses, resent>>
  BY <1>1, <1>2, <1>4 DEF ServerAnswers
<1>6. ~NetArpWait
  BY <1>2 DEF Steady
<1>7. /\ Steady'
      /\ UNCHANGED <<TftpState, TftpServerPort, TftpOurPort, TftpTimeoutCount, TftpBlock,
                     TftpLastBlock, NetState, NetArpWait>>
  BY <1>5, <1>6, ServerSide
<1>8. /\ server'[s] = [cport |-> TftpOurPort, block |-> b + 1]
      /\ \A t \in Sessions : t # s => server'[t] = server[t]
  BY <1>5 DEF TypeOK, ServerTypeOK
<1>9. Ahead(s)'
  BY <1>1, <1>4, <1>7, <1>8 DEF Ahead
<1>10. ~(b >= 1 /\ Ahead(s))
  <2> SUFFICES ASSUME b >= 1 PROVE ~Ahead(s)
    OBVIOUS
  <2>1. b - 1 \in Nat
    BY <1>1
  <2>2. (b - 1) % TFTP_SEQUENCE_SIZE # (b - 1 + 1) % TFTP_SEQUENCE_SIZE
    BY <2>1, SequenceNext
  <2>3. b - 1 + 1 = b
    BY <1>1
  <2> QED BY <1>4, <2>2, <2>3 DEF Ahead
<1>11. TftpState = "OACK" => b = 0
  <2>1. 1 % TFTP_SEQUENCE_SIZE = 1
    OBVIOUS
  <2>2. TftpState = "OACK" => b <= 1 /\ TftpBlock = 0
    BY <1>4 DEF SessionsInStep
  <2> QED BY <1>1, <1>4, <2>1, <2>2
<1>12. NetState = "CONTINUE" => b + 1 <= NumBlocks
  <2>1. CASE TftpState = "OACK"
    BY <1>11, <2>1
  <2>2. CASE TftpState = "DATA"
    BY <1>1, <1>4, <1>10, <2>2 DEF SessionsInStep
  <2> QED BY <1>3, <2>1, <2>2 DEF TypeOK, TftpTypeOK
<1>13. b + 1 <= NumBlocks => Waiting(s)' /\ net' = {LastSent(s)'}
  BY <1>1, <1>5, <1>8 DEF Waiting, LastSent, Oack, Data, Packet
<1>14. OneOnTheWay'
  <2>1. CASE b + 1 <= NumBlocks
    BY <1>13, <2>1 DEF OneOnTheWay, Expected
  <2>2. CASE ~(b + 1 <= NumBlocks)
    BY <1>5, <2>2 DEF OneOnTheWay
  <2> QED BY <2>1, <2>2
<1>15. SessionsInStep'
  <2>1. \A t \in Sessions : \/ server'[t] = Idle
                            \/ server'[t].cport = TftpOurPort' /\ server'[t].block \in 0..(NumBlocks + 1)
    BY <1>1, <1>7, <1>8 DEF SessionsInStep
  <2>2. \A t \in Sessions : t # TftpServerPort' => server'[t].block <= 1
    BY <1>4, <1>7, <1>8 DEF SessionsInStep
  <2>3. server'[s] # Idle /\ server'[s].block = b + 1
    BY <1>1, <1>8 DEF Idle
  <2>4. TftpState' # "DATA" => TftpBlock' = 0 /\ NetState' = "CONTINUE"
    BY <1>7 DEF SessionsInStep
  <2>5. TftpState' = "OACK" => server'[s].block <= 1
    BY <1>7, <1>11, <2>3
  <2>6. TftpState' = "DATA" =>
          /\ TftpLastBlock' = TftpBlock' /\ server'[s].block >= 1
          /\ NetState' = "CONTINUE" => Ahead(s)' /\ server'[s].block <= NumBlocks
          /\ NetState' = "SUCCESS" => server'[s].block = NumBlocks + 1
    <3> SUFFICES ASSUME TftpState = "DATA"
                 PROVE  /\ TftpLastBlock' = TftpBlock' /\ server'[s].block >= 1
                        /\ NetState' = "CONTINUE" => Ahead(s)' /\ server'[s].block <= NumBlocks
                        /\ NetState' = "SUCCESS" => server'[s].block = NumBlocks + 1
      BY <1>7
    <3>1. TftpLastBlock' = TftpBlock'
      BY <1>7 DEF SessionsInStep
    <3>2. NetState = "SUCCESS" => b = NumBlocks
      BY <1>1, <1>4 DEF SessionsInStep
    <3> QED BY <1>1, <1>7, <1>9, <1>12, <2>3, <3>1, <3>2
  <2> QED BY <1>3, <1>4, <1>7, <2>1, <2>2, <2>3, <2>4, <2>5, <2>6 DEF SessionsInStep, Idle
<1>16. NetState' = "CONTINUE" => Alive'
  BY <1>4, <1>7, <1>9, <1>12, <1>13 DEF Alive, Useful
<1> QED BY <1>5, <1>7, <1>14, <1>15, <1>16 DEF LossesCounted

(* What the server has no use for did not keep the transfer going.            *)
LEMMA RetryServerIgnores ==
  ASSUME TypeOK, Orderly, Steady, OneOnTheWay, SessionsInStep, LossesCounted, NEW m,
         ServerIgnores(m)
  PROVE  Steady' /\ OneOnTheWay' /\ SessionsInStep' /\ LossesCounted'
<1> USE FileAssumption
<1>1. /\ m \in net /\ m.op \in {"ACK", "RRQ"}
      /\ m.op = "ACK" => ~\E s \in Sessions : Awaits(s, m)
      /\ m.op = "RRQ" => \A s \in Sessions : server[s] # Idle
      /\ net' = net \ {m} /\ UNCHANGED <<clientVars, server, losses, resent>>
  BY DEF ServerIgnores
<1>2. net = {m} /\ Expected(m) /\ net' = {}
  BY <1>1, OnlyOne
<1>3. /\ Steady'
      /\ UNCHANGED <<TftpState, TftpServerPort, TftpOurPort, TftpTimeoutCount, TftpBlock,
                     TftpLastBlock, NetState, NetArpWait>>
  BY <1>1, <1>2, ServerSide
<1>4. OneOnTheWay'
  BY <1>2 DEF OneOnTheWay
<1>5. SessionsInStep'
  BY <1>1, <1>3 DEF SessionsInStep, Idle, Ahead, Behind
<1>6. \A s \in Sessions : Waiting(s) => m # LastSent(s)
  BY <1>1, LastSentFields
<1>7. NetState = "CONTINUE" /\ Alive => Alive'
  <2> SUFFICES ASSUME NetState = "CONTINUE", Alive PROVE Alive'
    OBVIOUS
  <2>1. ~NetArpWait
    BY <1>2 DEF Steady
  <2>2. ~(TftpState # "RRQ" /\ Behind(TftpServerPort)
          /\ Ack(TftpOurPort, TftpServerPort, TftpBlock) \in net)
    <3> SUFFICES ASSUME TftpState # "RRQ", Behind(TftpServerPort),
                        m = Ack(TftpOurPort, TftpServerPort, TftpBlock)
                 PROVE  FALSE
      BY <1>2
    <3>1. TftpServerPort \in Sessions /\ server[TftpServerPort] # Idle
      BY DEF SessionsInStep
    <3>2. server[TftpServerPort].block \in 0..NumBlocks
      BY <3>1 DEF SessionsInStep, TypeOK, TftpTypeOK
    <3>3. server[TftpServerPort].cport = TftpOurPort
      BY <3>1 DEF SessionsInStep
    <3>4. Awaits(TftpServerPort, m)
      BY <3>2, <3>3, PacketFields DEF Awaits, Waiting, Behind
    <3> QED BY <1>1, <3>1, <3>4, PacketFields
  <2>3. ~(Rrq(TftpOurPort) \in net /\ \E s \in Sessions : server[s] = Idle)
    BY <1>1, <1>2, PacketFields
  <2>4. PICK s \in Sessions : Waiting(s) /\ Useful(s) /\ (s \notin resent \/ LastSent(s) \in net)
    BY <2>1, <2>2, <2>3 DEF Alive
  <2>5. s \notin resent
    BY <1>2, <1>6, <2>4
  <2>6. Waiting(s)' /\ Useful(s)' /\ s \notin resent'
    BY <1>1, <1>3, <2>4, <2>5 DEF Waiting, Useful, Ahead
  <2> QED BY <2>6 DEF Alive
<1> QED BY <1>1, <1>3, <1>4, <1>5, <1>7 DEF LossesCounted

(* A session sends again what it has sent last.                               *)
LEMMA RetryServerResend ==
  ASSUME TypeOK, Orderly, Steady, OneOnTheWay, SessionsInStep, LossesCounted,
         NEW s \in Sessions, ServerResend(s)
  PROVE  Steady' /\ OneOnTheWay' /\ SessionsInStep' /\ LossesCounted'
<1> USE FileAssumption
<1>1. /\ Waiting(s) /\ net = {} /\ s \notin resent /\ net' = {LastSent(s)}
      /\ resent' = resent \union {s} /\ UNCHANGED <<clientVars, server, losses>>
  BY DEF ServerResend, Orderly
<1>2. ~NetArpWait
  BY <1>1 DEF Steady, Waiting, Idle
<1>3. /\ Steady'
      /\ UNCHANGED <<TftpState, TftpServerPort, TftpOurPort, TftpTimeoutCount, TftpBlock,
                     TftpLastBlock, NetState, NetArpWait>>
  BY <1>1, <1>2, ServerSide
<1>4. \A t : LastSent(t)' = LastSent(t) /\ Waiting(t)' = Waiting(t)
  BY <1>1, SameSessions
<1>5. OneOnTheWay'
  BY <1>1, <1>4 DEF OneOnTheWay, Expected
<1>6. SessionsInStep'
  BY <1>1, <1>3 DEF SessionsInStep, Idle, Ahead, Behind
<1>7. Alive => Alive'
  <2> SUFFICES ASSUME Alive PROVE Alive'
    OBVIOUS
  <2>1. PICK t \in Sessions : Waiting(t) /\ Useful(t) /\ t \notin resent
    BY <1>1, <1>2 DEF Alive
  <2>2. Waiting(t)' /\ Useful(t)'
    BY <1>1, <1>3, <2>1 DEF Waiting, Useful, Ahead
  <2>3. t \notin resent' \/ LastSent(t)' \in net'
    BY <1>1, <1>4, <2>1
  <2> QED BY <2>2, <2>3 DEF Alive
<1> QED BY <1>1, <1>3, <1>5, <1>6, <1>7 DEF LossesCounted

(* A loss pays for one more timeout.                                          *)
LEMMA RetryLose ==
  ASSUME TypeOK, Orderly, Steady, OneOnTheWay, SessionsInStep, LossesCounted, NEW m, Lose(m)
  PROVE  Steady' /\ OneOnTheWay' /\ SessionsInStep' /\ LossesCounted'
<1>1. m \in net /\ net' = net \ {m} /\ losses' = losses + 1 /\ UNCHANGED <<clientVars, server, resent>>
  BY DEF Lose
<1>2. net' = {}
  BY <1>1, OnlyOne
<1>3. /\ Steady'
      /\ UNCHANGED <<TftpState, TftpServerPort, TftpOurPort, TftpTimeoutCount, TftpBlock,
                     TftpLastBlock, NetState, NetArpWait>>
  BY <1>1, <1>2, ServerSide
<1>4. OneOnTheWay'
  BY <1>2 DEF OneOnTheWay
<1>5. SessionsInStep'
  BY <1>1, <1>3 DEF SessionsInStep, Idle, Ahead, Behind
<1>6. TftpTimeoutCount' <= losses' /\ TftpTimeoutCount' # losses'
  BY <1>1, <1>3, LimitAssumption DEF LossesCounted, TypeOK, TftpTypeOK, ServerTypeOK
<1> QED BY <1>3, <1>4, <1>5, <1>6 DEF LossesCounted

(* Losses are only counted up.                                                *)
LEMMA LossesGrow ==
  ASSUME TypeOK, [Next]_vars
  PROVE  losses' \in Nat /\ losses <= losses'
<1>1. losses \in Nat
  BY LimitAssumption DEF TypeOK, ServerTypeOK
<1>2. losses' = losses \/ losses' = losses + 1
  <2>1. CASE UNCHANGED vars \/ Loop \/ CtrlC \/ Returned
    BY <2>1 DEF vars, Loop, CtrlC, Returned, EndRx, ArpInTime, ArpTimeout, NoTimeout, TftpTimeout,
                startAgainTimeout, Continue, Return, Restart
  <2>2. CASE Receive
    BY <2>2 DEF Receive, Drop, RecvOack, RecvFirstBlock, RecvSameBlock, RecvNextBlock, RecvError,
                RecvArpReply
  <2>3. CASE Server
    BY <2>3 DEF Server, ServerRequest, ServerAck, ServerAnswers, ServerResend, ServerGivesUp,
                ServerIgnores
  <2>4. CASE \E m \in net : Lose(m)
    BY <2>4 DEF Lose
  <2> QED BY <2>1, <2>2, <2>3, <2>4 DEF Next
<1> QED BY <1>1, <1>2

(* One step, as long as no more packets are lost than may be.                 *)
LEMMA RetryStep ==
  ASSUME TypeOK, Orderly, RetryInv, [Next]_vars
  PROVE  RetryInv'
<1>1. CASE UNCHANGED vars \/ EndRx \/ CtrlC \/ ArpInTime \/ NoTimeout \/ Continue \/ Return \/ Returned
  <2>1. UNCHANGED <<packetHandler, timeHandler, eth, NetState, restarts, TftpState, TftpServerPort,
                    TftpOurPort, TftpTimeoutCount, TftpBlock, TftpLastBlock, arpVars, net, server,
                    losses, resent>>
    BY <1>1 DEF vars, clientVars, loopVars, handlerVars, tftpVars, EndRx, CtrlC, ArpInTime, NoTimeout,
                Continue, Return, Returned
  <2> QED BY <2>1, RetryElsewhere
<1>2. CASE ~(UNCHANGED vars \/ EndRx \/ CtrlC \/ ArpInTime \/ NoTimeout \/ Continue \/ Return \/ Returned)
  <2>1. losses' <= TIMEOUT_COUNT => losses <= TIMEOUT_COUNT
    BY LossesGrow, LimitAssumption DEF TypeOK, ServerTypeOK
  <2> SUFFICES ASSUME losses <= TIMEOUT_COUNT
               PROVE  Steady' /\ OneOnTheWay' /\ SessionsInStep' /\ LossesCounted'
    BY <2>1 DEF RetryInv
  <2>2. Steady /\ OneOnTheWay /\ SessionsInStep /\ LossesCounted
    BY DEF RetryInv
  <2>3. ASSUME NEW m \in net, Drop(m) \/ RecvOack(m) \/ RecvFirstBlock(m) \/ RecvSameBlock(m)
                              \/ RecvNextBlock(m) \/ RecvError(m)
        PROVE  Steady' /\ OneOnTheWay' /\ SessionsInStep' /\ LossesCounted'
    <3>1. ~RecvError(m)
      BY <2>2, ComesFromSession, LastSentFields DEF RecvError, Receives
    <3> QED BY <2>2, <2>3, <3>1, RetryDrop, RetryOack, RetryFirstBlock, RetrySameBlock, RetryNextBlock
  <2>4. CASE RecvArpReply
    BY <2>2, <2>4, RetryArpReply
  <2>5. CASE TftpTimeout
    BY <2>2, <2>5, RetryTimeout
  <2>6. ~ArpTimeout /\ ~startAgainTimeout /\ ~Restart
    BY <2>2 DEF Orderly, Steady, ArpTimeout, startAgainTimeout, Restart
  <2>7. CASE Server
    <3>1. ASSUME NEW s \in Sessions, NEW m \in net, ServerRequest(s, m) \/ ServerAck(s, m)
          PROVE  Steady' /\ OneOnTheWay' /\ SessionsInStep' /\ LossesCounted'
      BY <2>2, <3>1, RetryServerRequest, RetryServerAck
    <3>2. ASSUME NEW s \in Sessions, ServerResend(s)
          PROVE  Steady' /\ OneOnTheWay' /\ SessionsInStep' /\ LossesCounted'
      BY <2>2, <3>2, RetryServerResend
    <3>3. \A s \in Sessions : ~ServerGivesUp(s)
      BY DEF Orderly, ServerGivesUp
    <3>4. ASSUME NEW m \in net, ServerIgnores(m)
          PROVE  Steady' /\ OneOnTheWay' /\ SessionsInStep' /\ LossesCounted'
      BY <2>2, <3>4, RetryServerIgnores
    <3> QED BY <2>7, <3>1, <3>2, <3>3, <3>4 DEF Server
  <2>8. ASSUME NEW m \in net, Lose(m)
        PROVE  Steady' /\ OneOnTheWay' /\ SessionsInStep' /\ LossesCounted'
    BY <2>2, <2>8, RetryLose
  <2> QED BY <1>2, <2>3, <2>4, <2>5, <2>6, <2>7, <2>8 DEF Next, Receive, Loop
<1> QED BY <1>1, <1>2

LEMMA RetryInit == Init => RetryInv
<1> SUFFICES ASSUME Init PROVE Steady /\ OneOnTheWay /\ SessionsInStep /\ LossesCounted
  BY DEF RetryInv
<1> USE FileAssumption DEF Init
<1>1. Steady
  BY DEF Steady, Idle
<1>2. OneOnTheWay
  BY DEF OneOnTheWay
<1>3. SessionsInStep
  BY DEF SessionsInStep, Idle
<1>4. LossesCounted
  BY DEF LossesCounted, Alive
<1> QED BY <1>1, <1>2, <1>3, <1>4

(* On a network that loses packets but neither repeats them nor keeps them     *)
(* longer than the timers wait, a client whose packets were lost no more than  *)
(* TIMEOUT_COUNT times never starts again (TftpTimeout's check, tftp.c): for    *)
(* every length of the file, wraparounds of the sequence numbers included, and  *)
(* every number of sessions the server opens.                                  *)
THEOREM LossesRetried == Orderly /\ Spec => []LossesAreRetried
<1>1. Orderly /\ Init => TypeOK /\ LimitsOK /\ RetryInv
  BY InitTyped, RetryInit
<1>2. Orderly /\ TypeOK /\ LimitsOK /\ RetryInv /\ [Next]_vars => (TypeOK /\ LimitsOK /\ RetryInv)'
  BY TypeInductive, LimitsInductive, RetryStep
<1>3. RetryInv => LossesAreRetried
  BY DEF RetryInv, Steady, LossesAreRetried
<1>4. CASE Orderly
  BY <1>1, <1>2, <1>3, <1>4, PTL DEF Spec
<1>5. CASE ~Orderly
  BY <1>5, PTL
<1> QED BY <1>4, <1>5

-----------------------------------------------------------------------------
(* Wraparounds.  As long as nothing is lost the two ends take turns, no       *)
(* block comes twice, and the offset counts each wraparound of the sequence   *)
(* numbers once.                                                              *)

(* The client has stored the first n blocks.                                  *)
FirstBlocks(n) ==
  /\ mem = [k \in 1..n |-> k]
  /\ TftpBlock = n % TFTP_SEQUENCE_SIZE /\ TftpLastBlock = TftpBlock
  /\ TftpBlockWrapOffset = n - TftpBlock
  /\ NetBootFileXferSize = IF n = NumBlocks THEN FileSize ELSE n * TFTP_BLOCK_SIZE
  /\ NetState = IF n = NumBlocks THEN "SUCCESS" ELSE "CONTINUE"

(* The server has one session, for the client.                                *)
Only(s) == server[s].cport = TftpOurPort /\ \A t \in Sessions \ {s} : server[t] = Idle

(* Whose turn it is: nobody has answered yet, ...                             *)
Asking ==
  /\ TftpState = "RRQ" /\ FirstBlocks(0) /\ \A s \in Sessions : server[s] = Idle
  /\ net = IF NetArpWait THEN {} ELSE {Rrq(TftpOurPort)}

(* ... a block (or an OACK) is on its way to the client, ...                  *)
Offering(s) ==
  /\ Only(s) /\ ~NetArpWait /\ Waiting(s) /\ net = {LastSent(s)}
  /\ \/ server[s].block = 0 /\ TftpState = "RRQ" /\ FirstBlocks(0)
     \/ /\ server[s].block # 0 /\ FirstBlocks(server[s].block - 1)
        /\ TftpState # "RRQ" => TftpServerPort = s
        /\ TftpState = "DATA" <=> server[s].block # 1

(* ... its acknowledgement is on its way to the server, ...                   *)
Acking(s) ==
  /\ Only(s) /\ ~NetArpWait /\ Waiting(s)
  /\ TftpServerPort = s /\ net = {Ack(TftpOurPort, s, TftpBlock)}
  /\ FirstBlocks(server[s].block)
  /\ TftpState = IF server[s].block = 0 THEN "OACK" ELSE "DATA"

(* ... or everything has been acknowledged.                                   *)
Finished ==
  /\ net = {} /\ ~NetArpWait /\ FirstBlocks(NumBlocks) /\ \A s \in Sessions : ~Waiting(s)

Turns == Asking \/ (\E s \in Sessions : Offering(s) \/ Acking(s)) \/ Finished

(* The transfer goes on, and what NetLoop has returned is what it has stored. *)
Calm ==
  /\ packetHandler = "TftpHandler" /\ timeHandler = "TftpTimeout" /\ eth = "up"
  /\ NetServerEther = ~NetArpWait
  /\ pc = "returned" /\ ret # -1 => NetState = "SUCCESS" /\ ret = NetBootFileXferSize

TurnsInv == losses = 0 => Calm /\ Turns

(* Sequence numbers count up, and start again from 0.                         *)
LEMMA SequenceSucc ==
  ASSUME NEW b \in Nat
  PROVE  (b + 1) % TFTP_SEQUENCE_SIZE
           = IF b % TFTP_SEQUENCE_SIZE = TFTP_SEQUENCE_SIZE - 1 THEN 0 ELSE (b % TFTP_SEQUENCE_SIZE) + 1
<1> DEFINE N == TFTP_SEQUENCE_SIZE
           q == b \div N
           r == (b + 1) \div N
<1>1. N \in Nat /\ N >= 2
  BY FileAssumption
<1>2. b % N \in 0..(N - 1) /\ (b + 1) % N \in 0..(N - 1)
  BY <1>1
<1>3. q \in Int /\ b = N * q + (b % N)
  BY <1>1, Z3
<1>4. r \in Int /\ b + 1 = N * r + ((b + 1) % N)
  BY <1>1, Z3
<1> HIDE DEF N, q, r
<1>5. N * (r - q) = (b % N) + 1 - ((b + 1) % N)
  <2>1. N * r - N * q = (b % N) + 1 - ((b + 1) % N)
    <3> DEFINE x == N * r
               y == N * q
               c == b % N
               d == (b + 1) % N
    <3>1. x \in Int /\ y \in Int
      BY <1>1, <1>3, <1>4
    <3>2. c \in Int /\ d \in Int /\ b = y + c /\ b + 1 = x + d
      BY <1>1, <1>2, <1>3, <1>4
    <3> HIDE DEF x, y, c, d
    <3>3. x - y = c + 1 - d
      BY <3>1, <3>2
    <3> QED BY <3>3 DEF x, y, c, d
  <2> QED BY <1>1, <1>3, <1>4, <2>1, Z3
<1>6. r - q = 0 \/ r - q = 1
  <2>1. ~(r - q <= -1)
    BY <1>1, <1>2, <1>3, <1>4, <1>5
  <2>2. ~(r - q >= 2)
    BY <1>1, <1>2, <1>3, <1>4, <1>5
  <2> QED BY <1>3, <1>4, <2>1, <2>2
<1>7. CASE r - q = 0
  BY <1>1, <1>2, <1>5, <1>7 DEF N
<1>8. CASE r - q = 1
  BY <1>1, <1>2, <1>5, <1>8 DEF N
<1> QED BY <1>6, <1>7, <1>8

(* The place of the next block.                                               *)
LEMMA NextPlace ==
  ASSUME NEW n \in Nat, NEW w, NEW m,
         TftpBlockWrapOffset = n - (n % TFTP_SEQUENCE_SIZE),
         m.block = (n + 1) % TFTP_SEQUENCE_SIZE, w = WrapOffset(m)
  PROVE  w = n + 1 - m.block /\ m.block \in Nat
<1> DEFINE N == TFTP_SEQUENCE_SIZE
<1>1. N \in Nat /\ N >= 2
  BY FileAssumption
<1>2. n % N \in 0..(N - 1) /\ m.block \in 0..(N - 1)
  BY <1>1
<1>3. m.block = IF n % N = N - 1 THEN 0 ELSE (n % N) + 1
  BY SequenceSucc
<1>4. w = IF m.block = 0 THEN n - (n % N) + N ELSE n - (n % N)
  BY DEF WrapOffset
<1> DEFINE c == n % N
<1>5. /\ c \in 0..(N - 1) /\ m.block = (IF c = N - 1 THEN 0 ELSE c + 1)
      /\ w = IF m.block = 0 THEN n - c + N ELSE n - c
  <2>1. c \in 0..(N - 1)
    BY <1>2, Zenon
  <2>2. m.block = (IF c = N - 1 THEN 0 ELSE c + 1)
    BY <1>3, Zenon
  <2>3. w = IF m.block = 0 THEN n - c + N ELSE n - c
    BY <1>4, Zenon
  <2> QED BY <2>1, <2>2, <2>3, Zenon
<1> HIDE DEF N, c
<1>6. CASE c = N - 1
  BY <1>1, <1>5, <1>6
<1>7. CASE c # N - 1
  BY <1>1, <1>5, <1>7
<1> QED BY <1>6, <1>7

(* Storing the next block.                                                    *)
LEMMA NextStored ==
  ASSUME NEW n \in 0..(NumBlocks - 1), FirstBlocks(n), NEW m, NEW sport, NEW w,
         m.body = n + 1, m.block = (n + 1) % TFTP_SEQUENCE_SIZE, w = n + 1 - m.block,
         m.block \in Nat, TakeBlock(m, sport, w), TftpBlock' = m.block, TftpBlockWrapOffset' = w
  PROVE  FirstBlocks(n + 1)'
<1> USE FileAssumption DEF TFTP_BLOCK_SIZE
<1>1. Cell(m.block, w) = n + 1
  BY DEF Cell
<1>2. DOMAIN mem = 1..n /\ \A k \in 1..n : mem[k] = k
  BY DEF FirstBlocks
<1>3. mem' = [k \in 1..(n + 1) |-> k]
  <2>1. mem' = [c \in DOMAIN mem \union {n + 1} |-> IF c = n + 1 THEN n + 1 ELSE mem[c]]
    BY <1>1 DEF TakeBlock, store_block
  <2>2. (1..n) \union {n + 1} = 1..(n + 1)
    OBVIOUS
  <2>3. \A c \in 1..(n + 1) : (IF c = n + 1 THEN n + 1 ELSE mem[c]) = c
    BY <1>2
  <2> QED BY <1>2, <2>1, <2>2, <2>3
<1>4. n # NumBlocks
  OBVIOUS
<1>5. NetBootFileXferSize' = IF n + 1 = NumBlocks THEN FileSize ELSE (n + 1) * TFTP_BLOCK_SIZE
  <2> DEFINE newsize == n * 512 + BlockLen(n + 1)
  <2>1. NetBootFileXferSize = n * 512
    BY <1>4 DEF FirstBlocks
  <2>2. NetBootFileXferSize' = IF NetBootFileXferSize < newsize THEN newsize ELSE NetBootFileXferSize
    <3>1. (n + 1 - 1) * 512 = n * 512
      OBVIOUS
    <3> QED BY <1>1, <3>1 DEF TakeBlock, store_block
  <2>3. newsize = IF n + 1 = NumBlocks THEN n * 512 + LastLen ELSE n * 512 + 512
    BY DEF BlockLen
  <2>4. n + 1 = NumBlocks => FileSize = n * 512 + LastLen
    <3> SUFFICES ASSUME n + 1 = NumBlocks PROVE FileSize = n * 512 + LastLen
      OBVIOUS
    <3>1. NumBlocks - 1 = n
      OBVIOUS
    <3> QED BY <3>1 DEF FileSize
  <2>5. (n + 1) * 512 = n * 512 + 512
    OBVIOUS
  <2> HIDE DEF newsize
  <2> QED BY <2>1, <2>2, <2>3, <2>4, <2>5
<1>6. NetState' = IF n + 1 = NumBlocks THEN "SUCCESS" ELSE "CONTINUE"
  BY <1>4 DEF TakeBlock, BlockLen, FirstBlocks
<1>7. TftpLastBlock' = TftpBlock'
  BY DEF TakeBlock
<1> QED BY <1>3, <1>5, <1>6, <1>7 DEF FirstBlocks

(* What has been stored stays so.                                             *)
LEMMA SameBlocks ==
  ASSUME NEW n, FirstBlocks(n),
         UNCHANGED <<mem, TftpBlock, TftpLastBlock, TftpBlockWrapOffset, NetBootFileXferSize, NetState>>
  PROVE  FirstBlocks(n)'
BY DEF FirstBlocks

(* Whatever is on its way is the only thing; a packet for the client means    *)
(* that a block is offered, and an acknowledgement that one has been stored.  *)
LEMMA TurnOf ==
  ASSUME TypeOK, Orderly, Turns, NEW m \in net
  PROVE  /\ net = {m} /\ Without(m) = {} /\ ~NetArpWait
         /\ m.op = "RRQ" => Asking /\ m = Rrq(TftpOurPort)
         /\ m.op = "ACK" => \E s \in Sessions : Acking(s) /\ m = Ack(TftpOurPort, s, TftpBlock)
         /\ m.op \notin {"RRQ", "ACK"} =>
              \E s \in Sessions : Offering(s) /\ m = LastSent(s) /\ m.sport = s
                                  /\ m.cport = TftpOurPort /\ m.body = server[s].block
                                  /\ m.block = server[s].block % TFTP_SEQUENCE_SIZE
                                  /\ m.op = IF server[s].block = 0 THEN "OACK" ELSE "DATA"
<1>1. Without(m) = net \ {m}
  BY DEF Without, Orderly
<1>2. CASE Asking
  <2>1. net = {Rrq(TftpOurPort)} /\ ~NetArpWait
    BY <1>2 DEF Asking
  <2> QED BY <1>1, <1>2, <2>1, PacketFields
<1>3. ASSUME NEW s \in Sessions, Offering(s)
      PROVE  /\ net = {m} /\ ~NetArpWait /\ m.op \notin {"RRQ", "ACK"} /\ m = LastSent(s) /\ m.sport = s
             /\ m.cport = TftpOurPort /\ m.body = server[s].block
             /\ m.block = server[s].block % TFTP_SEQUENCE_SIZE
             /\ m.op = IF server[s].block = 0 THEN "OACK" ELSE "DATA"
  BY <1>3, LastSentFields DEF Offering, Only
<1>4. ASSUME NEW s \in Sessions, Acking(s)
      PROVE  net = {m} /\ ~NetArpWait /\ m = Ack(TftpOurPort, s, TftpBlock) /\ m.op = "ACK"
  BY <1>4, PacketFields DEF Acking
<1>5. ~Finished
  BY DEF Finished
<1>6. CASE \E s \in Sessions : Offering(s)
  <2>1. PICK s \in Sessions : Offering(s)
    BY <1>6
  <2> QED BY <1>1, <1>3, <2>1
<1>7. CASE \E s \in Sessions : Acking(s)
  <2>1. PICK s \in Sessions : Acking(s)
    BY <1>7
  <2> QED BY <1>1, <1>4, <2>1
<1> QED BY <1>2, <1>5, <1>6, <1>7 DEF Turns

(* A packet for the client, as TurnOf describes it.                           *)
LEMMA ClientsTurn ==
  ASSUME TypeOK, Orderly, Turns, NEW m \in ToClient
  PROVE  /\ net = {m} /\ Without(m) = {} /\ ~NetArpWait
         /\ m.sport \in Sessions /\ Offering(m.sport) /\ m = LastSent(m.sport)
         /\ m.cport = TftpOurPort /\ m.body = server[m.sport].block
         /\ m.block = server[m.sport].block % TFTP_SEQUENCE_SIZE
         /\ m.op = IF server[m.sport].block = 0 THEN "OACK" ELSE "DATA"
<1>1. m \in net /\ m.op \notin {"RRQ", "ACK"}
  BY DEF ToClient
<1> QED BY <1>1, TurnOf

LEMMA TurnOack ==
  ASSUME TypeOK, Orderly, Calm, Turns, NEW m, RecvOack(m)
  PROVE  Calm' /\ Turns'
<1> USE FileAssumption
<1>1. /\ m \in ToClient /\ Accepts(m) /\ m.op = "OACK" /\ TftpState' = "OACK"
      /\ TftpServerPort' = m.sport
      /\ NetSendUDPPacket(TftpPacket("OACK", m.sport, TftpBlock), Without(m))
      /\ UNCHANGED <<loopVars, handlerVars, TftpOurPort, TftpTimeoutCount, TftpBlock,
                     TftpLastBlock, TftpBlockWrapOffset, fileVars, server, losses, resent>>
  BY DEF RecvOack, Receives
<1> DEFINE s == m.sport
<1>2. /\ s \in Sessions /\ Offering(s) /\ Without(m) = {} /\ ~NetArpWait /\ server[s].block = 0
  BY <1>1, ClientsTurn
<1>3. net' = {Ack(TftpOurPort, s, TftpBlock)} /\ UNCHANGED arpVars
  BY <1>1, <1>2 DEF NetSendUDPPacket, eth_send, TftpPacket, Calm
<1>4. UNCHANGED <<pc, NetState, ret, packetHandler, timeHandler, eth, mem, NetBootFileXferSize,
                  NetServerEther, NetArpWait>>
  BY <1>1, <1>3 DEF loopVars, handlerVars, fileVars, arpVars
<1>5. FirstBlocks(0)'
  BY <1>1, <1>2, <1>4, SameBlocks DEF Offering
<1>6. FirstBlocks(server[s].block)'
  BY <1>1, <1>2, <1>5 DEF FirstBlocks
<1>7. Calm'
  BY <1>1, <1>4 DEF Calm
<1>8. Acking(s)'
  BY <1>1, <1>2, <1>3, <1>4, <1>6 DEF Acking, Offering, Only, Waiting, Ack, Packet, Idle
<1> QED BY <1>2, <1>7, <1>8 DEF Turns

(* The client stores the block that is offered and acknowledges it.           *)
LEMMA TurnTaken ==
  ASSUME TypeOK, Orderly, Calm, Turns, NEW m \in ToClient, m.op = "DATA", pc = "eth_rx",
         TftpState' = "DATA", TftpServerPort' = m.sport, TftpBlock' = m.block,
         NEW w, w = server[m.sport].block - m.block, TftpBlockWrapOffset' = w,
         TakeBlock(m, m.sport, w), UNCHANGED <<pc, TftpOurPort, server>>
  PROVE  Calm' /\ Turns'
<1> USE FileAssumption
<1> DEFINE s == m.sport
           b == server[s].block
<1>1. /\ s \in Sessions /\ Offering(s) /\ Without(m) = {} /\ ~NetArpWait
      /\ m.body = b /\ m.block = b % TFTP_SEQUENCE_SIZE /\ b # 0
  BY ClientsTurn
<1>2. b \in 1..NumBlocks /\ FirstBlocks(b - 1)
  BY <1>1 DEF Offering, Waiting
<1>3. /\ TftpLastBlock' = m.block /\ timeHandler' = "TftpTimeout" /\ UNCHANGED <<packetHandler, eth>>
      /\ NetSendUDPPacket(TftpPacket("DATA", s, m.block), {})
  BY <1>1 DEF TakeBlock
<1>4. net' = {Ack(TftpOurPort, s, m.block)} /\ UNCHANGED <<NetServerEther, NetArpWait>>
  BY <1>1, <1>3 DEF NetSendUDPPacket, eth_send, TftpPacket, Calm, arpVars
<1>5. PICK n \in 0..(NumBlocks - 1) : n + 1 = b /\ FirstBlocks(n)
  <2>1. b - 1 \in 0..(NumBlocks - 1) /\ b - 1 + 1 = b
    BY <1>2
  <2> QED BY <1>2, <2>1
<1>6. FirstBlocks(n + 1)'
  <2>1. m.block \in Nat
    BY <1>1, <1>2
  <2>2. m.body = n + 1 /\ m.block = (n + 1) % TFTP_SEQUENCE_SIZE /\ w = n + 1 - m.block
    BY <1>1, <1>5
  <2> QED BY <1>5, <2>1, <2>2, NextStored
<1>7. Calm'
  BY <1>3, <1>4 DEF Calm
<1>8. FirstBlocks(server[s].block)'
  <2>1. server'[m.sport].block = n + 1
    BY <1>5
  <2> QED BY <1>6, <2>1 DEF FirstBlocks
<1>9. Acking(s)'
  BY <1>1, <1>2, <1>4, <1>8 DEF Acking, Offering, Only, Waiting, Ack, Packet, Idle
<1> QED BY <1>1, <1>7, <1>9 DEF Turns

LEMMA TurnFirstBlock ==
  ASSUME TypeOK, Orderly, Calm, Turns, NEW m, RecvFirstBlock(m)
  PROVE  Calm' /\ Turns'
<1> USE FileAssumption
<1>1. /\ m \in ToClient /\ pc = "eth_rx" /\ m.op = "DATA" /\ TftpState \in {"RRQ", "OACK"}
      /\ TftpState' = "DATA" /\ TftpServerPort' = m.sport /\ TftpBlock' = m.block
      /\ TftpBlockWrapOffset' = 0
      /\ m.block = 1 => TakeBlock(m, m.sport, 0)
      /\ UNCHANGED <<pc, TftpOurPort, server>>
  BY DEF RecvFirstBlock, ReceivesData, Receives
<1>2. /\ m.sport \in Sessions /\ Offering(m.sport) /\ server[m.sport].block # 0
      /\ m.block = server[m.sport].block % TFTP_SEQUENCE_SIZE
  BY <1>1, ClientsTurn
<1>3. server[m.sport].block = 1
  BY <1>1, <1>2 DEF Offering
<1>4. 1 % TFTP_SEQUENCE_SIZE = 1
  OBVIOUS
<1>5. m.block = 1 /\ 0 = server[m.sport].block - m.block
  BY <1>2, <1>3, <1>4
<1> QED BY <1>1, <1>5, TurnTaken

LEMMA TurnNextBlock ==
  ASSUME TypeOK, Orderly, Calm, Turns, NEW m, RecvNextBlock(m)
  PROVE  Calm' /\ Turns'
<1> USE FileAssumption
<1>1. /\ m \in ToClient /\ pc = "eth_rx" /\ Accepts(m) /\ m.op = "DATA" /\ TftpState = "DATA"
      /\ TftpBlock' = m.block /\ TftpBlockWrapOffset' = WrapOffset(m)
      /\ TakeBlock(m, TftpServerPort, WrapOffset(m))
      /\ UNCHANGED <<pc, TftpState, TftpServerPort, TftpOurPort, server>>
  BY DEF RecvNextBlock, ReceivesData, Receives
<1>2. /\ m.sport \in Sessions /\ Offering(m.sport) /\ server[m.sport].block # 0
      /\ m.block = server[m.sport].block % TFTP_SEQUENCE_SIZE
  BY <1>1, ClientsTurn
<1>3. m.sport = TftpServerPort
  BY <1>1 DEF Accepts
<1> DEFINE n == server[m.sport].block - 1
           w == WrapOffset(m)
<1>4. n \in Nat /\ n + 1 = server[m.sport].block /\ FirstBlocks(n)
  BY <1>2 DEF Offering, Waiting
<1>5. w = server[m.sport].block - m.block
  <2> HIDE DEF n
  <2>1. TftpBlockWrapOffset = n - (n % TFTP_SEQUENCE_SIZE)
    BY <1>4 DEF FirstBlocks
  <2>2. m.block = (n + 1) % TFTP_SEQUENCE_SIZE
    BY <1>2, <1>4
  <2> QED BY <1>4, <2>1, <2>2, NextPlace
<1> HIDE DEF w
<1>6. TftpBlockWrapOffset' = w /\ TakeBlock(m, m.sport, w)
  BY <1>1, <1>3 DEF w
<1> QED BY <1>1, <1>3, <1>5, <1>6, TurnTaken

(* No block comes twice.                                                      *)
LEMMA TurnSameBlock ==
  ASSUME TypeOK, Orderly, Turns, NEW m
  PROVE  ~RecvSameBlock(m)
<1> SUFFICES ASSUME RecvSameBlock(m) PROVE FALSE
  OBVIOUS
<1>1. m \in ToClient /\ m.op = "DATA" /\ TftpState = "DATA" /\ m.block = TftpLastBlock
  BY DEF RecvSameBlock, ReceivesData, Receives
<1>2. /\ m.sport \in Sessions /\ Offering(m.sport) /\ server[m.sport].block # 0
      /\ m.block = server[m.sport].block % TFTP_SEQUENCE_SIZE
  BY <1>1, ClientsTurn
<1> DEFINE n == server[m.sport].block - 1
<1>3. n \in Nat /\ n + 1 = server[m.sport].block /\ FirstBlocks(n)
  BY <1>2 DEF Offering, Waiting
<1> HIDE DEF n
<1>4. n % TFTP_SEQUENCE_SIZE = (n + 1) % TFTP_SEQUENCE_SIZE
  BY <1>1, <1>2, <1>3 DEF FirstBlocks
<1> QED BY <1>3, <1>4, SequenceNext

LEMMA TurnArpReply ==
  ASSUME TypeOK, Orderly, Calm, Turns, RecvArpReply
  PROVE  Calm' /\ Turns'
<1>1. /\ NetArpWait /\ NetServerEther' = TRUE /\ NetArpWait' = FALSE
      /\ net' = eth_send(TftpPacket(TftpState, TftpServerPort, TftpBlock), net)
      /\ UNCHANGED <<loopVars, handlerVars, tftpVars, fileVars, server>>
  BY DEF RecvArpReply
<1>2. Asking
  BY <1>1 DEF Turns, Offering, Acking, Finished
<1>3. UNCHANGED <<pc, NetState, ret, packetHandler, timeHandler, eth, mem, NetBootFileXferSize,
                  TftpState, TftpOurPort, TftpBlock, TftpLastBlock, TftpBlockWrapOffset>>
  BY <1>1 DEF loopVars, handlerVars, tftpVars, fileVars
<1>4. net' = {Rrq(TftpOurPort)}
  BY <1>1, <1>2 DEF eth_send, TftpPacket, Asking, Calm
<1>5. FirstBlocks(0)'
  BY <1>2, <1>3, SameBlocks DEF Asking
<1>6. Asking'
  BY <1>1, <1>2, <1>3, <1>4, <1>5 DEF Asking, Rrq, Packet, Idle
<1> QED BY <1>1, <1>3, <1>6 DEF Calm, Turns

(* What the client keeps while the server takes its turn.                     *)
LEMMA ClientKeeps ==
  ASSUME Calm, UNCHANGED clientVars
  PROVE  /\ Calm'
         /\ UNCHANGED <<mem, TftpBlock, TftpLastBlock, TftpBlockWrapOffset, NetBootFileXferSize,
                        NetState, TftpState, TftpServerPort, TftpOurPort, NetArpWait>>
BY DEF Calm, clientVars, loopVars, handlerVars, tftpVars, arpVars, fileVars

LEMMA TurnServerRequest ==
  ASSUME TypeOK, Orderly, Calm, Turns, NEW s \in Sessions, NEW m, ServerRequest(s, m)
  PROVE  Calm' /\ Turns'
<1> USE FileAssumption
<1>1. m \in net /\ m.op = "RRQ" /\ server[s] = Idle
  BY DEF ServerRequest
<1>2. PICK n \in {0, 1} : ServerAnswers(s, m, m.cport, n)
  BY DEF ServerRequest
<1>3. Asking /\ m = Rrq(TftpOurPort) /\ Without(m) = {} /\ ~NetArpWait
  BY <1>1, TurnOf
<1>4. /\ server' = [server EXCEPT ![s] = [cport |-> TftpOurPort, block |-> n]]
      /\ net' = {IF n = 0 THEN Oack(TftpOurPort, s) ELSE Data(TftpOurPort, s, n)}
      /\ UNCHANGED clientVars
  <2>1. m.cport = TftpOurPort
    BY <1>3 DEF Rrq, Packet
  <2> QED BY <1>2, <1>3, <2>1 DEF ServerAnswers
<1>5. /\ Calm'
      /\ UNCHANGED <<mem, TftpBlock, TftpLastBlock, TftpBlockWrapOffset, NetBootFileXferSize,
                     NetState, TftpState, TftpServerPort, TftpOurPort, NetArpWait>>
  BY <1>4, ClientKeeps
<1>6. /\ server'[s] = [cport |-> TftpOurPort, block |-> n]
      /\ \A t \in Sessions \ {s} : server'[t] = Idle
  BY <1>3, <1>4 DEF TypeOK, ServerTypeOK, Asking
<1>7. Waiting(s)' /\ net' = {LastSent(s)'} /\ Only(s)'
  BY <1>4, <1>5, <1>6 DEF Waiting, LastSent, Oack, Data, Packet, Only, Idle
<1>8. FirstBlocks(0)'
  BY <1>3, <1>5, SameBlocks DEF Asking
<1>9. n # 0 => FirstBlocks(server[s].block - 1)'
  <2>1. n # 0 => server'[s].block - 1 = 0
    BY <1>6
  <2> QED BY <1>8, <2>1 DEF FirstBlocks
<1>10. Offering(s)'
  <2>1. server'[s].block = n /\ TftpState' = "RRQ"
    BY <1>3, <1>5, <1>6 DEF Asking
  <2> QED BY <1>3, <1>5, <1>7, <1>8, <1>9, <2>1 DEF Offering
<1> QED BY <1>5, <1>10 DEF Turns

LEMMA TurnServerAck ==
  ASSUME TypeOK, Orderly, Calm, Turns, NEW s \in Sessions, NEW m, ServerAck(s, m)
  PROVE  Calm' /\ Turns'
<1> USE FileAssumption
<1>1. m \in net /\ m.op = "ACK" /\ m.sport = s /\ ServerAnswers(s, m, m.cport, server[s].block + 1)
  BY DEF ServerAck, Awaits
<1>2. PICK t \in Sessions : Acking(t) /\ m = Ack(TftpOurPort, t, TftpBlock)
  BY <1>1, TurnOf
<1>3. t = s /\ m.cport = TftpOurPort /\ Without(m) = {} /\ ~NetArpWait
  BY <1>1, <1>2, TurnOf, PacketFields
<1>4. PICK b \in 0..NumBlocks : b = server[s].block
  BY <1>2, <1>3 DEF Acking, Waiting
<1>5. /\ server' = [server EXCEPT ![s] = [cport |-> TftpOurPort, block |-> b + 1]]
      /\ net' = IF b + 1 <= NumBlocks THEN {Data(TftpOurPort, s, b + 1)} ELSE {}
      /\ UNCHANGED clientVars
  BY <1>1, <1>3, <1>4 DEF ServerAnswers
<1>6. /\ Calm'
      /\ UNCHANGED <<mem, TftpBlock, TftpLastBlock, TftpBlockWrapOffset, NetBootFileXferSize,
                     NetState, TftpState, TftpServerPort, TftpOurPort, NetArpWait>>
  BY <1>5, ClientKeeps
<1>7. /\ server'[s] = [cport |-> TftpOurPort, block |-> b + 1]
      /\ \A u \in Sessions \ {s} : server'[u] = Idle
  BY <1>2, <1>3, <1>5 DEF TypeOK, ServerTypeOK, Acking, Only
<1>8. FirstBlocks(b)'
  BY <1>2, <1>3, <1>4, <1>6, SameBlocks DEF Acking
<1>9. CASE b + 1 <= NumBlocks
  <2>1. Waiting(s)' /\ net' = {LastSent(s)'} /\ Only(s)'
    BY <1>4, <1>5, <1>6, <1>7, <1>9 DEF Waiting, LastSent, Oack, Data, Packet, Only, Idle
  <2>2. server'[s].block = b + 1 /\ server'[s].block # 0 /\ server'[s].block - 1 = b
    BY <1>4, <1>7
  <2>3. FirstBlocks(server[s].block - 1)'
    BY <1>8, <2>2 DEF FirstBlocks
  <2>4. TftpServerPort' = s /\ TftpState' = IF b = 0 THEN "OACK" ELSE "DATA"
    BY <1>2, <1>3, <1>4, <1>6 DEF Acking
  <2>5. Offering(s)'
    BY <1>3, <1>4, <1>6, <2>1, <2>2, <2>3, <2>4 DEF Offering
  <2> QED BY <1>6, <2>5 DEF Turns
<1>10. CASE ~(b + 1 <= NumBlocks)
  <2>1. b = NumBlocks /\ net' = {}
    BY <1>4, <1>5, <1>10
  <2>2. FirstBlocks(NumBlocks)'
    BY <1>8, <2>1 DEF FirstBlocks
  <2>3. \A u \in Sessions : ~Waiting(u)'
    BY <1>7, <2>1 DEF Waiting, Idle
  <2>4. Finished'
    BY <1>3, <1>6, <2>1, <2>2, <2>3 DEF Finished
  <2> QED BY <1>6, <2>4 DEF Turns
<1> QED BY <1>9, <1>10

(* Nothing is dropped, ignored, sent again or waited for in vain.             *)
LEMMA NothingIdle ==
  ASSUME TypeOK, Orderly, Calm, Turns
  PROVE  /\ \A m : ~Drop(m) /\ ~RecvError(m) /\ ~ServerIgnores(m)
         /\ \A s \in Sessions : ~ServerResend(s) /\ ~ServerGivesUp(s)
         /\ ~TftpTimeout /\ ~ArpTimeout /\ ~startAgainTimeout /\ ~Restart
<1> USE FileAssumption
<1>1. ASSUME NEW m, Drop(m) PROVE FALSE
  <2>1. m \in ToClient /\ ~Accepts(m)
    BY <1>1 DEF Drop, Receives
  <2>2. Offering(m.sport) /\ m.cport = TftpOurPort
    BY <2>1, ClientsTurn
  <2> QED BY <2>1, <2>2 DEF Accepts, Calm, Offering
<1>2. ASSUME NEW m, RecvError(m) PROVE FALSE
  BY <1>2, ClientsTurn DEF RecvError, Receives
<1>3. ASSUME NEW m, ServerIgnores(m) PROVE FALSE
  <2>1. /\ m \in net /\ m.op \in {"ACK", "RRQ"}
        /\ m.op = "ACK" => ~\E s \in Sessions : Awaits(s, m)
        /\ m.op = "RRQ" => \A s \in Sessions : server[s] # Idle
    BY <1>3 DEF ServerIgnores
  <2>2. CASE m.op = "ACK"
    <3>1. PICK s \in Sessions : Acking(s) /\ m = Ack(TftpOurPort, s, TftpBlock)
      BY <2>1, <2>2, TurnOf
    <3>2. Awaits(s, m)
      BY <3>1, PacketFields DEF Awaits, Acking, Only, FirstBlocks
    <3> QED BY <2>1, <2>2, <3>2
  <2>3. CASE m.op = "RRQ"
    BY <2>1, <2>3, TurnOf DEF Asking, Orderly
  <2> QED BY <2>1, <2>2, <2>3
<1>4. net = {} => (NetArpWait /\ Asking) \/ Finished
  BY DEF Turns, Asking, Offering, Acking
<1>5. ASSUME NEW s \in Sessions, ServerResend(s) PROVE FALSE
  <2>1. net = {} /\ Waiting(s)
    BY <1>5 DEF ServerResend, Orderly
  <2> QED BY <1>4, <2>1 DEF Asking, Finished, Waiting, Idle
<1>6. ASSUME NEW s \in Sessions, ServerGivesUp(s) PROVE FALSE
  BY <1>6 DEF ServerGivesUp, Orderly
<1>7. ASSUME TftpTimeout PROVE FALSE
  <2>1. net = {} /\ ~NetArpWait /\ NetState = "CONTINUE"
    BY <1>7 DEF TftpTimeout, Quiet, Orderly
  <2> QED BY <1>4, <2>1 DEF Finished, FirstBlocks
<1>8. NetState \in {"CONTINUE", "SUCCESS"}
  BY DEF Turns, Asking, Offering, Acking, Finished, FirstBlocks
<1>9. ~ArpTimeout /\ ~startAgainTimeout /\ ~Restart
  BY <1>8 DEF ArpTimeout, Orderly, startAgainTimeout, Calm, Restart
<1> QED BY <1>1, <1>2, <1>3, <1>5, <1>6, <1>7, <1>9

(* Steps of NetLoop that change neither the transfer nor its peers.           *)
LEMMA TurnElsewhere ==
  ASSUME Calm, Turns,
         UNCHANGED <<NetState, handlerVars, tftpVars, arpVars, fileVars, net, server>>,
         \/ UNCHANGED <<pc, ret>>
         \/ pc' # "returned"
         \/ ret' = -1
         \/ NetState = "SUCCESS" /\ ret' = NetBootFileXferSize
  PROVE  Calm' /\ Turns'
<1>1. UNCHANGED <<packetHandler, timeHandler, eth, TftpState, TftpServerPort, TftpOurPort, TftpBlock,
                  TftpLastBlock, TftpBlockWrapOffset, NetServerEther, NetArpWait, mem,
                  NetBootFileXferSize>>
  BY DEF handlerVars, tftpVars, arpVars, fileVars
<1>2. Calm'
  BY <1>1 DEF Calm
<1>3. \A n : FirstBlocks(n)' = FirstBlocks(n)
  BY <1>1 DEF FirstBlocks
<1>4. \A s : LastSent(s)' = LastSent(s) /\ Waiting(s)' = Waiting(s)
  BY SameSessions
<1>5. \A s : Only(s)' = Only(s)
  BY <1>1 DEF Only, Idle
<1>6. Asking' = Asking
  BY <1>1, <1>3 DEF Asking, Rrq, Packet, Idle
<1>7. \A s : Offering(s)' = Offering(s)
  <2> SUFFICES ASSUME NEW s PROVE Offering(s)' = Offering(s)
    OBVIOUS
  <2>1. /\ FirstBlocks(server[s].block - 1)' = FirstBlocks(server[s].block - 1)
        /\ FirstBlocks(0)' = FirstBlocks(0)
    BY <1>1 DEF FirstBlocks
  <2> QED BY <1>1, <1>4, <1>5, <2>1 DEF Offering
<1>8. \A s : Acking(s)' = Acking(s)
  <2> SUFFICES ASSUME NEW s PROVE Acking(s)' = Acking(s)
    OBVIOUS
  <2>1. FirstBlocks(server[s].block)' = FirstBlocks(server[s].block)
    BY <1>1 DEF FirstBlocks
  <2>2. Ack(TftpOurPort, s, TftpBlock)' = Ack(TftpOurPort, s, TftpBlock)
    BY <1>1 DEF Ack, Packet
  <2> QED BY <1>1, <1>4, <1>5, <2>1, <2>2 DEF Acking
<1>9. Finished' = Finished
  BY <1>1, <1>3, <1>4 DEF Finished
<1> QED BY <1>2, <1>6, <1>7, <1>8, <1>9 DEF Turns

(* One step, as long as nothing is lost.                                      *)
LEMMA TurnsStep ==
  ASSUME TypeOK, Orderly, TurnsInv, [Next]_vars
  PROVE  TurnsInv'
<1>1. losses' = 0 => losses = 0
  BY LossesGrow, LimitAssumption DEF TypeOK, ServerTypeOK
<1> SUFFICES ASSUME losses' = 0, losses = 0 PROVE Calm' /\ Turns'
  BY <1>1 DEF TurnsInv
<1>2. Calm /\ Turns
  BY DEF TurnsInv
<1>3. CASE UNCHANGED vars \/ Returned
  <2>1. UNCHANGED <<pc, ret, NetState, handlerVars, tftpVars, arpVars, fileVars, net, server>>
    BY <1>3 DEF vars, clientVars, loopVars, Returned
  <2> QED BY <1>2, <2>1, TurnElsewhere
<1>4. CASE EndRx \/ CtrlC \/ ArpInTime \/ NoTimeout \/ Continue \/ Return
  <2>1. /\ UNCHANGED <<NetState, handlerVars, tftpVars, arpVars, fileVars, net, server>>
        /\ \/ pc' # "returned"
           \/ ret' = -1
           \/ NetState = "SUCCESS" /\ ret' = NetBootFileXferSize
    BY <1>4 DEF EndRx, CtrlC, ArpInTime, NoTimeout, Continue, Return
  <2> QED BY <1>2, <2>1, TurnElsewhere
<1>5. CASE ArpTimeout \/ TftpTimeout \/ startAgainTimeout \/ Restart
  BY <1>2, <1>5, NothingIdle
<1>6. CASE Receive
  <2>1. ASSUME NEW m \in net, Drop(m) \/ RecvOack(m) \/ RecvFirstBlock(m) \/ RecvSameBlock(m)
                              \/ RecvNextBlock(m) \/ RecvError(m)
        PROVE  Calm' /\ Turns'
    BY <1>2, <2>1, NothingIdle, TurnOack, TurnFirstBlock, TurnSameBlock, TurnNextBlock
  <2> QED BY <1>2, <1>6, <2>1, TurnArpReply DEF Receive
<1>7. CASE Server
  <2>1. ASSUME NEW s \in Sessions, NEW m \in net, ServerRequest(s, m) \/ ServerAck(s, m)
        PROVE  Calm' /\ Turns'
    BY <1>2, <2>1, TurnServerRequest, TurnServerAck
  <2>2. /\ \A s \in Sessions : ~ServerResend(s) /\ ~ServerGivesUp(s)
        /\ \A m \in net : ~ServerIgnores(m)
    BY <1>2, NothingIdle
  <2> QED BY <1>7, <2>1, <2>2 DEF Server
<1>8. CASE \E m \in net : Lose(m)
  BY <1>8 DEF Lose
<1> QED BY <1>3, <1>4, <1>5, <1>6, <1>7, <1>8 DEF Next, Loop

LEMMA TurnsInit == Init => TurnsInv
<1> SUFFICES ASSUME Init PROVE Calm /\ Asking
  BY DEF TurnsInv, Turns
<1> USE FileAssumption DEF Init
<1>1. Calm
  BY DEF Calm
<1>2. FirstBlocks(0)
  <2>1. 0 % TFTP_SEQUENCE_SIZE = 0 /\ 1..0 = {} /\ 0 # NumBlocks
    OBVIOUS
  <2>2. mem = [k \in 1..0 |-> k]
    BY <2>1
  <2> QED BY <2>1, <2>2 DEF FirstBlocks, TFTP_BLOCK_SIZE
<1>3. Asking
  BY <1>2 DEF Asking
<1> QED BY <1>1, <1>3

(* What NetLoop reports then is the whole file.                               *)
LEMMA TurnsComplete ==
  ASSUME TurnsInv, losses = 0
  PROVE  SuccessMeansWholeFile
<1> USE FileAssumption
<1> SUFFICES ASSUME pc = "returned", ret # -1 PROVE Loaded(NumBlocks) /\ ret = FileSize
  BY DEF SuccessMeansWholeFile
<1>1. NetState = "SUCCESS" /\ ret = NetBootFileXferSize /\ Turns
  BY DEF TurnsInv, Calm
<1>2. ASSUME NEW n, FirstBlocks(n) PROVE n = NumBlocks
  BY <1>1, <1>2 DEF FirstBlocks
<1>3. \E n : FirstBlocks(n)
  BY <1>1 DEF Turns, Asking, Offering, Acking, Finished
<1>4. FirstBlocks(NumBlocks)
  BY <1>2, <1>3
<1> QED BY <1>1, <1>4 DEF FirstBlocks, Loaded

(* With packets that come once and within the time the timers wait, a file of  *)
(* any length is stored as it is, however often the 16-bit sequence numbers     *)
(* wrap (the offset counted in TftpHandler, tftp.c): as long as nothing was     *)
(* lost, a transfer that NetLoop reports has put every block in its place and   *)
(* returns the file's size.  That nothing was lost is needed: a block that      *)
(* comes again right after a wraparound moves all that follow it.               *)
THEOREM WholeFileWraps == Orderly /\ Spec => []WholeUnlessLost
<1>1. Orderly /\ Init => TypeOK /\ LimitsOK /\ TurnsInv
  BY InitTyped, TurnsInit
<1>2. Orderly /\ TypeOK /\ LimitsOK /\ TurnsInv /\ [Next]_vars => (TypeOK /\ LimitsOK /\ TurnsInv)'
  BY TypeInductive, LimitsInductive, TurnsStep
<1>3. TurnsInv => WholeUnlessLost
  BY TurnsComplete DEF WholeUnlessLost
<1>4. CASE Orderly
  BY <1>1, <1>2, <1>3, <1>4, PTL DEF Spec
<1>5. CASE ~Orderly
  BY <1>5, PTL
<1> QED BY <1>4, <1>5
=============================================================================
