------------------------------- MODULE Tftp -------------------------------
(***************************************************************************)
(* The TFTP download of the boot loader: the client of uboot/net/tftp.c    *)
(* driven by the packet loop of uboot/net/net.c (NetLoop), a TFTP server    *)
(* and the network between them.                                            *)
(*                                                                          *)
(* NetLoop is a single thread.  One iteration hands every packet that has   *)
(* arrived to the current packet handler, looks for Ctrl-C, for an ARP      *)
(* timeout and for an expired timer, and then acts on NetState; pc names    *)
(* the part of the iteration that comes next.                               *)
(*                                                                          *)
(* A file is NumBlocks blocks; block n has the content n, all are           *)
(* TFTP_BLOCK_SIZE bytes long but the last one, which has LastLen bytes.    *)
(* Memory from load_addr on is a partial function from block cells to       *)
(* contents.  Timers are not clocked: an armed timer may run out in any     *)
(* iteration, or, when EarlyTimers is FALSE, only when nothing is in        *)
(* transit (a round trip is shorter than the three seconds of TIMEOUT).     *)
(***************************************************************************)
EXTENDS Integers

CONSTANTS
  NumBlocks,          \* data packets the file takes, the short last one included
  LastLen,            \* bytes in the last packet
  TFTP_SEQUENCE_SIZE, \* packet sequence numbers wrap here (2^16 in the code)
  TIMEOUT_COUNT,      \* timeouts the client takes before it starts again
  ARP_TIMEOUT_COUNT,  \* ARP requests before it starts again
  netretry,           \* what getenv ("netretry") may find, of "no", "once", "yes"
  OurPort,            \* OurPort[i]: 1024 + get_timer(0) % 3072 at start number i
  MaxRestarts,        \* bound: goto restart is taken at most this often
  Sessions,           \* ports the server answers from, one for each request
  Duplicating,        \* packets may be lost, duplicated and reordered at will
  MaxLoss,            \* bound: packets lost when the network does not duplicate
  EarlyTimers,        \* timers may run out while an answer is in transit
  ServerErrors        \* the server may refuse or abandon a transfer

TFTP_BLOCK_SIZE == 512
WELL_KNOWN_PORT == 0

ASSUME FileAssumption ==
  /\ NumBlocks \in Nat \ {0}
  /\ LastLen \in 0..(TFTP_BLOCK_SIZE - 1)
  /\ TFTP_SEQUENCE_SIZE \in Nat \ {0, 1}

ASSUME LimitAssumption ==
  /\ TIMEOUT_COUNT \in Nat
  /\ ARP_TIMEOUT_COUNT \in Nat \ {0}
  /\ MaxRestarts \in Nat
  /\ MaxLoss \in Nat

ASSUME EnvironmentAssumption ==
  /\ netretry \subseteq {"no", "once", "yes"} /\ netretry # {}
  /\ Duplicating \in BOOLEAN
  /\ EarlyTimers \in BOOLEAN
  /\ ServerErrors \in BOOLEAN
  /\ OurPort \in [0..MaxRestarts -> Nat]
  /\ Sessions \subseteq Nat \ {WELL_KNOWN_PORT}

VARIABLES
  pc,                  \* the part of NetLoop that runs next
  NetState,            \* what the handlers ask of NetLoop
  ret,                 \* what NetLoop returned
  packetHandler,       \* who gets a received UDP packet
  timeHandler,         \* what runs when the timer runs out
  eth,                 \* "up", or "halted" once eth_halt has stopped the DMA engine
  restarts,            \* times NetLoop has gone to restart
  TftpState,
  TftpServerPort,
  TftpOurPort,
  TftpTimeoutCount,
  TftpBlock,           \* sequence number of the last DATA packet looked at
  TftpLastBlock,       \* sequence number of the last block stored
  TftpBlockWrapOffset, \* memory offset due to wraparounds, in blocks
  NetServerEther,      \* TRUE when the server's Ethernet address is known
  NetArpWait,          \* NetArpWaitPacketIP and NetArpWaitPacketMAC are set
  NetArpWaitTry,
  mem,                 \* memory from load_addr on, by block
  NetBootFileXferSize, \* in bytes
  net,                 \* packets in transit
  server,              \* the block each session of the server has sent last
  losses,              \* packets lost so far
  resent               \* sessions that have sent again since the client's timer ran out

loopVars == <<pc, NetState, ret, restarts>>
handlerVars == <<packetHandler, timeHandler, eth>>
tftpVars == <<TftpState, TftpServerPort, TftpOurPort, TftpTimeoutCount,
              TftpBlock, TftpLastBlock, TftpBlockWrapOffset>>
arpVars == <<NetServerEther, NetArpWait, NetArpWaitTry>>
fileVars == <<mem, NetBootFileXferSize>>
clientVars == <<loopVars, handlerVars, tftpVars, arpVars, fileVars>>
vars == <<clientVars, net, server, losses, resent>>

-----------------------------------------------------------------------------
(* Packets.  cport and sport are the UDP ports of the client's and of the   *)
(* server's end, block the 16-bit sequence number and body the content.     *)

Packet(op, cport, sport, block, body) ==
  [op |-> op, cport |-> cport, sport |-> sport, block |-> block, body |-> body]

Rrq(cport) == Packet("RRQ", cport, WELL_KNOWN_PORT, 0, 0)
Ack(cport, sport, block) == Packet("ACK", cport, sport, block, 0)
Data(cport, sport, n) == Packet("DATA", cport, sport, n % TFTP_SEQUENCE_SIZE, n)
Oack(cport, sport) == Packet("OACK", cport, sport, 0, 0)
Error(cport, sport) == Packet("ERROR", cport, sport, 0, 0)

BlockLen(body) == IF body = NumBlocks THEN LastLen ELSE TFTP_BLOCK_SIZE
FileSize == (NumBlocks - 1) * TFTP_BLOCK_SIZE + LastLen

ToClient == {m \in net : m.op \in {"DATA", "OACK", "ERROR"}}

\* What is left in transit when m has been received.
Without(m) == IF Duplicating THEN net ELSE net \ {m}

-----------------------------------------------------------------------------
(* The client's ways of sending, of storing and of giving up.               *)

\* The packet TftpSend puts together: the read request until the server has
\* been heard of, from then on an acknowledgement of TftpBlock.
TftpPacket(state, sport, block) ==
  IF state = "RRQ" THEN Rrq(TftpOurPort) ELSE Ack(TftpOurPort, sport, block)

\* Nothing leaves a halted device.
eth_send(pkt, rest) == IF eth = "halted" THEN rest ELSE rest \union {pkt}

\* A packet for an unknown Ethernet address is not sent: an ARP request goes
\* out in its place, and its answer calls TftpSend again.
NetSendUDPPacket(pkt, rest) ==
  IF NetServerEther
    THEN /\ net' = eth_send(pkt, rest)
         /\ UNCHANGED arpVars
    ELSE /\ net' = rest
         /\ NetArpWait' = TRUE
         /\ NetArpWaitTry' = 1
         /\ UNCHANGED NetServerEther

\* Mutant: the block number is taken for an offset from the first cell.
Cell_OffByOne(block, wrapOffset) == block - 1 + wrapOffset

\* The cell a packet with this sequence number goes to (blocks count from 1).
Cell(block, wrapOffset) == block + wrapOffset

\* Mutant: blocks are appended in the order in which they come.
store_block_Append(block, wrapOffset, body) ==
  LET cell == NetBootFileXferSize \div TFTP_BLOCK_SIZE + 1
  IN /\ mem' = [c \in DOMAIN mem \union {cell} |-> IF c = cell THEN body ELSE mem[c]]
     /\ NetBootFileXferSize' = NetBootFileXferSize + BlockLen(body)

store_block(block, wrapOffset, body) ==
  LET cell == Cell(block, wrapOffset)
      newsize == (cell - 1) * TFTP_BLOCK_SIZE + BlockLen(body)
  IN /\ mem' = [c \in DOMAIN mem \union {cell} |-> IF c = cell THEN body ELSE mem[c]]
     /\ NetBootFileXferSize' = IF NetBootFileXferSize < newsize
                                 THEN newsize ELSE NetBootFileXferSize

\* Mutant: the handler of the abandoned transfer stays in place.
NetStartAgain_KeepsHandler(th) ==
  /\ timeHandler' = "startAgainTimeout"
  /\ UNCHANGED <<NetState, packetHandler, eth>>

\* Wait ten seconds deaf to packets, then restart; or give up when netretry is
\* "no": the device is halted, but the handlers stay as they are, and packets
\* that have arrived already still go to them.  The variable is looked up each
\* time.  th is the timer handler that is in place when NetStartAgain is called.
NetStartAgain(th) ==
  \/ /\ "no" \in netretry
     /\ NetState' = "FAIL"
     /\ eth' = "halted"
     /\ timeHandler' = th
     /\ UNCHANGED packetHandler
  \/ /\ netretry # {"no"}
     /\ timeHandler' = "startAgainTimeout"
     /\ packetHandler' = "startAgainHandler"
     /\ UNCHANGED <<NetState, eth>>

-----------------------------------------------------------------------------
(* TftpHandler: what the client does with a packet for its port.            *)

\* Packets for another port, or from another port once the server's is known,
\* are dropped; startAgainHandler drops everything.
Accepts(m) ==
  /\ packetHandler = "TftpHandler"
  /\ m.cport = TftpOurPort
  /\ TftpState = "RRQ" \/ m.sport = TftpServerPort

Receives(m) == pc = "eth_rx" /\ m \in ToClient

Drop(m) ==
  /\ Receives(m)
  /\ ~Accepts(m)
  /\ net' = Without(m)
  /\ UNCHANGED <<clientVars, server, losses, resent>>

\* An OACK is acknowledged whenever it comes, with whatever TftpBlock is.
RecvOack(m) ==
  /\ Receives(m) /\ Accepts(m) /\ m.op = "OACK"
  /\ TftpState' = "OACK"
  /\ TftpServerPort' = m.sport
  /\ NetSendUDPPacket(TftpPacket("OACK", m.sport, TftpBlock), Without(m))
  /\ UNCHANGED <<loopVars, handlerVars, TftpOurPort, TftpTimeoutCount, TftpBlock,
                 TftpLastBlock, TftpBlockWrapOffset, fileVars, server, losses, resent>>

\* Mutant: a wraparound is not counted.
WrapOffset_NoWrap(m) == TftpBlockWrapOffset

\* Sequence number 0 means a wraparound; it is counted before anything else is
\* known of the packet.
WrapOffset(m) ==
  IF m.block = 0 THEN TftpBlockWrapOffset + TFTP_SEQUENCE_SIZE ELSE TftpBlockWrapOffset

ReceivesData(m) == Receives(m) /\ Accepts(m) /\ m.op = "DATA"

\* Mutant: a full block ends the transfer too.
TakeBlock_EndsEarly(m, sport, wrapOffset) ==
  /\ TftpLastBlock' = m.block
  /\ timeHandler' = "TftpTimeout"
  /\ store_block(m.block, wrapOffset, m.body)
  /\ NetSendUDPPacket(TftpPacket("DATA", sport, m.block), Without(m))
  /\ NetState' = IF BlockLen(m.body) <= TFTP_BLOCK_SIZE THEN "SUCCESS" ELSE NetState
  /\ UNCHANGED <<packetHandler, eth>>

\* Store the block, acknowledge it, and be done when it is a short one.
TakeBlock(m, sport, wrapOffset) ==
  /\ TftpLastBlock' = m.block
  /\ timeHandler' = "TftpTimeout"
  /\ store_block(m.block, wrapOffset, m.body)
  /\ NetSendUDPPacket(TftpPacket("DATA", sport, m.block), Without(m))
  /\ NetState' = IF BlockLen(m.body) < TFTP_BLOCK_SIZE THEN "SUCCESS" ELSE NetState
  /\ UNCHANGED <<packetHandler, eth>>

\* The first DATA packet after a request or an OACK has to be block 1.
RecvFirstBlock(m) ==
  /\ ReceivesData(m)
  /\ TftpState \in {"RRQ", "OACK"}
  /\ TftpState' = "DATA"
  /\ TftpServerPort' = m.sport
  /\ TftpBlock' = m.block
  /\ TftpBlockWrapOffset' = 0
  /\ \/ /\ m.block = 1
        /\ TakeBlock(m, m.sport, 0)
     \/ /\ m.block # 1
        /\ TftpLastBlock' = 0
        /\ NetStartAgain(timeHandler)
        /\ net' = Without(m)
        /\ UNCHANGED <<arpVars, fileVars>>
  /\ UNCHANGED <<pc, ret, restarts, TftpOurPort, TftpTimeoutCount, server, losses, resent>>

\* "Same block again; ignore it": no acknowledgement, no new timer.
RecvSameBlock(m) ==
  /\ ReceivesData(m)
  /\ TftpState = "DATA"
  /\ m.block = TftpLastBlock
  /\ TftpBlock' = m.block
  /\ TftpBlockWrapOffset' = WrapOffset(m)
  /\ net' = Without(m)
  /\ UNCHANGED <<loopVars, handlerVars, TftpState, TftpServerPort, TftpOurPort,
                 TftpTimeoutCount, TftpLastBlock, arpVars, fileVars, server, losses, resent>>

\* Any other sequence number is taken for the next block.
RecvNextBlock(m) ==
  /\ ReceivesData(m)
  /\ TftpState = "DATA"
  /\ m.block # TftpLastBlock
  /\ TftpBlock' = m.block
  /\ TftpBlockWrapOffset' = WrapOffset(m)
  /\ TakeBlock(m, TftpServerPort, WrapOffset(m))
  /\ UNCHANGED <<pc, ret, restarts, TftpState, TftpServerPort, TftpOurPort,
                 TftpTimeoutCount, server, losses, resent>>

RecvError(m) ==
  /\ Receives(m) /\ Accepts(m) /\ m.op = "ERROR"
  /\ NetStartAgain(timeHandler)
  /\ net' = Without(m)
  /\ UNCHANGED <<pc, ret, restarts, tftpVars, arpVars, fileVars, server, losses, resent>>

\* The answer to the ARP request: whatever TftpSend has to say now is sent.
RecvArpReply ==
  /\ pc = "eth_rx"
  /\ NetArpWait
  /\ NetServerEther' = TRUE
  /\ NetArpWait' = FALSE
  /\ net' = eth_send(TftpPacket(TftpState, TftpServerPort, TftpBlock), net)
  /\ UNCHANGED <<loopVars, handlerVars, tftpVars, NetArpWaitTry, fileVars, server, losses, resent>>

-----------------------------------------------------------------------------
(* The rest of an iteration of NetLoop.                                     *)

\* No more packets, and no Ctrl-C.
EndRx ==
  /\ pc = "eth_rx"
  /\ pc' = "ArpTimeoutCheck"
  /\ UNCHANGED <<NetState, ret, restarts, handlerVars, tftpVars, arpVars, fileVars,
                 net, server, losses, resent>>

CtrlC ==
  /\ pc = "eth_rx"
  /\ pc' = "returned"
  /\ ret' = -1
  /\ UNCHANGED <<NetState, restarts, handlerVars, tftpVars, arpVars, fileVars,
                 net, server, losses, resent>>

\* A session of the server waits for an acknowledgement.
Waiting(s) == server[s].block \in 0..NumBlocks

\* The timer may have run out by now.  Both ends wait three seconds (the client
\* asks for that in its request), so the server sends again as often.
Quiet ==
  \/ EarlyTimers
  \/ /\ net = {} /\ ~NetArpWait /\ NetState = "CONTINUE"
     /\ \A s \in Sessions : Waiting(s) => s \in resent

ArpInTime ==
  /\ pc = "ArpTimeoutCheck"
  /\ pc' = "timeHandler"
  /\ UNCHANGED <<NetState, ret, restarts, handlerVars, tftpVars, arpVars, fileVars,
                 net, server, losses, resent>>

ArpTimeout ==
  /\ pc = "ArpTimeoutCheck"
  /\ NetArpWait /\ EarlyTimers
  /\ pc' = "timeHandler"
  /\ \/ /\ NetArpWaitTry + 1 >= ARP_TIMEOUT_COUNT
        /\ NetArpWaitTry' = 0
        /\ NetStartAgain(timeHandler)
     \/ /\ NetArpWaitTry + 1 < ARP_TIMEOUT_COUNT
        /\ NetArpWaitTry' = NetArpWaitTry + 1
        /\ UNCHANGED <<NetState, handlerVars>>
  /\ UNCHANGED <<ret, restarts, tftpVars, NetServerEther, NetArpWait, fileVars,
                 net, server, losses, resent>>

NoTimeout ==
  /\ pc = "timeHandler"
  /\ pc' = "switch"
  /\ UNCHANGED <<NetState, ret, restarts, handlerVars, tftpVars, arpVars, fileVars,
                 net, server, losses, resent>>

\* Mutant: the retries are not counted against the limit.
TftpTimeout_NoLimit ==
  /\ pc = "timeHandler"
  /\ timeHandler = "TftpTimeout"
  /\ Quiet
  /\ pc' = "switch"
  /\ TftpTimeoutCount' = TftpTimeoutCount + 1
  /\ NetSendUDPPacket(TftpPacket(TftpState, TftpServerPort, TftpBlock), net)
  /\ resent' = {}
  /\ UNCHANGED <<NetState, ret, restarts, handlerVars, TftpState, TftpServerPort,
                 TftpOurPort, TftpBlock, TftpLastBlock, TftpBlockWrapOffset, fileVars,
                 server, losses>>

\* Mutant: the timer is not armed again when a packet is resent.
TftpTimeout_OneShot ==
  /\ pc = "timeHandler"
  /\ timeHandler = "TftpTimeout"
  /\ Quiet
  /\ pc' = "switch"
  /\ TftpTimeoutCount' = TftpTimeoutCount + 1
  /\ timeHandler' = "none"
  /\ NetSendUDPPacket(TftpPacket(TftpState, TftpServerPort, TftpBlock), net)
  /\ resent' = {}
  /\ UNCHANGED <<NetState, ret, restarts, packetHandler, eth, TftpState, TftpServerPort,
                 TftpOurPort, TftpBlock, TftpLastBlock, TftpBlockWrapOffset, fileVars,
                 server, losses>>

\* Mutant: the client gives up one timeout too soon.
TftpTimeout_OneLess ==
  /\ pc = "timeHandler"
  /\ timeHandler = "TftpTimeout"
  /\ Quiet
  /\ pc' = "switch"
  /\ TftpTimeoutCount' = TftpTimeoutCount + 1
  /\ \/ /\ TftpTimeoutCount + 1 >= TIMEOUT_COUNT
        /\ NetStartAgain("none")
        /\ UNCHANGED <<arpVars, net>>
     \/ /\ TftpTimeoutCount + 1 < TIMEOUT_COUNT
        /\ timeHandler' = "TftpTimeout"
        /\ NetSendUDPPacket(TftpPacket(TftpState, TftpServerPort, TftpBlock), net)
        /\ UNCHANGED <<NetState, packetHandler, eth>>
  /\ resent' = {}
  /\ UNCHANGED <<ret, restarts, TftpState, TftpServerPort, TftpOurPort, TftpBlock,
                 TftpLastBlock, TftpBlockWrapOffset, fileVars, server, losses>>

TftpTimeout ==
  /\ pc = "timeHandler"
  /\ timeHandler = "TftpTimeout"
  /\ Quiet
  /\ pc' = "switch"
  /\ TftpTimeoutCount' = TftpTimeoutCount + 1
  /\ \/ /\ TftpTimeoutCount + 1 > TIMEOUT_COUNT
        /\ NetStartAgain("none")
        /\ UNCHANGED <<arpVars, net>>
     \/ /\ TftpTimeoutCount + 1 <= TIMEOUT_COUNT
        /\ timeHandler' = "TftpTimeout"
        /\ NetSendUDPPacket(TftpPacket(TftpState, TftpServerPort, TftpBlock), net)
        /\ UNCHANGED <<NetState, packetHandler, eth>>
  /\ resent' = {}
  /\ UNCHANGED <<ret, restarts, TftpState, TftpServerPort, TftpOurPort, TftpBlock,
                 TftpLastBlock, TftpBlockWrapOffset, fileVars, server, losses>>

startAgainTimeout ==
  /\ pc = "timeHandler"
  /\ timeHandler = "startAgainTimeout"
  /\ restarts < MaxRestarts
  /\ timeHandler' = "none"
  /\ NetState' = "RESTART"
  /\ pc' = "switch"
  /\ UNCHANGED <<ret, restarts, packetHandler, eth, tftpVars, arpVars, fileVars,
                 net, server, losses, resent>>

Continue ==
  /\ pc = "switch"
  /\ NetState = "CONTINUE"
  /\ pc' = "eth_rx"
  /\ UNCHANGED <<NetState, ret, restarts, handlerVars, tftpVars, arpVars, fileVars,
                 net, server, losses, resent>>

\* NETLOOP_SUCCESS returns the number of bytes, NETLOOP_FAIL returns -1.
Return ==
  /\ pc = "switch"
  /\ NetState \in {"SUCCESS", "FAIL"}
  /\ pc' = "returned"
  /\ ret' = IF NetState = "SUCCESS" THEN NetBootFileXferSize ELSE -1
  /\ UNCHANGED <<NetState, restarts, handlerVars, tftpVars, arpVars, fileVars,
                 net, server, losses, resent>>

\* What TftpStart assigns, and the size that NetLoop resets after it.  The
\* server's Ethernet address is forgotten, so the request has to wait for ARP.
TftpStart(i) ==
  /\ timeHandler' = "TftpTimeout"
  /\ packetHandler' = "TftpHandler"
  /\ TftpServerPort' = WELL_KNOWN_PORT
  /\ TftpTimeoutCount' = 0
  /\ TftpState' = "RRQ"
  /\ TftpOurPort' = OurPort[i]
  /\ TftpBlock' = 0
  /\ NetServerEther' = FALSE
  /\ NetArpWait' = TRUE
  /\ NetArpWaitTry' = 1
  /\ NetBootFileXferSize' = 0

Restart ==
  /\ pc = "switch"
  /\ NetState = "RESTART"
  /\ pc' = "eth_rx"
  /\ NetState' = "CONTINUE"
  /\ restarts' = restarts + 1
  /\ TftpStart(restarts + 1)
  /\ UNCHANGED <<ret, eth, TftpLastBlock, TftpBlockWrapOffset, mem, net, server, losses, resent>>

Returned == pc = "returned" /\ UNCHANGED vars

-----------------------------------------------------------------------------
(* The server, which is not part of the repository: each read request opens *)
(* a session on a port of its own; the next block is sent when the previous *)
(* one is acknowledged, and the packet sent last is sent again when no      *)
(* acknowledgement comes.                                                   *)

Idle == [cport |-> 0, block |-> -1]

LastSent(s) ==
  IF server[s].block = 0 THEN Oack(server[s].cport, s)
                         ELSE Data(server[s].cport, s, server[s].block)

ServerAnswers(s, m, cport, n) ==
  /\ server' = [server EXCEPT ![s] = [cport |-> cport, block |-> n]]
  /\ net' = Without(m) \union
               (IF n = 0 THEN {Oack(cport, s)}
                ELSE IF n <= NumBlocks THEN {Data(cport, s, n)} ELSE {})
  /\ UNCHANGED <<clientVars, losses, resent>>

\* A server that knows the timeout option answers OACK, another one block 1.
ServerRequest(s, m) ==
  /\ m \in net /\ m.op = "RRQ"
  /\ server[s] = Idle
  /\ \A t \in Sessions : t < s => server[t] # Idle
  /\ \E n \in {0, 1} : ServerAnswers(s, m, m.cport, n)

Awaits(s, m) ==
  /\ m.sport = s /\ m.cport = server[s].cport
  /\ Waiting(s)
  /\ m.block = server[s].block % TFTP_SEQUENCE_SIZE

ServerAck(s, m) ==
  /\ m \in net /\ m.op = "ACK"
  /\ Awaits(s, m)
  /\ ServerAnswers(s, m, m.cport, server[s].block + 1)

\* Acknowledgements of anything else, and requests no session is left for.
ServerIgnores(m) ==
  /\ ~Duplicating
  /\ m \in net \ ToClient
  /\ \/ m.op = "ACK" /\ ~\E s \in Sessions : Awaits(s, m)
     \/ m.op = "RRQ" /\ \A s \in Sessions : server[s] # Idle
  /\ net' = net \ {m}
  /\ UNCHANGED <<clientVars, server, losses, resent>>

ServerResend(s) ==
  /\ Waiting(s)
  /\ EarlyTimers \/ (net = {} /\ s \notin resent)
  /\ LastSent(s) \notin net
  /\ net' = net \union {LastSent(s)}
  /\ resent' = IF EarlyTimers THEN resent ELSE resent \union {s}
  /\ UNCHANGED <<clientVars, server, losses>>

ServerGivesUp(s) ==
  /\ ServerErrors
  /\ Waiting(s)
  /\ server' = [server EXCEPT ![s] = [cport |-> @.cport, block |-> NumBlocks + 1]]
  /\ net' = net \union {Error(server[s].cport, s)}
  /\ UNCHANGED <<clientVars, losses, resent>>

Lose(m) ==
  /\ ~Duplicating
  /\ losses < MaxLoss
  /\ m \in net
  /\ net' = net \ {m}
  /\ losses' = losses + 1
  /\ UNCHANGED <<clientVars, server, resent>>

-----------------------------------------------------------------------------
Init ==
  /\ pc = "eth_rx"
  /\ NetState = "CONTINUE"
  /\ ret = 0
  /\ packetHandler = "TftpHandler"
  /\ timeHandler = "TftpTimeout"
  /\ eth = "up"
  /\ restarts = 0
  /\ TftpState = "RRQ"
  /\ TftpServerPort = WELL_KNOWN_PORT
  /\ TftpOurPort = OurPort[0]
  /\ TftpTimeoutCount = 0
  /\ TftpBlock = 0
  /\ TftpLastBlock = 0
  /\ TftpBlockWrapOffset = 0
  /\ NetServerEther = FALSE
  /\ NetArpWait = TRUE
  /\ NetArpWaitTry = 1
  /\ mem = [c \in {} |-> 0]
  /\ NetBootFileXferSize = 0
  /\ net = {}
  /\ server = [s \in Sessions |-> Idle]
  /\ losses = 0
  /\ resent = {}

Receive ==
  \/ \E m \in net :
       \/ Drop(m) \/ RecvOack(m) \/ RecvFirstBlock(m) \/ RecvSameBlock(m)
       \/ RecvNextBlock(m) \/ RecvError(m)
  \/ RecvArpReply

Loop ==
  \/ EndRx \/ ArpInTime \/ ArpTimeout \/ NoTimeout \/ TftpTimeout
  \/ startAgainTimeout \/ Continue \/ Return \/ Restart

\* What the server sends to a halted device is not received.
Server ==
  /\ eth = "up"
  /\ \/ \E s \in Sessions :
          \/ \E m \in net : ServerRequest(s, m) \/ ServerAck(s, m)
          \/ ServerResend(s)
          \/ ServerGivesUp(s)
     \/ \E m \in net : ServerIgnores(m)

Next ==
  \/ Receive
  \/ Loop
  \/ CtrlC
  \/ Returned
  \/ Server
  \/ \E m \in net : Lose(m)

Spec == Init /\ [][Next]_vars

\* Scheduling: NetLoop runs on; a packet that is not lost arrives; a timer that
\* stays armed runs out in the end; the server answers and sends again.
Fairness ==
  /\ WF_vars(Loop)
  /\ SF_vars(Receive)
  /\ SF_vars(TftpTimeout)
  /\ SF_vars(startAgainTimeout)
  /\ WF_vars(Server)

FairSpec == Spec /\ Fairness

-----------------------------------------------------------------------------
PacketType ==
  [op : {"RRQ", "ACK", "DATA", "OACK", "ERROR"}, cport : Nat,
   sport : Sessions \union {WELL_KNOWN_PORT},
   block : 0..(TFTP_SEQUENCE_SIZE - 1), body : 0..NumBlocks]

LoopTypeOK ==
  /\ pc \in {"eth_rx", "ArpTimeoutCheck", "timeHandler", "switch", "returned"}
  /\ NetState \in {"CONTINUE", "RESTART", "SUCCESS", "FAIL"}
  /\ ret \in Int /\ ret >= -1
  /\ restarts \in 0..MaxRestarts

HandlerTypeOK ==
  /\ packetHandler \in {"TftpHandler", "startAgainHandler"}
  /\ timeHandler \in {"TftpTimeout", "startAgainTimeout", "none"}
  /\ eth \in {"up", "halted"}

TftpTypeOK ==
  /\ TftpState \in {"RRQ", "OACK", "DATA"}
  /\ TftpServerPort \in Sessions \union {WELL_KNOWN_PORT}
  /\ TftpOurPort \in Nat
  /\ TftpTimeoutCount \in 0..(TIMEOUT_COUNT + 1)
  /\ TftpBlock \in 0..(TFTP_SEQUENCE_SIZE - 1)
  /\ TftpLastBlock \in 0..(TFTP_SEQUENCE_SIZE - 1)
  /\ TftpBlockWrapOffset \in Nat

ArpTypeOK ==
  /\ NetServerEther \in BOOLEAN
  /\ NetArpWait \in BOOLEAN
  /\ NetArpWaitTry \in 0..ARP_TIMEOUT_COUNT

FileTypeOK ==
  /\ DOMAIN mem \subseteq Nat \ {0}
  /\ \A c \in DOMAIN mem : mem[c] \in 1..NumBlocks
  /\ NetBootFileXferSize \in Nat

NetTypeOK ==
  /\ net \subseteq PacketType
  /\ \A m \in net : m.op = "DATA" => m.body # 0

ServerTypeOK ==
  /\ server \in [Sessions -> [cport : Nat, block : -1..(NumBlocks + 1)]]
  /\ losses \in 0..MaxLoss
  /\ resent \subseteq Sessions

\* Every variable has the values the C declarations and the handlers give it;
\* the timeout count in particular never passes its limit by more than one, and
\* nothing is stored before load_addr.
TypeOK ==
  /\ LoopTypeOK /\ HandlerTypeOK /\ TftpTypeOK /\ ArpTypeOK
  /\ FileTypeOK /\ NetTypeOK /\ ServerTypeOK

\* The timeout count has passed its limit only when the transfer has been given
\* up, and a transfer that has been given up never arms its timer again.
LimitsOK ==
  /\ TftpTimeoutCount > TIMEOUT_COUNT =>
       \/ packetHandler = "startAgainHandler"
       \/ NetState = "FAIL" /\ pc \in {"switch", "returned"}
  /\ packetHandler = "startAgainHandler" => timeHandler # "TftpTimeout"
  /\ NetState = "RESTART" => restarts < MaxRestarts

\* The first n blocks of the file are in memory, each in its place.
Loaded(n) == \A k \in 1..n : k \in DOMAIN mem /\ mem[k] = k

\* When NetLoop reports a transfer (NETLOOP_SUCCESS), memory holds the whole
\* file and the size reported, which do_bootm and the flash writers go by, is
\* the file's: neither loss, duplication and reordering of packets nor restarts
\* in the middle leave a hole, a stale block or a wrong size behind.
SuccessMeansWholeFile ==
  pc = "returned" /\ ret # -1 => Loaded(NumBlocks) /\ ret = FileSize

\* Also for a file whose blocks outnumber the values of the block number (tftp.c:229): as
\* long as no packet is lost, every wraparound is counted once and only once, and what
\* NetLoop reports is the whole file.  (When a packet is lost the server sends a block 0
\* again, which is counted twice: SameBlockIgnored.)
WholeUnlessLost == losses = 0 => SuccessMeansWholeFile

\* A block is acknowledged only when it and all before it are in memory, so the
\* server never runs ahead of what the client has stored.
AcknowledgedIsStored ==
  \A m \in net : m.op = "ACK" => Loaded(m.block)

\* A cell of memory that was filled keeps its content: no packet, however late,
\* is ever stored over another block of the file.
Kept == \A c \in DOMAIN mem : c \in DOMAIN mem' /\ mem'[c] = mem[c]
NeverOverwritten == [][Kept]_mem

\* "Same block again; ignore it" (tftp.c:267): a block that comes again leaves
\* the place where the following blocks are stored alone.
SameBlockIgnored ==
  [][(\E m \in net : RecvSameBlock(m)) => TftpBlockWrapOffset' = TftpBlockWrapOffset]_vars

\* As long as no more packets are lost than the client has timeouts to spend,
\* it never throws away what it has received and starts again.
LossesAreRetried ==
  losses <= TIMEOUT_COUNT => packetHandler = "TftpHandler" /\ restarts = 0

\* "When set to "once" the network operation will fail when all the available
\* network interfaces are tried once without success" (uboot/README:2429): with
\* one interface, a transfer that fails is not started again.
OnceIsNotRetried == netretry = {"once"} => restarts = 0

\* NetLoop comes back, with the file or with an error.
Terminates == <>(pc = "returned")

-----------------------------------------------------------------------------
(* The inductive invariant behind SuccessMeansWholeFile, AcknowledgedIsStored *)
(* and ImplementsDownload.                                                    *)

\* What it takes: no wraparound, and every start of the transfer on a port
\* that no earlier start has used.
Regular ==
  /\ NumBlocks < TFTP_SEQUENCE_SIZE
  /\ \A i, j \in 0..MaxRestarts : OurPort[i] = OurPort[j] => i = j

\* Memory is an initial part of the file.
MemInOrder == \E n \in 0..NumBlocks : mem = [k \in 1..n |-> k]

\* A port one of the starts so far has used; nobody knows the current one as
\* long as the request waits for ARP.
PortOK(port) ==
  /\ \E i \in 0..restarts : port = OurPort[i]
  /\ ~NetServerEther => port # TftpOurPort

\* A block is in transit only when all before it are in memory, and an
\* acknowledgement only when the block is too.
PacketOK(m) ==
  /\ m.op = "DATA" => m.block = m.body /\ Loaded(m.body - 1)
  /\ m.op = "ACK" => Loaded(m.block)
  /\ PortOK(m.cport)

SessionOK(s) ==
  Waiting(s) => /\ server[s].block # 0 => Loaded(server[s].block - 1)
                /\ PortOK(server[s].cport)

\* While packets are listened to and answered, TftpBlock is the number of a
\* stored block, so whatever TftpSend acknowledges has been stored, and so is
\* TftpLastBlock.
ClientOK ==
  /\ packetHandler = "TftpHandler" /\ eth = "up" => Loaded(TftpBlock)
  /\ Loaded(TftpLastBlock)
  /\ TftpBlockWrapOffset = 0
  /\ TftpOurPort = OurPort[restarts]
  /\ NetArpWait = ~NetServerEther
  /\ ~NetServerEther => TftpState = "RRQ"

SizeOK ==
  /\ NetBootFileXferSize <= FileSize
  /\ NetState = "SUCCESS" => Loaded(NumBlocks) /\ NetBootFileXferSize = FileSize

TransferInv ==
  /\ TypeOK /\ LimitsOK /\ MemInOrder
  /\ \A m \in net : PacketOK(m)
  /\ \A s \in Sessions : SessionOK(s)
  /\ ClientOK /\ SizeOK /\ SuccessMeansWholeFile

\* The transfer implements Download: memory fills in the order of the file
\* whatever the network does, and NetLoop answers once.
Status == IF pc = "returned" THEN [done |-> TRUE, size |-> ret]
                             ELSE [done |-> FALSE, size |-> 0]
D == INSTANCE Download WITH image <- mem, status <- Status
ImplementsDownload == D!Spec
=============================================================================
