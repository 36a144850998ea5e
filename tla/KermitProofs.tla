---------------------------- MODULE KermitProofs ----------------------------
(***************************************************************************)
(* Proofs about Kermit, for images of any length, any number of sequence    *)
(* numbers from 3 on and any number of errors of every kind.  The sender    *)
(* waits for the answer.  What k_recv has in memory is proved as long as no *)
(* head of a packet was damaged, and what an error may cost for every one.  *)
(***************************************************************************)
EXTENDS Kermit, TLAPS

Patient == EarlyTimers = FALSE

FaultType == [head : Nat, other : Nat]

\* At most one packet or answer is on the line, and it is about packet k.
LineOK ==
  \/ fwd = <<>> /\ bwd = <<>>
  \/ fwd = <<k>> /\ bwd = <<>> /\ k <= Last
  \/ fwd = <<>> /\ bwd = <<Ack(Seq64(k))>> /\ k <= Last
  \/ fwd = <<>> /\ bwd = <<Nack(Seq64(k))>> /\ k <= Last

\* k_recv has not come to the sequence number of packet k yet.
Fresh == last_n # Seq64(k) /\ data = Before(k) /\ ~inside /\ bwd = <<>>

\* It has, and the checkpoint is before the packet.
Started ==
  /\ last_n = Seq64(k) /\ n = Seq64(k)
  /\ saved = Before(k)
  /\ data \in {Before(k), Before(k + 1)}
  /\ inside => bwd = <<>>
  /\ bwd = <<Ack(Seq64(k))>> => k < Last /\ data = Before(k + 1)

RecvOK == size = Running => k <= Last /\ (Fresh \/ Started)

ResultOK == size # Running => size = 0 \/ (size = NumBlocks /\ data = Blocks(NumBlocks))

KInv == KTypeOK /\ LineOK /\ RecvOK /\ ResultOK

\* The inductive invariant.
KSound == KTypeOK /\ (faults.head = 0 => KInv)

-----------------------------------------------------------------------------
(* The operators.                                                           *)

\* Two packets in a row have different sequence numbers.
LEMMA SeqNumber ==
  ASSUME NEW p \in Nat
  PROVE  Seq64(p) \in 0..SEQ - 1 /\ Seq64(p) # Seq64(p + 1)
<1>1. SEQ \in Nat /\ SEQ >= 3
  BY KermitAssumption
<1>2. p % SEQ \in 0..SEQ - 1 /\ (p + 1) % SEQ \in 0..SEQ - 1
  BY <1>1
<1> DEFINE q == p \div SEQ
           r == (p + 1) \div SEQ
<1>3. q \in Int /\ p = SEQ * q + (p % SEQ)
  BY <1>1, Z3
<1>4. r \in Int /\ p + 1 = SEQ * r + ((p + 1) % SEQ)
  BY <1>1, Z3
<1>5. p % SEQ # (p + 1) % SEQ
  <2> HIDE DEF q, r
  <2> SUFFICES ASSUME p % SEQ = (p + 1) % SEQ PROVE FALSE
    OBVIOUS
  <2>1. SEQ * r - SEQ * q = 1
    BY <1>1, <1>2, <1>3, <1>4
  <2>2. SEQ * (r - q) = 1
    BY <1>1, <1>3, <1>4, <2>1, Z3
  <2>3. CASE r - q <= 0
    BY <1>1, <1>3, <1>4, <2>2, <2>3
  <2>4. CASE r - q >= 1
    BY <1>1, <1>3, <1>4, <2>2, <2>4
  <2> QED BY <1>3, <1>4, <2>3, <2>4
<1> QED BY <1>2, <1>5 DEF Seq64

LEMMA Single ==
  ASSUME NEW e
  PROVE  Head(<<e>>) = e /\ Tail(<<e>>) = <<>> /\ <<e>> # <<>> /\ Append(<<>>, e) = <<e>>
  OBVIOUS

LEMMA SingleSeq ==
  ASSUME NEW S, NEW e \in S
  PROVE  <<e>> \in Seq(S) /\ <<>> \in Seq(S)
  OBVIOUS

LEMMA EmptySeq == ASSUME NEW S PROVE <<>> \in Seq(S)
  OBVIOUS

LEMMA AppendSeq == ASSUME NEW S, NEW s \in Seq(S), NEW e \in S PROVE Append(s, e) \in Seq(S)
  OBVIOUS

LEMMA HeadTailSeq ==
  ASSUME NEW S, NEW s \in Seq(S), s # <<>>
  PROVE  Head(s) \in S /\ Tail(s) \in Seq(S)
  OBVIOUS

LEMMA Replies ==
  ASSUME NEW a, NEW b
  PROVE  Nack(a) # Ack(b) /\ (a # b => Nack(a) # Nack(b))
<1>1. Nack(a).ack = FALSE /\ Ack(b).ack = TRUE /\ Nack(a).n = a /\ Nack(b).n = b
  BY DEF Nack, Ack
<1> QED BY <1>1

LEMMA BlocksSeq ==
  ASSUME NEW m \in 0..NumBlocks
  PROVE  /\ Blocks(m) \in Seq(1..NumBlocks)
         /\ Len(Blocks(m)) = m
         /\ Append(Blocks(m), m + 1) = Blocks(m + 1)
  BY KermitAssumption DEF Blocks

\* Memory before a packet, and what the packet adds.
LEMMA BeforeSeq ==
  ASSUME NEW p \in 0..Last
  PROVE  /\ Before(p) \in Seq(1..NumBlocks)
         /\ Before(p + 1) \in Seq(1..NumBlocks)
         /\ Before(p + 1) = IF IsData(p) THEN Append(Before(p), Block(p)) ELSE Before(p)
         /\ p = Last => Before(p) = Blocks(NumBlocks) /\ Len(Before(p)) = NumBlocks
<1> NumBlocks \in Nat
  BY KermitAssumption
<1>1. CASE p < 2
  <2>1. Before(p) = Blocks(0) /\ Before(p + 1) = Blocks(0) /\ ~IsData(p) /\ p # Last
    BY <1>1 DEF Before, Last, IsData
  <2> QED BY <2>1, BlocksSeq
<1>2. CASE IsData(p)
  <2>1. /\ Before(p) = Blocks(p - 2) /\ Before(p + 1) = Blocks((p - 2) + 1)
        /\ Block(p) = (p - 2) + 1 /\ p # Last /\ p - 2 \in 0..NumBlocks - 1
    BY <1>2 DEF Before, Last, IsData, Block
  <2>2. (p - 2) \in 0..NumBlocks /\ (p - 2) + 1 \in 0..NumBlocks
    BY <2>1
  <2> QED BY <1>2, <2>1, <2>2, BlocksSeq
<1>3. CASE p >= 2 /\ ~IsData(p)
  <2>1. Before(p) = Blocks(NumBlocks) /\ Before(p + 1) = Blocks(NumBlocks)
    BY <1>3 DEF Before, Last, IsData
  <2> QED BY <1>3, <2>1, BlocksSeq
<1> QED BY <1>1, <1>2, <1>3

-----------------------------------------------------------------------------
(* The invariant.                                                           *)

LEMMA KInit == Init => KInv
<1> SUFFICES ASSUME Init PROVE KInv
  OBVIOUS
<1>1. Before(0) = <<>> /\ <<>> \in Seq(1..NumBlocks)
  BY DEF Before, Blocks
<1>2. KTypeOK
  <2>1. fwd \in Seq(0..Last) /\ bwd \in Seq([ack : BOOLEAN, n : 0..SEQ - 1])
    BY KermitAssumption DEF Init, Last
  <2>2. k \in 0..Last + 1 /\ n \in 0..SEQ - 1 /\ last_n \in -1..SEQ - 1 /\ faults \in FaultType
    BY KermitAssumption DEF Init, Last, FaultType
  <2>3. data \in Seq(1..NumBlocks) /\ saved \in Seq(1..NumBlocks) /\ inside \in BOOLEAN
    BY <1>1 DEF Init
  <2>4. size \in Nat \union {Running}
    BY DEF Init
  <2> QED BY <2>1, <2>2, <2>3, <2>4 DEF KTypeOK, FaultType
<1>3. LineOK
  BY KermitAssumption DEF Init, LineOK, Last
<1>4. RecvOK
  BY <1>1, SeqNumber, KermitAssumption DEF Init, RecvOK, Fresh, Last
<1> QED BY <1>2, <1>3, <1>4 DEF KInv, ResultOK, Init

\* What holds when k_recv reads a packet: it is packet k, and no answer is on
\* its way.  The data of the packet goes behind that of all packets before.
LEMMA Reading ==
  ASSUME KInv, Arrives
  PROVE  /\ k \in 0..Last
         /\ Head(fwd) = k /\ fwd' = <<>> /\ bwd = <<>>
         /\ Fresh \/ Started
         /\ Base(Seq64(k)) = Before(k)
         /\ Seq64(k) \in 0..SEQ - 1
         /\ inside => Started
<1>1. k \in 0..Last /\ (Fresh \/ Started)
  BY KermitAssumption DEF KInv, RecvOK, Arrives, KTypeOK, Last
<1>2. Head(fwd) = k /\ fwd' = <<>> /\ bwd = <<>>
  <2>1. fwd = <<k>> /\ bwd = <<>>
    BY DEF KInv, LineOK, Arrives
  <2> QED BY <2>1, Single DEF Arrives
<1>3. Base(Seq64(k)) = Before(k)
  BY <1>1 DEF Base, Fresh, Started
<1>4. Seq64(k) \in 0..SEQ - 1
  BY <1>1, SeqNumber
<1> QED BY <1>1, <1>2, <1>3, <1>4 DEF Fresh

LEMMA ReceivePacketStep == KInv /\ ReceivePacket => KInv'
<1> SUFFICES ASSUME KInv, ReceivePacket PROVE KInv'
  OBVIOUS
<1> DEFINE m == Seq64(k)
<1>1. Arrives
  BY DEF ReceivePacket
<1>2. /\ k \in 0..Last /\ Head(fwd) = k /\ fwd' = <<>> /\ bwd = <<>>
      /\ Base(m) = Before(k) /\ m \in 0..SEQ - 1
  BY <1>1, Reading
<1>3. n' = m /\ last_n' = m /\ saved' = Before(k) /\ bwd' = <<Ack(m)>>
  BY <1>2 DEF ReceivePacket, Checkpoint, Answer
<1>4. data' = Before(k + 1)
  BY <1>2, BeforeSeq DEF ReceivePacket
<1>5. /\ UNCHANGED <<k, inside, faults>> /\ ~inside
      /\ size' = IF k = Last THEN Len(data') ELSE Running
  BY <1>2 DEF ReceivePacket
<1>6. Before(k) \in Seq(1..NumBlocks) /\ Before(k + 1) \in Seq(1..NumBlocks)
  BY <1>2, BeforeSeq
<1>7. k = Last => Before(k + 1) = Blocks(NumBlocks) /\ Len(Before(k + 1)) = NumBlocks
  BY <1>2, BeforeSeq, KermitAssumption DEF IsData, Last
<1>8. KTypeOK'
  <2>1. size' \in Nat \union {Running}
    BY <1>4, <1>5, <1>7, KermitAssumption
  <2>2. bwd' \in Seq([ack : BOOLEAN, n : 0..SEQ - 1]) /\ fwd' \in Seq(0..Last)
    BY <1>2, <1>3 DEF Ack
  <2> QED BY <1>2, <1>3, <1>4, <1>5, <1>6, <2>1, <2>2 DEF KInv, KTypeOK, FaultType
<1>9. LineOK'
  BY <1>2, <1>3, <1>5 DEF LineOK, Last, Ack, Seq64
<1>10. RecvOK'
  <2> SUFFICES ASSUME size' = Running PROVE k' <= Last' /\ Started'
    BY DEF RecvOK
  <2>1. k # Last
    BY <1>4, <1>5, <1>7, KermitAssumption DEF Running
  <2>2. Seq64(k)' = m /\ Before(k)' = Before(k) /\ Before(k + 1)' = Before(k + 1)
    BY <1>5 DEF Seq64, Before, Blocks, Last
  <2>3. k \in Int /\ Last \in Int /\ k < Last
    BY <1>2, <2>1, KermitAssumption DEF Last
  <2> QED BY <1>2, <1>3, <1>4, <1>5, <2>2, <2>3 DEF Started, Last
<1>11. ResultOK'
  BY <1>4, <1>5, <1>7 DEF ResultOK
<1> QED BY <1>8, <1>9, <1>10, <1>11 DEF KInv

\* An error behind the sequence number, or a packet that breaks off there.
LEMMA ErrorStep ==
  ASSUME KInv, Arrives, ~inside,
         Checkpoint(Seq64(Head(fwd))), data' = Base(Seq64(Head(fwd))),
         \/ bwd' = Append(bwd, Nack(Seq64(Head(fwd)))) /\ inside' = inside
         \/ bwd' = bwd /\ inside' = TRUE,
         UNCHANGED <<k, size>>, faults' \in FaultType
  PROVE  KInv'
<1> DEFINE m == Seq64(k)
<1>1. /\ k \in 0..Last /\ Head(fwd) = k /\ fwd' = <<>> /\ bwd = <<>>
      /\ Base(m) = Before(k) /\ m \in 0..SEQ - 1
  BY Reading
<1>2. n' = m /\ last_n' = m /\ saved' = Before(k) /\ data' = Before(k)
  BY <1>1 DEF Checkpoint
<1>3. (bwd' = <<Nack(m)>> /\ inside' = FALSE) \/ (bwd' = <<>> /\ inside' = TRUE)
  BY <1>1, Single
<1>4. size' = Running
  BY DEF Arrives
<1>5. Seq64(k)' = m /\ Before(k)' = Before(k) /\ Before(k + 1)' = Before(k + 1)
  BY DEF Seq64, Before, Blocks, Last
<1>6. KTypeOK'
  <2>1. bwd' \in Seq([ack : BOOLEAN, n : 0..SEQ - 1]) /\ fwd' \in Seq(0..Last)
    <3>1. Nack(m) \in [ack : BOOLEAN, n : 0..SEQ - 1]
      BY <1>1 DEF Nack
    <3>2. /\ <<Nack(m)>> \in Seq([ack : BOOLEAN, n : 0..SEQ - 1])
          /\ <<>> \in Seq([ack : BOOLEAN, n : 0..SEQ - 1])
          /\ <<>> \in Seq(0..Last)
      BY <3>1, SingleSeq, EmptySeq
    <3> QED BY <1>1, <1>3, <3>2
  <2>2. inside' \in BOOLEAN
    BY <1>3
  <2>3. Before(k) \in Seq(1..NumBlocks)
    BY <1>1, BeforeSeq
  <2>4. k' \in 0..Last + 1 /\ n' \in 0..SEQ - 1 /\ last_n' \in -1..SEQ - 1
    BY <1>1, <1>2, KermitAssumption DEF Last
  <2> QED BY <1>2, <1>4, <2>1, <2>2, <2>3, <2>4 DEF KTypeOK, FaultType
<1>7. LineOK'
  BY <1>1, <1>3, <1>5 DEF LineOK, Last, Nack
<1>8. RecvOK'
  <2>1. <<Nack(m)>> # <<Ack(m)>> /\ <<>> # <<Ack(m)>>
    <3>1. Nack(m) # Ack(m)
      BY DEF Nack, Ack
    <3> QED BY <3>1, Single
  <2>2. Started'
    BY <1>2, <1>3, <1>5, <2>1 DEF Started, Ack
  <2> QED BY <1>1, <2>2, KermitAssumption DEF RecvOK, Last
<1> QED BY <1>4, <1>6, <1>7, <1>8 DEF KInv, ResultOK

LEMMA FaultStep ==
  ASSUME NEW d, Fault(d), KTypeOK
  PROVE  /\ faults' \in FaultType
         /\ faults.head # 0 => faults'.head # 0
         /\ d \in HeadDamages => faults'.head # 0
<1>1. faults \in [head : Nat, other : Nat]
  BY DEF KTypeOK, FaultType
<1> QED BY <1>1 DEF Fault, FaultType

\* The error that ends a packet that broke off.
LEMMA InsideStep ==
  ASSUME KInv, size = Running, inside, PacketError, fwd' = <<>>, UNCHANGED <<k, faults>>
  PROVE  KInv'
<1> DEFINE m == Seq64(k)
<1>1. Started /\ k \in 0..Last /\ m \in 0..SEQ - 1 /\ bwd = <<>>
  <2>1. Started /\ k \in 0..Last
    BY KermitAssumption DEF KInv, RecvOK, Fresh, KTypeOK, Last
  <2> QED BY <2>1, SeqNumber DEF Started
<1>2. data' = Before(k) /\ saved' = Before(k) /\ n' = m /\ last_n' = m
  BY <1>1 DEF PacketError, Started
<1>3. bwd' = <<Nack(m)>> /\ inside' = FALSE /\ size' = Running
  BY <1>1, Single DEF PacketError, Started
<1>4. Seq64(k)' = m /\ Before(k)' = Before(k) /\ Before(k + 1)' = Before(k + 1)
  BY DEF Seq64, Before, Blocks, Last
<1>5. KTypeOK'
  <2>1. bwd' \in Seq([ack : BOOLEAN, n : 0..SEQ - 1]) /\ fwd' \in Seq(0..Last)
    <3>1. Nack(m) \in [ack : BOOLEAN, n : 0..SEQ - 1]
      BY <1>1 DEF Nack
    <3>2. <<Nack(m)>> \in Seq([ack : BOOLEAN, n : 0..SEQ - 1]) /\ <<>> \in Seq(0..Last)
      BY <3>1, SingleSeq, EmptySeq
    <3> QED BY <1>3, <3>2
  <2>2. Before(k) \in Seq(1..NumBlocks)
    BY <1>1, BeforeSeq
  <2>3. UNCHANGED <<k, n, last_n, saved, size, faults>>
    BY DEF PacketError
  <2> QED BY <1>2, <1>3, <2>1, <2>2, <2>3 DEF KInv, KTypeOK, FaultType
<1>6. LineOK'
  BY <1>1, <1>3, <1>4 DEF LineOK, Last, Nack
<1>7. RecvOK'
  <2>1. <<Nack(m)>> # <<Ack(m)>>
    <3>1. Nack(m) # Ack(m)
      BY DEF Nack, Ack
    <3> QED BY <3>1, Single
  <2>2. Started'
    BY <1>2, <1>3, <1>4, <2>1 DEF Started, Ack
  <2> QED BY <1>1, <2>2, KermitAssumption DEF RecvOK, Last
<1> QED BY <1>3, <1>5, <1>6, <1>7 DEF KInv, ResultOK

\* A packet or an answer vanishes, or the sender sends packet k again.
LEMMA LineStep ==
  ASSUME KInv, UNCHANGED <<k, recvVars>>, faults' \in FaultType,
         bwd' \in {bwd, <<>>}, LineOK'
  PROVE  KInv'
<1>1. UNCHANGED <<k, inside, n, last_n, data, saved, size>>
  BY DEF recvVars
<1>2. KTypeOK'
  <2>1. bwd' \in Seq([ack : BOOLEAN, n : 0..SEQ - 1])
    BY EmptySeq DEF KInv, KTypeOK, FaultType
  <2>2. fwd' \in Seq(0..Last)
    <3>1. fwd' = <<>> \/ (fwd' = <<k>> /\ k \in 0..Last)
      BY <1>1, KermitAssumption DEF LineOK, KInv, KTypeOK, Last
    <3> QED BY <3>1, SingleSeq, EmptySeq
  <2> QED BY <1>1, <2>1, <2>2 DEF KInv, KTypeOK, FaultType
<1>3. Seq64(k)' = Seq64(k) /\ Before(k)' = Before(k) /\ Before(k + 1)' = Before(k + 1)
  BY <1>1 DEF Seq64, Before, Blocks, Last
<1>4. RecvOK'
  <2> SUFFICES ASSUME size = Running PROVE k' <= Last' /\ (Fresh' \/ Started')
    BY <1>1 DEF RecvOK
  <2>1. k <= Last /\ (Fresh \/ Started)
    BY DEF KInv, RecvOK
  <2>2. CASE Fresh
    BY <1>1, <1>3, <2>1, <2>2 DEF Fresh, Last
  <2>3. CASE Started
    <3>1. <<>> # <<Ack(Seq64(k))>>
      BY Single
    <3> QED BY <1>1, <1>3, <2>1, <2>3, <3>1 DEF Started, Last, Ack
  <2> QED BY <2>1, <2>2, <2>3
<1>5. ResultOK'
  BY <1>1 DEF KInv, ResultOK, Blocks
<1> QED BY <1>2, <1>4, <1>5 DEF KInv

\* The acknowledgement of packet k comes: k_recv has not seen the next one.
LEMMA AdvanceStep ==
  ASSUME KInv, k <= Last, bwd = <<Ack(Seq64(k))>>, fwd = <<>>, bwd' = <<>>, Advance,
         UNCHANGED <<recvVars, faults>>
  PROVE  KInv'
<1>1. k \in 0..Last /\ k' = k + 1 /\ (k < Last => fwd' = <<k + 1>>) /\ (k = Last => fwd' = <<>>)
  BY Single, KermitAssumption DEF Advance, KInv, KTypeOK, Last
<1>2. UNCHANGED <<inside, n, last_n, data, saved, size, faults>>
  BY DEF recvVars
<1>3. Last \in Int
  BY KermitAssumption DEF Last
<1>4. KTypeOK'
  <2>1. fwd' \in Seq(0..Last)
    <3>1. fwd' = <<>> \/ (fwd' = <<k + 1>> /\ k + 1 \in 0..Last)
      BY <1>1, <1>3
    <3> QED BY <3>1, SingleSeq, EmptySeq
  <2>2. k' \in 0..Last + 1
    BY <1>1, <1>3
  <2>3. bwd' \in Seq([ack : BOOLEAN, n : 0..SEQ - 1])
    OBVIOUS
  <2> QED BY <1>2, <2>1, <2>2, <2>3 DEF KInv, KTypeOK, FaultType
<1>5. LineOK'
  BY <1>1, <1>3 DEF LineOK, Last
<1>6. RecvOK'
  <2> SUFFICES ASSUME size = Running PROVE k' <= Last' /\ Fresh'
    BY <1>2 DEF RecvOK
  <2>1. <<>> # <<Ack(Seq64(k))>>
    BY Single
  <2>2. Started /\ k < Last /\ data = Before(k + 1) /\ ~inside
    BY <2>1 DEF KInv, RecvOK, Fresh, Started
  <2>3. Seq64(k)' = Seq64(k + 1) /\ Before(k)' = Before(k + 1)
    BY <1>1 DEF Seq64, Before, Blocks, Last
  <2>4. Seq64(k) # Seq64(k + 1)
    BY <1>1, SeqNumber
  <2> QED BY <1>1, <1>2, <1>3, <2>2, <2>3, <2>4 DEF Fresh, Started, Last
<1>7. ResultOK'
  BY <1>2 DEF KInv, ResultOK, Blocks
<1> QED BY <1>4, <1>5, <1>6, <1>7 DEF KInv

LEMMA SenderStep == KInv /\ SenderReceives => KInv'
<1> SUFFICES ASSUME KInv, SenderReceives PROVE KInv'
  OBVIOUS
<1>1. k \in 0..Last /\ bwd # <<>> /\ bwd' = Tail(bwd) /\ UNCHANGED <<recvVars, faults>>
  BY KermitAssumption DEF SenderReceives, KInv, KTypeOK, Last
<1>2. CASE bwd = <<Ack(Seq64(k))>> /\ fwd = <<>>
  <2>1. Head(bwd) = Ack(Seq64(k)) /\ bwd' = <<>>
    BY <1>1, <1>2, Single
  <2>2. Advance
    BY <2>1 DEF SenderReceives
  <2> QED BY <1>1, <1>2, <2>1, <2>2, AdvanceStep, KermitAssumption DEF Last
<1>3. CASE bwd = <<Nack(Seq64(k))>> /\ fwd = <<>>
  <2>1. Head(bwd) = Nack(Seq64(k)) /\ bwd' = <<>>
    BY <1>1, <1>3, Single
  <2>2. Nack(Seq64(k)) # Ack(Seq64(k)) /\ Nack(Seq64(k)) # Nack(Seq64(k + 1))
    <3>1. Seq64(k) # Seq64(k + 1)
      BY <1>1, SeqNumber
    <3> QED BY <3>1, Replies
  <2>3. fwd' = <<k>> /\ k' = k
    BY <1>3, <2>1, <2>2, Single DEF SenderReceives
  <2>4. LineOK'
    BY <1>1, <2>1, <2>3, KermitAssumption DEF LineOK, Last
  <2>5. faults' \in FaultType
    BY <1>1 DEF KInv, KTypeOK, FaultType
  <2> QED BY <1>1, <2>1, <2>3, <2>4, <2>5, LineStep
<1> QED BY <1>1, <1>2, <1>3 DEF KInv, LineOK

LEMMA KNext ==
  ASSUME Patient, KInv, [Next]_kVars, faults'.head = 0
  PROVE  KInv'
<1>1. ~EarlyTimers
  BY DEF Patient
<1>2. faults \in FaultType
  BY DEF KInv, KTypeOK, FaultType
<1>3. CASE ReceivePacket
  BY <1>3, ReceivePacketStep
<1>4. CASE ReceiveInside
  <2>1. Arrives /\ inside /\ PacketError /\ UNCHANGED <<k, faults>>
    BY <1>4 DEF ReceiveInside
  <2>2. fwd' = <<>> /\ size = Running
    BY <2>1, Reading DEF Arrives
  <2> QED BY <2>1, <2>2, InsideStep
<1>5. CASE Lost
  <2>1. Arrives /\ UNCHANGED <<k, recvVars>> /\ bwd' = bwd
    BY <1>5 DEF Lost
  <2>2. faults' \in FaultType
    BY <1>5, FaultStep DEF Lost, KInv
  <2>3. fwd' = <<>> /\ bwd = <<>>
    BY <2>1, Reading
  <2>4. LineOK'
    BY <2>1, <2>3 DEF LineOK
  <2> QED BY <2>1, <2>2, <2>4, LineStep
<1>6. CASE HeadError \/ WrongSequence \/ CutInHead
  <2>1. PICK d \in HeadDamages : Fault(d)
    BY <1>6 DEF HeadError, WrongSequence, CutInHead, HeadDamages
  <2> QED BY <2>1, FaultStep DEF KInv
<1>7. CASE BodyError
  <2>1. faults' \in FaultType
    BY <1>7, FaultStep DEF BodyError, KInv
  <2> QED BY <1>7, <2>1, ErrorStep DEF BodyError, ErrorAfter
<1>8. CASE CutInBody
  <2>1. faults' \in FaultType
    BY <1>8, FaultStep DEF CutInBody, KInv
  <2> QED BY <1>8, <2>1, ErrorStep DEF CutInBody
<1>9. CASE CtrlC
  <2>1. size = Running /\ fwd = <<>> /\ bwd = <<>> /\ UNCHANGED <<k, fwd, faults>>
    BY <1>9 DEF CtrlC
  <2>2. CASE inside
    <3>1. PacketError /\ fwd' = <<>>
      BY <1>9, <2>1, <2>2 DEF CtrlC
    <3> QED BY <2>1, <2>2, <3>1, InsideStep
  <2>3. CASE ~inside
    <3>1. size' = 0 /\ UNCHANGED <<bwd, inside, n, last_n, data, saved>>
      BY <1>9, <2>3 DEF CtrlC
    <3>2. KTypeOK'
      BY <2>1, <3>1 DEF KInv, KTypeOK, FaultType
    <3>3. LineOK'
      BY <2>1, <3>1 DEF LineOK
    <3> QED BY <3>1, <3>2, <3>3 DEF KInv, RecvOK, ResultOK, Running
  <2> QED BY <2>2, <2>3
<1>10. CASE Gather
  <2>1. UNCHANGED <<k, recvVars, bwd, faults>> /\ fwd # <<>> /\ fwd' = Tail(fwd)
    BY <1>10 DEF Gather
  <2>2. fwd' = <<>> /\ bwd = <<>>
    BY <2>1, Single DEF KInv, LineOK
  <2>3. LineOK'
    BY <2>1, <2>2 DEF LineOK
  <2> QED BY <1>2, <2>1, <2>3, LineStep
<1>11. CASE SenderReceives
  BY <1>11, SenderStep
<1>12. CASE AnswerLost
  <2>1. UNCHANGED <<k, fwd, recvVars>> /\ bwd # <<>> /\ bwd' = Tail(bwd)
    BY <1>12 DEF AnswerLost
  <2>2. fwd' = <<>> /\ bwd' = <<>>
    BY <2>1, Single DEF KInv, LineOK
  <2>3. LineOK'
    BY <2>2 DEF LineOK
  <2>4. faults' \in FaultType
    BY <1>12, FaultStep DEF AnswerLost, KInv
  <2> QED BY <2>1, <2>2, <2>3, <2>4, LineStep
<1>13. CASE SenderTimeout
  <2>1. UNCHANGED <<k, bwd, recvVars, faults>> /\ k <= Last /\ fwd = <<>> /\ bwd = <<>>
        /\ fwd' = Append(fwd, k)
    BY <1>1, <1>13 DEF SenderTimeout
  <2>2. fwd' = <<k>>
    BY <2>1, Single
  <2>3. LineOK'
    BY <2>1, <2>2 DEF LineOK, Last
  <2> QED BY <1>2, <2>1, <2>3, LineStep
<1>14. CASE Ended
  <2>1. UNCHANGED <<k, recvVars, faults>> /\ fwd' = <<>> /\ bwd' = <<>>
    BY <1>14 DEF Ended
  <2>2. LineOK'
    BY <2>1 DEF LineOK
  <2> QED BY <1>2, <2>1, <2>2, LineStep
<1>15. CASE UNCHANGED kVars
  <2>1. UNCHANGED <<k, fwd, bwd, recvVars, faults>>
    BY <1>15 DEF kVars
  <2>2. LineOK'
    BY <2>1 DEF KInv, LineOK, Seq64, Ack, Nack, Last
  <2> QED BY <1>2, <2>1, <2>2, LineStep
<1> QED BY <1>3, <1>4, <1>5, <1>6, <1>7, <1>8, <1>9, <1>10, <1>11, <1>12, <1>13, <1>14, <1>15
        DEF Next, Receive, Damaged, Sender

-----------------------------------------------------------------------------
(* Types are kept by every step, whatever is damaged.                       *)

LEMMA KTypeNext == KTypeOK /\ [Next]_kVars => KTypeOK'
<1> SUFFICES ASSUME KTypeOK, [Next]_kVars PROVE KTypeOK'
  OBVIOUS
<1> DEFINE Reply == [ack : BOOLEAN, n : 0..SEQ - 1]
<1>1. NumBlocks \in Nat /\ SEQ \in Nat /\ SEQ >= 3 /\ Last \in Nat
  BY KermitAssumption DEF Last
<1>2. /\ k \in 0..Last + 1 /\ fwd \in Seq(0..Last) /\ bwd \in Seq(Reply)
      /\ inside \in BOOLEAN /\ n \in 0..SEQ - 1 /\ last_n \in -1..SEQ - 1
      /\ data \in Seq(1..NumBlocks) /\ saved \in Seq(1..NumBlocks)
      /\ size \in Nat \union {Running} /\ faults \in [head : Nat, other : Nat]
  BY DEF KTypeOK
<1>3. ASSUME NEW m \in 0..SEQ - 1
      PROVE  Ack(m) \in Reply /\ Nack(m) \in Reply
  BY DEF Ack, Nack
<1>4. ASSUME NEW m \in 0..SEQ - 1
      PROVE  Base(m) \in Seq(1..NumBlocks)
  BY <1>2 DEF Base
<1>5. ASSUME NEW m \in 0..SEQ - 1, Checkpoint(m)
      PROVE  n' \in 0..SEQ - 1 /\ last_n' \in -1..SEQ - 1 /\ saved' \in Seq(1..NumBlocks)
  BY <1>1, <1>4, <1>5 DEF Checkpoint
<1>6. ASSUME fwd # <<>>
      PROVE  /\ Head(fwd) \in 0..Last /\ Seq64(Head(fwd)) \in 0..SEQ - 1
             /\ Tail(fwd) \in Seq(0..Last)
  <2>1. Head(fwd) \in 0..Last /\ Tail(fwd) \in Seq(0..Last)
    BY <1>2, <1>6, HeadTailSeq
  <2>2. Head(fwd) \in Nat
    BY <1>1, <2>1
  <2> QED BY <2>1, <2>2, SeqNumber
<1>7. bwd # <<>> => Tail(bwd) \in Seq(Reply)
  BY <1>2
<1>8. CASE ReceivePacket
  <2> DEFINE p == Head(fwd)
             m == Seq64(p)
  <2>1. p \in 0..Last /\ m \in 0..SEQ - 1 /\ fwd' \in Seq(0..Last)
    BY <1>6, <1>8 DEF ReceivePacket, Arrives
  <2>2. /\ Checkpoint(m) /\ bwd' = bwd \o <<Ack(m)>>
        /\ data' = IF IsData(p) THEN Append(Base(m), Block(p)) ELSE Base(m)
        /\ size' = IF p = Last THEN Len(data') ELSE Running
        /\ UNCHANGED <<k, inside, faults>>
    BY <1>8 DEF ReceivePacket, Answer
  <2>3. data' \in Seq(1..NumBlocks)
    <3>1. IsData(p) => Block(p) \in 1..NumBlocks
      BY <1>1, <2>1 DEF IsData, Block
    <3>2. Base(m) \in Seq(1..NumBlocks)
      BY <1>4, <2>1
    <3>3. IsData(p) => Append(Base(m), Block(p)) \in Seq(1..NumBlocks)
      BY <3>1, <3>2, AppendSeq
    <3> QED BY <2>2, <3>2, <3>3
  <2>4. size' \in Nat \union {Running}
    BY <2>2, <2>3
  <2>5. bwd' \in Seq(Reply)
    <3>1. <<Ack(m)>> \in Seq(Reply)
      BY <1>3, <2>1, SingleSeq
    <3> QED BY <1>2, <2>2, <3>1
  <2> QED BY <1>2, <1>5, <2>1, <2>2, <2>3, <2>4, <2>5 DEF KTypeOK
<1>9. ASSUME PacketError
      PROVE  /\ data' \in Seq(1..NumBlocks) /\ inside' \in BOOLEAN /\ bwd' \in Seq(Reply)
             /\ UNCHANGED <<n, last_n, saved, size>>
  <2>1. Nack(n) \in Reply
    BY <1>2, <1>3
  <2>2. Append(bwd, Nack(n)) \in Seq(Reply)
    BY <1>2, <2>1, AppendSeq
  <2> QED BY <1>2, <1>9, <2>2 DEF PacketError
<1>10. CASE ReceiveInside
  <2>1. fwd' \in Seq(0..Last) /\ PacketError /\ UNCHANGED <<k, faults>>
    BY <1>6, <1>10 DEF ReceiveInside, Arrives
  <2> QED BY <1>2, <1>9, <2>1 DEF KTypeOK
<1>11. CASE Lost
  <2>1. fwd' \in Seq(0..Last) /\ faults' \in FaultType
        /\ UNCHANGED <<k, bwd, inside, n, last_n, data, saved, size>>
    BY <1>6, <1>11, FaultStep DEF Lost, Arrives, recvVars
  <2> QED BY <1>2, <2>1 DEF KTypeOK, FaultType
<1>12. CASE HeadError
  <2>1. fwd' \in Seq(0..Last) /\ faults' \in FaultType /\ PacketError /\ UNCHANGED k
    BY <1>6, <1>12, FaultStep DEF HeadError, Arrives
  <2> QED BY <1>2, <1>9, <2>1 DEF KTypeOK, FaultType
<1>13. ASSUME NEW m \in 0..SEQ - 1, ErrorAfter(m), fwd' \in Seq(0..Last), faults' \in FaultType
       PROVE  KTypeOK'
  <2>1. Nack(m) \in Reply
    BY <1>3, <1>13
  <2>2. bwd' \in Seq(Reply) /\ data' \in Seq(1..NumBlocks)
    BY <1>2, <1>4, <1>13, <2>1 DEF ErrorAfter
  <2>3. Checkpoint(m) /\ UNCHANGED <<k, inside, size>>
    BY <1>13 DEF ErrorAfter
  <2> QED BY <1>2, <1>5, <1>13, <2>2, <2>3 DEF KTypeOK, FaultType
<1>14. CASE BodyError
  <2>1. fwd' \in Seq(0..Last) /\ faults' \in FaultType /\ Seq64(Head(fwd)) \in 0..SEQ - 1
    BY <1>6, <1>14, FaultStep DEF BodyError, Arrives
  <2> QED BY <1>13, <1>14, <2>1 DEF BodyError
<1>15. CASE WrongSequence
  <2>1. fwd' \in Seq(0..Last) /\ faults' \in FaultType
    BY <1>6, <1>15, FaultStep DEF WrongSequence, Arrives
  <2>2. PICK m \in 0..SEQ - 1 : ErrorAfter(m)
    BY <1>15 DEF WrongSequence
  <2> QED BY <1>13, <2>1, <2>2
<1>16. CASE CutInHead
  <2>1. fwd' \in Seq(0..Last) /\ faults' \in FaultType
        /\ inside' = TRUE /\ UNCHANGED <<k, bwd, n, last_n, data, saved, size>>
    BY <1>6, <1>16, FaultStep DEF CutInHead, Arrives
  <2> QED BY <1>2, <2>1 DEF KTypeOK, FaultType
<1>17. CASE CutInBody
  <2> DEFINE m == Seq64(Head(fwd))
  <2>1. fwd' \in Seq(0..Last) /\ faults' \in FaultType /\ m \in 0..SEQ - 1
    BY <1>6, <1>17, FaultStep DEF CutInBody, Arrives
  <2>2. Checkpoint(m) /\ data' = Base(m) /\ inside' = TRUE /\ UNCHANGED <<k, bwd, size>>
    BY <1>17 DEF CutInBody
  <2> QED BY <1>2, <1>4, <1>5, <2>1, <2>2 DEF KTypeOK, FaultType
<1>18. CASE CtrlC
  <2>1. UNCHANGED <<k, fwd, faults>>
    BY <1>18 DEF CtrlC
  <2>2. PacketError \/ (size' = 0 /\ UNCHANGED <<bwd, inside, n, last_n, data, saved>>)
    BY <1>18 DEF CtrlC
  <2> QED BY <1>2, <1>9, <2>1, <2>2 DEF KTypeOK
<1>19. CASE Gather
  <2>1. fwd' \in Seq(0..Last) /\ UNCHANGED <<k, bwd, inside, n, last_n, data, saved, size, faults>>
    BY <1>6, <1>19 DEF Gather, recvVars
  <2> QED BY <1>2, <2>1 DEF KTypeOK
<1>20. CASE SenderReceives
  <2>1. UNCHANGED <<inside, n, last_n, data, saved, size, faults>> /\ k \in 0..Last
        /\ bwd' \in Seq(Reply)
    BY <1>1, <1>2, <1>7, <1>20 DEF SenderReceives, recvVars
  <2>2. CASE Advance
    <3>1. k' = k + 1 /\ (fwd' = fwd \/ (fwd' = Append(fwd, k + 1) /\ k < Last))
      BY <2>2 DEF Advance
    <3>2. k' \in 0..Last + 1 /\ (k < Last => k + 1 \in 0..Last)
      BY <1>1, <2>1, <3>1
    <3>3. fwd' \in Seq(0..Last)
      <4>1. k < Last => Append(fwd, k + 1) \in Seq(0..Last)
        BY <1>2, <3>2, AppendSeq
      <4> QED BY <1>2, <3>1, <4>1
    <3> QED BY <1>2, <2>1, <3>2, <3>3 DEF KTypeOK
  <2>3. CASE UNCHANGED k /\ fwd' \in {fwd, Append(fwd, k)}
    <3>1. fwd' \in Seq(0..Last)
      <4>1. Append(fwd, k) \in Seq(0..Last)
        BY <1>2, <2>1, AppendSeq
      <4> QED BY <1>2, <2>3, <4>1
    <3> QED BY <1>2, <2>1, <2>3, <3>1 DEF KTypeOK
  <2> QED BY <1>20, <2>2, <2>3 DEF SenderReceives
<1>21. CASE AnswerLost
  <2>1. bwd' \in Seq(Reply) /\ faults' \in FaultType
        /\ UNCHANGED <<k, fwd, inside, n, last_n, data, saved, size>>
    BY <1>7, <1>21, FaultStep DEF AnswerLost, recvVars
  <2> QED BY <1>2, <2>1 DEF KTypeOK, FaultType
<1>22. CASE SenderTimeout
  <2>1. UNCHANGED <<k, bwd, inside, n, last_n, data, saved, size, faults>>
        /\ k \in 0..Last /\ fwd' = Append(fwd, k)
    BY <1>1, <1>2, <1>22 DEF SenderTimeout, recvVars
  <2>2. fwd' \in Seq(0..Last)
    BY <1>2, <2>1
  <2> QED BY <1>2, <2>1, <2>2 DEF KTypeOK
<1>23. CASE Ended
  <2>1. UNCHANGED <<k, inside, n, last_n, data, saved, size, faults>>
        /\ fwd' = <<>> /\ bwd' = <<>>
    BY <1>23 DEF Ended, recvVars
  <2> QED BY <1>2, <2>1, EmptySeq DEF KTypeOK
<1>24. CASE UNCHANGED kVars
  BY <1>2, <1>24 DEF kVars, recvVars, KTypeOK
<1> QED BY <1>8, <1>10, <1>11, <1>12, <1>14, <1>15, <1>16, <1>17, <1>18, <1>19, <1>20,
           <1>21, <1>22, <1>23, <1>24 DEF Next, Receive, Damaged, Sender

\* Damage is counted and never forgotten.
LEMMA HeadFaultsStay ==
  ASSUME KTypeOK, [Next]_kVars, faults'.head = 0
  PROVE  faults.head = 0
<1>1. faults' = faults \/ \E d \in Damages : Fault(d)
  BY DEF Next, Receive, Damaged, Sender, ReceivePacket, ReceiveInside, Lost, HeadError, BodyError,
         WrongSequence, CutInHead, CutInBody, CtrlC, Gather, SenderReceives, AnswerLost,
         SenderTimeout, Ended, kVars, Damages
<1> QED BY <1>1, FaultStep

\* The heads of the packets decide: KInv holds until one is damaged.
LEMMA KSoundAlways == ASSUME Patient PROVE Spec => []KSound
<1>1. Init => KSound
  BY KInit DEF KSound, KInv
<1>2. KSound /\ [Next]_kVars => KSound'
  <2> SUFFICES ASSUME KSound, [Next]_kVars PROVE KSound'
    OBVIOUS
  <2>1. KTypeOK'
    BY KTypeNext DEF KSound
  <2>2. ASSUME faults'.head = 0 PROVE KInv'
    BY <2>2, HeadFaultsStay, KNext DEF KSound
  <2> QED BY <2>1, <2>2 DEF KSound
<1> QED BY <1>1, <1>2, PTL DEF Spec

-----------------------------------------------------------------------------
(* The theorems.                                                            *)

\* Every field of k_recv and of the line keeps its type, whatever is damaged and
\* whenever the sender sends again (cmd_load.c:819-994).
THEOREM KTypeCorrect == Spec => []KTypeOK
<1>1. Init => KTypeOK
  BY KInit DEF KInv
<1> QED BY <1>1, KTypeNext, PTL DEF Spec

\* When k_recv returns a size, the image is in memory, whole and in order
\* (cmd_load.c:819-994), whatever packets and answers were lost or damaged
\* behind their head.
THEOREM KermitWholeImage == ASSUME Patient PROVE Spec => []WholeImage
<1>1. KSound => WholeImage
  BY DEF KSound, KInv, ResultOK, WholeImage, Running
<1> QED BY <1>1, KSoundAlways, PTL

\* An acknowledged packet is never taken back by packet_error or by the
\* repetition of a packet (cmd_load.c:906-915, 976-981).
THEOREM KermitAcknowledgedKept == ASSUME Patient PROVE Spec => []AcknowledgedKept
<1>1. KSound => AcknowledgedKept
  BY DEF KSound, KInv, RecvOK, Fresh, Started, AcknowledgedKept
<1> QED BY <1>1, KSoundAlways, PTL

-----------------------------------------------------------------------------
(* What an error costs, whatever is damaged.                                *)

\* Blocks there are when all packets before p are in memory.
Due(p) == IF p <= 2 THEN 0 ELSE IF p <= Last - 1 THEN p - 2 ELSE NumBlocks

Within(x, y, e) == x \in y - e .. y + e

\* What is on the line.  An answer that makes the sender go on tells that memory is, up to
\* one block for each error, as the next packet finds it.
CostLine ==
  \/ (fwd = <<>> \/ fwd = <<k>>) /\ bwd = <<>>
  \/ /\ fwd = <<>> /\ bwd = <<Ack(Seq64(k))>> /\ ~inside
     /\ last_n = Seq64(k) /\ Within(Len(data), Due(k + 1), FaultCount)
  \/ /\ fwd = <<>> /\ bwd = <<Nack(n)>> /\ ~inside /\ data = saved
     /\ n = Seq64(k + 1) => last_n = n /\ Within(Len(saved), Due(k + 1), FaultCount)

\* What packet k will be put behind, the checkpoint or all there is, is within one block for
\* each error of what it should be; while a packet that broke off is being read, its error
\* is not used up yet.  Memory is ahead of the checkpoint only right behind the packet that
\* was read last.
CostMemory ==
  /\ Len(data) = Len(saved) \/ Len(data) = Len(saved) + 1
  /\ Len(data) # Len(saved) => last_n = Seq64(k) \/ (k > 0 /\ last_n = Seq64(k - 1))
  /\ n = last_n \/ (k = 0 /\ n = 0 /\ last_n = -1)
  /\ last_n = Seq64(k) => Within(Len(saved), Due(k), FaultCount)
  /\ last_n # Seq64(k) => Within(Len(data), Due(k), IF inside THEN FaultCount - 1 ELSE FaultCount)

CostInv ==
  /\ size = Running /\ k <= Last => CostLine /\ CostMemory
  /\ size = Running /\ k > Last => fwd = <<>>
  /\ size > 0 => Within(size, NumBlocks, FaultCount)

\* The next packet but one has another sequence number too.
LEMMA SeqSecond == ASSUME NEW p \in Nat PROVE Seq64(p) # Seq64(p + 2)
<1>1. SEQ \in Nat /\ SEQ >= 3
  BY KermitAssumption
<1>2. p % SEQ \in 0..SEQ - 1 /\ (p + 2) % SEQ \in 0..SEQ - 1
  BY <1>1
<1> DEFINE q == p \div SEQ
           r == (p + 2) \div SEQ
<1>3. q \in Int /\ p = SEQ * q + (p % SEQ)
  BY <1>1, Z3
<1>4. r \in Int /\ p + 2 = SEQ * r + ((p + 2) % SEQ)
  BY <1>1, Z3
<1> HIDE DEF q, r
<1> SUFFICES ASSUME p % SEQ = (p + 2) % SEQ PROVE FALSE
  BY DEF Seq64
<1>5. SEQ * (r - q) = 2
  <2>1. SEQ * r - SEQ * q = 2
    BY <1>1, <1>2, <1>3, <1>4
  <2> QED BY <1>1, <1>3, <1>4, <2>1, Z3
<1>6. CASE r - q <= 0
  BY <1>1, <1>3, <1>4, <1>5, <1>6
<1>7. CASE r - q >= 1
  BY <1>1, <1>3, <1>4, <1>5, <1>7
<1> QED BY <1>3, <1>4, <1>6, <1>7

\* A data packet adds one block, the others none.
LEMMA DueNext ==
  ASSUME NEW p \in 0..Last
  PROVE  /\ Due(p) \in Nat /\ Due(p + 1) = IF IsData(p) THEN Due(p) + 1 ELSE Due(p)
         /\ Due(Last) = NumBlocks
  BY KermitAssumption DEF Due, Last, IsData

\* Errors are counted one by one.
LEMMA CountedFaults ==
  ASSUME KTypeOK
  PROVE  /\ FaultCount \in Nat
         /\ \A d : Fault(d) => FaultCount' = FaultCount + 1
         /\ faults' = faults => FaultCount' = FaultCount
<1>1. faults.head \in Nat /\ faults.other \in Nat /\ faults = [head |-> faults.head, other |-> faults.other]
  BY DEF KTypeOK
<1>2. ASSUME NEW d, Fault(d) PROVE FaultCount' = FaultCount + 1
  <2>1. CASE d \in HeadDamages
    <3>1. faults'.head = faults.head + 1 /\ faults'.other = faults.other
      BY <1>1, <1>2, <2>1 DEF Fault
    <3> QED BY <1>1, <3>1 DEF FaultCount
  <2>2. CASE d \notin HeadDamages
    <3>1. faults'.head = faults.head /\ faults'.other = faults.other + 1
      BY <1>1, <1>2, <2>2 DEF Fault
    <3> QED BY <1>1, <3>1 DEF FaultCount
  <2> QED BY <2>1, <2>2
<1> QED BY <1>1, <1>2 DEF FaultCount

\* What the proofs below compute with.
LEMMA CostTypes ==
  ASSUME KTypeOK, k <= Last
  PROVE  /\ k \in 0..Last /\ k \in Nat
         /\ Len(data) \in Nat /\ Len(saved) \in Nat /\ FaultCount \in Nat
         /\ Due(k) \in Nat /\ Due(k + 1) \in {Due(k), Due(k) + 1}
         /\ Seq64(k) # Seq64(k + 1) /\ Seq64(k) \in 0..SEQ - 1
         /\ k > 0 => Seq64(k - 1) # Seq64(k + 1)
<1>1. k \in 0..Last /\ k \in Nat
  BY KermitAssumption DEF KTypeOK, Last
<1>2. Len(data) \in Nat /\ Len(saved) \in Nat /\ FaultCount \in Nat
  BY CountedFaults DEF KTypeOK
<1>3. k > 0 => Seq64(k - 1) # Seq64(k + 1)
  <2> SUFFICES ASSUME k > 0 PROVE Seq64(k - 1) # Seq64((k - 1) + 2)
    BY <1>1
  <2> QED BY <1>1, SeqSecond
<1> QED BY <1>1, <1>2, <1>3, DueNext, SeqNumber

\* packet_error: what is taken back is at most the packet behind the checkpoint, and the
\* error that takes it back was counted now, or when the packet broke off.
LEMMA CostError ==
  ASSUME KTypeOK, size = Running, k <= Last, CostMemory, bwd = <<>>,
         PacketError, fwd' = <<>>, k' = k,
         FaultCount' = IF inside THEN FaultCount ELSE FaultCount + 1
  PROVE  CostLine' /\ CostMemory'
<1>1. /\ k \in 0..Last /\ k \in Nat
      /\ Len(data) \in Nat /\ Len(saved) \in Nat /\ FaultCount \in Nat
      /\ Due(k) \in Nat /\ Due(k + 1) \in {Due(k), Due(k) + 1}
      /\ Seq64(k) # Seq64(k + 1)
      /\ k > 0 => Seq64(k - 1) # Seq64(k + 1)
  BY CostTypes
<1>2. /\ data' = saved /\ saved' = saved /\ n' = n /\ last_n' = last_n /\ inside' = FALSE
      /\ bwd' = <<Nack(n)>>
  BY Single DEF PacketError
<1>3. /\ Seq64(k)' = Seq64(k) /\ Seq64(k + 1)' = Seq64(k + 1) /\ Seq64(k - 1)' = Seq64(k - 1)
      /\ Due(k)' = Due(k) /\ Due(k + 1)' = Due(k + 1) /\ Nack(n)' = Nack(n)
  BY <1>2 DEF Seq64, Due, Last, Nack
<1>4. CostMemory'
  BY <1>1, <1>2, <1>3 DEF CostMemory, Within
<1>5. ASSUME n = Seq64(k + 1) PROVE last_n = n /\ Within(Len(saved), Due(k + 1), FaultCount')
  <2>1. last_n = n
    <3>1. k = 0 /\ n = 0 => n # Seq64(k + 1)
      <4>1. Seq64(0) = 0
        BY KermitAssumption DEF Seq64
      <4> QED BY <1>1, <4>1
    <3> QED BY <1>5, <3>1 DEF CostMemory
  <2>2. Len(data) = Len(saved)
    BY <1>1, <1>5, <2>1 DEF CostMemory
  <2>3. Within(Len(data), Due(k), FaultCount' - 1)
    BY <1>1, <1>5, <2>1 DEF CostMemory
  <2> QED BY <1>1, <2>1, <2>2, <2>3 DEF Within
<1>6. CostLine'
  <2> SUFFICES ASSUME n' = Seq64(k + 1)'
               PROVE  last_n' = n' /\ Within(Len(saved), Due(k + 1), FaultCount)'
    BY <1>2, <1>3 DEF CostLine
  <2>1. last_n = n /\ Within(Len(saved), Due(k + 1), FaultCount')
    BY <1>2, <1>3, <1>5
  <2> QED BY <1>2, <1>3, <2>1 DEF Within
<1> QED BY <1>4, <1>6

\* A sequence number is read, the right one or another one, and then an error found: memory
\* and the checkpoint are at the same place.
LEMMA CostChecked ==
  ASSUME KTypeOK, size = Running, k <= Last, CostMemory, ~inside,
         NEW m \in 0..SEQ - 1, Checkpoint(m), data' = Base(m), k' = k,
         FaultCount' = FaultCount + 1, inside' = TRUE => m = Seq64(k), inside' \in BOOLEAN
  PROVE  /\ CostMemory' /\ data' = saved'
         /\ m = Seq64(k + 1) => Within(Len(saved), Due(k + 1), FaultCount)'
<1>1. /\ k \in 0..Last /\ k \in Nat
      /\ Len(data) \in Nat /\ Len(saved) \in Nat /\ FaultCount \in Nat
      /\ Due(k) \in Nat /\ Due(k + 1) \in {Due(k), Due(k) + 1}
      /\ Seq64(k) # Seq64(k + 1)
      /\ k > 0 => Seq64(k - 1) # Seq64(k + 1)
  BY CostTypes
<1>2. data' = Base(m) /\ saved' = Base(m) /\ n' = m /\ last_n' = m
  BY DEF Checkpoint
<1>3. /\ Seq64(k)' = Seq64(k) /\ Seq64(k + 1)' = Seq64(k + 1)
      /\ Due(k)' = Due(k) /\ Due(k + 1)' = Due(k + 1)
  BY DEF Seq64, Due, Last
<1>4. Len(Base(m)) = IF m = last_n THEN Len(saved) ELSE Len(data)
  BY DEF Base
<1>5. CASE m = Seq64(k)
  <2>1. Within(Len(Base(m)), Due(k), FaultCount)
    BY <1>4, <1>5 DEF CostMemory
  <2>2. CostMemory'
    BY <1>1, <1>2, <1>3, <1>5, <2>1 DEF CostMemory, Within
  <2> QED BY <1>1, <1>2, <1>5, <2>2
<1>6. CASE m # Seq64(k)
  <2>1. Within(Len(Base(m)), Due(k), FaultCount + 1)
    BY <1>1, <1>4, <1>6 DEF CostMemory, Within
  <2>2. CostMemory'
    BY <1>1, <1>2, <1>3, <1>6, <2>1 DEF CostMemory, Within
  <2>3. m = Seq64(k + 1) => Within(Len(Base(m)), Due(k + 1), FaultCount + 1)
    <3> SUFFICES ASSUME m = Seq64(k + 1) PROVE Within(Len(Base(m)), Due(k + 1), FaultCount + 1)
      OBVIOUS
    <3>1. CASE last_n = Seq64(k)
      BY <1>1, <1>4, <1>6, <3>1 DEF CostMemory, Within
    <3>2. CASE last_n # Seq64(k)
      <4>1. Len(Base(m)) = Len(data)
        BY <1>1, <1>4 DEF CostMemory
      <4> QED BY <1>1, <3>2, <4>1 DEF CostMemory, Within
    <3> QED BY <3>1, <3>2
  <2> QED BY <1>2, <1>3, <2>2, <2>3 DEF Within
<1> QED BY <1>5, <1>6

\* What arrives is packet k, and nothing else is on the line.
LEMMA CostReading ==
  ASSUME KTypeOK, CostInv, Arrives
  PROVE  size = Running /\ k <= Last /\ Head(fwd) = k /\ fwd' = <<>> /\ bwd = <<>> /\ CostMemory
<1>1. size = Running /\ fwd # <<>> /\ fwd' = Tail(fwd)
  BY DEF Arrives
<1>2. k \in Int /\ Last \in Int
  BY KermitAssumption DEF KTypeOK, Last
<1>3. k <= Last /\ CostLine /\ CostMemory
  BY <1>1, <1>2 DEF CostInv
<1>4. fwd = <<k>> /\ bwd = <<>>
  BY <1>1, <1>3 DEF CostLine
<1> QED BY <1>1, <1>3, <1>4, Single

\* Errors found while a packet is read.
LEMMA CostErrors ==
  ASSUME KTypeOK, CostInv, HeadError \/ BodyError \/ WrongSequence \/ ReceiveInside
  PROVE  CostInv'
<1>1. Arrives /\ k' = k /\ size' = size
  BY DEF HeadError, BodyError, WrongSequence, ReceiveInside, PacketError, ErrorAfter
<1>2. size = Running /\ k <= Last /\ Head(fwd) = k /\ fwd' = <<>> /\ bwd = <<>> /\ CostMemory
  BY <1>1, CostReading
<1>3. SUFFICES CostLine' /\ CostMemory'
  <2>1. ~(k' > Last') /\ ~(size' > 0)
    BY <1>1, <1>2, KermitAssumption DEF KTypeOK, Last, Running
  <2> QED BY <2>1 DEF CostInv
<1>4. CASE ReceiveInside
  <2>1. PacketError /\ FaultCount' = IF inside THEN FaultCount ELSE FaultCount + 1
    BY <1>4, CountedFaults DEF ReceiveInside
  <2> QED BY <1>1, <1>2, <2>1, CostError
<1>5. CASE HeadError
  <2>1. PacketError /\ FaultCount' = IF inside THEN FaultCount ELSE FaultCount + 1
    BY <1>5, CountedFaults DEF HeadError
  <2> QED BY <1>1, <1>2, <2>1, CostError
<1>6. ASSUME NEW m \in 0..SEQ - 1, ErrorAfter(m), ~inside, FaultCount' = FaultCount + 1
      PROVE  CostLine' /\ CostMemory'
  <2>1. /\ Checkpoint(m) /\ data' = Base(m) /\ bwd' = <<Nack(m)>> /\ inside' = inside
        /\ n' = m /\ last_n' = m
    BY <1>2, <1>6, Single DEF ErrorAfter, Checkpoint
  <2>2. inside' \in BOOLEAN /\ ~inside'
    BY <1>6, <2>1 DEF KTypeOK
  <2>3. /\ CostMemory' /\ data' = saved'
        /\ m = Seq64(k + 1) => Within(Len(saved), Due(k + 1), FaultCount)'
    BY <1>1, <1>2, <1>6, <2>1, <2>2, CostChecked
  <2>4. Seq64(k + 1)' = Seq64(k + 1) /\ Nack(n)' = Nack(m)
    BY <1>1, <2>1 DEF Seq64, Nack
  <2> QED BY <1>2, <2>1, <2>2, <2>3, <2>4 DEF CostLine
<1>7. CASE BodyError
  <2>1. Seq64(k) \in 0..SEQ - 1 /\ FaultCount' = FaultCount + 1
    BY <1>2, <1>7, CostTypes, CountedFaults DEF BodyError
  <2> QED BY <1>2, <1>6, <1>7, <2>1 DEF BodyError
<1>8. CASE WrongSequence
  <2>1. PICK m \in 0..SEQ - 1 : ErrorAfter(m)
    BY <1>8 DEF WrongSequence
  <2>2. FaultCount' = FaultCount + 1
    BY <1>8, CountedFaults DEF WrongSequence
  <2> QED BY <1>6, <1>8, <2>1, <2>2 DEF WrongSequence
<1> QED BY <1>4, <1>5, <1>7, <1>8

\* Packets that break off or do not come at all.
LEMMA CostCut ==
  ASSUME KTypeOK, CostInv, CutInHead \/ CutInBody \/ Lost
  PROVE  CostInv'
<1>1. Arrives /\ k' = k /\ size' = size /\ bwd' = bwd
  BY DEF CutInHead, CutInBody, Lost, recvVars
<1>2. size = Running /\ k <= Last /\ Head(fwd) = k /\ fwd' = <<>> /\ bwd = <<>> /\ CostMemory
  BY <1>1, CostReading
<1>3. SUFFICES CostMemory'
  <2>1. ~(k' > Last') /\ ~(size' > 0)
    BY <1>1, <1>2, KermitAssumption DEF KTypeOK, Last, Running
  <2>2. CostLine'
    BY <1>1, <1>2 DEF CostLine
  <2> QED BY <2>1, <2>2 DEF CostInv
<1>4. FaultCount' = FaultCount + 1 /\ FaultCount \in Nat
  BY CountedFaults DEF CutInHead, CutInBody, Lost
<1>5. /\ Len(data) \in Nat /\ Len(saved) \in Nat /\ Due(k) \in Nat
      /\ Seq64(k)' = Seq64(k) /\ Seq64(k - 1)' = Seq64(k - 1) /\ Due(k)' = Due(k)
  <2>1. Seq64(k)' = Seq64(k) /\ Seq64(k - 1)' = Seq64(k - 1) /\ Due(k)' = Due(k)
    BY <1>1 DEF Seq64, Due, Last
  <2> QED BY <1>2, <2>1, CostTypes
<1>6. CASE CutInHead
  <2>1. UNCHANGED <<n, last_n, data, saved>> /\ ~inside /\ inside' = TRUE
    BY <1>6 DEF CutInHead
  <2> QED BY <1>1, <1>2, <1>4, <1>5, <2>1 DEF CostMemory, Within
<1>7. CASE CutInBody
  <2>1. Checkpoint(Seq64(k)) /\ data' = Base(Seq64(k)) /\ ~inside /\ inside' = TRUE
    BY <1>2, <1>7 DEF CutInBody
  <2>2. Seq64(k) \in 0..SEQ - 1
    BY <1>2, CostTypes
  <2> QED BY <1>1, <1>2, <1>4, <2>1, <2>2, CostChecked
<1>8. CASE Lost
  <2>1. UNCHANGED <<n, last_n, data, saved, inside>>
    BY <1>8 DEF Lost, recvVars
  <2> QED BY <1>1, <1>2, <1>4, <1>5, <2>1 DEF CostMemory, Within
<1> QED BY <1>6, <1>7, <1>8

\* A packet that is read whole.
LEMMA CostReceive == ASSUME KTypeOK, CostInv, ReceivePacket PROVE CostInv'
<1> DEFINE m == Seq64(k)
<1>1. size = Running /\ k <= Last /\ Head(fwd) = k /\ fwd' = <<>> /\ bwd = <<>> /\ CostMemory
  BY CostReading DEF ReceivePacket
<1>2. /\ Checkpoint(m) /\ ~inside /\ inside' = inside /\ k' = k /\ faults' = faults
      /\ data' = IF IsData(k) THEN Append(Base(m), Block(k)) ELSE Base(m)
      /\ bwd' = bwd \o Answer(m)
      /\ size' = IF k = Last THEN Len(data') ELSE Running
  BY <1>1 DEF ReceivePacket
<1>3. /\ k \in 0..Last /\ k \in Nat
      /\ Len(data) \in Nat /\ Len(saved) \in Nat /\ FaultCount \in Nat
      /\ Due(k) \in Nat /\ Due(k + 1) = IF IsData(k) THEN Due(k) + 1 ELSE Due(k)
  BY <1>1, CostTypes, DueNext
<1>4. FaultCount' = FaultCount
  BY <1>2, CountedFaults
<1>5. Within(Len(Base(m)), Due(k), FaultCount) /\ Len(Base(m)) \in Nat
  BY <1>1, <1>2, <1>3 DEF CostMemory, Base
<1>6. saved' = Base(m) /\ n' = m /\ last_n' = m
  BY <1>2 DEF Checkpoint
<1>7. Len(data') = IF IsData(k) THEN Len(Base(m)) + 1 ELSE Len(Base(m))
  <2>1. Base(m) \in Seq(1..NumBlocks)
    BY DEF Base, KTypeOK
  <2> QED BY <1>2, <2>1
<1>8. Within(Len(data'), Due(k + 1), FaultCount)
  BY <1>3, <1>5, <1>7 DEF Within
<1>9. /\ Seq64(k)' = m /\ Due(k)' = Due(k) /\ Due(k + 1)' = Due(k + 1) /\ Ack(Seq64(k))' = Ack(m)
  BY <1>2 DEF Seq64, Due, Last, Ack
<1>10. bwd' = <<Ack(m)>>
  BY <1>1, <1>2 DEF Answer
<1>11. CostLine'
  <2>1. Within(Len(data), Due(k + 1), FaultCount)'
    BY <1>4, <1>8, <1>9 DEF Within
  <2> QED BY <1>1, <1>2, <1>6, <1>9, <1>10, <2>1 DEF CostLine
<1>12. CostMemory'
  BY <1>2, <1>3, <1>4, <1>5, <1>6, <1>7, <1>9 DEF CostMemory, Within
<1>13. size' > 0 => Within(size', NumBlocks, FaultCount')
  <2>1. CASE k = Last
    <3>1. ~IsData(k) /\ Due(k) = NumBlocks
      BY <1>3, <2>1, DueNext, KermitAssumption DEF IsData, Last
    <3> QED BY <1>2, <1>4, <1>5, <1>7, <2>1, <3>1
  <2>2. CASE k # Last
    BY <1>2, <2>2 DEF Running
  <2> QED BY <2>1, <2>2
<1>14. ~(k' > Last')
  BY <1>1, <1>2, <1>3, KermitAssumption DEF Last
<1> QED BY <1>11, <1>12, <1>13, <1>14 DEF CostInv, Within

\* Steps that leave k_recv and the sender where they are, and may count an error.
LEMMA CostStays ==
  ASSUME KTypeOK, CostInv, UNCHANGED <<k, recvVars>>,
         FaultCount' = FaultCount \/ FaultCount' = FaultCount + 1,
         \/ size # Running
         \/ k <= Last /\ bwd' = <<>> /\ (fwd' = <<>> \/ fwd' = <<k>>)
         \/ k > Last /\ fwd' = <<>>
         \/ UNCHANGED <<fwd, bwd, faults>>
  PROVE  CostInv'
<1>1. UNCHANGED <<inside, n, last_n, data, saved, size>>
  BY DEF recvVars
<1>2. FaultCount \in Nat /\ NumBlocks \in Nat /\ k \in Int /\ Last \in Int /\ Last' = Last
  BY CountedFaults, KermitAssumption DEF Last, KTypeOK
<1>3. size' > 0 => Within(size', NumBlocks, FaultCount')
  <2>1. size \in Int
    BY KermitAssumption DEF KTypeOK, Running
  <2> QED BY <1>1, <1>2, <2>1 DEF CostInv, Within
<1>4. ASSUME size = Running, k <= Last PROVE CostMemory'
  <2>1. Len(data) \in Nat /\ Len(saved) \in Nat /\ Due(k) \in Nat
    BY <1>4, CostTypes
  <2>2. Seq64(k)' = Seq64(k) /\ Seq64(k - 1)' = Seq64(k - 1) /\ Due(k)' = Due(k)
    BY DEF Seq64, Due, Last
  <2>3. CostMemory
    BY <1>4 DEF CostInv
  <2> QED BY <1>1, <1>2, <2>1, <2>2, <2>3 DEF CostMemory, Within
<1>5. CASE size # Running
  BY <1>1, <1>3, <1>5 DEF CostInv, Running, Within
<1>6. CASE k <= Last /\ bwd' = <<>> /\ (fwd' = <<>> \/ fwd' = <<k>>)
  <2>1. CostLine'
    BY <1>6 DEF CostLine
  <2> QED BY <1>1, <1>2, <1>3, <1>4, <1>6, <2>1 DEF CostInv, Running, Within
<1>7. CASE k > Last /\ fwd' = <<>>
  BY <1>1, <1>2, <1>3, <1>7 DEF CostInv, Running, Within
<1>8. CASE UNCHANGED <<fwd, bwd, faults>>
  BY <1>1, <1>8 DEF CostInv, CostLine, CostMemory, Running, Within, Seq64, Due, Ack, Nack, Last,
                    FaultCount
<1> QED BY <1>5, <1>6, <1>7, <1>8

\* The user interrupts.
LEMMA CostCtrlC == ASSUME KTypeOK, CostInv, CtrlC PROVE CostInv'
<1>1. size = Running /\ fwd = <<>> /\ bwd = <<>> /\ UNCHANGED <<k, fwd, faults>>
  BY DEF CtrlC
<1>2. FaultCount' = FaultCount /\ k \in Int /\ Last \in Int /\ Last' = Last
  BY <1>1, CountedFaults, KermitAssumption DEF KTypeOK, Last
<1>3. CASE ~inside
  <2>1. size' = 0
    BY <1>3 DEF CtrlC
  <2> QED BY <2>1 DEF CostInv, Running
<1>4. CASE inside /\ k <= Last
  <2>1. PacketError /\ size' = Running /\ CostMemory
    BY <1>1, <1>4 DEF CtrlC, PacketError, CostInv
  <2>2. FaultCount' = IF inside THEN FaultCount ELSE FaultCount + 1
    BY <1>2, <1>4
  <2>3. CostLine' /\ CostMemory'
    BY <1>1, <1>4, <2>1, <2>2, CostError
  <2> QED BY <1>1, <1>2, <1>4, <2>1, <2>3 DEF CostInv, Running
<1>5. CASE inside /\ ~(k <= Last)
  <2>1. size' = Running /\ fwd' = <<>>
    BY <1>1, <1>5 DEF CtrlC, PacketError
  <2> QED BY <1>1, <1>2, <1>5, <2>1 DEF CostInv, Running
<1> QED BY <1>3, <1>4, <1>5

\* The sender goes on, sends again or waits.  The answer that makes it go on says that
\* memory is right for the next packet.
LEMMA CostSender == ASSUME KTypeOK, CostInv, SenderReceives PROVE CostInv'
<1>1. bwd # <<>> /\ bwd' = Tail(bwd) /\ k <= Last /\ UNCHANGED <<recvVars, faults>>
  BY DEF SenderReceives
<1>2. FaultCount' = FaultCount /\ k \in Int /\ Last \in Int /\ Last' = Last
  BY <1>1, CountedFaults, KermitAssumption DEF KTypeOK, Last
<1>3. UNCHANGED <<inside, n, last_n, data, saved, size>>
  BY <1>1 DEF recvVars
<1>4. CASE size # Running
  BY <1>2, <1>3, <1>4 DEF CostInv, Within
<1>5. CASE size = Running
  <2>1. CostLine /\ CostMemory
    BY <1>1, <1>5 DEF CostInv
  <2>2. fwd = <<>> /\ ~inside /\ (bwd = <<Ack(Seq64(k))>> \/ bwd = <<Nack(n)>>)
    BY <1>1, <2>1 DEF CostLine
  <2>3. bwd' = <<>>
    BY <1>1, <2>2, Single
  <2>4. CASE k' = k
    <3>1. ~(Head(bwd) = Ack(Seq64(k)) \/ Head(bwd) = Nack(Seq64(k + 1)))
      BY <1>2, <2>4 DEF SenderReceives, Advance
    <3>2. fwd' = <<>> \/ fwd' = <<k>>
      BY <2>2, <3>1, Single DEF SenderReceives
    <3> QED BY <1>1, <1>2, <2>3, <2>4, <3>2, CostStays
  <2>5. CASE k' # k
    <3>1. Advance /\ (Head(bwd) = Ack(Seq64(k)) \/ Head(bwd) = Nack(Seq64(k + 1)))
      BY <2>5 DEF SenderReceives
    <3>2. k' = k + 1 /\ (k < Last => fwd' = <<k + 1>>) /\ (~(k < Last) => fwd' = <<>>)
      BY <2>2, <3>1, Single DEF Advance
    <3>3. /\ k \in 0..Last /\ k \in Nat
          /\ Len(data) \in Nat /\ Len(saved) \in Nat /\ FaultCount \in Nat
          /\ Seq64(k) # Seq64(k + 1)
      BY <1>1, CostTypes
    <3>4. \/ last_n = Seq64(k) /\ Within(Len(data), Due(k + 1), FaultCount)
          \/ data = saved /\ last_n = n /\ n = Seq64(k + 1) /\ Within(Len(saved), Due(k + 1), FaultCount)
      <4>1. CASE bwd = <<Ack(Seq64(k))>>
        <5>1. bwd # <<Nack(n)>>
          <6>1. Ack(Seq64(k)) # Nack(n)
            BY Replies
          <6>2. Head(<<Ack(Seq64(k))>>) # Head(<<Nack(n)>>)
            BY <6>1, Single
          <6> QED BY <4>1, <6>2
        <5> QED BY <1>1, <2>1, <5>1 DEF CostLine
      <4>2. CASE bwd = <<Nack(n)>> /\ bwd # <<Ack(Seq64(k))>>
        <5>1. Head(bwd) = Nack(n)
          BY <4>2, Single
        <5>2. n = Seq64(k + 1)
          BY <3>1, <5>1, Replies
        <5> QED BY <1>1, <2>1, <4>2, <5>2 DEF CostLine
      <4> QED BY <2>2, <4>1, <4>2
    <3>5. /\ Seq64(k)' = Seq64(k + 1) /\ Seq64(k - 1)' = Seq64(k) /\ Due(k)' = Due(k + 1)
      BY <3>2, <3>3 DEF Seq64, Due, Last
    <3>6. CostMemory'
      <4>1. n = last_n
        <5>1. Seq64(k) # -1
          BY <3>3, CostTypes, KermitAssumption
        <5> QED BY <2>1, <3>4, <5>1 DEF CostMemory
      <4>2. CASE last_n = Seq64(k) /\ Within(Len(data), Due(k + 1), FaultCount)
        BY <1>2, <1>3, <2>1, <2>2, <3>2, <3>3, <3>5, <4>1, <4>2 DEF CostMemory, Within
      <4>3. CASE data = saved /\ n = Seq64(k + 1) /\ Within(Len(saved), Due(k + 1), FaultCount)
        BY <1>2, <1>3, <2>1, <2>2, <3>2, <3>3, <3>5, <4>1, <4>3 DEF CostMemory, Within
      <4> QED BY <3>4, <4>2, <4>3
    <3>7. k' <= Last => CostLine'
      BY <1>2, <2>3, <3>2 DEF CostLine
    <3>8. k' > Last => fwd' = <<>>
      BY <1>2, <3>2
    <3> QED BY <1>2, <1>3, <1>5, <3>6, <3>7, <3>8 DEF CostInv, Running
  <2> QED BY <2>4, <2>5
<1> QED BY <1>4, <1>5

\* Every step keeps the invariant.
LEMMA CostNext == ASSUME Patient, KTypeOK, CostInv, [Next]_kVars PROVE CostInv'
<1>1. CASE ReceivePacket
  BY <1>1, CostReceive
<1>2. CASE ReceiveInside \/ HeadError \/ BodyError \/ WrongSequence
  BY <1>2, CostErrors
<1>3. CASE CutInHead \/ CutInBody \/ Lost
  BY <1>3, CostCut
<1>4. CASE CtrlC
  BY <1>4, CostCtrlC
<1>5. CASE SenderReceives
  BY <1>5, CostSender
<1>6. k \in Int /\ Last \in Int
  BY KermitAssumption DEF KTypeOK, Last
<1>7. CASE Gather
  BY <1>7, CostStays, CountedFaults DEF Gather
<1>8. CASE AnswerLost
  <2>1. UNCHANGED <<k, fwd, recvVars>> /\ bwd # <<>> /\ bwd' = Tail(bwd) /\ FaultCount' = FaultCount + 1
    BY <1>8, CountedFaults DEF AnswerLost
  <2>2. size = Running /\ k <= Last => fwd' = <<>> /\ bwd' = <<>>
    BY <2>1, Single DEF CostInv, CostLine
  <2>3. size = Running /\ k > Last => fwd' = <<>>
    BY <2>1 DEF CostInv
  <2> QED BY <1>6, <2>1, <2>2, <2>3, CostStays
<1>9. CASE SenderTimeout
  <2>1. UNCHANGED <<k, bwd, recvVars, faults>> /\ k <= Last /\ fwd = <<>> /\ bwd = <<>>
        /\ fwd' = Append(fwd, k)
    BY <1>9 DEF SenderTimeout, Patient
  <2>2. fwd' = <<k>> /\ FaultCount' = FaultCount
    BY <2>1, Single, CountedFaults
  <2> QED BY <2>1, <2>2, CostStays
<1>10. CASE Ended
  BY <1>10, CostStays, CountedFaults DEF Ended
<1>11. CASE UNCHANGED kVars
  BY <1>11, CostStays, CountedFaults DEF kVars
<1> QED BY <1>1, <1>2, <1>3, <1>4, <1>5, <1>7, <1>8, <1>9, <1>10, <1>11
        DEF Next, Receive, Damaged, Sender

\* An error, in the head of a packet too, costs at most one block (cmd_load.c:902-915,
\* 976-981), for images of any length, any number of errors of every kind, and also when
\* the sequence numbers begin again.
THEOREM KermitErrorCostsOneBlock == ASSUME Patient PROVE Spec => []ErrorCostsOneBlock
<1>1. Init => KTypeOK /\ CostInv
  <2> SUFFICES ASSUME Init PROVE CostInv
    BY KInit DEF KInv
  <2>1. /\ k = 0 /\ fwd = <<k>> /\ bwd = <<>> /\ size = Running /\ ~inside /\ n = 0 /\ last_n = -1
        /\ data = <<>> /\ saved = <<>> /\ FaultCount = 0
    BY DEF Init, FaultCount
  <2>2. Due(k) = 0 /\ Seq64(k) # -1
    BY <2>1, SeqNumber, KermitAssumption DEF Due
  <2>3. CostLine
    BY <2>1 DEF CostLine
  <2>4. CostMemory
    BY <2>1, <2>2 DEF CostMemory, Within
  <2> QED BY <2>1, <2>3, <2>4, KermitAssumption DEF CostInv, Running, Last
<1>2. KTypeOK /\ CostInv /\ [Next]_kVars => KTypeOK' /\ CostInv'
  BY KTypeNext, CostNext
<1>3. CostInv => ErrorCostsOneBlock
  BY DEF CostInv, Within, ErrorCostsOneBlock
<1> QED BY <1>1, <1>2, <1>3, PTL DEF Spec

-----------------------------------------------------------------------------
(* The refinement.  The part of memory that was acknowledged is an initial    *)
(* part of the image.                                                         *)

\* When k_recv has returned, the sender is at its last packet or gets no more answers.
Over == size # Running => k >= Last \/ (size = 0 /\ bwd = <<>>)

\* What is in the acknowledged part of memory.
PrefixOK ==
  /\ size = Running => Acknowledged = Before(k)
  /\ size # Running /\ size # 0 => Acknowledged = Blocks(NumBlocks)

DownloadInv == KTypeOK /\ (faults.head = 0 => KInv /\ Over /\ PrefixOK)

LEMMA BeforeDue ==
  ASSUME NEW p \in 0..Last + 1
  PROVE  /\ Due(p) \in 0..NumBlocks /\ Before(p) = Blocks(Due(p)) /\ Due(p) <= Due(p + 1)
         /\ Due(p + 1) \in 0..NumBlocks /\ Before(p + 1) = Blocks(Due(p + 1))
         /\ p >= Last => Due(p) = NumBlocks
BY KermitAssumption DEF Due, Before, Last

LEMMA PrefixOf ==
  ASSUME NEW d \in Nat, NEW j \in Nat, d <= j
  PROVE  DOMAIN Blocks(d) \intersect DOMAIN Blocks(j) = 1..d /\ \A i \in 1..d : Blocks(j)[i] = i
BY DEF Blocks

LEMMA PrefixHolds ==
  ASSUME KInv, Over
  PROVE  PrefixOK
<1>1. k \in 0..Last + 1 /\ NumBlocks \in Nat
  BY KermitAssumption DEF KInv, KTypeOK
<1>2. ASSUME size = Running PROVE Acknowledged = Before(k)
  <2>1. data = Before(k) \/ data = Before(k + 1)
    BY <1>2 DEF KInv, RecvOK, Fresh, Started
  <2>2. PICK j \in Nat : data = Blocks(j) /\ Due(k) <= j
    BY <1>1, <2>1, BeforeDue
  <2>3. Before(k) = Blocks(Due(k)) /\ Due(k) \in Nat
    BY <1>1, BeforeDue
  <2>4. DOMAIN Before(k) \intersect DOMAIN data = 1..Due(k) /\ \A i \in 1..Due(k) : data[i] = i
    BY <2>2, <2>3, PrefixOf
  <2> QED BY <2>3, <2>4 DEF Acknowledged, Blocks
<1>3. ASSUME size # Running, size # 0 PROVE Acknowledged = Blocks(NumBlocks)
  <2>1. data = Blocks(NumBlocks) /\ k >= Last
    BY <1>3 DEF KInv, ResultOK, Over
  <2>2. Before(k) = Blocks(NumBlocks)
    BY <1>1, <2>1, BeforeDue
  <2>3. /\ DOMAIN Before(k) \intersect DOMAIN data = 1..NumBlocks
        /\ \A i \in 1..NumBlocks : data[i] = i
    BY <1>1, <2>1, <2>2, PrefixOf
  <2> QED BY <2>3 DEF Acknowledged, Blocks
<1> QED BY <1>2, <1>3 DEF PrefixOK

\* What a step does to the sender's place, to memory and to the result.
LEMMA DownloadSteps ==
  ASSUME KInv, [Next]_kVars
  PROVE  \/ k' = k /\ size' = size /\ (size # Running => data' = data /\ (bwd = <<>> => bwd' = <<>>))
         \/ k' = k + 1 /\ k <= Last /\ bwd # <<>> /\ UNCHANGED <<size, data>>
         \/ size = Running /\ k = Last /\ k' = k /\ data' = Blocks(NumBlocks) /\ size' = NumBlocks
         \/ size = Running /\ size' = 0 /\ bwd' = <<>> /\ UNCHANGED <<k, data>>
<1>1. CASE ReceivePacket
  <2>1. /\ size = Running /\ k' = k /\ k \in 0..Last /\ data' = Before(k + 1)
        /\ size' = IF k = Last THEN Len(data') ELSE Running
    BY <1>1, Reading, BeforeSeq DEF ReceivePacket, Arrives
  <2>2. k = Last => Before(k + 1) = Blocks(NumBlocks) /\ Len(Blocks(NumBlocks)) = NumBlocks
    BY <2>1, BeforeSeq, KermitAssumption DEF IsData, Last
  <2> QED BY <2>1, <2>2
<1>2. CASE ReceiveInside \/ HeadError
  BY <1>2 DEF ReceiveInside, HeadError, PacketError, Arrives
<1>3. CASE BodyError \/ WrongSequence \/ CutInHead \/ CutInBody
  BY <1>3 DEF BodyError, WrongSequence, CutInHead, CutInBody, ErrorAfter, Arrives
<1>4. CASE Lost \/ Gather \/ SenderTimeout \/ UNCHANGED kVars
  BY <1>4 DEF Lost, Gather, SenderTimeout, kVars, recvVars
<1>5. CASE AnswerLost \/ Ended
  BY <1>5 DEF AnswerLost, Ended, recvVars
<1>6. CASE CtrlC
  BY <1>6 DEF CtrlC, PacketError
<1>7. CASE SenderReceives
  BY <1>7 DEF SenderReceives, Advance, recvVars
<1> QED BY <1>1, <1>2, <1>3, <1>4, <1>5, <1>6, <1>7 DEF Next, Receive, Damaged, Sender

LEMMA DownloadInvAlways == ASSUME Patient PROVE Spec => []DownloadInv
<1> DEFINE I == KTypeOK /\ (faults.head = 0 => KInv /\ Over)
<1>1. Init => I
  BY KInit DEF KInv, Over, Init
<1>2. I /\ [Next]_kVars => I'
  <2> SUFFICES ASSUME I, [Next]_kVars PROVE I'
    OBVIOUS
  <2>1. KTypeOK'
    BY KTypeNext
  <2>2. ASSUME faults'.head = 0 PROVE KInv' /\ Over'
    <3>1. KInv /\ Over
      BY <2>2, HeadFaultsStay
    <3>2. KInv'
      BY <2>2, <3>1, KNext
    <3>3. k \in Int /\ Last \in Int
      BY <3>1, KermitAssumption DEF KInv, KTypeOK, Last
    <3>4. Over'
      BY <3>1, <3>3, DownloadSteps DEF Over, Last
    <3> QED BY <3>2, <3>4
  <2> QED BY <2>1, <2>2
<1>3. I => DownloadInv
  BY PrefixHolds DEF DownloadInv
<1> QED BY <1>1, <1>2, <1>3, PTL DEF Spec

\* The next packet of the sender adds a block of the image, or nothing.
LEMMA DownloadAdvances ==
  ASSUME k \in 0..Last, Acknowledged = Before(k), Acknowledged' = Before(k + 1),
         size = Running, UNCHANGED size
  PROVE  D!Next \/ UNCHANGED <<Acknowledged, Status>>
<1> NumBlocks \in Nat
  BY KermitAssumption
<1>1. Status = D!Running /\ Status' = Status
  BY DEF Status, D!Running
<1>2. CASE IsData(k)
  <2> DEFINE j == Block(k)
  <2>1. j \in 1..NumBlocks /\ Due(k) = j - 1 /\ Due(k + 1) = j
    BY <1>2 DEF IsData, Block, Due, Last
  <2>2. Acknowledged = D!First(j - 1) /\ Acknowledged' = D!First(j)
    BY <2>1, BeforeDue, KermitAssumption DEF Blocks, D!First, Last
  <2>3. D!Store
    BY <1>1, <2>1, <2>2 DEF D!Store
  <2> QED BY <2>3 DEF D!Next
<1>3. CASE ~IsData(k)
  BY <1>1, <1>3, BeforeSeq
<1> QED BY <1>2, <1>3

LEMMA DownloadStep ==
  ASSUME DownloadInv, DownloadInv', [Next]_kVars, faults'.head = 0
  PROVE  D!Next \/ UNCHANGED <<Acknowledged, Status>>
<1> NumBlocks \in Nat
  BY KermitAssumption
<1>1. KInv /\ Over /\ PrefixOK /\ KInv' /\ Over' /\ PrefixOK'
  BY HeadFaultsStay DEF DownloadInv
<1>2. k \in 0..Last + 1 /\ Last \in Nat /\ size \in Nat \union {Running}
  BY <1>1, KermitAssumption DEF KInv, KTypeOK, Last
<1>3. CASE k' = k /\ size' = size /\ (size # Running => data' = data)
  <2>1. Status' = Status /\ Before(k)' = Before(k)
    BY <1>3 DEF Status, Before, Blocks, Last
  <2>2. Acknowledged' = Acknowledged
    BY <1>1, <1>3, <2>1 DEF PrefixOK, Acknowledged
  <2> QED BY <2>1, <2>2
<1>4. CASE k' = k + 1 /\ k <= Last /\ bwd # <<>> /\ UNCHANGED <<size, data>>
  <2>1. Before(k)' = Before(k + 1)
    BY <1>4 DEF Before, Blocks, Last
  <2>2. CASE size = Running
    BY <1>1, <1>2, <1>4, <2>1, <2>2, DownloadAdvances DEF PrefixOK
  <2>3. CASE size # Running
    <3>1. k >= Last
      BY <1>1, <1>4, <2>3 DEF Over
    <3>2. Before(k + 1) = Before(k)
      <4>1. Due(k) = NumBlocks /\ Due(k + 1) = NumBlocks
        BY <1>2, <3>1 DEF Due, Last
      <4> QED BY <1>2, <4>1, BeforeDue
    <3>3. Acknowledged' = Acknowledged /\ Status' = Status
      BY <1>4, <2>1, <3>2 DEF Acknowledged, Status
    <3> QED BY <3>3
  <2> QED BY <2>2, <2>3
<1>5. CASE size = Running /\ k = Last /\ k' = k /\ data' = Blocks(NumBlocks) /\ size' = NumBlocks
  <2>1. Acknowledged = Blocks(NumBlocks) /\ Status = D!Running
    BY <1>1, <1>2, <1>5, BeforeDue DEF PrefixOK, Status, D!Running
  <2>2. Acknowledged' = Blocks(NumBlocks)
    <3>1. Before(k)' = Blocks(NumBlocks)
      BY <1>2, <1>5, BeforeDue DEF Before, Blocks, Last
    <3>2. /\ DOMAIN Before(k)' \intersect DOMAIN data' = 1..NumBlocks
          /\ \A i \in 1..NumBlocks : data'[i] = i
      BY <1>5, <3>1, PrefixOf
    <3> QED BY <3>2 DEF Acknowledged, Blocks
  <2>3. Status' = IF NumBlocks = 0 THEN D!Failure ELSE D!Success
    <3>1. NumBlocks # -1
      OBVIOUS
    <3> QED BY <1>5, <3>1 DEF Status, Running, D!Failure, D!Success
  <2>4. D!Finish \/ D!Fail
    BY <2>1, <2>2, <2>3 DEF D!Finish, D!Fail, D!First, Blocks
  <2> QED BY <2>4 DEF D!Next
<1>6. CASE size = Running /\ size' = 0 /\ UNCHANGED <<k, data>>
  <2>1. Acknowledged' = Acknowledged /\ Status = D!Running /\ Status' = D!Failure
    BY <1>6 DEF Acknowledged, Before, Blocks, Last, Status, Running, D!Running, D!Failure
  <2> QED BY <2>1 DEF D!Fail, D!Next
<1> QED BY <1>1, <1>3, <1>4, <1>5, <1>6, DownloadSteps

\* Until the head of a packet is damaged, the transfer implements Download: what the
\* sender knows to be in memory (send_ack, cmd_load.c:981-990) fills in the order of the
\* image and is never taken back, although packet_error and repetitions (:906-915,
\* :976-979) take back what k_recv has stored, and the answer is the whole image's size
\* or 0.
THEOREM KermitRefinement == ASSUME Patient PROVE Spec => KImplementsDownload
<1>1. Init => D!Init
  <2> SUFFICES ASSUME Init PROVE D!Init
    OBVIOUS
  <2>1. Before(k) = Blocks(0) /\ Blocks(0) = <<>> /\ data = <<>> /\ size = Running
    BY DEF Init, Before, Blocks
  <2>2. Acknowledged = Blocks(0)
    BY <2>1 DEF Acknowledged, Blocks
  <2>3. Acknowledged = D!First(0) /\ Status = D!Running
    BY <2>1, <2>2 DEF Blocks, D!First, Status, D!Running
  <2> QED BY <2>3 DEF D!Init
<1>2. DownloadInv /\ DownloadInv' /\ [Next]_kVars =>
        [faults'.head = 0 => D!Next \/ UNCHANGED <<Acknowledged, Status>>]_kVars
  BY DownloadStep
<1> QED BY <1>1, <1>2, DownloadInvAlways, PTL DEF Spec, KImplementsDownload
=============================================================================
