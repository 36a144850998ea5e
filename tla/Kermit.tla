------------------------------- MODULE Kermit -------------------------------
(***************************************************************************)
(* The download over the serial line: k_recv and load_serial_bin of         *)
(* uboot/common/cmd_load.c, the receiving end of Kermit.  It writes the     *)
(* data of a packet to memory while it reads it, and takes it back when the *)
(* packet turns out to be damaged: the place to go back to is the           *)
(* checkpoint, which it sets when the sequence number changes.              *)
(*                                                                          *)
(* The sender is a Kermit program on the other side of the line.  It sends  *)
(* one packet, waits for its acknowledgement, and sends it again when it is *)
(* refused or when nothing comes.  A packet is an index into the            *)
(* transmission S, F, one D for each block, Z, B; the check sum is taken to *)
(* find every error.  What happens to a packet on the line is decided when  *)
(* it is read.                                                              *)
(***************************************************************************)
EXTENDS Integers, Sequences

CONSTANTS
  NumBlocks,   \* data packets of the image
  SEQ,         \* sequence numbers there are, 64 in Kermit
  Damage,      \* what may happen to packets on the line, of Damages
  EarlyTimers, \* the sender may send again while an answer is on its way
  MaxFaults,   \* bound: packets and answers that are lost or damaged
  MaxInFlight  \* bound: packets on the line when the sender's timer runs out

\* "lost": the start character; "head": the length or the sequence number is
\* no printable character; "seq": another sequence number is read; "body": any
\* error behind it; "cutHead", "cutBody": the packet breaks off before or after
\* its sequence number.
Damages == {"lost", "head", "seq", "body", "cutHead", "cutBody"}

\* Those after which k_recv and the sender may mean different packets.
HeadDamages == {"head", "seq", "cutHead"}

ASSUME KermitAssumption ==
  /\ NumBlocks \in Nat
  /\ SEQ \in Nat /\ SEQ >= 3
  /\ Damage \subseteq Damages
  /\ EarlyTimers \in BOOLEAN
  /\ MaxFaults \in Nat
  /\ MaxInFlight \in Nat \ {0}

VARIABLES
  k,       \* sender: the packet it is sending; Last + 1 at the end
  fwd,     \* packets on the line
  bwd,     \* answers on the line
  inside,  \* k_recv is reading a packet that broke off
  n,       \* sequence number last read
  last_n,  \* sequence number of the checkpoint
  data,    \* blocks in memory, up to os_data_addr
  saved,   \* those up to os_data_addr_saved, the checkpoint
  size,    \* what k_recv returned, Running before
  faults   \* how many packets were damaged in their head, and how many packets
           \* and answers lost or damaged otherwise

recvVars == <<inside, n, last_n, data, saved, size>>
kVars == <<k, fwd, bwd, recvVars, faults>>

Running == -1

-----------------------------------------------------------------------------
(* The transmission.                                                        *)

Last == NumBlocks + 3
IsData(p) == p \in 2..NumBlocks + 1
Block(p) == p - 1

Seq64(p) == p % SEQ

\* Memory when all packets before p are in it.
Blocks(m) == [i \in 1..m |-> i]
Before(p) == Blocks(IF p <= 2 THEN 0 ELSE IF p <= Last - 1 THEN p - 2 ELSE NumBlocks)

Ack(m) == [ack |-> TRUE, n |-> m]
Nack(m) == [ack |-> FALSE, n |-> m]

-----------------------------------------------------------------------------
(* k_recv.                                                                  *)

\* Mutant: a packet that is sent again is not recognised.
Base_NoRestore(m) == data

\* Where the data of a packet with sequence number m goes: behind the
\* checkpoint when the number is that of the last packet.
Base(m) == IF m = last_n THEN saved ELSE data

\* Mutant: no new checkpoint with a new sequence number.
Checkpoint_Forgotten(m) == n' = m /\ last_n' = m /\ saved' = saved

\* Mutant: n is counted on to the packet that comes next, and does not return to 0.
Checkpoint_CountsOn(m) == n' = m + 1 /\ last_n' = m /\ saved' = Base(m)

\* The sequence number m is read and compared.
Checkpoint(m) ==
  /\ n' = m
  /\ last_n' = m
  /\ saved' = Base(m)

\* Mutant: a packet that is there already is not acknowledged again.
Answer_OnlyNew(m) == IF m = last_n THEN <<>> ELSE <<Ack(m)>>

Answer(m) == <<Ack(m)>>

Arrives == size = Running /\ fwd # <<>> /\ fwd' = Tail(fwd)

\* A packet is read whole.  The one of type B ends the transfer.
ReceivePacket ==
  /\ Arrives /\ ~inside
  /\ LET p == Head(fwd)
         m == Seq64(p)
     IN /\ Checkpoint(m)
        /\ data' = IF IsData(p) THEN Append(Base(m), Block(p)) ELSE Base(m)
        /\ bwd' = bwd \o Answer(m)
        /\ size' = IF p = Last THEN Len(data') ELSE Running
  /\ UNCHANGED <<k, inside, faults>>

\* packet_error: back to the checkpoint.
PacketError ==
  /\ data' = saved
  /\ inside' = FALSE
  /\ bwd' = Append(bwd, Nack(n))
  /\ UNCHANGED <<n, last_n, saved, size>>

\* The start character of the next packet ends a packet that broke off; the
\* rest of the new one is skipped.
ReceiveInside ==
  /\ Arrives /\ inside
  /\ PacketError
  /\ UNCHANGED <<k, faults>>

FaultCount == faults.head + faults.other

Fault(d) ==
  /\ d \in Damage
  /\ FaultCount < MaxFaults
  /\ faults' = IF d \in HeadDamages THEN [faults EXCEPT !.head = @ + 1]
                                    ELSE [faults EXCEPT !.other = @ + 1]

Lost ==
  /\ Arrives
  /\ Fault("lost")
  /\ UNCHANGED <<k, bwd, recvVars>>

\* The error comes before the sequence number is known.
HeadError ==
  /\ Arrives /\ ~inside
  /\ Fault("head")
  /\ PacketError
  /\ UNCHANGED k

\* The sequence number m is read, and then an error found.
ErrorAfter(m) ==
  /\ Checkpoint(m)
  /\ data' = Base(m)
  /\ bwd' = Append(bwd, Nack(m))
  /\ UNCHANGED <<k, inside, size>>

BodyError ==
  /\ Arrives /\ ~inside
  /\ Fault("body")
  /\ ErrorAfter(Seq64(Head(fwd)))

WrongSequence ==
  /\ Arrives /\ ~inside
  /\ Fault("seq")
  /\ \E m \in 0..SEQ - 1 \ {Seq64(Head(fwd))} : ErrorAfter(m)

CutInHead ==
  /\ Arrives /\ ~inside
  /\ Fault("cutHead")
  /\ inside' = TRUE
  /\ UNCHANGED <<k, bwd, n, last_n, data, saved, size>>

CutInBody ==
  /\ Arrives /\ ~inside
  /\ Fault("cutBody")
  /\ Checkpoint(Seq64(Head(fwd)))
  /\ data' = Base(Seq64(Head(fwd)))
  /\ inside' = TRUE
  /\ UNCHANGED <<k, bwd, size>>

\* The user leaves the sending program and types ^C: between packets k_recv
\* returns 0, within one it is a damaged character.
CtrlC ==
  /\ size = Running /\ fwd = <<>> /\ bwd = <<>>
  /\ IF inside
       THEN PacketError
       ELSE /\ size' = 0
            /\ UNCHANGED <<bwd, inside, n, last_n, data, saved>>
  /\ UNCHANGED <<k, fwd, faults>>

\* load_serial_bin reads what still comes and throws it away.
Gather ==
  /\ size # Running
  /\ fwd # <<>>
  /\ fwd' = Tail(fwd)
  /\ UNCHANGED <<k, bwd, recvVars, faults>>

-----------------------------------------------------------------------------
(* The sender.                                                              *)

Advance ==
  /\ k' = k + 1
  /\ fwd' = IF k < Last THEN Append(fwd, k + 1) ELSE fwd

\* An answer comes.  A refusal of the next packet acknowledges this one.
SenderReceives ==
  /\ bwd # <<>> /\ k <= Last
  /\ bwd' = Tail(bwd)
  /\ LET r == Head(bwd) IN
       IF r = Ack(Seq64(k)) \/ r = Nack(Seq64(k + 1))
         THEN Advance
         ELSE /\ fwd' = IF r = Nack(Seq64(k)) THEN Append(fwd, k) ELSE fwd
              /\ UNCHANGED k
  /\ UNCHANGED <<recvVars, faults>>

AnswerLost ==
  /\ bwd # <<>>
  /\ bwd' = Tail(bwd)
  /\ Fault("lost")
  /\ UNCHANGED <<k, fwd, recvVars>>

SenderTimeout ==
  /\ k <= Last
  /\ IF EarlyTimers THEN Len(fwd) < MaxInFlight ELSE fwd = <<>> /\ bwd = <<>>
  /\ fwd' = Append(fwd, k)
  /\ UNCHANGED <<k, bwd, recvVars, faults>>

\* The sender has ended; answers that still come go to its terminal.
Ended ==
  /\ k > Last
  /\ fwd' = <<>> /\ bwd' = <<>>
  /\ UNCHANGED <<k, recvVars, faults>>

-----------------------------------------------------------------------------
Init ==
  /\ k = 0 /\ fwd = <<0>> /\ bwd = <<>>
  /\ inside = FALSE /\ n = 0 /\ last_n = -1
  /\ data = <<>> /\ saved = <<>>
  /\ size = Running
  /\ faults = [head |-> 0, other |-> 0]

Receive == ReceivePacket \/ ReceiveInside
Damaged == Lost \/ HeadError \/ BodyError \/ WrongSequence \/ CutInHead \/ CutInBody
Sender == SenderReceives \/ AnswerLost \/ SenderTimeout \/ Ended

Next == Receive \/ Damaged \/ CtrlC \/ Gather \/ Sender

Spec == Init /\ [][Next]_kVars

\* k_recv reads what arrives, load_serial_bin what comes after, and the sender
\* answers and sends again in time.
FairSpec ==
  /\ Spec
  /\ WF_kVars(Receive \/ Gather)
  /\ WF_kVars(SenderReceives)
  /\ WF_kVars(SenderTimeout)

-----------------------------------------------------------------------------
(* Properties.                                                              *)

\* The variables have their types: what k_recv answers is always a sequence number of
\* the sender, and size is Running until it returns (cmd_load.c:896, 981-994).
KTypeOK ==
  /\ k \in 0..Last + 1
  /\ fwd \in Seq(0..Last)
  /\ bwd \in Seq([ack : BOOLEAN, n : 0..SEQ - 1])
  /\ inside \in BOOLEAN
  /\ n \in 0..SEQ - 1
  /\ last_n \in -1..SEQ - 1
  /\ data \in Seq(1..NumBlocks) /\ saved \in Seq(1..NumBlocks)
  /\ size \in Nat \union {Running}
  /\ faults \in [head : Nat, other : Nat]

\* When k_recv returns a size (cmd_load.c:994), the image is in memory: every block
\* once, in order, and nothing behind it counted, whatever packets and answers were
\* lost, repeated or damaged behind their head on the way; load_serial_bin puts that
\* size into filesize (:573).
WholeImage ==
  faults.head = 0 /\ size > 0 => size = NumBlocks /\ data = Blocks(NumBlocks)

\* What the sender has had acknowledged is in memory, at every moment of the
\* transfer, and beyond it at most the packet being sent: as long as the heads of
\* the packets arrive, going back to the checkpoint (cmd_load.c:906-909, 976-979)
\* never takes back an acknowledged packet.
AcknowledgedKept ==
  faults.head = 0 /\ size = Running => data \in {Before(k), Before(k + 1)}

\* Whatever is damaged, sequence numbers included, an error costs at most one
\* block, left out or taken twice: the checkpoint is never more than one packet
\* behind (cmd_load.c:910-914).
ErrorCostsOneBlock ==
  size > 0 => size \in NumBlocks - FaultCount .. NumBlocks + FaultCount

\* k_recv comes back: no pattern of lost answers, damaged packets and packets
\* that break off leaves both sides waiting for each other, although k_recv itself
\* has no timer (cmd_load.c:873-882); only a damaged head may make the sender skip
\* the packet that ends the transfer.
Returns == <>(size # Running \/ faults.head > 0)

\* The download implements Download as long as no head of a packet is damaged: the
\* part of memory that the sender knows to be there fills in the order of the image
\* and none of it is taken back, although k_recv itself goes back to its checkpoint
\* (cmd_load.c:976-979) after it has acknowledged, and k_recv answers once.
Acknowledged == [i \in DOMAIN Before(k) \intersect DOMAIN data |-> data[i]]
Status == IF size = Running THEN [done |-> FALSE, size |-> 0]
                            ELSE [done |-> TRUE, size |-> IF size = 0 THEN -1 ELSE size]
D == INSTANCE Download WITH FileSize <- NumBlocks, image <- Acknowledged, status <- Status
KImplementsDownload ==
  /\ D!Init
  /\ [][faults'.head = 0 => D!Next \/ UNCHANGED <<Acknowledged, Status>>]_kVars
=============================================================================
