--------------------------- MODULE SpiFlashProofs ---------------------------
(***************************************************************************)
(* Proofs about SpiFlash, for chips of any size, any calls that fit the     *)
(* assumption, and any number of commands that fail unnoticed.              *)
(***************************************************************************)
EXTENDS SpiFlash, TLAPS

Busy == {"erase", "write", "verify"}
OnChip == req.esec < NumSectors \/ (req.esec = NumSectors /\ req.epiece = 0)

\* offs lies between the start and the end of the image.
PositionOK ==
  /\ pc = "loop" \/ pc \in Busy =>
       /\ OnChip
       /\ ~Before(sec, piece, req.dsec, req.dpiece)
       /\ ~Before(req.esec, req.epiece, sec, piece)
  /\ pc \in Busy => More

\* The sectors at work, and what is to be written to them.
WorkOK ==
  pc \in Busy =>
    /\ sec <= cur /\ cur <= last
    /\ partial => last = sec /\ \A i \in Index : block[i] = Want(sec, i)
    /\ ~partial => piece = 0 /\ last = req.esec - 1

\* Sectors before offs are done.
DoneOK == \A s \in Sectors, i \in Index : s < sec => flash[s][i] = Want(s, i)

\* What is not of the image is kept, but for the sector at offs.
OutsideOK ==
  \A s \in Sectors, i \in Index :
    ~InRange(s, i) =>
      \/ flash[s][i] = orig[s][i]
      \/ s = sec /\ pc # "loop" /\ (pc = "returned" => ret < 0)

\* Between two pieces all before offs is done and all behind it untouched;
\* while sectors are rewritten those behind them are untouched.
StageOK ==
  /\ pc = "loop" =>
       \A s \in Sectors, i \in Index :
         flash[s][i] = IF Before(s, i, sec, piece) THEN Want(s, i) ELSE orig[s][i]
  /\ pc \in Busy => \A s \in Sectors, i \in Index : s > last => flash[s][i] = orig[s][i]
  /\ pc = "verify" =>
       \A s \in Sectors, i \in Index : sec <= s /\ s < cur => flash[s][i] = Want(s, i)

ContentOK == pc # "idle" => DoneOK /\ OutsideOK /\ StageOK /\ SuccessMeansWritten

FInv == FlashTypeOK /\ PositionOK /\ WorkOK /\ ContentOK

-----------------------------------------------------------------------------
LEMMA Constants ==
  /\ NumSectors \in Nat /\ SectorSize \in Nat \ {0} /\ MaxFaults \in Nat /\ MaxCalls \in Nat
  /\ 0 \in Sectors /\ 0 \in Index
  /\ Sectors \subseteq Nat /\ Index \subseteq Nat
  BY FlashAssumption DEF Sectors, Index

LEMMA ContentTypes ==
  /\ Erased \in Contents /\ Bad \in Contents
  /\ \A s \in Sectors, i \in Index : Old(s, i) \in Contents /\ Img(s, i) \in Contents
  BY DEF Contents, Old, Img, Erased, Bad

LEMMA FInit == Init => FInv
<1> SUFFICES ASSUME Init PROVE FInv
  OBVIOUS
<1>1. FlashTypeOK
  <2>1. flash \in [Sectors -> [Index -> Contents]]
    BY ContentTypes DEF Init
  <2>2. orig = flash /\ block \in [Index -> Contents]
    BY ContentTypes DEF Init
  <2>3. sec \in Nat /\ piece \in Index /\ last \in Sectors /\ cur \in Sectors /\ page \in Index
    BY Constants DEF Init
  <2>4. req \in [dsec : Nat, dpiece : Index, esec : Nat, epiece : Index]
    BY Constants DEF Init
  <2>5. ret \in -4..1 /\ faults \in 0..MaxFaults /\ calls \in 0..MaxCalls
    BY Constants DEF Init
  <2> QED BY <2>1, <2>2, <2>3, <2>4, <2>5 DEF Init, FlashTypeOK
<1>2. pc = "idle"
  BY DEF Init
<1> QED BY <1>1, <1>2 DEF FInv, PositionOK, WorkOK, ContentOK, Busy

\* What has to be at an address depends on the call only.
LEMMA SameWant ==
  ASSUME UNCHANGED workVars
  PROVE  \A s, i : Want(s, i)' = Want(s, i) /\ InRange(s, i)' = InRange(s, i)
  BY DEF workVars, Want, InRange, Before, Img

\* The sectors being rewritten are on the chip, and those that are covered
\* whole belong to the image.
LEMMA AtWork ==
  ASSUME FlashTypeOK, PositionOK, WorkOK, pc \in Busy
  PROVE  /\ sec \in Sectors /\ last \in Sectors /\ cur \in Sectors
         /\ \A s \in Sectors, i \in Index :
              ~partial /\ sec <= s /\ s <= last => InRange(s, i)
         /\ partial => cur = sec
<1> req.dsec \in Nat /\ req.esec \in Nat /\ req.dpiece \in Nat /\ req.epiece \in Nat
  BY Constants DEF FlashTypeOK
<1> sec \in Nat /\ piece \in Nat /\ NumSectors \in Nat
  BY Constants DEF FlashTypeOK
<1>1. sec \in Sectors /\ last \in Sectors /\ cur \in Sectors
  BY DEF PositionOK, OnChip, More, Before, Sectors, FlashTypeOK
<1>2. \A s \in Sectors, i \in Index : ~partial /\ sec <= s /\ s <= last => InRange(s, i)
  BY Constants DEF PositionOK, WorkOK, InRange, Before
<1>3. partial => cur = sec
  BY <1>1, Constants DEF WorkOK
<1> QED BY <1>1, <1>2, <1>3

\* The buffer, or the image, holds what has to be there.
LEMMA SourceWant ==
  ASSUME FInv, pc \in Busy, NEW s \in Sectors, NEW i \in Index, sec <= s, s <= last
  PROVE  Source(s, i) = Want(s, i)
<1>1. CASE partial
  <2>1. s = sec
    <3>1. last = sec
      BY <1>1 DEF FInv, WorkOK
    <3>2. sec \in Nat /\ s \in Nat
      BY Constants DEF FInv, FlashTypeOK
    <3> QED BY <3>1, <3>2
  <2> QED BY <1>1, <2>1 DEF FInv, WorkOK, Source
<1>2. CASE ~partial
  BY <1>2, AtWork DEF FInv, Want, Source
<1> QED BY <1>1, <1>2 DEF FInv, FlashTypeOK

\* Steps that erase or program, fail, or lose power on the way: only the sector
\* at cur changes.
LEMMA RewriteStep ==
  ASSUME FInv, pc \in {"erase", "write"}, UNCHANGED workVars, FlashTypeOK',
         \A s \in Sectors : s # cur => flash'[s] = flash[s],
         pc' \in Busy \/ pc' = "off" \/ (pc' = "returned" /\ ret' < 0),
         pc' \in Busy => sec <= cur' /\ cur' <= last,
         pc' = "verify" => cur' = sec
  PROVE  FInv'
<1>1. UNCHANGED <<sec, piece, req, partial, block, last, orig>>
  BY DEF workVars
<1>2. /\ \A s, i : Want(s, i)' = Want(s, i)
      /\ \A s, i : InRange(s, i)' = InRange(s, i)
  BY SameWant
<1>3. pc \in Busy /\ pc # "idle"
  BY DEF Busy
<1>4. /\ sec \in Sectors /\ last \in Sectors /\ cur \in Sectors
      /\ \A s \in Sectors, i \in Index :
           ~partial /\ sec <= s /\ s <= last => InRange(s, i)
      /\ partial => cur = sec
      /\ sec <= cur /\ cur <= last
  BY <1>3, AtWork DEF FInv, WorkOK
<1>5. sec \in Nat /\ last \in Nat /\ cur \in Nat /\ Sectors \subseteq Nat
  BY <1>4, Constants
<1>6. PositionOK'
  BY <1>1, <1>3 DEF FInv, PositionOK, OnChip, Before, More, Busy
<1>7. WorkOK'
  <2> SUFFICES ASSUME pc' \in Busy
               PROVE  /\ sec' <= cur' /\ cur' <= last'
                      /\ partial' => last' = sec' /\ \A i \in Index : block'[i] = Want(sec, i)'
                      /\ ~partial' => piece' = 0 /\ last' = (req.esec - 1)'
    BY <1>1, <1>2 DEF WorkOK
  <2> QED BY <1>1, <1>2, <1>3 DEF FInv, WorkOK
<1>8. DoneOK'
  <2> SUFFICES ASSUME NEW s \in Sectors, NEW i \in Index, s < sec
               PROVE  flash'[s][i] = Want(s, i)
    BY <1>1, <1>2 DEF DoneOK
  <2>1. flash'[s] = flash[s]
    BY <1>4, <1>5
  <2> QED BY <2>1, <1>3 DEF FInv, ContentOK, DoneOK
<1>9. OutsideOK'
  <2> SUFFICES ASSUME NEW s \in Sectors, NEW i \in Index, ~InRange(s, i), s # sec
               PROVE  flash'[s][i] = orig[s][i]
    BY <1>1, <1>2 DEF OutsideOK, Busy
  <2>1. s # cur
    BY <1>4, <1>5
  <2>2. flash[s][i] = orig[s][i]
    BY <1>3 DEF FInv, ContentOK, OutsideOK
  <2> QED BY <2>1, <2>2
<1>10. StageOK'
  <2>1. pc' # "loop"
    BY DEF Busy
  <2>2. \A s \in Sectors, i \in Index : s > last' => flash'[s][i] = orig'[s][i]
    <3> SUFFICES ASSUME NEW s \in Sectors, NEW i \in Index, s > last
                 PROVE  flash'[s][i] = orig[s][i]
      BY <1>1
    <3>1. s # cur
      BY <1>4, <1>5
    <3>2. flash[s][i] = orig[s][i]
      BY <1>3 DEF FInv, ContentOK, StageOK
    <3> QED BY <3>1, <3>2
  <2>3. pc' = "verify" => \A s \in Sectors, i \in Index : ~(sec' <= s /\ s < cur')
    <3> SUFFICES ASSUME pc' = "verify", NEW s \in Sectors PROVE ~(sec <= s /\ s < sec)
      BY <1>1
    <3>1. s \in Nat
      BY <1>5
    <3> QED BY <1>5, <3>1
  <2> QED BY <2>1, <2>2, <2>3 DEF StageOK
<1>11. SuccessMeansWritten'
  <2>1. ~(pc' = "returned" /\ ret' = 0)
    BY DEF Busy
  <2> QED BY <2>1 DEF SuccessMeansWritten
<1> QED BY <1>6, <1>7, <1>8, <1>9, <1>10, <1>11 DEF FInv, ContentOK

LEMMA TypedWrite ==
  ASSUME FlashTypeOK, cur \in Sectors, page \in Index, NEW c \in Contents, SetPage(cur, page, c)
  PROVE  /\ flash' \in [Sectors -> [Index -> Contents]]
         /\ \A s \in Sectors : s # cur => flash'[s] = flash[s]
<1>1. flash \in [Sectors -> [Index -> Contents]]
  BY DEF FlashTypeOK
<1> QED BY <1>1 DEF SetPage

LEMMA TypedErase ==
  ASSUME FlashTypeOK, cur \in Sectors, NEW f \in [Index -> Contents], SetSector(cur, f)
  PROVE  /\ flash' \in [Sectors -> [Index -> Contents]]
         /\ \A s \in Sectors : s # cur => flash'[s] = flash[s]
<1>1. flash \in [Sectors -> [Index -> Contents]]
  BY DEF FlashTypeOK
<1> QED BY <1>1 DEF SetSector

\* The other fields keep their type.
LEMMA TypesKept ==
  ASSUME FlashTypeOK, UNCHANGED workVars,
         flash' \in [Sectors -> [Index -> Contents]],
         pc' \in {"idle", "loop", "erase", "write", "verify", "returned", "off"},
         cur' \in Sectors, page' \in Index, complete' \in BOOLEAN,
         ret' \in -4..1, faults' \in 0..MaxFaults
  PROVE  FlashTypeOK'
  BY DEF FlashTypeOK, workVars

-----------------------------------------------------------------------------
(* The steps.                                                               *)

LEMMA EraseStep == FInv /\ Erase => FInv'
<1> SUFFICES ASSUME FInv, Erase PROVE FInv'
  OBVIOUS
<1>1. pc = "erase" /\ UNCHANGED workVars
  BY DEF Erase, EraseSector, EraseUnnoticed, EraseFails
<1>2. FlashTypeOK /\ pc \in Busy
  BY <1>1 DEF FInv, Busy
<1>3. /\ sec \in Sectors /\ last \in Sectors /\ cur \in Sectors
      /\ sec \in Nat /\ last \in Nat /\ cur \in Nat
      /\ sec <= cur /\ cur <= last
  BY <1>2, AtWork, Constants DEF FInv, WorkOK
<1>4. page \in Index /\ complete \in BOOLEAN /\ ret \in -4..1 /\ faults \in 0..MaxFaults
  BY <1>2 DEF FlashTypeOK
<1>5. ASSUME AfterErase
      PROVE  /\ pc' \in {"erase", "write"} /\ sec <= cur' /\ cur' <= last
             /\ cur' \in Sectors /\ page' \in Index /\ complete' \in BOOLEAN
  <2>1. CASE cur = last
    BY <1>3, <1>5, <2>1, Constants DEF AfterErase
  <2>2. CASE cur # last
    <3>1. cur' = cur + 1 /\ pc' = "erase" /\ page' = page /\ complete' = complete
      BY <1>1, <1>5, <2>2 DEF AfterErase
    <3>2. cur' \in Sectors /\ sec <= cur' /\ cur' <= last
      BY <1>3, <2>2, <3>1, Constants DEF Sectors
    <3> QED BY <1>4, <3>1, <3>2
  <2> QED BY <2>1, <2>2
<1>6. CASE EraseSector
  <2>1. SetSector(cur, [i \in Index |-> Erased]) /\ AfterErase /\ ret' = ret /\ faults' = faults
    BY <1>6 DEF EraseSector
  <2>2. [i \in Index |-> Erased] \in [Index -> Contents]
    BY ContentTypes
  <2>3. /\ flash' \in [Sectors -> [Index -> Contents]]
        /\ \A s \in Sectors : s # cur => flash'[s] = flash[s]
    BY <1>2, <1>3, <2>1, <2>2, TypedErase
  <2>4. FlashTypeOK'
    BY <1>1, <1>2, <1>4, <1>5, <2>1, <2>3, TypesKept
  <2> QED BY <1>1, <1>5, <2>1, <2>3, <2>4, RewriteStep DEF Busy
<1>7. CASE EraseUnnoticed
  <2>1. AfterErase /\ ret' = ret /\ faults < MaxFaults /\ faults' = faults + 1
    BY <1>7 DEF EraseUnnoticed, Silently
  <2>2. PICK S \in SUBSET Index :
          SetSector(cur, [i \in Index |-> IF i \in S THEN Erased ELSE flash[cur][i]])
    BY <1>7 DEF EraseUnnoticed
  <2>3. [i \in Index |-> IF i \in S THEN Erased ELSE flash[cur][i]] \in [Index -> Contents]
    BY <1>2, <1>3, ContentTypes DEF FlashTypeOK
  <2>4. /\ flash' \in [Sectors -> [Index -> Contents]]
        /\ \A s \in Sectors : s # cur => flash'[s] = flash[s]
    BY <1>2, <1>3, <2>2, <2>3, TypedErase
  <2>5. faults' \in 0..MaxFaults
    BY <1>4, <2>1, Constants
  <2>6. FlashTypeOK'
    BY <1>1, <1>2, <1>4, <1>5, <2>1, <2>4, <2>5, TypesKept
  <2> QED BY <1>1, <1>5, <2>1, <2>4, <2>6, RewriteStep DEF Busy
<1>8. CASE EraseFails
  <2>1. /\ pc' = "returned" /\ ret' \in {-3, -1}
        /\ UNCHANGED <<flash, cur, page, complete, faults>>
    BY <1>8 DEF EraseFails, Return
  <2>2. ret' \in -4..1 /\ ret' < 0
    BY <2>1
  <2>3. FlashTypeOK'
    BY <1>1, <1>2, <2>1, <2>2 DEF FlashTypeOK, workVars
  <2> QED BY <1>1, <2>1, <2>2, <2>3, RewriteStep DEF Busy
<1> QED BY <1>6, <1>7, <1>8 DEF Erase

LEMMA WriteStep == FInv /\ Write => FInv'
<1> SUFFICES ASSUME FInv, Write PROVE FInv'
  OBVIOUS
<1>1. pc = "write" /\ UNCHANGED workVars
  BY DEF Write, WritePage, WriteUnnoticed, WriteSkips, WriteStops
<1>2. FlashTypeOK /\ pc \in Busy
  BY <1>1 DEF FInv, Busy
<1>3. /\ sec \in Sectors /\ last \in Sectors /\ cur \in Sectors
      /\ sec \in Nat /\ last \in Nat /\ cur \in Nat
      /\ sec <= cur /\ cur <= last
  BY <1>2, AtWork, Constants DEF FInv, WorkOK
<1>4. /\ page \in Index /\ complete \in BOOLEAN /\ ret \in -4..1 /\ faults \in 0..MaxFaults
      /\ flash[cur][page] \in Contents
  BY <1>2, <1>3 DEF FlashTypeOK
<1>5. ASSUME WriteError PROVE pc' = "returned" /\ ret' \in -4..1 /\ ret' < 0
  <2>1. pc' = "returned" /\ ret' \in {-4, -1}
    BY <1>5 DEF WriteError, Return
  <2> QED BY <2>1
<1>6. ASSUME NEW b \in BOOLEAN, AfterPage(b)
      PROVE  /\ \/ pc' = "write" /\ sec <= cur' /\ cur' <= last /\ ret' = ret
                \/ pc' = "verify" /\ cur' = sec /\ ret' = ret
                \/ pc' = "returned" /\ ret' \in -4..1 /\ ret' < 0
             /\ cur' \in Sectors /\ page' \in Index /\ complete' \in BOOLEAN
             /\ ret' \in -4..1
  <2>1. CASE page < SectorSize - 1
    <3>1. page' = page + 1 /\ complete' = b /\ UNCHANGED <<pc, cur, ret>>
      BY <1>6, <2>1 DEF AfterPage
    <3>2. page' \in Index
      BY <1>4, <2>1, <3>1, Constants DEF Index
    <3> QED BY <1>1, <1>3, <1>4, <3>1, <3>2
  <2>2. CASE ~(page < SectorSize - 1) /\ cur < last
    <3>1. page' = 0 /\ cur' = cur + 1 /\ complete' = b /\ UNCHANGED <<pc, ret>>
      BY <1>6, <2>2 DEF AfterPage
    <3>2. cur' \in Sectors /\ sec <= cur' /\ cur' <= last
      BY <1>3, <2>2, <3>1, Constants DEF Sectors
    <3> QED BY <1>1, <1>4, <3>1, <3>2, Constants
  <2>3. CASE ~(page < SectorSize - 1) /\ ~(cur < last) /\ b
    <3>1. pc' = "verify" /\ cur' = sec /\ UNCHANGED <<page, complete, ret>>
      BY <1>6, <2>3 DEF AfterPage
    <3> QED BY <1>3, <1>4, <3>1
  <2>4. CASE ~(page < SectorSize - 1) /\ ~(cur < last) /\ ~b
    <3>1. WriteError /\ UNCHANGED <<cur, page, complete>>
      BY <1>6, <2>4 DEF AfterPage
    <3> QED BY <1>3, <1>4, <1>5, <3>1
  <2> QED BY <2>1, <2>2, <2>3, <2>4
<1>7. ASSUME NEW c \in Contents, SetPage(cur, page, c), NEW b \in BOOLEAN, AfterPage(b),
             faults' \in 0..MaxFaults
      PROVE  FInv'
  <2>1. /\ flash' \in [Sectors -> [Index -> Contents]]
        /\ \A s \in Sectors : s # cur => flash'[s] = flash[s]
    BY <1>2, <1>3, <1>4, <1>7, TypedWrite
  <2>2. FlashTypeOK'
    BY <1>1, <1>2, <1>6, <1>7, <2>1, TypesKept
  <2>3. sec <= sec /\ sec <= last
    BY <1>3
  <2> QED BY <1>1, <1>6, <1>7, <2>1, <2>2, <2>3, RewriteStep DEF Busy
<1>8. CASE WritePage
  <2>1. SetPage(cur, page, Programmed(flash[cur][page], Source(cur, page)))
        /\ AfterPage(complete) /\ faults' = faults
    BY <1>8 DEF WritePage
  <2>2. Programmed(flash[cur][page], Source(cur, page)) \in Contents
    BY <1>2, <1>3, <1>4, ContentTypes DEF Programmed, Source, FlashTypeOK
  <2> QED BY <1>4, <1>7, <2>1, <2>2
<1>9. CASE WriteUnnoticed
  <2>1. PICK c \in {flash[cur][page], Bad} : SetPage(cur, page, c)
    BY <1>9 DEF WriteUnnoticed
  <2>2. c \in Contents
    BY <1>4, ContentTypes
  <2>3. AfterPage(complete) /\ faults' \in 0..MaxFaults
    BY <1>4, <1>9, Constants DEF WriteUnnoticed, Silently
  <2> QED BY <1>4, <1>7, <2>1, <2>2, <2>3
<1>10. CASE WriteSkips
  <2>1. AfterPage(FALSE) /\ flash' = flash /\ faults' = faults
    BY <1>10 DEF WriteSkips
  <2>2. FlashTypeOK'
    BY <1>1, <1>2, <1>4, <1>6, <2>1, TypesKept DEF FlashTypeOK
  <2>3. sec <= sec /\ sec <= last
    BY <1>3
  <2> QED BY <1>1, <1>6, <2>1, <2>2, <2>3, RewriteStep DEF Busy
<1>11. CASE WriteStops
  <2>1. PICK c \in {flash[cur][page], Bad} : SetPage(cur, page, c)
    BY <1>11 DEF WriteStops
  <2>2. c \in Contents
    BY <1>4, ContentTypes
  <2>3. WriteError /\ UNCHANGED <<cur, page, complete, faults>>
    BY <1>11 DEF WriteStops
  <2>4. /\ flash' \in [Sectors -> [Index -> Contents]]
        /\ \A s \in Sectors : s # cur => flash'[s] = flash[s]
    BY <1>2, <1>3, <1>4, <2>1, <2>2, TypedWrite
  <2>5. FlashTypeOK'
    BY <1>1, <1>2, <1>3, <1>4, <1>5, <2>3, <2>4, TypesKept
  <2> QED BY <1>1, <1>5, <2>3, <2>4, <2>5, RewriteStep DEF Busy
<1> QED BY <1>8, <1>9, <1>10, <1>11 DEF Write

\* An error or a power failure that leaves the flash as it is.
LEMMA StopStep ==
  ASSUME FInv, pc # "idle", UNCHANGED workVars, flash' = flash, FlashTypeOK',
         pc' = "off" \/ (pc' = "returned" /\ ret' < 0)
  PROVE  FInv'
<1>1. UNCHANGED <<sec, piece, req, orig>>
  BY DEF workVars
<1>2. /\ \A s, i : Want(s, i)' = Want(s, i)
      /\ \A s, i : InRange(s, i)' = InRange(s, i)
  BY SameWant
<1>3. pc' \notin Busy /\ pc' # "loop"
  BY DEF Busy
<1>4. DoneOK'
  BY <1>1, <1>2 DEF FInv, ContentOK, DoneOK
<1>5. OutsideOK'
  <2> SUFFICES ASSUME NEW s \in Sectors, NEW i \in Index, ~InRange(s, i), s # sec
               PROVE  flash[s][i] = orig[s][i]
    BY <1>1, <1>2, <1>3 DEF OutsideOK
  <2> QED BY DEF FInv, ContentOK, OutsideOK
<1>6. StageOK'
  BY <1>3 DEF StageOK, Busy
<1>7. SuccessMeansWritten'
  <2>1. ~(pc' = "returned" /\ ret' = 0)
    OBVIOUS
  <2> QED BY <2>1 DEF SuccessMeansWritten
<1> QED BY <1>3, <1>4, <1>5, <1>6, <1>7 DEF FInv, PositionOK, WorkOK, ContentOK

LEMMA CallStep == ASSUME FInv, NEW r \in Requests, Call(r) PROVE FInv'
<1>1. /\ req' = r /\ orig' = flash /\ flash' = flash /\ sec' = r.dsec /\ piece' = r.dpiece
      /\ UNCHANGED <<partial, block, last, cur, page, complete, faults>>
      /\ calls < MaxCalls /\ calls' = calls + 1
  BY DEF Call
<1>2. \/ pc' = "returned" /\ ret' = -1
      \/ pc' = "loop" /\ ret' = 1 /\ ~(Count(r) > Limit)
  BY DEF Call, Return
<1>3. /\ r \in [dsec : Nat, dpiece : Index, esec : Nat, epiece : Index]
      /\ r.dsec < r.esec \/ (r.dsec = r.esec /\ r.dpiece <= r.epiece)
      /\ Count(r) <= Limit => r.esec < NumSectors \/ (r.esec = NumSectors /\ r.epiece = 0)
  BY FlashAssumption
<1>4. r.dsec \in Nat /\ r.esec \in Nat /\ r.dpiece \in Nat /\ r.epiece \in Nat
      /\ r.dpiece \in Index
  BY <1>3, Constants
<1>5. FlashTypeOK'
  <2>1. ret' \in -4..1 /\ pc' \in {"loop", "returned"}
    BY <1>2
  <2>2. calls' \in 0..MaxCalls
    BY <1>1, Constants DEF FInv, FlashTypeOK
  <2> QED BY <1>1, <1>3, <1>4, <2>1, <2>2 DEF FInv, FlashTypeOK
<1>6. PositionOK' /\ WorkOK'
  <2>1. pc' \notin Busy
    BY <1>2 DEF Busy
  <2>2. pc' = "loop" => OnChip'
    <3>1. Count(r) \in Int /\ Limit \in Int
      BY <1>4, FlashAssumption DEF Count, Limit
    <3> QED BY <1>1, <1>2, <1>3, <3>1 DEF OnChip
  <2>3. ~Before(sec, piece, req.dsec, req.dpiece)'
    BY <1>1, <1>4 DEF Before
  <2>4. ~Before(req.esec, req.epiece, sec, piece)'
    BY <1>1, <1>3, <1>4 DEF Before
  <2> QED BY <2>1, <2>2, <2>3, <2>4 DEF PositionOK, WorkOK
<1>7. \A s \in Sectors, i \in Index : Before(s, i, r.dsec, r.dpiece) => Want(s, i)' = flash[s][i]
  BY <1>1 DEF Want, InRange
<1>8. DoneOK'
  BY <1>1, <1>7 DEF DoneOK, Before
<1>9. OutsideOK' /\ StageOK'
  <2>1. pc' = "loop" \/ pc' = "returned"
    BY <1>2
  <2> QED BY <1>1, <1>7, <2>1 DEF OutsideOK, StageOK, Busy
<1>10. SuccessMeansWritten'
  BY <1>2 DEF SuccessMeansWritten
<1> QED BY <1>5, <1>6, <1>8, <1>9, <1>10 DEF FInv, ContentOK

LEMMA DoneStep == FInv /\ Done => FInv'
<1> SUFFICES ASSUME FInv, Done PROVE FInv'
  OBVIOUS
<1>1. pc = "loop" /\ ~More /\ pc' = "returned" /\ ret' = 0
      /\ UNCHANGED <<flash, workVars, cur, page, complete, faults>>
  BY DEF Done, Return
<1>2. UNCHANGED <<sec, piece, req, orig, partial, block, last, calls>>
  BY <1>1 DEF workVars
<1>3. /\ \A s, i : Want(s, i)' = Want(s, i)
      /\ \A s, i : InRange(s, i)' = InRange(s, i)
  BY <1>1, SameWant
<1>4. FlashTypeOK'
  BY <1>1, <1>2 DEF FInv, FlashTypeOK
<1>5. req.esec \in Nat /\ req.epiece \in Nat /\ sec \in Nat /\ piece \in Nat
  BY Constants DEF FInv, FlashTypeOK
<1>6. sec = req.esec /\ piece = req.epiece
  BY <1>1, <1>5 DEF FInv, PositionOK, More, Before
<1>7. \A s \in Sectors, i \in Index : flash[s][i] = Want(s, i)
  BY <1>1, <1>6 DEF FInv, ContentOK, StageOK, Want, InRange
<1>8. DoneOK' /\ SuccessMeansWritten'
  BY <1>1, <1>3, <1>7 DEF DoneOK, SuccessMeansWritten
<1>9. OutsideOK' /\ StageOK'
  BY <1>1, <1>2, <1>3, <1>7 DEF OutsideOK, StageOK, Want, Busy
<1> QED BY <1>1, <1>4, <1>8, <1>9 DEF FInv, ContentOK, PositionOK, WorkOK, Busy

\* The start of a piece or of the whole sectors: nothing is changed yet.
LEMMA StartStep == FInv /\ (ReadPiece \/ StartAligned) => FInv'
<1> SUFFICES ASSUME FInv, ReadPiece \/ StartAligned PROVE FInv'
  OBVIOUS
<1>1. /\ pc = "loop" /\ More /\ pc' = "erase" /\ cur' = sec
      /\ UNCHANGED <<flash, sec, piece, req, orig, calls, page, complete, ret, faults>>
  BY DEF ReadPiece, StartAligned
<1>2. /\ \A s, i : Want(s, i)' = Want(s, i)
      /\ \A s, i : InRange(s, i)' = InRange(s, i)
  BY <1>1 DEF Want, InRange, Before, Img
<1>3. /\ req.dsec \in Nat /\ req.esec \in Nat /\ req.dpiece \in Nat /\ req.epiece \in Nat
      /\ sec \in Nat /\ piece \in Nat /\ NumSectors \in Nat
      /\ Sectors \subseteq Nat /\ Index \subseteq Nat
  BY Constants DEF FInv, FlashTypeOK
<1>4. /\ OnChip /\ ~Before(sec, piece, req.dsec, req.dpiece)
      /\ ~Before(req.esec, req.epiece, sec, piece)
  BY <1>1 DEF FInv, PositionOK
<1>5. sec \in Sectors
  BY <1>1, <1>3, <1>4 DEF OnChip, More, Before, Sectors
<1>6. \A s \in Sectors, i \in Index :
        flash[s][i] = IF Before(s, i, sec, piece) THEN Want(s, i) ELSE orig[s][i]
  BY <1>1 DEF FInv, ContentOK, StageOK
<1>7. \/ /\ partial' = TRUE /\ last' = sec /\ block' = [i \in Index |-> Merged(i)]
      \/ /\ partial' = FALSE /\ last' = req.esec - 1 /\ block' = block
         /\ piece = 0 /\ sec < req.esec
  <2>1. CASE ReadPiece
    BY <2>1 DEF ReadPiece
  <2>2. CASE StartAligned
    BY <1>1, <1>3, <2>2 DEF StartAligned, IsPartial, More, Before
  <2> QED BY <2>1, <2>2
<1>8. ASSUME NEW i \in Index PROVE Merged(i) = Want(sec, i)
  <2> i \in Nat
    BY <1>3
  <2>1. CASE piece <= i /\ (sec = req.esec => i < req.epiece)
    <3>1. ~Before(sec, i, req.dsec, req.dpiece)
      BY <1>3, <1>4, <2>1 DEF Before
    <3>2. Before(sec, i, req.esec, req.epiece)
      BY <1>1, <1>3, <2>1 DEF More, Before
    <3> QED BY <2>1, <3>1, <3>2 DEF Merged, Want, InRange
  <2>2. CASE ~(piece <= i)
    <3>1. Before(sec, i, sec, piece)
      BY <1>3, <2>2 DEF Before
    <3> QED BY <1>5, <1>6, <2>2, <3>1 DEF Merged
  <2>3. CASE piece <= i /\ sec = req.esec /\ ~(i < req.epiece)
    <3>1. ~Before(sec, i, sec, piece) /\ ~Before(sec, i, req.esec, req.epiece)
      BY <1>3, <2>3 DEF Before
    <3> QED BY <1>5, <1>6, <2>3, <3>1 DEF Merged, Want, InRange
  <2> QED BY <2>1, <2>2, <2>3
<1>9. FlashTypeOK'
  <2>1. last' \in Sectors
    BY <1>3, <1>4, <1>5, <1>7 DEF OnChip, Sectors
  <2>2. block' \in [Index -> Contents]
    <3>1. CASE block' = block
      BY <3>1 DEF FInv, FlashTypeOK
    <3>2. CASE block' = [i \in Index |-> Merged(i)]
      BY <1>5, <3>2, ContentTypes DEF FInv, FlashTypeOK, Merged
    <3> QED BY <1>7, <3>1, <3>2
  <2>3. partial' \in BOOLEAN
    BY <1>7
  <2> QED BY <1>1, <1>5, <2>1, <2>2, <2>3 DEF FInv, FlashTypeOK
<1>10. PositionOK'
  BY <1>1, <1>4 DEF PositionOK, OnChip, Before, More
<1>11. WorkOK'
  <2>1. CASE partial'
    <3>1. last' = sec /\ \A i \in Index : block'[i] = Want(sec, i)
      BY <1>7, <1>8, <2>1
    <3> QED BY <1>1, <1>2, <1>3, <2>1, <3>1 DEF WorkOK
  <2>2. CASE ~partial'
    <3>1. last' = req.esec - 1 /\ piece = 0 /\ sec <= req.esec - 1
      BY <1>3, <1>7, <2>2
    <3> QED BY <1>1, <1>3, <2>2, <3>1 DEF WorkOK
  <2> QED BY <2>1, <2>2
<1>12. DoneOK'
  BY <1>1, <1>2 DEF FInv, ContentOK, DoneOK
<1>13. OutsideOK'
  BY <1>1, <1>2 DEF FInv, ContentOK, OutsideOK
<1>14. StageOK'
  <2> SUFFICES ASSUME NEW s \in Sectors, NEW i \in Index, s > last'
               PROVE  flash[s][i] = orig[s][i]
    BY <1>1 DEF StageOK
  <2>1. sec < s
    BY <1>3, <1>7
  <2>2. ~Before(s, i, sec, piece)
    BY <1>3, <2>1 DEF Before
  <2> QED BY <1>6, <2>2
<1>15. SuccessMeansWritten'
  BY <1>1 DEF SuccessMeansWritten
<1> QED BY <1>9, <1>10, <1>11, <1>12, <1>13, <1>14, <1>15 DEF FInv, ContentOK

LEMMA VerifyStep == FInv /\ Verify => FInv'
<1> SUFFICES ASSUME FInv, Verify PROVE FInv'
  OBVIOUS
<1>1. /\ pc = "verify"
      /\ UNCHANGED <<flash, req, partial, block, last, orig, calls, page, complete, faults>>
  BY DEF Verify
<1>2. pc \in Busy /\ pc # "idle"
  BY <1>1 DEF Busy
<1>3. /\ sec \in Sectors /\ last \in Sectors /\ cur \in Sectors
      /\ sec \in Nat /\ last \in Nat /\ cur \in Nat /\ NumSectors \in Nat
      /\ sec <= cur /\ cur <= last /\ Sectors \subseteq Nat /\ Index \subseteq Nat
  BY <1>2, AtWork, Constants DEF FInv, WorkOK
<1>4. /\ \A s, i : Want(s, i)' = Want(s, i)
      /\ \A s, i : InRange(s, i)' = InRange(s, i)
  BY <1>1 DEF Want, InRange, Before, Img
<1>5. CASE ~Matches
  <2>1. pc' = "returned" /\ ret' = -2 /\ UNCHANGED <<sec, piece, cur>>
    BY <1>5 DEF Verify, Return
  <2>2. FlashTypeOK'
    BY <1>1, <2>1 DEF FInv, FlashTypeOK
  <2>3. UNCHANGED workVars
    BY <1>1, <2>1 DEF workVars
  <2> QED BY <1>1, <1>2, <2>1, <2>2, <2>3, StopStep
<1>6. CASE Matches /\ cur < last
  <2>1. cur' = cur + 1 /\ UNCHANGED <<sec, piece, pc, ret>>
    BY <1>6 DEF Verify
  <2>2. cur' \in Sectors /\ sec <= cur' /\ cur' <= last
    BY <1>3, <1>6, <2>1 DEF Sectors
  <2>3. FlashTypeOK'
    BY <1>1, <2>1, <2>2 DEF FInv, FlashTypeOK
  <2>4. PositionOK' /\ WorkOK'
    BY <1>1, <1>2, <1>4, <2>1, <2>2 DEF FInv, PositionOK, WorkOK, OnChip, Before, More
  <2>5. DoneOK' /\ OutsideOK' /\ SuccessMeansWritten'
    BY <1>1, <1>2, <1>4, <2>1 DEF FInv, ContentOK, DoneOK, OutsideOK, SuccessMeansWritten
  <2>6. StageOK'
    <3>1. \A s \in Sectors, i \in Index : s > last => flash[s][i] = orig[s][i]
      BY <1>2 DEF FInv, ContentOK, StageOK
    <3>2. ASSUME NEW s \in Sectors, NEW i \in Index, sec <= s, s < cur + 1
          PROVE  flash[s][i] = Want(s, i)
      <4>1. CASE s < cur
        BY <1>1, <1>2, <3>2, <4>1 DEF FInv, ContentOK, StageOK
      <4>2. CASE s = cur
        <5>1. flash[cur][i] = Source(cur, i)
          BY <1>6 DEF Matches
        <5> QED BY <1>2, <1>3, <4>2, <5>1, SourceWant
      <4>3. s \in Nat
        BY <1>3
      <4> QED BY <1>3, <3>2, <4>1, <4>2, <4>3
    <3> QED BY <1>1, <1>4, <2>1, <3>1, <3>2 DEF StageOK
  <2> QED BY <2>3, <2>4, <2>5, <2>6 DEF FInv, ContentOK
<1>7. CASE Matches /\ ~(cur < last)
  <2>1. pc' = "loop" /\ Advance /\ UNCHANGED <<cur, ret>>
    BY <1>7 DEF Verify
  <2>2. cur = last
    BY <1>3, <1>7
  <2>3. ASSUME NEW s \in Sectors, NEW i \in Index, s <= last
        PROVE  flash[s][i] = Want(s, i)
    <3> s \in Nat
      BY <1>3
    <3>1. CASE s < sec
      BY <1>2, <3>1 DEF FInv, ContentOK, DoneOK
    <3>2. CASE sec <= s /\ s < cur
      BY <1>1, <1>2, <3>2 DEF FInv, ContentOK, StageOK
    <3>3. CASE s = cur
      <4>1. flash[cur][i] = Source(cur, i)
        BY <1>7 DEF Matches
      <4> QED BY <1>2, <1>3, <3>3, <4>1, SourceWant
    <3> QED BY <1>3, <2>2, <2>3, <3>1, <3>2, <3>3
  <2>4. \A s \in Sectors, i \in Index : s > last => flash[s][i] = orig[s][i]
    BY <1>2 DEF FInv, ContentOK, StageOK
  <2>5. /\ req.dsec \in Nat /\ req.esec \in Nat /\ req.dpiece \in Nat /\ req.epiece \in Nat
        /\ req.epiece \in Index /\ 0 \in Index /\ piece \in Nat
    BY Constants DEF FInv, FlashTypeOK
  <2>6. OnChip /\ More /\ ~Before(sec, piece, req.dsec, req.dpiece)
    BY <1>2 DEF FInv, PositionOK
  <2>7. \/ sec' = req.esec /\ piece' = req.epiece /\ last = req.esec
        \/ sec' = last + 1 /\ piece' = 0 /\ sec' <= req.esec
    <3>1. CASE partial
      <4>1. last = sec
        BY <1>2, <3>1 DEF FInv, WorkOK
      <4>2. sec <= req.esec
        BY <1>3, <2>5, <2>6 DEF More, Before
      <4> QED BY <1>3, <2>1, <2>5, <3>1, <4>1, <4>2 DEF Advance
    <3>2. CASE ~partial
      <4>1. last = req.esec - 1
        BY <1>2, <3>2 DEF FInv, WorkOK
      <4> QED BY <1>3, <2>1, <2>5, <3>2, <4>1 DEF Advance
    <3> QED BY <3>1, <3>2
  <2>8. FlashTypeOK'
    BY <1>1, <1>3, <2>1, <2>5, <2>7 DEF FInv, FlashTypeOK
  <2>9. PositionOK' /\ WorkOK'
    <3>1. pc' \notin Busy
      BY <2>1 DEF Busy
    <3>2. ~Before(sec', piece', req.dsec, req.dpiece) /\ ~Before(req.esec, req.epiece, sec', piece')
      BY <1>3, <2>5, <2>6, <2>7 DEF Before, More
    <3> QED BY <1>1, <2>6, <3>1, <3>2 DEF PositionOK, WorkOK, OnChip, Before
  <2>10. \A s \in Sectors, i \in Index :
           flash[s][i] = IF Before(s, i, sec', piece') THEN Want(s, i) ELSE orig[s][i]
    <3> SUFFICES ASSUME NEW s \in Sectors, NEW i \in Index
                 PROVE  flash[s][i] = IF Before(s, i, sec', piece') THEN Want(s, i) ELSE orig[s][i]
      OBVIOUS
    <3> s \in Nat /\ i \in Nat
      BY <1>3
    <3>1. CASE s > last
      <4>1. ~Before(s, i, sec', piece')
        BY <1>3, <2>5, <2>7, <3>1 DEF Before
      <4> QED BY <2>4, <3>1, <4>1
    <3>2. CASE s <= last /\ Before(s, i, sec', piece')
      BY <2>3, <3>2
    <3>3. CASE s <= last /\ ~Before(s, i, sec', piece')
      <4>1. sec' = req.esec /\ piece' = req.epiece
        BY <1>3, <2>7, <3>3 DEF Before
      <4>2. ~InRange(s, i)
        BY <3>3, <4>1 DEF InRange
      <4> QED BY <2>3, <3>3, <4>2 DEF Want
    <3> QED BY <1>3, <3>1, <3>2, <3>3
  <2>11. StageOK'
    BY <1>1, <1>4, <2>1, <2>10 DEF StageOK, Busy, Before
  <2>12. DoneOK'
    BY <1>1, <1>4, <2>10 DEF DoneOK, Before
  <2>13. OutsideOK'
    BY <1>1, <1>4, <2>10 DEF OutsideOK, Want
  <2>14. SuccessMeansWritten'
    BY <2>1 DEF SuccessMeansWritten
  <2> QED BY <2>8, <2>9, <2>11, <2>12, <2>13, <2>14 DEF FInv, ContentOK
<1> QED BY <1>5, <1>6, <1>7

LEMMA PowerFailStep == FInv /\ PowerFail => FInv'
<1> SUFFICES ASSUME FInv, PowerFail PROVE FInv'
  OBVIOUS
<1>1. /\ pc # "idle" /\ pc' = "off"
      /\ UNCHANGED <<workVars, cur, page, complete, ret, faults>>
  BY DEF PowerFail
<1>2. FlashTypeOK
  BY DEF FInv
<1>3. cur \in Sectors /\ page \in Index /\ complete \in BOOLEAN /\ ret \in -4..1
      /\ faults \in 0..MaxFaults
  BY <1>2 DEF FlashTypeOK
<1>4. CASE pc = "erase"
  <2>1. PICK S \in SUBSET Index :
          SetSector(cur, [i \in Index |-> IF i \in S THEN Bad ELSE flash[cur][i]])
    BY <1>4 DEF PowerFail
  <2>2. [i \in Index |-> IF i \in S THEN Bad ELSE flash[cur][i]] \in [Index -> Contents]
    BY <1>2, <1>3, ContentTypes DEF FlashTypeOK
  <2>3. /\ flash' \in [Sectors -> [Index -> Contents]]
        /\ \A s \in Sectors : s # cur => flash'[s] = flash[s]
    BY <1>2, <1>3, <2>1, <2>2, TypedErase
  <2>4. FlashTypeOK'
    BY <1>1, <1>2, <1>3, <2>3, TypesKept
  <2> QED BY <1>1, <1>4, <2>3, <2>4, RewriteStep DEF Busy
<1>5. CASE pc = "write"
  <2>1. SetPage(cur, page, Bad)
    BY <1>5 DEF PowerFail
  <2>2. /\ flash' \in [Sectors -> [Index -> Contents]]
        /\ \A s \in Sectors : s # cur => flash'[s] = flash[s]
    BY <1>2, <1>3, <2>1, ContentTypes, TypedWrite
  <2>3. FlashTypeOK'
    BY <1>1, <1>2, <1>3, <2>2, TypesKept
  <2> QED BY <1>1, <1>5, <2>2, <2>3, RewriteStep DEF Busy
<1>6. CASE pc # "erase" /\ pc # "write"
  <2>1. flash' = flash
    BY <1>6 DEF PowerFail
  <2>2. FlashTypeOK'
    BY <1>1, <1>2, <1>3, <2>1, TypesKept DEF FlashTypeOK
  <2> QED BY <1>1, <2>1, <2>2, StopStep
<1> QED BY <1>4, <1>5, <1>6

LEMMA FNext == FInv /\ [Next]_flashVars => FInv'
<1> SUFFICES ASSUME FInv, [Next]_flashVars PROVE FInv'
  OBVIOUS
<1>1. CASE \E r \in Requests : Call(r)
  BY <1>1, CallStep
<1>2. CASE Done
  BY <1>2, DoneStep
<1>3. CASE NoMemory \/ ReadPieceFails \/ VerifyReadFails
  <2>1. /\ pc \in {"loop", "verify"} /\ pc' = "returned" /\ ret' \in {-2, -1}
        /\ UNCHANGED <<flash, workVars, cur, page, complete, faults>>
    BY <1>3 DEF NoMemory, ReadPieceFails, VerifyReadFails, Return
  <2>2. ret' \in -4..1 /\ ret' < 0
    BY <2>1
  <2>3. FlashTypeOK'
    BY <2>1, <2>2 DEF FInv, FlashTypeOK, workVars
  <2> QED BY <2>1, <2>2, <2>3, StopStep
<1>4. CASE ReadPiece \/ StartAligned
  BY <1>4, StartStep
<1>5. CASE Erase
  BY <1>5, EraseStep
<1>6. CASE Write
  BY <1>6, WriteStep
<1>7. CASE Verify
  BY <1>7, VerifyStep
<1>8. CASE PowerFail
  BY <1>8, PowerFailStep
<1>9. CASE PowerOn
  <2>1. pc' = "idle" /\ UNCHANGED <<flash, workVars, cur, page, complete, ret, faults>>
    BY <1>9 DEF PowerOn
  <2>2. FlashTypeOK'
    BY <2>1 DEF FInv, FlashTypeOK, workVars
  <2> QED BY <2>1, <2>2 DEF FInv, PositionOK, WorkOK, ContentOK, Busy
<1>10. CASE UNCHANGED flashVars
  <2>1. UNCHANGED <<flash, pc, sec, piece, req, partial, block, last, orig, calls, cur, page,
                    complete, ret, faults>>
    BY <1>10 DEF flashVars, workVars
  <2>2. /\ \A s, i : Want(s, i)' = Want(s, i)
        /\ \A s, i : InRange(s, i)' = InRange(s, i)
    BY <2>1 DEF Want, InRange, Before, Img
  <2>3. FlashTypeOK'
    BY <2>1 DEF FInv, FlashTypeOK
  <2>4. PositionOK' /\ WorkOK'
    BY <2>1, <2>2 DEF FInv, PositionOK, WorkOK, OnChip, More, Before
  <2>5. ContentOK'
    BY <2>1, <2>2 DEF FInv, ContentOK, DoneOK, OutsideOK, StageOK, SuccessMeansWritten, Before
  <2> QED BY <2>3, <2>4, <2>5 DEF FInv
<1> QED BY <1>1, <1>2, <1>3, <1>4, <1>5, <1>6, <1>7, <1>8, <1>9, <1>10 DEF Next

LEMMA FInvariant == Spec => []FInv
  BY FInit, FNext, PTL DEF Spec

-----------------------------------------------------------------------------
(* The theorems.                                                            *)

\* Every field of raspi_erase_write and every page of the chip keeps its type.
THEOREM FlashTypeCorrect == Spec => []FlashTypeOK
<1>1. FInv => FlashTypeOK
  BY DEF FInv
<1> QED BY <1>1, FInvariant, PTL

\* When raspi_erase_write returns 0 (spi_flash.c:1296-1297), the chip holds the
\* image, and otherwise what it held before.
THEOREM ImageWritten == Spec => []SuccessMeansWritten
<1>1. FInv => SuccessMeansWritten
  BY DEF FInv, ContentOK, SuccessMeansWritten
<1> QED BY <1>1, FInvariant, PTL

\* Errors and power failures of raspi_erase_write cost what is not of the image
\* in one sector at most (spi_flash.c:1185-1244).
THEOREM OthersKept == Spec => []NeighboursKept
<1>1. FInv => NeighboursKept
  <2> SUFFICES ASSUME FInv, pc # "idle", NEW s \in Sectors, NEW i \in Index, ~InRange(s, i)
               PROVE  \/ flash[s][i] = orig[s][i]
                      \/ s = sec /\ (pc \in {"erase", "write", "verify", "off"} \/ ret < 0)
    BY DEF NeighboursKept
  <2>1. \/ flash[s][i] = orig[s][i]
        \/ s = sec /\ pc # "loop" /\ (pc = "returned" => ret < 0)
    BY DEF FInv, ContentOK, OutsideOK
  <2> QED BY <2>1 DEF FInv, FlashTypeOK
<1> QED BY <1>1, FInvariant, PTL

\* A sector that has been verified is never touched again by the same call
\* (spi_flash.c:1182-1295).
THEOREM DoneKept == Spec => []DoneSectorsKept
<1>1. FInv => DoneSectorsKept
  BY DEF FInv, ContentOK, DoneOK, DoneSectorsKept
<1> QED BY <1>1, FInvariant, PTL
=============================================================================
