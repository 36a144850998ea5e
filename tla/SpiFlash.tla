------------------------------ MODULE SpiFlash ------------------------------
(***************************************************************************)
(* raspi_erase_write of uboot/drivers/spi_flash.c, by which the boot menu   *)
(* puts an image into SPI flash, with raspi_erase, raspi_write and          *)
(* raspi_read below it, chips that fail with and without saying so, and a   *)
(* power failure at any moment.  RALINK_SPI_UPGRADE_CHECK is on             *)
(* (uboot/config.mk:32): what was written is read back and compared.        *)
(*                                                                          *)
(* An address is a sector and a page in it.  The image is cut to pages by   *)
(* the addresses they are meant for, so that Img(s, i) is what has to be at *)
(* page i of sector s.  offs is <<sec, piece>>; instead of the bytes that   *)
(* are left, count, the model keeps where they end, <<esec, epiece>>.       *)
(***************************************************************************)
EXTENDS Integers

CONSTANTS
  NumSectors,   \* n_sectors
  SectorSize,   \* pages of a sector
  Reserved,     \* pages of boot loader, environment and factory settings
  Requests,     \* calls: records with dsec, dpiece, esec, epiece
  MaxFaults,    \* bound: erase and program commands that fail unnoticed
  MaxCalls      \* bound: calls

Sectors == 0..NumSectors - 1
Index == 0..SectorSize - 1

Count(r) == (r.esec - r.dsec) * SectorSize + r.epiece - r.dpiece
Limit == NumSectors * SectorSize - Reserved

\* Callers write to the start of the flash or to the end of the reserved part,
\* so that what passes the test of the size ends on the chip.
ASSUME FlashAssumption ==
  /\ NumSectors \in Nat \ {0} /\ SectorSize \in Nat \ {0} /\ Reserved \in Nat
  /\ MaxFaults \in Nat /\ MaxCalls \in Nat
  /\ \A r \in Requests :
       /\ r \in [dsec : Nat, dpiece : Index, esec : Nat, epiece : Index]
       /\ r.dsec < r.esec \/ (r.dsec = r.esec /\ r.dpiece <= r.epiece)
       /\ Count(r) <= Limit =>
            r.esec < NumSectors \/ (r.esec = NumSectors /\ r.epiece = 0)

VARIABLES
  flash,    \* what is on the chip
  pc,       \* "idle", "loop", "erase", "write", "verify", "returned" or "off"
  sec, piece,   \* offs
  req,      \* the call
  partial,  \* the sector at offs is not covered whole
  block,    \* the buffer for such a sector
  last,     \* the last sector being erased and written
  cur, page,    \* the sector and page that come next
  complete, \* raspi_write has counted every byte so far
  ret,      \* what raspi_erase_write returned
  orig,     \* history: the flash when it was called
  faults,   \* how many commands failed unnoticed
  calls     \* how many calls there were

workVars == <<sec, piece, req, partial, block, last, orig, calls>>
flashVars == <<flash, pc, workVars, cur, page, complete, ret, faults>>

Old(s, i) == <<"old", s, i>>
Img(s, i) == <<"img", s, i>>
Erased == <<"erased", 0, 0>>
Bad == <<"bad", 0, 0>>
Contents == ({"old", "img"} \X Sectors \X Index) \union {Erased, Bad}

\* <<s, i>> is before <<t, j>>.
Before(s, i, t, j) == s < t \/ (s = t /\ i < j)

InRange(s, i) ==
  /\ ~Before(s, i, req.dsec, req.dpiece)
  /\ Before(s, i, req.esec, req.epiece)

\* What page i of sector s has to be in the end.
Want(s, i) == IF InRange(s, i) THEN Img(s, i) ELSE orig[s][i]

-----------------------------------------------------------------------------
(* The chip.                                                                *)

\* Programming can only clear bits: what was not erased is spoilt.
Programmed(old, new) == IF old = Erased THEN new ELSE Bad

Silently == faults < MaxFaults /\ faults' = faults + 1

SetSector(s, content) == flash' = [flash EXCEPT ![s] = content]
SetPage(s, i, c) == flash' = [flash EXCEPT ![s] = [@ EXCEPT ![i] = c]]

-----------------------------------------------------------------------------
(* raspi_erase_write.                                                       *)

Return(code) == pc' = "returned" /\ ret' = code

Call(r) ==
  /\ pc \in {"idle", "returned"} /\ calls < MaxCalls
  /\ calls' = calls + 1
  /\ req' = r /\ orig' = flash
  /\ sec' = r.dsec /\ piece' = r.dpiece
  /\ IF Count(r) > Limit THEN Return(-1) ELSE pc' = "loop" /\ ret' = 1
  /\ UNCHANGED <<flash, partial, block, last, cur, page, complete, faults>>

More == Before(sec, piece, req.esec, req.epiece)

Done ==
  /\ pc = "loop" /\ ~More
  /\ Return(0)
  /\ UNCHANGED <<flash, workVars, cur, page, complete, faults>>

NoMemory ==
  /\ pc = "loop" /\ More
  /\ Return(-1)
  /\ UNCHANGED <<flash, workVars, cur, page, complete, faults>>

IsPartial == piece # 0 \/ sec = req.esec

\* Mutant: the old content is not read first.
Merged_NoRead(i) ==
  IF piece <= i /\ (sec = req.esec => i < req.epiece) THEN Img(sec, i) ELSE Erased

\* The sector at offs with its piece of the image in it.
Merged(i) ==
  IF piece <= i /\ (sec = req.esec => i < req.epiece) THEN Img(sec, i) ELSE flash[sec][i]

ReadPiece ==
  /\ pc = "loop" /\ More /\ IsPartial
  /\ partial' = TRUE
  /\ block' = [i \in Index |-> Merged(i)]
  /\ last' = sec
  /\ pc' = "erase" /\ cur' = sec
  /\ UNCHANGED <<flash, sec, piece, req, orig, calls, page, complete, ret, faults>>

ReadPieceFails ==
  /\ pc = "loop" /\ More /\ IsPartial
  /\ Return(-2)
  /\ UNCHANGED <<flash, workVars, cur, page, complete, faults>>

StartAligned ==
  /\ pc = "loop" /\ More /\ ~IsPartial
  /\ partial' = FALSE
  /\ last' = req.esec - 1
  /\ pc' = "erase" /\ cur' = sec
  /\ UNCHANGED <<flash, sec, piece, req, block, orig, calls, page, complete, ret, faults>>

Source(s, i) == IF partial THEN block[i] ELSE Img(s, i)

AfterErase ==
  IF cur = last
    THEN pc' = "write" /\ cur' = sec /\ page' = 0 /\ complete' = TRUE
    ELSE cur' = cur + 1 /\ UNCHANGED <<pc, page, complete>>

EraseSector ==
  /\ pc = "erase"
  /\ SetSector(cur, [i \in Index |-> Erased])
  /\ AfterErase
  /\ UNCHANGED <<workVars, ret, faults>>

\* The status of the chip after the erase is not looked at.
EraseUnnoticed ==
  /\ pc = "erase" /\ Silently
  /\ \E S \in SUBSET Index :
       SetSector(cur, [i \in Index |-> IF i \in S THEN Erased ELSE flash[cur][i]])
  /\ AfterErase
  /\ UNCHANGED <<workVars, ret>>

EraseFails ==
  /\ pc = "erase"
  /\ Return(IF partial THEN -3 ELSE -1)
  /\ UNCHANGED <<flash, workVars, cur, page, complete, faults>>

WriteError == Return(IF partial THEN -4 ELSE -1)

\* The next page; after the last one the count is compared.
AfterPage(counted) ==
  IF page < SectorSize - 1
    THEN page' = page + 1 /\ complete' = counted /\ UNCHANGED <<pc, cur, ret>>
  ELSE IF cur < last
    THEN page' = 0 /\ cur' = cur + 1 /\ complete' = counted /\ UNCHANGED <<pc, ret>>
  ELSE IF counted
    THEN pc' = "verify" /\ cur' = sec /\ UNCHANGED <<page, complete, ret>>
    ELSE WriteError /\ UNCHANGED <<cur, page, complete>>

WritePage ==
  /\ pc = "write"
  /\ SetPage(cur, page, Programmed(flash[cur][page], Source(cur, page)))
  /\ AfterPage(complete)
  /\ UNCHANGED <<workVars, faults>>

WriteUnnoticed ==
  /\ pc = "write" /\ Silently
  /\ \E c \in {flash[cur][page], Bad} : SetPage(cur, page, c)
  /\ AfterPage(complete)
  /\ UNCHANGED workVars

\* spic_write returns nothing for a page: raspi_write goes on without it.
WriteSkips ==
  /\ pc = "write"
  /\ AfterPage(FALSE)
  /\ UNCHANGED <<flash, workVars, faults>>

\* The chip is not ready, or spic_write returns less than the page.
WriteStops ==
  /\ pc = "write"
  /\ \E c \in {flash[cur][page], Bad} : SetPage(cur, page, c)
  /\ WriteError
  /\ UNCHANGED <<workVars, cur, page, complete, faults>>

\* Mutant: the comparison stops before the last sector.
Matches_OffByOne == cur = last \/ \A i \in Index : flash[cur][i] = Source(cur, i)

Matches == \A i \in Index : flash[cur][i] = Source(cur, i)

\* Mutant: offs is not carried into the next sector.
Advance_NoCarry ==
  IF partial THEN piece' = SectorSize /\ sec' = sec ELSE sec' = req.esec /\ piece' = 0

\* offs, after the piece or after all whole sectors.
Advance ==
  IF partial
    THEN IF sec = req.esec
           THEN piece' = req.epiece /\ sec' = sec
           ELSE piece' = 0 /\ sec' = sec + 1
    ELSE piece' = 0 /\ sec' = req.esec

Verify ==
  /\ pc = "verify"
  /\ IF ~Matches THEN Return(-2) /\ UNCHANGED <<sec, piece, cur>>
     ELSE IF cur < last THEN cur' = cur + 1 /\ UNCHANGED <<sec, piece, pc, ret>>
     ELSE Advance /\ pc' = "loop" /\ UNCHANGED <<cur, ret>>
  /\ UNCHANGED <<flash, req, partial, block, last, orig, calls, page, complete, faults>>

VerifyReadFails ==
  /\ pc = "verify"
  /\ Return(-2)
  /\ UNCHANGED <<flash, workVars, cur, page, complete, faults>>

\* Power fails: what was being erased or programmed is spoilt.
PowerFail ==
  /\ pc \notin {"off", "idle"}
  /\ CASE pc = "erase" ->
            \E S \in SUBSET Index :
              SetSector(cur, [i \in Index |-> IF i \in S THEN Bad ELSE flash[cur][i]])
       [] pc = "write" -> SetPage(cur, page, Bad)
       [] OTHER -> UNCHANGED flash
  /\ pc' = "off"
  /\ UNCHANGED <<workVars, cur, page, complete, ret, faults>>

PowerOn ==
  /\ pc = "off"
  /\ pc' = "idle"
  /\ UNCHANGED <<flash, workVars, cur, page, complete, ret, faults>>

-----------------------------------------------------------------------------
Init ==
  /\ flash = [s \in Sectors |-> [i \in Index |-> Old(s, i)]]
  /\ orig = flash
  /\ pc = "idle" /\ ret = 1
  /\ sec = 0 /\ piece = 0 /\ req = [dsec |-> 0, dpiece |-> 0, esec |-> 0, epiece |-> 0]
  /\ partial = FALSE /\ block = [i \in Index |-> Erased]
  /\ last = 0 /\ cur = 0 /\ page = 0 /\ complete = FALSE
  /\ faults = 0 /\ calls = 0

Erase == EraseSector \/ EraseUnnoticed \/ EraseFails
Write == WritePage \/ WriteUnnoticed \/ WriteSkips \/ WriteStops

Next ==
  \/ \E r \in Requests : Call(r)
  \/ Done \/ NoMemory \/ ReadPiece \/ ReadPieceFails \/ StartAligned
  \/ Erase \/ Write \/ Verify \/ VerifyReadFails
  \/ PowerFail \/ PowerOn

Spec == Init /\ [][Next]_flashVars

-----------------------------------------------------------------------------
(* Properties.                                                              *)

\* The variables have their types: offs stays within the chip's sectors while they are
\* rewritten, and the carry into the next sector is never forgotten
\* (spi_flash.c:1246-1248, 1291-1293).
FlashTypeOK ==
  /\ flash \in [Sectors -> [Index -> Contents]] /\ orig \in [Sectors -> [Index -> Contents]]
  /\ pc \in {"idle", "loop", "erase", "write", "verify", "returned", "off"}
  /\ sec \in Nat /\ piece \in Index
  /\ req \in [dsec : Nat, dpiece : Index, esec : Nat, epiece : Index]
  /\ partial \in BOOLEAN /\ complete \in BOOLEAN
  /\ block \in [Index -> Contents]
  /\ last \in Sectors /\ cur \in Sectors /\ page \in Index
  /\ ret \in -4..1
  /\ faults \in 0..MaxFaults /\ calls \in 0..MaxCalls

\* raspi_erase_write returns 0 ("Done!", spi_flash.c:1296) only when the flash holds the whole
\* image and everything else on the chip is as it was, the rest of the sectors
\* the image covers in part included, even when commands failed unnoticed.
SuccessMeansWritten ==
  pc = "returned" /\ ret = 0 =>
    \A s \in Sectors, i \in Index : flash[s][i] = Want(s, i)

\* Whatever fails, what is not part of the image is lost in one sector at most:
\* the one at offs, while it is being rewritten (spi_flash.c:1203-1248).
NeighboursKept ==
  pc # "idle" =>
    \A s \in Sectors, i \in Index :
      ~InRange(s, i) =>
        \/ flash[s][i] = orig[s][i]
        \/ s = sec /\ (pc \in {"erase", "write", "verify", "off"} \/ ret < 0)

\* Sectors before offs are done: they are never touched again, and keep what
\* they have to hold through all later failures (spi_flash.c:1186, 1246, 1291).
DoneSectorsKept ==
  pc # "idle" => \A s \in Sectors, i \in Index : s < sec => flash[s][i] = Want(s, i)
=============================================================================
