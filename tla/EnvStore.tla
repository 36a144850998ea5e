------------------------------ MODULE EnvStore ------------------------------
(***************************************************************************)
(* The boot loader's environment: the copy in RAM that setenv changes      *)
(* (uboot/common/cmd_nvedit.c), its checksum, and the sector of SPI flash   *)
(* that saveenv rewrites and the next start reads (uboot/common/env_spi.c,  *)
(* env_common.c), with a power failure possible at every moment.            *)
(*                                                                          *)
(* An environment is a partial function from names to values.  A checksum   *)
(* is the environment it was computed of: CRC-32 is taken to be free of     *)
(* collisions.  The sector is the pages the environment takes; the rest of  *)
(* its 64 KB is copied along by saveenv and holds nothing.                  *)
(***************************************************************************)
EXTENDS Integers, FiniteSetsExt

CONSTANTS
  Names,       \* names of variables
  Values,      \* values of variables
  EntryLen,    \* EntryLen[v]: bytes that "name=v" and its '\0' take
  ENV_SIZE,    \* bytes there are for all entries and the closing '\0'
  DefaultEnv,  \* default_environment
  OnceNames,   \* ethaddr and serial#, which cannot be changed or deleted
  Unsupported, \* name and value pairs setenv refuses: baudrate, stdin, stdout, stderr
  EnvPages     \* flash pages the environment takes

Envs == UNION {[S -> Values] : S \in SUBSET Names}

ASSUME EnvAssumption ==
  /\ EntryLen \in [Values -> Nat]
  /\ ENV_SIZE \in Nat
  /\ DefaultEnv \in Envs
  /\ OnceNames \subseteq Names
  /\ Unsupported \subseteq Names \X Values
  /\ EnvPages \in Nat \ {0}

VARIABLES
  env,       \* env_ptr->data
  crc,       \* env_ptr->crc: the environment it was computed of
  flash,     \* flash[i]: {b} when page i is of block b, {} when it is no page of any
  pc,        \* "ready", a stage of saveenv ("erase", "write"), or "off"
  page,      \* the page raspi_write programs next
  complete,  \* raspi_write has counted every byte so far
  block,     \* the block saveenv is writing, or has written last
  before,    \* history: what a start would have read when that saveenv began
  saved,     \* history: that saveenv returned 0
  overflow,  \* history: an overflow has deleted a variable since the last checksum
  tainted    \* history: block was taken after such an overflow

ramVars == <<env, crc, overflow>>
saveVars == <<page, complete, block, before, saved, tainted>>
envVars == <<ramVars, flash, pc, saveVars>>

Pages == 1..EnvPages
Block(data, sum) == [data |-> data, crc |-> sum]

-----------------------------------------------------------------------------
(* setenv, in RAM.                                                          *)

Without(e, n) == [k \in DOMAIN e \ {n} |-> e[k]]
With(e, n, v) == [k \in DOMAIN e \union {n} |-> IF k = n THEN v ELSE e[k]]

Used(e) == MapThenSumSet(LAMBDA n : EntryLen[e[n]], DOMAIN e)

\* default_environment is a list in the program, and env_relocate has checked
\* that it fits.
ASSUME DefaultAssumption ==
  /\ IsFiniteSet(DOMAIN DefaultEnv)
  /\ Used(DefaultEnv) + 1 <= ENV_SIZE

\* Mutant: the closing '\0' is forgotten, and an overflow is overlooked by one.
Overflows_OffByOne(e, v) == Used(e) + EntryLen[v] > ENV_SIZE

\* "name=val" and the two closing '\0' do not fit behind the other entries.
Overflows(e, v) == Used(e) + EntryLen[v] + 1 > ENV_SIZE

\* What _do_setenv makes of the copy in RAM [env, crc, overflow].  The old
\* definition is gone before the room for the new one is looked at, and an
\* overflow returns without a new checksum.
Assign(ram, n, v) ==
  LET rest == Without(ram.env, n)
      new == With(rest, n, v)
  IN IF n \in DOMAIN ram.env /\ (n \in OnceNames \/ <<n, v>> \in Unsupported)
       THEN ram
     ELSE IF Overflows(rest, v)
       THEN [env |-> rest, crc |-> ram.crc,
             overflow |-> IF n \in DOMAIN ram.env THEN TRUE ELSE ram.overflow]
       ELSE [env |-> new, crc |-> new, overflow |-> FALSE]

Ram == [env |-> env, crc |-> crc, overflow |-> overflow]

SetRam(ram) == env' = ram.env /\ crc' = ram.crc /\ overflow' = ram.overflow

setenv(n, v) ==
  /\ pc = "ready"
  /\ SetRam(Assign(Ram, n, v))
  /\ UNCHANGED <<flash, pc, saveVars>>

\* Mutant: deleting a variable leaves the checksum as it is.
Delete_NoCrc(n) ==
  /\ env' = Without(env, n)
  /\ UNCHANGED <<crc, overflow>>

Delete(n) ==
  /\ env' = Without(env, n)
  /\ crc' = env'
  /\ overflow' = FALSE

\* setenv without a value deletes the variable, unless it is a write-once one
\* or one of the console's.
unsetenv(n) ==
  /\ pc = "ready"
  /\ n \in DOMAIN env => n \notin OnceNames /\ \A v \in Values : <<n, v>> \notin Unsupported
  /\ Delete(n)
  /\ UNCHANGED <<flash, pc, saveVars>>

-----------------------------------------------------------------------------
(* saveenv: erase the sector, then program it page by page.                 *)

\* Mutant: the checksum is not compared; an entry on a missing page is missed.
Stored_NoCrc(f) ==
  UNION {IF \A i \in Pages : f[i] = {b} THEN {b.data}
         ELSE {Without(b.data, n) : n \in DOMAIN b.data} : b \in f[1]}

\* The environment a start finds: all pages of one block, with its checksum.
Stored(f) == {b.data : b \in {c \in f[1] : c.crc = c.data /\ \A i \in Pages : f[i] = {c}}}

\* saveenv copies the environment to its buffer first.
BeginSave(ram) ==
  /\ block' = Block(ram.env, ram.crc)
  /\ before' = Stored(flash)
  /\ tainted' = ram.overflow
  /\ saved' = FALSE
  /\ pc' = "erase"
  /\ UNCHANGED <<page, complete>>

saveenv ==
  /\ pc = "ready"
  /\ BeginSave(Ram)
  /\ UNCHANGED <<ramVars, flash>>

Erase ==
  /\ pc = "erase"
  /\ flash' = [i \in Pages |-> {}]
  /\ page' = 1
  /\ complete' = TRUE
  /\ pc' = "write"
  /\ UNCHANGED <<ramVars, block, before, saved, tainted>>

\* The sector cannot be read, or the chip does not become ready: nothing is
\* erased, and saveenv returns 1.
EraseFails ==
  /\ pc = "erase"
  /\ pc' = "ready"
  /\ UNCHANGED <<ramVars, flash, saveVars>>

\* Mutant: the loop does not stop at the last page.
WritePage_NoBound ==
  /\ pc = "write"
  /\ flash' = [flash EXCEPT ![page] = {block}]
  /\ page' = page + 1
  /\ UNCHANGED <<ramVars, pc, complete, block, before, saved, tainted>>

WritePage ==
  /\ pc = "write"
  /\ page \in Pages
  /\ flash' = [flash EXCEPT ![page] = {block}]
  /\ page' = page + 1
  /\ UNCHANGED <<ramVars, pc, complete, block, before, saved, tainted>>

\* A page that fails is not counted, and the next one is programmed all the same.
WritePageFails ==
  /\ pc = "write"
  /\ page \in Pages
  /\ page' = page + 1
  /\ complete' = FALSE
  /\ UNCHANGED <<ramVars, flash, pc, block, before, saved, tainted>>

\* The chip is busy at the start, or programs a page in part: raspi_write ends,
\* and saveenv returns 1.
WriteStops ==
  /\ pc = "write"
  /\ page \in Pages
  /\ pc' = "ready"
  /\ UNCHANGED <<ramVars, flash, saveVars>>

WriteEnds ==
  /\ pc = "write"
  /\ page \notin Pages
  /\ saved' = complete
  /\ pc' = "ready"
  /\ UNCHANGED <<ramVars, flash, page, complete, block, before, tainted>>

-----------------------------------------------------------------------------
(* Power failures, resets and the next start.                               *)

\* What a page may hold when the power goes: in the middle of an erase it is
\* as it was or of no block, and so is the page being programmed.
PowerFail ==
  /\ pc # "off"
  /\ pc' = "off"
  /\ IF pc = "erase"
       THEN \E torn \in SUBSET Pages :
              flash' = [i \in Pages |-> IF i \in torn THEN {} ELSE flash[i]]
       ELSE UNCHANGED flash
  /\ UNCHANGED <<ramVars, saveVars>>

Load(e) ==
  /\ env' = e
  /\ crc' = e
  /\ overflow' = FALSE

\* spi_env_init and env_relocate: the environment in flash if its checksum is
\* right, the default one if it is not.
Boot ==
  /\ pc = "off"
  /\ pc' = "ready"
  /\ \/ \E e \in Stored(flash) : Load(e)
     \/ Stored(flash) = {} /\ Load(DefaultEnv)
  /\ UNCHANGED <<flash, saveVars>>

\* The result of spi_env_init is not looked at: when the sector cannot be read,
\* env_valid is still 0.
BootReadFails ==
  /\ pc = "off"
  /\ pc' = "ready"
  /\ Load(DefaultEnv)
  /\ UNCHANGED <<flash, saveVars>>

Init ==
  /\ env = DefaultEnv
  /\ crc = DefaultEnv
  /\ flash = [i \in Pages |-> {}]
  /\ pc = "ready"
  /\ page = 1
  /\ complete = FALSE
  /\ block = Block(DefaultEnv, DefaultEnv)
  /\ before = {}
  /\ saved = FALSE
  /\ overflow = FALSE
  /\ tainted = FALSE

SaveStep ==
  \/ Erase \/ EraseFails
  \/ WritePage \/ WritePageFails \/ WriteStops \/ WriteEnds

Next ==
  \/ \E n \in Names : unsetenv(n) \/ \E v \in Values : setenv(n, v)
  \/ saveenv
  \/ SaveStep
  \/ PowerFail
  \/ Boot \/ BootReadFails

Spec == Init /\ [][Next]_envVars

-----------------------------------------------------------------------------
Blocks == [data : Envs, crc : Envs]

\* The copy in RAM is always an environment that fits, the sector holds pages
\* of blocks, and saveenv is at one of its stages.
TypeOK ==
  /\ env \in Envs
  /\ crc \in Envs
  /\ flash \in [Pages -> SUBSET Blocks]
  /\ pc \in {"ready", "erase", "write", "off"}
  /\ page \in 1..(EnvPages + 1)
  /\ complete \in BOOLEAN
  /\ block \in Blocks
  /\ before \subseteq Envs
  /\ saved \in BOOLEAN
  /\ overflow \in BOOLEAN
  /\ tainted \in BOOLEAN

\* setenv never lets the entries and their closing '\0' grow over ENV_SIZE, in
\* RAM or in what a start reads back.
Fits == \A e \in {env} \union Stored(flash) : Used(e) + 1 <= ENV_SIZE

\* Whenever the power fails, a start finds the environment of the last saveenv,
\* or the one that was there before it, or none: never a mixture of two, and
\* never one of an earlier time.
NoMixture == Stored(flash) \subseteq {block.data} \union before

\* When saveenv has returned 0, the next start finds what it was given (unless
\* setenv had run out of room).
SavedIsFound == saved /\ ~tainted => Stored(flash) = {block.data}

\* "save environment variables to persistent storage" (cmd_nvedit.c:641): when
\* saveenv has returned 0, the next start finds what it was given.
SaveenvPersists == saved => Stored(flash) = {block.data}

-----------------------------------------------------------------------------
(* The inductive invariant behind NoMixture and SavedIsFound.               *)

\* A page of the sector is of the block being saved once the erase is over, and
\* of what was there before until then.
SectorOK ==
  /\ pc = "erase" => Stored(flash) = before /\ ~saved
  /\ pc = "write" => /\ \A i \in Pages : flash[i] \subseteq {block}
                     /\ \A i \in Pages : i >= page => flash[i] = {}
                     /\ complete => \A i \in Pages : i < page => flash[i] = {block}
                     /\ ~saved

\* The checksum is behind only after an overflow.
ChecksumOK ==
  /\ ~overflow => crc = env
  /\ ~tainted => block.crc = block.data

EnvInv == TypeOK /\ SectorOK /\ ChecksumOK /\ NoMixture /\ SavedIsFound
=============================================================================
