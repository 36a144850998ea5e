--------------------------- MODULE EnvStoreProofs ---------------------------
(***************************************************************************)
(* Proofs about EnvStore, for every set of names and values, every default  *)
(* environment and every number of pages: types, what a start finds in the  *)
(* flash, and the room the entries take.                                    *)
(***************************************************************************)
EXTENDS EnvStore, WellFoundedInduction, FiniteSetTheorems, TLAPS

-----------------------------------------------------------------------------
(* Environments and the copy in RAM.                                        *)

(* A partial function from names to values is an environment. *)
LEMMA EnvsDef ==
  ASSUME NEW e
  PROVE  e \in Envs <=> \E S \in SUBSET Names : e \in [S -> Values]
BY DEF Envs

(* Deleting a variable leaves an environment. *)
LEMMA WithoutTyped ==
  ASSUME NEW e \in Envs, NEW n \in Names
  PROVE  Without(e, n) \in Envs
<1>1. PICK S \in SUBSET Names : e \in [S -> Values]
  BY EnvsDef
<1>2. Without(e, n) \in [S \ {n} -> Values]
  BY <1>1 DEF Without
<1> QED BY <1>1, <1>2, EnvsDef

(* So does defining one. *)
LEMMA WithTyped ==
  ASSUME NEW e \in Envs, NEW n \in Names, NEW v \in Values
  PROVE  With(e, n, v) \in Envs
<1>1. PICK S \in SUBSET Names : e \in [S -> Values]
  BY EnvsDef
<1>2. With(e, n, v) \in [S \union {n} -> Values]
  BY <1>1 DEF With
<1>3. S \union {n} \in SUBSET Names
  BY <1>1
<1> QED BY <1>2, <1>3, EnvsDef

(* setenv leaves an environment and a checksum that is right, or behind      *)
(* because of an overflow.                                                   *)
LEMMA AssignOK ==
  ASSUME NEW e \in Envs, NEW c \in Envs, NEW o \in BOOLEAN, ~o => c = e,
         NEW n \in Names, NEW v \in Values,
         NEW r, r = Assign([env |-> e, crc |-> c, overflow |-> o], n, v)
  PROVE  /\ r.env \in Envs /\ r.crc \in Envs /\ r.overflow \in BOOLEAN
         /\ ~r.overflow => r.crc = r.env
<1> DEFINE rest == Without(e, n)
           new == With(rest, n, v)
<1>1. rest \in Envs /\ new \in Envs
  BY WithoutTyped, WithTyped
<1>2. n \notin DOMAIN e => rest = e
  <2>1. PICK S \in SUBSET Names : e \in [S -> Values]
    BY EnvsDef
  <2> QED BY <2>1 DEF Without
<1>3. CASE n \in DOMAIN e /\ (n \in OnceNames \/ <<n, v>> \in Unsupported)
  <2>1. r = [env |-> e, crc |-> c, overflow |-> o]
    BY <1>3 DEF Assign
  <2>2. r.env = e /\ r.crc = c
    BY <2>1
  <2>3. r.overflow = o
    BY <2>1
  <2> QED BY <2>2, <2>3, Zenon
<1>4. CASE /\ ~(n \in DOMAIN e /\ (n \in OnceNames \/ <<n, v>> \in Unsupported))
           /\ Overflows(rest, v)
  <2>1. r = [env |-> rest, crc |-> c,
             overflow |-> IF n \in DOMAIN e THEN TRUE ELSE o]
    BY <1>4 DEF Assign
  <2>2. r.env = rest /\ r.crc = c
    BY <2>1
  <2>3. CASE n \in DOMAIN e
    <3>1. r.overflow = TRUE
      BY <2>1, <2>3
    <3> QED BY <1>1, <2>2, <3>1
  <2>4. CASE n \notin DOMAIN e
    <3>1. r.overflow = o
      BY <2>1, <2>4
    <3>2. rest = e
      BY <1>2, <2>4
    <3> QED BY <2>2, <3>1, <3>2, Zenon
  <2> QED BY <2>3, <2>4
<1>5. CASE /\ ~(n \in DOMAIN e /\ (n \in OnceNames \/ <<n, v>> \in Unsupported))
           /\ ~Overflows(rest, v)
  <2>1. r = [env |-> new, crc |-> new, overflow |-> FALSE]
    BY <1>5 DEF Assign
  <2>2. r.env = new /\ r.crc = new
    BY <2>1
  <2>3. r.overflow = FALSE
    BY <2>1
  <2> QED BY <1>1, <2>2, <2>3
<1> QED BY <1>3, <1>4, <1>5

-----------------------------------------------------------------------------
(* The sector.                                                              *)

(* What a start finds depends on the pages alone. *)
LEMMA StoredDef ==
  ASSUME NEW f, NEW d
  PROVE  d \in Stored(f) <=>
           \E b \in f[1] : b.crc = b.data /\ b.data = d /\ \A i \in Pages : f[i] = {b}
BY DEF Stored

(* Pages that are lost do not bring an environment back. *)
LEMMA StoredShrinks ==
  ASSUME NEW f, NEW g, \A i \in Pages : g[i] = f[i] \/ g[i] = {}
  PROVE  Stored(g) \subseteq Stored(f)
<1>1. 1 \in Pages
  BY EnvAssumption DEF Pages
<1> SUFFICES ASSUME NEW d \in Stored(g) PROVE d \in Stored(f)
  OBVIOUS
<1>2. PICK b \in g[1] : b.crc = b.data /\ b.data = d /\ \A i \in Pages : g[i] = {b}
  BY StoredDef
<1>3. \A i \in Pages : f[i] = {b}
  BY <1>2
<1> QED BY <1>1, <1>2, <1>3, StoredDef

(* A sector with pages of one block only holds its environment or none. *)
LEMMA StoredOne ==
  ASSUME NEW f, NEW b, \A i \in Pages : f[i] \subseteq {b}
  PROVE  Stored(f) \subseteq {b.data}
<1>1. 1 \in Pages
  BY EnvAssumption DEF Pages
<1> QED BY <1>1, StoredDef

(* A sector with every page of a block with a right checksum holds it. *)
LEMMA StoredWhole ==
  ASSUME NEW f, NEW b, b.crc = b.data, \A i \in Pages : f[i] = {b}
  PROVE  Stored(f) = {b.data}
<1>1. 1 \in Pages
  BY EnvAssumption DEF Pages
<1> QED BY <1>1, StoredDef, StoredOne

(* What a start finds is an environment. *)
LEMMA StoredTyped ==
  ASSUME NEW f \in [Pages -> SUBSET Blocks]
  PROVE  Stored(f) \subseteq Envs
<1>1. 1 \in Pages
  BY EnvAssumption DEF Pages
<1> QED BY <1>1, StoredDef DEF Blocks

-----------------------------------------------------------------------------
(* The inductive invariant.                                                 *)

(* The program starts in it. *)
LEMMA EnvInitially == Init => EnvInv
<1> SUFFICES ASSUME Init PROVE EnvInv
  OBVIOUS
<1> USE EnvAssumption DEF Init
<1>1. TypeOK
  <2>1. block \in Blocks
    BY DEF Blocks, Block
  <2>2. flash \in [Pages -> SUBSET Blocks]
    OBVIOUS
  <2>3. page \in 1..(EnvPages + 1)
    OBVIOUS
  <2> QED BY <2>1, <2>2, <2>3 DEF TypeOK
<1>2. Stored(flash) \subseteq {block.data}
  BY StoredOne
<1>3. ChecksumOK
  BY DEF ChecksumOK, Block
<1> QED BY <1>1, <1>2, <1>3 DEF EnvInv, SectorOK, NoMixture, SavedIsFound

(* The parts about the sector and the save in progress do not depend on the  *)
(* copy in RAM.                                                              *)
LEMMA RamStep ==
  ASSUME EnvInv, UNCHANGED <<flash, pc, saveVars>>,
         env' \in Envs, crc' \in Envs, overflow' \in BOOLEAN,
         ~overflow' => crc' = env'
  PROVE  EnvInv'
<1> USE DEF saveVars
<1>1. TypeOK'
  BY DEF EnvInv, TypeOK
<1>2. SectorOK'
  BY DEF EnvInv, SectorOK
<1>3. ChecksumOK'
  BY DEF EnvInv, ChecksumOK
<1>4. NoMixture' /\ SavedIsFound'
  BY DEF EnvInv, NoMixture, SavedIsFound
<1> QED BY <1>1, <1>2, <1>3, <1>4 DEF EnvInv

(* setenv keeps the invariant. *)
LEMMA setenvStep ==
  ASSUME EnvInv, NEW n \in Names, NEW v \in Values, setenv(n, v)
  PROVE  EnvInv'
<1> DEFINE r == Assign(Ram, n, v)
<1>1. /\ r.env \in Envs /\ r.crc \in Envs /\ r.overflow \in BOOLEAN
      /\ ~r.overflow => r.crc = r.env
  BY AssignOK DEF EnvInv, TypeOK, ChecksumOK, Ram
<1>2. env' = r.env /\ crc' = r.crc /\ overflow' = r.overflow
  BY DEF setenv, SetRam
<1>3. UNCHANGED <<flash, pc, saveVars>>
  BY DEF setenv
<1> HIDE DEF r
<1>4. env' \in Envs /\ crc' \in Envs /\ overflow' \in BOOLEAN
  BY <1>1, <1>2
<1>5. ~overflow' => crc' = env'
  BY <1>1, <1>2, Zenon
<1> QED BY <1>3, <1>4, <1>5, RamStep

(* So does setenv without a value. *)
LEMMA unsetenvStep ==
  ASSUME EnvInv, NEW n \in Names, unsetenv(n)
  PROVE  EnvInv'
<1>1. env' \in Envs /\ crc' = env' /\ overflow' = FALSE
  BY WithoutTyped DEF unsetenv, Delete, EnvInv, TypeOK
<1>2. UNCHANGED <<flash, pc, saveVars>>
  BY DEF unsetenv
<1> QED BY <1>1, <1>2, RamStep

(* A start, from flash or from the default environment, keeps it. *)
LEMMA BootStep ==
  ASSUME EnvInv, Boot \/ BootReadFails
  PROVE  EnvInv'
<1>1. env' \in Envs /\ crc' = env' /\ overflow' = FALSE
  BY StoredTyped, EnvAssumption DEF Boot, BootReadFails, Load, EnvInv, TypeOK
<1>2. pc' = "ready" /\ UNCHANGED <<flash, saveVars>>
  BY DEF Boot, BootReadFails
<1> USE DEF saveVars
<1>3. TypeOK'
  BY <1>1, <1>2 DEF EnvInv, TypeOK
<1>4. SectorOK'
  BY <1>2 DEF SectorOK
<1>5. ChecksumOK'
  BY <1>1, <1>2 DEF EnvInv, ChecksumOK
<1>6. NoMixture' /\ SavedIsFound'
  BY <1>2 DEF EnvInv, NoMixture, SavedIsFound
<1> QED BY <1>3, <1>4, <1>5, <1>6 DEF EnvInv

(* saveenv takes the copy in RAM, and has touched nothing yet. *)
LEMMA saveenvStep ==
  ASSUME EnvInv, saveenv
  PROVE  EnvInv'
<1> USE DEF saveenv, BeginSave, Ram, Block, ramVars
<1>1. Stored(flash) \subseteq Envs
  BY StoredTyped DEF EnvInv, TypeOK
<1>2. block' \in Blocks /\ block'.data = env /\ block'.crc = crc
  BY DEF EnvInv, TypeOK, Blocks
<1>3. TypeOK'
  BY <1>1, <1>2 DEF EnvInv, TypeOK
<1>4. SectorOK'
  BY DEF SectorOK
<1>5. ChecksumOK'
  BY <1>2 DEF EnvInv, ChecksumOK
<1>6. NoMixture' /\ SavedIsFound'
  BY DEF NoMixture, SavedIsFound
<1> QED BY <1>3, <1>4, <1>5, <1>6 DEF EnvInv

(* What the stages of saveenv leave alone. *)
LEMMA SaveKeeps ==
  ASSUME EnvInv, UNCHANGED <<ramVars, block, before, tainted>>,
         flash' \in [Pages -> SUBSET Blocks],
         pc' \in {"ready", "erase", "write", "off"},
         page' \in 1..(EnvPages + 1),
         complete' \in BOOLEAN, saved' \in BOOLEAN
  PROVE  TypeOK' /\ ChecksumOK'
<1> USE DEF ramVars, EnvInv
<1>1. TypeOK'
  BY DEF TypeOK
<1>2. ChecksumOK'
  BY DEF ChecksumOK
<1> QED BY <1>1, <1>2

(* The erase leaves no page of any block. *)
LEMMA EraseStep ==
  ASSUME EnvInv, Erase
  PROVE  EnvInv'
<1> USE DEF Erase
<1>1. TypeOK' /\ ChecksumOK'
  <2>1. flash' \in [Pages -> SUBSET Blocks] /\ page' \in 1..(EnvPages + 1)
    BY EnvAssumption
  <2>2. complete' \in BOOLEAN /\ saved' \in BOOLEAN
    BY DEF EnvInv, TypeOK
  <2>3. pc' = "write" /\ UNCHANGED <<ramVars, block, before, tainted>>
    OBVIOUS
  <2> QED BY <2>1, <2>2, <2>3, SaveKeeps
<1>2. ~saved'
  BY DEF EnvInv, SectorOK
<1>3. \A i \in Pages : flash'[i] = {}
  OBVIOUS
<1>4. SectorOK'
  BY <1>2, <1>3 DEF SectorOK, Pages
<1>5. NoMixture'
  BY <1>3, StoredOne DEF NoMixture
<1> QED BY <1>1, <1>2, <1>4, <1>5 DEF EnvInv, SavedIsFound

(* An erase or a page that fails and ends saveenv leaves the sector alone. *)
LEMMA FailStep ==
  ASSUME EnvInv, EraseFails \/ WriteStops
  PROVE  EnvInv'
<1> USE DEF EraseFails, WriteStops, saveVars
<1>1. TypeOK' /\ ChecksumOK'
  BY SaveKeeps DEF EnvInv, TypeOK
<1>2. SectorOK'
  BY DEF SectorOK
<1>3. NoMixture' /\ SavedIsFound'
  BY DEF EnvInv, NoMixture, SavedIsFound
<1> QED BY <1>1, <1>2, <1>3 DEF EnvInv

(* A page is programmed behind the others. *)
LEMMA WritePageStep ==
  ASSUME EnvInv, WritePage
  PROVE  EnvInv'
<1> USE DEF WritePage
<1>1. TypeOK' /\ ChecksumOK'
  <2>1. flash' \in [Pages -> SUBSET Blocks] /\ page' \in 1..(EnvPages + 1)
    BY EnvAssumption DEF EnvInv, TypeOK, Pages
  <2>2. complete' \in BOOLEAN /\ saved' \in BOOLEAN
    BY DEF EnvInv, TypeOK
  <2>3. pc' = "write" /\ UNCHANGED <<ramVars, block, before, tainted>>
    OBVIOUS
  <2> QED BY <2>1, <2>2, <2>3, SaveKeeps
<1>2. ~saved'
  BY DEF EnvInv, SectorOK
<1>3. \A i \in Pages : flash'[i] = IF i = page THEN {block} ELSE flash[i]
  BY DEF EnvInv, TypeOK
<1>4. page \in Nat /\ Pages \subseteq Nat
  BY EnvAssumption DEF Pages
<1>5. \A i \in Pages : flash'[i] \subseteq {block'}
  BY <1>3 DEF EnvInv, SectorOK
<1>6. \A i \in Pages : i >= page' => flash'[i] = {}
  BY <1>3, <1>4 DEF EnvInv, SectorOK
<1>7. complete' => \A i \in Pages : i < page' => flash'[i] = {block'}
  BY <1>3, <1>4 DEF EnvInv, SectorOK
<1>8. SectorOK'
  BY <1>2, <1>5, <1>6, <1>7 DEF SectorOK
<1>9. NoMixture'
  BY <1>5, StoredOne DEF NoMixture
<1> QED BY <1>1, <1>2, <1>8, <1>9 DEF EnvInv, SavedIsFound

(* A page is skipped, and the count will not match. *)
LEMMA WritePageFailsStep ==
  ASSUME EnvInv, WritePageFails
  PROVE  EnvInv'
<1> USE DEF WritePageFails
<1>1. TypeOK' /\ ChecksumOK'
  <2>1. page' \in 1..(EnvPages + 1)
    BY EnvAssumption DEF Pages
  <2>2. complete' = FALSE /\ saved' \in BOOLEAN /\ flash' \in [Pages -> SUBSET Blocks]
    BY DEF EnvInv, TypeOK
  <2>3. pc' = "write" /\ UNCHANGED <<ramVars, block, before, tainted>>
    OBVIOUS
  <2> QED BY <2>1, <2>2, <2>3, SaveKeeps
<1>2. SectorOK'
  <2>1. page \in Nat /\ Pages \subseteq Nat
    BY EnvAssumption DEF Pages
  <2> QED BY <2>1 DEF EnvInv, SectorOK
<1>3. NoMixture' /\ SavedIsFound'
  BY DEF EnvInv, NoMixture, SavedIsFound
<1> QED BY <1>1, <1>2, <1>3 DEF EnvInv

(* When every byte was counted, every page is of the block. *)
LEMMA WriteEndsStep ==
  ASSUME EnvInv, WriteEnds
  PROVE  EnvInv'
<1> USE DEF WriteEnds
<1>1. TypeOK' /\ ChecksumOK'
  <2>1. complete' \in BOOLEAN /\ saved' \in BOOLEAN
    BY DEF EnvInv, TypeOK
  <2>2. flash' \in [Pages -> SUBSET Blocks] /\ page' \in 1..(EnvPages + 1)
    BY DEF EnvInv, TypeOK
  <2>3. pc' = "ready" /\ UNCHANGED <<ramVars, block, before, tainted>>
    OBVIOUS
  <2> QED BY <2>1, <2>2, <2>3, SaveKeeps
<1>2. SectorOK'
  BY DEF SectorOK
<1>3. NoMixture'
  BY DEF EnvInv, NoMixture
<1>4. SavedIsFound'
  <2> SUFFICES ASSUME saved', ~tainted' PROVE Stored(flash') = {block'.data}
    BY DEF SavedIsFound
  <2>1. complete /\ ~tainted
    OBVIOUS
  <2>2. page = EnvPages + 1
    BY EnvAssumption DEF EnvInv, TypeOK, Pages
  <2>3. \A i \in Pages : flash[i] = {block}
    BY <2>1, <2>2, EnvAssumption DEF EnvInv, SectorOK, Pages
  <2>4. block.crc = block.data
    BY <2>1 DEF EnvInv, ChecksumOK
  <2>5. Stored(flash) = {block.data}
    BY <2>3, <2>4, StoredWhole
  <2> QED BY <2>5
<1> QED BY <1>1, <1>2, <1>3, <1>4 DEF EnvInv

(* A power failure in the middle of an erase can only lose the old           *)
(* environment; at every other moment it leaves the sector as it is.         *)
LEMMA PowerFailStep ==
  ASSUME EnvInv, PowerFail
  PROVE  EnvInv'
<1> USE DEF PowerFail, saveVars
<1>1. flash' \in [Pages -> SUBSET Blocks]
  BY DEF EnvInv, TypeOK
<1>2. TypeOK' /\ ChecksumOK'
  BY <1>1, SaveKeeps DEF EnvInv, TypeOK
<1>3. SectorOK'
  BY DEF SectorOK
<1>4. CASE pc = "erase"
  <2>1. \A i \in Pages : flash'[i] = flash[i] \/ flash'[i] = {}
    BY <1>4
  <2>2. Stored(flash') \subseteq before /\ ~saved
    BY <1>4, <2>1, StoredShrinks DEF EnvInv, SectorOK
  <2>3. NoMixture' /\ SavedIsFound'
    BY <2>2 DEF NoMixture, SavedIsFound
  <2> QED BY <1>2, <1>3, <2>3 DEF EnvInv
<1>5. CASE pc # "erase"
  <2>1. NoMixture' /\ SavedIsFound'
    BY <1>5 DEF EnvInv, NoMixture, SavedIsFound
  <2> QED BY <1>2, <1>3, <2>1 DEF EnvInv
<1> QED BY <1>4, <1>5

(* Every step keeps the invariant. *)
LEMMA EnvInductive == EnvInv /\ [Next]_envVars => EnvInv'
<1> SUFFICES ASSUME EnvInv, [Next]_envVars PROVE EnvInv'
  OBVIOUS
<1>1. CASE Next
  BY <1>1, setenvStep, unsetenvStep, saveenvStep, EraseStep, FailStep, WritePageStep,
     WritePageFailsStep, WriteEndsStep, PowerFailStep, BootStep DEF Next, SaveStep
<1>2. CASE UNCHANGED envVars
  <2>1. /\ UNCHANGED <<flash, pc, saveVars>>
        /\ UNCHANGED <<env, crc, overflow>>
    BY <1>2 DEF envVars, ramVars
  <2>2. env' \in Envs /\ crc' \in Envs /\ overflow' \in BOOLEAN
    BY <2>1 DEF EnvInv, TypeOK
  <2>3. ~overflow' => crc' = env'
    BY <2>1 DEF EnvInv, ChecksumOK
  <2> QED BY <2>1, <2>2, <2>3, RamStep
<1> QED BY <1>1, <1>2

(* It holds throughout. *)
LEMMA EnvInvariant == Spec => []EnvInv
BY EnvInitially, EnvInductive, PTL DEF Spec

-----------------------------------------------------------------------------
(* The copy in RAM is always an environment, and saveenv is at one of its    *)
(* stages with a page of the sector to go to (cmd_nvedit.c, env_spi.c).      *)
THEOREM EnvTypeCorrect == Spec => []TypeOK
<1>1. EnvInv => TypeOK
  BY DEF EnvInv
<1> QED BY <1>1, EnvInvariant, PTL

(* Whenever the power fails, in saveenv or elsewhere, a start finds the      *)
(* environment of the last saveenv, the one before it, or none, and never a  *)
(* mixture: for any number of pages, names and values.                       *)
THEOREM NeverAMixture == Spec => []NoMixture
<1>1. EnvInv => NoMixture
  BY DEF EnvInv
<1> QED BY <1>1, EnvInvariant, PTL

(* When saveenv has returned 0, and setenv had not run out of room, the next *)
(* start finds what it was given, however many saves, failures and starts    *)
(* came before it.                                                           *)
THEOREM SaveFound == Spec => []SavedIsFound
<1>1. EnvInv => SavedIsFound
  BY DEF EnvInv
<1> QED BY <1>1, EnvInvariant, PTL

-----------------------------------------------------------------------------
(* The room the entries take.  Used folds over the names of an environment,  *)
(* in the order CHOOSE gives; that the order does not matter, and so what    *)
(* setenv does to the sum, takes an induction over the sets of names.        *)

(* The least number principle, for sets of numbers. *)
LEMMA LeastNatural ==
  ASSUME NEW T \in SUBSET Nat, T # {}
  PROVE  \E x \in T : \A y \in T : x <= y
<1>1. PICK x \in T : \A y \in T : ~(<<y, x>> \in OpToRel(<, Nat))
  BY WFMin, NatLessThanWellFounded, Zenon
<1>2. \A y \in T : ~(y < x)
  BY <1>1 DEF OpToRel
<1> QED BY <1>2

(* Induction on the size of the subsets of a finite set: a set of subsets     *)
(* that has a member whenever it has all the smaller ones has them all.       *)
LEMMA SubsetInduction ==
  ASSUME NEW D, IsFiniteSet(D), NEW G,
         \A s \in SUBSET D :
           (\A t \in SUBSET D : Cardinality(t) < Cardinality(s) => t \in G) => s \in G
  PROVE  SUBSET D \subseteq G
<1> SUFFICES ASSUME NEW u \in SUBSET D, u \notin G PROVE FALSE
  OBVIOUS
<1> DEFINE T == {n \in Nat : \E s \in SUBSET D : s \notin G /\ Cardinality(s) = n}
<1>1. \A s \in SUBSET D : Cardinality(s) \in Nat
  BY FS_Subset, FS_CardinalityType
<1>2. T \in SUBSET Nat /\ Cardinality(u) \in T
  BY <1>1
<1>3. PICK n \in T : \A m \in T : n <= m
  BY <1>2, LeastNatural
<1>4. PICK s \in SUBSET D : s \notin G /\ Cardinality(s) = n
  BY <1>3
<1>5. PICK t \in SUBSET D : Cardinality(t) < Cardinality(s) /\ t \notin G
  BY <1>4
<1>6. Cardinality(t) \in T
  BY <1>1, <1>5
<1> QED BY <1>1, <1>3, <1>4, <1>5, <1>6

(* The element that a sum over s takes off first.                             *)
Pick(s) == CHOOSE x \in s : TRUE

LEMMA PickIn == ASSUME NEW s, s # {} PROVE Pick(s) \in s
BY DEF Pick

LEMMA Smaller ==
  ASSUME NEW D, IsFiniteSet(D), NEW s \in SUBSET D, NEW x \in s
  PROVE  s \ {x} \in SUBSET D /\ Cardinality(s \ {x}) < Cardinality(s)
<1>1. IsFiniteSet(s)
  BY FS_Subset
<1>2. Cardinality(s) \in Nat /\ Cardinality(s \ {x}) = Cardinality(s) - 1
  BY <1>1, FS_RemoveElement, FS_CardinalityType
<1> QED BY <1>2

(* The function Used sums the entries of an environment up with. *)
Entry(e, f, s) == IF s = {} THEN 0 ELSE EntryLen[e[Pick(s)]] + f[s \ {Pick(s)}]
Sums(f, e) == f = [s \in SUBSET DOMAIN e |-> Entry(e, f, s)]

LEMMA UsedDef ==
  ASSUME NEW e
  PROVE  Used(e) = (CHOOSE f : Sums(f, e))[DOMAIN e]
BY DEF Used, MapThenSumSet, MapThenFoldSet, Sums, Entry, Pick

(* It exists: the sums of the sets of up to n entries lead to those of n + 1. *)
LEMMA SumsExist ==
  ASSUME NEW e, IsFiniteSet(DOMAIN e)
  PROVE  \E f : Sums(f, e)
<1> DEFINE D == DOMAIN e
           UpTo(f, n) == \A s \in SUBSET D : Cardinality(s) <= n => f[s] = Entry(e, f, s)
           T == {n \in Nat : ~\E f : UpTo(f, n)}
<1>1. \A s \in SUBSET D : Cardinality(s) \in Nat
  BY FS_Subset, FS_CardinalityType
<1>2. T = {}
  <2> SUFFICES ASSUME T # {} PROVE FALSE
    OBVIOUS
  <2>1. PICK n \in T : \A m \in T : n <= m
    BY LeastNatural
  <2>2. n \in Nat /\ ~\E f : UpTo(f, n)
    BY <2>1
  <2> HIDE DEF UpTo
  <2>3. CASE n = 0
    <3> DEFINE f == [s \in SUBSET D |-> 0]
    <3>1. ASSUME NEW s \in SUBSET D, Cardinality(s) <= 0
          PROVE  f[s] = Entry(e, f, s)
      <4>1. s = {}
        BY <1>1, <3>1, FS_Subset, FS_EmptySet
      <4> QED BY <4>1 DEF Entry
    <3>2. UpTo(f, 0)
      BY <3>1 DEF UpTo
    <3> HIDE DEF f
    <3> QED BY <2>2, <2>3, <3>2
  <2>4. CASE n # 0
    <3>1. n - 1 \in Nat /\ n - 1 \notin T
      BY <2>1, <2>2, <2>4
    <3>2. PICK f : UpTo(f, n - 1)
      BY <3>1
    <3> DEFINE g == [s \in SUBSET D |-> Entry(e, f, s)]
    <3>3. ASSUME NEW s \in SUBSET D, Cardinality(s) <= n
          PROVE  g[s] = Entry(e, g, s)
      <4>1. CASE s = {}
        BY <4>1 DEF Entry
      <4>2. CASE s # {}
        <5> DEFINE t == s \ {Pick(s)}
        <5>1. t \in SUBSET D /\ Cardinality(t) < Cardinality(s)
          BY <4>2, PickIn, Smaller
        <5>2. Cardinality(t) <= n - 1
          BY <1>1, <2>2, <3>3, <5>1
        <5>3. f[t] = g[t]
          BY <3>2, <5>1, <5>2 DEF UpTo
        <5>4. g[s] = Entry(e, f, s)
          OBVIOUS
        <5> HIDE DEF g
        <5> QED BY <4>2, <5>3, <5>4 DEF Entry
      <4> QED BY <4>1, <4>2
    <3>4. UpTo(g, n)
      BY <3>3 DEF UpTo
    <3> HIDE DEF g
    <3> QED BY <2>2, <3>4
  <2> QED BY <2>3, <2>4
<1>3. Cardinality(D) \in Nat
  BY <1>1
<1>4. PICK f : UpTo(f, Cardinality(D))
  BY <1>2, <1>3
<1> DEFINE g == [s \in SUBSET D |-> f[s]]
<1>5. ASSUME NEW s \in SUBSET D
      PROVE  g[s] = Entry(e, g, s)
  <2>1. Cardinality(s) <= Cardinality(D)
    BY FS_Subset
  <2>2. f[s] = Entry(e, f, s)
    BY <1>4, <2>1
  <2>3. s # {} => g[s \ {Pick(s)}] = f[s \ {Pick(s)}]
    OBVIOUS
  <2>4. g[s] = f[s]
    OBVIOUS
  <2> HIDE DEF g
  <2> QED BY <2>2, <2>3, <2>4 DEF Entry
<1>6. g = [s \in SUBSET D |-> Entry(e, g, s)]
  <2>1. g = [s \in SUBSET D |-> g[s]]
    OBVIOUS
  <2> HIDE DEF g
  <2> QED BY <1>5, <2>1
<1> HIDE DEF g
<1> QED BY <1>6 DEF Sums

LEMMA UsedSums ==
  ASSUME NEW e, IsFiniteSet(DOMAIN e)
  PROVE  \E f : Sums(f, e) /\ Used(e) = f[DOMAIN e]
<1>1. Sums((CHOOSE f : Sums(f, e)), e)
  BY SumsExist
<1> QED BY <1>1, UsedDef

(* The sums are natural numbers. *)
LEMMA SumsTyped ==
  ASSUME NEW e, IsFiniteSet(DOMAIN e), NEW f, Sums(f, e),
         \A n \in DOMAIN e : EntryLen[e[n]] \in Nat
  PROVE  \A s \in SUBSET DOMAIN e : f[s] \in Nat
<1> DEFINE D == DOMAIN e
           G == {s \in SUBSET D : f[s] \in Nat}
<1>1. ASSUME NEW s \in SUBSET D, \A t \in SUBSET D : Cardinality(t) < Cardinality(s) => t \in G
      PROVE  s \in G
  <2>1. f[s] = Entry(e, f, s)
    BY DEF Sums
  <2>2. CASE s = {}
    BY <2>1, <2>2 DEF Entry
  <2>3. CASE s # {}
    <3>1. Pick(s) \in s
      BY <2>3, PickIn
    <3>2. s \ {Pick(s)} \in G
      BY <1>1, <3>1, Smaller
    <3> QED BY <2>1, <2>3, <3>1, <3>2 DEF Entry
  <2> QED BY <2>2, <2>3
<1> HIDE DEF G
<1>2. SUBSET D \subseteq G
  BY <1>1, SubsetInduction
<1> QED BY <1>2 DEF G

(* The order in which the entries are summed up does not matter. *)
LEMMA SumsAnyOrder ==
  ASSUME NEW e, IsFiniteSet(DOMAIN e), NEW f, Sums(f, e),
         \A n \in DOMAIN e : EntryLen[e[n]] \in Nat
  PROVE  \A s \in SUBSET DOMAIN e : \A n \in s : f[s] = EntryLen[e[n]] + f[s \ {n}]
<1> DEFINE D == DOMAIN e
           G == {s \in SUBSET D : \A n \in s : f[s] = EntryLen[e[n]] + f[s \ {n}]}
<1>1. ASSUME NEW s \in SUBSET D, \A t \in SUBSET D : Cardinality(t) < Cardinality(s) => t \in G
      PROVE  s \in G
  <2> SUFFICES ASSUME NEW n \in s PROVE f[s] = EntryLen[e[n]] + f[s \ {n}]
    OBVIOUS
  <2> DEFINE p == Pick(s)
  <2>1. p \in s
    BY PickIn
  <2>2. f[s] = EntryLen[e[p]] + f[s \ {p}]
    BY DEF Sums, Entry
  <2>3. CASE n = p
    BY <2>2, <2>3
  <2>4. CASE n # p
    <3> HIDE DEF p
    <3> DEFINE both == (s \ {p}) \ {n}
    <3>1. s \ {p} \in G /\ s \ {n} \in G
      BY <1>1, <2>1, Smaller
    <3>2. f[s \ {p}] = EntryLen[e[n]] + f[(s \ {p}) \ {n}]
      BY <2>4, <3>1
    <3>3. f[s \ {n}] = EntryLen[e[p]] + f[(s \ {n}) \ {p}]
      BY <2>1, <2>4, <3>1
    <3>4. (s \ {n}) \ {p} = both /\ both \in SUBSET D
      OBVIOUS
    <3>5. f[both] \in Nat /\ EntryLen[e[n]] \in Nat /\ EntryLen[e[p]] \in Nat
      BY <2>1, <3>4, SumsTyped
    <3>6. f[s \ {p}] = EntryLen[e[n]] + f[both] /\ f[s \ {n}] = EntryLen[e[p]] + f[both]
      BY <3>2, <3>3, <3>4
    <3> HIDE DEF both
    <3> QED BY <2>2, <3>5, <3>6
  <2> QED BY <2>3, <2>4
<1> HIDE DEF G
<1>2. SUBSET D \subseteq G
  BY <1>1, SubsetInduction
<1> QED BY <1>2 DEF G

(* Environments that agree on some entries have the same sums of them. *)
LEMMA SumsAgree ==
  ASSUME NEW e, NEW d, NEW f, NEW g, Sums(f, e), Sums(g, d),
         NEW D, IsFiniteSet(D), D \subseteq DOMAIN e, D \subseteq DOMAIN d,
         \A n \in D : e[n] = d[n]
  PROVE  f[D] = g[D]
<1> DEFINE G == {s \in SUBSET D : f[s] = g[s]}
<1>1. ASSUME NEW s \in SUBSET D, \A t \in SUBSET D : Cardinality(t) < Cardinality(s) => t \in G
      PROVE  s \in G
  <2>1. f[s] = Entry(e, f, s) /\ g[s] = Entry(d, g, s)
    BY DEF Sums
  <2>2. CASE s = {}
    BY <2>1, <2>2 DEF Entry
  <2>3. CASE s # {}
    <3>1. Pick(s) \in s
      BY <2>3, PickIn
    <3>2. s \ {Pick(s)} \in G
      BY <1>1, <3>1, Smaller
    <3> QED BY <2>1, <2>3, <3>1, <3>2 DEF Entry
  <2> QED BY <2>2, <2>3
<1> HIDE DEF G
<1>2. SUBSET D \subseteq G
  BY <1>1, SubsetInduction
<1> QED BY <1>2 DEF G

(* What Used computes: an entry takes the room of its own, wherever it is. *)
LEMMA UsedWithout ==
  ASSUME NEW e \in Envs, IsFiniteSet(DOMAIN e), NEW n \in DOMAIN e
  PROVE  /\ Used(e) = EntryLen[e[n]] + Used(Without(e, n))
         /\ IsFiniteSet(DOMAIN Without(e, n))
         /\ Used(Without(e, n)) \in Nat /\ EntryLen[e[n]] \in Nat
<1> DEFINE d == Without(e, n)
<1>1. \A k \in DOMAIN e : EntryLen[e[k]] \in Nat
  <2>1. PICK S \in SUBSET Names : e \in [S -> Values]
    BY DEF Envs
  <2> QED BY <2>1, EnvAssumption
<1>2. DOMAIN d = DOMAIN e \ {n} /\ \A k \in DOMAIN d : d[k] = e[k]
  BY DEF Without
<1>3. IsFiniteSet(DOMAIN d)
  BY <1>2, FS_Subset
<1> HIDE DEF d
<1>4. PICK f : Sums(f, e) /\ Used(e) = f[DOMAIN e]
  BY UsedSums
<1>5. PICK g : Sums(g, d) /\ Used(d) = g[DOMAIN d]
  BY <1>3, UsedSums
<1>6. f[DOMAIN e] = EntryLen[e[n]] + f[DOMAIN e \ {n}]
  BY <1>1, <1>4, SumsAnyOrder
<1>7. f[DOMAIN d] = g[DOMAIN d]
  BY <1>2, <1>3, <1>4, <1>5, SumsAgree
<1>8. f[DOMAIN d] \in Nat
  BY <1>1, <1>2, <1>4, SumsTyped
<1>9. Used(e) = EntryLen[e[n]] + Used(d) /\ Used(d) \in Nat
  BY <1>2, <1>4, <1>5, <1>6, <1>7, <1>8
<1> QED BY <1>1, <1>3, <1>9 DEF d

(* An environment that setenv has not made too long. *)
FitsIn(e) == IsFiniteSet(DOMAIN e) /\ Used(e) + 1 <= ENV_SIZE

(* Deleting a variable makes room. *)
LEMMA WithoutFits ==
  ASSUME NEW e \in Envs, FitsIn(e), NEW n
  PROVE  FitsIn(Without(e, n))
<1>1. CASE n \in DOMAIN e
  <2>1. /\ Used(e) = EntryLen[e[n]] + Used(Without(e, n))
        /\ IsFiniteSet(DOMAIN Without(e, n))
        /\ Used(Without(e, n)) \in Nat /\ EntryLen[e[n]] \in Nat
    BY <1>1, UsedWithout DEF FitsIn
  <2> QED BY <2>1, EnvAssumption DEF FitsIn
<1>2. CASE n \notin DOMAIN e
  <2>1. PICK S \in SUBSET Names : e \in [S -> Values]
    BY EnvsDef
  <2>2. Without(e, n) = e
    BY <1>2, <2>1 DEF Without
  <2> QED BY <2>2
<1> QED BY <1>1, <1>2

(* Whatever setenv does, what it leaves fits: it looks at the room after the  *)
(* old definition is gone and before the new one is there.                    *)
LEMMA AssignFits ==
  ASSUME NEW e \in Envs, FitsIn(e), NEW c, NEW o, NEW n \in Names, NEW v \in Values,
         NEW r, r = Assign([env |-> e, crc |-> c, overflow |-> o], n, v)
  PROVE  FitsIn(r.env)
<1> DEFINE rest == Without(e, n)
           new == With(rest, n, v)
<1>1. rest \in Envs /\ FitsIn(rest) /\ new \in Envs
  BY WithoutFits, WithoutTyped, WithTyped
<1>2. DOMAIN rest = DOMAIN e \ {n} /\ rest = [k \in DOMAIN rest |-> rest[k]]
  BY DEF Without
<1>3. DOMAIN new = DOMAIN rest \union {n} /\ new[n] = v /\ \A k \in DOMAIN rest : k # n => new[k] = rest[k]
  BY DEF With
<1>4. r.env \in {e, rest} \/ (r.env = new /\ ~Overflows(rest, v))
  BY DEF Assign
<1> HIDE DEF rest, new
<1>5. ASSUME ~Overflows(rest, v) PROVE FitsIn(new)
  <2>1. IsFiniteSet(DOMAIN new)
    BY <1>1, <1>3, FS_AddElement DEF FitsIn
  <2>2. Without(new, n) = rest
    BY <1>2, <1>3 DEF Without
  <2>3. Used(new) = EntryLen[v] + Used(rest) /\ Used(rest) \in Nat /\ EntryLen[v] \in Nat
    BY <1>1, <1>3, <2>1, <2>2, UsedWithout
  <2>4. ~(Used(rest) + EntryLen[v] + 1 > ENV_SIZE)
    BY <1>5 DEF Overflows
  <2> QED BY <2>1, <2>3, <2>4, EnvAssumption DEF FitsIn
<1> QED BY <1>1, <1>4, <1>5

(* The copy in RAM fits, and so does whatever may be in flash.                *)
RoomInv == FitsIn(env) /\ FitsIn(block.data) /\ \A e \in before : FitsIn(e)

LEMMA RoomMeansFits ==
  ASSUME NoMixture, RoomInv
  PROVE  \A e \in Stored(flash) : FitsIn(e)
BY DEF NoMixture, RoomInv

LEMMA RoomInductive == EnvInv /\ RoomInv /\ [Next]_envVars => RoomInv'
<1> SUFFICES ASSUME EnvInv, RoomInv, [Next]_envVars PROVE RoomInv'
  OBVIOUS
<1>1. FitsIn(DefaultEnv)
  BY DefaultAssumption DEF FitsIn
<1>2. \A e \in Stored(flash) : FitsIn(e)
  BY RoomMeansFits DEF EnvInv
<1>3. ASSUME NEW n \in Names, NEW v \in Values, setenv(n, v)
      PROVE  RoomInv'
  <2> DEFINE r == Assign(Ram, n, v)
  <2>1. env' = r.env /\ UNCHANGED saveVars
    BY <1>3 DEF setenv, SetRam
  <2>2. FitsIn(r.env)
    BY AssignFits DEF RoomInv, EnvInv, TypeOK, Ram
  <2> HIDE DEF r
  <2> QED BY <2>1, <2>2 DEF RoomInv, saveVars
<1>4. ASSUME NEW n \in Names, unsetenv(n)
      PROVE  RoomInv'
  <2>1. env' = Without(env, n) /\ UNCHANGED saveVars
    BY <1>4 DEF unsetenv, Delete
  <2>2. FitsIn(Without(env, n))
    BY WithoutFits DEF RoomInv, EnvInv, TypeOK
  <2> QED BY <2>1, <2>2 DEF RoomInv, saveVars
<1>5. CASE saveenv
  <2>1. block' = [data |-> env, crc |-> crc] /\ before' = Stored(flash) /\ env' = env
    BY <1>5 DEF saveenv, BeginSave, Ram, Block, ramVars
  <2> QED BY <1>2, <2>1 DEF RoomInv
<1>6. CASE Boot \/ BootReadFails
  <2>1. (env' = DefaultEnv \/ env' \in Stored(flash)) /\ UNCHANGED saveVars
    BY <1>6 DEF Boot, BootReadFails, Load
  <2> QED BY <1>1, <1>2, <2>1 DEF RoomInv, saveVars
<1>7. CASE SaveStep \/ PowerFail \/ UNCHANGED envVars
  <2>1. UNCHANGED <<env, block, before>>
    BY <1>7 DEF SaveStep, Erase, EraseFails, WritePage, WritePageFails, WriteStops, WriteEnds,
                PowerFail, envVars, ramVars, saveVars
  <2> QED BY <2>1 DEF RoomInv
<1> QED BY <1>3, <1>4, <1>5, <1>6, <1>7 DEF Next

(* setenv never lets the entries and their closing '\0' grow over ENV_SIZE   *)
(* (_do_setenv, cmd_nvedit.c), in RAM or in what a start reads back: for any  *)
(* number of variables, lengths of their entries and order of the calls.      *)
THEOREM AlwaysFits == Spec => []Fits
<1>1. Init => RoomInv
  BY DefaultAssumption DEF Init, RoomInv, FitsIn, Block
<1>2. EnvInv /\ RoomInv => Fits
  <2> SUFFICES ASSUME EnvInv, RoomInv, NEW e \in {env} \union Stored(flash)
               PROVE  Used(e) + 1 <= ENV_SIZE
    BY DEF Fits
  <2> QED BY RoomMeansFits DEF RoomInv, FitsIn, EnvInv
<1> QED BY <1>1, <1>2, EnvInitially, EnvInductive, RoomInductive, PTL DEF Spec
=============================================================================
