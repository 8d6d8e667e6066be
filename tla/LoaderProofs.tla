---------------------------- MODULE LoaderProofs ----------------------------
(***************************************************************************)
(* The library gets into the right game and sets itself up once, for any   *)
(* processors, programs, patches and threads.                              *)
(*                                                                         *)
(* The inductive invariant says what each stage of the start has decided   *)
(* (StageInv, RunInv), that a pool is missing, once the tables have been   *)
(* cleared, only while a thread has yet to fill it (HeapsInv), and that    *)
(* with one thread until the hook is out nothing is patched before the     *)
(* heaps are there and nobody gets in after the slot was restored          *)
(* (OnceInv).  Two more rest on it: which bytes are patched (PatchedInv),  *)
(* and how the pages are protected meanwhile (PagesInv).                   *)
(***************************************************************************)
EXTENDS Loader, NaturalsInduction, WellFoundedInduction, TLAPS

Forms  == {"R", "RX", "RWX"}
Places == {"before", "out", "crashed", "init_m", "fill_m", "init_d", "protect", "write", "restore"}

Present    == binary \in start.installed
ToBeHooked == Present /\ IsGame /\ exe.laa

StageInv ==
  /\ stage = "load" => binary = "none" /\ ~told
  /\ stage = "attach" => Present /\ ~told
  /\ stage # "load" => binary = get_min_iset(start.cpu)
  /\ stage # "run" =>
       /\ iat = SlotTable(exe) /\ old_qpc = "none" /\ applied = 0
       /\ \A t \in Threads : pc[t] = "before"

RunInv ==
  stage = "run" =>
    /\ told <=> ~Present \/ (IsGame /\ ~exe.laa) \/ (~IsGame /\ ~IsGeck)
    /\ ToBeHooked => old_qpc = Qpc /\ (Hooked \/ applied > 0)
    /\ ~ToBeHooked => ~Hooked /\ applied = 0 /\ \A t \in Threads : pc[t] \in {"before", "out"}

PlaceInv(t) ==
  /\ pc[t] \in Places
  /\ pc[t] \in {"init_d", "protect", "write", "restore"} => at[t] \in 1 .. Len(Patches) + 1
  /\ pc[t] = "fill_m" => at[t] \in AllPools
  /\ pc[t] \in {"fill_m", "init_d", "protect", "write", "restore"} => applied > 0
  /\ pc[t] \in {"write", "restore"} => saved[t] \in Forms

IsPatched == \E a \in DOMAIN code : code[a] # Untouched

\* A pool that is missing is ahead of some thread that fills the tables; a
\* thread that patches, and a patched byte, find the default heap.
HeapsInv ==
  /\ applied > 0 => \A i \in AllPools \ pools :
                      \E u \in Threads : pc[u] = "fill_m" /\ at[u] <= i
  /\ \A t \in Threads : pc[t] \in {"protect", "write", "restore"} => dheap
  /\ IsPatched => dheap /\ applied > 0

\* The main thread goes through the hook alone; the others find it gone.
OnceInv ==
  OneEarly =>
    /\ \A t \in Threads \ {Main} : pc[t] \in {"before", "out"}
    /\ pc[Main] \in {"before", "init_m"} => applied = 0
    /\ pc[Main] \in {"before", "init_m", "fill_m", "init_d"} => ~IsPatched
    /\ pc[Main] = "before" => \A t \in Threads : pc[t] = "before"
    /\ pc[Main] = "out" \/ (pc[Main] = "restore" /\ IsSlot(at[Main])) => ~Hooked
    /\ applied <= 1

Typed ==
  /\ DOMAIN iat = DOMAIN SlotTable(exe) /\ DOMAIN code = Around(Patches)
  /\ pc \in [Threads -> Places]
  /\ at \in [Threads -> Nat] /\ saved \in [Threads -> {"none"} \cup Forms]

IInv == TypeOK /\ Typed /\ StageInv /\ RunInv /\ HeapsInv /\ OnceInv /\ \A t \in Threads : PlaceInv(t)

\* Patch n is where it belongs.
InPlace(n) ==
  \A a \in Extent(Patches[n]) : code[a] = Bytes(Patches[n])[a - Patches[n].addr + 1]

\* Where a thread has some patches behind it.
Patching == {"init_d", "protect", "write", "restore"}

\* Only bytes of patches are written; those a thread has behind it are there,
\* and when nobody is in the hook any more they all are.
PatchedInv ==
  /\ \A a \in DOMAIN code : code[a] # Untouched => \E n \in DOMAIN Patches : a \in Extent(Patches[n])
  /\ \A t \in Threads, n \in DOMAIN Patches :
       pc[t] \in Patching /\ (n < at[t] \/ (n = at[t] /\ pc[t] = "restore")) => InPlace(n)
  /\ applied > 0 /\ InHook = {} /\ Alive => \A n \in DOMAIN Patches : InPlace(n)

\* The pages as they are while patch n is written.
Opened(n) == [g \in DOMAIN OriginalProt |-> IF g \in Touched(n) THEN "RWX" ELSE OriginalProt[g]]

\* The one thread in the hook has the pages of one patch open and knows what
\* they were.
PagesInv ==
  OneEarly =>
    IF pc[Main] \in {"write", "restore"}
    THEN /\ prot = Opened(at[Main])
         /\ \A g \in Touched(at[Main]) : OriginalProt[g] = saved[Main]
    ELSE pc[Main] # "crashed" /\ prot = OriginalProt

-----------------------------------------------------------------------------
(* The processor *)

\* Of some numbers one is the least.
LEMMA LeastExists ==
  ASSUME NEW S \in SUBSET Nat, S # {}
  PROVE  \E x \in S : \A y \in S : x <= y
<1> DEFINE R == OpToRel(<, Nat)
<1>1. PICK x \in S : \A y \in S : <<y, x>> \notin R
  BY NatLessThanWellFounded, WFMin, Zenon
<1>2. \A y \in S : ~(y < x)
  BY <1>1 DEF OpToRel
<1> QED
  BY <1>2

\* The tests of get_min_iset, one by one.
LEMMA TestsAre ==
  /\ DOMAIN Tests = 1 .. 5
  /\ Tests[1].iset = "AVX512" /\ Tests[1].bit = "avx512f"
  /\ Tests[2].iset = "AVX2" /\ Tests[2].bit = "avx2"
  /\ Tests[3].iset = "AVX" /\ Tests[3].bit = "avx"
  /\ Tests[4].iset = "SSE2" /\ Tests[4].bit = "sse2"
  /\ Tests[5].iset = "SSE" /\ Tests[5].bit = "sse"
  BY DEF Tests

\* A leaf reports nothing that is not there.
LEMMA ReportedIsThere ==
  ASSUME NEW cpu, NEW leaf
  PROVE  Reported(cpu, leaf) \subseteq cpu.features
  BY DEF Reported, Cpuid

\* What get_min_iset chooses is a binary; the processor has the feature that
\* was tested for it, and all it needs if it has instruction sets only whole.
LEMMA ChosenIsThere ==
  ASSUME NEW cpu
  PROVE  LET chosen == get_min_iset(cpu) IN
         /\ chosen \in DOMAIN Needs
         /\ \A i \in DOMAIN Tests : Tests[i].iset = chosen => Tests[i].bit \in cpu.features
         /\ Whole(cpu.features) => Needs[chosen] \subseteq cpu.features
<1> DEFINE positive == {i \in DOMAIN Tests : Tests[i].bit \in Reported(cpu, Tests[i].leaf)}
           best == CHOOSE i \in positive : \A j \in positive : i <= j
<1>1. CASE positive = {}
  <2>1. get_min_iset(cpu) = "IA32"
    BY <1>1 DEF get_min_iset
  <2> QED
    BY <2>1, TestsAre DEF Needs
<1>2. CASE positive # {}
  <2>1. \E i \in positive : \A j \in positive : i <= j
    <3>1. positive \subseteq 1 .. 5
      BY TestsAre
    <3> HIDE DEF positive
    <3> QED
      BY <3>1, <1>2, LeastExists
  <2>2. best \in positive
    BY <2>1
  <2>3. get_min_iset(cpu) = Tests[best].iset
    BY <1>2 DEF get_min_iset
  <2>4. best \in DOMAIN Tests /\ Tests[best].bit \in cpu.features
    BY <2>2, ReportedIsThere
  <2> HIDE DEF best
  <2>5. \A i \in DOMAIN Tests : Tests[i].iset = Tests[best].iset => i = best
    BY <2>4, TestsAre
  <2>6. Tests[best].iset \in DOMAIN Needs
    BY <2>4, TestsAre DEF Needs
  <2>7. Whole(cpu.features) => Needs[Tests[best].iset] \subseteq cpu.features
    BY <2>4 DEF Whole
  <2> QED
    BY <2>3, <2>4, <2>5, <2>6, <2>7
<1> QED
  BY <1>1, <1>2

-----------------------------------------------------------------------------
(* The slot of the import table *)

\* Least picks the least.
LEMMA LeastIs ==
  ASSUME NEW S \in SUBSET Nat, S # {}
  PROVE  Least(S) \in S /\ \A y \in S : Least(S) <= y
  BY LeastExists DEF Least

\* A start is as the assumption says.
LEMMA StartFacts ==
  ASSUME NEW s \in Starts
  PROVE  StartOK(s)
  BY LoaderAssumption

\* The imports of an executable.
Imports == Seq([dll : STRING, thunk : Nat, names : Seq(STRING)])

\* An element of a sequence is one of its set.
LEMMA ElementIsTyped ==
  ASSUME NEW S, NEW q \in Seq(S), NEW i \in DOMAIN q
  PROVE  q[i] \in S /\ i \in Nat /\ i >= 1
  OBVIOUS

\* What get_import_address returns, if anything, is a slot of the function.
LEMMA ImportIsFound ==
  ASSUME NEW imports \in Imports, NEW dll, NEW func,
         GetImportAddress(imports, dll, func) # NoSlot
  PROVE  \E n \in DOMAIN imports : \E j \in DOMAIN imports[n].names :
           /\ GetImportAddress(imports, dll, func) = SlotAt(imports[n], j)
           /\ imports[n].names[j] = func
<1> DEFINE has(n) == \E j \in DOMAIN imports[n].names : imports[n].names[j] = func
           ends   == {n \in DOMAIN imports :
                        imports[n].dll = dll /\ (imports[n].thunk = NoSlot \/ has(n))}
           n == Least(ends)
           js == {j \in DOMAIN imports[n].names : imports[n].names[j] = func}
<1>1. /\ ends # {} /\ imports[n].thunk # NoSlot
      /\ GetImportAddress(imports, dll, func) = SlotIn(imports[n], func)
  BY DEF GetImportAddress
<1>2. ends \subseteq DOMAIN imports /\ ends \subseteq Nat
  BY ElementIsTyped DEF Imports
<1>3. n \in ends
  <2> HIDE DEF ends
  <2> QED
    BY <1>1, <1>2, LeastIs
<1>4. n \in DOMAIN imports /\ has(n)
  BY <1>1, <1>3
<1> HIDE DEF n
<1>5. imports[n] \in [dll : STRING, thunk : Nat, names : Seq(STRING)]
  BY <1>4, ElementIsTyped DEF Imports
<1>6. js # {} /\ js \subseteq Nat
  <2>1. imports[n].names \in Seq(STRING)
    BY <1>5
  <2> QED
    BY <1>4, <2>1, ElementIsTyped
<1>7. Least(js) \in js
  BY <1>6, LeastIs
<1> QED
  BY <1>1, <1>4, <1>7 DEF SlotIn, n

\* The slot that create_loader_hook finds is one of the table, and the system
\* put QueryPerformanceCounter there.
LEMMA SlotFacts ==
  ASSUME start \in Starts, QpcSlot # NoSlot
  PROVE  QpcSlot \in DOMAIN SlotTable(exe) /\ SlotTable(exe)[QpcSlot] = Qpc /\ QpcSlot \in Nat
<1> DEFINE imports == exe.imports
<1>1. StartOK(start)
  BY StartFacts
<1>2. imports \in Imports
  BY <1>1 DEF StartOK, exe, Imports
<1> HIDE DEF imports
<1>3. PICK n \in DOMAIN imports : \E j \in DOMAIN imports[n].names :
        QpcSlot = SlotAt(imports[n], j) /\ imports[n].names[j] = Qpc
  BY <1>2, ImportIsFound DEF QpcSlot, imports
<1>4. PICK j \in DOMAIN imports[n].names :
        QpcSlot = SlotAt(imports[n], j) /\ imports[n].names[j] = Qpc
  BY <1>3
<1>5. <<n, j>> \in SlotsOf(exe) /\ Place(exe, <<n, j>>) = QpcSlot
  BY <1>4 DEF SlotsOf, Place, imports
<1>6. \A slot \in SlotsOf(exe) : Place(exe, slot) = QpcSlot => slot = <<n, j>>
  BY <1>1, <1>5 DEF StartOK, exe
<1>7. QpcSlot \in DOMAIN SlotTable(exe)
  BY <1>5 DEF SlotTable
<1>8. SlotTable(exe)[QpcSlot] = Qpc
  <2>1. (CHOOSE slot \in SlotsOf(exe) : Place(exe, slot) = QpcSlot) = <<n, j>>
    BY <1>5, <1>6
  <2> QED
    BY <1>4, <1>5, <2>1 DEF SlotTable, imports
<1>9. QpcSlot \in Nat
  <2>1. imports[n] \in [dll : STRING, thunk : Nat, names : Seq(STRING)]
    BY <1>2, ElementIsTyped DEF Imports
  <2>2. imports[n].thunk \in Nat /\ imports[n].names \in Seq(STRING)
    BY <2>1
  <2>3. j \in Nat /\ j >= 1
    BY <2>2, ElementIsTyped
  <2> QED
    BY <1>4, <2>2, <2>3 DEF SlotAt
<1> QED
  BY <1>7, <1>8, <1>9

\* Without a slot the game is not recognised: its mask has bits.
LEMMA GameHasSlot ==
  ASSUME start \in Starts, IsGame
  PROVE  QpcSlot # NoSlot
<1>1. start.build \in {"FNV", "FO3"}
  BY StartFacts DEF StartOK, Table
<1>2. GameMask[start.build] \in {\hF0A0, \hB0E4}
  BY <1>1 DEF GameMask
<1>3. (GameMask[start.build] \div 2 ^ 15) % 2 = 1
  <2>1. 2 ^ 15 = 32768
    BY SMT
  <2> QED
    BY <1>2, <2>1, SMT
<1>4. (QpcSlot \div 2 ^ 15) % 2 = 1
  BY <1>3 DEF IsGame, Matches
<1>5. (0 \div 2 ^ 15) % 2 = 0
  BY SMT
<1> QED
  BY <1>4, <1>5 DEF NoSlot

-----------------------------------------------------------------------------
(* Pages and bytes *)

\* Pages are in the order of addresses.
LEMMA PagesInOrder ==
  ASSUME NEW a \in Nat, NEW b \in Nat, a <= b
  PROVE  a \div PageSize \in Nat /\ a \div PageSize <= b \div PageSize
<1> DEFINE q == a \div PageSize
           r == b \div PageSize
<1>1. PageSize \in Nat \ {0}
  BY LoaderAssumption
<1>2. q \in Int /\ r \in Int /\ q * PageSize <= a /\ b < (r + 1) * PageSize /\ a < (q + 1) * PageSize
  BY <1>1, SMT
<1> HIDE DEF q, r
<1>3. q * PageSize < (r + 1) * PageSize /\ 0 < (q + 1) * PageSize
  BY <1>1, <1>2
<1>4. q < r + 1 /\ 0 < q + 1
  BY <1>1, <1>2, <1>3, SMT
<1> QED
  BY <1>2, <1>4 DEF q, r

\* VirtualProtect reports the protection of the first page.
LEMMA FirstPage ==
  ASSUME NEW a \in Nat, NEW b \in Nat, a <= b
  PROVE  Least(PagesOf(a .. b)) = a \div PageSize
<1> DEFINE S == PagesOf(a .. b)
<1>1. a \div PageSize \in S /\ a \div PageSize \in Nat
  BY PagesInOrder DEF PagesOf
<1>2. \A g \in S : g \in Nat /\ a \div PageSize <= g
  BY PagesInOrder DEF PagesOf
<1>3. Least(S) \in S /\ Least(S) <= a \div PageSize
  BY <1>1, <1>2, LeastIs
<1> QED
  BY <1>1, <1>2, <1>3

\* A patch of the start.
LEMMA PatchFacts ==
  ASSUME start \in Starts, NEW n \in 1 .. Len(Patches) + 1, ~IsSlot(n)
  PROVE  LET p == Patches[n] IN
         /\ n \in DOMAIN Patches /\ p.addr \in Nat
         /\ Bytes(p) \in Seq(0 .. 255) /\ Len(Bytes(p)) \in Nat \ {0}
<1>1. StartOK(start) /\ Len(Patches) \in Nat
  BY StartFacts DEF StartOK, Patches
<1>2. n \in DOMAIN Patches
  BY <1>1 DEF StartOK, Patches, IsSlot
<1>3. Patches[n].addr \in Nat /\ Bytes(Patches[n]) \in Seq(0 .. 255) \ {<<>>}
  BY <1>1, <1>2 DEF StartOK, Patches
<1> QED
  BY <1>2, <1>3

\* The first page of what a patch touches is one of the game's.
LEMMA TouchedFirst ==
  ASSUME start \in Starts, NEW n \in 1 .. Len(Patches) + 1, IsSlot(n) => QpcSlot # NoSlot
  PROVE  Least(Touched(n)) \in PagesOf(DOMAIN SlotTable(exe) \cup Around(Patches))
<1>1. CASE IsSlot(n)
  <2>1. QpcSlot \in Nat /\ QpcSlot \in DOMAIN SlotTable(exe)
    BY <1>1, SlotFacts
  <2>2. Least(Touched(n)) = QpcSlot \div PageSize
    BY <1>1, <2>1, FirstPage DEF Touched
  <2> QED
    BY <2>1, <2>2 DEF PagesOf
<1>2. CASE ~IsSlot(n)
  <2> DEFINE p == Patches[n]
  <2>1. n \in DOMAIN Patches /\ p.addr \in Nat /\ Len(Bytes(p)) \in Nat \ {0}
    BY <1>2, PatchFacts
  <2>2. Least(Touched(n)) = p.addr \div PageSize
    BY <1>2, <2>1, FirstPage DEF Touched, Extent
  <2>3. p.addr \in Around(Patches)
    BY <2>1 DEF Around
  <2> QED
    BY <2>2, <2>3 DEF PagesOf
<1> QED
  BY <1>1, <1>2

\* Patched memory has the same places, and bytes in them.
LEMMA PatchedFacts ==
  ASSUME NEW p, p.addr \in Nat, Bytes(p) \in Seq(0 .. 255),
         NEW memory, \A a \in DOMAIN memory : memory[a] \in {Untouched} \cup 0 .. 255
  PROVE  /\ DOMAIN Patched(memory, p) = DOMAIN memory
         /\ \A a \in DOMAIN memory : Patched(memory, p)[a] \in {Untouched} \cup 0 .. 255
<1>1. ASSUME NEW a \in Extent(p)
      PROVE  Bytes(p)[a - p.addr + 1] \in 0 .. 255
  <2> DEFINE q == Bytes(p)
  <2>1. a \in p.addr .. p.addr + Len(q) - 1 /\ q \in Seq(0 .. 255)
    BY DEF Extent
  <2> HIDE DEF q
  <2>2. a - p.addr + 1 \in 1 .. Len(q)
    BY <2>1
  <2>3. a - p.addr + 1 \in DOMAIN q
    BY <2>1, <2>2
  <2> QED
    BY <2>1, <2>3, ElementIsTyped DEF q
<1> QED
  BY <1>1 DEF Patched

-----------------------------------------------------------------------------
(* The steps *)

\* What does not change what it speaks of keeps an invariant of the start.
LEMMA StartKept ==
  ASSUME start' = start
  PROVE  /\ exe' = exe /\ Patches' = Patches /\ QpcSlot' = QpcSlot
         /\ IsGame' = IsGame /\ IsGeck' = IsGeck /\ OneEarly' = OneEarly
         /\ \A n : IsSlot(n)' = IsSlot(n) /\ Touched(n)' = Touched(n)
  BY DEF exe, Patches, QpcSlot, IsGame, IsGeck, OneEarly, IsSlot, Touched

\* A start begins with nothing decided.
LEMMA InitIInv == Init => IInv
<1> SUFFICES ASSUME Init PROVE IInv
  OBVIOUS
<1>1. StartOK(start) /\ start \in Starts
  BY StartFacts DEF Init
<1>2. pc = [t \in Threads |-> "before"] /\ stage = "load" /\ iat = SlotTable(exe)
  BY DEF Init
<1>3. TypeOK
  <2>1. /\ \A a \in DOMAIN code : code[a] \in {Untouched} \cup 0 .. 255
        /\ \A g \in DOMAIN prot : prot[g] \in {"R", "RX", "RWX"}
    BY DEF Init, OriginalProt
  <2>2. \A t \in Threads : (t \in InHook) <=> pc[t] \notin {"before", "out", "crashed"}
    BY <1>2 DEF InHook
  <2> QED
    BY <1>2, <2>1, <2>2 DEF Init, TypeOK
<1>4. Typed
  BY DEF Init, Typed, Places
<1>5. StageInv /\ RunInv
  BY DEF Init, StageInv, RunInv
<1>6. HeapsInv /\ ~IsPatched
  BY DEF Init, HeapsInv, IsPatched
<1>7. OnceInv
  <2>1. Main \in Threads
    BY <1>1 DEF StartOK
  <2> QED
    BY <1>6, <2>1 DEF Init, OnceInv
<1>8. \A t \in Threads : PlaceInv(t)
  BY DEF Init, PlaceInv, Places
<1> QED
  BY <1>3, <1>4, <1>5, <1>6, <1>7, <1>8 DEF IInv

\* The DllMains leave the game and the threads alone.
LEMMA LoadKeeps ==
  ASSUME IInv, UNCHANGED <<start, gameVars>>, stage # "run",
         stage' \in {"attach", "run"}, told' \in BOOLEAN,
         binary' = get_min_iset(start.cpu),
         DOMAIN iat' = DOMAIN iat,
         \A a \in DOMAIN iat : iat'[a] \in {SlotTable(exe)[a], "qpc_hook"},
         old_qpc' \in {"none", Qpc},
         StageInv', RunInv'
  PROVE  IInv'
<1>1. StartOK(start) /\ start \in Starts
  BY StartFacts DEF IInv, TypeOK
<1>2. /\ UNCHANGED <<start, code, prot, pools, dheap, applied, pc, at, saved>>
      /\ exe' = exe /\ Patches' = Patches /\ OneEarly' = OneEarly
  BY StartKept DEF gameVars
<1>3. \A t \in Threads : pc[t] = "before"
  BY DEF IInv, StageInv
<1>4. TypeOK'
  <2>1. binary' \in DOMAIN Needs
    BY ChosenIsThere
  <2>2. DOMAIN prot' = DOMAIN OriginalProt' /\ \A g \in DOMAIN prot : prot[g] \in {"R", "RX", "RWX"}
    BY <1>2 DEF IInv, TypeOK, OriginalProt
  <2>3. InHook' = InHook
    BY <1>2 DEF InHook
  <2> QED
    BY <1>1, <1>2, <2>1, <2>2, <2>3 DEF IInv, TypeOK
<1>5. Typed'
  BY <1>2 DEF IInv, Typed
<1>6. HeapsInv' /\ IsPatched' = IsPatched
  BY <1>2 DEF IInv, HeapsInv, IsPatched
<1>7. OnceInv'
  BY <1>1, <1>2, <1>3, <1>6 DEF IInv, OnceInv, StartOK
<1>8. ASSUME NEW t \in Threads PROVE PlaceInv(t)'
  BY <1>2 DEF IInv, PlaceInv
<1> QED
  BY <1>4, <1>5, <1>6, <1>7, <1>8 DEF IInv

\* DllMain of the forwarding library: nothing is hooked yet.
LEMMA LoadBinaryKeeps ==
  ASSUME IInv, LoadBinary PROVE IInv'
<1>1. /\ stage = "load" /\ binary' = get_min_iset(start.cpu)
      /\ stage' = (IF binary' \in start.installed THEN "attach" ELSE "run")
      /\ told' = (binary' \notin start.installed)
      /\ UNCHANGED <<start, old_qpc, iat, gameVars>>
  BY DEF LoadBinary
<1>2. start' = start /\ iat' = iat /\ old_qpc' = old_qpc /\ applied' = applied /\ pc' = pc
  BY <1>1 DEF gameVars
<1>3. exe' = exe /\ QpcSlot' = QpcSlot /\ IsGame' = IsGame /\ IsGeck' = IsGeck
  BY <1>2, StartKept
<1>4. iat = SlotTable(exe) /\ old_qpc = "none" /\ applied = 0 /\ \A t \in Threads : pc[t] = "before"
  BY <1>1 DEF IInv, StageInv
<1>5. ~Hooked
  BY <1>4, SlotFacts DEF Hooked, Qpc, IInv, TypeOK
<1>6. StageInv'
  BY <1>1, <1>2, <1>3, <1>4 DEF StageInv, Present
<1>7. stage' = "run" => told' /\ ~Present'
  BY <1>1, <1>2 DEF Present
<1>8. RunInv'
  BY <1>2, <1>3, <1>4, <1>5, <1>7 DEF RunInv, ToBeHooked, Hooked
<1> QED
  BY <1>1, <1>2, <1>4, <1>6, <1>8, LoadKeeps DEF IInv, TypeOK

\* DllMain of the library: the program is the game, its editor, or another.
LEMMA AttachKeeps ==
  ASSUME IInv, HookLoader \/ Refuse \/ PassOver PROVE IInv'
<1>1. stage = "attach" /\ stage' = "run" /\ UNCHANGED <<start, binary, gameVars>>
  BY DEF HookLoader, Refuse, PassOver
<1>2. start' = start /\ binary' = binary /\ applied' = applied /\ pc' = pc
  BY <1>1 DEF gameVars
<1>3. exe' = exe /\ QpcSlot' = QpcSlot /\ IsGame' = IsGame /\ IsGeck' = IsGeck
  BY <1>2, StartKept
<1>4. /\ iat = SlotTable(exe) /\ old_qpc = "none" /\ applied = 0
      /\ \A t \in Threads : pc[t] = "before"
      /\ Present /\ ~told /\ binary = get_min_iset(start.cpu)
  BY <1>1 DEF IInv, StageInv
<1>5. start \in Starts /\ StartOK(start) /\ exe.laa \in BOOLEAN
  <2>1. start \in Starts
    BY DEF IInv, TypeOK
  <2>2. StartOK(start)
    BY <2>1, StartFacts
  <2>3. exe.laa \in BOOLEAN
    BY <2>2 DEF StartOK, exe
  <2> QED
    BY <2>1, <2>2, <2>3
<1>6. ~Hooked
  BY <1>4, <1>5, SlotFacts DEF Hooked, Qpc
<1>7. Present' = Present
  BY <1>2 DEF Present
<1>8. StageInv'
  BY <1>1, <1>2, <1>4 DEF StageInv
<1>9. CASE HookLoader
  <2>1. /\ IsGame /\ exe.laa /\ told' = told /\ old_qpc' = iat[QpcSlot]
        /\ iat' = [iat EXCEPT ![QpcSlot] = "qpc_hook"]
    BY <1>9 DEF HookLoader, FoundInSlot
  <2>2. QpcSlot # NoSlot /\ QpcSlot \in DOMAIN iat /\ iat[QpcSlot] = Qpc
    BY <1>4, <1>5, <2>1, GameHasSlot, SlotFacts
  <2>3. Hooked'
    BY <1>3, <2>1, <2>2 DEF Hooked
  <2>4. RunInv'
    BY <1>3, <1>4, <1>7, <2>1, <2>2, <2>3 DEF RunInv, ToBeHooked
  <2> QED
    BY <1>1, <1>4, <1>8, <2>1, <2>2, <2>4, LoadKeeps DEF IInv, TypeOK
<1>10. CASE Refuse
  <2>1. /\ IF IsGame THEN ~exe.laa ELSE ~IsGeck
        /\ told' = TRUE /\ old_qpc' = old_qpc /\ iat' = iat
    BY <1>10 DEF Refuse
  <2>2. RunInv'
    BY <1>2, <1>3, <1>4, <1>5, <1>6, <1>7, <2>1 DEF RunInv, ToBeHooked, Hooked
  <2> QED
    BY <1>1, <1>4, <1>8, <2>1, <2>2, LoadKeeps DEF IInv, TypeOK
<1>11. CASE PassOver
  <2>1. /\ ~IsGame /\ IsGeck
        /\ told' = told /\ old_qpc' = old_qpc /\ iat' = iat
    BY <1>11 DEF PassOver
  <2>2. RunInv'
    BY <1>2, <1>3, <1>4, <1>5, <1>6, <1>7, <2>1 DEF RunInv, ToBeHooked, Hooked
  <2> QED
    BY <1>1, <1>4, <1>8, <2>1, <2>2, LoadKeeps DEF IInv, TypeOK
<1> QED
  BY <1>9, <1>10, <1>11

\* A step of one thread keeps what it does not touch.  What is left to show is
\* what the thread itself comes to, and what it does to the heaps, the slots,
\* the bytes and the pages.
LEMMA ThreadKeeps ==
  ASSUME IInv, NEW t \in Threads, UNCHANGED loaderVars, stage = "run",
         NEW l \in Places, pc' = [pc EXCEPT ![t] = l],
         NEW n \in Nat, at' = [at EXCEPT ![t] = n],
         NEW s \in {"none"} \cup Forms, saved' = [saved EXCEPT ![t] = s],
         DOMAIN iat' = DOMAIN iat /\ DOMAIN code' = DOMAIN code /\ DOMAIN prot' = DOMAIN prot,
         \A a \in DOMAIN iat : iat'[a] \in {SlotTable(exe)[a], "qpc_hook"},
         \A a \in DOMAIN code : code'[a] \in {Untouched} \cup 0 .. 255,
         \A g \in DOMAIN prot : prot'[g] \in Forms,
         pools' \subseteq AllPools /\ dheap' \in BOOLEAN,
         applied' \in Nat /\ applied' >= applied,
         ToBeHooked => Hooked' \/ applied' > 0,
         ~ToBeHooked => ~Hooked' /\ applied' = 0 /\ l \in {"before", "out"},
         PlaceInv(t)',
         HeapsInv', OnceInv'
  PROVE  IInv'
<1>1. start' = start /\ stage' = stage /\ binary' = binary /\ told' = told /\ old_qpc' = old_qpc
  BY DEF loaderVars
<1>2. exe' = exe /\ Patches' = Patches /\ IsGame' = IsGame /\ IsGeck' = IsGeck /\ OneEarly' = OneEarly
  BY <1>1, StartKept
<1>3. DOMAIN pc = Threads /\ DOMAIN at = Threads /\ DOMAIN saved = Threads /\ pc \in [Threads -> Places]
  BY DEF IInv, Typed
<1>4. Typed'
  BY <1>2, <1>3 DEF IInv, Typed
<1>5. TypeOK'
  <2>1. DOMAIN prot' = DOMAIN OriginalProt'
    <3>1. DOMAIN OriginalProt = PagesOf(DOMAIN iat \cup DOMAIN code)
      BY DEF OriginalProt
    <3>2. DOMAIN OriginalProt' = PagesOf(DOMAIN iat' \cup DOMAIN code')
      BY DEF OriginalProt
    <3> QED
      BY <3>1, <3>2 DEF IInv, TypeOK
  <2>2. \A u \in Threads : (u \in InHook)' <=> pc'[u] \notin {"before", "out", "crashed"}
    BY <1>4 DEF Typed, Places, InHook
  <2> QED
    BY <1>1, <1>2, <2>1, <2>2 DEF IInv, TypeOK, Forms
<1>6. StageInv'
  BY <1>1 DEF IInv, StageInv, Present
<1>7. RunInv'
  <2>1. ToBeHooked' = ToBeHooked /\ Present' = Present
    BY <1>1, <1>2 DEF ToBeHooked, Present
  <2>2. ~ToBeHooked => \A u \in Threads : pc'[u] \in {"before", "out"}
    BY <1>3 DEF IInv, RunInv
  <2> QED
    BY <1>1, <1>2, <2>1, <2>2 DEF IInv, RunInv
<1>8. ASSUME NEW u \in Threads PROVE PlaceInv(u)'
  <2>1. CASE u = t
    BY <2>1
  <2>2. CASE u # t
    <3>1. pc'[u] = pc[u] /\ at'[u] = at[u] /\ saved'[u] = saved[u] /\ PlaceInv(u)
      BY <1>3, <2>2 DEF IInv
    <3>2. applied \in Nat
      BY DEF IInv, TypeOK
    <3> QED
      BY <1>2, <3>1, <3>2 DEF PlaceInv
  <2> QED
    BY <2>1, <2>2
<1> QED
  BY <1>4, <1>5, <1>6, <1>7, <1>8 DEF IInv

\* Where a thread is whose step it is.
LEMMA ThreadFacts ==
  ASSUME IInv, NEW t \in Threads
  PROVE  /\ DOMAIN pc = Threads /\ DOMAIN at = Threads /\ DOMAIN saved = Threads
         /\ pc[t] \in Places /\ PlaceInv(t)
         /\ at = [at EXCEPT ![t] = at[t]] /\ at[t] \in Nat
         /\ saved = [saved EXCEPT ![t] = saved[t]] /\ saved[t] \in {"none"} \cup Forms
         /\ start \in Starts /\ StartOK(start) /\ Main \in Threads
         /\ applied \in Nat /\ pools \subseteq AllPools /\ dheap \in BOOLEAN
         /\ pc[t] # "before" => stage = "run"
         /\ pc[t] \notin {"before", "out"} => ToBeHooked /\ old_qpc = Qpc
         /\ OneEarly /\ pc[t] \notin {"before", "out"} => t = Main
<1>1. start \in Starts /\ StartOK(start) /\ Main \in Threads
  <2>1. start \in Starts
    BY DEF IInv, TypeOK
  <2>2. StartOK(start)
    BY <2>1, StartFacts
  <2>3. Main \in Threads
    BY <2>2 DEF StartOK
  <2> QED
    BY <2>1, <2>2, <2>3
<1>2. stage \in {"load", "attach", "run"} /\ applied \in Nat /\ pools \subseteq AllPools /\ dheap \in BOOLEAN
  BY DEF IInv, TypeOK
<1>3. pc[t] # "before" => stage = "run"
  BY <1>2 DEF IInv, StageInv
<1> QED
  BY <1>1, <1>2, <1>3 DEF IInv, Typed, RunInv, OnceInv

\* While the library is to be hooked, its slot is one of the table.
LEMMA HookedSlot ==
  ASSUME IInv, ToBeHooked
  PROVE  QpcSlot # NoSlot /\ QpcSlot \in DOMAIN iat /\ SlotTable(exe)[QpcSlot] = Qpc
  BY GameHasSlot, SlotFacts DEF IInv, TypeOK, Typed, ToBeHooked

\* What the bytes, slots and pages are.
LEMMA GameFacts ==
  ASSUME IInv
  PROVE  /\ \A a \in DOMAIN iat : iat[a] \in {SlotTable(exe)[a], "qpc_hook"}
         /\ \A a \in DOMAIN code : code[a] \in {Untouched} \cup 0 .. 255
         /\ \A g \in DOMAIN prot : prot[g] \in Forms
         /\ DOMAIN prot = PagesOf(DOMAIN SlotTable(exe) \cup Around(Patches))
         /\ ToBeHooked /\ stage = "run" => Hooked \/ applied > 0
  BY DEF IInv, TypeOK, Typed, OriginalProt, RunInv, Forms

\* A thread that does not fill the tables leaves the pools to those that do.
LEMMA HeapsKept ==
  ASSUME IInv, NEW t \in Threads, pc[t] # "fill_m", UNCHANGED <<pools, applied>>,
         NEW l, pc' = [pc EXCEPT ![t] = l], NEW n, at' = [at EXCEPT ![t] = n],
         dheap => dheap', l \in {"protect", "write", "restore"} => dheap',
         IsPatched' => IsPatched \/ (dheap' /\ applied > 0)
  PROVE  HeapsInv'
<1>1. DOMAIN pc = Threads /\ DOMAIN at = Threads
  BY ThreadFacts
<1>2. \A u \in Threads : u # t => pc'[u] = pc[u] /\ at'[u] = at[u]
  BY <1>1
<1>3. applied > 0 => \A i \in AllPools \ pools :
                       \E u \in Threads : pc'[u] = "fill_m" /\ at'[u] <= i
  BY <1>2 DEF IInv, HeapsInv
<1>4. \A u \in Threads : pc'[u] \in {"protect", "write", "restore"} => dheap'
  BY <1>1, <1>2 DEF IInv, HeapsInv
<1> QED
  BY <1>3, <1>4 DEF IInv, HeapsInv

\* Only through the hooked slot does a call get into the hook.
LEMMA CallQpcKeeps ==
  ASSUME IInv, NEW t \in Threads, CallQpc(t) PROVE IInv'
<1>1. /\ stage = "run" /\ pc[t] \in {"before", "out"} /\ (t \in start.early \/ pc[Main] = "out")
      /\ UNCHANGED <<loaderVars, iat, code, prot, pools, dheap, applied, at, saved>>
  BY DEF CallQpc
<1> DEFINE l == IF Hooked THEN "init_m" ELSE "out"
<1>2. pc' = [pc EXCEPT ![t] = l] /\ l \in Places /\ l \in {"init_m", "out"}
  BY DEF CallQpc, Goto, Places
<1>3. /\ at' = [at EXCEPT ![t] = at[t]] /\ at[t] \in Nat
      /\ saved' = [saved EXCEPT ![t] = saved[t]] /\ saved[t] \in {"none"} \cup Forms
  BY <1>1, ThreadFacts
<1>4. start' = start /\ Hooked' = Hooked /\ IsSlot(at[Main])' = IsSlot(at[Main]) /\ IsPatched' = IsPatched
  BY <1>1, StartKept DEF loaderVars, Hooked, IsPatched
<1>5. PlaceInv(t)'
  BY <1>2, ThreadFacts DEF PlaceInv
<1>6. ~ToBeHooked => ~Hooked /\ applied = 0
  BY <1>1 DEF IInv, RunInv
<1>7. OnceInv'
  <2> SUFFICES ASSUME OneEarly PROVE OnceInv'
    BY <1>4, StartKept DEF OnceInv
  <2>1. OnceInv /\ start.early = {Main}
    BY DEF IInv, OneEarly
  <2>2. DOMAIN pc = Threads /\ Main \in Threads
    BY ThreadFacts
  <2>3. CASE t = Main
    <3>1. pc[Main] = "out" => ~Hooked
      BY <2>1 DEF OnceInv
    <3>2. Hooked => applied = 0
      BY <1>1, <2>1, <2>3, <3>1 DEF OnceInv
    <3>3. pc'[Main] = l /\ \A u \in Threads \ {Main} : pc'[u] = pc[u]
      BY <1>2, <2>2, <2>3
    <3> QED
      BY <1>1, <1>2, <1>4, <2>1, <3>2, <3>3 DEF OnceInv
  <2>4. CASE t # Main
    <3>1. pc[Main] = "out" /\ ~Hooked
      BY <1>1, <2>1, <2>4 DEF OnceInv
    <3>2. l = "out" /\ pc'[Main] = pc[Main] /\ pc'[t] = "out"
      BY <1>2, <2>2, <2>4, <3>1
    <3>3. \A u \in Threads \ {t} : pc'[u] = pc[u]
      BY <1>2, <2>2
    <3> QED
      BY <1>1, <1>4, <2>1, <3>1, <3>2, <3>3 DEF OnceInv
  <2> QED
    BY <2>3, <2>4
<1> HIDE DEF l
<1>8. DOMAIN iat' = DOMAIN iat /\ DOMAIN code' = DOMAIN code /\ DOMAIN prot' = DOMAIN prot
  BY <1>1
<1>9. ~ToBeHooked => l \in {"before", "out"}
  BY <1>6 DEF l
<1>10. applied' \in Nat /\ applied' >= applied /\ pools' \subseteq AllPools /\ dheap' \in BOOLEAN
  BY <1>1, ThreadFacts
<1>11. HeapsInv'
  BY <1>1, <1>2, <1>3, <1>4, HeapsKept
<1> QED
  BY <1>1, <1>2, <1>3, <1>4, <1>5, <1>6, <1>7, <1>8, <1>9, <1>10, <1>11, GameFacts, ThreadKeeps, ZenonT(60)

\* The one thread that gets here early enters for the first time.  The tables
\* are empty, and the thread has all pools before it.
LEMMA ClearMheapKeeps ==
  ASSUME IInv, NEW t \in Threads, ClearMheap(t) PROVE IInv'
<1> DEFINE first == 1
<1>1. /\ pc[t] = "init_m" /\ pools' = {} /\ applied' = applied + 1
      /\ at' = [at EXCEPT ![t] = first] /\ pc' = [pc EXCEPT ![t] = "fill_m"]
      /\ UNCHANGED <<loaderVars, iat, code, prot, dheap, saved>>
  BY DEF ClearMheap, Goto
<1>2. saved' = [saved EXCEPT ![t] = saved[t]] /\ saved[t] \in {"none"} \cup Forms
  BY <1>1, ThreadFacts
<1>3. /\ start' = start /\ Hooked' = Hooked /\ Patches' = Patches
      /\ OneEarly' = OneEarly /\ \A n : IsSlot(n)' = IsSlot(n)
      /\ IsPatched' = IsPatched
  BY <1>1, StartKept DEF loaderVars, Hooked, IsPatched
<1>4. stage = "run" /\ ToBeHooked /\ DOMAIN pc = Threads /\ DOMAIN at = Threads /\ applied \in Nat
  BY <1>1, ThreadFacts
<1>5. first \in AllPools /\ \A i \in AllPools : first <= i
  BY LoaderAssumption DEF AllPools
<1>6. PlaceInv(t)'
  BY <1>1, <1>3, <1>4, <1>5 DEF PlaceInv, Places
<1>7. OnceInv'
  <2>1. OneEarly => t = Main
    BY <1>1, ThreadFacts
  <2>2. OneEarly => applied = 0 /\ ~IsPatched
    BY <1>1, <2>1 DEF IInv, OnceInv
  <2> QED
    BY <1>1, <1>3, <1>4, <2>1, <2>2 DEF IInv, OnceInv
<1>8. DOMAIN iat' = DOMAIN iat /\ DOMAIN code' = DOMAIN code /\ DOMAIN prot' = DOMAIN prot
  BY <1>1
<1>9. pools' \subseteq AllPools /\ dheap' \in BOOLEAN
  BY <1>1, ThreadFacts
<1>10. applied' \in Nat /\ applied' > 0 /\ applied' >= applied /\ first \in Nat /\ "fill_m" \in Places
  BY <1>1, <1>4 DEF Places
<1>11. HeapsInv'
  <2>1. \A i \in AllPools : \E u \in Threads : pc'[u] = "fill_m" /\ at'[u] <= i
    BY <1>1, <1>4, <1>5
  <2>2. \A u \in Threads : pc'[u] \in {"protect", "write", "restore"} => pc[u] = pc'[u]
    BY <1>1, <1>4
  <2>3. IsPatched' => dheap' /\ applied' > 0
    BY <1>1, <1>3, <1>10 DEF IInv, HeapsInv
  <2> QED
    BY <1>1, <2>1, <2>2, <2>3 DEF IInv, HeapsInv
<1> HIDE DEF first
<1>12. /\ \A a \in DOMAIN iat : iat'[a] \in {SlotTable(exe)[a], "qpc_hook"}
       /\ \A a \in DOMAIN code : code'[a] \in {Untouched} \cup 0 .. 255
       /\ \A g \in DOMAIN prot : prot'[g] \in Forms
  BY <1>1, GameFacts
<1>13. /\ UNCHANGED loaderVars /\ pc' = [pc EXCEPT ![t] = "fill_m"]
       /\ at' = [at EXCEPT ![t] = first]
  BY <1>1
<1> QED
  BY <1>2, <1>4, <1>6, <1>7, <1>8, <1>9, <1>10, <1>11, <1>12, <1>13, ThreadKeeps

\* A pool that is still missing is ahead of the thread, or of another.
LEMMA FillMheapKeeps ==
  ASSUME IInv, NEW t \in Threads, FillMheap(t) PROVE IInv'
<1> DEFINE last == at[t] = PoolCount
           l == IF last THEN "init_d" ELSE "fill_m"
           n == IF last THEN 1 ELSE at[t] + 1
<1>1. /\ pc[t] = "fill_m" /\ pools' = pools \cup {at[t]}
      /\ pc' = [pc EXCEPT ![t] = l]
      /\ UNCHANGED <<loaderVars, iat, code, prot, dheap, applied, saved>>
  BY DEF FillMheap, Goto, AfterMheap
<1>2. saved' = [saved EXCEPT ![t] = saved[t]] /\ saved[t] \in {"none"} \cup Forms
  BY <1>1, ThreadFacts
<1>3. /\ start' = start /\ Hooked' = Hooked /\ Patches' = Patches
      /\ OneEarly' = OneEarly /\ \A k : IsSlot(k)' = IsSlot(k)
      /\ IsPatched' = IsPatched
  BY <1>1, StartKept DEF loaderVars, Hooked, IsPatched
<1>4. /\ stage = "run" /\ ToBeHooked /\ DOMAIN pc = Threads /\ DOMAIN at = Threads
      /\ applied \in Nat /\ applied > 0 /\ at[t] \in AllPools /\ pools \subseteq AllPools
      /\ dheap \in BOOLEAN /\ PoolCount \in Nat \ {0}
  BY <1>1, ThreadFacts, LoaderAssumption DEF PlaceInv
<1>5. at' = [at EXCEPT ![t] = n]
  BY <1>4 DEF FillMheap
<1>6. Len(Patches) \in Nat
  BY ThreadFacts DEF StartOK, Patches
<1>7. /\ n \in Nat /\ l \in {"init_d", "fill_m"} /\ l \in Places
      /\ l = "init_d" => n = 1
      /\ l = "fill_m" => n \in AllPools
      /\ \A i \in AllPools : at[t] <= i /\ i # at[t] => l = "fill_m" /\ n <= i
  BY <1>4 DEF AllPools, Places
<1> HIDE DEF l, n
<1>8. PlaceInv(t)'
  <2>1. pc'[t] = l /\ at'[t] = n /\ applied' > 0 /\ Len(Patches') = Len(Patches)
    BY <1>1, <1>3, <1>4, <1>5
  <2>2. 1 \in 1 .. Len(Patches) + 1
    BY <1>6
  <2> QED
    BY <1>7, <2>1, <2>2 DEF PlaceInv
<1>9. OnceInv'
  <2>1. OneEarly => t = Main
    BY <1>1, ThreadFacts
  <2> QED
    BY <1>1, <1>3, <1>4, <1>7, <2>1 DEF IInv, OnceInv
<1>10. HeapsInv'
  <2>1. ASSUME NEW i \in AllPools, i \notin pools'
        PROVE  \E u \in Threads : pc'[u] = "fill_m" /\ at'[u] <= i
    <3>1. PICK u \in Threads : pc[u] = "fill_m" /\ at[u] <= i
      BY <1>1, <1>4, <2>1 DEF IInv, HeapsInv
    <3>2. CASE u = t
      <4>1. i # at[t]
        BY <1>1, <2>1
      <4>2. pc'[t] = "fill_m" /\ at'[t] <= i
        BY <1>1, <1>4, <1>5, <1>7, <3>1, <3>2, <4>1
      <4> QED
        BY <4>2
    <3>3. CASE u # t
      BY <1>1, <1>4, <1>5, <3>1, <3>3
    <3> QED
      BY <3>2, <3>3
  <2>2. \A u \in Threads : pc'[u] \in {"protect", "write", "restore"} => pc[u] = pc'[u]
    BY <1>1, <1>4, <1>7
  <2> QED
    BY <1>1, <1>3, <2>1, <2>2 DEF IInv, HeapsInv
<1>11. DOMAIN iat' = DOMAIN iat /\ DOMAIN code' = DOMAIN code /\ DOMAIN prot' = DOMAIN prot
  BY <1>1
<1>12. /\ pools' \subseteq AllPools /\ dheap' \in BOOLEAN
       /\ applied' \in Nat /\ applied' > 0 /\ applied' >= applied
  BY <1>1, <1>4
<1> QED
  BY <1>1, <1>2, <1>4, <1>5, <1>7, <1>8, <1>9, <1>10, <1>11, <1>12, GameFacts, ThreadKeeps, ZenonT(60)

\* From here on the default heap is there.
LEMMA InitDheapKeeps ==
  ASSUME IInv, NEW t \in Threads, InitDheap(t) PROVE IInv'
<1>1. /\ pc[t] = "init_d" /\ dheap' = TRUE
      /\ pc' = [pc EXCEPT ![t] = "protect"]
      /\ UNCHANGED <<loaderVars, iat, code, prot, pools, applied, at, saved>>
  BY DEF InitDheap, Goto
<1>2. /\ at' = [at EXCEPT ![t] = at[t]] /\ at[t] \in Nat
      /\ saved' = [saved EXCEPT ![t] = saved[t]] /\ saved[t] \in {"none"} \cup Forms
  BY <1>1, ThreadFacts
<1>3. /\ start' = start /\ Hooked' = Hooked /\ Patches' = Patches
      /\ OneEarly' = OneEarly /\ \A n : IsSlot(n)' = IsSlot(n)
      /\ IsPatched' = IsPatched
  BY <1>1, StartKept DEF loaderVars, Hooked, IsPatched
<1>4. /\ stage = "run" /\ ToBeHooked /\ DOMAIN pc = Threads /\ applied \in Nat
      /\ PlaceInv(t) /\ applied > 0
  BY <1>1, ThreadFacts DEF PlaceInv
<1>5. PlaceInv(t)'
  BY <1>1, <1>3, <1>4 DEF PlaceInv, Places
<1>6. OnceInv'
  <2>1. OneEarly => t = Main
    BY <1>1, ThreadFacts
  <2> QED
    BY <1>1, <1>3, <1>4, <2>1 DEF IInv, OnceInv
<1>7. DOMAIN iat' = DOMAIN iat /\ DOMAIN code' = DOMAIN code /\ DOMAIN prot' = DOMAIN prot
  BY <1>1
<1>8. HeapsInv' /\ pools' \subseteq AllPools /\ dheap' \in BOOLEAN
  BY <1>1, <1>2, <1>3, HeapsKept, ThreadFacts
<1>9. applied' \in Nat /\ applied' > 0 /\ applied' >= applied /\ "protect" \in Places
  BY <1>1, <1>4 DEF Places
<1> QED
  BY <1>1, <1>2, <1>3, <1>4, <1>5, <1>6, <1>7, <1>8, <1>9, GameFacts, ThreadKeeps, ZenonT(60)

\* What VirtualProtect reported is kept for later.
LEMMA ProtectKeeps ==
  ASSUME IInv, NEW t \in Threads, Protect(t) PROVE IInv'
<1> DEFINE old == prot[Least(Touched(at[t]))]
<1>1. /\ pc[t] = "protect" /\ saved' = [saved EXCEPT ![t] = old]
      /\ prot' = [g \in DOMAIN prot |-> IF g \in Touched(at[t]) THEN "RWX" ELSE prot[g]]
      /\ pc' = [pc EXCEPT ![t] = "write"]
      /\ UNCHANGED <<loaderVars, iat, code, pools, dheap, applied, at>>
  BY DEF Protect, Goto
<1>2. at' = [at EXCEPT ![t] = at[t]] /\ at[t] \in Nat
  BY <1>1, ThreadFacts
<1>3. /\ start' = start /\ Hooked' = Hooked /\ Patches' = Patches
      /\ OneEarly' = OneEarly /\ \A n : IsSlot(n)' = IsSlot(n)
      /\ IsPatched' = IsPatched
  BY <1>1, StartKept DEF loaderVars, Hooked, IsPatched
<1>4. /\ stage = "run" /\ ToBeHooked /\ DOMAIN pc = Threads /\ DOMAIN saved = Threads
      /\ applied \in Nat /\ applied > 0 /\ at[t] \in 1 .. Len(Patches) + 1
  BY <1>1, ThreadFacts DEF PlaceInv
<1>5. old \in Forms /\ old \in {"none"} \cup Forms
  <2>1. QpcSlot # NoSlot /\ start \in Starts
    BY <1>4, HookedSlot, ThreadFacts
  <2>2. Least(Touched(at[t])) \in DOMAIN prot
    BY <1>4, <2>1, TouchedFirst, GameFacts
  <2> QED
    BY <2>2, GameFacts
<1>6. PlaceInv(t)'
  BY <1>1, <1>3, <1>4, <1>5 DEF PlaceInv, Places, Forms
<1>7. OnceInv'
  <2>1. OneEarly => t = Main
    BY <1>1, ThreadFacts
  <2> QED
    BY <1>1, <1>3, <1>4, <2>1 DEF IInv, OnceInv
<1> HIDE DEF old
<1>8. DOMAIN iat' = DOMAIN iat /\ DOMAIN code' = DOMAIN code /\ DOMAIN prot' = DOMAIN prot
  BY <1>1
<1>9. HeapsInv' /\ pools' \subseteq AllPools /\ dheap' \in BOOLEAN
  <2>1. dheap
    BY <1>1 DEF IInv, HeapsInv
  <2> QED
    BY <1>1, <1>2, <1>3, <2>1, HeapsKept, ThreadFacts
<1>10. applied' \in Nat /\ applied' > 0 /\ applied' >= applied /\ "write" \in Places
  BY <1>1, <1>4 DEF Places
<1>11. /\ \A a \in DOMAIN iat : iat'[a] \in {SlotTable(exe)[a], "qpc_hook"}
       /\ \A a \in DOMAIN code : code'[a] \in {Untouched} \cup 0 .. 255
       /\ \A g \in DOMAIN prot : prot'[g] \in Forms
  BY <1>1, GameFacts DEF Forms
<1>12. /\ UNCHANGED loaderVars /\ pc' = [pc EXCEPT ![t] = "write"]
       /\ saved' = [saved EXCEPT ![t] = old]
  BY <1>1
<1> QED
  BY <1>2, <1>4, <1>5, <1>6, <1>7, <1>8, <1>9, <1>10, <1>11, <1>12, ThreadKeeps

\* A write crashes, restores the slot, or leaves bytes.
LEMMA WriteKeeps ==
  ASSUME IInv, NEW t \in Threads, Write(t) PROVE IInv'
<1>1. /\ pc[t] = "write"
      /\ UNCHANGED <<loaderVars, prot, pools, dheap, applied, at, saved>>
  BY DEF Write
<1>2. /\ at' = [at EXCEPT ![t] = at[t]] /\ at[t] \in Nat
      /\ saved' = [saved EXCEPT ![t] = saved[t]] /\ saved[t] \in {"none"} \cup Forms
  BY <1>1, ThreadFacts
<1>3. /\ start' = start /\ Patches' = Patches /\ QpcSlot' = QpcSlot
      /\ OneEarly' = OneEarly /\ \A n : IsSlot(n)' = IsSlot(n)
  BY <1>1, StartKept DEF loaderVars
<1>4. /\ stage = "run" /\ ToBeHooked /\ old_qpc = Qpc /\ DOMAIN pc = Threads /\ DOMAIN saved = Threads
      /\ applied \in Nat /\ applied > 0 /\ at[t] \in 1 .. Len(Patches) + 1
      /\ saved[t] \in Forms /\ start \in Starts /\ Main \in Threads
  BY <1>1, ThreadFacts DEF PlaceInv, Forms
<1>5. OneEarly => t = Main
  BY <1>1, ThreadFacts
<1>6. /\ dheap /\ dheap' = dheap /\ pools' = pools /\ applied' = applied
      /\ pools' \subseteq AllPools /\ dheap' \in BOOLEAN
  BY <1>1, ThreadFacts DEF IInv, HeapsInv
<1>7. applied' \in Nat /\ applied' > 0 /\ applied' >= applied
  BY <1>1, <1>4
<1>8. /\ pc[t] # "fill_m" /\ UNCHANGED <<pools, applied>> /\ (dheap => dheap') /\ dheap'
       /\ (IsPatched' => IsPatched \/ (dheap' /\ applied > 0))
  BY <1>1, <1>4, <1>6
<1>9. CASE ~(\A g \in Touched(at[t]) : prot[g] = "RWX")
  <2>1. pc' = [pc EXCEPT ![t] = "crashed"] /\ iat' = iat /\ code' = code
    BY <1>9 DEF Write, Goto
  <2>2. "crashed" \in Places /\ PlaceInv(t)'
    BY <1>4, <2>1 DEF PlaceInv, Places
  <2>3. OnceInv'
    BY <1>1, <1>3, <1>4, <1>5, <2>1 DEF IInv, OnceInv, Hooked
  <2>4. HeapsInv'
    BY <1>2, <1>4, <1>8, <2>1, HeapsKept
  <2> QED
    BY <1>1, <1>2, <1>3, <1>4, <1>6, <1>7, <2>1, <2>2, <2>3, <2>4, GameFacts, ThreadKeeps
<1>10. CASE (\A g \in Touched(at[t]) : prot[g] = "RWX") /\ IsSlot(at[t])
  <2>1. pc' = [pc EXCEPT ![t] = "restore"] /\ iat' = [iat EXCEPT ![QpcSlot] = Qpc] /\ code' = code
    BY <1>4, <1>10 DEF Write, Goto, SlotAfter
  <2>2. "restore" \in Places /\ PlaceInv(t)'
    BY <1>1, <1>3, <1>4, <2>1 DEF PlaceInv, Places, Forms
  <2>3. QpcSlot \in DOMAIN iat /\ SlotTable(exe)[QpcSlot] = Qpc
    BY <1>4, HookedSlot
  <2>4. ~Hooked'
    BY <1>3, <2>1, <2>3 DEF Hooked, Qpc
  <2>5. OnceInv'
    BY <1>1, <1>3, <1>4, <1>5, <2>1, <2>4 DEF IInv, OnceInv
  <2>6. \A a \in DOMAIN iat : iat'[a] \in {SlotTable(exe)[a], "qpc_hook"}
    BY <2>1, <2>3, GameFacts
  <2>7. DOMAIN iat' = DOMAIN iat
    BY <2>1
  <2>8. HeapsInv'
    BY <1>2, <1>4, <1>8, <2>1, HeapsKept
  <2> QED
    BY <1>1, <1>2, <1>3, <1>4, <1>6, <1>7, <2>1, <2>2, <2>5, <2>6, <2>7, <2>8, GameFacts, ThreadKeeps
<1>11. CASE (\A g \in Touched(at[t]) : prot[g] = "RWX") /\ ~IsSlot(at[t])
  <2>1. /\ pc' = [pc EXCEPT ![t] = "restore"] /\ iat' = iat
        /\ code' = Patched(code, Patches[at[t]])
    BY <1>11 DEF Write, Goto
  <2>2. "restore" \in Places /\ PlaceInv(t)'
    BY <1>1, <1>3, <1>4, <2>1 DEF PlaceInv, Places, Forms
  <2>3. OnceInv'
    BY <1>1, <1>3, <1>4, <1>5, <1>11, <2>1 DEF IInv, OnceInv, Hooked
  <2>4. Patches[at[t]].addr \in Nat /\ Bytes(Patches[at[t]]) \in Seq(0 .. 255)
    BY <1>4, <1>11, PatchFacts
  <2>5. /\ DOMAIN code' = DOMAIN code
        /\ \A a \in DOMAIN code : code'[a] \in {Untouched} \cup 0 .. 255
    BY <2>1, <2>4, GameFacts, PatchedFacts, ZenonT(60)
  <2>6. HeapsInv'
    BY <1>2, <1>4, <1>8, <2>1, HeapsKept
  <2> QED
    BY <1>1, <1>2, <1>3, <1>4, <1>6, <1>7, <2>1, <2>2, <2>3, <2>5, <2>6, GameFacts, ThreadKeeps
<1> QED
  BY <1>9, <1>10, <1>11

\* The hook is left only when the slot is restored.
LEMMA RestoreKeeps ==
  ASSUME IInv, NEW t \in Threads, Restore(t) PROVE IInv'
<1> DEFINE l == IF IsSlot(at[t]) THEN "out" ELSE "protect"
           n == IF IsSlot(at[t]) THEN 0 ELSE at[t] + 1
<1>1. /\ pc[t] = "restore" /\ prot' = Restored(t)
      /\ pc' = [pc EXCEPT ![t] = l] /\ saved' = [saved EXCEPT ![t] = "none"]
      /\ UNCHANGED <<loaderVars, iat, code, pools, dheap, applied>>
  BY DEF Restore, Goto, AfterPatch
<1>2. /\ stage = "run" /\ ToBeHooked /\ DOMAIN pc = Threads /\ DOMAIN at = Threads
      /\ DOMAIN saved = Threads
      /\ applied \in Nat /\ applied > 0 /\ at[t] \in 1 .. Len(Patches) + 1
      /\ saved[t] \in Forms /\ Main \in Threads
  BY <1>1, ThreadFacts DEF PlaceInv
<1>3. at' = [at EXCEPT ![t] = n]
  BY <1>2 DEF Restore
<1>4. /\ start' = start /\ Hooked' = Hooked /\ Patches' = Patches
      /\ OneEarly' = OneEarly /\ \A k : IsSlot(k)' = IsSlot(k)
      /\ IsPatched' = IsPatched
  BY <1>1, StartKept DEF loaderVars, Hooked, IsPatched
<1>5. Len(Patches) \in Nat
  BY ThreadFacts DEF StartOK, Patches
<1>6. n \in Nat /\ (~IsSlot(at[t]) => n \in 1 .. Len(Patches) + 1) /\ l \in Places
  BY <1>2, <1>5 DEF IsSlot, Places
<1>7. PlaceInv(t)'
  BY <1>1, <1>2, <1>3, <1>4, <1>6 DEF PlaceInv, Places
<1>8. HeapsInv' /\ pools' \subseteq AllPools /\ dheap' \in BOOLEAN
  <2>1. dheap
    BY <1>1 DEF IInv, HeapsInv
  <2> HIDE DEF l, n
  <2> QED
    BY <1>1, <1>3, <1>4, <2>1, HeapsKept, ThreadFacts
<1>9. OnceInv'
  <2>1. OneEarly => t = Main
    BY <1>1, ThreadFacts
  <2>2. OneEarly /\ IsSlot(at[t]) => ~Hooked
    BY <1>1, <2>1 DEF IInv, OnceInv
  <2>3. l \in {"out", "protect"} /\ (l = "out" => IsSlot(at[t]))
    OBVIOUS
  <2> HIDE DEF l, n
  <2> QED
    BY <1>1, <1>2, <1>4, <2>1, <2>2, <2>3 DEF IInv, OnceInv
<1>10. DOMAIN prot' = DOMAIN prot /\ \A g \in DOMAIN prot : prot'[g] \in Forms
  BY <1>1, <1>2, GameFacts DEF Restored
<1>11. DOMAIN iat' = DOMAIN iat /\ DOMAIN code' = DOMAIN code
  BY <1>1
<1>12. applied' \in Nat /\ applied' > 0 /\ applied' >= applied /\ l # "init_d"
  BY <1>1, <1>2
<1> HIDE DEF l, n
<1> QED
  BY <1>1, <1>2, <1>3, <1>6, <1>7, <1>8, <1>9, <1>10, <1>11, <1>12, GameFacts, ThreadKeeps

\* Where nothing changes nothing is lost.
LEMMA StutterKeeps ==
  ASSUME IInv, UNCHANGED vars PROVE IInv'
<1>1. /\ UNCHANGED <<start, stage, binary, told, old_qpc, iat>>
      /\ UNCHANGED <<code, prot, pools, dheap, applied, pc, at, saved>>
  BY DEF vars, loaderVars, gameVars
<1>2. exe' = exe /\ Patches' = Patches /\ QpcSlot' = QpcSlot /\ Hooked' = Hooked
  BY <1>1, StartKept DEF Hooked
<1>3. OriginalProt' = OriginalProt /\ InHook' = InHook
  BY <1>1 DEF OriginalProt, InHook
<1>4. TypeOK' /\ Typed'
  BY <1>1, <1>2, <1>3 DEF IInv, TypeOK, Typed
<1>5. StageInv' /\ RunInv'
  BY <1>1, <1>2, StartKept DEF IInv, StageInv, RunInv, ToBeHooked, Present
<1>6. HeapsInv' /\ OnceInv'
  BY <1>1, <1>2, StartKept DEF IInv, HeapsInv, OnceInv, IsPatched
<1>7. \A t \in Threads : PlaceInv(t)'
  BY <1>1, <1>2 DEF IInv, PlaceInv
<1> QED
  BY <1>4, <1>5, <1>6, <1>7 DEF IInv

\* So every step keeps the invariant.
LEMMA NextIInv == IInv /\ [Next]_vars => IInv'
<1> SUFFICES ASSUME IInv, [Next]_vars PROVE IInv'
  OBVIOUS
<1>1. CASE LoadBinary
  BY <1>1, LoadBinaryKeeps
<1>2. CASE HookLoader \/ Refuse \/ PassOver
  BY <1>2, AttachKeeps
<1>3. ASSUME NEW t \in Threads, CallQpc(t) \/ FillMheap(t) \/ Step(t) PROVE IInv'
  <2>1. CASE CallQpc(t)
    BY <2>1, CallQpcKeeps
  <2>2. CASE ClearMheap(t)
    BY <2>2, ClearMheapKeeps
  <2>3. CASE FillMheap(t)
    BY <2>3, FillMheapKeeps
  <2>4. CASE InitDheap(t)
    BY <2>4, InitDheapKeeps
  <2>5. CASE Protect(t)
    BY <2>5, ProtectKeeps
  <2>6. CASE Write(t)
    BY <2>6, WriteKeeps
  <2>7. CASE Restore(t)
    BY <2>7, RestoreKeeps
  <2> QED
    BY <1>3, <2>1, <2>2, <2>3, <2>4, <2>5, <2>6, <2>7 DEF Step
<1>4. CASE UNCHANGED vars
  BY <1>4, StutterKeeps
<1> QED
  BY <1>1, <1>2, <1>3, <1>4 DEF Next

-----------------------------------------------------------------------------
(* The pages *)

\* A dword at a multiple of four does not leave its page.
LEMMA DwordInPage ==
  ASSUME NEW a \in Nat, a % 4 = 0, NEW b \in a .. a + 3
  PROVE  b \div PageSize = a \div PageSize
<1> DEFINE q == a \div PageSize
           k == a \div 4
           w == PageSize \div 4
<1>1. PageSize \in Nat \ {0} /\ PageSize % 4 = 0
  BY LoaderAssumption
<1>2. q \in Nat /\ q * PageSize <= a /\ a < (q + 1) * PageSize
  BY <1>1, SMT
<1>3. a = 4 * k /\ PageSize = 4 * w /\ k \in Nat /\ w \in Nat
  BY <1>1, SMT
<1> HIDE DEF q, k, w
<1> DEFINE m == (q + 1) * w
<1>4. (q + 1) * PageSize = 4 * m /\ m \in Nat
  BY <1>2, <1>3, SMT
<1> HIDE DEF m
<1>5. 4 * k < 4 * m
  BY <1>2, <1>3, <1>4
<1>6. a + 3 < (q + 1) * PageSize
  BY <1>3, <1>4, <1>5
<1>7. b \in Nat /\ q * PageSize <= b /\ b < (q + 1) * PageSize
  BY <1>1, <1>2, <1>6
<1>8. b \div PageSize = q
  <2> DEFINE r == b \div PageSize
  <2>1. r \in Nat /\ r * PageSize <= b /\ b < (r + 1) * PageSize
    BY <1>1, <1>7, SMT
  <2> HIDE DEF r
  <2>2. r * PageSize < (q + 1) * PageSize /\ q * PageSize < (r + 1) * PageSize
    BY <1>1, <1>2, <1>7, <2>1
  <2>3. r < q + 1 /\ q < r + 1
    BY <1>1, <1>2, <2>1, <2>2, SMT
  <2> QED
    BY <1>2, <2>1, <2>3 DEF r
<1> QED
  BY <1>8 DEF q

\* The bytes of a patch are some of the bytes around it.
LEMMA ExtentFacts ==
  ASSUME start \in Starts, NEW n \in DOMAIN Patches
  PROVE  /\ Extent(Patches[n]) \subseteq Around(Patches)
         /\ Patches[n].addr \in Extent(Patches[n])
         /\ n \in 1 .. Len(Patches) /\ ~IsSlot(n)
<1>1. StartOK(start)
  BY StartFacts
<1>2. n \in 1 .. Len(Patches) /\ Len(Patches) \in Nat
  BY <1>1 DEF StartOK, Patches
<1>3. ~IsSlot(n) /\ n \in 1 .. Len(Patches) + 1
  BY <1>2 DEF IsSlot
<1>4. Patches[n].addr \in Nat /\ Len(Bytes(Patches[n])) \in Nat \ {0}
  BY <1>3, PatchFacts
<1>5. Extent(Patches[n]) \subseteq Around(Patches)
  BY <1>4 DEF Extent, Around
<1>6. Patches[n].addr \in Extent(Patches[n])
  BY <1>4 DEF Extent
<1> QED
  BY <1>2, <1>3, <1>5, <1>6

\* What a patch touches are pages of the game, either all of its code or none.
LEMMA TouchedFacts ==
  ASSUME start \in Starts, NEW n \in 1 .. Len(Patches) + 1, IsSlot(n) => QpcSlot # NoSlot
  PROVE  /\ Touched(n) \subseteq PagesOf(DOMAIN SlotTable(exe) \cup Around(Patches))
         /\ Least(Touched(n)) \in Touched(n)
         /\ \A g, h \in Touched(n) : g \in PagesOf(Around(Patches)) <=> h \in PagesOf(Around(Patches))
<1>1. CASE IsSlot(n)
  <2>1. QpcSlot \in Nat /\ QpcSlot \in DOMAIN SlotTable(exe)
    BY <1>1, SlotFacts
  <2>2. QpcSlot % 4 = 0
    <3>1. PICK i \in SlotsOf(exe) : QpcSlot = Place(exe, i)
      BY <2>1 DEF SlotTable
    <3>2. StartOK(start)
      BY StartFacts
    <3> QED
      BY <3>1, <3>2 DEF StartOK, exe
  <2>3. \A b \in QpcSlot .. QpcSlot + 3 : b \div PageSize = QpcSlot \div PageSize
    BY <2>1, <2>2, DwordInPage
  <2>4. QpcSlot \in QpcSlot .. QpcSlot + 3
    BY <2>1
  <2>5. Touched(n) = {QpcSlot \div PageSize}
    BY <1>1, <2>3, <2>4 DEF Touched, PagesOf
  <2>6. Least(Touched(n)) = QpcSlot \div PageSize
    BY <1>1, <2>1, FirstPage DEF Touched
  <2> QED
    BY <2>1, <2>5, <2>6 DEF PagesOf
<1>2. CASE ~IsSlot(n)
  <2> DEFINE p == Patches[n]
  <2>1. n \in DOMAIN Patches /\ p.addr \in Nat /\ Len(Bytes(p)) \in Nat \ {0}
    BY <1>2, PatchFacts
  <2>2. Extent(p) \subseteq Around(Patches) /\ p.addr \in Extent(p)
    BY <2>1, ExtentFacts
  <2>3. Touched(n) = PagesOf(Extent(p))
    BY <1>2 DEF Touched
  <2>4. Least(Touched(n)) = p.addr \div PageSize
    BY <2>1, <2>3, FirstPage DEF Extent
  <2>5. Touched(n) \subseteq PagesOf(Around(Patches))
    BY <2>2, <2>3 DEF PagesOf
  <2>6. PagesOf(Around(Patches)) \subseteq PagesOf(DOMAIN SlotTable(exe) \cup Around(Patches))
    BY DEF PagesOf
  <2>7. Least(Touched(n)) \in Touched(n)
    BY <2>2, <2>3, <2>4 DEF PagesOf
  <2> QED
    BY <2>5, <2>6, <2>7
<1> QED
  BY <1>1, <1>2

\* The protection of before the hook, told from the start alone.
LEMMA OriginalIs ==
  ASSUME IInv
  PROVE  OriginalProt = [page \in PagesOf(DOMAIN SlotTable(exe) \cup Around(Patches)) |->
                           IF page \in PagesOf(Around(Patches)) THEN "RX" ELSE "R"]
  BY DEF IInv, Typed, OriginalProt

\* No step changes what it was.
LEMMA OriginalStays ==
  ASSUME IInv, IInv', start' = start
  PROVE  OriginalProt' = OriginalProt /\ \A n : Opened(n)' = Opened(n) /\ Touched(n)' = Touched(n)
<1>1. exe' = exe /\ Patches' = Patches /\ \A n : Touched(n)' = Touched(n)
  BY StartKept
<1>2. OriginalProt' = [page \in PagesOf(DOMAIN SlotTable(exe') \cup Around(Patches')) |->
                         IF page \in PagesOf(Around(Patches')) THEN "RX" ELSE "R"]
  BY DEF IInv, Typed, OriginalProt
<1>3. OriginalProt' = OriginalProt
  BY <1>1, <1>2, OriginalIs
<1> QED
  BY <1>1, <1>3 DEF Opened

\* With one thread in the hook no page stays writable.
LEMMA PagesStep ==
  ASSUME IInv, IInv', PagesInv, [Next]_vars PROVE PagesInv'
<1>1. start' = start
  BY DEF Next, vars, loaderVars, LoadBinary, HookLoader, Refuse, PassOver, CallQpc, Step,
         ClearMheap, FillMheap, InitDheap, Protect, Write, Restore
<1>2. OriginalProt' = OriginalProt /\ \A n : Opened(n)' = Opened(n) /\ Touched(n)' = Touched(n)
  BY <1>1, OriginalStays
<1>3. OneEarly' = OneEarly
  BY <1>1, StartKept
<1> SUFFICES ASSUME OneEarly PROVE PagesInv'
  BY <1>3 DEF PagesInv
<1>4. Main \in Threads /\ DOMAIN pc = Threads /\ DOMAIN at = Threads /\ DOMAIN saved = Threads
  <2>1. Main \in Threads
    BY StartFacts DEF IInv, TypeOK, StartOK
  <2> QED
    BY <2>1 DEF IInv, Typed
<1>5. CASE UNCHANGED <<pc, at, saved, prot>>
  BY <1>2, <1>5 DEF PagesInv
<1>6. ASSUME NEW t \in Threads, CallQpc(t) PROVE PagesInv'
  <2>1. /\ UNCHANGED <<prot, at, saved>> /\ pc[t] \in {"before", "out"}
        /\ \E l \in {"init_m", "out"} : pc' = [pc EXCEPT ![t] = l]
    BY <1>6 DEF CallQpc, Goto
  <2> QED
    BY <1>2, <1>4, <2>1 DEF PagesInv
<1>7. ASSUME NEW t \in Threads, FillMheap(t) \/ Step(t) PROVE t = Main /\ stage = "run" /\ ToBeHooked /\ PlaceInv(t)
  <2>1. pc[t] \notin {"before", "out"}
    BY <1>7 DEF Step, ClearMheap, FillMheap, InitDheap, Protect, Write, Restore
  <2> QED
    BY <2>1, ThreadFacts
<1>8. ASSUME NEW t \in Threads, ClearMheap(t) \/ FillMheap(t) \/ InitDheap(t) PROVE PagesInv'
  <2>1. t = Main
    BY <1>7, <1>8 DEF Step
  <2>2. /\ prot' = prot /\ pc[t] \in {"init_m", "fill_m", "init_d"}
        /\ \E l \in {"fill_m", "init_d", "protect"} : pc' = [pc EXCEPT ![t] = l]
    BY <1>8 DEF ClearMheap, FillMheap, InitDheap, Goto, AfterMheap
  <2> QED
    BY <1>2, <1>4, <2>1, <2>2 DEF PagesInv
<1>9. ASSUME NEW t \in Threads, Protect(t) \/ Write(t) \/ Restore(t)
      PROVE  /\ t = Main /\ at[t] \in 1 .. Len(Patches) + 1
             /\ DOMAIN OriginalProt = PagesOf(DOMAIN SlotTable(exe) \cup Around(Patches))
             /\ Touched(at[t]) \subseteq DOMAIN OriginalProt
             /\ Least(Touched(at[t])) \in Touched(at[t])
             /\ \A g, h \in Touched(at[t]) : OriginalProt[g] = OriginalProt[h]
  <2>1. t = Main /\ ToBeHooked /\ PlaceInv(t)
    BY <1>7, <1>9 DEF Step
  <2>2. pc[t] \in {"protect", "write", "restore"}
    BY <1>9 DEF Protect, Write, Restore
  <2>3. at[t] \in 1 .. Len(Patches) + 1
    BY <2>1, <2>2 DEF PlaceInv
  <2>4. QpcSlot # NoSlot /\ start \in Starts
    BY <2>1, HookedSlot DEF IInv, TypeOK
  <2>5. /\ Touched(at[t]) \subseteq PagesOf(DOMAIN SlotTable(exe) \cup Around(Patches))
        /\ Least(Touched(at[t])) \in Touched(at[t])
        /\ \A g, h \in Touched(at[t]) : g \in PagesOf(Around(Patches)) <=> h \in PagesOf(Around(Patches))
    BY <2>3, <2>4, TouchedFacts
  <2>6. DOMAIN OriginalProt = PagesOf(DOMAIN SlotTable(exe) \cup Around(Patches))
    BY OriginalIs
  <2>7. \A g, h \in Touched(at[t]) : OriginalProt[g] = OriginalProt[h]
    BY <2>5, OriginalIs
  <2> QED
    BY <2>1, <2>3, <2>5, <2>6, <2>7
<1>10. ASSUME NEW t \in Threads, Protect(t) PROVE PagesInv'
  <2> DEFINE old == prot[Least(Touched(at[t]))]
  <2>1. /\ pc[t] = "protect" /\ at' = at /\ saved' = [saved EXCEPT ![t] = old]
        /\ prot' = [g \in DOMAIN prot |-> IF g \in Touched(at[t]) THEN "RWX" ELSE prot[g]]
        /\ pc' = [pc EXCEPT ![t] = "write"]
    BY <1>10 DEF Protect, Goto
  <2>2. t = Main /\ prot = OriginalProt
    BY <1>9, <1>10, <2>1 DEF PagesInv
  <2>3. prot' = Opened(at[t])
    BY <2>1, <2>2 DEF Opened
  <2>4. \A g \in Touched(at[t]) : OriginalProt[g] = old
    BY <1>9, <1>10, <2>2
  <2>5. pc'[Main] = "write" /\ saved'[Main] = old /\ at'[Main] = at[t]
    BY <1>4, <2>1, <2>2
  <2> HIDE DEF old
  <2>6. (/\ prot = Opened(at[Main])
         /\ \A g \in Touched(at[Main]) : OriginalProt[g] = saved[Main])'
    BY <1>2, <2>3, <2>4, <2>5
  <2> QED
    BY <2>5, <2>6 DEF PagesInv
<1>11. ASSUME NEW t \in Threads, Write(t) PROVE PagesInv'
  <2>1. pc[t] = "write" /\ UNCHANGED <<prot, at, saved>>
    BY <1>11 DEF Write
  <2>2. /\ t = Main /\ prot = Opened(at[t])
        /\ \A g \in Touched(at[Main]) : OriginalProt[g] = saved[Main]
    BY <1>9, <1>11, <2>1 DEF PagesInv
  <2>3. \A g \in Touched(at[t]) : prot[g] = "RWX"
    BY <1>9, <1>11, <2>2 DEF Opened
  <2>4. pc' = [pc EXCEPT ![t] = "restore"]
    BY <1>11, <2>3 DEF Write, Goto
  <2> QED
    BY <1>2, <1>4, <2>1, <2>2, <2>4 DEF PagesInv
<1>12. ASSUME NEW t \in Threads, Restore(t) PROVE PagesInv'
  <2>1. /\ pc[t] = "restore" /\ prot' = Restored(t)
        /\ \E l \in {"out", "protect"} : pc' = [pc EXCEPT ![t] = l]
    BY <1>12 DEF Restore, Goto, AfterPatch
  <2>2. /\ t = Main /\ prot = Opened(at[t])
        /\ \A g \in Touched(at[t]) : OriginalProt[g] = saved[t]
    BY <1>9, <1>12, <2>1 DEF PagesInv
  <2>3. prot' = [g \in DOMAIN OriginalProt |-> OriginalProt[g]]
    BY <2>1, <2>2 DEF Restored, Opened
  <2>4. prot' = OriginalProt
    BY <2>3, OriginalIs
  <2> QED
    BY <1>2, <1>4, <2>1, <2>2, <2>4 DEF PagesInv
<1>13. CASE LoadBinary \/ HookLoader \/ Refuse \/ PassOver
  <2>1. UNCHANGED <<pc, at, saved, prot>>
    BY <1>13 DEF LoadBinary, HookLoader, Refuse, PassOver, gameVars
  <2> QED
    BY <1>5, <2>1
<1>14. CASE UNCHANGED vars
  BY <1>5, <1>14 DEF vars, gameVars
<1> QED
  BY <1>6, <1>8, <1>10, <1>11, <1>12, <1>13, <1>14 DEF Next, Step

-----------------------------------------------------------------------------
(* The bytes *)

\* Writing a patch puts it where it belongs and leaves the others there.
LEMMA PatchWritten ==
  ASSUME IInv, NEW n \in DOMAIN Patches, start' = start, code' = Patched(code, Patches[n])
  PROVE  /\ InPlace(n)'
         /\ \A k \in DOMAIN Patches : InPlace(k) => InPlace(k)'
         /\ \A a \in DOMAIN code' : code'[a] # Untouched => code[a] # Untouched \/ a \in Extent(Patches[n])
<1>1. Patches' = Patches /\ start \in Starts /\ DOMAIN code = Around(Patches)
  BY StartKept DEF IInv, TypeOK, Typed
<1>2. \A a \in DOMAIN code :
        code'[a] = IF a \in Extent(Patches[n]) THEN Bytes(Patches[n])[a - Patches[n].addr + 1] ELSE code[a]
  BY DEF Patched
<1>3. \A k \in DOMAIN Patches : Extent(Patches[k]) \subseteq DOMAIN code
  BY <1>1, ExtentFacts
<1>4. \A k \in DOMAIN Patches \ {n} : Extent(Patches[n]) \cap Extent(Patches[k]) = {}
  BY <1>1, StartFacts DEF StartOK, Patches
<1>5. InPlace(n)'
  BY <1>1, <1>2, <1>3 DEF InPlace
<1>6. ASSUME NEW k \in DOMAIN Patches, InPlace(k) PROVE InPlace(k)'
  <2>1. CASE k = n
    BY <1>5, <2>1
  <2>2. CASE k # n
    BY <1>1, <1>2, <1>3, <1>4, <1>6, <2>2 DEF InPlace
  <2> QED
    BY <2>1, <2>2
<1>7. DOMAIN code' = DOMAIN code
  BY DEF Patched
<1> QED
  BY <1>2, <1>5, <1>6, <1>7

\* A step of one thread keeps the patches in place if it writes only patches,
\* has those behind it in place, and all of them if it leaves the hook.
LEMMA PatchedKept ==
  ASSUME IInv, IInv', PatchedInv, start' = start, NEW t \in Threads,
         NEW l \in Places, pc' = [pc EXCEPT ![t] = l],
         NEW n \in Nat, at' = [at EXCEPT ![t] = n],
         \A a \in DOMAIN code' : code'[a] # Untouched =>
           code[a] # Untouched \/ \E k \in DOMAIN Patches : a \in Extent(Patches[k]),
         \A k \in DOMAIN Patches : InPlace(k) => InPlace(k)',
         l \in Patching =>
           \A k \in DOMAIN Patches : k < n \/ (k = n /\ l = "restore") => InPlace(k)',
         \/ l \notin {"before", "out"}
         \/ pc[t] \in {"before", "out"} /\ applied' = applied
         \/ \A k \in DOMAIN Patches : InPlace(k)'
  PROVE  PatchedInv'
<1>1. Patches' = Patches
  BY StartKept
<1>2. DOMAIN code' = DOMAIN code
  BY <1>1 DEF IInv, Typed
<1>3. pc \in [Threads -> Places] /\ at \in [Threads -> Nat]
  BY DEF IInv, Typed
<1>4. \A a \in DOMAIN code' : code'[a] # Untouched => \E k \in DOMAIN Patches' : a \in Extent(Patches'[k])
  BY <1>1, <1>2 DEF PatchedInv
<1>5. ASSUME NEW u \in Threads, NEW k \in DOMAIN Patches,
             pc'[u] \in Patching, k < at'[u] \/ (k = at'[u] /\ pc'[u] = "restore")
      PROVE  InPlace(k)'
  <2>1. CASE u = t
    BY <1>3, <1>5, <2>1
  <2>2. CASE u # t
    <3>1. pc'[u] = pc[u] /\ at'[u] = at[u]
      BY <1>3, <2>2
    <3>2. InPlace(k)
      BY <1>5, <3>1 DEF PatchedInv
    <3> QED
      BY <3>2
  <2> QED
    BY <2>1, <2>2
<1>6. ASSUME applied' > 0, InHook' = {}, Alive'
      PROVE  \A k \in DOMAIN Patches : InPlace(k)'
  <2>1. pc'[t] = l /\ l \in {"before", "out"}
    <3>1. pc'[t] = l
      BY <1>3
    <3>2. l # "crashed" /\ l \notin {"init_m", "fill_m", "init_d", "protect", "write", "restore"}
      BY <1>6, <3>1 DEF InHook, Alive
    <3> QED
      BY <3>1, <3>2 DEF Places
  <2>2. CASE pc[t] \in {"before", "out"} /\ applied' = applied
    <3>1. \A u \in Threads \ {t} : pc'[u] = pc[u]
      BY <1>3
    <3>2. InHook = {} /\ Alive /\ applied > 0
      BY <1>6, <2>2, <3>1 DEF InHook, Alive
    <3> QED
      BY <3>2 DEF PatchedInv
  <2> QED
    BY <2>1, <2>2
<1> QED
  BY <1>1, <1>4, <1>5, <1>6 DEF PatchedInv

\* Patches are written one after the other, by each thread in the hook.
LEMMA PatchedStep ==
  ASSUME IInv, IInv', PatchedInv, [Next]_vars PROVE PatchedInv'
<1>1. start' = start
  BY DEF Next, vars, loaderVars, LoadBinary, HookLoader, Refuse, PassOver, CallQpc, Step,
         ClearMheap, FillMheap, InitDheap, Protect, Write, Restore
<1>2. Patches' = Patches
  BY <1>1, StartKept
<1>3. ASSUME code' = code
      PROVE  /\ \A k : InPlace(k)' <=> InPlace(k)
             /\ \A k \in DOMAIN Patches : InPlace(k) => InPlace(k)'
             /\ \A a \in DOMAIN code' : code'[a] # Untouched =>
                  code[a] # Untouched \/ \E k \in DOMAIN Patches : a \in Extent(Patches[k])
  BY <1>2, <1>3 DEF InPlace
<1>4. CASE UNCHANGED <<code, pc, at, applied>>
  BY <1>2, <1>3, <1>4 DEF PatchedInv, InHook, Alive
<1>5. CASE LoadBinary \/ HookLoader \/ Refuse \/ PassOver
  <2>1. UNCHANGED <<code, pc, at, applied>>
    BY <1>5 DEF LoadBinary, HookLoader, Refuse, PassOver, gameVars
  <2> QED
    BY <1>4, <2>1
<1>6. CASE UNCHANGED vars
  BY <1>4, <1>6 DEF vars, gameVars
<1>7. ASSUME NEW t \in Threads, CallQpc(t) PROVE PatchedInv'
  <2>1. /\ UNCHANGED <<code, at, applied>> /\ pc[t] \in {"before", "out"}
        /\ \E l \in {"init_m", "out"} : pc' = [pc EXCEPT ![t] = l]
    BY <1>7 DEF CallQpc, Goto
  <2>2. PICK l \in {"init_m", "out"} : pc' = [pc EXCEPT ![t] = l]
    BY <2>1
  <2>3. l \in Places /\ l \notin Patching
    BY DEF Places, Patching
  <2>4. at[t] \in Nat /\ at' = [at EXCEPT ![t] = at[t]]
    BY <2>1, ThreadFacts
  <2> QED
    BY <1>1, <1>3, <2>1, <2>2, <2>3, <2>4, PatchedKept
<1>8. ASSUME NEW n \in DOMAIN Patches PROVE n \in Nat /\ n >= 1 /\ n <= Len(Patches)
  BY ExtentFacts DEF IInv, TypeOK
<1>9. ASSUME NEW t \in Threads, ClearMheap(t) \/ FillMheap(t) PROVE PatchedInv'
  <2> at[t] \in Nat
    BY ThreadFacts DEF IInv, Typed
  <2>1. /\ code' = code /\ pc[t] \in {"init_m", "fill_m"}
        /\ \E l \in {"fill_m", "init_d"} : \E n \in Nat :
             pc' = [pc EXCEPT ![t] = l] /\ at' = [at EXCEPT ![t] = n] /\ (l = "init_d" => n = 1)
    BY <1>9, ThreadFacts DEF ClearMheap, FillMheap, Goto, AfterMheap
  <2>2. PICK l \in {"fill_m", "init_d"}, n \in Nat :
          pc' = [pc EXCEPT ![t] = l] /\ at' = [at EXCEPT ![t] = n] /\ (l = "init_d" => n = 1)
    BY <2>1
  <2>3. /\ l \in Places /\ (l \in Patching => \A k \in DOMAIN Patches : ~(k < n))
        /\ l \notin {"before", "out", "restore"}
    BY <1>8, <2>2 DEF Places, Patching
  <2> QED
    BY <1>1, <1>3, <2>1, <2>2, <2>3, PatchedKept
<1>10. ASSUME NEW t \in Threads, pc[t] \in {"init_d", "protect"}, code' = code, at' = at,
              NEW l \in {"protect", "write", "crashed"}, pc' = [pc EXCEPT ![t] = l]
       PROVE  PatchedInv'
  <2>1. at[t] \in Nat /\ at' = [at EXCEPT ![t] = at[t]]
    BY <1>10, ThreadFacts
  <2>2. \A k \in DOMAIN Patches : k < at[t] => InPlace(k)'
    BY <1>3, <1>10 DEF PatchedInv, Patching
  <2>3. l \in Places /\ l # "restore" /\ l \notin {"before", "out"}
    BY DEF Places
  <2> QED
    BY <1>1, <1>3, <1>10, <2>1, <2>2, <2>3, PatchedKept
<1>11. ASSUME NEW t \in Threads, InitDheap(t) \/ Protect(t) PROVE PatchedInv'
  BY <1>10, <1>11 DEF InitDheap, Protect, Goto
<1>12. ASSUME NEW t \in Threads, Write(t) PROVE PatchedInv'
  <2>1. pc[t] = "write" /\ at[t] \in Nat /\ at' = [at EXCEPT ![t] = at[t]]
    BY <1>12, ThreadFacts DEF Write
  <2>2. \A k \in DOMAIN Patches : k < at[t] => InPlace(k)
    BY <2>1 DEF PatchedInv, Patching
  <2>3. "crashed" \in Places /\ "restore" \in Places
    BY DEF Places
  <2>4. CASE pc' = [pc EXCEPT ![t] = "crashed"] /\ code' = code
    <3>1. "crashed" \notin Patching /\ "crashed" \notin {"before", "out"}
      BY DEF Patching
    <3> QED
      BY <1>1, <1>3, <2>1, <2>3, <2>4, <3>1, PatchedKept
  <2>5. CASE pc' = [pc EXCEPT ![t] = "restore"] /\ code' = code /\ IsSlot(at[t])
    <3>1. \A k \in DOMAIN Patches : k # at[t]
      BY <1>8, <2>1, <2>5 DEF IsSlot
    <3>2. \A k \in DOMAIN Patches : k < at[t] \/ k = at[t] => InPlace(k)'
      BY <1>3, <2>2, <2>5, <3>1
    <3> QED
      BY <1>1, <1>3, <2>1, <2>3, <2>5, <3>2, PatchedKept
  <2>6. CASE /\ pc' = [pc EXCEPT ![t] = "restore"] /\ ~IsSlot(at[t])
             /\ code' = Patched(code, Patches[at[t]])
    <3>1. at[t] \in DOMAIN Patches
      <4>1. at[t] \in 1 .. Len(Patches) + 1
        BY <2>1, ThreadFacts DEF PlaceInv
      <4> QED
        BY <2>6, <4>1, PatchFacts DEF IInv, TypeOK
    <3>2. /\ \A k \in DOMAIN Patches : k = at[t] => InPlace(k)'
          /\ \A k \in DOMAIN Patches : InPlace(k) => InPlace(k)'
          /\ \A a \in DOMAIN code' : code'[a] # Untouched =>
               code[a] # Untouched \/ a \in Extent(Patches[at[t]])
      <4>1. PICK n \in DOMAIN Patches : n = at[t]
        BY <3>1
      <4>2. code' = Patched(code, Patches[n])
        BY <2>6, <4>1
      <4>3. /\ InPlace(n)'
            /\ \A k \in DOMAIN Patches : InPlace(k) => InPlace(k)'
            /\ \A a \in DOMAIN code' : code'[a] # Untouched =>
                 code[a] # Untouched \/ a \in Extent(Patches[n])
        BY <1>1, <4>2, PatchWritten
      <4> QED
        BY <4>1, <4>3
    <3>3. \A a \in DOMAIN code' : code'[a] # Untouched =>
            code[a] # Untouched \/ \E k \in DOMAIN Patches : a \in Extent(Patches[k])
      BY <3>1, <3>2
    <3>4. \A k \in DOMAIN Patches : k < at[t] \/ k = at[t] => InPlace(k)'
      BY <2>2, <3>2
    <3> QED
      BY <1>1, <2>1, <2>3, <2>6, <3>2, <3>3, <3>4, PatchedKept
  <2> QED
    BY <1>12, <2>4, <2>5, <2>6 DEF Write, Goto
<1>13. ASSUME NEW t \in Threads, Restore(t) PROVE PatchedInv'
  <2>1. /\ pc[t] = "restore" /\ code' = code /\ applied' = applied
        /\ at[t] \in 1 .. Len(Patches) + 1 /\ Len(Patches) \in Nat
    BY <1>13, ThreadFacts DEF Restore, PlaceInv, StartOK, Patches
  <2>2. \A k \in DOMAIN Patches : k < at[t] \/ k = at[t] => InPlace(k)'
    BY <1>3, <2>1 DEF PatchedInv, Patching
  <2>3. CASE IsSlot(at[t])
    <3>1. pc' = [pc EXCEPT ![t] = "out"] /\ at' = [at EXCEPT ![t] = 0]
      BY <1>13, <2>3 DEF Restore, Goto, AfterPatch
    <3>2. \A k \in DOMAIN Patches : InPlace(k)'
      BY <1>8, <2>1, <2>2, <2>3 DEF IsSlot
    <3>3. "out" \in Places /\ "out" \notin Patching
      BY DEF Places, Patching
    <3> QED
      BY <1>1, <1>3, <2>1, <3>1, <3>2, <3>3, PatchedKept
  <2>4. CASE ~IsSlot(at[t])
    <3>1. pc' = [pc EXCEPT ![t] = "protect"] /\ at' = [at EXCEPT ![t] = at[t] + 1]
      BY <1>13, <2>4, ThreadFacts DEF Restore, Goto, AfterPatch
    <3>2. \A k \in DOMAIN Patches : k < at[t] + 1 => InPlace(k)'
      BY <1>8, <2>1, <2>2
    <3>3. "protect" \in Places /\ at[t] + 1 \in Nat
      BY <2>1 DEF Places
    <3> QED
      BY <1>1, <1>3, <2>1, <3>1, <3>2, <3>3, PatchedKept
  <2> QED
    BY <2>3, <2>4
<1> QED
  BY <1>5, <1>6, <1>7, <1>9, <1>11, <1>12, <1>13 DEF Next, Step

-----------------------------------------------------------------------------
(* Jumps and tables *)

\* Four bytes make a dword.
LEMMA DwordHasValue ==
  ASSUME NEW v \in Nat, v \div 65536 < 65536
  PROVE  (v % 256) + 256 * (((v \div 256) % 256)
            + 256 * (((v \div 65536) % 256) + 256 * ((v \div 16777216) % 256))) = v
<1> DEFINE a == v \div 256
           b == v \div 65536
           c == v \div 16777216
<1>1. a \in Nat /\ b \in Nat /\ c \in Nat
  BY SMT
<1>2. v = 256 * a + (v % 256) /\ a = 256 * b + (a % 256) /\ b = 256 * c + (b % 256)
  BY SMT
<1>3. c < 256
  BY SMT
<1>4. c % 256 = c
  BY <1>1, <1>3, SMT
<1>5. v % 256 \in Nat /\ a % 256 \in Nat /\ b % 256 \in Nat
  BY <1>1, SMT
<1> HIDE DEF a, b, c
<1>6. (v % 256) + 256 * ((a % 256) + 256 * ((b % 256) + 256 * (c % 256))) = v
  BY <1>1, <1>2, <1>4, <1>5
<1> QED
  BY <1>6 DEF a, b, c

\* A relative jump gets where it is to go, round the address space or not.
LEMMA JumpArrives ==
  ASSUME NEW addr \in Nat, NEW dst \in 0 .. AddrSpace - 1
  PROVE  LET off == Offset(addr, dst) IN
         /\ off \in 0 .. AddrSpace - 1
         /\ (addr + 5 + off) % AddrSpace = dst
<1> DEFINE d == dst - addr - 5
           q == d \div AddrSpace
           off == d % AddrSpace
<1>1. AddrSpace \in Nat \ {0} /\ d \in Int
  BY HookTableAssumption
<1>2. q \in Int /\ off \in 0 .. AddrSpace - 1 /\ d = q * AddrSpace + off
  BY <1>1, SMT
<1> HIDE DEF q, off
<1>3. addr + 5 + off = dst - q * AddrSpace
  <2> DEFINE m == q * AddrSpace
  <2>1. m \in Int
    BY <1>1, <1>2
  <2> HIDE DEF m
  <2>2. d = m + off
    BY <1>2 DEF m
  <2>3. addr + 5 + off = dst - m
    BY <1>1, <1>2, <2>1, <2>2
  <2> QED
    BY <2>3 DEF m
<1>4. (dst - q * AddrSpace) % AddrSpace = dst
  <2> DEFINE x == dst - q * AddrSpace
             k == x \div AddrSpace
             r == x % AddrSpace
  <2>1. x \in Int /\ dst = x + q * AddrSpace
    BY <1>1, <1>2
  <2> HIDE DEF x
  <2>2. k \in Int /\ r \in 0 .. AddrSpace - 1 /\ x = k * AddrSpace + r
    BY <1>1, <2>1, SMT
  <2> HIDE DEF k, r
  <2>3. dst - r = (k + q) * AddrSpace
    BY <1>1, <1>2, <2>1, <2>2
  <2>4. dst - r < AddrSpace /\ -AddrSpace < dst - r
    BY <1>1, <2>2
  <2> DEFINE j == k + q
  <2>5. j \in Int /\ j * AddrSpace < 1 * AddrSpace /\ (-1) * AddrSpace < j * AddrSpace
    BY <1>1, <1>2, <2>2, <2>3, <2>4
  <2> HIDE DEF j
  <2>6. j < 1 /\ -1 < j
    BY <1>1, <2>5, SMT
  <2>7. j = 0
    BY <2>5, <2>6
  <2>8. dst = r
    BY <1>1, <2>2, <2>3, <2>7 DEF j
  <2> QED
    BY <2>8 DEF r, x
<1> QED
  BY <1>2, <1>3, <1>4 DEF Offset, off

\* Two sequences one after the other.
Joins(s, t, r) ==
  /\ Len(r) = Len(s) + Len(t)
  /\ \A i \in 1 .. Len(s) : r[i] = s[i]
  /\ \A i \in 1 .. Len(t) : r[i + Len(s)] = t[i]

LEMMA Joined ==
  ASSUME NEW T, NEW s \in Seq(T), NEW t \in Seq(T)
  PROVE  s \o t \in Seq(T) /\ Joins(s, t, s \o t)
  BY DEF Joins

\* A byte and four bytes.
LEMMA FiveJoined ==
  ASSUME NEW a, NEW b, NEW c, NEW d, NEW e
  PROVE  LET s == <<a>> \o <<b, c, d, e>> IN
         Len(s) = 5 /\ s[2] = b /\ s[3] = c /\ s[4] = d /\ s[5] = e
<1> DEFINE T == {a, b, c, d, e}
           h == <<a>>
           t == <<b, c, d, e>>
           s == h \o t
<1>1. h \in Seq(T) /\ Len(h) = 1 /\ t \in Seq(T) /\ Len(t) = 4
  OBVIOUS
<1>2. t[1] = b /\ t[2] = c /\ t[3] = d /\ t[4] = e
  OBVIOUS
<1> HIDE DEF T, h, t
<1>3. Joins(h, t, s)
  BY <1>1, Joined, Zenon
<1> HIDE DEF s
<1>4. Len(s) = 5 /\ s[1 + 1] = t[1] /\ s[2 + 1] = t[2] /\ s[3 + 1] = t[3] /\ s[4 + 1] = t[4]
  BY <1>1, <1>3 DEF Joins
<1> QED
  BY <1>2, <1>4 DEF h, t, s

\* The bytes of a jump.
LEMMA JumpBytes ==
  ASSUME NEW p, p.op = "jmp"
  PROVE  LET off == Offset(p.addr, FnAddr[p.arg]) IN
         /\ Len(Bytes(p)) = 5
         /\ Bytes(p)[2] = off % 256 /\ Bytes(p)[3] = (off \div 256) % 256
         /\ Bytes(p)[4] = (off \div 65536) % 256 /\ Bytes(p)[5] = (off \div 16777216) % 256
<1> DEFINE off == Offset(p.addr, FnAddr[p.arg])
<1>1. Bytes(p) = <<\hE9>> \o Dword(off)
  BY DEF Bytes
<1> HIDE DEF off
<1> DEFINE d1 == off % 256
           d2 == (off \div 256) % 256
           d3 == (off \div 65536) % 256
           d4 == (off \div 16777216) % 256
<1>2. Dword(off) = <<d1, d2, d3, d4>>
  BY DEF Dword
<1> HIDE DEF d1, d2, d3, d4
<1>3. Bytes(p) = <<\hE9>> \o <<d1, d2, d3, d4>>
  BY <1>1, <1>2
<1>4. Len(Bytes(p)) = 5 /\ Bytes(p)[2] = d1 /\ Bytes(p)[3] = d2 /\ Bytes(p)[4] = d3 /\ Bytes(p)[5] = d4
  BY <1>3, FiveJoined
<1> QED
  BY <1>4 DEF off, d1, d2, d3, d4

\* Where the bytes of a jump are in memory the processor gets to the function.
LEMMA JumpIsTaken ==
  ASSUME start \in Starts, NEW n \in DOMAIN Patches, Patches[n].op = "jmp", InPlace(n)
  PROVE  JumpTarget(code, Patches[n].addr) = FnAddr[Patches[n].arg]
<1> DEFINE p == Patches[n]
           dst == FnAddr[p.arg]
           off == Offset(p.addr, dst)
<1>1. p.addr \in Nat /\ p.arg \in DOMAIN FnAddr
  BY StartFacts DEF StartOK, Patches
<1>2. dst \in 0 .. AddrSpace - 1
  BY <1>1, HookTableAssumption
<1>3. off \in 0 .. AddrSpace - 1 /\ (p.addr + 5 + off) % AddrSpace = dst
  BY <1>1, <1>2, JumpArrives
<1>4. /\ Len(Bytes(p)) = 5
      /\ Bytes(p)[2] = off % 256 /\ Bytes(p)[3] = (off \div 256) % 256
      /\ Bytes(p)[4] = (off \div 65536) % 256 /\ Bytes(p)[5] = (off \div 16777216) % 256
  BY JumpBytes
<1>5. \A i \in 1 .. 4 : code[p.addr + i] = Bytes(p)[i + 1]
  <2> TAKE i \in 1 .. 4
  <2>1. p.addr + i \in Extent(p) /\ (p.addr + i) - p.addr + 1 = i + 1
    BY <1>1, <1>4 DEF Extent
  <2> QED
    BY <2>1 DEF InPlace
<1> HIDE DEF dst, off
<1>6. off \in Nat /\ off \div 65536 < 65536
  BY <1>3, HookTableAssumption, SMT
<1> DEFINE m == [i \in 1 .. 4 |-> code[p.addr + i]]
<1>7. m[1] = Bytes(p)[2] /\ m[2] = Bytes(p)[3] /\ m[3] = Bytes(p)[4] /\ m[4] = Bytes(p)[5]
  BY <1>5
<1> HIDE DEF m
<1>8. ValueOf(m) = off
  BY <1>4, <1>6, <1>7, DwordHasValue DEF ValueOf
<1>9. JumpTarget(code, p.addr) = (p.addr + 5 + off) % AddrSpace
  BY <1>8 DEF JumpTarget, m
<1> QED
  BY <1>3, <1>9 DEF dst

\* A sequence, whatever its elements are.
IsList(s) == \E T : s \in Seq(T)

\* Some patch of a table is a jump to f.
Reaches(s, f) == \E n \in DOMAIN s : s[n].op = "jmp" /\ s[n].arg = f

\* The parts of a table make a table that reaches what they reach.
LEMMA PartsReach ==
  ASSUME NEW s, NEW t, IsList(s), IsList(t)
  PROVE  IsList(s \o t) /\ \A f : Reaches(s, f) \/ Reaches(t, f) => Reaches(s \o t, f)
<1>1. PICK T : s \in Seq(T)
  BY DEF IsList
<1>2. PICK U : t \in Seq(U)
  BY DEF IsList
<1>3. s \in Seq(T \cup U) /\ t \in Seq(T \cup U)
  BY <1>1, <1>2
<1> DEFINE r == s \o t
<1>4. r \in Seq(T \cup U) /\ Joins(s, t, r)
  BY <1>3, Joined, Zenon
<1> HIDE DEF r
<1>5. /\ DOMAIN s = 1 .. Len(s) /\ DOMAIN t = 1 .. Len(t) /\ DOMAIN r = 1 .. Len(r)
      /\ Len(s) \in Nat /\ Len(t) \in Nat
  BY <1>3, <1>4
<1>6. ASSUME NEW f, Reaches(s, f) PROVE Reaches(r, f)
  <2>1. PICK n \in DOMAIN s : s[n].op = "jmp" /\ s[n].arg = f
    BY <1>6 DEF Reaches
  <2>2. n \in DOMAIN r /\ r[n] = s[n]
    BY <1>4, <1>5 DEF Joins
  <2> QED
    BY <2>1, <2>2 DEF Reaches
<1>7. ASSUME NEW f, Reaches(t, f) PROVE Reaches(r, f)
  <2>1. PICK n \in DOMAIN t : t[n].op = "jmp" /\ t[n].arg = f
    BY <1>7 DEF Reaches
  <2>2. n + Len(s) \in DOMAIN r /\ r[n + Len(s)] = t[n]
    BY <1>4, <1>5 DEF Joins
  <2> QED
    BY <2>1, <2>2 DEF Reaches
<1>8. IsList(r)
  BY <1>4 DEF IsList
<1> QED
  BY <1>6, <1>7, <1>8 DEF r

\* Jumps reach the functions they are given.
LEMMA JmpsReach ==
  ASSUME NEW pairs, NEW n \in Nat, DOMAIN pairs = 1 .. n
  PROVE  IsList(Jmps(pairs)) /\ \A i \in 1 .. n : Reaches(Jmps(pairs), pairs[i][2])
<1> DEFINE T == {Jmp(pairs[i][1], pairs[i][2]) : i \in DOMAIN pairs}
<1>1. Jmps(pairs) \in [1 .. n -> T]
  BY DEF Jmps
<1>2. IsList(Jmps(pairs))
  <2>1. Jmps(pairs) \in Seq(T)
    BY <1>1
  <2> QED
    BY <2>1 DEF IsList
<1>3. ASSUME NEW i \in 1 .. n PROVE Reaches(Jmps(pairs), pairs[i][2])
  <2>1. i \in DOMAIN Jmps(pairs) /\ Jmps(pairs)[i] = Jmp(pairs[i][1], pairs[i][2])
    BY DEF Jmps
  <2> QED
    BY <2>1 DEF Jmp, Reaches
<1> QED
  BY <1>2, <1>3

\* A jump behind another patch, and a patch alone.
LEMMA FewReach ==
  ASSUME NEW p, NEW addr, NEW f
  PROVE  IsList(<<p, Jmp(addr, f)>>) /\ Reaches(<<p, Jmp(addr, f)>>, f) /\ IsList(<<p>>)
<1> DEFINE j == Jmp(addr, f)
<1>1. j.op = "jmp" /\ j.arg = f
  BY DEF Jmp
<1> HIDE DEF j
<1> DEFINE two == <<p, j>>
           one == <<p>>
<1>2. two \in Seq({p, j}) /\ one \in Seq({p})
  OBVIOUS
<1> HIDE DEF two, one
<1>3. IsList(two) /\ IsList(one)
  BY <1>2 DEF IsList
<1>4. 2 \in DOMAIN <<p, j>> /\ <<p, j>>[2] = j
  OBVIOUS
<1>5. Reaches(<<p, j>>, f)
  BY <1>1, <1>4 DEF Reaches
<1> QED
  BY <1>3, <1>5 DEF j, two, one

\* The other patches.
LEMMA EachIsList ==
  ASSUME NEW P, NEW addrs \in Seq(P)
  PROVE  IsList(Each(Ret, addrs)) /\ IsList(Each(NopCall, addrs))
<1> DEFINE r == Each(Ret, addrs)
           c == Each(NopCall, addrs)
           T == {Ret(addrs[i]) : i \in DOMAIN addrs}
           U == {NopCall(addrs[i]) : i \in DOMAIN addrs}
<1>1. DOMAIN addrs = 1 .. Len(addrs) /\ Len(addrs) \in Nat
  OBVIOUS
<1>2. r \in [1 .. Len(addrs) -> T] /\ c \in [1 .. Len(addrs) -> U]
  BY <1>1 DEF Each
<1> HIDE DEF r, c, T, U
<1>3. r \in Seq(T) /\ c \in Seq(U)
  BY <1>1, <1>2
<1>4. IsList(r) /\ IsList(c)
  BY <1>3 DEF IsList
<1> QED
  BY <1>4 DEF r, c

\* The functions the jumps at the front of a table are for, and those further on.
First  == {"crt_malloc", "crt_calloc", "crt_realloc", "crt_recalloc", "crt_msize", "crt_free",
           "game_heap_allocate", "game_heap_reallocate", "game_heap_msize", "game_heap_free"}
Second == {"sheap_init_fix", "sheap_init_var", "sheap_alloc", "sheap_free", "sheap_purge"}

LEMMA Functions ==
  DOMAIN FnAddr \subseteq First \cup Second \cup {"sheap_get_thread_local"}
<1>1. DOMAIN FnAddr = {Replacements[i] : i \in DOMAIN Replacements}
  BY HookTableAssumption
<1>2. DOMAIN Replacements = 1 .. 16
  BY DEF Replacements
<1>3. \A i \in 1 .. 16 : Replacements[i] \in First \cup Second \cup {"sheap_get_thread_local"}
  BY DEF Replacements, First, Second
<1> QED
  BY <1>1, <1>2, <1>3

\* A table put together like the two of the library reaches all functions.
LEMMA TableReaches ==
  ASSUME NEW A, NEW B, NEW C, NEW D, NEW E,
         IsList(A), IsList(B), IsList(C), IsList(D), IsList(E),
         \A f \in First : Reaches(A, f), \A f \in Second : Reaches(C, f),
         Reaches(D, "sheap_get_thread_local")
  PROVE  LET t == A \o B \o C \o D \o E IN
         IsList(t) /\ \A f \in DOMAIN FnAddr : Reaches(t, f)
<1> DEFINE b == A \o B
           c == b \o C
           d == c \o D
           e == d \o E
<1>1. IsList(b) /\ \A f \in First : Reaches(b, f)
  BY PartsReach
<1> HIDE DEF b
<1>2. IsList(c) /\ \A f \in First \cup Second : Reaches(c, f)
  BY <1>1, PartsReach
<1> HIDE DEF c
<1>3. IsList(d) /\ \A f \in First \cup Second \cup {"sheap_get_thread_local"} : Reaches(d, f)
  BY <1>2, PartsReach
<1> HIDE DEF d
<1>4. IsList(e) /\ \A f \in First \cup Second \cup {"sheap_get_thread_local"} : Reaches(e, f)
  BY <1>3, PartsReach
<1> QED
  BY <1>4, Functions DEF b, c, d

LEMMA FNVReaches == \A f \in DOMAIN FnAddr : Reaches(FNV, f)
<1> DEFINE first == << <<\hECD1C7, "crt_malloc">>, <<\hED0CDF, "crt_malloc">>,
                       <<\hEDDD7D, "crt_calloc">>, <<\hED0D24, "crt_calloc">>,
                       <<\hECCF5D, "crt_realloc">>, <<\hED0D70, "crt_realloc">>,
                       <<\hEE1700, "crt_recalloc">>, <<\hED0DBE, "crt_recalloc">>,
                       <<\hECD31F, "crt_msize">>, <<\hECD291, "crt_free">>,
                       <<\hAA3E40, "game_heap_allocate">>,
                       <<\hAA4150, "game_heap_reallocate">>,
                       <<\hAA4200, "game_heap_reallocate">>,
                       <<\hAA44C0, "game_heap_msize">>, <<\hAA4060, "game_heap_free">> >>
           rets == <<\hAA6840, \h866E00, \h866770, \hAA6F90, \hAA7030, \hAA7290,
                     \hAA7300, \hAA58D0, \h866D10, \hAA5C80>>
           second == << <<\hAA53F0, "sheap_init_fix">>, <<\hAA5410, "sheap_init_var">>,
                        <<\hAA54A0, "sheap_alloc">>, <<\hAA5610, "sheap_free">>,
                        <<\hAA5460, "sheap_purge">> >>
           calls == <<\hAA3060, \h86C56F, \hC42EB1, \hEC1701>>
           gap == Nops(\hAA38CA, \hAA38E8 - \hAA38CA)
           getter == \hAA42E0
           byte == Raw(\h86EED4, <<\hEB, \h55>>)
           raw == <<byte>>
           mid == <<gap, Jmp(getter, "sheap_get_thread_local")>>
<1>1. DOMAIN first = 1 .. 15 /\ DOMAIN second = 1 .. 5
  BY SMT
<1>2. rets \in Seq(Nat) /\ calls \in Seq(Nat)
  BY SMT
<1>4. \A f \in First : \E i \in 1 .. 15 : first[i][2] = f
  BY SMT DEF First
<1>5. \A f \in Second : \E i \in 1 .. 5 : second[i][2] = f
  BY SMT DEF Second
<1>7. FNV = Jmps(first) \o Each(Ret, rets) \o Jmps(second) \o mid \o Each(NopCall, calls) \o raw
  BY SMT DEF FNV
<1> HIDE DEF first, rets, second, calls, gap, getter, byte
<1>6. IsList(mid) /\ Reaches(mid, "sheap_get_thread_local")
  BY FewReach
<1>8. IsList(raw)
  BY FewReach
<1> HIDE DEF mid, raw
<1>9. /\ IsList(Jmps(first)) /\ \A f \in First : Reaches(Jmps(first), f)
      /\ IsList(Jmps(second)) /\ \A f \in Second : Reaches(Jmps(second), f)
  <2>1. 15 \in Nat /\ 5 \in Nat
    OBVIOUS
  <2>2. IsList(Jmps(first)) /\ \A i \in 1 .. 15 : Reaches(Jmps(first), first[i][2])
    BY <1>1, <2>1, JmpsReach, Zenon
  <2>3. IsList(Jmps(second)) /\ \A i \in 1 .. 5 : Reaches(Jmps(second), second[i][2])
    BY <1>1, <2>1, JmpsReach, Zenon
  <2> QED
    BY <1>4, <1>5, <2>2, <2>3, Zenon
<1>10. IsList(Each(Ret, rets)) /\ IsList(Each(NopCall, calls))
  BY <1>2, EachIsList
<1> DEFINE a == Jmps(first)
           b == Each(Ret, rets)
           c == Jmps(second)
           e == Each(NopCall, calls)
           most == a \o b \o c \o mid \o e
<1>11. IsList(a) /\ IsList(b) /\ IsList(c) /\ IsList(e)
       /\ (\A f \in First : Reaches(a, f)) /\ (\A f \in Second : Reaches(c, f))
  BY <1>9, <1>10
<1>12. FNV = most \o raw
  BY <1>7
<1> HIDE DEF a, b, c, e
<1>13. IsList(most) /\ \A f \in DOMAIN FnAddr : Reaches(most, f)
  BY <1>6, <1>11, TableReaches
<1> HIDE DEF most
<1> QED
  BY <1>8, <1>12, <1>13, PartsReach

LEMMA FO3Reaches == \A f \in DOMAIN FnAddr : Reaches(FO3, f)
<1> DEFINE first == << <<\hC063F5, "crt_malloc">>, <<\hC0AB3F, "crt_malloc">>,
                       <<\hC1843C, "crt_calloc">>, <<\hC0AB7F, "crt_calloc">>,
                       <<\hC06546, "crt_realloc">>, <<\hC0ABC7, "crt_realloc">>,
                       <<\hC06761, "crt_recalloc">>, <<\hC0AC12, "crt_recalloc">>,
                       <<\hC067DA, "crt_msize">>, <<\hC064B8, "crt_free">>,
                       <<\h86B930, "game_heap_allocate">>,
                       <<\h86BAE0, "game_heap_reallocate">>,
                       <<\h86BB50, "game_heap_reallocate">>,
                       <<\h86B8C0, "game_heap_msize">>, <<\h86BA60, "game_heap_free">> >>
           rets == <<\h86D670, \h6E21F0, \h6E1E10, \h86C600, \h6E1CD0, \h86CA30>>
           second == << <<\h86CB70, "sheap_init_fix">>, <<\h86CB90, "sheap_init_var">>,
                        <<\h86C710, "sheap_alloc">>, <<\h86C7B0, "sheap_free">>,
                        <<\h86CAA0, "sheap_purge">> >>
           calls == <<\h6E9B30, \h7FACDB, \hAA6534>>
           gap == Nops(\h86C038, \h86C086 - \h86C038)
           getter == \h86BCB0
           mid == <<gap, Jmp(getter, "sheap_get_thread_local")>>
<1>1. DOMAIN first = 1 .. 15 /\ DOMAIN second = 1 .. 5
  BY SMT
<1>2. rets \in Seq(Nat) /\ calls \in Seq(Nat)
  BY SMT
<1>4. \A f \in First : \E i \in 1 .. 15 : first[i][2] = f
  BY SMT DEF First
<1>5. \A f \in Second : \E i \in 1 .. 5 : second[i][2] = f
  BY SMT DEF Second
<1>7. FO3 = Jmps(first) \o Each(Ret, rets) \o Jmps(second) \o mid \o Each(NopCall, calls)
  BY SMT DEF FO3
<1> HIDE DEF first, rets, second, calls, gap, getter
<1>6. IsList(mid) /\ Reaches(mid, "sheap_get_thread_local")
  BY FewReach
<1> HIDE DEF mid
<1>9. /\ IsList(Jmps(first)) /\ \A f \in First : Reaches(Jmps(first), f)
      /\ IsList(Jmps(second)) /\ \A f \in Second : Reaches(Jmps(second), f)
  <2>1. 15 \in Nat /\ 5 \in Nat
    OBVIOUS
  <2>2. IsList(Jmps(first)) /\ \A i \in 1 .. 15 : Reaches(Jmps(first), first[i][2])
    BY <1>1, <2>1, JmpsReach, Zenon
  <2>3. IsList(Jmps(second)) /\ \A i \in 1 .. 5 : Reaches(Jmps(second), second[i][2])
    BY <1>1, <2>1, JmpsReach, Zenon
  <2> QED
    BY <1>4, <1>5, <2>2, <2>3, Zenon
<1>10. IsList(Each(Ret, rets)) /\ IsList(Each(NopCall, calls))
  BY <1>2, EachIsList
<1> DEFINE a == Jmps(first)
           b == Each(Ret, rets)
           c == Jmps(second)
           e == Each(NopCall, calls)
           most == a \o b \o c \o mid \o e
<1>11. IsList(a) /\ IsList(b) /\ IsList(c) /\ IsList(e)
       /\ (\A f \in First : Reaches(a, f)) /\ (\A f \in Second : Reaches(c, f))
  BY <1>9, <1>10
<1>12. FO3 = most
  BY <1>7
<1> HIDE DEF a, b, c, e
<1>13. IsList(most) /\ \A f \in DOMAIN FnAddr : Reaches(most, f)
  BY <1>6, <1>11, TableReaches
<1> QED
  BY <1>12, <1>13

-----------------------------------------------------------------------------
(* The theorems *)

\* The library knows at each stage what it has found and done.
THEOREM Invariance == Spec => []IInv
<1> QED
  BY InitIInv, NextIInv, PTL DEF Spec

\* get_min_iset loads a binary only if the processor has the feature that was
\* tested for it, so one that has instruction sets only whole can execute it.
THEOREM BinariesExecute == Spec => []BinaryExecutes
<1>1. IInv => BinaryExecutes
  <2> SUFFICES ASSUME IInv PROVE BinaryExecutes
    OBVIOUS
  <2>1. CASE stage = "load"
    BY <2>1 DEF IInv, StageInv, BinaryExecutes
  <2>2. CASE stage # "load"
    <3>1. binary = get_min_iset(start.cpu)
      BY <2>2 DEF IInv, StageInv
    <3> QED
      BY <3>1, ChosenIsThere DEF BinaryExecutes
  <2> QED
    BY <2>1, <2>2
<1> QED
  BY <1>1, Invariance, PTL

\* With one thread until the hook is out, the heaps are set up once and before
\* the game is patched; with more threads a pool is missing afterwards only
\* while some thread fills the tables (qpc_hook, mheap_init).
THEOREM HeapsAreSetUpOnce == Spec => []HeapsSetUpOnce
<1>1. ASSUME IInv PROVE HeapsSetUpOnce
  <2>1. IsPatched /\ pools # AllPools => \E u \in Threads : pc[u] = "fill_m"
    BY <1>1 DEF IInv, TypeOK, HeapsInv
  <2>2. OneEarly /\ IsPatched => \A u \in Threads : pc[u] # "fill_m"
    <3>1. SUFFICES ASSUME OneEarly, IsPatched, NEW u \in Threads, pc[u] = "fill_m"
                   PROVE  FALSE
      OBVIOUS
    <3> QED
      BY <1>1, <3>1, ThreadFacts DEF IInv, OnceInv
  <2>3. IsPatched => dheap
    BY <1>1 DEF IInv, HeapsInv
  <2>4. OneEarly => applied <= 1
    BY <1>1 DEF IInv, OnceInv
  <2> QED
    BY <2>1, <2>2, <2>3, <2>4 DEF HeapsSetUpOnce, IsPatched, Filling
<1> QED
  BY <1>1, Invariance, PTL

\* A start has no page open and no byte patched.
LEMMA InitPatches == Init => PagesInv /\ PatchedInv
<1> SUFFICES ASSUME Init PROVE PagesInv /\ PatchedInv
  OBVIOUS
<1>1. Main \in Threads
  BY StartFacts DEF Init, StartOK
<1>2. PagesInv
  BY <1>1 DEF Init, PagesInv
<1>3. PatchedInv
  BY DEF Init, PatchedInv, Patching
<1> QED
  BY <1>2, <1>3

\* What is known of the pages and of the bytes rests on the rest.
LEMMA PatchesInvariance == Spec => [](IInv /\ PagesInv /\ PatchedInv)
<1>1. Init => IInv /\ PagesInv /\ PatchedInv
  BY InitIInv, InitPatches
<1>2. IInv /\ PagesInv /\ PatchedInv /\ [Next]_vars => (IInv /\ PagesInv /\ PatchedInv)'
  BY NextIInv, PagesStep, PatchedStep
<1> QED
  BY <1>1, <1>2, PTL DEF Spec

\* After the hook each of the game's allocation functions jumps to the one that
\* replaces it, in both games all replacements are reached, no patch has damaged
\* another or the bytes around it, and with one thread until the hook is out the
\* pages are protected as before (apply_hr_hooks, patch_bytes).
THEOREM GameGetsPatched == Spec => []GameIsPatched
<1>1. ASSUME IInv, PagesInv, PatchedInv PROVE GameIsPatched
  <2> SUFFICES ASSUME applied > 0, InHook = {}, Alive PROVE GameIsPatched
    BY DEF GameIsPatched
  <2> DEFINE jumps == {n \in DOMAIN Patches : Patches[n].op = "jmp"}
  <2>1. StartOK(start) /\ start \in Starts
    BY <1>1, StartFacts DEF IInv, TypeOK
  <2>2. OneEarly => prot = OriginalProt
    <3>1. Main \in Threads
      BY <2>1 DEF StartOK
    <3>2. pc[Main] \notin {"write", "restore"}
      BY <3>1 DEF InHook
    <3> QED
      BY <1>1, <3>2 DEF PagesInv
  <2>3. \A n \in DOMAIN Patches : InPlace(n)
    BY <1>1 DEF PatchedInv
  <2>4. ASSUME NEW n \in DOMAIN Patches, NEW a \in Extent(Patches[n])
        PROVE  code[a] = Patched(code, Patches[n])[a]
    <3>1. a \in DOMAIN code
      BY <1>1, <2>1, ExtentFacts DEF IInv, Typed
    <3> QED
      BY <2>3, <3>1 DEF Patched, InPlace
  <2>5. \A n \in jumps : JumpTarget(code, Patches[n].addr) = FnAddr[Patches[n].arg]
    BY <2>1, <2>3, JumpIsTaken
  <2>6. {Patches[n].arg : n \in jumps} = DOMAIN FnAddr \/ Patches # Table[start.build]
    <3>1. \A n \in jumps : Patches[n].arg \in DOMAIN FnAddr
      BY <2>1 DEF StartOK, Patches
    <3>2. SUFFICES ASSUME Patches = Table[start.build], NEW f \in DOMAIN FnAddr
                   PROVE  \E n \in jumps : Patches[n].arg = f
      BY <3>1
    <3>3. Patches \in {FNV, FO3}
      BY <2>1, <3>2 DEF StartOK, Table
    <3>4. Reaches(Patches, f)
      BY <3>3, FNVReaches, FO3Reaches
    <3> QED
      BY <3>4 DEF Reaches
  <2>7. \A a \in DOMAIN code : code[a] # Untouched => \E n \in DOMAIN Patches : a \in Extent(Patches[n])
    BY <1>1 DEF PatchedInv
  <2> HIDE DEF jumps
  <2> QED
    BY <2>2, <2>4, <2>5, <2>6, <2>7 DEF GameIsPatched, jumps
<1> QED
  BY <1>1, PatchesInvariance, PTL

\* What was decided by the masks and by what was there.
LEMMA Decided ==
  IInv => TypeOK /\ (stage = "run" =>
    /\ Hooked \/ applied > 0 <=> Present /\ IsGame /\ exe.laa
    /\ told <=> ~Present \/ (IsGame /\ ~exe.laa) \/ (~IsGame /\ ~IsGeck))
<1>1. applied = 0 => ~(applied > 0)
  OBVIOUS
<1> QED
  BY <1>1, Zenon DEF IInv, RunInv, ToBeHooked

\* Where the masks tell the game and its editor from other programs,
\* create_loader_hook hooks the game and nothing else, and says why not.
THEOREM OnlyTheGameIsHooked ==
  ASSUME \A s \in Starts :
           LET slot == GetImportAddress(s.exe.imports, Kernel, Qpc)
               game == Matches(slot, GameMask[s.build]) IN
           /\ s.exe.is = s.build <=> game
           /\ s.exe.is = s.build \o " GECK" => ~game /\ Matches(slot, GeckMask[s.build])
  PROVE  Spec => []RightProgram
<1>1. ASSUME IInv PROVE RightProgram
  <2>1. /\ exe.is = start.build <=> IsGame
        /\ exe.is = start.build \o " GECK" => ~IsGame /\ IsGeck
    BY <1>1 DEF IInv, TypeOK, exe, QpcSlot, IsGame, IsGeck
  <2>2. start \in Starts /\ exe.laa \in BOOLEAN
    BY <1>1, StartFacts DEF IInv, TypeOK, StartOK, exe
  <2> QED
    BY <1>1, <2>1, <2>2, Decided, Zenon DEF Present, RightProgram
<1> QED
  BY <1>1, Invariance, PTL
=============================================================================
