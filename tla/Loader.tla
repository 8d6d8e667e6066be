------------------------------- MODULE Loader -------------------------------
(***************************************************************************)
(* How the library gets into the game (src/heap_replacer/main/main.c with  *)
(* the patching functions of main/util.h, and src/cpu_info/main.c).  The   *)
(* forwarding library loads the binary for the processor.  The binary's    *)
(* DllMain finds the slot of the import table through which the executable *)
(* calls QueryPerformanceCounter, tells from the slot's address which      *)
(* program this is, and puts qpc_hook there.  The first call sets up the   *)
(* heaps, patches the game, and takes the hook out again.  Another thread  *)
(* that calls meanwhile does the same again, the set-up included.          *)
(*                                                                         *)
(* patch_bytes is three steps: make the pages writable, write, give the    *)
(* pages the protection back that VirtualProtect reported of the first.    *)
(***************************************************************************)
EXTENDS HookTable, CpuInfo

CONSTANTS
  Threads,
  Main,      \* the thread that starts the game
  Starts,    \* the circumstances of a start
  PoolCount, \* countof(pool_desc)
  PageSize

\* A start is [cpu, installed, build, exe, early, patches]: the processor, the
\* binaries that are there, the game they were built for and its patches, the
\* executable, and the threads that may run before Main's first call returns.
\* An executable is [is, laa, imports], an import of it [dll, thunk, names]:
\* the address of its first slot (NoSlot if it has none) and the name of the
\* function of each slot, or Ordinal.
Ordinal == "by ordinal"
NoSlot  == 0
Qpc     == "QueryPerformanceCounter"
Kernel  == "kernel32.dll"

\* Slot j of an import, and all slots of an executable.
SlotAt(import, j) == import.thunk + 4 * (j - 1)
SlotsOf(e) == UNION {{n} \X DOMAIN e.imports[n].names : n \in DOMAIN e.imports}
Place(e, slot) == SlotAt(e.imports[slot[1]], slot[2])

\* Slots are dwords of their own; patches have bytes of their own.
StartOK(s) ==
  /\ Main \in s.early /\ s.early \subseteq Threads
  /\ s.build \in DOMAIN Table /\ s.exe.laa \in BOOLEAN
  /\ s.exe.imports \in Seq([dll : STRING, thunk : Nat, names : Seq(STRING)])
  /\ \A i, j \in SlotsOf(s.exe) :
       Place(s.exe, i) % 4 = 0 /\ (Place(s.exe, i) = Place(s.exe, j) => i = j)
  /\ Len(s.patches) \in Nat /\ DOMAIN s.patches = 1 .. Len(s.patches)
  /\ \A n \in DOMAIN s.patches :
       /\ s.patches[n].addr \in Nat /\ Bytes(s.patches[n]) \in Seq(0 .. 255) \ {<<>>}
       /\ s.patches[n].op = "jmp" => s.patches[n].arg \in DOMAIN FnAddr
       /\ \A k \in DOMAIN s.patches \ {n} : Extent(s.patches[n]) \cap Extent(s.patches[k]) = {}

ASSUME LoaderAssumption ==
  PageSize \in Nat \ {0} /\ PageSize % 4 = 0 /\ PoolCount \in Nat \ {0} /\ \A s \in Starts : StartOK(s)

VARIABLES
  start,    \* the start this is
  stage,    \* "load", "attach", "run": the DllMain that is next, or none is
  binary,   \* the binary that was chosen
  told,     \* a message box was shown
  iat,      \* the slots of the import table: address |-> function
  old_qpc,  \* what the slot held before the hook
  code,     \* the bytes of the game at the patches and next to them
  prot,     \* page |-> protection
  pools,    \* the pools mheap_init_pools has seen to since the tables were cleared
  dheap,    \* dheap_init has run
  applied,  \* ghost: how often apply_hr_hooks was entered
  pc, at,   \* each thread, and the number of the pool or patch it is at
  saved     \* p of patch_bytes: the protection to restore

loaderVars == <<start, stage, binary, told, old_qpc>>
gameVars   == <<code, prot, pools, dheap, applied, pc, at, saved>>
vars       == <<loaderVars, iat, gameVars>>

Untouched == -1

Least(S)   == CHOOSE x \in S : \A y \in S : x <= y
PagesOf(S) == {a \div PageSize : a \in S}

exe     == start.exe
Patches == start.patches
Around(table) ==
  UNION {table[i].addr - 1 .. table[i].addr + Len(Bytes(table[i])) : i \in DOMAIN table}

\* What the slots hold before the hook.
SlotTable(e) ==
  [a \in {Place(e, slot) : slot \in SlotsOf(e)} |->
     LET slot == CHOOSE slot \in SlotsOf(e) : Place(e, slot) = a IN
     e.imports[slot[1]].names[slot[2]]]

OriginalProt == [page \in PagesOf(DOMAIN iat \cup DOMAIN code) |->
                   IF page \in PagesOf(DOMAIN code) THEN "RX" ELSE "R"]

Init ==
  /\ start \in Starts
  /\ stage = "load"
  /\ binary = "none"
  /\ told = FALSE
  /\ iat = SlotTable(exe)
  /\ old_qpc = "none"
  /\ code = [a \in Around(Patches) |-> Untouched]
  /\ prot = OriginalProt
  /\ pools = {} /\ dheap = FALSE
  /\ applied = 0
  /\ pc = [t \in Threads |-> "before"]
  /\ at = [t \in Threads |-> 0]
  /\ saved = [t \in Threads |-> "none"]

-----------------------------------------------------------------------------
(* The DllMain of the forwarding library *)

\* The binary is loaded if it is there, a message box shown if not.
LoadBinary ==
  /\ stage = "load"
  /\ binary' = get_min_iset(start.cpu)
  /\ stage' = IF binary' \in start.installed THEN "attach" ELSE "run"
  /\ told' = (binary' \notin start.installed)
  /\ UNCHANGED <<start, old_qpc, iat, gameVars>>

-----------------------------------------------------------------------------
(* DllMain: create_loader_hook *)

SlotIn(import, func) ==
  SlotAt(import, Least({j \in DOMAIN import.names : import.names[j] = func}))

\* get_import_address: the first import of the dll that has the function, but
\* none when one without slots comes before it.
GetImportAddress(imports, dll, func) ==
  LET has(n) == \E j \in DOMAIN imports[n].names : imports[n].names[j] = func
      ends   == {n \in DOMAIN imports :
                   imports[n].dll = dll /\ (imports[n].thunk = NoSlot \/ has(n))} IN
  IF ends = {} \/ imports[Least(ends)].thunk = NoSlot THEN NoSlot
  ELSE SlotIn(imports[Least(ends)], func)

QpcSlot == GetImportAddress(exe.imports, Kernel, Qpc)

\* HR_GAME_QPC_HOOK and HR_GECK_QPC_HOOK
GameMask == [FNV |-> \hF0A0, FO3 |-> \hB0E4]
GeckMask == [FNV |-> \h320C, FO3 |-> \h3208]

\* BUG: any bit in common will do.
Matches_Any(addr, mask) ==
  \E b \in 0 .. 15 : (mask \div 2 ^ b) % 2 = 1 /\ (addr \div 2 ^ b) % 2 = 1

\* (addr & mask) == mask
Matches(addr, mask) ==
  \A b \in 0 .. 15 : (mask \div 2 ^ b) % 2 = 1 => (addr \div 2 ^ b) % 2 = 1

IsGame == Matches(QpcSlot, GameMask[start.build])
IsGeck == Matches(QpcSlot, GeckMask[start.build])

FoundInSlot == iat[QpcSlot]

\* patch_detour.  No other thread runs yet, so it is one step.
HookLoader ==
  /\ stage = "attach" /\ IsGame /\ exe.laa
  /\ stage' = "run"
  /\ old_qpc' = FoundInSlot
  /\ iat' = [iat EXCEPT ![QpcSlot] = "qpc_hook"]
  /\ UNCHANGED <<start, binary, told, gameVars>>

\* A message box: the game lacks the 4 GB patch, or is another program.
Refuse ==
  /\ stage = "attach"
  /\ IF IsGame THEN ~exe.laa ELSE ~IsGeck
  /\ stage' = "run"
  /\ told' = TRUE
  /\ UNCHANGED <<start, binary, old_qpc, iat, gameVars>>

\* The editor is left alone.
PassOver ==
  /\ stage = "attach" /\ ~IsGame /\ IsGeck
  /\ stage' = "run"
  /\ UNCHANGED <<start, binary, told, old_qpc, iat, gameVars>>

-----------------------------------------------------------------------------
(* qpc_hook *)

Hooked  == QpcSlot # NoSlot /\ iat[QpcSlot] = "qpc_hook"
Alive   == \A t \in Threads : pc[t] # "crashed"
Goto(t, l) == pc' = [pc EXCEPT ![t] = l]

\* The game calls QueryPerformanceCounter.
CallQpc(t) ==
  /\ stage = "run" /\ Alive
  /\ pc[t] \in {"before", "out"}
  /\ t \in start.early \/ pc[Main] = "out"
  /\ Goto(t, IF Hooked THEN "init_m" ELSE "out")
  /\ UNCHANGED <<loaderVars, iat, code, prot, pools, dheap, applied, at, saved>>

AllPools == 1 .. PoolCount

\* apply_hr_hooks: mheap_init clears the tables, whoever may be using them, and
\* fills them again pool by pool.
ClearMheap(t) ==
  /\ Alive /\ pc[t] = "init_m"
  /\ pools' = {}
  /\ applied' = applied + 1
  /\ at' = [at EXCEPT ![t] = 1]
  /\ Goto(t, "fill_m")
  /\ UNCHANGED <<loaderVars, iat, code, prot, dheap, saved>>

\* BUG: the patches come before dheap_init.
AfterMheap_Patch == "protect"

AfterMheap == "init_d"

\* The search of mpool_setup for room may take this step forever.
FillMheap(t) ==
  LET last == at[t] = PoolCount IN
  /\ Alive /\ pc[t] = "fill_m"
  /\ pools' = pools \cup {at[t]}
  /\ at' = [at EXCEPT ![t] = IF last THEN 1 ELSE @ + 1]
  /\ Goto(t, IF last THEN AfterMheap ELSE "fill_m")
  /\ UNCHANGED <<loaderVars, iat, code, prot, dheap, applied, saved>>

\* dheap_init: what a second one does to a heap in use is not followed.
InitDheap(t) ==
  /\ Alive /\ pc[t] = "init_d"
  /\ dheap' = TRUE
  /\ Goto(t, "protect")
  /\ UNCHANGED <<loaderVars, iat, code, prot, pools, applied, at, saved>>

\* Behind the patches of the table comes the slot itself: patch_func_ptr.
IsSlot(n)  == n > Len(Patches)
Touched(n) == IF IsSlot(n) THEN PagesOf(QpcSlot .. QpcSlot + 3) ELSE PagesOf(Extent(Patches[n]))

Protect(t) ==
  /\ Alive /\ pc[t] = "protect"
  /\ saved' = [saved EXCEPT ![t] = prot[Least(Touched(at[t]))]]
  /\ prot' = [g \in DOMAIN prot |-> IF g \in Touched(at[t]) THEN "RWX" ELSE prot[g]]
  /\ Goto(t, "write")
  /\ UNCHANGED <<loaderVars, iat, code, pools, dheap, applied, at>>

\* BUG: the hook stays where it is.
SlotAfter_Kept == [iat EXCEPT ![QpcSlot] = "qpc_hook"]

SlotAfter == [iat EXCEPT ![QpcSlot] = old_qpc]

\* memcpy: into pages that another thread has made read-only, it is the end.
Write(t) ==
  /\ Alive /\ pc[t] = "write"
  /\ IF \A g \in Touched(at[t]) : prot[g] = "RWX"
     THEN /\ IF IsSlot(at[t])
             THEN iat' = SlotAfter /\ UNCHANGED code
             ELSE code' = Patched(code, Patches[at[t]]) /\ UNCHANGED iat
          /\ Goto(t, "restore")
     ELSE Goto(t, "crashed") /\ UNCHANGED <<iat, code>>
  /\ UNCHANGED <<loaderVars, prot, pools, dheap, applied, at, saved>>

\* At last old_qpc is called.
AfterPatch(n) == IF IsSlot(n) THEN "out" ELSE "protect"

Restored(t) == [g \in DOMAIN prot |-> IF g \in Touched(at[t]) THEN saved[t] ELSE prot[g]]

Restore(t) ==
  /\ Alive /\ pc[t] = "restore"
  /\ prot' = Restored(t)
  /\ Goto(t, AfterPatch(at[t]))
  /\ at' = [at EXCEPT ![t] = IF IsSlot(@) THEN 0 ELSE @ + 1]
  /\ saved' = [saved EXCEPT ![t] = "none"]
  /\ UNCHANGED <<loaderVars, iat, code, pools, dheap, applied>>

-----------------------------------------------------------------------------

Step(t) == ClearMheap(t) \/ InitDheap(t) \/ Protect(t) \/ Write(t) \/ Restore(t)

Next ==
  \/ LoadBinary \/ HookLoader \/ Refuse \/ PassOver
  \/ \E t \in Threads : CallQpc(t) \/ FillMheap(t) \/ Step(t)

Spec     == Init /\ [][Next]_vars
FairSpec == Spec /\ \A t \in Threads : WF_vars(Step(t))

-----------------------------------------------------------------------------

OneEarly == start.early = {Main}

Filling == {t \in Threads : pc[t] = "fill_m"}
InHook  == {t \in Threads :
              pc[t] \in {"init_m", "fill_m", "init_d", "protect", "write", "restore"}}

TypeOK ==
  /\ start \in Starts /\ stage \in {"load", "attach", "run"} /\ told \in BOOLEAN
  /\ binary \in {"none"} \cup DOMAIN Needs
  /\ \A a \in DOMAIN iat : iat[a] \in {SlotTable(exe)[a], "qpc_hook"}
  /\ old_qpc \in {"none", Qpc}
  /\ \A a \in DOMAIN code : code[a] \in {Untouched} \cup 0 .. 255
  /\ DOMAIN prot = DOMAIN OriginalProt /\ \A g \in DOMAIN prot : prot[g] \in {"R", "RX", "RWX"}
  /\ pools \subseteq AllPools /\ dheap \in BOOLEAN /\ applied \in Nat
  /\ \A t \in Threads : (t \in InHook) <=> pc[t] \notin {"before", "out", "crashed"}

\* A processor that has all a build needs when it has the feature tested for it.
Whole(features) ==
  \A i \in DOMAIN Tests : Tests[i].bit \in features => Needs[Tests[i].iset] \subseteq features

(***************************************************************************)
(* Whatever a processor returns for leaves it does not have, the feature   *)
(* that speaks for the binary is one it really has.  So it executes the    *)
(* binary if it has instruction sets only whole.  Of a processor with a    *)
(* part of AVX-512 nothing is promised: get_min_iset asks for avx512f, and *)
(* the binary is built for more.                                           *)
(***************************************************************************)
BinaryExecutes ==
  LET features == start.cpu.features IN
  binary # "none" =>
    /\ \A i \in DOMAIN Tests : Tests[i].iset = binary => Tests[i].bit \in features
    /\ Whole(features) => Needs[binary] \subseteq features

(***************************************************************************)
(* The game the library was built for is hooked, if it may use 4 GB and    *)
(* the binary is there; its editor is left alone in silence, and nothing   *)
(* else is ever patched.  The code tells the programs apart by some bits   *)
(* of the address of one slot of their import tables.                      *)
(***************************************************************************)
RightProgram ==
  LET present == binary \in start.installed
      game    == exe.is = start.build IN
  TypeOK /\ (stage = "run" =>
    /\ Hooked \/ applied > 0 <=> present /\ game /\ exe.laa
    /\ game => (told <=> ~present \/ ~exe.laa)
    /\ exe.is = start.build \o " GECK" => (told <=> ~present))

(***************************************************************************)
(* With one thread until the hook is out again the heaps are set up once,  *)
(* before the first byte is patched: no patched call finds a pool missing, *)
(* and the regions in use are never forgotten.  With more threads a second *)
(* mheap_init does clear tables that patched functions use; then at least  *)
(* the pools are missing only until the last thread has filled them.       *)
(***************************************************************************)
HeapsSetUpOnce ==
  LET patched == \E a \in DOMAIN code : code[a] # Untouched IN
  /\ patched => dheap /\ (pools = AllPools \/ Filling # {})
  /\ OneEarly => applied <= 1 /\ (patched => pools = AllPools)

(***************************************************************************)
(* After the hook each of the game's allocation functions jumps to the one *)
(* that replaces it, no patch has damaged another, and all replacements    *)
(* are reached: memory of the one allocator never gets to the other's      *)
(* free.  The bytes around the patches are the game's, and no page is      *)
(* left writable that was not, with one thread in the hook.                *)
(***************************************************************************)
GameIsPatched ==
  applied > 0 /\ InHook = {} /\ Alive =>
    /\ OneEarly => prot = OriginalProt
    /\ \A n \in DOMAIN Patches : \A a \in Extent(Patches[n]) : code[a] = Patched(code, Patches[n])[a]
    /\ LET jumps == {n \in DOMAIN Patches : Patches[n].op = "jmp"} IN
       /\ \A n \in jumps : JumpTarget(code, Patches[n].addr) = FnAddr[Patches[n].arg]
       /\ {Patches[n].arg : n \in jumps} = DOMAIN FnAddr \/ Patches # Table[start.build]
    /\ \A a \in DOMAIN code : code[a] # Untouched => \E n \in DOMAIN Patches : a \in Extent(Patches[n])

(***************************************************************************)
(* Even when two threads are in the hook at once, the hook ends and from   *)
(* then on the game's calls go straight to the system; unless a thread     *)
(* writes to a page the other has just protected, or never finds room for  *)
(* a pool.                                                                 *)
(***************************************************************************)
HookGoesAway ==
  (InHook # {}) ~> (~Alive \/ [](Filling # {}) \/ [](~Hooked /\ InHook = {}))
=============================================================================
