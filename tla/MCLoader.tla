------------------------------ MODULE MCLoader ------------------------------
(* Instances of Loader for TLC: the two games and their editors, told by    *)
(* the addresses of their slots, and programs that are none of these.       *)
EXTENDS Loader

CONSTANTS t1, t2

TwoThreads == {t1, t2}

\* The library lies above the game; addresses wrap at 1 GB.
Library == [f \in {Replacements[i] : i \in DOMAIN Replacements} |->
              \h10001000 + 48 * (CHOOSE i \in DOMAIN Replacements : Replacements[i] = f)]

\* The slot of QueryPerformanceCounter is the fourth of its import.
Importing(slot) ==
  << [dll |-> "user32.dll", thunk |-> slot - 64, names |-> <<"MessageBoxW">>],
     [dll |-> Kernel, thunk |-> slot - 12, names |-> <<"HeapAlloc", Ordinal, "Sleep", Qpc>>] >>

Program(name, slot, laa) == [is |-> name, laa |-> laa, imports |-> Importing(slot)]

\* One that has kernel32 without slots, and one that does not count.
Strange ==
  {[is |-> "other", laa |-> TRUE,
    imports |-> <<[dll |-> Kernel, thunk |-> NoSlot, names |-> <<>>]>> \o Importing(\hFDF0A0)],
   [is |-> "other", laa |-> TRUE, imports |-> SubSeq(Importing(\hFDF0A0), 1, 1)]}

Slot == [FNV |-> \hFDF0A0, FO3 |-> \hD9B0E4]
Programs ==
  {Program(b, Slot[b], laa) : b \in DOMAIN Slot, laa \in BOOLEAN}
  \cup {Program("FNV GECK", \hD2320C, laa) : laa \in BOOLEAN}
  \cup {Program("FO3 GECK", \hD03208, TRUE), Program("other", \h401000, TRUE)}
  \cup Strange

\* Some processors have only parts of what those before them had, and some
\* hide their higher leaves.
Generations == {"sse", "sse2", "avx", "avx2", "avx512f", "avx512bw"}
Cpus == {[leaves |-> leaves, features |-> features, beyond |-> Generations] :
           leaves \in {0, 1, 3, 7, 13}, features \in SUBSET Generations}
Modern == CHOOSE cpu \in Cpus : cpu.leaves = 13 /\ cpu.features = cpu.beyond

Start(cpu, installed, build, program, early, patches) ==
  [cpu |-> cpu, installed |-> installed, build |-> build, exe |-> program,
   early |-> early, patches |-> patches]

\* bound: two threads in the hook get a few patches, some of them on one page.
AllStarts ==
  {Start(Modern, {"AVX512"}, b, program, {t1}, Table[b]) : b \in DOMAIN Table, program \in Programs}
  \cup {Start(cpu, {"IA32", "SSE", "SSE2", "AVX2"}, "FNV", Program("FO3", Slot["FO3"], TRUE), {t1}, FNV) :
          cpu \in Cpus}
  \cup {Start(Modern, {"AVX512"}, b, Program(b, Slot[b], TRUE), {t1, t2}, SubSeq(Table[b], 9, 11)) :
          b \in DOMAIN Table}
=============================================================================
