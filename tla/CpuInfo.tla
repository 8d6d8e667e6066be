------------------------------ MODULE CpuInfo ------------------------------
(***************************************************************************)
(* How the forwarding library chooses among the six binaries               *)
(* (src/cpu_info/main.c): get_min_iset reads the leaves of CPUID that the  *)
(* processor has and takes the best instruction set it finds reported.     *)
(*                                                                         *)
(* A processor is [leaves, features, beyond]: its highest basic leaf, what *)
(* it can execute, and the bits it returns when it is asked for a leaf it  *)
(* does not have (Intel's return those of the highest).                    *)
(***************************************************************************)
EXTENDS Naturals

\* The leaf and the feature each answer of get_min_iset is drawn from, best
\* first; IA32 if none is reported.
Tests == <<[iset |-> "AVX512", leaf |-> 7, bit |-> "avx512f"],
           [iset |-> "AVX2", leaf |-> 7, bit |-> "avx2"],
           [iset |-> "AVX", leaf |-> 1, bit |-> "avx"],
           [iset |-> "SSE2", leaf |-> 1, bit |-> "sse2"],
           [iset |-> "SSE", leaf |-> 1, bit |-> "sse"]>>

\* What the compiler may use when it builds with /arch for an instruction set.
\* That is an assumption: no line of the library says it.
Needs == [IA32 |-> {}, SSE |-> {"sse"}, SSE2 |-> {"sse", "sse2"},
          AVX |-> {"sse", "sse2", "avx"}, AVX2 |-> {"sse", "sse2", "avx", "avx2"},
          AVX512 |-> {"sse", "sse2", "avx", "avx2", "avx512f", "avx512bw"}]

\* The instruction CPUID.
Cpuid(cpu, leaf) == IF leaf <= cpu.leaves THEN cpu.features ELSE cpu.beyond

\* BUG: the leaf is read without a look at the highest.
Reported_Unbounded(cpu, leaf) == Cpuid(cpu, leaf)

\* Leaves the loop does not get to report nothing.
Reported(cpu, leaf) == IF leaf <= cpu.leaves THEN Cpuid(cpu, leaf) ELSE {}

get_min_iset(cpu) ==
  LET positive == {i \in DOMAIN Tests : Tests[i].bit \in Reported(cpu, Tests[i].leaf)} IN
  IF positive = {} THEN "IA32"
  ELSE Tests[CHOOSE i \in positive : \A j \in positive : i <= j].iset
=============================================================================
