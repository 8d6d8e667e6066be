----------------------------- MODULE HookTable -----------------------------
(***************************************************************************)
(* What apply_hr_hooks writes into the two games                           *)
(* (src/heap_replacer/main/heap_replacer.h), as the patch_* functions of   *)
(* main/util.h turn it into bytes.  The tables are the program's own.      *)
(*                                                                         *)
(* A patch is [op, addr, arg]: a jump to a function of the library, a      *)
(* return, a stretch of nops, or literal bytes.                            *)
(***************************************************************************)
EXTENDS Integers, Sequences

CONSTANTS
  AddrSpace,   \* bound: the size of the address space; addresses wrap there
  FnAddr       \* FnAddr[f]: where the loader put function f of the library

\* The functions of the library that take the place of the games'.
Replacements ==
  <<"crt_malloc", "crt_calloc", "crt_realloc", "crt_recalloc", "crt_msize", "crt_free",
    "game_heap_allocate", "game_heap_reallocate", "game_heap_msize", "game_heap_free",
    "sheap_init_fix", "sheap_init_var", "sheap_alloc", "sheap_free", "sheap_purge",
    "sheap_get_thread_local">>

\* An address is a dword.
ASSUME HookTableAssumption ==
  /\ AddrSpace \in Nat \ {0} /\ (AddrSpace - 1) \div 65536 < 65536
  /\ FnAddr \in [{Replacements[i] : i \in DOMAIN Replacements} -> 0 .. AddrSpace - 1]

Jmp(addr, f)      == [op |-> "jmp", addr |-> addr, arg |-> f]
Ret(addr)         == [op |-> "ret", addr |-> addr, arg |-> 0]
Nops(addr, count) == [op |-> "nops", addr |-> addr, arg |-> count]
NopCall(addr)     == Nops(addr, 5)
Raw(addr, bytes)  == [op |-> "raw", addr |-> addr, arg |-> bytes]

Each(Op(_), addrs) == [i \in DOMAIN addrs |-> Op(addrs[i])]

\* Several patches of one function each: the pairs <<address, function>>.
Jmps(pairs) == [i \in DOMAIN pairs |-> Jmp(pairs[i][1], pairs[i][2])]

FNV ==
  Jmps(<< <<\hECD1C7, "crt_malloc">>,  <<\hED0CDF, "crt_malloc">>,
          <<\hEDDD7D, "crt_calloc">>,  <<\hED0D24, "crt_calloc">>,
          <<\hECCF5D, "crt_realloc">>, <<\hED0D70, "crt_realloc">>,
          <<\hEE1700, "crt_recalloc">>, <<\hED0DBE, "crt_recalloc">>,
          <<\hECD31F, "crt_msize">>,   <<\hECD291, "crt_free">>,
          <<\hAA3E40, "game_heap_allocate">>,
          <<\hAA4150, "game_heap_reallocate">>,
          <<\hAA4200, "game_heap_reallocate">>,
          <<\hAA44C0, "game_heap_msize">>, <<\hAA4060, "game_heap_free">> >>)
  \o Each(Ret, <<\hAA6840, \h866E00, \h866770, \hAA6F90, \hAA7030, \hAA7290,
                 \hAA7300, \hAA58D0, \h866D10, \hAA5C80>>)
  \o Jmps(<< <<\hAA53F0, "sheap_init_fix">>, <<\hAA5410, "sheap_init_var">>,
             <<\hAA54A0, "sheap_alloc">>, <<\hAA5610, "sheap_free">>,
             <<\hAA5460, "sheap_purge">> >>)
  \o <<Nops(\hAA38CA, \hAA38E8 - \hAA38CA), Jmp(\hAA42E0, "sheap_get_thread_local")>>
  \o Each(NopCall, <<\hAA3060, \h86C56F, \hC42EB1, \hEC1701>>)
  \o <<Raw(\h86EED4, <<\hEB, \h55>>)>>

FO3 ==
  Jmps(<< <<\hC063F5, "crt_malloc">>,  <<\hC0AB3F, "crt_malloc">>,
          <<\hC1843C, "crt_calloc">>,  <<\hC0AB7F, "crt_calloc">>,
          <<\hC06546, "crt_realloc">>, <<\hC0ABC7, "crt_realloc">>,
          <<\hC06761, "crt_recalloc">>, <<\hC0AC12, "crt_recalloc">>,
          <<\hC067DA, "crt_msize">>,   <<\hC064B8, "crt_free">>,
          <<\h86B930, "game_heap_allocate">>,
          <<\h86BAE0, "game_heap_reallocate">>,
          <<\h86BB50, "game_heap_reallocate">>,
          <<\h86B8C0, "game_heap_msize">>, <<\h86BA60, "game_heap_free">> >>)
  \o Each(Ret, <<\h86D670, \h6E21F0, \h6E1E10, \h86C600, \h6E1CD0, \h86CA30>>)
  \o Jmps(<< <<\h86CB70, "sheap_init_fix">>, <<\h86CB90, "sheap_init_var">>,
             <<\h86C710, "sheap_alloc">>, <<\h86C7B0, "sheap_free">>,
             <<\h86CAA0, "sheap_purge">> >>)
  \o <<Nops(\h86C038, \h86C086 - \h86C038), Jmp(\h86BCB0, "sheap_get_thread_local")>>
  \o Each(NopCall, <<\h6E9B30, \h7FACDB, \hAA6534>>)

Table == [FNV |-> FNV, FO3 |-> FO3]

-----------------------------------------------------------------------------
(* The bytes of a patch, and what the processor makes of them *)

Dword(v) == <<v % 256, (v \div 256) % 256, (v \div 65536) % 256, (v \div 16777216) % 256>>

ValueOf(bytes) == bytes[1] + 256 * (bytes[2] + 256 * (bytes[3] + 256 * bytes[4]))

\* BUG: the length of the jump itself is not taken into account.
Offset_FromStart(addr, dst) == (dst - addr) % AddrSpace

\* A jump counts from the instruction behind it.
Offset(addr, dst) == (dst - addr - 5) % AddrSpace

\* patch_jmp, patch_ret, patch_nops, patch_nop_call, patch_bytes
Bytes(p) ==
  CASE p.op = "jmp"  -> <<\hE9>> \o Dword(Offset(p.addr, FnAddr[p.arg]))
    [] p.op = "ret"  -> <<\hC3>>
    [] p.op = "nops" -> [i \in 1 .. p.arg |-> \h90]
    [] p.op = "raw"  -> p.arg

Extent(p) == p.addr .. p.addr + Len(Bytes(p)) - 1

\* Memory after the bytes of p were copied to where they belong.
Patched(memory, p) ==
  [a \in DOMAIN memory |->
     IF a \in Extent(p) THEN Bytes(p)[a - p.addr + 1] ELSE memory[a]]

\* Where the processor gets when it executes the jump at addr.
JumpTarget(memory, addr) ==
  (addr + 5 + ValueOf([i \in 1 .. 4 |-> memory[addr + i]])) % AddrSpace
=============================================================================
