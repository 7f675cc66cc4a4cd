----------------------------- MODULE SearchData -----------------------------
(***************************************************************************)
(* From an address in generated code back to the guest instruction:        *)
(* encode_search, tb_find_pc, cpu_restore_state_from_tb and                *)
(* cpu_restore_state of translate-all.c.                                   *)
(*                                                                         *)
(* tb_gen_code appends to the code of a TB a table with, for each guest    *)
(* instruction, the words of its insn_start operation and the offset where *)
(* its code ends, as differences from the row before, in signed LEB128.    *)
(* A helper that raises an exception passes its return address: a binary   *)
(* search over tbs[] finds the TB, the table is decoded up to the row that *)
(* ends after the address, and the words are put back into env.            *)
(*                                                                         *)
(* Words have WordBits bits (TARGET_LONG_BITS) and a byte of LEB128 has    *)
(* GroupBits of them (7).  CODE_GEN_ALIGN is 1.                            *)
(***************************************************************************)
EXTENDS Integers, Sequences

CONSTANTS
    WordBits, GroupBits,   \* GroupBits < WordBits
    Tables,       \* rows [data |-> words, size |-> of the code] of a TB
    MaxTBs,       \* code_gen_max_blocks
    Highwater,    \* code_gen_highwater, from the start of the buffer
    MaxRestores   \* bound: exceptions

WordCount == 2 ^ WordBits

VARIABLES
    tbs,            \* tc_ptr, rows (what was translated) and tc_search
    code_gen_ptr,   \* from the start of the buffer
    pc,             \* "idle", "find", "decode", "found", "failed"
    retaddr, m_min, m_max,     \* tb_find_pc
    tb, insn, p, data, host_pc,    \* cpu_restore_state_from_tb
    env,            \* what restore_state_to_opc wrote last
    restores

findVars == <<m_min, m_max>>
rowVars  == <<tb, insn, p, data, host_pc>>
vars     == <<tbs, code_gen_ptr, pc, retaddr, findVars, rowVars, env, restores>>

-----------------------------------------------------------------------------
(* Signed LEB128.                                                          *)

Signed(w) == IF w >= WordCount \div 2 THEN w - WordCount ELSE w

(* encode_sleb128: the value is shifted right arithmetically until what is *)
(* left is the sign of the last group.                                     *)
MutLastGroup(byte, rest) == rest = 0 \/ rest = -1
LastGroup(byte, rest) ==
    \/ rest = 0 /\ byte < 2 ^ (GroupBits - 1)
    \/ rest = -1 /\ byte >= 2 ^ (GroupBits - 1)

RECURSIVE encode_sleb128(_)
encode_sleb128(val) ==
    LET byte == val % 2 ^ GroupBits
        rest == val \div 2 ^ GroupBits
    IN  IF LastGroup(byte, rest) THEN <<[bits |-> byte, more |-> FALSE]>>
        ELSE <<[bits |-> byte, more |-> TRUE]>> \o encode_sleb128(rest)

(* decode_sleb128 at q: the value, and where the next one starts.  Bits    *)
(* shifted out of the word are lost; a value that ends inside the word is  *)
(* sign-extended.                                                          *)
RECURSIVE DecodeFrom(_, _, _, _)
DecodeFrom(bytes, q, shift, val) ==
    LET b    == bytes[q]
        v    == (val + b.bits * 2 ^ shift) % WordCount
        next == shift + GroupBits
    IN  IF b.more THEN DecodeFrom(bytes, q + 1, next, v)
        ELSE [next |-> q + 1,
              val  |-> IF next < WordBits /\ b.bits >= 2 ^ (GroupBits - 1)
                       THEN (v - 2 ^ next) % WordCount ELSE v]
decode_sleb128(bytes, q) == DecodeFrom(bytes, q, 0, 0)

-----------------------------------------------------------------------------
(* Translation.                                                            *)

RECURSIVE EndOff(_, _)
EndOff(rows, i) == IF i = 0 THEN 0 ELSE EndOff(rows, i - 1) + rows[i].size

CodeSize(rows) == EndOff(rows, Len(rows))

(* The row before the first is { tb->pc, 0 ... }; a TB starts at the pc of *)
(* its first instruction.                                                  *)
Prev(rows, i) ==
    IF i > 1 THEN rows[i - 1].data
    ELSE [w \in 1 .. Len(rows[1].data) |-> IF w = 1 THEN rows[1].data[1] ELSE 0]

RECURSIVE EncodeWords(_, _)
EncodeWords(words, prev) ==
    IF words = <<>> THEN <<>>
    ELSE encode_sleb128(Signed((Head(words) - Head(prev)) % WordCount))
         \o EncodeWords(Tail(words), Tail(prev))

RECURSIVE encode_search(_, _)
encode_search(rows, i) ==
    IF i > Len(rows) THEN <<>>
    ELSE EncodeWords(rows[i].data, Prev(rows, i))
         \o encode_sleb128(rows[i].size) \o encode_search(rows, i + 1)

(* tb_gen_code: a full table of TBs, or code or search data past the high  *)
(* water mark, flush everything first.  The highest address of the code    *)
(* alone is tested by tcg_gen_code.                                        *)
Fits(rows, start) ==
    start + CodeSize(rows) + Len(encode_search(rows, 1)) <= Highwater

NewTB(rows, start) == [tc_ptr |-> start, rows |-> rows, search |-> encode_search(rows, 1)]

TbGenCode(rows) ==
    /\ pc = "idle"
    /\ LET flush == Len(tbs) = MaxTBs \/ ~ Fits(rows, code_gen_ptr)
           start == IF flush THEN 0 ELSE code_gen_ptr
           b     == NewTB(rows, start)
       IN  /\ Fits(rows, start)
           /\ tbs' = Append(IF flush THEN <<>> ELSE tbs, b)
           /\ code_gen_ptr' = start + CodeSize(rows) + Len(b.search)
    /\ UNCHANGED <<pc, retaddr, findVars, rowVars, env, restores>>

-----------------------------------------------------------------------------
(* cpu_restore_state(retaddr), for an exception somewhere in the buffer or *)
(* outside of it.                                                          *)
InBuffer(addr) == addr >= 0 /\ addr < code_gen_ptr

CpuRestoreState(addr) ==
    /\ pc \in {"idle", "found", "failed"}
    /\ restores < MaxRestores
    /\ restores' = restores + 1
    /\ retaddr' = addr
    /\ IF tbs # <<>> /\ InBuffer(addr)
       THEN pc' = "find" /\ m_min' = 1 /\ m_max' = Len(tbs)
       ELSE pc' = "failed" /\ UNCHANGED findVars
    /\ UNCHANGED <<tbs, code_gen_ptr, rowVars, env>>

(* The start of cpu_restore_state_from_tb with TB b.  Its test for an      *)
(* address before the TB's code never succeeds: the search ends at a TB    *)
(* that starts at the address or before it.                                *)
StartDecode(b) ==
    /\ pc' = "decode"
    /\ tb' = b /\ insn' = 1 /\ p' = 1
    /\ data' = Prev(tbs[b].rows, 1)
    /\ host_pc' = tbs[b].tc_ptr

(* tb_find_pc: one iteration of the binary search, or its end. *)
Middle(lo, hi) == (lo + hi) \div 2

(* The new upper bound when tbs[m] starts after the address. *)
MutBelow(m) == m
Below(m) == m - 1

TbFindPc ==
    /\ pc = "find"
    /\ LET m == Middle(m_min, m_max)
       IN  \/ /\ m_min <= m_max /\ tbs[m].tc_ptr = retaddr
              /\ StartDecode(m)
              /\ UNCHANGED findVars
           \/ /\ m_min <= m_max /\ retaddr < tbs[m].tc_ptr
              /\ m_max' = Below(m)
              /\ UNCHANGED <<pc, m_min, rowVars>>
           \/ /\ m_min <= m_max /\ retaddr > tbs[m].tc_ptr
              /\ m_min' = m + 1
              /\ UNCHANGED <<pc, m_max, rowVars>>
           \/ /\ m_min > m_max
              /\ StartDecode(m_max)
              /\ UNCHANGED findVars
    /\ UNCHANGED <<tbs, code_gen_ptr, retaddr, env, restores>>

(* The words of a row, added to those of the row before. *)
RECURSIVE DecodeWords(_, _, _, _)
DecodeWords(bytes, words, w, q) ==
    IF w > Len(words) THEN [words |-> words, next |-> q]
    ELSE LET d == decode_sleb128(bytes, q)
         IN  DecodeWords(bytes, [words EXCEPT ![w] = (@ + d.val) % WordCount], w + 1, d.next)

(* The end of the instruction's code exceeds the address searched for. *)
PastPc(host) == host > retaddr

(* One row of cpu_restore_state_from_tb; restore_state_to_opc at the row   *)
(* that is found.  The instruction counter, which nothing reads without    *)
(* icount, and one-shot TBs (CF_NOCACHE) are left out.                     *)
CpuRestoreStateFromTb ==
    /\ pc = "decode"
    /\ \/ /\ insn > Len(tbs[tb].rows)
          /\ pc' = "failed"
          /\ UNCHANGED <<rowVars, env>>
       \/ /\ insn <= Len(tbs[tb].rows)
          /\ LET row == DecodeWords(tbs[tb].search, data, 1, p)
                 off == decode_sleb128(tbs[tb].search, row.next)
             IN  /\ data' = row.words
                 /\ host_pc' = host_pc + Signed(off.val)
                 /\ p' = off.next
                 /\ IF PastPc(host_pc')
                    THEN pc' = "found" /\ env' = data' /\ UNCHANGED insn
                    ELSE insn' = insn + 1 /\ UNCHANGED <<pc, env>>
          /\ UNCHANGED tb
    /\ UNCHANGED <<tbs, code_gen_ptr, retaddr, findVars, restores>>

-----------------------------------------------------------------------------
Init ==
    /\ tbs = <<>>
    /\ code_gen_ptr = 0
    /\ pc = "idle"
    /\ retaddr = 0
    /\ m_min = 0 /\ m_max = 0
    /\ tb = 0 /\ insn = 0 /\ p = 0 /\ data = <<>> /\ host_pc = 0
    /\ env = <<>>
    /\ restores = 0

Next ==
    \/ \E rows \in Tables : TbGenCode(rows)
    \/ \E addr \in -1 .. Highwater : CpuRestoreState(addr)
    \/ TbFindPc
    \/ CpuRestoreStateFromTb

Spec == Init /\ [][Next]_vars

-----------------------------------------------------------------------------
(* The instructions whose code is at an address. *)
InsnsAt(addr) ==
    UNION {{<<b, i>> : i \in {k \in 1 .. Len(tbs[b].rows) :
                /\ tbs[b].tc_ptr + EndOff(tbs[b].rows, k - 1) <= addr
                /\ addr < tbs[b].tc_ptr + EndOff(tbs[b].rows, k)}} : b \in 1 .. Len(tbs)}

(* cpu_restore_state gives env the words of the very instruction that the  *)
(* address belongs to, whatever was encoded (differences of either sign,   *)
(* at the width of a word, instructions without code), and finds nothing   *)
(* for an address that is in no instruction's code.                        *)
RestoresExactly ==
    /\ pc = "found"  => \E i \in InsnsAt(retaddr) : env = tbs[i[1]].rows[i[2]].data
    /\ pc = "failed" => InsnsAt(retaddr) = {}

(* The binary search and the walk over the table end. *)
RestoreEnds == pc \in {"find", "decode"} ~> pc \in {"found", "failed"}
=============================================================================
