------------------------------ MODULE MCCpuExec ------------------------------
(***************************************************************************)
(* Guest programs for model checking CpuExec.                              *)
(*                                                                         *)
(* Steps  three Thumb instructions in a row: a TB each, chained 0 -> 2 -> 4*)
(* Run    an ARM run of four instructions over two pages: TBs of two       *)
(*        instructions, the limit, or one, at the end of a page            *)
(* Vmsr   a write to FPSCR between two data instructions (Thumb)           *)
(* Mixed  a conditional write to FPSCR, an unconditional one, a data       *)
(*        instruction (Thumb)                                              *)
(* One    a single instruction                                             *)
(***************************************************************************)
EXTENDS CpuExec, TLC

T(pc0) == [pc |-> pc0, flags |-> "thumb"]
A(pc0) == [pc |-> pc0, flags |-> "arm"]

Steps == {T(0), T(2), T(4)}
StepsKind == [k \in Steps |-> "neon"]
Run == {A(0), A(2), A(4), A(6)}
RunKind == [k \in Run |-> "neon"]
Vmsr == {T(0), T(2)}
VmsrKind == (T(0) :> "vmsr") @@ (T(2) :> "neon")
Mixed == {T(0), T(2), T(4)}
MixedKind == (T(0) :> "cvmsr") @@ (T(2) :> "vmsr") @@ (T(4) :> "neon")
One == {A(0)}
OneKind == [k \in One |-> "neon"]

NoBranch == [k \in {} |-> NULL]
Thumb == {"thumb"}
Sym == Permutations(Threads)
==============================================================================
