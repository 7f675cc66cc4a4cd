----------------------------- MODULE MCExecState -----------------------------
(* ExecState alone, with words in which QC is clear: neither a caller nor  *)
(* VMSR sets it, only a saturating instruction does.                       *)
EXTENDS ExecState

MCWords == {{}, Bits \ {QC}, {FPSCR_FZ}}
MCCalls == {[cpsr |-> w, fpscr |-> w, fpexc |-> w] : w \in MCWords}
==============================================================================
