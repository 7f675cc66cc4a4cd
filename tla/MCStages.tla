------------------------------- MODULE MCStages -------------------------------
(***************************************************************************)
(* The sequential parts of exec(), for TLC:                                *)
(*   state     the status registers in and out (ExecState)                 *)
(*   decode    the classifier against the decoders (NeonDecode)            *)
(*   arith     register allocation with two registers, fewer than          *)
(*             temporaries (RegAlloc)                                      *)
(*   calls     register allocation with three, of which 1 is kept by calls *)
(*             (R4) and 2 and 3 are not (R0, R1)                           *)
(* The parts share no variable: a behaviour takes the steps of one of them *)
(* and the others stay in one of their initial states.                     *)
(***************************************************************************)
EXTENDS ExecState, Sequences

CONSTANTS
    Globals, Locals, Plain, CallFlags

VARIABLES
    part,
    insn, mode, phase, handled, unit,                        \* "decode"
    s, live, defined,                                        \* "arith"
    cs, clive, cdefined                                      \* "calls"

decodeVars == <<insn, mode, phase, handled, unit>>
arithVars  == <<s, live, defined>>
callsVars  == <<cs, clive, cdefined>>

(* ExecState: no bit, every bit, one bit; VMSR of the bits with a mode. *)
MCCalls == {[cpsr |-> w, fpscr |-> w, fpexc |-> w] :
               w \in {{}, Bits} \cup {{b} : b \in Bits}}
MCWords == {{}, Bits} \cup {{b} : b \in 22 .. 27}

(* NeonDecode: all words up to the bits that no test looks at; of the      *)
(* condition fields and coprocessor numbers those that some test tells     *)
(* apart.                                                                  *)
Insns == [cond : {0, 13, 14, 15}, op : 0 .. 15, cp : {9, 10, 11, 12},
          b23 : 0 .. 1, b20 : 0 .. 1, b7 : 0 .. 1, b4 : 0 .. 1]
Decode == INSTANCE NeonDecode WITH Words <- Insns, Modes <- {"arm", "thumb"}

(* RegAlloc: add, deposit (output in the register of the first input) and  *)
(* mulu2; qemu_ld, qemu_st with its register class, and brcond; br.        *)
In(R, k, a) == [regs |-> R, konst |-> k, alias |-> a]
Add(R)      == [ins |-> <<In(R, FALSE, FALSE), In(R, TRUE, FALSE)>>, outs |-> 1, flags |-> {}]
Deposit(R)  == [ins |-> <<In(R, FALSE, TRUE), In(R, TRUE, FALSE)>>, outs |-> 1, flags |-> {}]
Mulu2(R)    == [ins |-> <<In(R, FALSE, FALSE), In(R, FALSE, FALSE)>>, outs |-> 2, flags |-> {}]
Ld(R)       == [ins |-> <<In(R, FALSE, FALSE)>>, outs |-> 1,
                flags |-> {"call_clobber", "side_effects"}]
St(R)       == [ins |-> <<In(R, FALSE, FALSE), In(R, FALSE, FALSE)>>, outs |-> 0,
                flags |-> {"call_clobber", "side_effects"}]
Brcond(R)   == [ins |-> <<In(R, FALSE, FALSE), In(R, TRUE, FALSE)>>, outs |-> 0,
                flags |-> {"bb_end"}]
Br          == [ins |-> <<>>, outs |-> 0, flags |-> {"bb_end"}]

(* Helpers with two argument and two result registers, of every number of  *)
(* results: no arguments, one, two; a third argument on the stack; an i32  *)
(* and an i64, which skips the second register and takes two stack slots.  *)
Sig(args, rets) == [args |-> args, rets |-> rets]
T == "temp"
MCSignatures == {Sig(<<>>, 0), Sig(<<T>>, 1), Sig(<<T, T>>, 2), Sig(<<T, T, T>>, 0),
                 Sig(<<T, "dummy", T, T>>, 0)}

Arith == INSTANCE RegAlloc WITH
            NbRegs <- 2, Clobbered <- {2}, CallIargs <- <<2>>, CallOargs <- <<2>>,
            OpDefs <- {Add({1, 2}), Deposit({1, 2}), Mulu2({1, 2}), Br},
            CallFlags <- {}, Signatures <- {}
Helper == INSTANCE RegAlloc WITH
            NbRegs <- 3, Clobbered <- {2, 3}, CallIargs <- <<2, 3>>, CallOargs <- <<2, 3>>,
            Signatures <- MCSignatures,
            OpDefs <- {Ld({1, 3}), St({1, 3}), Brcond({1, 2, 3}), Br},
            s <- cs, live <- clive, defined <- cdefined

-----------------------------------------------------------------------------
MCInit ==
    /\ part \in {"state", "decode", "arith", "calls"}
    /\ part # "decode" => mode = "arm" /\ insn = CHOOSE w \in Insns : TRUE
    /\ part # "arith" => live = Arith!AtBBEnd
    /\ part # "calls" => clive = Helper!AtBBEnd
    /\ Init /\ Decode!Init /\ Arith!Init /\ Helper!Init

MCNext ==
    /\ UNCHANGED part
    /\ \/ /\ part = "state" /\ Next
          /\ UNCHANGED <<decodeVars, arithVars, callsVars>>
       \/ /\ part = "decode" /\ Decode!Next
          /\ UNCHANGED <<vars, arithVars, callsVars>>
       \/ /\ part = "arith" /\ Arith!Next
          /\ UNCHANGED <<vars, decodeVars, callsVars>>
       \/ /\ part = "calls" /\ Helper!Next
          /\ UNCHANGED <<vars, decodeVars, arithVars>>

MCSpec == MCInit /\ [][MCNext]_<<part, vars, decodeVars, arithVars, callsVars>>

-----------------------------------------------------------------------------
(* Beside the properties of ExecState: *)

(* NeonDecode: the classifier agrees with the decoders. *)
ClassifierRight == Decode!ClassifierRight

(* RegAlloc: a value that is read later is where the tables say. *)
ValuesKept == Arith!ValuesKept /\ Helper!ValuesKept
(* RegAlloc: instructions, helpers and other blocks read the right values. *)
CodeRight == Arith!CodeRight /\ Helper!CodeRight
===============================================================================
