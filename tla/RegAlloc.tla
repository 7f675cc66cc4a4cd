------------------------------ MODULE RegAlloc ------------------------------
(***************************************************************************)
(* The liveness analysis and the register allocator of TCG (tcg/tcg.c),    *)
(* for programs of any length over a fixed set of temporaries.             *)
(*                                                                         *)
(* liveness_pass_1 walks the operations backwards and tells, for every     *)
(* argument, whether its temporary dies (DEAD_ARG) and whether an output   *)
(* must be stored (SYNC_ARG); the allocator walks them forwards and        *)
(* believes it.  A step of this module is one operation of the forward     *)
(* walk.  The state that the analysis has computed for the end of the      *)
(* operation depends on operations to come: the step guesses it, and takes *)
(* only a guess that the analysis turns into the state it had guessed for  *)
(* the end of the operation before.  Every guess is that of some program,  *)
(* so the operations themselves need not be kept.                          *)
(*                                                                         *)
(* Next to the allocator's tables, s holds what the code it emits does:    *)
(* rv, mv and cv give for each register, each memory slot and each pending *)
(* constant the temporaries whose current value it is.  An operation gives *)
(* its outputs a new value, which only the output registers hold.          *)
(*                                                                         *)
(* fixed_reg temporaries (env, which nothing writes), indirect globals     *)
(* (the ARM front end has none, so that liveness_pass_2 never runs) and    *)
(* the narrowing of double-word operations are left out.                   *)
(***************************************************************************)
EXTENDS Integers, SequencesExt

CONSTANTS
    Globals,   \* live in env, at their canonical location
    Locals,    \* temporaries kept across basic blocks (temp_local)
    Plain,     \* the other temporaries
    NbRegs,    \* registers, numbered in tcg_target_reg_alloc_order
    Clobbered, \* tcg_target_call_clobber_regs
    CallIargs, \* tcg_target_call_iarg_regs
    CallOargs, \* tcg_target_call_oarg_regs
    OpDefs,    \* the operations: see below
    CallFlags, \* what helpers do with globals: "read_write", "read", "none"
    Signatures \* of the helpers: [args, rets], see below

Temps == Globals \cup Locals \cup Plain
Regs == 1 .. NbRegs
NULL == 0
DummyArg == "TCG_CALL_DUMMY_ARG" \* aligns the two halves of an i64 argument

(* An operation of OpDefs is [ins, outs, flags].  For each of its inputs,  *)
(* in the order of sorted_args, ins has the register class regs, konst if  *)
(* a constant will do, and alias if the input shares output 1's register.  *)
(* outs is the number of outputs, at most two; flags is a subset of        *)
(* {"bb_end", "side_effects", "call_clobber"}.                             *)
(* args of a helper's signature lists what is a temporary, "temp", and     *)
(* what aligns the halves of an i64, "dummy"; rets is 2 for an i64 result. *)

VARIABLES
    s,         \* the tables of TCGContext, and the machine the code runs on
    live,      \* temp_state of the analysis, before the next operation
    defined    \* the temporaries that have been given a value

vars == <<s, live, defined>>

(* temp_state: TS_DEAD, TS_MEM. *)
Dead == "dead"
Mem == "mem"
TempState(t) ==
    IF t \in Plain THEN {{}, {Dead}} ELSE SUBSET {Dead, Mem}

-----------------------------------------------------------------------------
(* liveness_pass_1.                                                        *)

(* tcg_la_bb_end. *)
AtBBEnd == [t \in Temps |-> IF t \in Plain THEN {Dead} ELSE {Dead, Mem}]

(* The effect of an operation or a call on globals: "save" them, "sync"    *)
(* them, or none.                                                          *)
EffectOf(flags) ==
    IF "bb_end" \in flags THEN "bb_end"
    ELSE IF "side_effects" \in flags THEN "sync" ELSE "none"
CallEffect(f) ==
    CASE f = "read_write" -> "save" [] f = "read" -> "sync" [] OTHER -> "none"

(* The state of t between the outputs and the inputs of an operation, from *)
(* its state st after it: outputs are dead, globals are wanted in memory.  *)
MidState(t, st, outs, effect) ==
    LET st1 == IF t \in Range(outs) THEN {Dead} ELSE st
    IN  CASE effect = "bb_end"                    -> AtBBEnd[t]
          [] effect = "save" /\ t \in Globals     -> {Dead, Mem}
          [] effect = "sync" /\ t \in Globals     -> st1 \cup {Mem}
          [] OTHER                                -> st1

(* The state before the operation: its inputs are live. *)
BeforeState(t, mid, ins) == IF t \in Range(ins) THEN mid \ {Dead} ELSE mid

(* An operation without side effects is removed when all its outputs are   *)
(* dead and nobody wants them in memory.                                   *)
Removed(outs, pure, after) ==
    pure /\ outs # <<>> /\ \A x \in Range(outs) : after[x] = {Dead}

-----------------------------------------------------------------------------
(* The code that is emitted, as it will run.                               *)

OutMov(z, r, from) == [z EXCEPT !.rv[r] = z.rv[from]]
OutMovi(z, r, t)   == [z EXCEPT !.rv[r] = z.cv[t]]
OutLd(z, r, t)     == [z EXCEPT !.rv[r] = z.mv[t]]
OutSt(z, r, t)     == [z EXCEPT !.mv[t] = z.rv[r]]

(* The temporaries of X get new values, which no place holds yet. *)
NewValues(z, X) ==
    [z EXCEPT !.rv = [r \in Regs |-> z.rv[r] \ X],
              !.mv = [t \in Temps |-> z.mv[t] \ X],
              !.cv = [t \in Temps |-> z.cv[t] \ X]]

(* x becomes equal to y: what holds y's value holds x's. *)
CopyValue(z, x, y) ==
    LET Copied(S) == IF y \in S THEN S \cup {x} ELSE S \ {x}
    IN  [z EXCEPT !.rv = [r \in Regs |-> Copied(z.rv[r])],
                  !.mv = [t \in Temps |-> Copied(z.mv[t])],
                  !.cv = [t \in Temps |-> Copied(z.cv[t])]]

Flag(z, bad, why) == [z EXCEPT !.wrong = IF bad THEN @ \cup {why} ELSE @]

-----------------------------------------------------------------------------
(* The allocator's helpers.  reg is NULL for a temporary that is in no     *)
(* register (the code leaves the old number there, and does not read it).  *)

(* reg_to_temp[ts->reg] = NULL, if the temporary is in a register. *)
LeaveReg(z, t) ==
    IF z.val_type[t] = "reg"
    THEN [z EXCEPT !.reg_to_temp[z.reg[t]] = {}, !.reg[t] = NULL]
    ELSE z

(* temp_free_or_dead. *)
temp_free_or_dead(z, t, free) ==
    [LeaveReg(z, t) EXCEPT
        !.val_type[t] = IF free \/ t \notin Plain THEN "mem" ELSE "dead",
        !.cv[t] = {}]

temp_dead(z, t) == temp_free_or_dead(z, t, FALSE)

(* The part of temp_sync for a temporary in a register. *)
SyncReg(z, t) ==
    IF z.mem_coherent[t] THEN z
    ELSE [OutSt(z, z.reg[t], t) EXCEPT !.mem_coherent[t] = TRUE]

(* tcg_reg_free: spill what is in register r. *)
tcg_reg_free(z, r) ==
    IF z.reg_to_temp[r] = {} THEN z
    ELSE LET t == CHOOSE u \in z.reg_to_temp[r] : TRUE
         IN  temp_free_or_dead(SyncReg(z, t), t, TRUE)

tcg_reg_free_all(z, R) ==
    FoldLeft(LAMBDA a, r : IF r \in R THEN tcg_reg_free(a, r) ELSE a,
             z, [r \in 1 .. NbRegs |-> r])

(* tcg_reg_alloc: the first free register of the set, else the first one,  *)
(* which the caller then frees; NULL for tcg_abort.                        *)
First(R) == CHOOSE r \in R : \A q \in R : r <= q
PickReg(z, desired, allocated) ==
    LET set  == desired \ allocated
        free == {r \in set : z.reg_to_temp[r] = {}}
    IN  IF free # {} THEN First(free) ELSE IF set # {} THEN First(set) ELSE NULL

(* t is in register r from now on. *)
EnterReg(z, t, r) ==
    [LeaveReg(z, t) EXCEPT !.val_type[t] = "reg", !.reg[t] = r,
                           !.reg_to_temp[r] = {t}, !.cv[t] = {}]

(* temp_load. *)
MutLoadedCoherent(z, t) == TRUE
LoadedCoherent(z, t) == z.val_type[t] = "mem"

temp_load(z, t, desired, allocated) ==
    LET r == PickReg(z, desired, allocated)
        y == tcg_reg_free(z, r)
        c == IF z.val_type[t] = "const" THEN OutMovi(y, r, t) ELSE OutLd(y, r, t)
    IN  CASE z.val_type[t] = "reg" -> z
          [] z.val_type[t] # "reg" /\ (z.val_type[t] = "dead" \/ r = NULL) ->
                Flag(z, TRUE, "abort")
          [] OTHER -> [EnterReg(c, t, r) EXCEPT !.mem_coherent[t] = LoadedCoherent(z, t)]

(* temp_sync; tcg_out_sti stores no constant on ARM hosts. *)
temp_sync(z, t, allocated) ==
    CASE z.mem_coherent[t] \/ z.val_type[t] = "mem" ->
            [z EXCEPT !.mem_coherent[t] = TRUE]
      [] ~ z.mem_coherent[t] /\ z.val_type[t] = "dead" -> Flag(z, TRUE, "abort")
      [] OTHER -> SyncReg(temp_load(z, t, Regs, allocated), t)

(* The end of an operation for an output. *)
FinishOutput(z, t, after, allocated) ==
    LET y == IF Mem \in after[t] THEN temp_sync(z, t, allocated) ELSE z
    IN  IF Dead \in after[t] THEN temp_dead(y, t) ELSE y

(* The values that memory must hold here, for a helper, an exception       *)
(* handler or the code of another basic block to find.                     *)
MemoryWanted(z, T) ==
    Flag(z, \E t \in T \cap defined : t \notin z.mv[t], "memory")

(* save_globals, sync_globals, tcg_reg_alloc_bb_end: only assertions. *)
save_globals(z) ==
    Flag(MemoryWanted(z, Globals), \E g \in Globals : z.val_type[g] # "mem", "assert")
sync_globals(z) ==
    Flag(MemoryWanted(z, Globals),
         \E g \in Globals : z.val_type[g] = "reg" /\ ~ z.mem_coherent[g], "assert")
tcg_reg_alloc_bb_end(z) ==
    Flag(MemoryWanted(save_globals(z), Locals),
         \/ \E l \in Locals : z.val_type[l] # "mem"
         \/ \E t \in Plain : z.val_type[t] # "dead", "assert")

-----------------------------------------------------------------------------
(* The operations.  Between two of them only the values that are still     *)
(* wanted, at the places the tables name, are told apart; mem_coherent of  *)
(* a temporary in no register is assigned before it is read.               *)

Settle(z, after) ==
    LET Alive(t) == Dead \notin after[t]
    IN  [z EXCEPT
           !.rv = [r \in Regs |-> {t \in z.rv[r] \cap z.reg_to_temp[r] : Alive(t)}],
           !.mv = [t \in Temps |-> IF Alive(t) \/ Mem \in after[t]
                                   THEN z.mv[t] \cap {t} ELSE {}],
           !.cv = [t \in Temps |-> z.cv[t] \cap {t}],
           !.mem_coherent = [t \in Temps |-> z.val_type[t] = "reg" /\ z.mem_coherent[t]]]

(* The guesses for the end of an operation with these arguments that the   *)
(* analysis turns into "live", its state at the start.                     *)
Guesses(outs, ins, effect) ==
    LET may == [t \in Temps |->
                  {st \in TempState(t) :
                     live[t] = BeforeState(t, MidState(t, st, outs, effect), ins)}]
    IN  {after \in [Temps -> SUBSET {Dead, Mem}] : \A t \in Temps : after[t] \in may[t]}

TempArgs(ins) == Range(ins) \ {DummyArg}

(* What every guess agrees on: inputs are live before the operation,       *)
(* outputs that are no inputs are dead.                                    *)
ArgsLive(outs, ins) ==
    /\ \A y \in TempArgs(ins) : y \in defined /\ Dead \notin live[y]
    /\ \A x \in Range(outs) \ Range(ins) : Dead \in live[x]

Done(z, after, def) ==
    /\ s' = Settle(z, after)
    /\ live' = after
    /\ defined' = def
    /\ \A t \in Temps \ def : Dead \in after[t]

(* tcg_op_remove, for an operation with output x: no code is emitted.  One *)
(* with two outputs is two such steps.                                     *)
tcg_op_remove(x) ==
    /\ Removed(<<x>>, TRUE, live)
    /\ Done(NewValues(s, {x}), live, defined \cup {x})

(* tcg_reg_alloc_movi. *)
Movi(x) ==
    /\ live[x] = {Dead}
    /\ \E after \in Guesses(<<x>>, <<>>, "none") :
        LET y == [LeaveReg(NewValues(s, {x}), x) EXCEPT
                     !.val_type[x] = "const", !.cv[x] = {x},
                     !.mem_coherent[x] = FALSE]
        IN  /\ ~ Removed(<<x>>, TRUE, after)
            /\ Done(FinishOutput(y, x, after, {}), after, defined \cup {x})

(* tcg_reg_alloc_mov. *)
MovInput(z, x, y, after) ==
    IF (Mem \in after[x] /\ z.val_type[y] # "reg") \/ z.val_type[y] = "mem"
    THEN temp_load(z, y, Regs, {}) ELSE z

MovDead(z, x, y, dying) ==
    LET a == OutSt(z, z.reg[y], x)
        b == IF dying THEN temp_dead(a, y) ELSE a
    IN  temp_dead(b, x)

MovConst(z, x, y, dying) ==
    LET a == [LeaveReg(z, x) EXCEPT !.val_type[x] = "const", !.cv[x] = z.cv[y]]
    IN  IF dying THEN temp_dead(a, y) ELSE a

MovReg(z, x, y, dying, after) ==
    LET from == z.reg[y]
        r == IF z.val_type[x] = "reg" THEN z.reg[x] ELSE PickReg(z, Regs, {from})
        a == IF dying
             THEN EnterReg(temp_dead(LeaveReg(z, x), y), x, from)
             ELSE EnterReg(OutMov(IF z.val_type[x] = "reg" THEN z ELSE tcg_reg_free(z, r),
                                  r, from), x, r)
        c == [a EXCEPT !.mem_coherent[x] = FALSE]
    IN  IF Mem \in after[x] THEN temp_sync(c, x, {}) ELSE c

Mov(x, y) ==
    /\ x # y
    /\ ArgsLive(<<x>>, <<y>>)
    /\ \E after \in Guesses(<<x>>, <<y>>, "none") :
        LET dying == Dead \in after[y]
            z == MovInput(CopyValue(s, x, y), x, y, after)
        IN  /\ ~ Removed(<<x>>, TRUE, after)
            /\ Done(CASE Dead \in after[x]          -> MovDead(z, x, y, dying)
                      [] z.val_type[y] = "const" /\ Dead \notin after[x]
                                                    -> MovConst(z, x, y, dying)
                      [] OTHER                      -> MovReg(z, x, y, dying, after),
                    after, defined \cup {x})

(* tcg_reg_alloc_op, input i: a is [z, allocated, new], new[k] being the   *)
(* register of input k, or NULL for a constant in the instruction.         *)
MustMove(d, i, dying, new, r) ==
    \/ r \notin d.ins[i].regs
    \/ /\ d.ins[i].alias
       /\ \/ ~ dying
          \/ \E k \in 1 .. i - 1 : d.ins[k].alias /\ new[k] = r

Input(a, d, i, t, dying, fits) ==
    LET ct   == d.ins[i]
        y    == temp_load(a.z, t, ct.regs, a.allocated)
        from == y.reg[t]
        move == MustMove(d, i, dying, a.new, from)
        r    == IF move THEN PickReg(y, ct.regs, a.allocated) ELSE from
    IN  IF a.z.val_type[t] = "const" /\ ct.konst /\ fits
        THEN [a EXCEPT !.z = Flag(@, t \notin @.cv[t], "input"),
                       !.new = Append(@, NULL)]
        ELSE IF "abort" \in y.wrong \/ r = NULL
        THEN [a EXCEPT !.z = Flag(@, TRUE, "abort"), !.new = Append(@, NULL)]
        ELSE [z         |-> IF move THEN OutMov(tcg_reg_free(y, r), r, from) ELSE y,
              allocated |-> a.allocated \cup {r},
              new       |-> Append(a.new, r)]

(* Output j.  An aliased one takes the register of the input. *)
AliasOf(d) == {i \in 1 .. Len(d.ins) : d.ins[i].alias}

Output(a, d, j, x, new) ==
    LET r == IF j = 1 /\ AliasOf(d) # {}
             THEN new[CHOOSE i \in AliasOf(d) : TRUE]
             ELSE PickReg(a.z, Regs, a.allocated)
        y == IF j = 1 /\ AliasOf(d) # {} THEN a.z ELSE tcg_reg_free(a.z, r)
    IN  [z         |-> [EnterReg(y, x, r) EXCEPT !.mem_coherent[x] = FALSE],
         allocated |-> a.allocated \cup {r},
         new       |-> Append(a.new, r)]

(* The instruction reads its inputs, loses the clobbered registers if it   *)
(* may call, and leaves new values in the output registers.                *)
Clobber(z) == [z EXCEPT !.rv = [r \in Regs |-> IF r \in Clobbered THEN {} ELSE @[r]]]

Emit(z, d, outs, ins, new, onew) ==
    LET y == Flag(z, \E i \in 1 .. Len(ins) : new[i] # NULL /\ ins[i] \notin z.rv[new[i]],
                  "input")
        c == IF "call_clobber" \in d.flags THEN Clobber(y) ELSE y
    IN  FoldLeftDomain(LAMBDA a, j : [a EXCEPT !.rv[onew[j]] = {outs[j]}],
                       NewValues(c, Range(outs)), outs)

(* Dead inputs give up their registers. *)
InputsDead(z, ins, mid) ==
    FoldLeft(LAMBDA a, t : IF t # DummyArg /\ Dead \in mid[t] THEN temp_dead(a, t) ELSE a,
             z, ins)

(* What happens between the inputs and the outputs. *)
BetweenArgs(z, d) ==
    IF "bb_end" \in d.flags THEN tcg_reg_alloc_bb_end(z)
    ELSE LET y == IF "call_clobber" \in d.flags THEN tcg_reg_free_all(z, Clobbered) ELSE z
         IN  IF "side_effects" \in d.flags THEN sync_globals(y) ELSE y

(* tcg_reg_alloc_op: inputs, dead inputs, effects, outputs, instruction.   *)
tcg_reg_alloc_op(d, outs, ins, fits, mid, after) ==
    LET inputs == FoldLeftDomain(
                    LAMBDA a, i : Input(a, d, i, ins[i], Dead \in mid[ins[i]], fits),
                    [z |-> s, allocated |-> {}, new |-> <<>>], ins)
        y == BetweenArgs(InputsDead(inputs.z, ins, mid), d)
        outputs == FoldLeftDomain(
                    LAMBDA a, j : Output(a, d, j, outs[j], inputs.new),
                    [z |-> y, allocated |-> {}, new |-> <<>>], outs)
        done == Emit(outputs.z, d, outs, ins, inputs.new, outputs.new)
    IN  FoldLeft(LAMBDA a, x : FinishOutput(a, x, after, outputs.allocated), done, outs)

(* Outputs are different temporaries; plain temporaries end with the block.*)
Op(d, outs, ins, fits) ==
    /\ Len(outs) = d.outs /\ Len(ins) = Len(d.ins)
    /\ Len(outs) = 2 => outs[1] # outs[2]
    /\ fits => \E i \in 1 .. Len(d.ins) : d.ins[i].konst
    /\ ArgsLive(outs, ins)
    /\ LET effect == EffectOf(d.flags)
       IN  \E after \in Guesses(outs, ins, effect) :
            LET mid == [t \in Temps |-> MidState(t, after[t], outs, effect)]
            IN  /\ ~ Removed(outs, effect = "none", after)
                /\ Done(tcg_reg_alloc_op(d, outs, ins, fits, mid, after), after,
                        IF effect = "bb_end" THEN defined \ Plain
                                             ELSE defined \cup Range(outs))

-----------------------------------------------------------------------------
(* tcg_reg_alloc_call.                                                     *)

(* Arguments beyond the registers go to the stack first; then each         *)
(* register is freed and given its argument.                               *)
StackArg(z, t) ==
    LET y == temp_load(z, t, Regs, {})
    IN  IF t = DummyArg THEN z
        ELSE Flag(y, y.val_type[t] = "reg" /\ t \notin y.rv[y.reg[t]], "input")

(* tcg_target_call_iarg_regs of the first n arguments, without the dummies.*)
ArgRegs(ins, n) == {CallIargs[k] : k \in {i \in 1 .. n : ins[i] # DummyArg}}

MutCallArg(z, i, ins) ==
    LET r == CallIargs[i]
        t == ins[i]
    IN  IF t = DummyArg THEN z
        ELSE IF z.val_type[t] = "reg"
        THEN IF z.reg[t] = r THEN z ELSE OutMov(z, r, z.reg[t])
        ELSE temp_load(z, t, {r}, ArgRegs(ins, i - 1))
CallArg(z, i, ins) ==
    LET r == CallIargs[i]
        t == ins[i]
        y == tcg_reg_free(z, r)
    IN  IF t = DummyArg THEN z
        ELSE IF y.val_type[t] = "reg"
        THEN IF y.reg[t] = r THEN y ELSE OutMov(y, r, y.reg[t])
        ELSE temp_load(y, t, {r}, ArgRegs(ins, i - 1))

(* tcg_out_call: the helper reads its arguments, may write every global in *)
(* env, and leaves its results, the halves of an i64 in two registers.     *)
RunHelper(z, effect, outs, ins, n) ==
    LET y == Flag(z, \E i \in 1 .. n : ins[i] \notin z.rv[CallIargs[i]] \cup {DummyArg},
                  "input")
        c == Clobber(y)
        g == IF effect = "save"
             THEN [NewValues(c, Globals) EXCEPT
                      !.mv = [t \in Temps |-> IF t \in Globals THEN {t} ELSE @[t]]]
             ELSE c
    IN  FoldLeftDomain(LAMBDA a, i : [a EXCEPT !.rv[CallOargs[i]] = {outs[i]}],
                       NewValues(g, Range(outs)), outs)

(* Result i is in its register, where nothing else may be, and is stored   *)
(* or given up at once if the analysis says so.                            *)
CallResult(z, i, x, after, allocated) ==
    LET r == CallOargs[i]
        y == Flag(z, z.reg_to_temp[r] # {}, "assert")
    IN  FinishOutput([EnterReg(y, x, r) EXCEPT !.mem_coherent[x] = FALSE],
                     x, after, allocated)

tcg_reg_alloc_call(outs, ins, effect, mid, after) ==
    LET nb_regs == IF Len(ins) < Len(CallIargs) THEN Len(ins) ELSE Len(CallIargs)
        stack == FoldLeft(LAMBDA a, t : StackArg(a, t), s,
                          SubSeq(ins, nb_regs + 1, Len(ins)))
        regs == FoldLeftDomain(LAMBDA a, i : CallArg(a, i, ins), stack,
                               SubSeq(ins, 1, nb_regs))
        y    == tcg_reg_free_all(InputsDead(regs, ins, mid), Clobbered)
        g    == CASE effect = "save" -> save_globals(y)
                  [] effect = "sync" -> sync_globals(y)
                  [] OTHER           -> y
    IN  FoldLeftDomain(LAMBDA a, i : CallResult(a, i, outs[i], after, ArgRegs(ins, nb_regs)),
                       RunHelper(g, effect, outs, ins, nb_regs), outs)

(* A helper without side effects is removed like an operation, or is       *)
(* treated as the others.                                                  *)
Call(outs, ins, f) ==
    /\ ArgsLive(outs, ins)
    /\ LET effect == CallEffect(f)
       IN  \E after \in Guesses(outs, ins, effect) :
            LET mid == [t \in Temps |-> MidState(t, after[t], outs, effect)]
            IN  Done(tcg_reg_alloc_call(outs, ins, effect, mid, after), after,
                     defined \cup Range(outs))

(* INDEX_op_discard: the value is given up. *)
Discard(t) ==
    /\ live[t] = {Dead}
    /\ \E after \in Guesses(<<t>>, <<>>, "none") :
        Done(temp_dead(NewValues(s, {t}), t), after, defined \ {t})

-----------------------------------------------------------------------------
(* tcg_reg_alloc_start: globals and locals in memory. *)
Init ==
    /\ s = [val_type     |-> [t \in Temps |-> IF t \in Plain THEN "dead" ELSE "mem"],
            reg          |-> [t \in Temps |-> NULL],
            mem_coherent |-> [t \in Temps |-> FALSE],
            reg_to_temp  |-> [r \in Regs |-> {}],
            rv           |-> [r \in Regs |-> {}],
            mv           |-> [t \in Temps |-> IF t \in Globals THEN {t} ELSE {}],
            cv           |-> [t \in Temps |-> {}],
            wrong        |-> {}]
    /\ defined = Globals
    /\ live \in [Temps -> SUBSET {Dead, Mem}]
    /\ \A t \in Temps : /\ live[t] \in TempState(t)
                        /\ t \notin defined => Dead \in live[t]

(* The results and the arguments of helpers. *)
ResultLists(sig) ==
    {outs \in [1 .. sig.rets -> Temps] : sig.rets = 2 => outs[1] # outs[2]}
ArgLists(sig) ==
    {ins \in [1 .. Len(sig.args) -> Temps \cup {DummyArg}] :
        \A i \in 1 .. Len(sig.args) : ins[i] = DummyArg <=> sig.args[i] = "dummy"}

Next ==
    \/ \E x \in Temps : Movi(x) \/ Discard(x) \/ tcg_op_remove(x)
    \/ \E x, y \in Temps : Mov(x, y)
    \/ \E d \in OpDefs : \E outs \in [1 .. d.outs -> Temps],
                           ins \in [1 .. Len(d.ins) -> Temps], fits \in BOOLEAN :
            Op(d, outs, ins, fits)
    \/ \E sig \in Signatures, f \in CallFlags :
            \E ins \in ArgLists(sig), outs \in ResultLists(sig) : Call(outs, ins, f)

Spec == Init /\ [][Next]_vars

-----------------------------------------------------------------------------
(* The allocator's two tables describe each other, as check_regs of the    *)
(* debug build verifies after every operation; and a value that some later *)
(* operation reads is where val_type says: in the register, in memory, or  *)
(* the constant to be loaded.                                              *)
ValuesKept ==
    /\ \A r \in Regs : \A t \in s.reg_to_temp[r] :
          s.val_type[t] = "reg" /\ s.reg[t] = r
    /\ \A t \in Temps : s.val_type[t] = "reg" => s.reg_to_temp[s.reg[t]] = {t}
    /\ \A t \in Temps : Dead \notin live[t] =>
          CASE s.val_type[t] = "reg"   -> t \in s.rv[s.reg[t]]
            [] s.val_type[t] = "mem"   -> t \in s.mv[t]
            [] s.val_type[t] = "const" -> t \in s.cv[t]
            [] OTHER                   -> FALSE

(* Every instruction and every call reads the values of its arguments.     *)
(* When a helper runs that may read globals, an operation that may raise   *)
(* an exception, or the end of a basic block, memory holds the current     *)
(* value of every global, and at the end of a block of every local.  The   *)
(* assertions of save_globals, sync_globals, tcg_reg_alloc_bb_end and      *)
(* tcg_reg_alloc_call hold, which nothing checks in a release build, and   *)
(* tcg_abort is not reached.                                               *)
CodeRight == s.wrong = {}
=============================================================================
