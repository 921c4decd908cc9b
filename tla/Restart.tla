----------------------------- MODULE Restart -----------------------------
(***************************************************************************)
(* The single-issue pipeline used again: Core.Reset in the middle of a run  *)
(* or after its end, then SetPC to the entry, as NewPipeline's client does  *)
(* for another run.  The registers, the memory and the caches are not the   *)
(* pipeline's and stay as they are.                                         *)
(***************************************************************************)
EXTENDS SingleIssue

CONSTANTS
  Resettable,   \* the names of the machines that are reset
  MaxResets     \* bound: resets in a run

ASSUME RestartAssumption == Resettable \subseteq DOMAIN Setups /\ MaxResets \in Nat

VARIABLE resets   \* auxiliary: resets so far

restartVars == <<vars, resets>>

\* Mutation: the pipeline registers behind EX are forgotten.
ClearFront ==
  /\ ifid' = Empty /\ idex' = Empty
  /\ UNCHANGED <<exmem, memwb>>

ClearRegisters == ifid' = Empty /\ idex' = Empty /\ exmem' = Empty /\ memwb' = Empty

\* The stages of the caches keep the request they wait for and the store they issued
\* last; only memPending, of the machine without a D-cache, is cleared.
Reset ==
  /\ setup \in Resettable /\ resets < MaxResets
  /\ ClearRegisters
  /\ pc' = 0
  /\ halted' = FALSE
  /\ exLatency' = 0
  /\ dport' = IF Machine.dcache THEN dport ELSE NoAccess
  /\ retired' = 0 /\ executed' = 0
  /\ flBefore' = fl
  /\ resets' = resets + 1
  /\ UNCHANGED <<setup, prog, regs, fl, mem, view, out, code, fport>>

RestartNext == Reset \/ (Tick /\ UNCHANGED resets)

RestartSpec == Init /\ resets = 0 /\ [][RestartNext]_restartVars

---------------------------------------------------------------------------
\* The emulator at the entry of the program, over what the registers and the memory hold.
Entered ==
  [pc |-> Follow(prog, 0), regs |-> regs, mem |-> view, fl |-> fl, out |-> out,
   halted |-> FALSE, code |-> code]

(* A run after a Reset is a run: from the entry on, over whatever registers,   *)
(* flags and memory the run before left, it commits what the emulator would,   *)
(* whatever was in flight, waited for or halted at the Reset.                  *)
RunsAfresh ==
  [][IF resets' = resets THEN Emu!FoldedNext \/ UNCHANGED Committed
     ELSE Committed' = Entered]_restartVars
==========================================================================
