---------------------------- MODULE DualIssue ----------------------------
(***************************************************************************)
(* timing/pipeline: the two-wide pipeline (Pipeline.tickSuperscalar with    *)
(* the checks and registers of superscalar.go).  Two instructions are        *)
(* fetched in a tick, and the second is issued with the first when           *)
(* canDualIssue allows it, into a second set of pipeline registers.          *)
(*                                                                         *)
(* The stages, the hazard unit and the first slot's registers are those of  *)
(* SingleIssue.  The machines have no D-cache; the I-cache is optional.      *)
(***************************************************************************)
EXTENDS SingleIssue, FiniteSets, FiniteSetsExt

ASSUME DualAssumption == \A n \in DOMAIN Setups : ~Setups[n].dcache

VARIABLES
  ifid2, idex2, exmem2, memwb2,   \* the pipeline registers of the second slot
  exLatency2                      \* p.exLatency2

dualVars == <<vars, ifid2, idex2, exmem2, memwb2, exLatency2>>

---------------------------------------------------------------------------
(* canDualIssue                                                            *)

\* The second instruction needs the first's result where it cannot be had in time:
\* a loaded value, or a register the second stores.  Rm is looked at in the register
\* format only.
NeedsFirst(i, j) ==
  /\ RegWrite(i)
  /\ \/ IsLoad(i) /\ i.rd \in {j.rn} \cup (IF j.op \in {"ADD", "CMP"} THEN {j.rm} ELSE {})
     \/ IsStore(j) /\ j.rd = i.rd

\* Both write one register, and are not two steps of a multiply-accumulate chain.
SameDest(i, j) ==
  /\ RegWrite(i) /\ RegWrite(j) /\ DestOf(i) = DestOf(j)
  /\ ~(i.op = "MADD" /\ j.op = "MADD" /\ j.rt2 = i.rd)

\* Two instructions never exceed the two store and three memory ports.
CanDualIssue(i, j) ==
  /\ ~IsBranch(i) /\ ~IsBranch(j)
  /\ i.op # "SVC" /\ j.op # "SVC"
  /\ ~(IsStore(i) /\ IsLoad(j))
  /\ ~NeedsFirst(i, j)
  /\ ~SameDest(i, j)

---------------------------------------------------------------------------
(* WB and MEM                                                              *)

\* The register file once both slots are written back, and after the call's result.
Written == WritebackSlot(AfterMEMWB, memwb2)
RegsNow2 == IF Syscall /\ ~Exits THEN [Written EXCEPT ![0] = 1] ELSE Written

\* The second memory port answers at once, also in the tick in which the first one
\* only announces its access, and after the first one in the tick it does.
Access2(v) ==
  IF exmem2.valid THEN AccessMemory(exmem2, v) ELSE [data |-> 0, data2 |-> 0, view |-> v]

\* Mutation: a fetch stall does not hold back the second slot.
AdvanceMEMWB2(acc, acc2, fetchStall) ==
  IF ~exmem2.valid \/ acc.stall THEN Empty ELSE Leaving(exmem2, acc2)

\* The second slot's MEM/WB after the tick.
NextMEMWB2(acc, acc2, fetchStall) ==
  IF ~exmem2.valid \/ acc.stall \/ fetchStall THEN Empty ELSE Leaving(exmem2, acc2)

---------------------------------------------------------------------------
(* EX                                                                      *)

Writes(s, r) == s.valid /\ RegWrite(s.inst) /\ DestOf(s.inst) = r /\ r # XZR

\* The first slot: what the second slot computed comes over what the first did.
Operand1(r, captured) ==
  IF Writes(exmem2, r) THEN exmem2.alu
  ELSE IF Writes(memwb2, r) THEN memwb2.alu
  ELSE GetForwardedValue(r, captured)

\* Mutation: the previous pair comes before the first instruction of this one.
PairLast(r, captured, first) ==
  IF Writes(exmem2, r) THEN exmem2.alu
  ELSE IF Writes(first, r) THEN first.alu
  ELSE GetForwardedValue(r, IF Writes(memwb2, r) THEN memwb2.alu ELSE captured)

\* The second slot: first is what the first slot puts into EX/MEM in this tick.
Operand2(r, captured, first) ==
  IF Writes(first, r) THEN first.alu
  ELSE IF Writes(exmem2, r) THEN exmem2.alu
  ELSE GetForwardedValue(r, IF Writes(memwb2, r) THEN memwb2.alu ELSE captured)

\* forwardFromAllSlots: the newest value of r in the EX/MEM registers xs and the MEM/WB
\* registers ms, slot by slot, that is not still being loaded.
ForwardFromAllSlots(xs, ms, r, original) ==
  LET pairs(s) == s.valid /\ s.inst.op = "LDP" /\ RegWrite(s.inst) /\ s.inst.rt2 = r
      value(s) == IF Writes(s, r) THEN SlotValue(s) ELSE s.data2
      computed == {k \in DOMAIN xs : Writes(xs[k], r) /\ ~IsLoad(xs[k].inst)}
      retiring == {k \in DOMAIN ms : Writes(ms[k], r) \/ pairs(ms[k])}
  IN IF r = XZR THEN original
     ELSE IF computed # {} THEN xs[Max(computed)].alu
     ELSE IF retiring # {} THEN value(ms[Max(retiring)])
     ELSE original

X1 == Operand1(idex.inst.rn, idex.rn)
Y1 == Operand1(idex.inst.rm, idex.rm)

Executed1 ==
  Result(idex, X1, Y1, StoreData(RegsNow2, idex.inst.rd), StoreData(RegsNow2, idex.inst.rt2),
         RegsNow2)

X2(first) == Operand2(idex2.inst.rn, idex2.rn, first)
Y2(first) == Operand2(idex2.inst.rm, idex2.rm, first)

\* A store in the second slot stores its Rm, which the encoding leaves at 0.
Executed2(first) ==
  LET rt2 == idex2.inst.rt2
  IN Result(idex2, X2(first), Y2(first), Y2(first),
            ForwardFromAllSlots(<<exmem, exmem2>>, <<memwb, memwb2>>, rt2, ReadReg(RegsNow2, rt2)),
            RegsNow2)

\* The flags a conditional branch tests: the first slot's compare comes first.
BranchFlags2 ==
  IF exmem.valid /\ SetsFlags(exmem.inst) THEN exmem.fl
  ELSE IF exmem2.valid /\ SetsFlags(exmem2.inst) THEN exmem2.fl
  ELSE fl

---------------------------------------------------------------------------
(* What holds up the stages in this tick.                                  *)

MemStall == Access(HitLatency).stall
ExecStall == idex.valid /\ ~MemStall /\ CyclesLeft(exLatency, idex) > 1
Executes == idex.valid /\ ~MemStall /\ ~ExecStall
Flush == Executes /\ Mispredicted(idex, BranchFlags2, X1)

\* The second slot begins or goes on, and is done; one that is not is not held.
Begins2 == idex2.valid /\ ~MemStall /\ ~ExecStall /\ ~Flush
Executes2 == Begins2 /\ CyclesLeft(exLatency2, idex2) <= 1

Stall == LoadUse \/ ExecStall \/ MemStall
Fetches == ~Stall /\ ~Flush

---------------------------------------------------------------------------
(* IF                                                                      *)

NoGuess == [taken |-> FALSE, target |-> 0, early |-> FALSE, next |-> 0]

\* The second instruction's prediction is not given the target in the encoding.
Guesses2(n, i) ==
  Guesses(n, i) \cup
  (IF i.op \in {"BEQ", "BCS", "CBZ"}
     THEN {[taken |-> TRUE, target |-> 0, early |-> FALSE, next |-> Wrap(n + 1)]} ELSE {})

\* Fetch goes on at a predicted target.
Redirects(g) == g.taken /\ g.next = g.target

\* The slot an instruction i fetched at n takes, and the PC after it.
Placed(n, i, g) ==
  IF i.op = "B" THEN [slot |-> Empty, pc |-> i.imm] ELSE [slot |-> Fetched(n, i, g), pc |-> g.next]

---------------------------------------------------------------------------
(* Hazards: as in SingleIssue, the conditions under which a tick computes    *)
(* something else than the program says.                                    *)

DestsIn(s) == IF s.valid THEN Dests(s.inst) ELSE {}
LoadedIn(s) == IF s.valid THEN Loaded(s.inst) ELSE {}
BaseIn(s) == IF s.valid THEN Base(s.inst) ELSE {}

\* What each slot captured at decode and what it reads in EX; a store in the second
\* slot captured X0 for its data.
Captured1 == IF idex.valid THEN Captured(idex.inst) ELSE {}
InEX1 == IF idex.valid THEN ReadInEX(idex.inst) ELSE {}
Captured2 == IF ~idex2.valid THEN {}
             ELSE Captured(idex2.inst) \cup (IF IsStore(idex2.inst) THEN {0} ELSE {})
InEX2 == IF idex2.valid /\ idex2.inst.op = "STP" THEN {idex2.inst.rt2} \ {XZR} ELSE {}

Older == DestsIn(memwb) \cup DestsIn(memwb2)
Newer == DestsIn(exmem) \cup DestsIn(exmem2)
MaddIn(s) == s.valid /\ s.inst.op = "MADD"

\* The words a load or store in EX/MEM touches.
Touched(s) == {s.alu} \cup (IF s.inst.op \in {"LDP", "STP"} THEN {Wrap(s.alu + 1)} ELSE {})

\* Loads that get in their own way: forwarding and write-back know one destination.
OneRegisterPair(e) == e.valid /\ e.inst.op = "LDP" /\ e.inst.rd \in {e.inst.rt2, XZR}
LoadsOwnBase(e) == e.valid /\ e.inst.op = "LDRP" /\ e.inst.rd = e.inst.rn

Hazards2(held) ==
  LET reads1 == Captured1 \cup InEX1
      reads2 == Captured2 \cup InEX2
      own == DestsIn(idex)
      found(name, condition) == IF condition THEN {name} ELSE {}
      badCarry(e, x, y) == e.valid /\ e.inst.op = "CMPI" /\ (x >= e.inst.imm) # (x >= y)
  IN  \* an operand in MEM/WB when ID/EX is held another tick
      found("lost in MEM/WB",
            held /\ ((Captured1 \cup (Captured2 \ own)) \cap Older) \ Newer # {})
      \* the call in EX/MEM: its result, and its being handled again
 \cup found("call result", Syscall /\ 0 \in reads1 \cup reads2)
 \cup found("call repeated", Syscall /\ ~Exits /\ held)
      \* the addend of MADD is not forwarded, not even in the chain canDualIssue lets pass
 \cup found("addend", \/ MaddIn(idex) /\ idex.inst.rt2 \in Newer \cup {XZR}
                      \/ MaddIn(idex2) /\ idex2.inst.rt2 \in Newer \cup own \cup {XZR})
      \* a loaded value is not there yet: behind a load in the second slot, which the
      \* load-use test leaves out, or in the pair, by the registers it leaves out
 \cup found("load use", \/ (LoadedIn(exmem) \cup LoadedIn(exmem2)) \cap (reads1 \cup reads2) # {}
                        \/ LoadedIn(idex) \cap reads2 # {})
      \* a pair into one register, or into XZR first, and a load into its own base
 \cup found("pair register", OneRegisterPair(idex) \/ OneRegisterPair(idex2))
 \cup found("loaded base", LoadsOwnBase(idex) \/ LoadsOwnBase(idex2))
      \* a load in the second slot is forwarded as its address, a pair's second word not at all
 \cup found("slot 2 load", LoadedIn(memwb2) \cap (reads1 \cup reads2) # {})
      \* the written-back base is not forwarded
 \cup found("base", \/ (BaseIn(exmem) \cup BaseIn(exmem2)) \cap (reads1 \cup reads2) # {}
                    \/ (BaseIn(memwb) \cup BaseIn(memwb2)) \cap (Captured1 \cup Captured2) # {}
                    \/ BaseIn(idex) \cap reads2 # {})
      \* the older of two values comes first
 \cup found("older over newer", \/ Captured1 \cap DestsIn(memwb2) \cap DestsIn(exmem) # {}
                                \/ (InEX1 \cup reads2) \cap DestsIn(memwb) \cap DestsIn(memwb2) # {})
      \* what a store in the first slot stores was computed in the second
 \cup found("store data", InEX1 \cap DestsIn(exmem2) # {})
      \* a store in the second slot: its data, and its pair's data
 \cup found("slot 2 store", idex2.valid /\ IsStore(idex2.inst)
                              /\ (idex2.inst.rd # 0 \/ InEX2 \cap own # {}))
      \* it reaches the memory while the load before it waits
 \cup found("load behind store", /\ exmem.valid /\ exmem2.valid
                                 /\ IsLoad(exmem.inst) /\ IsStore(exmem2.inst)
                                 /\ Touched(exmem) \cap Touched(exmem2) # {})
      \* an instruction of the second slot that needs more cycles is dropped
 \cup found("slot lost", Begins2 /\ ~Executes2)
 \cup found("flags", /\ exmem.valid /\ exmem2.valid /\ idex.valid
                     /\ SetsFlags(exmem.inst) /\ SetsFlags(exmem2.inst)
                     /\ idex.inst.op \in {"BEQ", "BCS"})
 \cup found("compare and branch", idex.valid /\ idex.inst.op = "CBZ")
 \cup found("carry", \/ badCarry(idex, X1, Y1)
                     \/ badCarry(idex2, X2(Executed1), Y2(Executed1)))
      \* a taken prediction without target meets a branch to 0
 \cup found("branch to 0", /\ idex.valid /\ IsBranch(idex.inst)
                           /\ idex.guess.taken /\ idex.guess.next # 0
                           /\ Taken(idex, BranchFlags2) /\ Target(idex, X1) = 0)

---------------------------------------------------------------------------
Init2 ==
  /\ Init
  /\ ifid2 = Empty /\ idex2 = Empty /\ exmem2 = Empty /\ memwb2 = Empty
  /\ exLatency2 = 0

\* Decode takes both instructions; a second one that was not issued moves up.
Pairs == ifid.valid /\ ifid2.valid /\ CanDualIssue(ifid.inst, ifid2.inst)
MovesUp == ifid2.valid /\ ~Pairs
\* Where the second instruction is fetched.
SecondPC == IF MovesUp THEN pc ELSE Wrap(pc + 1)

\* Mutation: the bubble behind a load leaves the second slot.
BubbleKeepsSecond(flush, held) ==
  CASE held \/ LoadUse -> idex2
    [] ~held /\ (flush \/ ~Pairs) -> Empty
    [] OTHER -> Decoded(ifid2, RegsNow2)

\* The second slot's ID/EX after the tick.
NextIDEX2(flush, held) ==
  CASE held -> idex2
    [] ~held /\ (flush \/ LoadUse \/ ~Pairs) -> Empty
    [] OTHER -> Decoded(ifid2, RegsNow2)

\* One cycle: acc and acc2 are what the memory answers the two slots, first and second what
\* the instruction memory answers, guess and guess2 what fetch is told, file the registers
\* after WB, done1 and done2 what EX computes, flush and stall whether a misprediction or
\* something that waits keeps fetch from going on.
DualCycle(acc, acc2, first, second, guess, guess2, file, done1, done2, flush, stall) ==
  LET one == Placed(pc, first.inst, guess)
      alone == ~MovesUp /\ (first.inst.op = "B" \/ Redirects(guess))
      \* a second instruction that misses is left for the next tick
      two == IF second.stall THEN [slot |-> Empty, pc |-> SecondPC]
             ELSE Placed(SecondPC, second.inst, guess2)
      fetches == ~stall /\ ~flush
      fetchStall == fetches /\ first.stall
      fetched == fetches /\ ~first.stall
      held == fetchStall \/ (idex.valid /\ ~done1.valid) \/ acc.stall
  IN
  \* WB
  /\ regs' = file
  /\ retired' = retired + (IF memwb.valid THEN 1 ELSE 0) + (IF memwb2.valid THEN 1 ELSE 0)
  \* MEM
  /\ halted' = Exits
  /\ code' = IF Exits THEN Written[0] ELSE code
  /\ out' = IF Syscall /\ ~Exits THEN Append(out, mem[ReadReg(Written, 1)]) ELSE out
  /\ view' = acc2.view
  /\ mem' = acc2.view
  /\ dport' = acc.port
  /\ memwb' = NextMEMWB(acc, fetchStall)
  /\ memwb2' = NextMEMWB2(acc, acc2, fetchStall)
  \* EX
  /\ exLatency' = IF idex.valid /\ ~acc.stall THEN CyclesLeft(exLatency, idex) - 1 ELSE exLatency
  /\ exLatency2' = IF Begins2 THEN CyclesLeft(exLatency2, idex2) - 1 ELSE exLatency2
  /\ fl' = IF done2.valid /\ SetsFlags(idex2.inst) THEN done2.fl
           ELSE IF done1.valid /\ SetsFlags(idex.inst) THEN done1.fl ELSE fl
  /\ exmem' = IF held THEN exmem ELSE done1
  /\ exmem2' = IF held THEN exmem2 ELSE done2
  \* IF
  /\ fport' = IF ~fetches \/ ~Machine.icache THEN fport
              ELSE IF MovesUp \/ alone \/ first.stall THEN first.port ELSE second.port
  /\ pc' = CASE flush -> RestartPC(idex, BranchFlags2, X1)
             [] fetched /\ alone -> one.pc
             [] fetched /\ ~alone -> two.pc
             [] OTHER -> pc
  /\ ifid' = CASE flush -> Empty
               [] ~flush /\ (stall \/ fetchStall) -> ifid
               [] OTHER -> IF MovesUp THEN ifid2 ELSE one.slot
  /\ ifid2' = CASE flush \/ (fetched /\ alone) -> Empty
                [] ~flush /\ (stall \/ fetchStall) -> ifid2
                [] OTHER -> two.slot
  \* ID
  /\ idex' = CASE held -> idex
               [] ~held /\ (flush \/ LoadUse \/ ~ifid.valid) -> Empty
               [] OTHER -> Decoded(ifid, file)
  /\ idex2' = NextIDEX2(flush, held)
  /\ executed' = executed + (IF done1.valid /\ ~fetchStall THEN 1 ELSE 0)
                          + (IF done2.valid /\ ~fetchStall THEN 1 ELSE 0)
  /\ flBefore' = IF held \/ Exits THEN flBefore ELSE fl'
  /\ UNCHANGED <<setup, prog>>

\* What the I-cache may answer to a fetch of n: a request already waiting is not asked again.
Answers(port, n) ==
  IF Machine.icache /\ Fetches /\ ~(port.pending /\ port.pc = n) THEN BOOLEAN ELSE {TRUE}

\* The bindings to sets of one have TLC compute what a cycle uses in many places once.
DualTick ==
  /\ ~halted
  /\ executed < MaxExecuted
  /\ \E hit \in Answers(fport, pc), acc \in {Access(HitLatency)}, file \in {RegsNow2},
        done1 \in {IF Executes THEN Executed1 ELSE Empty}, flush \in {Flush}, stall \in {Stall} :
     \E first \in {Fetch(fport, pc, hit)}, acc2 \in {Access2(acc.view)},
        done2 \in {IF Executes2 THEN Executed2(done1) ELSE Empty} :
       /\ Hazards2(MemStall \/ ExecStall \/ (Fetches /\ first.stall)) \cap Avoid = {}
       /\ \E hit2 \in Answers(NoFetch, SecondPC) :
            \E second \in {IF MovesUp THEN first ELSE Fetch(first.port, SecondPC, hit2)},
               guess \in IF Fetches /\ ~MovesUp THEN Guesses(pc, InstAt(prog, pc)) ELSE {NoGuess},
               guess2 \in IF Fetches THEN Guesses2(SecondPC, InstAt(prog, SecondPC)) ELSE {NoGuess} :
              DualCycle(acc, acc2, first, second, guess, guess2, file, done1, done2, flush, stall)
==========================================================================
