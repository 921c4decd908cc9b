--------------------------- MODULE SingleIssue ---------------------------
(***************************************************************************)
(* timing/pipeline: the in-order five-stage pipeline (Pipeline.Tick with    *)
(* IssueWidth 1), which the command-line timing mode runs.  One action Tick *)
(* is one cycle: the stages are evaluated WB, MEM, EX, IF, ID on the latched *)
(* registers and the results are latched at its end.                        *)
(*                                                                         *)
(* The branch predictor and the hits of the I-cache are free choices.  The  *)
(* D-cache is present as the layered memory it implements (Cache.tla): `view'*)
(* is what its client sees, `mem' the emu.Memory below it.                  *)
(***************************************************************************)
EXTENDS Insts, Sequences

CONSTANTS
  InitMems,     \* as in Emulator
  Setups,       \* the machines and what they run: names to records with the fields
                \*   programs, regs   Programs and InitRegs of Emulator
                \*   latency   latency table: op -> cycles in EX; 1 when there is none
                \*   icache, dcache   WithICache, WithDCache
  HitLatency,   \* D-cache hit, in cycles
  MissLatency,  \* I- and D-cache miss, in cycles
  Avoid,        \* the operand hazards no program of the run meets (see Hazards)
  MaxExecuted   \* bound: a run stops after this many executed instructions

ASSUME PipelineAssumption ==
  /\ \A n \in DOMAIN Setups :
       LET s == Setups[n]
       IN /\ s.latency \in [Ops -> Nat \ {0}]
          /\ s.icache \in BOOLEAN /\ s.dcache \in BOOLEAN
          /\ \A p \in s.programs : \A a \in DOMAIN p : p[a] \in Inst
          /\ s.regs \subseteq [Regs -> Val]
  /\ HitLatency \in Nat \ {0} /\ MissLatency \in Nat \ {0}
  /\ InitMems \subseteq [Val -> Val]
  /\ MaxExecuted \in Nat

VARIABLES
  setup,      \* the name of the machine: the options of NewPipeline
  prog,       \* the loaded program
  regs,       \* p.regFile
  fl,         \* p.regFile.PSTATE
  mem,        \* p.memory
  view,       \* the memory a load sees: through the D-cache, or mem itself
  out,        \* what the syscall handler wrote
  halted,     \* p.halted
  code,       \* p.exitCode
  pc,         \* p.pc
  ifid, idex, exmem, memwb,   \* the pipeline registers
  exLatency,  \* p.exLatency
  fport,      \* CachedFetchStage: the miss being waited for
  dport,      \* memPending / memPendingPC, or CachedMemoryStage
  retired,    \* p.stats.Instructions
  executed,   \* auxiliary: instructions that left EX
  flBefore    \* auxiliary: fl as the executed instructions left it

machine == <<regs, fl, mem, view, out, halted, code, pc, ifid, idex, exmem, memwb,
             exLatency, fport, dport>>
vars == <<setup, prog, machine, retired, executed, flBefore>>

Machine == Setups[setup]

Empty == [valid |-> FALSE]
NoFetch == [pending |-> FALSE, pc |-> 0, left |-> 0]
NoAccess == [pending |-> FALSE, pc |-> 0, addr |-> 0, left |-> 0, data |-> 0,
             issued |-> FALSE, ipc |-> 0, iaddr |-> 0]

---------------------------------------------------------------------------
(* Decode: the control signals.                                            *)

\* Decode: BL and BLR write X30 whatever the encoding's Rd.
DestOf(i) == IF i.op = "BL" THEN LR ELSE i.rd

RegWrite(i) ==
  /\ i.rd # XZR \/ i.op = "BL"
  /\ i.op \in {"ADD", "ADDI", "CMP", "CMPI", "MADD", "LDR", "LDRP", "LDP", "BL"}

IsBranch(i) == i.op \in {"BL", "BEQ", "BCS", "RET"}
SetsFlags(i) == i.op \in {"CMP", "CMPI"}

---------------------------------------------------------------------------
(* hazard.go                                                               *)

\* Mutation: MEM/WB takes precedence over EX/MEM.
OlderFirst(r) ==
  IF r = XZR THEN "None"
  ELSE IF memwb.valid /\ RegWrite(memwb.inst) /\ DestOf(memwb.inst) = r THEN "MEMWB"
  ELSE IF exmem.valid /\ RegWrite(exmem.inst) /\ DestOf(exmem.inst) = r THEN "EXMEM"
  ELSE "None"

\* Which later stage holds the newest value of register r.
DetectForwardForReg(r) ==
  IF r = XZR THEN "None"
  ELSE IF exmem.valid /\ RegWrite(exmem.inst) /\ DestOf(exmem.inst) = r THEN "EXMEM"
  ELSE IF memwb.valid /\ RegWrite(memwb.inst) /\ DestOf(memwb.inst) = r THEN "MEMWB"
  ELSE IF memwb.valid /\ memwb.inst.op = "LDP" /\ memwb.inst.rt2 = r THEN "MEMWBRt2"
  ELSE "None"

\* The value a MEM/WB register writes to its destination.
SlotValue(s) == IF IsLoad(s.inst) THEN s.data ELSE s.alu

GetForwardedValue(r, original) ==
  LET from == DetectForwardForReg(r)
  IN CASE from = "EXMEM" -> exmem.alu
       [] from = "MEMWB" -> SlotValue(memwb)
       [] from = "MEMWBRt2" -> memwb.data2
       [] OTHER -> original

\* The load in the ID/EX register e feeds the instruction in IF/ID: the first source is
\* always compared, the second for the register format and for the data of STR.
FeedsNext(e) ==
  /\ e.valid /\ IsLoad(e.inst) /\ e.inst.rd # XZR /\ ifid.valid
  /\ LET next == ifid.inst
         sources == {next.rn}
                    \cup (IF next.op \in {"ADD", "CMP"} THEN {next.rm} ELSE {})
                    \cup (IF next.op = "STR" THEN {next.rd} ELSE {})
         loaded == {e.inst.rd} \cup (IF e.inst.op = "LDP" THEN {e.inst.rt2} \ {XZR} ELSE {})
     IN loaded \cap sources # {}

LoadUse == FeedsNext(idex)

---------------------------------------------------------------------------
(* WB: WritebackSlot with performBaseWriteback.                            *)

\* What performBaseWriteback writes after a post-indexed access.
WritebackVal(s) == Wrap(s.alu + s.inst.imm)

\* The register file once the MEM/WB register s is written to it.
WritebackSlot(file, s) ==
  IF ~s.valid THEN file
  ELSE LET i == s.inst
           base == IF i.op = "LDRP" THEN WriteReg(file, i.rn, WritebackVal(s)) ELSE file
           first == IF RegWrite(i) THEN WriteReg(base, DestOf(i), SlotValue(s)) ELSE base
       IN IF RegWrite(i) /\ i.op = "LDP" THEN WriteReg(first, i.rt2, s.data2) ELSE first

AfterMEMWB == WritebackSlot(regs, memwb)

---------------------------------------------------------------------------
(* MEM                                                                     *)

Syscall == exmem.valid /\ exmem.inst.op = "SVC"
Exits == exmem.valid /\ EndsProgram(exmem.inst)

\* The register file EX, ID and the store data see: after WB and the call's result.
RegsNow == IF Syscall /\ ~Exits THEN [AfterMEMWB EXCEPT ![0] = 1] ELSE AfterMEMWB

\* MemoryStage.Access on memory v: what the instruction in the EX/MEM register m
\* loads, and the memory it leaves.
AccessMemory(m, v) ==
  LET i == m.inst
      next == Wrap(m.alu + 1)
  IN [data |-> IF IsLoad(i) THEN v[m.alu] ELSE 0,
      data2 |-> IF i.op = "LDP" THEN v[next] ELSE 0,
      view |-> CASE i.op = "STR" -> [v EXCEPT ![m.alu] = m.st]
                 [] i.op = "STP" -> [[v EXCEPT ![m.alu] = m.st] EXCEPT ![next] = m.st2]
                 [] OTHER -> v]

\* Without a D-cache an access takes two ticks: it is announced, then done.
PlainAccess ==
  LET waited == dport.pending /\ dport.pc = exmem.pc
      done == AccessMemory(exmem, view)
  IN IF IsMem(exmem.inst) /\ ~waited
       THEN [stall |-> TRUE, port |-> [NoAccess EXCEPT !.pending = TRUE, !.pc = exmem.pc],
             data |-> 0, data2 |-> 0, view |-> view]
     ELSE [stall |-> FALSE, port |-> [dport EXCEPT !.pending = FALSE],
           data |-> done.data, data2 |-> done.data2, view |-> done.view]

\* Mutation: the guard compares the PC only.
IssuedFromPC(a) == dport.issued /\ dport.ipc = exmem.pc

\* The store in MEM has been issued already, if it is the last one that was.
Issued(a) == IssuedFromPC(a) /\ dport.iaddr = a

\* CachedMemoryStage.Access; lat is the latency the D-cache answers.  A load waits
\* for it, a store is issued once for its PC and address and does not wait.
CachedAccess(lat) ==
  LET a == exmem.alu
      waited == dport.pending /\ dport.pc = exmem.pc /\ dport.addr = a
      left == IF waited THEN dport.left - 1 ELSE lat - 1
      data == IF waited THEN dport.data ELSE view[a]
  IN CASE IsLoad(exmem.inst) ->
            [stall |-> left > 0,
             port |-> [dport EXCEPT !.pending = left > 0, !.pc = exmem.pc, !.addr = a,
                                    !.left = left, !.data = data],
             data |-> IF left > 0 THEN 0 ELSE data, data2 |-> 0, view |-> view]
       [] IsStore(exmem.inst) ->
            [stall |-> FALSE,
             port |-> [dport EXCEPT !.pending = FALSE, !.issued = TRUE, !.ipc = exmem.pc,
                                    !.iaddr = a],
             data |-> 0, data2 |-> 0,
             view |-> IF Issued(a) THEN view ELSE [view EXCEPT ![a] = exmem.st]]
       [] OTHER -> [stall |-> FALSE, port |-> [dport EXCEPT !.pending = FALSE],
                    data |-> 0, data2 |-> 0, view |-> view]

Idle == [stall |-> FALSE, port |-> dport, data |-> 0, data2 |-> 0, view |-> view]

Access(lat) ==
  IF ~exmem.valid THEN Idle ELSE IF Machine.dcache THEN CachedAccess(lat) ELSE PlainAccess

\* MEM/WB for the instruction in m, with what its access acc loaded.
Leaving(m, acc) == [valid |-> TRUE, pc |-> m.pc, inst |-> m.inst, alu |-> m.alu,
                    data |-> acc.data, data2 |-> acc.data2]

\* Mutation: a fetch stall does not hold back MEM/WB.
AdvanceMEMWB(acc, fetchStall) ==
  IF ~exmem.valid \/ acc.stall THEN Empty ELSE Leaving(exmem, acc)

\* Mutation: a bubble only takes Valid back and keeps the other fields of MEM/WB.
BubbleKeepsFields(acc, fetchStall) ==
  IF ~exmem.valid \/ acc.stall \/ fetchStall THEN [memwb EXCEPT !.valid = FALSE]
  ELSE Leaving(exmem, acc)

\* MEM/WB after the tick: empty while the memory or fetch stalls.
NextMEMWB(acc, fetchStall) ==
  IF ~exmem.valid \/ acc.stall \/ fetchStall THEN Empty ELSE Leaving(exmem, acc)

---------------------------------------------------------------------------
(* EX                                                                      *)

\* Cycles the instruction in the ID/EX register e has left in EX before this tick,
\* left of them counted already; with a D-cache a load waits in MEM instead.
CyclesLeft(left, e) ==
  IF left > 0 THEN left
  ELSE IF Machine.dcache /\ IsLoad(e.inst) THEN 1 ELSE Machine.latency[e.inst.op]

OperandRn == GetForwardedValue(idex.inst.rn, idex.rn)
OperandRm == GetForwardedValue(idex.inst.rm, idex.rm)

\* The flags a conditional branch tests: those of a compare in EX/MEM come first.
BranchFlags == IF exmem.valid /\ SetsFlags(exmem.inst) THEN exmem.fl ELSE fl

\* The flags an instruction leaves; the immediate compare takes its carry from Rm.
FlagsOf(i, x, y) ==
  IF i.op = "CMPI" THEN [z |-> x = i.imm, c |-> x >= y] ELSE SubFlags(x, y)

\* The result of e with operands x and y; MADD reads its addend from the file.
ALUResult(e, x, y, file) ==
  LET i == e.inst
  IN CASE i.op = "ADD" -> Wrap(x + y)
       [] i.op = "ADDI" -> Wrap(x + i.imm)
       [] i.op = "CMP" -> Wrap(x - y)
       [] i.op = "CMPI" -> Wrap(x - i.imm)
       [] i.op = "MADD" -> Wrap((IF i.rt2 = XZR THEN e.rm ELSE file[i.rt2]) + x * y)
       [] i.op = "LDRP" -> x
       [] i.op \in {"LDR", "LDP", "STR", "STP"} -> Wrap(x + i.imm)
       [] i.op = "BL" -> Wrap(e.pc + 1)
       [] OTHER -> 0

\* EX/MEM for e, with the data st and st2 it stores.
Result(e, x, y, st, st2, file) ==
  [valid |-> TRUE, pc |-> e.pc, inst |-> e.inst, alu |-> ALUResult(e, x, y, file),
   st |-> IF IsStore(e.inst) THEN st ELSE 0, st2 |-> IF e.inst.op = "STP" THEN st2 ELSE 0,
   fl |-> IF SetsFlags(e.inst) THEN FlagsOf(e.inst, x, y) ELSE [z |-> FALSE, c |-> FALSE]]

\* Whether the branch in the ID/EX register e is taken under the flags f, and where
\* to, when x is its operand.
Taken(e, f) == \/ e.inst.op \in {"BL", "RET"}
               \/ e.inst.op = "BEQ" /\ f.z
               \/ e.inst.op = "BCS" /\ f.c
Target(e, x) == IF e.inst.op = "RET" THEN x ELSE e.inst.imm

\* Branch prediction verification against what was predicted at fetch.
Mispredicted(e, f, x) ==
  /\ IsBranch(e.inst)
  /\ IF Taken(e, f) THEN /\ ~e.guess.taken \/ e.guess.target # Target(e, x)
                         /\ ~e.guess.early
     ELSE e.guess.taken

RestartPC(e, f, x) == IF Taken(e, f) THEN Target(e, x) ELSE Wrap(e.pc + 1)

\* Store data is read in EX from the register file and forwarded over it.
StoreData(file, r) == GetForwardedValue(r, ReadReg(file, r))

Executed ==
  Result(idex, OperandRn, OperandRm, StoreData(RegsNow, idex.inst.rd),
         StoreData(RegsNow, idex.inst.rt2), RegsNow)

---------------------------------------------------------------------------
(* IF and ID                                                               *)

\* What the predictor, overridden by early resolution and by the target in the
\* encoding, may say of the instruction i at n; next is where fetch goes on.
Guesses(n, i) ==
  LET none == [taken |-> FALSE, target |-> 0, early |-> FALSE, next |-> Wrap(n + 1)]
      to(t) == [taken |-> TRUE, target |-> t, early |-> FALSE, next |-> t]
  IN CASE i.op = "BL" -> {[to(i.imm) EXCEPT !.early = TRUE]}
       [] i.op \in {"BEQ", "BCS", "CBZ"} -> {none, to(i.imm)}
       [] i.op = "RET" -> {none, [none EXCEPT !.taken = TRUE]} \cup {to(t) : t \in Val}
       [] OTHER -> {none}

\* Mutation: every call is a new request.
FetchRestarts(port, n, hit) ==
  LET left == IF hit THEN 0 ELSE MissLatency - 1
  IN [stall |-> left > 0, inst |-> InstAt(prog, n),
      port |-> IF left > 0 THEN [pending |-> TRUE, pc |-> n, left |-> left] ELSE NoFetch]

\* CachedFetchStage.Fetch of n: hit is what the I-cache answers to a new request; a
\* request for another PC than the one pending at the port starts anew.
Fetch(port, n, hit) ==
  LET waited == port.pending /\ port.pc = n
      left == IF waited THEN port.left - 1 ELSE IF hit THEN 0 ELSE MissLatency - 1
  IN [stall |-> left > 0, inst |-> InstAt(prog, n),
      port |-> IF left > 0 THEN [pending |-> TRUE, pc |-> n, left |-> left] ELSE NoFetch]

\* IF/ID for the instruction i fetched at n under the prediction g.
Fetched(n, i, g) == [valid |-> TRUE, pc |-> n, inst |-> i, guess |-> g]

\* Decode reads the registers WB and the system call of this tick have written.
Decoded(f, file) ==
  [valid |-> TRUE, pc |-> f.pc, inst |-> f.inst, guess |-> f.guess,
   rn |-> ReadReg(file, f.inst.rn), rm |-> ReadReg(file, f.inst.rm)]

---------------------------------------------------------------------------
(* Hazards: operands this pipeline does not deliver.  Each is a condition on *)
(* the latched registers under which the tick computes something else than   *)
(* the program says; the runs name in Avoid those their programs keep off.   *)

\* Registers whose value travels with the instruction from ID.
Captured(i) ==
  CASE i.op \in {"ADD", "CMP", "MADD"} -> {i.rn, i.rm} \ {XZR}
    [] i.op \in {"ADDI", "CMPI", "RET"} \/ IsMem(i) -> {i.rn} \ {XZR}
    [] OTHER -> {}

\* Registers read for the first time in EX.
ReadInEX(i) ==
  CASE i.op = "STR" -> {i.rd} \ {XZR}
    [] i.op = "STP" -> {i.rd, i.rt2} \ {XZR}
    [] OTHER -> {}

Loaded(i) == IF RegWrite(i) /\ IsLoad(i)
               THEN {i.rd} \cup (IF i.op = "LDP" THEN {i.rt2} \ {XZR} ELSE {}) ELSE {}
Base(i) == IF i.op = "LDRP" THEN {i.rn} ELSE {}
Dests(i) == Loaded(i) \cup Base(i) \cup (IF RegWrite(i) THEN {DestOf(i)} ELSE {})

InEXMEM == IF exmem.valid THEN Dests(exmem.inst) ELSE {}
InMEMWB == IF memwb.valid THEN Dests(memwb.inst) ELSE {}

Hazards(held) ==
  LET i == idex.inst
      reads == Captured(i) \cup ReadInEX(i)
      loaded == IF exmem.valid THEN Loaded(exmem.inst) ELSE {}
      base == IF exmem.valid THEN Base(exmem.inst) ELSE {}
  IN  \* the operand is in MEM/WB and ID/EX is held another tick
      (IF idex.valid /\ held /\ (Captured(i) \cap InMEMWB) \ InEXMEM # {}
         THEN {"lost in MEM/WB"} ELSE {})
      \* the result of the call in EX/MEM was captured before the call, or the older
      \* X0 in MEM/WB is forwarded over it
 \cup (IF idex.valid /\ Syscall /\ 0 \in Captured(i) \cup (ReadInEX(i) \cap InMEMWB)
         THEN {"call result"} ELSE {})
      \* the call in EX/MEM is handled again
 \cup (IF Syscall /\ ~Exits /\ held THEN {"call repeated"} ELSE {})
      \* the addend of MADD is still in EX/MEM, or is XZR
 \cup (IF idex.valid /\ i.op = "MADD" /\ ~held /\ i.rt2 \in InEXMEM \cup {XZR}
         THEN {"addend"} ELSE {})
      \* a loaded value is forwarded from EX/MEM as its address
 \cup (IF idex.valid /\ loaded \cap reads # {} THEN {"load use"} ELSE {})
      \* a pair into one register, or into XZR first, and a load into its own base
 \cup (IF idex.valid /\ i.op = "LDP" /\ i.rd \in {i.rt2, XZR} THEN {"pair register"} ELSE {})
 \cup (IF idex.valid /\ i.op = "LDRP" /\ i.rd = i.rn THEN {"loaded base"} ELSE {})
      \* the written-back base is not forwarded
 \cup (IF idex.valid /\ (\/ base \cap reads # {}
                         \/ memwb.valid /\ Base(memwb.inst) \cap Captured(i) # {})
         THEN {"base"} ELSE {})
      \* the compare-and-branch has no execute stage
 \cup (IF idex.valid /\ i.op = "CBZ" THEN {"compare and branch"} ELSE {})
      \* the carry of an immediate compare
 \cup (IF idex.valid /\ i.op = "CMPI"
          /\ (OperandRn >= i.imm) # (OperandRn >= OperandRm) THEN {"carry"} ELSE {})
      \* a taken prediction without target meets a branch to 0
 \cup (IF idex.valid /\ i.op = "RET" /\ idex.guess.taken /\ Target(idex, OperandRn) = 0
          /\ idex.guess.next # 0 THEN {"return to 0"} ELSE {})
      \* behind a D-cache: pairs, a store already issued, calls reading memory
 \cup (IF Machine.dcache /\ exmem.valid /\ exmem.inst.op \in {"LDP", "STP"} THEN {"pair"} ELSE {})
 \cup (IF Machine.dcache /\ exmem.valid /\ IsStore(exmem.inst) /\ dport.issued
          /\ dport.ipc = exmem.pc /\ dport.iaddr = exmem.alu /\ view[exmem.alu] # exmem.st
         THEN {"store skipped"} ELSE {})
 \cup (IF Machine.dcache /\ Syscall /\ ~Exits /\ mem # view THEN {"call memory"} ELSE {})

---------------------------------------------------------------------------
Init ==
  /\ setup \in DOMAIN Setups
  /\ prog \in Machine.programs
  /\ regs \in Machine.regs
  /\ mem \in InitMems
  /\ view = mem
  /\ fl = [z |-> FALSE, c |-> FALSE] /\ flBefore = fl
  /\ out = << >> /\ halted = FALSE /\ code = 0
  /\ pc = 0
  /\ ifid = Empty /\ idex = Empty /\ exmem = Empty /\ memwb = Empty
  /\ exLatency = 0
  /\ fport = NoFetch /\ dport = NoAccess
  /\ retired = 0 /\ executed = 0

\* The tick may reach the D-cache.
Accesses == Machine.dcache /\ exmem.valid /\ IsMem(exmem.inst)

\* One cycle: acc is what the memory answers, fetch what the instruction memory answers,
\* victim the word a D-cache access writes back, guess what fetch is told, now the
\* registers after WB and result what EX computes.
Cycle(acc, fetch, guess, victim, now, result) ==
  LET memStall == acc.stall
      execStall == idex.valid /\ ~memStall /\ CyclesLeft(exLatency, idex) > 1
      executes == idex.valid /\ ~memStall /\ ~execStall
      flush == executes /\ Mispredicted(idex, BranchFlags, OperandRn)
      stall == LoadUse \/ execStall \/ memStall
      fetches == ~stall /\ ~flush
      fetchStall == fetches /\ fetch.stall
      fetched == fetches /\ ~fetch.stall
      eliminated == fetch.inst.op = "B"
      held == memStall \/ execStall \/ fetchStall
  IN
  /\ Hazards(held) \cap Avoid = {}
  \* WB
  /\ regs' = now
  /\ retired' = retired + (IF memwb.valid THEN 1 ELSE 0)
  \* MEM
  /\ halted' = Exits
  /\ code' = IF Exits THEN AfterMEMWB[0] ELSE code
  /\ out' = IF Syscall /\ ~Exits THEN Append(out, mem[ReadReg(AfterMEMWB, 1)]) ELSE out
  /\ view' = acc.view
  /\ mem' = IF ~Machine.dcache THEN acc.view
            ELSE IF Accesses THEN [mem EXCEPT ![victim] = acc.view[victim]] ELSE mem
  /\ dport' = acc.port
  /\ memwb' = NextMEMWB(acc, fetchStall)
  \* EX
  /\ exLatency' = IF idex.valid /\ ~memStall THEN CyclesLeft(exLatency, idex) - 1 ELSE exLatency
  /\ fl' = IF executes /\ SetsFlags(idex.inst) THEN result.fl ELSE fl
  /\ exmem' = IF held THEN exmem ELSE IF executes THEN result ELSE Empty
  \* IF
  /\ fport' = IF fetches /\ Machine.icache THEN fetch.port ELSE fport
  /\ pc' = CASE flush -> RestartPC(idex, BranchFlags, OperandRn)
             [] fetched /\ eliminated -> fetch.inst.imm
             [] fetched /\ ~eliminated -> guess.next
             [] OTHER -> pc
  /\ ifid' = CASE flush -> Empty
               [] ~flush /\ (stall \/ fetchStall) -> ifid
               [] fetched /\ eliminated -> Empty
               [] OTHER -> Fetched(pc, fetch.inst, guess)
  \* ID
  /\ idex' = CASE held -> idex
               [] ~held /\ (flush \/ LoadUse \/ ~ifid.valid) -> Empty
               [] OTHER -> Decoded(ifid, now)
  /\ executed' = IF executes /\ ~fetchStall THEN executed + 1 ELSE executed
  /\ flBefore' = IF held \/ Exits THEN flBefore ELSE fl'
  /\ UNCHANGED <<setup, prog>>

\* What the D-cache answers an access with; the hit of a load at the address stored to
\* last waits for the data (StoreForwardLatency).
AccessLatencies == {HitLatency, HitLatency + 1, MissLatency}

Tick ==
  /\ ~halted
  /\ executed < MaxExecuted
  /\ \E lat \in IF Accesses THEN AccessLatencies ELSE {HitLatency},
        hit \in IF Machine.icache THEN BOOLEAN ELSE {TRUE},
        victim \in IF Accesses THEN Val ELSE {0} :
       \E guess \in Guesses(pc, InstAt(prog, pc)), acc \in {Access(lat)},
          fetch \in {Fetch(fport, pc, hit)}, now \in {RegsNow},
          result \in {IF idex.valid THEN Executed ELSE Empty} :
         Cycle(acc, fetch, guess, victim, now, result)

Next == Tick

Spec == Init /\ [][Next]_vars
FairSpec == Spec /\ WF_vars(Tick)

---------------------------------------------------------------------------
(* What has been committed: the state the program is in once the results in *)
(* EX/MEM and MEM/WB reach the register file and the memory.                *)

\* PSTATE: a compare that EX is held with has set it already, and so has one that was in
\* EX behind the exit call.
CommittedFl == IF halted \/ (idex.valid /\ SetsFlags(idex.inst)) THEN flBefore ELSE fl

\* The register file once the instruction in EX/MEM is done as well.
AfterEXMEM ==
  IF ~exmem.valid \/ halted \/ Exits THEN AfterMEMWB
  ELSE IF Syscall THEN [AfterMEMWB EXCEPT ![0] = 1]
  ELSE WritebackSlot(AfterMEMWB, Leaving(exmem, AccessMemory(exmem, view)))

Storing == exmem.valid /\ ~halted /\ IsStore(exmem.inst)

ExitPC == IF memwb.valid /\ EndsProgram(memwb.inst) THEN memwb.pc ELSE exmem.pc

CommittedPC ==
  IF halted \/ Exits THEN Wrap(ExitPC + 1)
  ELSE IF idex.valid THEN idex.pc ELSE IF ifid.valid THEN ifid.pc ELSE pc

Committed ==
  [pc |-> Follow(prog, CommittedPC),
   regs |-> AfterEXMEM,
   mem |-> IF Storing THEN AccessMemory(exmem, view).view ELSE view,
   fl |-> CommittedFl,
   out |-> IF Syscall /\ ~Exits /\ ~halted
             THEN Append(out, view[ReadReg(AfterMEMWB, 1)]) ELSE out,
   halted |-> halted \/ Exits,
   code |-> IF ~halted /\ Exits THEN AfterMEMWB[0] ELSE code]

Emu == INSTANCE Emulator WITH arch <- Committed,
                              Programs <- UNION {Setups[s].programs : s \in DOMAIN Setups},
                              InitRegs <- UNION {Setups[s].regs : s \in DOMAIN Setups}

(* Instruction by instruction, the registers, flags, memory, output, PC and  *)
(* exit code the pipeline commits are those the emulator computes: nothing    *)
(* forwarded, stalled, flushed, replayed or fetched on a wrong path shows.    *)
ImplementsEmulator == Emu!FoldedSpec

---------------------------------------------------------------------------
(* Every register, memory word, address and pipeline register has its type:   *)
(* no value leaves the word, however it was computed, forwarded or loaded.    *)
TypeOK ==
  /\ regs \in [Regs -> Val] /\ mem \in [Val -> Val] /\ view \in [Val -> Val]
  /\ fl \in Flags /\ pc \in Val /\ halted \in BOOLEAN /\ code \in Val
  /\ \A r \in {ifid, idex, exmem, memwb} :
       r # Empty => r.valid /\ r.pc \in Val /\ r.inst \in Inst
  /\ exmem # Empty => {exmem.alu, exmem.st, exmem.st2} \subseteq Val
  /\ memwb # Empty => {memwb.alu, memwb.data, memwb.data2} \subseteq Val

(* Statistics.Instructions counts every instruction that completes once: what *)
(* left EX is either counted or still in EX/MEM or MEM/WB.                    *)
RetireAccounting ==
  executed = retired + (IF exmem.valid THEN 1 ELSE 0) + (IF memwb.valid THEN 1 ELSE 0)

(* A run of a program without loops comes to its end: stalls of the memory,   *)
(* of a multi-cycle operation and of the I-cache never hold each other up.    *)
Halts == <>halted

---------------------------------------------------------------------------
(* What the comments of the code say of this pipeline.                     *)

(* Tick: "Data forwarding from EX/MEM and MEM/WB stages to resolve RAW       *)
(* hazards": a register operand of the instruction in ID/EX that no load in   *)
(* EX/MEM is loading can be had with the value program order gives it.        *)
ForwardingDelivers ==
  idex.valid /\ ~halted =>
    \A s \in {<<idex.inst.rn, OperandRn>>, <<idex.inst.rm, OperandRm>>} :
      s[1] \in Captured(idex.inst) /\ ~(exmem.valid /\ s[1] \in Dests(exmem.inst) /\ IsLoad(exmem.inst))
        => s[2] = ReadReg(AfterEXMEM, s[1])

(* CachedMemoryStage.Access: a duplicate store is skipped when a stall        *)
(* replays the cycle.  A store that leaves MEM has reached the D-cache.       *)
StoresReachTheCache ==
  [][Storing /\ memwb'.valid => view'[exmem.alu] = exmem.st]_vars
==========================================================================
