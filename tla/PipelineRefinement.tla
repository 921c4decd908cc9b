----------------------- MODULE PipelineRefinement -----------------------
(* SingleIssue implements the emulator, and does so again after a Reset, for *)
(* every machine, program, latency, cache behaviour and prediction, as long  *)
(* as no operand hazard the pipeline has is met.                            *)
EXTENDS Restart, PipelineProofs

---------------------------------------------------------------------------
(* The hazards.                                                            *)

HazardNames == {
  "lost in MEM/WB", "call result", "call repeated", "addend", "load use", "pair register",
  "loaded base", "base", "compare and branch", "carry", "return to 0", "pair",
  "store skipped", "call memory" }

\* A load whose destinations do not get in each other's way.
Ordinary(i) ==
  /\ i.op = "LDP" => i.rd \notin {i.rt2, XZR}
  /\ i.op = "LDRP" => i.rd # i.rn

Reads(i) == Captured(i) \cup ReadInEX(i)

\* What the absence of each hazard says, of the operands and of the memory.
OperandsClear(held) ==
  /\ held => Captured(idex.inst) \cap InMEMWB \subseteq InEXMEM
  /\ Syscall => 0 \notin Captured(idex.inst) \cup (ReadInEX(idex.inst) \cap InMEMWB)
  /\ idex.inst.op = "MADD" /\ ~held => idex.inst.rt2 \notin InEXMEM \cup {XZR}
  /\ exmem.valid => (Loaded(exmem.inst) \cup Base(exmem.inst)) \cap Reads(idex.inst) = {}
  /\ memwb.valid => Base(memwb.inst) \cap Captured(idex.inst) = {}
  /\ Ordinary(idex.inst)
  /\ idex.inst.op # "CBZ"
  /\ idex.inst.op = "CMPI" => (OperandRn >= idex.inst.imm) = (OperandRn >= OperandRm)
  /\ idex.inst.op = "RET" /\ idex.guess.taken /\ Target(idex, OperandRn) = 0 => idex.guess.next = 0

MemoryClear(held) ==
  /\ ~(Syscall /\ ~Exits /\ held)
  /\ Machine.dcache /\ exmem.valid => exmem.inst.op \notin {"LDP", "STP"}
  /\ Machine.dcache /\ exmem.valid /\ IsStore(exmem.inst) /\ Issued(exmem.alu)
       => view[exmem.alu] = exmem.st
  /\ Machine.dcache /\ Syscall /\ ~Exits => mem = view

LEMMA HazardsNamed ==
  ASSUME NEW held
  PROVE  /\ idex.valid /\ held /\ (Captured(idex.inst) \cap InMEMWB) \ InEXMEM # {}
              => "lost in MEM/WB" \in Hazards(held)
         /\ idex.valid /\ Syscall /\ 0 \in Captured(idex.inst) \cup (ReadInEX(idex.inst) \cap InMEMWB)
              => "call result" \in Hazards(held)
         /\ Syscall /\ ~Exits /\ held => "call repeated" \in Hazards(held)
         /\ idex.valid /\ idex.inst.op = "MADD" /\ ~held /\ idex.inst.rt2 \in InEXMEM \cup {XZR}
              => "addend" \in Hazards(held)
         /\ idex.valid /\ exmem.valid /\ Loaded(exmem.inst) \cap Reads(idex.inst) # {}
              => "load use" \in Hazards(held)
         /\ idex.valid /\ exmem.valid /\ Base(exmem.inst) \cap Reads(idex.inst) # {}
              => "base" \in Hazards(held)
         /\ idex.valid /\ memwb.valid /\ Base(memwb.inst) \cap Captured(idex.inst) # {}
              => "base" \in Hazards(held)
         /\ idex.valid /\ idex.inst.op = "LDP" /\ idex.inst.rd \in {idex.inst.rt2, XZR}
              => "pair register" \in Hazards(held)
         /\ idex.valid /\ idex.inst.op = "LDRP" /\ idex.inst.rd = idex.inst.rn
              => "loaded base" \in Hazards(held)
         /\ idex.valid /\ idex.inst.op = "CBZ" => "compare and branch" \in Hazards(held)
         /\ idex.valid /\ idex.inst.op = "CMPI"
              /\ (OperandRn >= idex.inst.imm) # (OperandRn >= OperandRm)
              => "carry" \in Hazards(held)
         /\ idex.valid /\ idex.inst.op = "RET" /\ idex.guess.taken /\ Target(idex, OperandRn) = 0
              /\ idex.guess.next # 0 => "return to 0" \in Hazards(held)
         /\ Machine.dcache /\ exmem.valid /\ exmem.inst.op \in {"LDP", "STP"}
              => "pair" \in Hazards(held)
         /\ Machine.dcache /\ exmem.valid /\ IsStore(exmem.inst) /\ Issued(exmem.alu)
              /\ view[exmem.alu] # exmem.st => "store skipped" \in Hazards(held)
         /\ Machine.dcache /\ Syscall /\ ~Exits /\ mem # view => "call memory" \in Hazards(held)
  BY DEF Hazards, Reads, Issued, IssuedFromPC

LEMMA NoHazard ==
  ASSUME HazardNames \subseteq Avoid, NEW held \in BOOLEAN, Hazards(held) \cap Avoid = {}
  PROVE  MemoryClear(held) /\ (idex.valid => OperandsClear(held))
<1>1. \A h \in HazardNames : h \notin Hazards(held)
  OBVIOUS
<1>2. MemoryClear(held)
  BY <1>1, HazardsNamed DEF HazardNames, MemoryClear
<1>3. ASSUME idex.valid PROVE OperandsClear(held)
  BY <1>1, <1>3, HazardsNamed DEF HazardNames, OperandsClear, Ordinary
<1>4. QED
  BY <1>2, <1>3

---------------------------------------------------------------------------
(* The two shapes of a tick: EX is held, or every stage goes on.           *)

\* What WB and MEM do in either.
Retires(acc) ==
  /\ setup' = setup /\ prog' = prog
  /\ regs' = RegsNow
  /\ halted' = Exits
  /\ code' = (IF Exits THEN AfterMEMWB[0] ELSE code)
  /\ out' = (IF Syscall /\ ~Exits THEN Append(out, mem[ReadReg(AfterMEMWB, 1)]) ELSE out)
  /\ view' = acc.view
  /\ ~Machine.dcache => mem' = acc.view
  /\ dport' = acc.port

\* Memory, execution or fetch stalls; MEM/WB may nevertheless take what is in EX/MEM.
Holds(acc) ==
  /\ MemoryClear(TRUE) /\ (idex.valid => OperandsClear(TRUE))
  /\ exmem' = exmem /\ idex' = idex /\ ifid' = ifid /\ pc' = pc
  /\ flBefore' = flBefore
  /\ fl' = fl \/ (idex.valid /\ SetsFlags(idex.inst))
  /\ memwb' = Empty \/ (exmem.valid /\ ~acc.stall /\ memwb' = Leaving(exmem, acc))

\* Fetch starts again behind a mispredicted branch.
Flushes ==
  /\ idex.valid /\ Mispredicted(idex, BranchFlags, OperandRn)
  /\ pc' = RestartPC(idex, BranchFlags, OperandRn)
  /\ ifid' = Empty /\ idex' = Empty

\* A bubble is put between a load and its use.
Bubble == ifid.valid /\ idex' = Empty /\ ifid' = ifid /\ pc' = pc

\* Fetch goes on at pc.
GoesOn ==
  LET i == InstAt(prog, pc)
  IN /\ idex' = (IF ifid.valid THEN Decoded(ifid, RegsNow) ELSE Empty)
     /\ \/ i.op = "B" /\ ifid' = Empty /\ pc' = i.imm
        \/ i.op # "B" /\ \E guess \in Guesses(pc, i) :
                           ifid' = Fetched(pc, i, guess) /\ pc' = guess.next

Advances(acc) ==
  /\ MemoryClear(FALSE) /\ (idex.valid => OperandsClear(FALSE))
  /\ ~acc.stall
  /\ memwb' = (IF exmem.valid THEN Leaving(exmem, acc) ELSE Empty)
  /\ exmem' = (IF idex.valid THEN Executed ELSE Empty)
  /\ fl' = (IF idex.valid /\ SetsFlags(idex.inst) THEN Executed.fl ELSE fl)
  /\ flBefore' = (IF Exits THEN flBefore ELSE fl')
  /\ \/ Flushes
     \/ /\ idex.valid => ~Mispredicted(idex, BranchFlags, OperandRn)
        /\ Bubble \/ GoesOn

LEMMA CycleShape ==
  ASSUME Typed, HazardNames \subseteq Avoid, NEW acc \in MemoryAnswer, NEW fetch \in FetchAnswer,
         fetch.inst = InstAt(prog, pc), NEW guess \in Guesses(pc, InstAt(prog, pc)), NEW victim,
         Cycle(acc, fetch, guess, victim, RegsNow, IF idex.valid THEN Executed ELSE Empty)
  PROVE  Retires(acc) /\ (Holds(acc) \/ Advances(acc))
<1> DEFINE result == IF idex.valid THEN Executed ELSE Empty
           memStall == acc.stall
           execStall == idex.valid /\ ~memStall /\ CyclesLeft(exLatency, idex) > 1
           executes == idex.valid /\ ~memStall /\ ~execStall
           flush == executes /\ Mispredicted(idex, BranchFlags, OperandRn)
           stall == LoadUse \/ execStall \/ memStall
           fetches == ~stall /\ ~flush
           fetchStall == fetches /\ fetch.stall
           fetched == fetches /\ ~fetch.stall
           eliminated == fetch.inst.op = "B"
           held == memStall \/ execStall \/ fetchStall
<1>1. Hazards(held) \cap Avoid = {}
  BY Zenon DEF Cycle
<1>2. /\ regs' = RegsNow
      /\ halted' = Exits
      /\ code' = IF Exits THEN AfterMEMWB[0] ELSE code
      /\ out' = IF Syscall /\ ~Exits THEN Append(out, mem[ReadReg(AfterMEMWB, 1)]) ELSE out
      /\ view' = acc.view
      /\ mem' = IF ~Machine.dcache THEN acc.view
                ELSE IF Accesses THEN [mem EXCEPT ![victim] = acc.view[victim]] ELSE mem
      /\ dport' = acc.port
      /\ memwb' = NextMEMWB(acc, fetchStall)
      /\ setup' = setup /\ prog' = prog
  BY Zenon DEF Cycle
<1>3. /\ fl' = IF executes /\ SetsFlags(idex.inst) THEN result.fl ELSE fl
      /\ exmem' = IF held THEN exmem ELSE IF executes THEN result ELSE Empty
      /\ flBefore' = IF held \/ Exits THEN flBefore ELSE fl'
  BY Zenon DEF Cycle
<1>4. /\ pc' = CASE flush -> RestartPC(idex, BranchFlags, OperandRn)
             [] fetched /\ eliminated -> fetch.inst.imm
             [] fetched /\ ~eliminated -> guess.next
             [] OTHER -> pc
      /\ ifid' = CASE flush -> Empty
               [] ~flush /\ (stall \/ fetchStall) -> ifid
               [] fetched /\ eliminated -> Empty
               [] OTHER -> Fetched(pc, fetch.inst, guess)
      /\ idex' = CASE held -> idex
               [] ~held /\ (flush \/ LoadUse \/ ~ifid.valid) -> Empty
               [] OTHER -> Decoded(ifid, RegsNow)
  BY Zenon DEF Cycle
<1>5. /\ idex.valid \in BOOLEAN /\ exmem.valid \in BOOLEAN /\ ifid.valid \in BOOLEAN
      /\ acc.stall \in BOOLEAN /\ fetch.stall \in BOOLEAN
  BY ValidRegisters DEF Typed, MemoryAnswer, FetchAnswer
<1>6. held \in BOOLEAN
  BY <1>5
<1>7. MemoryClear(held) /\ (idex.valid => OperandsClear(held))
  <2> HIDE DEF held
  <2>1. QED
    BY <1>1, <1>6, NoHazard
<1>8. Retires(acc)
  BY <1>2 DEF Retires
<1>9. LoadUse => ifid.valid
  BY DEF LoadUse, FeedsNext
<1>10. CASE held
  <2>1. ~flush \/ memStall \/ execStall
    BY <1>10
  <2>2. ~flush
    BY <2>1
  <2>3. pc' = pc /\ ifid' = ifid /\ idex' = idex
    BY <1>4, <1>10, <2>2, Zenon
  <2>4. memwb' = Empty \/ (exmem.valid /\ ~acc.stall /\ memwb' = Leaving(exmem, acc))
    BY <1>2, Zenon DEF NextMEMWB
  <2>5. exmem' = exmem /\ flBefore' = flBefore /\ (fl' = fl \/ (idex.valid /\ SetsFlags(idex.inst)))
    BY <1>3, <1>10, Zenon
  <2>6. MemoryClear(TRUE) /\ (idex.valid => OperandsClear(TRUE))
    <3>1. held = TRUE
      BY <1>6, <1>10
    <3>2. QED
      BY <1>7, <3>1, Zenon
  <2>7. Holds(acc)
    BY <2>3, <2>4, <2>5, <2>6, Zenon DEF Holds
  <2>8. QED
    BY <1>8, <2>7
<1>11. CASE ~held
  <2>1. ~memStall /\ ~execStall /\ ~fetchStall
    BY <1>11
  <2>2. executes <=> idex.valid
    BY <2>1
  <2>3. memwb' = IF exmem.valid THEN Leaving(exmem, acc) ELSE Empty
    BY <1>2, <2>1, Zenon DEF NextMEMWB
  <2>4. /\ exmem' = IF idex.valid THEN Executed ELSE Empty
        /\ fl' = IF idex.valid /\ SetsFlags(idex.inst) THEN Executed.fl ELSE fl
        /\ flBefore' = IF Exits THEN flBefore ELSE fl'
    <3> HIDE DEF executes, held
    <3>1. QED
      BY <1>3, <1>11, <2>2, Zenon
  <2>5. MemoryClear(FALSE) /\ (idex.valid => OperandsClear(FALSE))
    <3>1. held = FALSE
      BY <1>6, <1>11
    <3>2. QED
      BY <1>7, <3>1, Zenon
  <2>6. CASE flush
    <3>1. Flushes
      <4>1. pc' = RestartPC(idex, BranchFlags, OperandRn) /\ ifid' = Empty
        BY <1>4, <2>6, Zenon
      <4>2. idex' = Empty
        BY <1>4, <1>11, <2>6, Zenon
      <4>3. QED
        BY <2>6, <4>1, <4>2, Zenon DEF Flushes
    <3>2. QED
      BY <1>8, <2>1, <2>3, <2>4, <2>5, <3>1, Zenon DEF Advances
  <2>7. CASE ~flush /\ LoadUse
    <3>1. Bubble
      BY <1>4, <1>9, <1>11, <2>7, Zenon DEF Bubble
    <3>2. idex.valid => ~Mispredicted(idex, BranchFlags, OperandRn)
      BY <2>2, <2>7
    <3>3. Advances(acc)
      <4> HIDE DEF flush
      <4>1. QED
        BY <2>1, <2>3, <2>4, <2>5, <3>1, <3>2 DEF Advances
    <3>4. QED
      BY <1>8, <3>3
  <2>8. CASE ~flush /\ ~LoadUse
    <3>1. fetched
      BY <2>1, <2>8
    <3>2. idex' = IF ifid.valid THEN Decoded(ifid, RegsNow) ELSE Empty
      BY <1>4, <1>11, <2>8, Zenon
    <3>3. idex.valid => ~Mispredicted(idex, BranchFlags, OperandRn)
      BY <2>2, <2>8
    <3>4. GoesOn
      <4>1. CASE eliminated
        <5>1. ifid' = Empty /\ pc' = fetch.inst.imm
          BY <1>4, <2>1, <2>8, <3>1, <4>1, Zenon
        <5>2. QED
          BY <3>2, <4>1, <5>1 DEF GoesOn
      <4>2. CASE ~eliminated
        <5>1. ifid' = Fetched(pc, fetch.inst, guess) /\ pc' = guess.next
          BY <1>4, <2>1, <2>8, <3>1, <4>2, Zenon
        <5>2. QED
          BY <3>2, <4>2, <5>1 DEF GoesOn
      <4>3. QED
        BY <4>1, <4>2
    <3>5. Advances(acc)
      <4> HIDE DEF flush
      <4>1. QED
        BY <2>1, <2>3, <2>4, <2>5, <3>3, <3>4 DEF Advances
    <3>6. QED
      BY <1>8, <3>5
  <2>9. QED
    BY <2>6, <2>7, <2>8
<1>12. QED
  BY <1>10, <1>11

---------------------------------------------------------------------------
(* MEM: an access that is answered is the access the program makes.        *)

\* The memory below is the one seen where there is no D-cache, and what the D-cache
\* answered to the load that waits is still what it would answer.
MemoryKnown ==
  /\ ~Machine.dcache => mem = view
  /\ Machine.dcache /\ dport.pending => dport.data = view[dport.addr]

LEMMA Exclusive ==
  ASSUME NEW i
  PROVE  /\ IsLoad(i) => ~IsStore(i) /\ i.op \notin {"STR", "STP"}
         /\ IsStore(i) => ~IsLoad(i) /\ i.op \in {"STR", "STP"}
  BY DEF IsLoad, IsStore

LEMMA PlainAnswer ==
  ASSUME exmem.valid, ~Machine.dcache, NEW lat
  PROVE  LET done == AccessMemory(exmem, view)
         IN /\ Access(lat).stall => IsMem(exmem.inst) /\ Access(lat).view = view
            /\ ~Access(lat).stall => /\ Access(lat).view = done.view
                                     /\ Access(lat).data = done.data
                                     /\ Access(lat).data2 = done.data2
<1> DEFINE done == AccessMemory(exmem, view)
           waits == IsMem(exmem.inst) /\ ~(dport.pending /\ dport.pc = exmem.pc)
<1>1. Access(lat) = IF waits
        THEN [stall |-> TRUE, port |-> [NoAccess EXCEPT !.pending = TRUE, !.pc = exmem.pc],
              data |-> 0, data2 |-> 0, view |-> view]
        ELSE [stall |-> FALSE, port |-> [dport EXCEPT !.pending = FALSE],
              data |-> done.data, data2 |-> done.data2, view |-> done.view]
  BY Zenon DEF Access, PlainAccess
<1> HIDE DEF done
<1>2. CASE waits
  BY <1>1, <1>2
<1>3. CASE ~waits
  <2> HIDE DEF waits
  <2>1. Access(lat) = [stall |-> FALSE, port |-> [dport EXCEPT !.pending = FALSE],
                       data |-> done.data, data2 |-> done.data2, view |-> done.view]
    BY <1>1, <1>3
  <2>2. QED
    BY <2>1 DEF done
<1>4. QED
  BY <1>2, <1>3

LEMMA CachedAnswer ==
  ASSUME Typed, MemoryKnown, MemoryClear(TRUE) \/ MemoryClear(FALSE),
         exmem.valid, Machine.dcache, NEW lat \in Nat
  PROVE  LET done == AccessMemory(exmem, view)
         IN /\ Access(lat).stall => IsLoad(exmem.inst) /\ Access(lat).view = view
            /\ ~Access(lat).stall => /\ Access(lat).view = done.view
                                     /\ IsLoad(exmem.inst) => Access(lat).data = done.data
                                     /\ Access(lat).data2 = done.data2
            /\ Access(lat).port.pending
                 => Access(lat).port.data = Access(lat).view[Access(lat).port.addr]
<1> DEFINE a == exmem.alu
           i == exmem.inst
           waited == dport.pending /\ dport.pc = exmem.pc /\ dport.addr = a
           left == IF waited THEN dport.left - 1 ELSE lat - 1
           data == IF waited THEN dport.data ELSE view[a]
<1>1. /\ exmem \in ExecuteRegister /\ a \in Val /\ exmem.st \in Val
      /\ view \in [Val -> Val] /\ dport \in AccessPort
  BY ValidRegisters DEF Typed, Stored, Ports, ExecuteRegister
<1>2. i.op \notin {"LDP", "STP"}
  BY DEF MemoryClear
<1>3. IsStore(i) /\ Issued(a) => view[a] = exmem.st
  BY DEF MemoryClear
<1>4. data = view[a]
  BY DEF MemoryKnown
<1>5. Access(lat) = CASE IsLoad(i) ->
            [stall |-> left > 0,
             port |-> [dport EXCEPT !.pending = left > 0, !.pc = exmem.pc, !.addr = a,
                                    !.left = left, !.data = data],
             data |-> IF left > 0 THEN 0 ELSE data, data2 |-> 0, view |-> view]
       [] IsStore(i) ->
            [stall |-> FALSE,
             port |-> [dport EXCEPT !.pending = FALSE, !.issued = TRUE, !.ipc = exmem.pc,
                                    !.iaddr = a],
             data |-> 0, data2 |-> 0,
             view |-> IF Issued(a) THEN view ELSE [view EXCEPT ![a] = exmem.st]]
       [] OTHER -> [stall |-> FALSE, port |-> [dport EXCEPT !.pending = FALSE],
                    data |-> 0, data2 |-> 0, view |-> view]
  BY Zenon DEF Access, CachedAccess
<1> HIDE DEF waited, left, data, a
<1>6. CASE IsLoad(i)
  <2> DEFINE port == [dport EXCEPT !.pending = left > 0, !.pc = exmem.pc, !.addr = a,
                                   !.left = left, !.data = data]
             waits == left > 0
             loaded == IF waits THEN 0 ELSE data
  <2>1. Access(lat) = [stall |-> waits, port |-> port, data |-> loaded, data2 |-> 0, view |-> view]
    BY <1>5, <1>6, Exclusive
  <2>2. AccessMemory(exmem, view).view = view /\ AccessMemory(exmem, view).data = view[a]
        /\ AccessMemory(exmem, view).data2 = 0
    BY <1>2, <1>6, Exclusive DEF AccessMemory, a
  <2>3. port.addr = a /\ port.data = data
    BY <1>1 DEF AccessPort
  <2>4. ~waits => loaded = data
    OBVIOUS
  <2> HIDE DEF port, waits, loaded
  <2>5. /\ Access(lat).stall = waits /\ Access(lat).view = view /\ Access(lat).data2 = 0
        /\ Access(lat).port = port /\ Access(lat).data = loaded
    BY <2>1
  <2>6. QED
    BY <1>4, <1>6, <2>2, <2>3, <2>4, <2>5
<1>7. CASE IsStore(i)
  <2> DEFINE port == [dport EXCEPT !.pending = FALSE, !.issued = TRUE, !.ipc = exmem.pc, !.iaddr = a]
             after == IF Issued(a) THEN view ELSE [view EXCEPT ![a] = exmem.st]
  <2>1. Access(lat) = [stall |-> FALSE, port |-> port, data |-> 0, data2 |-> 0, view |-> after]
    BY <1>5, <1>7, Exclusive
  <2>2. AccessMemory(exmem, view).view = [view EXCEPT ![a] = exmem.st]
        /\ AccessMemory(exmem, view).data2 = 0
    BY <1>2, <1>7, Exclusive DEF AccessMemory, a
  <2>3. after = [view EXCEPT ![a] = exmem.st]
    BY <1>1, <1>3, <1>7 DEF a
  <2>4. port.pending = FALSE
    BY <1>1 DEF AccessPort
  <2> HIDE DEF port, after
  <2>5. /\ Access(lat).stall = FALSE /\ Access(lat).view = after /\ Access(lat).data2 = 0
        /\ Access(lat).port = port
    BY <2>1
  <2>6. QED
    BY <1>7, <2>2, <2>3, <2>4, <2>5, Exclusive
<1>8. CASE ~IsLoad(i) /\ ~IsStore(i)
  <2>1. Access(lat) = [stall |-> FALSE, port |-> [dport EXCEPT !.pending = FALSE],
                       data |-> 0, data2 |-> 0, view |-> view]
    BY <1>5, <1>8
  <2>2. AccessMemory(exmem, view).view = view /\ AccessMemory(exmem, view).data2 = 0
    BY <1>2, <1>8 DEF AccessMemory, IsLoad, IsStore
  <2>3. Access(lat).stall = FALSE /\ Access(lat).port.pending = FALSE
    BY <1>1, <2>1 DEF AccessPort
  <2>4. QED
    BY <1>8, <2>1, <2>2, <2>3
<1>9. QED
  BY <1>6, <1>7, <1>8

\* What MEM answers for the instruction in EX/MEM, whatever the caches are.
LEMMA Answered ==
  ASSUME Typed, MemoryKnown, MemoryClear(TRUE) \/ MemoryClear(FALSE), exmem.valid, NEW lat \in Nat
  PROVE  LET done == AccessMemory(exmem, view)
         IN /\ Access(lat).stall => IsMem(exmem.inst) /\ Access(lat).view = view
            /\ ~Access(lat).stall => /\ Access(lat).view = done.view
                                     /\ IsLoad(exmem.inst) => Access(lat).data = done.data
                                     /\ Access(lat).data2 = done.data2
  BY PlainAnswer, CachedAnswer DEF IsMem

LEMMA MemoryStaysKnown ==
  ASSUME Typed, MemoryKnown, MemoryClear(TRUE) \/ MemoryClear(FALSE), NEW lat \in Nat,
         Retires(Access(lat))
  PROVE  MemoryKnown'
<1>1. Machine' = Machine
  BY DEF Retires, Machine
<1>2. ~Machine.dcache => mem' = view'
  BY DEF Retires
<1>3. ASSUME Machine.dcache, dport'.pending PROVE dport'.data = view'[dport'.addr]
  <2>1. CASE exmem.valid
    BY <1>3, <2>1, CachedAnswer DEF Retires
  <2>2. CASE ~exmem.valid
    BY <1>3, <2>2 DEF Retires, Access, Idle, MemoryKnown
  <2>3. QED
    BY <2>1, <2>2
<1>4. QED
  BY <1>1, <1>2, <1>3 DEF MemoryKnown

---------------------------------------------------------------------------
(* WB: what writing a MEM/WB register leaves in each register.             *)

LEMMA WriteRegAt ==
  ASSUME NEW file \in [Regs -> Val], NEW i \in Regs \cup {XZR}, NEW v, NEW r \in Regs
  PROVE  WriteReg(file, i, v)[r] = IF i = r THEN v ELSE file[r]
  BY RegisterFacts DEF WriteReg

LEMMA WrittenAt ==
  ASSUME NEW file \in [Regs -> Val], NEW s \in MemoryRegister, NEW r \in Regs
  PROVE  WritebackSlot(file, s)[r] =
           IF RegWrite(s.inst) /\ s.inst.op = "LDP" /\ s.inst.rt2 = r THEN s.data2
           ELSE IF RegWrite(s.inst) /\ DestOf(s.inst) = r THEN SlotValue(s)
           ELSE IF s.inst.op = "LDRP" /\ s.inst.rn = r THEN WritebackVal(s)
           ELSE file[r]
<1> DEFINE i == s.inst
           base == IF i.op = "LDRP" THEN WriteReg(file, i.rn, WritebackVal(s)) ELSE file
           first == IF RegWrite(i) THEN WriteReg(base, DestOf(i), SlotValue(s)) ELSE base
           second == IF RegWrite(i) /\ i.op = "LDP" THEN WriteReg(first, i.rt2, s.data2) ELSE first
<1>1. s.valid /\ i \in Inst /\ s.data2 \in Val
  BY DEF MemoryRegister
<1>2. /\ i.rn \in Regs \cup {XZR} /\ i.rt2 \in Regs \cup {XZR} /\ DestOf(i) \in Regs \cup {XZR}
  BY <1>1, InstFields, DestOfType
<1>3. WritebackVal(s) \in Val /\ SlotValue(s) \in Val
  <2>1. s.alu \in Val /\ s.data \in Val /\ i.imm \in Val
    BY <1>1, InstFields DEF MemoryRegister
  <2>2. QED
    BY <2>1, WrapSums DEF WritebackVal, SlotValue
<1>4. WritebackSlot(file, s) = second
  BY <1>1, Zenon DEF WritebackSlot
<1>5. base \in [Regs -> Val] /\ base[r] = IF i.op = "LDRP" /\ i.rn = r THEN WritebackVal(s) ELSE file[r]
  <2>1. WriteReg(file, i.rn, WritebackVal(s)) \in [Regs -> Val]
    BY <1>2, <1>3, WriteRegType
  <2>2. WriteReg(file, i.rn, WritebackVal(s))[r] = IF i.rn = r THEN WritebackVal(s) ELSE file[r]
    BY <1>2, WriteRegAt
  <2>3. QED
    BY <2>1, <2>2
<1> HIDE DEF base
<1>6. first \in [Regs -> Val] /\ first[r] = IF RegWrite(i) /\ DestOf(i) = r THEN SlotValue(s) ELSE base[r]
  <2>1. WriteReg(base, DestOf(i), SlotValue(s)) \in [Regs -> Val]
    BY <1>2, <1>3, <1>5, WriteRegType
  <2>2. WriteReg(base, DestOf(i), SlotValue(s))[r] = IF DestOf(i) = r THEN SlotValue(s) ELSE base[r]
    BY <1>2, <1>5, WriteRegAt
  <2>3. QED
    BY <1>5, <2>1, <2>2
<1> HIDE DEF first
<1>7. second[r] = IF RegWrite(i) /\ i.op = "LDP" /\ i.rt2 = r THEN s.data2 ELSE first[r]
  BY <1>1, <1>2, <1>6, WriteRegAt
<1>8. QED
  BY <1>4, <1>5, <1>6, <1>7

\* Register files are equal when they are equal register by register.
LEMMA SameFiles ==
  ASSUME NEW f \in [Regs -> Val], NEW g \in [Regs -> Val], \A r \in Regs : f[r] = g[r]
  PROVE  f = g
  OBVIOUS

\* Writing back again changes nothing.
LEMMA WrittenTwice ==
  ASSUME NEW file \in [Regs -> Val], NEW s \in MemoryRegister
  PROVE  WritebackSlot(WritebackSlot(file, s), s) = WritebackSlot(file, s)
<1> DEFINE once == WritebackSlot(file, s)
<1>1. once \in [Regs -> Val] /\ WritebackSlot(once, s) \in [Regs -> Val]
  BY WritebackType
<1>2. ASSUME NEW r \in Regs PROVE WritebackSlot(once, s)[r] = once[r]
  <2>1. once[r] =
           IF RegWrite(s.inst) /\ s.inst.op = "LDP" /\ s.inst.rt2 = r THEN s.data2
           ELSE IF RegWrite(s.inst) /\ DestOf(s.inst) = r THEN SlotValue(s)
           ELSE IF s.inst.op = "LDRP" /\ s.inst.rn = r THEN WritebackVal(s)
           ELSE file[r]
    BY WrittenAt
  <2> HIDE DEF once
  <2>2. WritebackSlot(once, s)[r] =
           IF RegWrite(s.inst) /\ s.inst.op = "LDP" /\ s.inst.rt2 = r THEN s.data2
           ELSE IF RegWrite(s.inst) /\ DestOf(s.inst) = r THEN SlotValue(s)
           ELSE IF s.inst.op = "LDRP" /\ s.inst.rn = r THEN WritebackVal(s)
           ELSE once[r]
    BY <1>1, WrittenAt
  <2>3. QED
    BY <2>1, <2>2
<1>3. QED
  BY <1>1, <1>2, SameFiles

\* A register that is not a destination is left alone.
LEMMA NotWritten ==
  ASSUME NEW file \in [Regs -> Val], NEW s \in MemoryRegister, NEW r \in Regs, r \notin Dests(s.inst)
  PROVE  WritebackSlot(file, s)[r] = file[r]
<1>1. r # XZR
  BY RegisterFacts
<1>2. /\ ~(RegWrite(s.inst) /\ s.inst.op = "LDP" /\ s.inst.rt2 = r)
      /\ ~(RegWrite(s.inst) /\ DestOf(s.inst) = r)
      /\ ~(s.inst.op = "LDRP" /\ s.inst.rn = r)
  BY <1>1 DEF Dests, Loaded, Base, IsLoad
<1>3. QED
  BY <1>2, WrittenAt

\* An instruction without destinations leaves the registers alone.
LEMMA NothingWritten ==
  ASSUME NEW file \in [Regs -> Val], NEW s \in MemoryRegister, ~RegWrite(s.inst), s.inst.op # "LDRP"
  PROVE  WritebackSlot(file, s) = file
<1>1. WritebackSlot(file, s) \in [Regs -> Val]
  BY WritebackType
<1>2. \A r \in Regs : WritebackSlot(file, s)[r] = file[r]
  BY WrittenAt
<1>3. QED
  BY <1>1, <1>2, SameFiles

\* What is written depends on what was loaded only where there is a load.
LEMMA WrittenAlike ==
  ASSUME NEW file \in [Regs -> Val], NEW m \in ExecuteRegister, NEW a, NEW b,
         Leaving(m, a) \in MemoryRegister, Leaving(m, b) \in MemoryRegister,
         IsLoad(m.inst) => a.data = b.data, a.data2 = b.data2
  PROVE  WritebackSlot(file, Leaving(m, a)) = WritebackSlot(file, Leaving(m, b))
<1> DEFINE s == Leaving(m, a)
           t == Leaving(m, b)
<1>1. s.inst = m.inst /\ t.inst = m.inst /\ s.data2 = t.data2 /\ s.alu = m.alu /\ t.alu = m.alu
      /\ s.data = a.data /\ t.data = b.data
  BY DEF Leaving
<1>2. SlotValue(s) = SlotValue(t) /\ WritebackVal(s) = WritebackVal(t)
  <2> HIDE DEF s, t
  <2>1. QED
    BY <1>1 DEF SlotValue, WritebackVal
<1> HIDE DEF s, t
<1>3. s \in MemoryRegister /\ t \in MemoryRegister
  BY DEF s, t
<1>4. WritebackSlot(file, s) \in [Regs -> Val] /\ WritebackSlot(file, t) \in [Regs -> Val]
  BY <1>3, WritebackType
<1>5. ASSUME NEW r \in Regs PROVE WritebackSlot(file, s)[r] = WritebackSlot(file, t)[r]
  BY <1>1, <1>2, <1>3, WrittenAt
<1>6. QED
  BY <1>4, <1>5, SameFiles DEF s, t

---------------------------------------------------------------------------
(* EX: operands are those the program order gives them.                    *)

\* Loads that are not Ordinary do not get past EX.
Behind ==
  /\ exmem.valid => Ordinary(exmem.inst)
  /\ memwb.valid => Ordinary(memwb.inst)

\* What was captured in ID for r is what the register file holds, unless a later stage
\* has a newer value.
CapturedValue(r, v) ==
  /\ r = XZR => v = 0
  /\ r \in Captured(idex.inst) \ (InEXMEM \cup InMEMWB) => v = regs[r]

Captures ==
  idex.valid => CapturedValue(idex.inst.rn, idex.rn) /\ CapturedValue(idex.inst.rm, idex.rm)

LEMMA CommittedRegs ==
  ASSUME Typed, ~halted
  PROVE  /\ exmem.valid /\ ~Syscall =>
              AfterEXMEM = WritebackSlot(AfterMEMWB, Leaving(exmem, AccessMemory(exmem, view)))
         /\ ~exmem.valid \/ Syscall => AfterEXMEM = RegsNow
         /\ ~Syscall => RegsNow = AfterMEMWB
         /\ Exits => RegsNow = AfterMEMWB
<1>1. Exits => Syscall
  BY DEF Exits, Syscall, EndsProgram
<1>2. Syscall => exmem.valid
  BY DEF Syscall
<1>3. QED
  BY <1>1, <1>2 DEF AfterEXMEM, RegsNow

LEMMA LeavingType ==
  ASSUME Typed, exmem.valid
  PROVE  Leaving(exmem, AccessMemory(exmem, view)) \in MemoryRegister
<1>1. exmem \in ExecuteRegister /\ view \in [Val -> Val]
  BY ValidRegisters DEF Typed, Stored
<1>2. AccessMemory(exmem, view).data \in Val /\ AccessMemory(exmem, view).data2 \in Val
  BY <1>1, AccessMemoryType
<1>3. QED
  BY <1>1, <1>2 DEF Leaving, ExecuteRegister, MemoryRegister

LEMMA CommittedRegsType ==
  ASSUME Typed, ~halted
  PROVE  AfterEXMEM \in [Regs -> Val]
  BY CommittedRegs, LeavingType, RegsNowType, WritebackType

LEMMA Unwritten ==
  ASSUME Typed, ~halted, NEW r \in Regs, r \notin InEXMEM
  PROVE  AfterEXMEM[r] = RegsNow[r]
<1>1. CASE exmem.valid /\ ~Syscall
  <2>1. r \notin Dests(exmem.inst)
    BY <1>1 DEF InEXMEM
  <2> DEFINE s == Leaving(exmem, AccessMemory(exmem, view))
  <2>2. s.inst = exmem.inst /\ s \in MemoryRegister
    BY <1>1, LeavingType DEF Leaving
  <2> HIDE DEF s
  <2>3. WritebackSlot(AfterMEMWB, s)[r] = AfterMEMWB[r]
    BY <2>1, <2>2, RegsNowType, NotWritten
  <2>4. QED
    BY <1>1, <2>3, CommittedRegs DEF s
<1>2. QED
  BY <1>1, CommittedRegs

LEMMA Computed ==
  ASSUME Typed, ~halted, NEW r \in Regs,
         exmem.valid, RegWrite(exmem.inst), DestOf(exmem.inst) = r, r \notin Loaded(exmem.inst)
  PROVE  AfterEXMEM[r] = exmem.alu
<1> DEFINE i == exmem.inst
           s == Leaving(exmem, AccessMemory(exmem, view))
<1>1. ~IsLoad(i) /\ i.op # "LDP" /\ i.op # "LDRP" /\ i.op # "SVC"
  BY DEF RegWrite, Loaded, DestOf, IsLoad
<1>2. s.inst = i /\ s.alu = exmem.alu /\ s \in MemoryRegister
  BY LeavingType DEF Leaving
<1> HIDE DEF s
<1>3. SlotValue(s) = exmem.alu
  BY <1>1, <1>2 DEF SlotValue
<1>4. WritebackSlot(AfterMEMWB, s)[r] = exmem.alu
  BY <1>1, <1>2, <1>3, RegsNowType, WrittenAt
<1>5. QED
  BY <1>1, <1>4, CommittedRegs DEF Syscall, s

\* A value of r is forwarded from MEM/WB, if EX/MEM has none.
FromMEMWB(r) ==
  /\ memwb.valid
  /\ \/ RegWrite(memwb.inst) /\ DestOf(memwb.inst) = r
     \/ memwb.inst.op = "LDP" /\ memwb.inst.rt2 = r

InEX(r) == exmem.valid /\ RegWrite(exmem.inst) /\ DestOf(exmem.inst) = r

LEMMA Forwarded ==
  ASSUME NEW r \in Regs, NEW v
  PROVE  /\ InEX(r) => GetForwardedValue(r, v) = exmem.alu
         /\ ~InEX(r) /\ FromMEMWB(r) =>
              GetForwardedValue(r, v) = IF RegWrite(memwb.inst) /\ DestOf(memwb.inst) = r
                                          THEN SlotValue(memwb) ELSE memwb.data2
         /\ ~InEX(r) /\ ~FromMEMWB(r) => GetForwardedValue(r, v) = v
<1>1. r # XZR
  BY RegisterFacts
<1>2. InEX(r) => DetectForwardForReg(r) = "EXMEM"
  BY <1>1 DEF InEX, DetectForwardForReg
<1>3. ~InEX(r) /\ FromMEMWB(r) =>
        DetectForwardForReg(r) = IF RegWrite(memwb.inst) /\ DestOf(memwb.inst) = r
                                   THEN "MEMWB" ELSE "MEMWBRt2"
  BY <1>1 DEF InEX, FromMEMWB, DetectForwardForReg
<1>4. ~InEX(r) /\ ~FromMEMWB(r) => DetectForwardForReg(r) = "None"
  BY <1>1 DEF InEX, FromMEMWB, DetectForwardForReg
<1>5. QED
  BY <1>2, <1>3, <1>4 DEF GetForwardedValue

LEMMA MEMWBDelivers ==
  ASSUME Typed, Behind, NEW r \in Regs, FromMEMWB(r)
  PROVE  /\ r \in InMEMWB
         /\ AfterMEMWB[r] = IF RegWrite(memwb.inst) /\ DestOf(memwb.inst) = r
                              THEN SlotValue(memwb) ELSE memwb.data2
<1> DEFINE i == memwb.inst
<1>1. memwb.valid /\ memwb \in MemoryRegister /\ regs \in [Regs -> Val] /\ r # XZR
  BY ValidRegisters, RegisterFacts DEF FromMEMWB, Typed, Stored
<1>2. i.op = "LDP" => RegWrite(i) /\ DestOf(i) = i.rd /\ i.rd # i.rt2 /\ i.rd # XZR /\ IsLoad(i)
  BY <1>1 DEF Behind, Ordinary, RegWrite, DestOf, IsLoad
<1>3. r \in InMEMWB
  BY <1>1, <1>2 DEF FromMEMWB, InMEMWB, Dests, Loaded
<1>4. QED
  BY <1>1, <1>2, <1>3, WrittenAt DEF FromMEMWB, AfterMEMWB

\* The register file before WB, where neither WB nor the call changes it.
LEMMA RegsUnchanged ==
  ASSUME Typed, NEW r \in Regs, r \notin InMEMWB, Syscall /\ ~Exits => r # 0
  PROVE  RegsNow[r] = regs[r]
<1>1. AfterMEMWB[r] = regs[r]
  <2>1. CASE memwb.valid
    BY <2>1, ValidRegisters, NotWritten DEF InMEMWB, AfterMEMWB, Typed, Stored
  <2>2. CASE ~memwb.valid
    BY <2>2 DEF AfterMEMWB, WritebackSlot
  <2>3. QED
    BY <2>1, <2>2
<1>2. QED
  BY <1>1, RegsNowType DEF RegsNow

\* The value forwarded over v, if v is what the register file holds after WB where
\* nothing is forwarded.
LEMMA Delivered ==
  ASSUME Typed, ~halted, Behind, NEW r \in Regs, NEW v,
         exmem.valid => r \notin Loaded(exmem.inst) \cup Base(exmem.inst),
         Syscall /\ r = 0 => r \notin InMEMWB,
         ~FromMEMWB(r) => v = RegsNow[r]
  PROVE  GetForwardedValue(r, v) = AfterEXMEM[r]
<1>1. CASE InEX(r)
  BY <1>1, Forwarded, Computed DEF InEX
<1>2. CASE ~InEX(r)
  <2>1. r \notin InEXMEM
    BY <1>2 DEF InEX, InEXMEM, Dests
  <2>2. AfterEXMEM[r] = RegsNow[r]
    BY <2>1, Unwritten
  <2>3. CASE FromMEMWB(r)
    <3>1. GetForwardedValue(r, v) = AfterMEMWB[r] /\ r \in InMEMWB
      BY <1>2, <2>3, Forwarded, MEMWBDelivers
    <3>2. RegsNow[r] = AfterMEMWB[r]
      BY <3>1, RegsNowType DEF RegsNow
    <3>3. QED
      BY <2>2, <3>1, <3>2
  <2>4. CASE ~FromMEMWB(r)
    BY <1>2, <2>2, <2>4, Forwarded
  <2>5. QED
    BY <2>3, <2>4
<1>3. QED
  BY <1>1, <1>2

\* The operand of the instruction in ID/EX, captured as v.
LEMMA OperandDelivered ==
  ASSUME Typed, ~halted, Behind, idex.valid, NEW held, OperandsClear(held),
         NEW r \in Captured(idex.inst) \cup {XZR}, r \in Regs \cup {XZR}, NEW v, CapturedValue(r, v)
  PROVE  GetForwardedValue(r, v) = ReadReg(AfterEXMEM, r)
<1>1. CASE r = XZR
  <2>1. GetForwardedValue(XZR, v) = v
    BY DEF GetForwardedValue, DetectForwardForReg
  <2>2. QED
    BY <1>1, <2>1 DEF CapturedValue, ReadReg
<1>2. CASE r # XZR
  <2>1. r \in Regs /\ r \in Captured(idex.inst) /\ r \in Reads(idex.inst)
    BY <1>2 DEF Reads
  <2>2. exmem.valid => r \notin Loaded(exmem.inst) \cup Base(exmem.inst)
    BY <2>1 DEF OperandsClear
  <2>3. Syscall => r # 0
    BY <2>1 DEF OperandsClear
  <2>4. ASSUME ~FromMEMWB(r), ~InEX(r) PROVE v = RegsNow[r]
    <3>1. r \notin InMEMWB
      <4>1. memwb.valid => r \notin Base(memwb.inst)
        BY <2>1 DEF OperandsClear
      <4>2. memwb.valid => r \notin Loaded(memwb.inst)
        BY <2>1, <2>4 DEF FromMEMWB, Loaded, DestOf, IsLoad
      <4>3. QED
        BY <2>4, <4>1, <4>2 DEF InMEMWB, Dests, FromMEMWB
    <3>2. r \notin InEXMEM
      BY <2>2, <2>4 DEF InEX, InEXMEM, Dests
    <3>3. v = regs[r]
      BY <2>1, <3>1, <3>2 DEF CapturedValue
    <3>4. QED
      BY <2>1, <2>3, <3>1, <3>3, RegsUnchanged
  <2>5. CASE InEX(r)
    BY <1>2, <2>1, <2>2, <2>5, Forwarded, Computed DEF InEX, ReadReg
  <2>6. CASE ~InEX(r)
    <3>1. GetForwardedValue(r, v) = AfterEXMEM[r]
      BY <2>1, <2>2, <2>3, <2>4, <2>6, Delivered
    <3>2. QED
      BY <1>2, <3>1 DEF ReadReg
  <2>7. QED
    BY <2>5, <2>6
<1>3. QED
  BY <1>1, <1>2

\* What a store in ID/EX stores.
LEMMA StoreDelivered ==
  ASSUME Typed, ~halted, Behind, idex.valid, NEW held, OperandsClear(held),
         NEW r \in ReadInEX(idex.inst) \cup {XZR}, r \in Regs \cup {XZR}
  PROVE  StoreData(RegsNow, r) = ReadReg(AfterEXMEM, r)
<1>1. CASE r = XZR
  <2>1. GetForwardedValue(XZR, 0) = 0
    BY DEF GetForwardedValue, DetectForwardForReg
  <2>2. QED
    BY <1>1, <2>1 DEF StoreData, ReadReg
<1>2. CASE r # XZR
  <2>1. r \in Regs /\ r \in ReadInEX(idex.inst) /\ r \in Reads(idex.inst)
    BY <1>2 DEF Reads
  <2>2. exmem.valid => r \notin Loaded(exmem.inst) \cup Base(exmem.inst)
    BY <2>1 DEF OperandsClear
  <2>3. Syscall /\ r = 0 => r \notin InMEMWB
    BY <2>1 DEF OperandsClear
  <2>4. ReadReg(RegsNow, r) = RegsNow[r] /\ ReadReg(AfterEXMEM, r) = AfterEXMEM[r]
    BY <1>2 DEF ReadReg
  <2>5. GetForwardedValue(r, RegsNow[r]) = AfterEXMEM[r]
    BY <2>1, <2>2, <2>3, Delivered
  <2>6. QED
    BY <2>4, <2>5 DEF StoreData
<1>3. QED
  BY <1>1, <1>2

---------------------------------------------------------------------------
(* The invariant: what the latched registers have to do with the program.  *)

LEMMA TickShape ==
  ASSUME Typed, HazardNames \subseteq Avoid, Tick
  PROVE  /\ ~halted
         /\ \E lat \in AccessLatencies :
              Retires(Access(lat)) /\ (Holds(Access(lat)) \/ Advances(Access(lat)))
<1>1. PICK lat \in AccessLatencies, hit \in BOOLEAN, victim \in Val :
        \E guess \in Guesses(pc, InstAt(prog, pc)) :
          Cycle(Access(lat), Fetch(fport, pc, hit), guess, victim, RegsNow,
                IF idex.valid THEN Executed ELSE Empty)
  BY TickIsACycle
<1>2. PICK guess \in Guesses(pc, InstAt(prog, pc)) :
        Cycle(Access(lat), Fetch(fport, pc, hit), guess, victim, RegsNow,
              IF idex.valid THEN Executed ELSE Empty)
  BY <1>1
<1>3. Access(lat) \in MemoryAnswer /\ Fetch(fport, pc, hit) \in FetchAnswer
  BY PipelineAssumption, AccessType, FetchType DEF AccessLatencies
<1>4. Fetch(fport, pc, hit).inst = InstAt(prog, pc)
  BY DEF Fetch
<1>5. Retires(Access(lat)) /\ (Holds(Access(lat)) \/ Advances(Access(lat)))
  BY <1>2, <1>3, <1>4, CycleShape, Zenon
<1>6. QED
  BY <1>5 DEF Tick

\* The address of the instruction that goes to ID/EX next.
FrontPC == IF ifid.valid THEN ifid.pc ELSE pc

OnProgram(r) ==
  r.inst = InstAt(prog, r.pc) /\ r.inst.op # "B" /\ r.guess \in Guesses(r.pc, r.inst)

\* Each fetched instruction is followed by the one its prediction leads to.
Path ==
  /\ ifid.valid => OnProgram(ifid) /\ Follow(prog, ifid.guess.next) = Follow(prog, pc)
  /\ idex.valid => OnProgram(idex) /\ Follow(prog, idex.guess.next) = Follow(prog, FrontPC)

\* PSTATE is that of the last executed instruction, unless a compare that EX is held with
\* has set it; a compare in EX/MEM has kept its flags.
FlagsKnown ==
  ~halted =>
    /\ exmem.valid /\ SetsFlags(exmem.inst) => exmem.fl = flBefore
    /\ ~(idex.valid /\ SetsFlags(idex.inst)) => fl = flBefore

\* The exit call stops the machine before it leaves MEM/WB.
NotExited == ~halted /\ memwb.valid => ~EndsProgram(memwb.inst)

PipeInv == Path /\ Behind /\ Captures /\ FlagsKnown /\ MemoryKnown /\ NotExited

LEMMA RegisterFields ==
  /\ Empty.valid = FALSE
  /\ \A n, i, g : LET f == Fetched(n, i, g)
                  IN f.valid = TRUE /\ f.pc = n /\ f.inst = i /\ f.guess = g
  /\ \A f, file : LET d == Decoded(f, file)
                  IN /\ d.valid = TRUE /\ d.pc = f.pc /\ d.inst = f.inst /\ d.guess = f.guess
                     /\ d.rn = ReadReg(file, f.inst.rn) /\ d.rm = ReadReg(file, f.inst.rm)
  /\ \A m, acc : LET s == Leaving(m, acc)
                 IN /\ s.valid = TRUE /\ s.pc = m.pc /\ s.inst = m.inst /\ s.alu = m.alu
                    /\ s.data = acc.data /\ s.data2 = acc.data2
  /\ Executed.valid = TRUE /\ Executed.pc = idex.pc /\ Executed.inst = idex.inst
<1>1. /\ Empty.valid = FALSE
      /\ \A n, i, g : LET f == Fetched(n, i, g)
                      IN f.valid = TRUE /\ f.pc = n /\ f.inst = i /\ f.guess = g
      /\ \A f, file : LET d == Decoded(f, file)
                      IN /\ d.valid = TRUE /\ d.pc = f.pc /\ d.inst = f.inst /\ d.guess = f.guess
                         /\ d.rn = ReadReg(file, f.inst.rn) /\ d.rm = ReadReg(file, f.inst.rm)
  BY DEF Empty, Fetched, Decoded
<1>2. \A m, acc : LET s == Leaving(m, acc)
                 IN /\ s.valid = TRUE /\ s.pc = m.pc /\ s.inst = m.inst /\ s.alu = m.alu
                    /\ s.data = acc.data /\ s.data2 = acc.data2
  BY DEF Leaving
<1>3. \A e, x, y, st, st2, file : LET x2 == Result(e, x, y, st, st2, file)
                                  IN x2.valid = TRUE /\ x2.pc = e.pc /\ x2.inst = e.inst
  BY DEF Result
<1>4. Executed.valid = TRUE /\ Executed.pc = idex.pc /\ Executed.inst = idex.inst
  BY <1>3 DEF Executed
<1>5. QED
  BY <1>1, <1>2, <1>4

LEMMA ProgramTyped == Typed => IsProgram(prog)
  BY DEF Typed, Chosen, IsProgram

LEMMA PathKept ==
  ASSUME Typed, Path, NEW acc, Retires(acc), Holds(acc) \/ Advances(acc)
  PROVE  Path'
<1>1. prog' = prog /\ pc \in Val /\ IsProgram(prog)
  BY ProgramTyped DEF Retires, Typed, Scalars
<1>2. CASE Holds(acc)
  BY <1>1, <1>2 DEF Holds, Path, OnProgram, FrontPC
<1>3. CASE Advances(acc)
  <2>1. CASE Flushes
    BY <2>1, RegisterFields DEF Flushes, Path
  <2>2. CASE Bubble
    BY <1>1, <2>2, RegisterFields DEF Bubble, Path, OnProgram
  <2>3. CASE GoesOn
    <3> DEFINE i == InstAt(prog, pc)
    <3>1. idex' = (IF ifid.valid THEN Decoded(ifid, RegsNow) ELSE Empty)
      BY <2>3 DEF GoesOn
    <3>2. Follow(prog, FrontPC') = Follow(prog, pc)
            /\ (ifid'.valid => OnProgram(ifid)' /\ ifid'.guess.next = pc')
      <4>1. CASE i.op = "B"
        <5>1. ifid' = Empty /\ pc' = i.imm
          BY <2>3, <4>1 DEF GoesOn
        <5>2. Follow(prog, pc) = Follow(prog, i.imm)
          BY <1>1, <4>1, FollowStep DEF IsB
        <5>3. QED
          BY <5>1, <5>2, RegisterFields DEF FrontPC
      <4>2. CASE i.op # "B"
        <5>1. PICK guess \in Guesses(pc, i) : ifid' = Fetched(pc, i, guess) /\ pc' = guess.next
          BY <2>3, <4>2 DEF GoesOn
        <5>2. ifid'.valid = TRUE /\ ifid'.pc = pc /\ ifid'.inst = i /\ ifid'.guess = guess
          BY <5>1, RegisterFields
        <5>3. QED
          BY <1>1, <4>2, <5>1, <5>2 DEF FrontPC, OnProgram
      <4>3. QED
        BY <4>1, <4>2
    <3>3. idex'.valid => ifid.valid
      BY <3>1, RegisterFields
    <3>4. ASSUME ifid.valid
          PROVE  OnProgram(idex)' /\ Follow(prog, idex'.guess.next) = Follow(prog, pc)
      <4>1. idex'.pc = ifid.pc /\ idex'.inst = ifid.inst /\ idex'.guess = ifid.guess
        BY <3>1, <3>4, RegisterFields
      <4>2. QED
        BY <1>1, <3>4, <4>1 DEF Path, OnProgram
    <3>5. QED
      BY <1>1, <3>2, <3>3, <3>4 DEF Path
  <2>4. QED
    BY <1>3, <2>1, <2>2, <2>3 DEF Advances
<1>4. QED
  BY <1>2, <1>3

LEMMA BehindKept ==
  ASSUME Typed, Behind, NEW acc, Holds(acc) \/ Advances(acc)
  PROVE  Behind'
<1>1. memwb' = Empty \/ (exmem.valid /\ memwb' = Leaving(exmem, acc))
  BY DEF Holds, Advances
<1>2. memwb'.valid => Ordinary(memwb'.inst)
  BY <1>1, RegisterFields DEF Behind
<1>3. exmem' = exmem \/ exmem' = Empty \/ (idex.valid /\ Ordinary(idex.inst) /\ exmem' = Executed)
  BY DEF Holds, Advances, OperandsClear
<1>4. exmem'.valid => Ordinary(exmem'.inst)
  BY <1>3, RegisterFields DEF Behind
<1>5. QED
  BY <1>2, <1>4 DEF Behind

LEMMA CapturesKept ==
  ASSUME Typed, Captures, NEW acc, Retires(acc), Holds(acc) \/ Advances(acc)
  PROVE  Captures'
<1>1. regs' = RegsNow
  BY DEF Retires
<1>2. CASE Holds(acc)
  <2>1. exmem' = exmem /\ idex' = idex
    BY <1>2 DEF Holds
  <2>2. ASSUME idex.valid, NEW r \in Regs \cup {XZR}, NEW v, CapturedValue(r, v)
        PROVE  CapturedValue(r, v)'
    <3>1. ASSUME r \in Captured(idex.inst), r \notin InEXMEM PROVE v = RegsNow[r]
      <4>1. OperandsClear(TRUE)
        BY <1>2, <2>2 DEF Holds
      <4>2. r \notin InMEMWB
        BY <3>1, <4>1 DEF OperandsClear
      <4>3. Syscall => r # 0
        BY <3>1, <4>1 DEF OperandsClear
      <4>4. r \in Regs
        BY <3>1 DEF Captured
      <4>5. v = regs[r]
        BY <2>2, <3>1, <4>2 DEF CapturedValue
      <4>6. QED
        BY <4>2, <4>3, <4>4, <4>5, RegsUnchanged
    <3>2. InEXMEM' = InEXMEM
      BY <2>1 DEF InEXMEM
    <3>3. r = XZR => v = 0
      BY <2>2 DEF CapturedValue
    <3>4. QED
      BY <1>1, <2>1, <3>1, <3>2, <3>3 DEF CapturedValue
  <2>3. ASSUME idex.valid PROVE idex.inst.rn \in Regs \cup {XZR} /\ idex.inst.rm \in Regs \cup {XZR}
    <3>1. idex.inst \in Inst
      BY <2>3, OperandTypes DEF DecodeRegister
    <3>2. QED
      BY <3>1, InstFields
  <2>4. ASSUME idex.valid
        PROVE  CapturedValue(idex.inst.rn, idex.rn)' /\ CapturedValue(idex.inst.rm, idex.rm)'
    <3>1. CapturedValue(idex.inst.rn, idex.rn) /\ CapturedValue(idex.inst.rm, idex.rm)
      BY <2>4 DEF Captures
    <3> DEFINE rn == idex.inst.rn
               rm == idex.inst.rm
    <3>2. (\A v : \A r \in Regs \cup {XZR} : CapturedValue(r, v) => CapturedValue(r, v)')
      BY <2>2, <2>4
    <3>3. QED
      BY <2>1, <2>3, <2>4, <3>1, <3>2 DEF CapturedValue
  <2>5. QED
    BY <2>1, <2>4 DEF Captures
<1>3. CASE Advances(acc)
  <2>1. idex' = Empty \/ idex' = Decoded(ifid, RegsNow)
    BY <1>3 DEF Advances, Flushes, Bubble, GoesOn
  <2>2. CASE idex' = Empty
    BY <2>2, RegisterFields DEF Captures
  <2>3. CASE idex' = Decoded(ifid, RegsNow)
    <3>1. /\ idex'.inst = ifid.inst /\ idex'.rn = ReadReg(RegsNow, ifid.inst.rn)
          /\ idex'.rm = ReadReg(RegsNow, ifid.inst.rm)
      BY <2>3, RegisterFields
    <3>2. \A i, r : r \in Captured(i) => r # XZR
      BY DEF Captured
    <3>3. QED
      BY <1>1, <3>1, <3>2 DEF Captures, CapturedValue, ReadReg
  <2>4. QED
    BY <2>1, <2>2, <2>3
<1>4. QED
  BY <1>2, <1>3

LEMMA FlagsKept ==
  ASSUME Typed, ~halted, FlagsKnown, NEW acc, Retires(acc), Holds(acc) \/ Advances(acc)
  PROVE  FlagsKnown'
<1>1. halted' = Exits
  BY DEF Retires
<1>2. CASE Holds(acc)
  BY <1>2 DEF Holds, FlagsKnown
<1>3. CASE Advances(acc)
  <2>1. exmem' = (IF idex.valid THEN Executed ELSE Empty)
        /\ fl' = (IF idex.valid /\ SetsFlags(idex.inst) THEN Executed.fl ELSE fl)
        /\ flBefore' = (IF Exits THEN flBefore ELSE fl')
    BY <1>3 DEF Advances
  <2>2. QED
    BY <1>1, <2>1, RegisterFields DEF FlagsKnown
<1>4. QED
  BY <1>2, <1>3

LEMMA ExitKept ==
  ASSUME NEW acc, Retires(acc), Holds(acc) \/ Advances(acc)
  PROVE  NotExited'
<1>1. memwb' = Empty \/ (exmem.valid /\ memwb' = Leaving(exmem, acc))
  BY DEF Holds, Advances
<1>2. memwb'.valid => exmem.valid /\ memwb'.inst = exmem.inst
  BY <1>1, RegisterFields
<1>3. ~halted' => ~(exmem.valid /\ EndsProgram(exmem.inst))
  BY DEF Retires, Exits
<1>4. QED
  BY <1>2, <1>3 DEF NotExited, EndsProgram

LEMMA TickKeepsInv ==
  ASSUME Typed, PipeInv, HazardNames \subseteq Avoid, Tick
  PROVE  PipeInv'
<1>1. ~halted
  BY TickShape
<1>2. PICK lat \in AccessLatencies :
        Retires(Access(lat)) /\ (Holds(Access(lat)) \/ Advances(Access(lat)))
  BY TickShape
<1>3. lat \in Nat /\ (MemoryClear(TRUE) \/ MemoryClear(FALSE))
  <2>1. lat \in Nat
    BY PipelineAssumption DEF AccessLatencies
  <2>2. MemoryClear(TRUE) \/ MemoryClear(FALSE)
    BY <1>2, Zenon DEF Holds, Advances
  <2>3. QED
    BY <2>1, <2>2
<1>4. Path' /\ Behind' /\ Captures'
  BY <1>2, PathKept, BehindKept, CapturesKept, Zenon DEF PipeInv
<1>5. FlagsKnown' /\ NotExited'
  BY <1>1, <1>2, FlagsKept, ExitKept, Zenon DEF PipeInv
<1>6. MemoryKnown'
  BY <1>2, <1>3, MemoryStaysKnown, Zenon DEF PipeInv
<1>7. QED
  BY <1>4, <1>5, <1>6 DEF PipeInv

LEMMA ResetKeepsInv ==
  ASSUME Typed, PipeInv, Reset
  PROVE  Typed' /\ PipeInv'
<1>1. /\ ifid' = Empty /\ idex' = Empty /\ exmem' = Empty /\ memwb' = Empty
      /\ pc' = 0 /\ halted' = FALSE /\ exLatency' = 0 /\ retired' = 0 /\ executed' = 0
      /\ dport' = (IF Machine.dcache THEN dport ELSE NoAccess)
      /\ flBefore' = fl /\ fl' = fl /\ setup' = setup /\ prog' = prog
      /\ regs' = regs /\ mem' = mem /\ view' = view /\ code' = code /\ fport' = fport
  BY DEF Reset, ClearRegisters
<1>2. Machine' = Machine
  BY <1>1 DEF Machine
<1>3. Typed'
  <2>1. NoAccess \in AccessPort
    BY RegisterFacts DEF NoAccess, AccessPort
  <2>2. QED
    BY <1>1, <2>1, RegisterFacts
       DEF Typed, Chosen, Stored, Scalars, Latched, Ports, Counts
<1>4. MemoryKnown'
  BY <1>1, <1>2 DEF MemoryKnown, PipeInv
<1>5. QED
  BY <1>1, <1>3, <1>4, RegisterFields
     DEF PipeInv, Path, Behind, Captures, FlagsKnown, NotExited

LEMMA InitInv == Init => PipeInv
<1> SUFFICES ASSUME Init PROVE PipeInv
  OBVIOUS
<1>1. /\ ifid = Empty /\ idex = Empty /\ exmem = Empty /\ memwb = Empty /\ mem = view
      /\ flBefore = fl /\ dport = NoAccess
  BY DEF Init
<1>2. MemoryKnown
  BY <1>1 DEF MemoryKnown, NoAccess
<1>3. QED
  BY <1>1, <1>2, RegisterFields DEF PipeInv, Path, Behind, Captures, FlagsKnown, NotExited

---------------------------------------------------------------------------
(* A step of the emulator, field by field.                                 *)

State(p, r, m, f, o, h, c) ==
  [pc |-> p, regs |-> r, mem |-> m, fl |-> f, out |-> o, halted |-> h, code |-> c]

LEMMA StateUpdates ==
  ASSUME NEW p, NEW r, NEW m, NEW f, NEW o, NEW h, NEW c, NEW a, a = State(p, r, m, f, o, h, c), NEW x
  PROVE  /\ a.pc = p /\ a.regs = r /\ a.mem = m /\ a.fl = f /\ a.out = o /\ a.halted = h /\ a.code = c
         /\ [a EXCEPT !.pc = x] = State(x, r, m, f, o, h, c)
         /\ [a EXCEPT !.regs = x] = State(p, x, m, f, o, h, c)
         /\ [a EXCEPT !.mem = x] = State(p, r, x, f, o, h, c)
         /\ [a EXCEPT !.fl = x] = State(p, r, m, x, o, h, c)
         /\ [a EXCEPT !.out = x] = State(p, r, m, f, x, h, c)
         /\ [a EXCEPT !.halted = x] = State(p, r, m, f, o, x, c)
         /\ [a EXCEPT !.code = x] = State(p, r, m, f, o, h, x)
  BY DEF State

\* The emulator's instructions are those of the pipeline.
LEMMA EmulatorInsts ==
  /\ Emu!LR = LR /\ Emu!Exit = Exit
  /\ \A n : Emu!Wrap(n) = Wrap(n)
  /\ \A r, i : Emu!ReadReg(r, i) = ReadReg(r, i)
  /\ \A r, i, v : Emu!WriteReg(r, i, v) = WriteReg(r, i, v)
  /\ \A x, y : Emu!SubFlags(x, y) = SubFlags(x, y)
  /\ \A p, n : Emu!InstAt(p, n) = InstAt(p, n) /\ Emu!Follow(p, n) = Follow(p, n)
<1>1. /\ Emu!LR = LR /\ Emu!Exit = Exit
      /\ \A n : Emu!Wrap(n) = Wrap(n)
      /\ \A r, i : Emu!ReadReg(r, i) = ReadReg(r, i)
      /\ \A r, i, v : Emu!WriteReg(r, i, v) = WriteReg(r, i, v)
      /\ \A x, y : Emu!SubFlags(x, y) = SubFlags(x, y)
  BY Zenon DEF Emu!LR, LR, Emu!Exit, Exit, Emu!Wrap, Wrap, Emu!XZR, XZR, Emu!ReadReg, ReadReg,
               Emu!WriteReg, WriteReg, Emu!SubFlags, SubFlags
<1>2. ASSUME NEW p, NEW n PROVE Emu!InstAt(p, n) = InstAt(p, n)
  BY Zenon DEF Emu!InstAt, InstAt, Emu!ExitCall, ExitCall, Emu!Exit, Exit
<1>3. ASSUME NEW p, NEW n PROVE Emu!Follow(p, n) = Follow(p, n)
  BY Zenon DEF Emu!Follow, Follow, Emu!InstAt, InstAt, Emu!ExitCall, ExitCall, Emu!Exit, Exit,
               Emu!Val, Val
<1>4. QED
  BY <1>1, <1>2, <1>3

LEMMA EmulatorStep ==
  ASSUME NEW p, NEW r, NEW m, NEW f, NEW o, NEW h, NEW c, NEW a,
         Emu!Execute(a, InstAt(prog, a.pc)) = State(p, r, m, f, o, h, c)
  PROVE  Emu!SkipB(Emu!Step(a)) =
           State(Follow(prog, Emu!NextPC(a, InstAt(prog, a.pc))), r, m, f, o, h, c)
<1> DEFINE i == InstAt(prog, a.pc)
           next == Emu!NextPC(a, i)
           b == State(next, r, m, f, o, h, c)
<1>1. Emu!Step(a) = [Emu!Execute(a, i) EXCEPT !.pc = next]
  BY EmulatorInsts DEF Emu!Step
<1> HIDE DEF next
<1>2. Emu!Step(a) = b
  BY <1>1, StateUpdates
<1>3. b.pc = next /\ \A x : [b EXCEPT !.pc = x] = State(x, r, m, f, o, h, c)
  BY StateUpdates
<1> HIDE DEF b
<1>4. Emu!SkipB(b) = [b EXCEPT !.pc = Follow(prog, b.pc)]
  BY EmulatorInsts DEF Emu!SkipB
<1>5. QED
  BY <1>2, <1>3, <1>4 DEF next

LEMMA EmulatorExecutes ==
  ASSUME NEW a, a = State(a.pc, a.regs, a.mem, a.fl, a.out, a.halted, a.code), NEW i
  PROVE  LET r == a.regs
             m == a.mem
             x == ReadReg(r, i.rn)
             y == ReadReg(r, i.rm)
             addr == Wrap(x + i.imm)
             next == Wrap(addr + 1)
             then(file) == State(a.pc, file, m, a.fl, a.out, a.halted, a.code)
             compared(f) == State(a.pc, r, m, f, a.out, a.halted, a.code)
             stored(memory) == State(a.pc, r, memory, a.fl, a.out, a.halted, a.code)
         IN /\ i.op = "ADD" => Emu!Execute(a, i) = then(WriteReg(r, i.rd, Wrap(x + y)))
            /\ i.op = "ADDI" => Emu!Execute(a, i) = then(WriteReg(r, i.rd, Wrap(x + i.imm)))
            /\ i.op = "CMP" => Emu!Execute(a, i) = compared(SubFlags(x, y))
            /\ i.op = "CMPI" => Emu!Execute(a, i) = compared(SubFlags(x, i.imm))
            /\ i.op = "MADD" =>
                 Emu!Execute(a, i) = then(WriteReg(r, i.rd, Wrap(ReadReg(r, i.rt2) + x * y)))
            /\ i.op = "LDR" => Emu!Execute(a, i) = then(WriteReg(r, i.rd, m[addr]))
            /\ i.op = "LDRP" =>
                 Emu!Execute(a, i) = then(WriteReg(WriteReg(r, i.rd, m[x]), i.rn, Wrap(x + i.imm)))
            /\ i.op = "LDP" =>
                 Emu!Execute(a, i) = then(WriteReg(WriteReg(r, i.rd, m[addr]), i.rt2, m[next]))
            /\ i.op = "STR" => Emu!Execute(a, i) = stored([m EXCEPT ![addr] = ReadReg(r, i.rd)])
            /\ i.op = "STP" =>
                 Emu!Execute(a, i) =
                   stored([[m EXCEPT ![addr] = ReadReg(r, i.rd)] EXCEPT ![next] = ReadReg(r, i.rt2)])
            /\ i.op = "BL" => Emu!Execute(a, i) = then([r EXCEPT ![LR] = Wrap(a.pc + 1)])
            /\ i.op = "SVC" /\ i.imm = Exit =>
                 Emu!Execute(a, i) = State(a.pc, r, m, a.fl, a.out, TRUE, r[0])
            /\ i.op = "SVC" /\ i.imm # Exit =>
                 Emu!Execute(a, i) = State(a.pc, [r EXCEPT ![0] = 1], m, a.fl,
                                           Append(a.out, m[ReadReg(r, 1)]), a.halted, a.code)
            /\ i.op \in {"B", "BEQ", "BCS", "CBZ", "RET", "NOP"} => Emu!Execute(a, i) = a
<1> DEFINE p == a.pc
           r == a.regs
           m == a.mem
           f == a.fl
           o == a.out
           h == a.halted
           c == a.code
           x == ReadReg(r, i.rn)
           y == ReadReg(r, i.rm)
           addr == Wrap(x + i.imm)
           next == Wrap(addr + 1)
<1>1. /\ a.pc = p /\ a.regs = r /\ a.mem = m /\ a.fl = f /\ a.out = o /\ a.halted = h /\ a.code = c
      /\ a = State(p, r, m, f, o, h, c)
  OBVIOUS
<1> HIDE DEF p, r, m, f, o, h, c
<1>2. /\ a.pc = p /\ a.regs = r /\ a.mem = m /\ a.fl = f /\ a.out = o /\ a.halted = h /\ a.code = c
      /\ \A v : /\ [a EXCEPT !.regs = v] = State(p, v, m, f, o, h, c)
                /\ [a EXCEPT !.mem = v] = State(p, r, v, f, o, h, c)
                /\ [a EXCEPT !.fl = v] = State(p, r, m, v, o, h, c)
  BY <1>1 DEF State
<1>3. /\ Emu!Rn(a, i) = x /\ Emu!Rm(a, i) = y /\ Emu!Rd(a, i) = ReadReg(r, i.rd)
      /\ Emu!Rt2(a, i) = ReadReg(r, i.rt2)
      /\ \A v : Emu!Set(a, i, v) = State(p, WriteReg(r, i.rd, v), m, f, o, h, c)
  BY <1>2, EmulatorInsts DEF Emu!Rn, Emu!Rm, Emu!Rd, Emu!Rt2, Emu!Set
<1> HIDE DEF p, r, m, f, o, h, c, x, y
<1>4. /\ i.op = "ADD" => Emu!Execute(a, i) = State(p, WriteReg(r, i.rd, Wrap(x + y)), m, f, o, h, c)
      /\ i.op = "CMP" => Emu!Execute(a, i) = State(p, r, m, SubFlags(x, y), o, h, c)
  BY <1>2, <1>3, EmulatorInsts DEF Emu!Execute, Emu!ExecuteDPReg
<1>5. /\ i.op = "ADDI" => Emu!Execute(a, i) = State(p, WriteReg(r, i.rd, addr), m, f, o, h, c)
      /\ i.op = "CMPI" => Emu!Execute(a, i) = State(p, r, m, SubFlags(x, i.imm), o, h, c)
  BY <1>2, <1>3, EmulatorInsts DEF Emu!Execute, Emu!ExecuteDPImm
<1>6. i.op = "MADD" => Emu!Execute(a, i) =
        State(p, WriteReg(r, i.rd, Wrap(ReadReg(r, i.rt2) + x * y)), m, f, o, h, c)
  BY <1>3, EmulatorInsts DEF Emu!Execute, Emu!ExecuteDataProc3Src
<1>7. /\ i.op = "LDR" => Emu!Execute(a, i) = State(p, WriteReg(r, i.rd, m[addr]), m, f, o, h, c)
      /\ i.op = "LDRP" => Emu!Execute(a, i) =
           State(p, WriteReg(WriteReg(r, i.rd, m[x]), i.rn, Wrap(x + i.imm)), m, f, o, h, c)
      /\ i.op = "STR" => Emu!Execute(a, i) =
           State(p, r, [m EXCEPT ![addr] = ReadReg(r, i.rd)], f, o, h, c)
  BY <1>2, <1>3, EmulatorInsts DEF Emu!Execute, Emu!ExecuteLoadStore
<1>8. /\ i.op = "LDP" => Emu!Execute(a, i) =
           State(p, WriteReg(WriteReg(r, i.rd, m[addr]), i.rt2, m[next]), m, f, o, h, c)
      /\ i.op = "STP" => Emu!Execute(a, i) =
           State(p, r, [[m EXCEPT ![addr] = ReadReg(r, i.rd)] EXCEPT ![next] = ReadReg(r, i.rt2)],
                 f, o, h, c)
  BY <1>2, <1>3, EmulatorInsts DEF Emu!Execute, Emu!ExecuteLoadStorePair
<1>9. i.op = "BL" => Emu!Execute(a, i) = State(p, [r EXCEPT ![LR] = Wrap(p + 1)], m, f, o, h, c)
  BY <1>2, EmulatorInsts DEF Emu!Execute
<1>10. i.op = "SVC" /\ i.imm = Exit => Emu!Execute(a, i) = State(p, r, m, f, o, TRUE, r[0])
  <2> DEFINE b == State(p, r, m, f, o, TRUE, c)
  <2>1. /\ \A v : [a EXCEPT !.halted = v] = State(p, r, m, f, o, v, c)
        /\ \A v, w : [State(p, r, m, f, o, v, c) EXCEPT !.code = w] = State(p, r, m, f, o, v, w)
    BY <1>1 DEF State
  <2>2. [a EXCEPT !.halted = TRUE] = b /\ [b EXCEPT !.code = r[0]] = State(p, r, m, f, o, TRUE, r[0])
    BY <2>1, Zenon
  <2> HIDE DEF b
  <2>3. i.imm = Exit => Emu!Handle(a, i) = [b EXCEPT !.code = r[0]]
    BY <1>2, <2>2, EmulatorInsts, Zenon DEF Emu!Handle
  <2>4. i.op = "SVC" => Emu!Execute(a, i) = Emu!Handle(a, i)
    BY DEF Emu!Execute
  <2>5. QED
    BY <2>2, <2>3, <2>4
<1>11. i.op = "SVC" /\ i.imm # Exit =>
         Emu!Execute(a, i) = State(p, [r EXCEPT ![0] = 1], m, f, Append(o, m[ReadReg(r, 1)]), h, c)
  <2> DEFINE v == Append(o, m[ReadReg(r, 1)])
             b == State(p, r, m, f, v, h, c)
  <2>1. Append(a.out, a.mem[Emu!ReadReg(a.regs, 1)]) = v
    BY <1>2, EmulatorInsts, Zenon
  <2> HIDE DEF v
  <2>2. /\ [a EXCEPT !.out = v] = b /\ b.regs = r
        /\ \A w : [b EXCEPT !.regs = w] = State(p, w, m, f, v, h, c)
    BY <1>1 DEF State
  <2> HIDE DEF b
  <2>3. i.imm # Exit => Emu!Handle(a, i) = [b EXCEPT !.regs = [b.regs EXCEPT ![0] = 1]]
    BY <2>1, <2>2, EmulatorInsts, Zenon DEF Emu!Handle
  <2>4. i.op = "SVC" => Emu!Execute(a, i) = Emu!Handle(a, i)
    BY DEF Emu!Execute
  <2>5. QED
    BY <2>2, <2>3, <2>4 DEF v
<1>12. i.op \in {"B", "BEQ", "BCS", "CBZ", "RET", "NOP"} => Emu!Execute(a, i) = a
  BY DEF Emu!Execute
<1>13. QED
  BY <1>4, <1>5, <1>6, <1>7, <1>8, <1>9, <1>10, <1>11, <1>12 DEF p, r, m, f, o, h, c, x, y

---------------------------------------------------------------------------
(* What is committed before and after EX goes on.                          *)

CommittedMem == IF Storing THEN AccessMemory(exmem, view).view ELSE view
CommittedOut ==
  IF Syscall /\ ~Exits /\ ~halted THEN Append(out, view[ReadReg(AfterMEMWB, 1)]) ELSE out

LEMMA CommittedRunning ==
  ASSUME Typed, ~halted, ~Exits
  PROVE  Committed = State(Follow(prog, CommittedPC), AfterEXMEM, CommittedMem, CommittedFl,
                           CommittedOut, FALSE, code)
<1>1. (halted \/ Exits) = FALSE
  OBVIOUS
<1>2. (IF ~halted /\ Exits THEN AfterMEMWB[0] ELSE code) = code
  OBVIOUS
<1>3. QED
  BY <1>1, <1>2, Zenon DEF Committed, State, CommittedMem, CommittedOut

LEMMA AccessView ==
  ASSUME NEW m, NEW v, ~IsStore(m.inst)
  PROVE  AccessMemory(m, v).view = v
  BY DEF AccessMemory, IsStore

\* Where EX/MEM was not stalled, what WB and MEM do is what was committed before.
LEMMA Settles ==
  ASSUME Typed, Typed', PipeInv, ~halted, ~Exits, NEW lat \in Nat,
         Retires(Access(lat)), Advances(Access(lat))
  PROVE  /\ AfterMEMWB' = AfterEXMEM /\ view' = CommittedMem /\ out' = CommittedOut
         /\ code' = code /\ halted' = FALSE /\ CommittedFl' = fl'
         /\ fl' = IF idex.valid /\ SetsFlags(idex.inst) THEN Executed.fl ELSE CommittedFl
<1> DEFINE acc == Access(lat)
           done == AccessMemory(exmem, view)
<1>1. /\ regs' = RegsNow /\ view' = acc.view /\ halted' = Exits
      /\ code' = (IF Exits THEN AfterMEMWB[0] ELSE code)
      /\ out' = (IF Syscall /\ ~Exits THEN Append(out, mem[ReadReg(AfterMEMWB, 1)]) ELSE out)
  BY DEF Retires
<1>2. ~acc.stall /\ memwb' = (IF exmem.valid THEN Leaving(exmem, acc) ELSE Empty)
  BY DEF Advances
<1>3. exmem.valid => /\ acc.view = done.view /\ acc.data2 = done.data2
                     /\ IsLoad(exmem.inst) => acc.data = done.data
  BY <1>2, Answered DEF PipeInv, Advances
<1>4. AfterMEMWB' = AfterEXMEM
  <2>1. AfterMEMWB' = WritebackSlot(RegsNow, memwb')
    BY <1>1 DEF AfterMEMWB
  <2>2. CASE ~exmem.valid
    <3>1. memwb' = Empty
      BY <1>2, <2>2
    <3>2. WritebackSlot(RegsNow, Empty) = RegsNow
      BY RegisterFields DEF WritebackSlot
    <3>3. AfterEXMEM = RegsNow
      BY <2>2, CommittedRegs
    <3>4. QED
      BY <2>1, <3>1, <3>2, <3>3
  <2>3. CASE exmem.valid
    <3> DEFINE s == Leaving(exmem, acc)
               t == Leaving(exmem, done)
    <3>1. memwb' = s /\ s.valid = TRUE /\ s.inst = exmem.inst
      BY <1>2, <2>3, RegisterFields
    <3>2. s \in MemoryRegister
      <4>1. memwb'.valid
        BY <3>1
      <4>2. Latched'
        BY DEF Typed
      <4>3. memwb' \in MemoryRegister
        BY <4>1, <4>2, RegisterFields DEF Latched
      <4>4. QED
        BY <3>1, <4>3
    <3>3. CASE Syscall
      <4>1. ~RegWrite(s.inst) /\ s.inst.op # "LDRP"
        BY <3>1, <3>3 DEF Syscall, RegWrite
      <4> HIDE DEF s
      <4>2. WritebackSlot(RegsNow, s) = RegsNow
        BY <3>2, <4>1, NothingWritten, RegsNowType
      <4>3. QED
        BY <2>1, <3>1, <3>3, <4>2, CommittedRegs
    <3>4. CASE ~Syscall
      <4>1. RegsNow = AfterMEMWB /\ AfterEXMEM = WritebackSlot(AfterMEMWB, t)
        BY <2>3, <3>4, CommittedRegs
      <4>2. exmem \in ExecuteRegister /\ t \in MemoryRegister /\ AfterMEMWB \in [Regs -> Val]
        BY <2>3, ValidRegisters, LeavingType, RegsNowType DEF Typed
      <4>3. (IsLoad(exmem.inst) => acc.data = done.data) /\ acc.data2 = done.data2
        BY <1>3, <2>3, Zenon
      <4> HIDE DEF acc, done
      <4>4. WritebackSlot(AfterMEMWB, s) = WritebackSlot(AfterMEMWB, t)
        BY <3>2, <4>2, <4>3, WrittenAlike
      <4>5. QED
        BY <2>1, <3>1, <4>1, <4>4
    <3>5. QED
      BY <3>3, <3>4
  <2>4. QED
    BY <2>2, <2>3
<1>5. view' = CommittedMem
  <2>1. CASE ~exmem.valid
    BY <1>1, <2>1 DEF Access, Idle, CommittedMem, Storing
  <2>2. CASE exmem.valid
    <3>1. ~IsStore(exmem.inst) => done.view = view
      BY AccessView
    <3>2. view' = done.view
      BY <1>1, <1>3, <2>2, Zenon
    <3> HIDE DEF acc, done
    <3>3. QED
      BY <2>2, <3>1, <3>2 DEF CommittedMem, Storing, done
  <2>3. QED
    BY <2>1, <2>2
<1>6. out' = CommittedOut
  <2>1. Syscall => mem = view
    BY DEF PipeInv, MemoryKnown, Advances, MemoryClear
  <2>2. QED
    BY <1>1, <2>1 DEF CommittedOut
<1>7. code' = code
  BY <1>1
<1>8. halted' = FALSE
  <2>1. Exits \in BOOLEAN
    BY ValidRegisters DEF Exits, EndsProgram, Typed
  <2>2. QED
    BY <1>1, <2>1
<1>9. flBefore' = fl' /\ fl' = (IF idex.valid /\ SetsFlags(idex.inst) THEN Executed.fl ELSE fl)
  BY DEF Advances
<1>10. CommittedFl' = fl'
  BY <1>9 DEF CommittedFl
<1>11. (idex.valid /\ SetsFlags(idex.inst)) \/ CommittedFl = fl
  BY DEF CommittedFl
<1>12. QED
  BY <1>4, <1>5, <1>6, <1>7, <1>8, <1>9, <1>10, <1>11

\* After a bubble leaves EX.
LEMMA BubbleCommits ==
  ASSUME Typed, Typed', PipeInv, ~halted, ~Exits, NEW lat \in Nat,
         Retires(Access(lat)), Advances(Access(lat)), ~idex.valid
  PROVE  Committed' = State(Follow(prog, CommittedPC'), AfterEXMEM, CommittedMem, CommittedFl,
                            CommittedOut, FALSE, code)
<1>1. prog' = prog
  BY DEF Retires
<1>2. exmem' = Empty /\ ~exmem'.valid
  BY RegisterFields DEF Advances
<1>3. ~Exits' /\ ~Syscall' /\ ~Storing'
  BY <1>2 DEF Exits, Syscall, Storing
<1>4. /\ AfterMEMWB' = AfterEXMEM /\ view' = CommittedMem /\ out' = CommittedOut
      /\ code' = code /\ halted' = FALSE /\ CommittedFl' = CommittedFl
  BY Settles
<1>5. Committed' = State(Follow(prog', CommittedPC'), AfterEXMEM', CommittedMem', CommittedFl',
                         CommittedOut', FALSE, code')
  <2>1. (Typed /\ ~halted /\ ~Exits =>
           Committed = State(Follow(prog, CommittedPC), AfterEXMEM, CommittedMem, CommittedFl,
                             CommittedOut, FALSE, code))'
    BY CommittedRunning, PTL
  <2>2. QED
    BY <1>3, <1>4, <2>1
<1>6. AfterEXMEM' = AfterEXMEM
  BY <1>2, <1>4 DEF AfterEXMEM
<1>7. CommittedMem' = CommittedMem /\ CommittedOut' = CommittedOut
  BY <1>3, <1>4 DEF CommittedMem, CommittedOut
<1>8. QED
  BY <1>1, <1>4, <1>5, <1>6, <1>7, Zenon

---------------------------------------------------------------------------
(* Where execution goes on.                                                *)

LEMMA FrontMoves ==
  ASSUME Typed, Path, prog' = prog, Bubble \/ GoesOn
  PROVE  Follow(prog, IF idex'.valid THEN idex'.pc ELSE FrontPC') = Follow(prog, FrontPC)
<1>1. pc \in Val /\ IsProgram(prog)
  BY ProgramTyped DEF Typed, Scalars
<1>2. CASE Bubble
  BY <1>2, RegisterFields DEF Bubble, FrontPC
<1>3. CASE GoesOn
  <2> DEFINE i == InstAt(prog, pc)
  <2>1. CASE ifid.valid
    <3>1. idex'.valid = TRUE /\ idex'.pc = ifid.pc
      BY <1>3, <2>1, RegisterFields DEF GoesOn
    <3>2. QED
      BY <2>1, <3>1 DEF FrontPC
  <2>2. CASE ~ifid.valid
    <3>1. idex'.valid = FALSE
      BY <1>3, <2>2, RegisterFields DEF GoesOn
    <3>2. FrontPC = pc
      BY <2>2 DEF FrontPC
    <3>3. CASE i.op = "B"
      <4>1. FrontPC' = i.imm
        BY <1>3, <3>3, RegisterFields DEF GoesOn, FrontPC
      <4>2. Follow(prog, pc) = Follow(prog, i.imm)
        BY <1>1, <3>3, FollowStep DEF IsB
      <4>3. QED
        BY <3>1, <3>2, <4>1, <4>2
    <3>4. CASE i.op # "B"
      <4>1. PICK guess : ifid' = Fetched(pc, i, guess)
        BY <1>3, <3>4 DEF GoesOn
      <4>2. FrontPC' = pc
        BY <4>1, RegisterFields DEF FrontPC
      <4>3. QED
        BY <3>1, <3>2, <4>2
    <3>5. QED
      BY <3>3, <3>4
  <2>3. QED
    BY <2>1, <2>2
<1>4. QED
  BY <1>2, <1>3

LEMMA EmulatorNextPC ==
  ASSUME NEW p, NEW r, NEW m, NEW f, NEW o, NEW h, NEW c, NEW a, a = State(p, r, m, f, o, h, c),
         NEW i, i.op \notin {"B", "CBZ"}
  PROVE  /\ i.op = "BL" => Emu!NextPC(a, i) = i.imm
         /\ i.op = "BEQ" => Emu!NextPC(a, i) = IF f.z THEN i.imm ELSE Wrap(p + 1)
         /\ i.op = "BCS" => Emu!NextPC(a, i) = IF f.c THEN i.imm ELSE Wrap(p + 1)
         /\ i.op = "RET" => Emu!NextPC(a, i) = ReadReg(r, i.rn)
         /\ ~IsBranch(i) => Emu!NextPC(a, i) = Wrap(p + 1)
<1>1. a.pc = p /\ a.regs = r /\ a.fl = f
  BY StateUpdates
<1>2. i.op = "BL" => Emu!NextPC(a, i) = i.imm
  BY DEF Emu!NextPC
<1>3. i.op = "RET" => Emu!NextPC(a, i) = ReadReg(r, i.rn)
  BY <1>1, EmulatorInsts DEF Emu!NextPC, Emu!Rn
<1>4. ~IsBranch(i) => Emu!NextPC(a, i) = Wrap(p + 1)
  BY <1>1, EmulatorInsts DEF Emu!NextPC, IsBranch
<1>5. i.op = "BEQ" => Emu!NextPC(a, i) = IF f.z THEN i.imm ELSE Wrap(p + 1)
  BY <1>1, EmulatorInsts DEF Emu!NextPC, Emu!CheckCondition
<1>6. i.op = "BCS" => Emu!NextPC(a, i) = IF f.c THEN i.imm ELSE Wrap(p + 1)
  BY <1>1, EmulatorInsts DEF Emu!NextPC, Emu!CheckCondition
<1>7. QED
  BY <1>2, <1>3, <1>4, <1>5, <1>6

LEMMA Operands ==
  ASSUME Typed, PipeInv, ~halted, idex.valid, NEW held, OperandsClear(held)
  PROVE  LET i == idex.inst
         IN /\ i.rn \in Captured(i) \cup {XZR} => OperandRn = ReadReg(AfterEXMEM, i.rn)
            /\ i.rm \in Captured(i) \cup {XZR} => OperandRm = ReadReg(AfterEXMEM, i.rm)
<1>1. idex.inst \in Inst
  BY OperandTypes DEF DecodeRegister
<1>2. idex.inst.rn \in Regs \cup {XZR} /\ idex.inst.rm \in Regs \cup {XZR}
  BY <1>1, InstFields
<1>3. Behind /\ CapturedValue(idex.inst.rn, idex.rn) /\ CapturedValue(idex.inst.rm, idex.rm)
  BY DEF PipeInv, Captures
<1>4. QED
  BY <1>2, <1>3, OperandDelivered DEF OperandRn, OperandRm

\* A branch in ID/EX sees the flags of the program order.
LEMMA BranchFlagsKnown ==
  ASSUME PipeInv, ~halted, idex.valid, ~SetsFlags(idex.inst)
  PROVE  BranchFlags = CommittedFl
  BY DEF PipeInv, FlagsKnown, BranchFlags, CommittedFl

LEMMA GuessFacts ==
  ASSUME NEW n, NEW i, NEW g \in Guesses(n, i)
  PROVE  /\ i.op = "BL" => g.next = i.imm
         /\ i.op \in {"BEQ", "BCS"} =>
              /\ g.early = FALSE /\ g.taken \in BOOLEAN
              /\ g.next = IF g.taken THEN i.imm ELSE Wrap(n + 1)
         /\ i.op = "RET" =>
              /\ g.early = FALSE /\ g.taken \in BOOLEAN
              /\ g.taken => g.next = g.target \/ g.target = 0
         /\ ~IsBranch(i) /\ i.op # "CBZ" => g.next = Wrap(n + 1)
<1> DEFINE none == [taken |-> FALSE, target |-> 0, early |-> FALSE, next |-> Wrap(n + 1)]
           to(t) == [taken |-> TRUE, target |-> t, early |-> FALSE, next |-> t]
<1>1. /\ none.taken = FALSE /\ none.early = FALSE /\ none.next = Wrap(n + 1)
      /\ \A t : to(t).taken = TRUE /\ to(t).early = FALSE /\ to(t).next = t /\ to(t).target = t
      /\ [none EXCEPT !.taken = TRUE].taken = TRUE /\ [none EXCEPT !.taken = TRUE].early = FALSE
      /\ [none EXCEPT !.taken = TRUE].target = 0
      /\ [to(i.imm) EXCEPT !.early = TRUE].next = i.imm
  OBVIOUS
<1>2. Guesses(n, i) = CASE i.op = "BL" -> {[to(i.imm) EXCEPT !.early = TRUE]}
       [] i.op \in {"BEQ", "BCS", "CBZ"} -> {none, to(i.imm)}
       [] i.op = "RET" -> {none, [none EXCEPT !.taken = TRUE]} \cup {to(t) : t \in Val}
       [] OTHER -> {none}
  BY Zenon DEF Guesses
<1> HIDE DEF none, to
<1>3. i.op = "BL" => g.next = i.imm
  BY <1>1, <1>2
<1>4. i.op \in {"BEQ", "BCS"} => /\ g.early = FALSE /\ g.taken \in BOOLEAN
                                 /\ g.next = IF g.taken THEN i.imm ELSE Wrap(n + 1)
  <2>1. i.op \in {"BEQ", "BCS"} => g = none \/ g = to(i.imm)
    BY <1>2
  <2>2. QED
    BY <1>1, <2>1
<1>5. i.op = "RET" => /\ g.early = FALSE /\ g.taken \in BOOLEAN
                      /\ g.taken => g.next = g.target \/ g.target = 0
  <2>1. i.op = "RET" => g = none \/ g = [none EXCEPT !.taken = TRUE] \/ \E t \in Val : g = to(t)
    BY <1>2
  <2>2. CASE \E t \in Val : g = to(t)
    <3>1. PICK t \in Val : g = to(t)
      BY <2>2
    <3>2. g.taken = TRUE /\ g.early = FALSE /\ g.next = g.target
      BY <1>1, <3>1, Zenon
    <3>3. QED
      BY <3>2
  <2>3. CASE g = none
    BY <1>1, <2>3, Zenon
  <2>4. CASE g = [none EXCEPT !.taken = TRUE]
    BY <1>1, <2>4
  <2>5. QED
    BY <2>1, <2>2, <2>3, <2>4
<1>6. ~IsBranch(i) /\ i.op # "CBZ" => g.next = Wrap(n + 1)
  <2>1. ~IsBranch(i) /\ i.op # "CBZ" => g = none
    BY <1>2 DEF IsBranch
  <2>2. QED
    BY <1>1, <2>1
<1>7. QED
  BY <1>3, <1>4, <1>5, <1>6

\* The committed state when an instruction is in EX.
LEMMA CommittedInEX ==
  ASSUME Typed, PipeInv, ~halted, ~Exits, idex.valid
  PROVE  /\ Committed = State(idex.pc, AfterEXMEM, CommittedMem, CommittedFl, CommittedOut, halted, code)
         /\ idex.inst = InstAt(prog, idex.pc) /\ idex.inst.op # "B"
         /\ idex.guess \in Guesses(idex.pc, idex.inst)
<1>1. /\ idex.inst = InstAt(prog, idex.pc) /\ idex.inst.op # "B"
      /\ idex.guess \in Guesses(idex.pc, idex.inst)
  BY DEF PipeInv, Path, OnProgram
<1>2. Follow(prog, idex.pc) = idex.pc
  BY <1>1, FollowHere DEF IsB
<1>3. CommittedPC = idex.pc
  BY DEF CommittedPC
<1>4. halted = FALSE
  BY DEF Typed, Scalars
<1>5. QED
  BY <1>1, <1>2, <1>3, <1>4, CommittedRunning

\* Fetch is where the branch leads, unless it was mispredicted.
LEMMA GoodGuess ==
  ASSUME Typed, PipeInv, ~halted, ~Exits, idex.valid, OperandsClear(FALSE),
         ~Mispredicted(idex, BranchFlags, OperandRn)
  PROVE  idex.guess.next = Emu!NextPC(Committed, idex.inst)
<1> DEFINE i == idex.inst
           g == idex.guess
<1>1. /\ Committed = State(idex.pc, AfterEXMEM, CommittedMem, CommittedFl, CommittedOut, halted, code)
      /\ i.op \notin {"B", "CBZ"} /\ g \in Guesses(idex.pc, i)
  BY CommittedInEX DEF OperandsClear
<1>2. CASE i.op = "BL"
  <2>1. g \in Guesses(idex.pc, i)
    BY <1>1
  <2>2. g.next = i.imm
    <3> HIDE DEF i, g
    <3>1. QED
      BY <1>2, <2>1, GuessFacts
  <2>3. QED
    BY <1>1, <1>2, <2>2, EmulatorNextPC
<1>3. CASE i.op \in {"BEQ", "BCS"}
  <2>1. BranchFlags = CommittedFl
    BY <1>3, BranchFlagsKnown DEF SetsFlags
  <2>2. g.early = FALSE /\ g.taken \in BOOLEAN /\ g.next = IF g.taken THEN i.imm ELSE Wrap(idex.pc + 1)
    <3>1. g \in Guesses(idex.pc, i)
      BY <1>1
    <3> HIDE DEF i, g
    <3>2. QED
      BY ONLY <1>3, <3>1, GuessFacts
  <2>3. IF i.op = "BEQ" THEN g.taken <=> CommittedFl.z ELSE g.taken <=> CommittedFl.c
    BY <1>3, <2>1, <2>2 DEF Mispredicted, IsBranch, Taken
  <2>4. Emu!NextPC(Committed, i) = IF i.op = "BEQ" THEN IF CommittedFl.z THEN i.imm ELSE Wrap(idex.pc + 1)
                                   ELSE IF CommittedFl.c THEN i.imm ELSE Wrap(idex.pc + 1)
    BY <1>1, <1>3, EmulatorNextPC
  <2>5. QED
    BY <1>3, <2>2, <2>3, <2>4
<1>4. CASE i.op = "RET"
  <2>1. i.rn \in Captured(i) \cup {XZR}
    BY <1>4 DEF Captured
  <2>2. OperandRn = ReadReg(AfterEXMEM, i.rn)
    BY <2>1, Operands
  <2>3. Emu!NextPC(Committed, i) = OperandRn
    BY <1>1, <1>4, <2>2, EmulatorNextPC
  <2>4. g.early = FALSE /\ g.taken \in BOOLEAN /\ (g.taken => g.next = g.target \/ g.target = 0)
    BY <1>1, <1>4, GuessFacts
  <2>5. g.taken /\ g.target = OperandRn
    BY <1>4, <2>4 DEF Mispredicted, IsBranch, Taken, Target
  <2>6. OperandRn = 0 => g.next = 0
    BY <1>4, <2>5 DEF OperandsClear, Target
  <2>7. QED
    BY <2>3, <2>4, <2>5, <2>6
<1>5. CASE ~IsBranch(i)
  <2>1. g.next = Wrap(idex.pc + 1)
    BY <1>1, <1>5, GuessFacts
  <2>2. QED
    BY <1>1, <1>5, <2>1, EmulatorNextPC
<1>6. QED
  BY <1>2, <1>3, <1>4, <1>5 DEF IsBranch

\* A mispredicted branch restarts fetch where it leads.
LEMMA Restarted ==
  ASSUME Typed, PipeInv, ~halted, ~Exits, idex.valid, OperandsClear(FALSE),
         Mispredicted(idex, BranchFlags, OperandRn)
  PROVE  RestartPC(idex, BranchFlags, OperandRn) = Emu!NextPC(Committed, idex.inst)
<1> DEFINE i == idex.inst
<1>1. /\ Committed = State(idex.pc, AfterEXMEM, CommittedMem, CommittedFl, CommittedOut, halted, code)
      /\ i.op \notin {"B", "CBZ"} /\ i.op \in {"BL", "BEQ", "BCS", "RET"}
  BY CommittedInEX DEF OperandsClear, Mispredicted, IsBranch
<1>2. BranchFlags = CommittedFl
  BY <1>1, BranchFlagsKnown DEF SetsFlags
<1>3. i.op = "RET" => OperandRn = ReadReg(AfterEXMEM, i.rn)
  <2>1. i.op = "RET" => i.rn \in Captured(i) \cup {XZR}
    BY DEF Captured
  <2>2. QED
    BY <2>1, Operands
<1>4. /\ i.op = "BL" => Emu!NextPC(Committed, i) = i.imm
      /\ i.op = "BEQ" => Emu!NextPC(Committed, i) = IF CommittedFl.z THEN i.imm ELSE Wrap(idex.pc + 1)
      /\ i.op = "BCS" => Emu!NextPC(Committed, i) = IF CommittedFl.c THEN i.imm ELSE Wrap(idex.pc + 1)
      /\ i.op = "RET" => Emu!NextPC(Committed, i) = ReadReg(AfterEXMEM, i.rn)
  BY <1>1, EmulatorNextPC
<1>5. QED
  BY <1>1, <1>2, <1>3, <1>4 DEF RestartPC, Taken, Target

---------------------------------------------------------------------------
(* The instruction in EX, executed and committed.                          *)

\* What it loads and leaves in memory once it is in MEM.
Done == AccessMemory(Executed, CommittedMem)

ExecRegs ==
  IF EndsProgram(idex.inst) THEN AfterEXMEM
  ELSE IF idex.inst.op = "SVC" THEN [AfterEXMEM EXCEPT ![0] = 1]
  ELSE WritebackSlot(AfterEXMEM, Leaving(Executed, Done))
ExecMem == IF IsStore(idex.inst) THEN Done.view ELSE CommittedMem
ExecFl == IF SetsFlags(idex.inst) THEN Executed.fl ELSE CommittedFl
ExecOut ==
  IF idex.inst.op = "SVC" /\ ~EndsProgram(idex.inst)
    THEN Append(CommittedOut, CommittedMem[ReadReg(AfterEXMEM, 1)]) ELSE CommittedOut
ExecHalted == EndsProgram(idex.inst)
ExecCode == IF EndsProgram(idex.inst) THEN AfterEXMEM[0] ELSE code

LEMMA ExecCommits ==
  ASSUME Typed, Typed', PipeInv, ~halted, ~Exits, NEW lat \in Nat,
         Retires(Access(lat)), Advances(Access(lat)), idex.valid
  PROVE  Committed' = State(Follow(prog, CommittedPC'), ExecRegs, ExecMem, ExecFl, ExecOut,
                            ExecHalted, ExecCode)
<1>1. /\ AfterMEMWB' = AfterEXMEM /\ view' = CommittedMem /\ out' = CommittedOut
      /\ code' = code /\ halted' = FALSE /\ CommittedFl' = ExecFl
  BY Settles DEF ExecFl
<1>2. exmem' = Executed /\ exmem'.valid = TRUE /\ exmem'.inst = idex.inst
  BY RegisterFields DEF Advances
<1>3. prog' = prog
  BY DEF Retires
<1>4. /\ Exits' <=> EndsProgram(idex.inst)
      /\ Syscall' <=> idex.inst.op = "SVC"
      /\ Storing' <=> IsStore(idex.inst)
  BY <1>1, <1>2 DEF Exits, Syscall, Storing, EndsProgram, IsStore
<1>5. AfterEXMEM' = ExecRegs
  BY <1>1, <1>2, <1>4 DEF AfterEXMEM, ExecRegs, Done
<1>6. (IF Storing THEN AccessMemory(exmem, view).view ELSE view)' = ExecMem
  BY <1>1, <1>2, <1>4 DEF ExecMem, Done
<1>7. (IF Syscall /\ ~Exits /\ ~halted
         THEN Append(out, view[ReadReg(AfterMEMWB, 1)]) ELSE out)' = ExecOut
  BY <1>1, <1>4, Zenon DEF ExecOut
<1>8. (halted \/ Exits)' = ExecHalted
  <2>1. (halted \/ Exits)' <=> EndsProgram(idex.inst)
    BY <1>1, <1>4, Zenon
  <2>2. EndsProgram(idex.inst) \in BOOLEAN /\ (halted \/ Exits)' \in BOOLEAN
    BY DEF EndsProgram
  <2>3. QED
    BY <2>1, <2>2 DEF ExecHalted
<1>9. (IF ~halted /\ Exits THEN AfterMEMWB[0] ELSE code)' = ExecCode
  BY <1>1, <1>4 DEF ExecCode
<1>10. QED
  BY <1>1, <1>3, <1>5, <1>6, <1>7, <1>8, <1>9, Zenon DEF Committed, State

LEMMA ExecutedFields ==
  /\ Executed.alu = ALUResult(idex, OperandRn, OperandRm, RegsNow)
  /\ IsStore(idex.inst) => Executed.st = StoreData(RegsNow, idex.inst.rd)
  /\ idex.inst.op = "STP" => Executed.st2 = StoreData(RegsNow, idex.inst.rt2)
  /\ SetsFlags(idex.inst) => Executed.fl = FlagsOf(idex.inst, OperandRn, OperandRm)
<1>1. ASSUME NEW e, NEW x, NEW y, NEW st, NEW st2, NEW file
      PROVE  LET r == Result(e, x, y, st, st2, file)
             IN /\ r.alu = ALUResult(e, x, y, file)
                /\ IsStore(e.inst) => r.st = st
                /\ e.inst.op = "STP" => r.st2 = st2
                /\ SetsFlags(e.inst) => r.fl = FlagsOf(e.inst, x, y)
  <2> DEFINE stored == IF IsStore(e.inst) THEN st ELSE 0
             stored2 == IF e.inst.op = "STP" THEN st2 ELSE 0
             flags == IF SetsFlags(e.inst) THEN FlagsOf(e.inst, x, y) ELSE [z |-> FALSE, c |-> FALSE]
             alu == ALUResult(e, x, y, file)
  <2>1. Result(e, x, y, st, st2, file) =
          [valid |-> TRUE, pc |-> e.pc, inst |-> e.inst, alu |-> alu, st |-> stored, st2 |-> stored2,
           fl |-> flags]
    BY Zenon DEF Result
  <2>2. /\ IsStore(e.inst) => stored = st
        /\ e.inst.op = "STP" => stored2 = st2
        /\ SetsFlags(e.inst) => flags = FlagsOf(e.inst, x, y)
    OBVIOUS
  <2> HIDE DEF stored, stored2, flags, alu
  <2>3. /\ Result(e, x, y, st, st2, file).alu = alu /\ Result(e, x, y, st, st2, file).st = stored
        /\ Result(e, x, y, st, st2, file).st2 = stored2 /\ Result(e, x, y, st, st2, file).fl = flags
    BY <2>1
  <2>4. QED
    BY <2>2, <2>3 DEF alu
<1>2. QED
  BY <1>1 DEF Executed

\* What is written back, instruction by instruction.
LEMMA WritesBack ==
  ASSUME NEW file \in [Regs -> Val], NEW s \in MemoryRegister, Ordinary(s.inst)
  PROVE  LET i == s.inst
         IN /\ i.op \in {"ADD", "ADDI", "MADD"} => WritebackSlot(file, s) = WriteReg(file, i.rd, s.alu)
            /\ i.op = "LDR" => WritebackSlot(file, s) = WriteReg(file, i.rd, s.data)
            /\ i.op = "LDRP" => WritebackSlot(file, s) =
                 WriteReg(WriteReg(file, i.rd, s.data), i.rn, Wrap(s.alu + i.imm))
            /\ i.op = "LDP" => WritebackSlot(file, s) =
                 WriteReg(WriteReg(file, i.rd, s.data), i.rt2, s.data2)
            /\ i.op = "BL" => WritebackSlot(file, s) = [file EXCEPT ![LR] = s.alu]
            /\ i.op \in {"CMP", "CMPI", "STR", "STP", "BEQ", "BCS", "RET", "NOP"} =>
                 WritebackSlot(file, s) = file
<1> DEFINE i == s.inst
<1>1. s.valid = TRUE /\ i \in Inst /\ s.alu \in Val /\ s.data \in Val
  BY DEF MemoryRegister
<1>2. /\ i.rd \in Regs \cup {XZR} /\ i.rn \in Regs \cup {XZR} /\ i.imm \in Val
      /\ i.op \in {"CMP", "CMPI"} => i.rd = XZR
  BY <1>1, InstFields
<1>3. i.op \in {"ADD", "ADDI", "MADD"} => WritebackSlot(file, s) = WriteReg(file, i.rd, s.alu)
  BY <1>1 DEF WritebackSlot, RegWrite, DestOf, SlotValue, IsLoad, WriteReg
<1>4. i.op = "LDR" => WritebackSlot(file, s) = WriteReg(file, i.rd, s.data)
  BY <1>1 DEF WritebackSlot, RegWrite, DestOf, SlotValue, IsLoad, WriteReg
<1>5. i.op = "LDP" => WritebackSlot(file, s) = WriteReg(WriteReg(file, i.rd, s.data), i.rt2, s.data2)
  BY <1>1 DEF WritebackSlot, RegWrite, DestOf, SlotValue, IsLoad, Ordinary
<1>6. i.op = "BL" => WritebackSlot(file, s) = [file EXCEPT ![LR] = s.alu]
  <2>1. LR # XZR
    BY RegisterFacts
  <2>2. QED
    BY <1>1, <2>1 DEF WritebackSlot, RegWrite, DestOf, SlotValue, IsLoad, WriteReg
<1>7. i.op \in {"CMP", "CMPI", "STR", "STP", "BEQ", "BCS", "RET", "NOP"} => WritebackSlot(file, s) = file
  <2>1. i.op \in {"CMP", "CMPI", "STR", "STP", "BEQ", "BCS", "RET", "NOP"} =>
          ~RegWrite(i) /\ i.op # "LDRP"
    BY <1>2 DEF RegWrite
  <2>2. QED
    BY <2>1, NothingWritten
<1>8. ASSUME i.op = "LDRP"
      PROVE  WritebackSlot(file, s) = WriteReg(WriteReg(file, i.rd, s.data), i.rn, Wrap(s.alu + i.imm))
  <2> DEFINE v == Wrap(s.alu + i.imm)
  <2>1. v \in Val /\ i.rd # i.rn /\ WritebackVal(s) = v /\ SlotValue(s) = s.data
    BY <1>1, <1>2, <1>8, WrapSums DEF Ordinary, WritebackVal, SlotValue, IsLoad
  <2>2. WritebackSlot(file, s) = IF i.rd # XZR THEN WriteReg(WriteReg(file, i.rn, v), i.rd, s.data)
                                 ELSE WriteReg(file, i.rn, v)
    BY <1>1, <1>8, <2>1 DEF WritebackSlot, RegWrite, DestOf
  <2> HIDE DEF v
  <2>3. WriteReg(file, i.rd, s.data) \in [Regs -> Val] /\ WriteReg(file, i.rn, v) \in [Regs -> Val]
    BY <1>1, <1>2, <2>1, WriteRegType
  <2>4. CASE i.rd = XZR
    BY <2>2, <2>4 DEF WriteReg, v
  <2>5. CASE i.rd # XZR
    <3> DEFINE b == WriteReg(file, i.rn, v)
               d == WriteReg(file, i.rd, s.data)
               f == WriteReg(b, i.rd, s.data)
               g == WriteReg(d, i.rn, v)
    <3>1. f \in [Regs -> Val] /\ g \in [Regs -> Val]
      BY <1>1, <1>2, <2>1, <2>3, WriteRegType
    <3>2. ASSUME NEW r \in Regs PROVE f[r] = g[r]
      <4>1. b[r] = IF i.rn = r THEN v ELSE file[r]
        BY <1>2, WriteRegAt
      <4>2. d[r] = IF i.rd = r THEN s.data ELSE file[r]
        BY <1>2, WriteRegAt
      <4>3. b \in [Regs -> Val] /\ d \in [Regs -> Val]
        BY <2>3
      <4> HIDE DEF b, d
      <4>4. f[r] = IF i.rd = r THEN s.data ELSE b[r]
        BY <1>2, <4>3, RegisterFacts DEF WriteReg
      <4>5. g[r] = IF i.rn = r THEN v ELSE d[r]
        BY <1>2, <4>3, RegisterFacts DEF WriteReg
      <4>6. QED
        BY <2>1, <4>1, <4>2, <4>4, <4>5
    <3>3. f = g
      BY <3>1, <3>2, SameFiles
    <3>4. QED
      BY <2>2, <2>5, <3>3 DEF v
  <2>6. QED
    BY <2>4, <2>5
<1>9. QED
  BY <1>3, <1>4, <1>5, <1>6, <1>7, <1>8

LEMMA CommittedMemType ==
  ASSUME Typed
  PROVE  CommittedMem \in [Val -> Val]
<1>1. view \in [Val -> Val]
  BY DEF Typed, Stored
<1>2. ASSUME exmem.valid PROVE AccessMemory(exmem, view).view \in [Val -> Val]
  BY <1>1, <1>2, ValidRegisters, AccessMemoryType DEF Typed
<1>3. QED
  BY <1>1, <1>2 DEF CommittedMem, Storing

LEMMA DoneFields ==
  LET i == idex.inst
      next == Wrap(Executed.alu + 1)
  IN /\ IsLoad(i) => Done.data = CommittedMem[Executed.alu]
     /\ i.op = "LDP" => Done.data2 = CommittedMem[next]
     /\ i.op = "STR" => Done.view = [CommittedMem EXCEPT ![Executed.alu] = Executed.st]
     /\ i.op = "STP" =>
          Done.view = [[CommittedMem EXCEPT ![Executed.alu] = Executed.st] EXCEPT ![next] = Executed.st2]
<1> DEFINE e == Executed
           m == CommittedMem
           next == Wrap(e.alu + 1)
           data == IF IsLoad(e.inst) THEN m[e.alu] ELSE 0
           data2 == IF e.inst.op = "LDP" THEN m[next] ELSE 0
           after == CASE e.inst.op = "STR" -> [m EXCEPT ![e.alu] = e.st]
                      [] e.inst.op = "STP" -> [[m EXCEPT ![e.alu] = e.st] EXCEPT ![next] = e.st2]
                      [] OTHER -> m
<1>1. e.inst = idex.inst
  BY RegisterFields
<1> HIDE DEF e, m
<1>2. Done = [data |-> data, data2 |-> data2, view |-> after]
  BY Zenon DEF Done, AccessMemory, e, m
<1>3. /\ IsLoad(idex.inst) => data = m[e.alu]
      /\ idex.inst.op = "LDP" => data2 = m[next]
      /\ idex.inst.op = "STR" => after = [m EXCEPT ![e.alu] = e.st]
      /\ idex.inst.op = "STP" => after = [[m EXCEPT ![e.alu] = e.st] EXCEPT ![next] = e.st2]
  BY <1>1
<1> HIDE DEF data, data2, after
<1>4. Done.data = data /\ Done.data2 = data2 /\ Done.view = after
  BY <1>2
<1>5. QED
  BY <1>3, <1>4 DEF e, m

\* What EX and MEM make of an instruction is what the emulator makes of it.
LEMMA ExecutesAlike ==
  ASSUME Typed, PipeInv, ~halted, ~Exits, idex.valid, OperandsClear(FALSE)
  PROVE  Emu!Execute(Committed, idex.inst) =
           State(idex.pc, ExecRegs, ExecMem, ExecFl, ExecOut, ExecHalted, ExecCode)
<1> DEFINE i == idex.inst
           a == Committed
           R == AfterEXMEM
           M == CommittedMem
           alu == Executed.alu
           S == Leaving(Executed, Done)
           back == WritebackSlot(R, S)
           Same(r, m, f) == Emu!Execute(a, i) = State(idex.pc, r, m, f, CommittedOut, halted, code)
<1>1. /\ i \in Inst /\ idex.pc \in Val /\ i.op \in Ops /\ i.rd \in Regs \cup {XZR}
      /\ i.rt2 \in Regs \cup {XZR}
      /\ i.op \notin {"B", "CBZ"} /\ Ordinary(i)
  <2>1. i \in Inst /\ idex.pc \in Val
    BY OperandTypes DEF DecodeRegister
  <2>2. i.op # "B"
    BY CommittedInEX
  <2>3. QED
    BY <2>1, <2>2, InstFields DEF OperandsClear
<1>2. /\ Committed = State(idex.pc, R, M, CommittedFl, CommittedOut, halted, code)
      /\ Committed = State(Committed.pc, Committed.regs, Committed.mem, Committed.fl, Committed.out,
                           Committed.halted, Committed.code)
      /\ Committed.pc = idex.pc /\ Committed.regs = R /\ Committed.mem = M
      /\ Committed.fl = CommittedFl /\ Committed.out = CommittedOut
      /\ Committed.halted = halted /\ Committed.code = code
  <2>1. Committed = State(idex.pc, R, M, CommittedFl, CommittedOut, halted, code)
    BY CommittedInEX
  <2>2. /\ Committed.pc = idex.pc /\ Committed.regs = R /\ Committed.mem = M
        /\ Committed.fl = CommittedFl /\ Committed.out = CommittedOut
        /\ Committed.halted = halted /\ Committed.code = code
    BY <2>1 DEF State
  <2>3. QED
    BY <2>1, <2>2, Zenon
<1>3. R \in [Regs -> Val] /\ M \in [Val -> Val]
  BY CommittedRegsType, CommittedMemType
<1>4. /\ i.op \in {"ADD", "ADDI", "CMP", "CMPI", "MADD"} \/ IsMem(i) => OperandRn = ReadReg(R, i.rn)
      /\ i.op \in {"ADD", "CMP", "MADD"} => OperandRm = ReadReg(R, i.rm)
  <2>1. /\ i.op \in {"ADD", "ADDI", "CMP", "CMPI", "MADD"} \/ IsMem(i) => i.rn \in Captured(i) \cup {XZR}
        /\ i.op \in {"ADD", "CMP", "MADD"} => i.rm \in Captured(i) \cup {XZR}
    BY DEF Captured, IsMem, IsLoad, IsStore
  <2>2. QED
    BY <2>1, Operands
<1>5. /\ i.op \in {"STR", "STP"} => StoreData(RegsNow, i.rd) = ReadReg(R, i.rd)
      /\ i.op = "STP" => StoreData(RegsNow, i.rt2) = ReadReg(R, i.rt2)
  <2>1. /\ i.op \in {"STR", "STP"} => i.rd \in ReadInEX(i) \cup {XZR}
        /\ i.op = "STP" => i.rt2 \in ReadInEX(i) \cup {XZR}
    BY DEF ReadInEX
  <2>2. QED
    BY <1>1, <2>1, StoreDelivered DEF PipeInv
<1>6. i.op = "MADD" => (IF i.rt2 = XZR THEN idex.rm ELSE RegsNow[i.rt2]) = ReadReg(R, i.rt2)
  <2>1. i.op = "MADD" => i.rt2 \notin InEXMEM /\ i.rt2 # XZR
    BY DEF OperandsClear
  <2>2. QED
    BY <1>1, <2>1, Unwritten DEF ReadReg
<1>7. /\ S \in MemoryRegister /\ S.inst = i /\ S.alu = alu /\ S.data = Done.data /\ S.data2 = Done.data2
  <2>1. Executed \in ExecuteRegister /\ Executed.inst = i
    BY ExecutedType, RegisterFields
  <2>2. Done.data \in Val /\ Done.data2 \in Val
    BY <1>3, <2>1, AccessMemoryType DEF Done
  <2>3. QED
    BY <2>1, <2>2 DEF Leaving, ExecuteRegister, MemoryRegister
<1> HIDE DEF S, R, M, alu
<1>8. /\ i.op \in {"ADD", "ADDI", "MADD"} => back = WriteReg(R, i.rd, alu)
      /\ i.op = "LDR" => back = WriteReg(R, i.rd, Done.data)
      /\ i.op = "LDRP" => back = WriteReg(WriteReg(R, i.rd, Done.data), i.rn, Wrap(alu + i.imm))
      /\ i.op = "LDP" => back = WriteReg(WriteReg(R, i.rd, Done.data), i.rt2, Done.data2)
      /\ i.op = "BL" => back = [R EXCEPT ![LR] = alu]
      /\ i.op \in {"CMP", "CMPI", "STR", "STP", "BEQ", "BCS", "RET", "NOP"} => back = R
  BY <1>1, <1>3, <1>7, WritesBack
<1> HIDE DEF back
<1>9. /\ i.op = "ADD" => alu = Wrap(OperandRn + OperandRm)
      /\ i.op = "ADDI" => alu = Wrap(OperandRn + i.imm)
      /\ i.op = "MADD" => alu = Wrap(ReadReg(R, i.rt2) + OperandRn * OperandRm)
      /\ i.op = "LDRP" => alu = OperandRn
      /\ i.op \in {"LDR", "LDP", "STR", "STP"} => alu = Wrap(OperandRn + i.imm)
      /\ i.op = "BL" => alu = Wrap(idex.pc + 1)
  BY <1>6, ExecutedFields DEF ALUResult, alu
<1>10. /\ IsLoad(i) => Done.data = M[alu]
       /\ i.op = "LDP" => Done.data2 = M[Wrap(alu + 1)]
       /\ i.op = "STR" => Done.view = [M EXCEPT ![alu] = ReadReg(R, i.rd)]
       /\ i.op = "STP" => Done.view = [[M EXCEPT ![alu] = ReadReg(R, i.rd)]
                                          EXCEPT ![Wrap(alu + 1)] = ReadReg(R, i.rt2)]
  BY <1>5, DoneFields, ExecutedFields DEF alu, M, IsStore
<1>11. ASSUME i.op # "SVC", Same(back, ExecMem, ExecFl)
       PROVE  Emu!Execute(a, i) =
                State(idex.pc, ExecRegs, ExecMem, ExecFl, ExecOut, ExecHalted, ExecCode)
  <2>1. EndsProgram(i) = FALSE /\ halted = FALSE
    BY <1>11 DEF EndsProgram, Typed, Scalars
  <2>2. ExecRegs = back /\ ExecOut = CommittedOut /\ ExecHalted = halted /\ ExecCode = code
    BY <1>11, <2>1 DEF ExecRegs, ExecOut, ExecHalted, ExecCode, back, R, S
  <2>3. QED
    BY <1>11, <2>2
<1>12. /\ IsStore(i) => ExecMem = Done.view
       /\ ~IsStore(i) => ExecMem = M
       /\ ~SetsFlags(i) => ExecFl = CommittedFl
       /\ i.op = "CMP" => ExecFl = SubFlags(OperandRn, OperandRm)
       /\ i.op = "CMPI" => ExecFl = SubFlags(OperandRn, i.imm)
  <2>1. i.op = "CMPI" => (OperandRn >= i.imm) = (OperandRn >= OperandRm)
    BY DEF OperandsClear
  <2>2. i.op = "CMPI" => FlagsOf(i, OperandRn, OperandRm) = SubFlags(OperandRn, i.imm)
    BY <2>1 DEF FlagsOf, SubFlags
  <2>3. i.op = "CMP" => FlagsOf(i, OperandRn, OperandRm) = SubFlags(OperandRn, OperandRm)
    BY DEF FlagsOf
  <2>4. QED
    BY <2>2, <2>3, ExecutedFields DEF ExecMem, ExecFl, SetsFlags, M
<1> DEFINE x == ReadReg(R, i.rn)
           y == ReadReg(R, i.rm)
<1>13. /\ a = State(a.pc, a.regs, a.mem, a.fl, a.out, a.halted, a.code)
       /\ a.pc = idex.pc /\ a.regs = R /\ a.mem = M /\ a.fl = CommittedFl /\ a.out = CommittedOut
       /\ a.halted = halted /\ a.code = code
  BY <1>2
<1> HIDE DEF a, i
<1> DEFINE u == ReadReg(a.regs, i.rn)
           w == ReadReg(a.regs, i.rm)
           at == Wrap(u + i.imm)
           Then(r, m, f) == Emu!Execute(a, i) = State(a.pc, r, m, f, a.out, a.halted, a.code)
<1>14. /\ i.op = "ADD" => Then(WriteReg(a.regs, i.rd, Wrap(u + w)), a.mem, a.fl)
       /\ i.op = "ADDI" => Then(WriteReg(a.regs, i.rd, Wrap(u + i.imm)), a.mem, a.fl)
       /\ i.op = "CMP" => Then(a.regs, a.mem, SubFlags(u, w))
       /\ i.op = "CMPI" => Then(a.regs, a.mem, SubFlags(u, i.imm))
       /\ i.op = "MADD" => Then(WriteReg(a.regs, i.rd, Wrap(ReadReg(a.regs, i.rt2) + u * w)), a.mem, a.fl)
       /\ i.op = "LDR" => Then(WriteReg(a.regs, i.rd, a.mem[at]), a.mem, a.fl)
       /\ i.op = "LDRP" =>
            Then(WriteReg(WriteReg(a.regs, i.rd, a.mem[u]), i.rn, Wrap(u + i.imm)), a.mem, a.fl)
       /\ i.op = "LDP" =>
            Then(WriteReg(WriteReg(a.regs, i.rd, a.mem[at]), i.rt2, a.mem[Wrap(at + 1)]), a.mem, a.fl)
       /\ i.op = "STR" => Then(a.regs, [a.mem EXCEPT ![at] = ReadReg(a.regs, i.rd)], a.fl)
       /\ i.op = "STP" =>
            Then(a.regs, [[a.mem EXCEPT ![at] = ReadReg(a.regs, i.rd)]
                            EXCEPT ![Wrap(at + 1)] = ReadReg(a.regs, i.rt2)], a.fl)
  <2>1. i.op = "ADD" => Then(WriteReg(a.regs, i.rd, Wrap(u + w)), a.mem, a.fl)
    BY ONLY <1>13, EmulatorExecutes, Zenon
  <2>2. i.op = "ADDI" => Then(WriteReg(a.regs, i.rd, Wrap(u + i.imm)), a.mem, a.fl)
    BY ONLY <1>13, EmulatorExecutes, Zenon
  <2>3. i.op = "CMP" => Then(a.regs, a.mem, SubFlags(u, w))
    BY ONLY <1>13, EmulatorExecutes, Zenon
  <2>4. i.op = "CMPI" => Then(a.regs, a.mem, SubFlags(u, i.imm))
    BY ONLY <1>13, EmulatorExecutes, Zenon
  <2>5. i.op = "MADD" => Then(WriteReg(a.regs, i.rd, Wrap(ReadReg(a.regs, i.rt2) + u * w)), a.mem, a.fl)
    BY ONLY <1>13, EmulatorExecutes, Zenon
  <2>6. i.op = "LDR" => Then(WriteReg(a.regs, i.rd, a.mem[at]), a.mem, a.fl)
    BY ONLY <1>13, EmulatorExecutes, Zenon
  <2>7. i.op = "LDRP" =>
            Then(WriteReg(WriteReg(a.regs, i.rd, a.mem[u]), i.rn, Wrap(u + i.imm)), a.mem, a.fl)
    BY ONLY <1>13, EmulatorExecutes, Zenon
  <2>8. i.op = "LDP" =>
            Then(WriteReg(WriteReg(a.regs, i.rd, a.mem[at]), i.rt2, a.mem[Wrap(at + 1)]), a.mem, a.fl)
    BY ONLY <1>13, EmulatorExecutes, Zenon
  <2>9. i.op = "STR" => Then(a.regs, [a.mem EXCEPT ![at] = ReadReg(a.regs, i.rd)], a.fl)
    BY ONLY <1>13, EmulatorExecutes, Zenon
  <2>10. i.op = "STP" =>
            Then(a.regs, [[a.mem EXCEPT ![at] = ReadReg(a.regs, i.rd)]
                            EXCEPT ![Wrap(at + 1)] = ReadReg(a.regs, i.rt2)], a.fl)
    BY ONLY <1>13, EmulatorExecutes, Zenon
  <2>11. QED
    BY <2>1, <2>2, <2>3, <2>4, <2>5, <2>6, <2>7, <2>8, <2>9, <2>10, Zenon
<1>15. /\ i.op = "BL" => Then([a.regs EXCEPT ![LR] = Wrap(a.pc + 1)], a.mem, a.fl)
       /\ i.op \in {"B", "BEQ", "BCS", "CBZ", "RET", "NOP"} => Then(a.regs, a.mem, a.fl)
  <2>1. i.op \in {"B", "BEQ", "BCS", "CBZ", "RET", "NOP"} => Emu!Execute(a, i) = a
    BY ONLY <1>13, EmulatorExecutes, Zenon
  <2>2. i.op = "BL" => Then([a.regs EXCEPT ![LR] = Wrap(a.pc + 1)], a.mem, a.fl)
    BY ONLY <1>13, EmulatorExecutes, Zenon
  <2>3. QED
    BY <1>13, <2>1, <2>2
<1>16. /\ i.op = "SVC" /\ i.imm = Exit =>
            Emu!Execute(a, i) = State(a.pc, a.regs, a.mem, a.fl, a.out, TRUE, a.regs[0])
       /\ i.op = "SVC" /\ i.imm # Exit =>
            Emu!Execute(a, i) = State(a.pc, [a.regs EXCEPT ![0] = 1], a.mem, a.fl,
                                      Append(a.out, a.mem[ReadReg(a.regs, 1)]), a.halted, a.code)
  BY ONLY <1>13, EmulatorExecutes, Zenon
<1>17. /\ i.op = "ADD" => Same(WriteReg(R, i.rd, Wrap(x + y)), M, CommittedFl)
       /\ i.op = "ADDI" => Same(WriteReg(R, i.rd, Wrap(x + i.imm)), M, CommittedFl)
       /\ i.op = "CMP" => Same(R, M, SubFlags(x, y))
       /\ i.op = "CMPI" => Same(R, M, SubFlags(x, i.imm))
       /\ i.op = "MADD" => Same(WriteReg(R, i.rd, Wrap(ReadReg(R, i.rt2) + x * y)), M, CommittedFl)
       /\ i.op = "LDR" => Same(WriteReg(R, i.rd, M[Wrap(x + i.imm)]), M, CommittedFl)
       /\ i.op = "LDRP" =>
            Same(WriteReg(WriteReg(R, i.rd, M[x]), i.rn, Wrap(x + i.imm)), M, CommittedFl)
       /\ i.op = "LDP" =>
            Same(WriteReg(WriteReg(R, i.rd, M[Wrap(x + i.imm)]), i.rt2, M[Wrap(Wrap(x + i.imm) + 1)]),
                 M, CommittedFl)
       /\ i.op = "STR" => Same(R, [M EXCEPT ![Wrap(x + i.imm)] = ReadReg(R, i.rd)], CommittedFl)
       /\ i.op = "STP" =>
            Same(R, [[M EXCEPT ![Wrap(x + i.imm)] = ReadReg(R, i.rd)]
                       EXCEPT ![Wrap(Wrap(x + i.imm) + 1)] = ReadReg(R, i.rt2)], CommittedFl)
       /\ i.op = "BL" => Same([R EXCEPT ![LR] = Wrap(idex.pc + 1)], M, CommittedFl)
       /\ i.op \in {"B", "BEQ", "BCS", "CBZ", "RET", "NOP"} => Same(R, M, CommittedFl)
  BY <1>13, <1>14, <1>15
<1>18. /\ i.op = "SVC" /\ i.imm = Exit =>
            Emu!Execute(a, i) = State(idex.pc, R, M, CommittedFl, CommittedOut, TRUE, R[0])
       /\ i.op = "SVC" /\ i.imm # Exit =>
            Emu!Execute(a, i) = State(idex.pc, [R EXCEPT ![0] = 1], M, CommittedFl,
                                              Append(CommittedOut, M[ReadReg(R, 1)]), halted, code)
  BY <1>13, <1>16, Zenon
<1>19. /\ i.op \in {"ADD", "ADDI", "CMP", "CMPI", "MADD"} \/ IsMem(i) => OperandRn = x
       /\ i.op \in {"ADD", "CMP", "MADD"} => OperandRm = y
  BY <1>4 DEF i
<1> HIDE DEF x, y
<1> SUFFICES Emu!Execute(a, i) =
               State(idex.pc, ExecRegs, ExecMem, ExecFl, ExecOut, ExecHalted, ExecCode)
  BY DEF a, i
<1>20. CASE i.op \in {"ADD", "ADDI", "MADD"}
  <2>1. ~IsStore(i) /\ ~SetsFlags(i)
    BY <1>20 DEF IsStore, SetsFlags
  <2>2. Same(WriteReg(R, i.rd, alu), M, CommittedFl)
    BY <1>2, <1>19, <1>9, <1>20, <1>17
  <2>3. Same(back, ExecMem, ExecFl)
    BY <1>8, <1>12, <1>20, <2>1, <2>2
  <2>4. QED
    BY <1>11, <1>20, <2>3
<1>21. CASE i.op \in {"CMP", "CMPI"}
  <2>1. ~IsStore(i)
    BY <1>21 DEF IsStore
  <2>2. Same(R, M, ExecFl)
    BY <1>2, <1>19, <1>12, <1>21, <1>17
  <2>3. Same(back, ExecMem, ExecFl)
    BY <1>8, <1>12, <1>21, <2>1, <2>2
  <2>4. QED
    BY <1>11, <1>21, <2>3
<1>22. CASE IsLoad(i)
  <2>1. ~IsStore(i) /\ ~SetsFlags(i) /\ IsMem(i)
    BY <1>22 DEF IsStore, IsLoad, SetsFlags, IsMem
  <2>2. Same(back, M, CommittedFl)
    <3>1. CASE i.op = "LDR"
      BY <1>2, <1>19, <1>8, <1>9, <1>10, <1>22, <2>1, <3>1, <1>17
    <3>2. CASE i.op = "LDRP"
      BY <1>2, <1>19, <1>8, <1>9, <1>10, <1>22, <2>1, <3>2, <1>17
    <3>3. CASE i.op = "LDP"
      BY <1>2, <1>19, <1>8, <1>9, <1>10, <1>22, <2>1, <3>3, <1>17
    <3>4. QED
      BY <1>22, <3>1, <3>2, <3>3 DEF IsLoad
  <2>3. Same(back, ExecMem, ExecFl)
    BY <1>12, <2>1, <2>2
  <2>4. i.op # "SVC"
    BY <1>22 DEF IsLoad
  <2>5. QED
    BY <1>11, <2>3, <2>4
<1>23. CASE i.op \in {"STR", "STP"}
  <2>1. IsStore(i) /\ ~SetsFlags(i) /\ IsMem(i)
    BY <1>23 DEF IsStore, SetsFlags, IsMem
  <2>2. Same(R, Done.view, CommittedFl)
    <3>1. CASE i.op = "STR"
      BY <1>2, <1>19, <1>9, <1>10, <2>1, <3>1, <1>17
    <3>2. CASE i.op = "STP"
      BY <1>2, <1>19, <1>9, <1>10, <2>1, <3>2, <1>17
    <3>3. QED
      BY <1>23, <3>1, <3>2
  <2>3. Same(back, ExecMem, ExecFl)
    BY <1>8, <1>12, <1>23, <2>1, <2>2
  <2>4. QED
    BY <1>11, <1>23, <2>3
<1>24. CASE i.op \in {"BL", "BEQ", "BCS", "RET", "NOP"}
  <2>1. ~IsStore(i) /\ ~SetsFlags(i)
    BY <1>24 DEF IsStore, SetsFlags
  <2>2. CASE i.op = "BL"
    <3>1. back = [R EXCEPT ![LR] = Wrap(idex.pc + 1)]
      BY <1>8, <1>9, <2>2
    <3>2. Same([R EXCEPT ![LR] = Wrap(idex.pc + 1)], M, CommittedFl)
      BY <1>17, <2>2
    <3>3. Same(back, M, CommittedFl)
      BY <3>1, <3>2, Zenon
    <3>4. Same(back, ExecMem, ExecFl)
      BY <1>12, <2>1, <3>3
    <3>5. QED
      BY <1>11, <2>2, <3>4
  <2>3. CASE i.op # "BL"
    <3>1. Same(R, M, CommittedFl)
      BY <1>2, <1>24, <2>3, <1>17
    <3>2. Same(back, ExecMem, ExecFl)
      BY <1>8, <1>12, <1>24, <2>1, <2>3, <3>1
    <3>3. QED
      BY <1>11, <1>24, <3>2
  <2>4. QED
    BY <2>2, <2>3
<1>25. CASE i.op = "SVC"
  <2>1. ~IsStore(i) /\ ~SetsFlags(i)
    BY <1>25 DEF IsStore, SetsFlags
  <2>2. ExecMem = M /\ ExecFl = CommittedFl
    BY <1>12, <2>1
  <2>3. CASE i.imm = Exit
    <3>1. EndsProgram(i) = TRUE
      BY <1>25, <2>3 DEF EndsProgram
    <3>2. ExecRegs = R /\ ExecOut = CommittedOut /\ ExecHalted = TRUE /\ ExecCode = R[0]
      BY <3>1 DEF ExecRegs, ExecOut, ExecHalted, ExecCode, R, i
    <3>3. Emu!Execute(a, i) = State(idex.pc, R, M, CommittedFl, CommittedOut, TRUE, R[0])
      BY <1>25, <1>18, <2>3
    <3>4. QED
      BY <2>2, <3>2, <3>3
  <2>4. CASE i.imm # Exit
    <3>1. EndsProgram(i) = FALSE /\ halted = FALSE
      BY <2>4 DEF EndsProgram, Typed, Scalars
    <3>2. /\ ExecRegs = [R EXCEPT ![0] = 1] /\ ExecOut = Append(CommittedOut, M[ReadReg(R, 1)])
          /\ ExecHalted = halted /\ ExecCode = code
      BY <1>25, <3>1 DEF ExecRegs, ExecOut, ExecHalted, ExecCode, R, M, i
    <3>3. Emu!Execute(a, i) = State(idex.pc, [R EXCEPT ![0] = 1], M, CommittedFl,
                                            Append(CommittedOut, M[ReadReg(R, 1)]), halted, code)
      BY <1>25, <1>18, <2>4
    <3>4. QED
      BY <2>2, <3>2, <3>3
  <2>5. QED
    BY <2>3, <2>4
<1>26. QED
  BY <1>1, <1>20, <1>21, <1>22, <1>23, <1>24, <1>25 DEF Ops, IsLoad
---------------------------------------------------------------------------
(* Each tick commits one instruction or none.                              *)

LEMMA StoredTwice ==
  ASSUME NEW m \in ExecuteRegister, NEW v \in [Val -> Val]
  PROVE  LET w == AccessMemory(m, v).view IN AccessMemory(m, w).view = w
<1> DEFINE n == Wrap(m.alu + 1)
           stored(mem0) == CASE m.inst.op = "STR" -> [mem0 EXCEPT ![m.alu] = m.st]
                             [] m.inst.op = "STP" -> [[mem0 EXCEPT ![m.alu] = m.st] EXCEPT ![n] = m.st2]
                             [] OTHER -> mem0
           w == stored(v)
<1>1. \A mem0 : AccessMemory(m, mem0).view = stored(mem0)
  BY Zenon DEF AccessMemory
<1>2. m.alu \in Val /\ n \in Val
  BY WrapSums DEF ExecuteRegister
<1> HIDE DEF n
<1>3. CASE m.inst.op = "STR"
  <2>1. w = [v EXCEPT ![m.alu] = m.st] /\ stored(w) = [w EXCEPT ![m.alu] = m.st]
    BY <1>3
  <2>2. stored(w) = w
    BY <1>2, <2>1
  <2>3. QED
    BY <1>1, <2>2
<1>4. CASE m.inst.op = "STP"
  <2>1. /\ w = [[v EXCEPT ![m.alu] = m.st] EXCEPT ![n] = m.st2]
        /\ stored(w) = [[w EXCEPT ![m.alu] = m.st] EXCEPT ![n] = m.st2]
    BY <1>4
  <2>2. stored(w) = w
    BY <1>2, <2>1
  <2>3. QED
    BY <1>1, <2>2
<1>5. CASE m.inst.op \notin {"STR", "STP"}
  BY <1>1, <1>5
<1>6. QED
  BY <1>3, <1>4, <1>5

\* In MEM/WB there is nothing, or what leaves EX/MEM with what it loads.
LEMMA MEMWBHolds ==
  ASSUME Typed, Typed', PipeInv, ~halted, NEW lat \in Nat, Retires(Access(lat)),
         Holds(Access(lat)) \/ Advances(Access(lat))
  PROVE  LET done == AccessMemory(exmem, view)
         IN \/ /\ memwb' = Empty
               /\ ~Syscall \/ Exits => AfterMEMWB' = AfterMEMWB
            \/ /\ exmem.valid /\ ~Access(lat).stall /\ memwb' = Leaving(exmem, Access(lat))
               /\ Syscall => AfterMEMWB' = RegsNow
               /\ ~Syscall => AfterMEMWB' = WritebackSlot(AfterMEMWB, Leaving(exmem, done))
<1> DEFINE acc == Access(lat)
           done == AccessMemory(exmem, view)
<1>1. regs' = RegsNow /\ AfterMEMWB' = WritebackSlot(RegsNow, memwb')
  BY DEF Retires, AfterMEMWB
<1>2. memwb' = Empty \/ (exmem.valid /\ ~acc.stall /\ memwb' = Leaving(exmem, acc))
  BY DEF Holds, Advances
<1>3. CASE memwb' = Empty
  <2>1. WritebackSlot(RegsNow, Empty) = RegsNow
    BY RegisterFields DEF WritebackSlot
  <2>2. ~Syscall \/ Exits => RegsNow = AfterMEMWB
    BY CommittedRegs
  <2>3. QED
    BY <1>1, <1>3, <2>1, <2>2
<1>4. CASE exmem.valid /\ ~acc.stall /\ memwb' = Leaving(exmem, acc)
  <2>1. acc.data2 = done.data2 /\ (IsLoad(exmem.inst) => acc.data = done.data)
    BY <1>4, Answered DEF PipeInv, Advances, Holds
  <2>2. memwb'.valid = TRUE /\ memwb'.inst = exmem.inst
    BY <1>4, RegisterFields
  <2>3. memwb' \in MemoryRegister
    BY <2>2, RegisterFields DEF Typed, Latched
  <2>4. ASSUME Syscall PROVE AfterMEMWB' = RegsNow
    <3>1. ~RegWrite(memwb'.inst) /\ memwb'.inst.op # "LDRP"
      BY <2>2, <2>4 DEF Syscall, RegWrite
    <3>2. QED
      BY <1>1, <2>3, <3>1, NothingWritten, RegsNowType
  <2>5. ASSUME ~Syscall PROVE AfterMEMWB' = WritebackSlot(AfterMEMWB, Leaving(exmem, done))
    <3>1. RegsNow = AfterMEMWB
      BY <2>5, CommittedRegs
    <3>2. exmem \in ExecuteRegister /\ Leaving(exmem, done) \in MemoryRegister
          /\ AfterMEMWB \in [Regs -> Val] /\ Leaving(exmem, acc) \in MemoryRegister
      BY <1>4, <2>3, ValidRegisters, LeavingType, RegsNowType DEF Typed
    <3> HIDE DEF acc, done
    <3>3. WritebackSlot(AfterMEMWB, Leaving(exmem, acc)) = WritebackSlot(AfterMEMWB, Leaving(exmem, done))
      BY <2>1, <3>2, WrittenAlike
    <3>4. QED
      BY <1>1, <1>4, <3>1, <3>3
  <2>6. QED
    BY <1>4, <2>4, <2>5
<1>5. QED
  BY <1>2, <1>3, <1>4

\* The tick of the exit call halts the machine in the state it has committed.
LEMMA ExitStutters ==
  ASSUME Typed, Typed', PipeInv, ~halted, Exits, NEW lat \in Nat, Retires(Access(lat)),
         Holds(Access(lat)) \/ Advances(Access(lat))
  PROVE  Committed' = Committed
<1> DEFINE acc == Access(lat)
<1>1. exmem.valid /\ Syscall /\ EndsProgram(exmem.inst) /\ ~IsStore(exmem.inst)
  BY DEF Exits, Syscall, EndsProgram, IsStore
<1>2. /\ prog' = prog /\ view' = acc.view /\ out' = out /\ code' = AfterMEMWB[0] /\ halted'
  BY DEF Retires
<1>3. view' = view
  BY <1>1, <1>2, Answered, AccessView DEF PipeInv, Advances, Holds
<1>4. AfterMEMWB' = AfterMEMWB
  BY <1>1, MEMWBHolds, CommittedRegs
<1>5. ExitPC' = ExitPC
  <2>1. ExitPC = exmem.pc
    BY DEF ExitPC, PipeInv, NotExited
  <2>2. CASE memwb' = Leaving(exmem, acc)
    BY <1>1, <2>1, <2>2, RegisterFields DEF ExitPC
  <2>3. CASE memwb' # Leaving(exmem, acc)
    <3>1. memwb' = Empty /\ exmem' = exmem
      BY <1>1, <2>3 DEF Holds, Advances
    <3>2. QED
      BY <2>1, <3>1, RegisterFields DEF ExitPC
  <2>4. QED
    BY <2>2, <2>3
<1>6. CommittedFl' = CommittedFl
  <2>1. CommittedFl = flBefore
    BY DEF CommittedFl, PipeInv, FlagsKnown
  <2>2. flBefore' = flBefore
    BY DEF Holds, Advances
  <2>3. QED
    BY <1>2, <2>1, <2>2 DEF CommittedFl
<1>7. Committed = State(Follow(prog, Wrap(ExitPC + 1)), AfterMEMWB, view, CommittedFl, out,
                        TRUE, AfterMEMWB[0])
  <2>1. CommittedPC = Wrap(ExitPC + 1)
    BY DEF CommittedPC
  <2>2. AfterEXMEM = AfterMEMWB /\ ~Storing
    BY <1>1 DEF AfterEXMEM, Storing
  <2>3. (halted \/ Exits) = TRUE
    OBVIOUS
  <2>4. QED
    BY <2>1, <2>2, <2>3, Zenon DEF Committed, State
<1>8. Committed' = State(Follow(prog, Wrap(ExitPC + 1)), AfterMEMWB, view, CommittedFl, out,
                         TRUE, AfterMEMWB[0])
  <2>1. CommittedPC' = Wrap(ExitPC + 1)
    BY <1>2, <1>5 DEF CommittedPC
  <2>2. AfterEXMEM' = AfterMEMWB /\ ~Storing'
    BY <1>2, <1>4 DEF AfterEXMEM, Storing
  <2>3. (halted \/ Exits)' = TRUE
    BY <1>2
  <2>4. QED
    BY <1>2, <1>3, <1>4, <1>6, <2>1, <2>2, <2>3, Zenon DEF Committed, State
<1>9. QED
  BY <1>7, <1>8
\* A tick that holds EX commits nothing, however often it is repeated.
LEMMA HoldStutters ==
  ASSUME Typed, Typed', PipeInv, ~halted, ~Exits, NEW lat \in Nat, Retires(Access(lat)),
         Holds(Access(lat))
  PROVE  Committed' = Committed
<1> DEFINE acc == Access(lat)
           done == AccessMemory(exmem, view)
           again == AccessMemory(exmem, view')
<1>1. /\ exmem' = exmem /\ idex' = idex /\ ifid' = ifid /\ pc' = pc /\ prog' = prog
      /\ view' = acc.view /\ code' = code /\ MemoryClear(TRUE)
  BY DEF Holds, Retires
<1>2. ~Syscall /\ RegsNow = AfterMEMWB /\ out' = out
  <2>1. ~Syscall
    BY <1>1 DEF MemoryClear
  <2>2. QED
    BY <2>1, CommittedRegs DEF Retires
<1>3. halted' = FALSE /\ ~Exits' /\ ~Syscall' /\ ~halted'
  <2>1. Exits = FALSE
    BY ValidRegisters DEF Exits, EndsProgram, Typed
  <2>2. QED
    BY <1>1, <1>2, <2>1 DEF Retires, Exits, Syscall
<1>4. CommittedPC' = CommittedPC
  BY <1>1, <1>3 DEF CommittedPC
<1>5. CommittedFl' = CommittedFl
  BY <1>1, <1>3 DEF CommittedFl, Holds
<1>6. ~IsStore(exmem.inst) => view' = view /\ done.view = view
  <2>1. ~IsStore(exmem.inst) => done.view = view
    BY AccessView
  <2>2. exmem.valid => acc.view = view \/ acc.view = done.view
    BY <1>1, Answered DEF PipeInv
  <2>3. ~exmem.valid => acc.view = view
    BY DEF Access, Idle
  <2>4. QED
    BY <1>1, <2>1, <2>2, <2>3
<1>7. exmem.valid => exmem \in ExecuteRegister /\ view \in [Val -> Val] /\ view' \in [Val -> Val]
  BY ValidRegisters DEF Typed, Stored
<1>8. CommittedMem' = CommittedMem
  <2>1. CASE exmem.valid /\ IsStore(exmem.inst)
    <3>1. view' = view \/ view' = done.view
      BY <1>1, <2>1, Answered DEF PipeInv
    <3>2. again.view = done.view
      <4>1. exmem \in ExecuteRegister /\ view \in [Val -> Val]
        BY <1>7, <2>1
      <4>2. AccessMemory(exmem, done.view).view = done.view
        BY <4>1, StoredTwice
      <4>3. QED
        BY <3>1, <4>2
    <3>3. QED
      BY <1>1, <1>3, <2>1, <3>2 DEF CommittedMem, Storing
  <2>2. CASE ~(exmem.valid /\ IsStore(exmem.inst))
    <3>1. view' = view
      <4>1. ~exmem.valid => acc.view = view
        BY DEF Access, Idle
      <4>2. QED
        BY <1>1, <1>6, <2>2, <4>1
    <3>2. QED
      BY <1>1, <2>2, <3>1 DEF CommittedMem, Storing
  <2>3. QED
    BY <2>1, <2>2
<1>9. AfterEXMEM' = AfterEXMEM
  <2>1. CASE ~exmem.valid
    <3>1. AfterMEMWB' = AfterMEMWB
      BY <1>2, <2>1, MEMWBHolds
    <3>2. QED
      BY <1>1, <2>1, <3>1 DEF AfterEXMEM
  <2>2. CASE exmem.valid
    <3> DEFINE s == Leaving(exmem, done)
               t == Leaving(exmem, again)
    <3>1. /\ exmem \in ExecuteRegister /\ s \in MemoryRegister /\ t \in MemoryRegister
          /\ AfterMEMWB \in [Regs -> Val] /\ AfterMEMWB' \in [Regs -> Val]
      <4>1. (Typed /\ exmem.valid => Leaving(exmem, AccessMemory(exmem, view)) \in MemoryRegister)'
        BY LeavingType, PTL
      <4>2. (Typed => AfterMEMWB \in [Regs -> Val] /\ RegsNow \in [Regs -> Val])'
        BY RegsNowType, PTL
      <4>3. QED
        BY <1>1, <1>7, <2>2, <4>1, <4>2, LeavingType, RegsNowType
    <3>2. AfterEXMEM = WritebackSlot(AfterMEMWB, s)
      BY <1>2, <2>2, CommittedRegs
    <3>3. AfterEXMEM' = WritebackSlot(AfterMEMWB', t)
      <4>1. (Typed /\ ~halted => (exmem.valid /\ ~Syscall =>
               AfterEXMEM = WritebackSlot(AfterMEMWB, Leaving(exmem, AccessMemory(exmem, view)))))'
        BY CommittedRegs, PTL
      <4>2. QED
        BY <1>1, <1>3, <2>2, <4>1
    <3>4. again.data2 = done.data2 /\ (IsLoad(exmem.inst) => again.data = done.data)
      <4>1. \A v : /\ AccessMemory(exmem, v).data2 = IF exmem.inst.op = "LDP" THEN v[Wrap(exmem.alu + 1)] ELSE 0
                   /\ IsLoad(exmem.inst) => AccessMemory(exmem, v).data = v[exmem.alu]
        BY DEF AccessMemory
      <4>2. IsLoad(exmem.inst) => view' = view
        BY <1>6, Exclusive
      <4>3. exmem.inst.op = "LDP" => IsLoad(exmem.inst)
        BY DEF IsLoad
      <4>4. QED
        BY <4>1, <4>2, <4>3
    <3>5. AfterMEMWB' = AfterMEMWB \/ AfterMEMWB' = WritebackSlot(AfterMEMWB, s)
      BY <1>2, MEMWBHolds
    <3> HIDE DEF done, again
    <3>6. WritebackSlot(AfterMEMWB', t) = WritebackSlot(AfterMEMWB', s)
      BY <3>1, <3>4, WrittenAlike
    <3> HIDE DEF s
    <3>7. WritebackSlot(WritebackSlot(AfterMEMWB, s), s) = WritebackSlot(AfterMEMWB, s)
      BY <3>1, WrittenTwice
    <3>8. QED
      BY <3>2, <3>3, <3>5, <3>6, <3>7
  <2>3. QED
    BY <2>1, <2>2
<1>10. (Typed /\ ~halted /\ ~Exits =>
          Committed = State(Follow(prog, CommittedPC), AfterEXMEM, CommittedMem, CommittedFl,
                            CommittedOut, FALSE, code))'
  BY CommittedRunning, PTL
<1>11. CommittedOut' = CommittedOut
  BY <1>2, <1>3 DEF CommittedOut
<1>12. QED
  BY <1>1, <1>3, <1>4, <1>5, <1>8, <1>9, <1>10, <1>11, CommittedRunning
\* A bubble in EX commits nothing.
LEMMA BubbleStutters ==
  ASSUME Typed, Typed', PipeInv, ~halted, ~Exits, NEW lat \in Nat, Retires(Access(lat)),
         Advances(Access(lat)), ~idex.valid
  PROVE  Committed' = Committed
<1>1. prog' = prog /\ ~halted' /\ exmem' = Empty
  BY DEF Retires, Advances
<1>2. CommittedPC = FrontPC
  BY DEF CommittedPC, FrontPC
<1>3. CommittedPC' = IF idex'.valid THEN idex'.pc ELSE FrontPC'
  <2>1. ~Exits'
    BY <1>1, RegisterFields DEF Exits
  <2>2. QED
    BY <1>1, <2>1 DEF CommittedPC, FrontPC
<1>4. Follow(prog, CommittedPC') = Follow(prog, CommittedPC)
  <2>1. Bubble \/ GoesOn
    BY DEF Advances, Flushes
  <2>2. QED
    BY <1>1, <1>2, <1>3, <2>1, FrontMoves DEF PipeInv
<1>5. QED
  BY <1>4, BubbleCommits, CommittedRunning

\* Where the next instruction is committed from.
LEMMA ExecGoesTo ==
  ASSUME Typed, Typed', PipeInv, ~halted, ~Exits, NEW lat \in Nat, Retires(Access(lat)),
         Advances(Access(lat)), idex.valid
  PROVE  Follow(prog, CommittedPC') = Follow(prog, Emu!NextPC(Committed, idex.inst))
<1> DEFINE next == Emu!NextPC(Committed, idex.inst)
<1>1. prog' = prog /\ ~halted' /\ exmem' = Executed /\ OperandsClear(FALSE)
  BY DEF Retires, Advances
<1>2. exmem'.valid = TRUE /\ exmem'.inst = idex.inst /\ exmem'.pc = idex.pc
  BY <1>1, RegisterFields
<1>3. CASE EndsProgram(idex.inst)
  <2>1. NotExited'
    BY ExitKept
  <2>2. ExitPC' = idex.pc
    BY <1>1, <1>2, <2>1 DEF ExitPC, NotExited
  <2>3. CommittedPC' = Wrap(idex.pc + 1)
    BY <1>2, <1>3, <2>2 DEF CommittedPC, Exits
  <2>4. ~IsBranch(idex.inst) /\ idex.inst.op \notin {"B", "CBZ"}
    BY <1>3 DEF EndsProgram, IsBranch
  <2>5. next = Wrap(idex.pc + 1)
    BY <2>4, CommittedInEX, EmulatorNextPC
  <2>6. QED
    BY <2>3, <2>5
<1>4. CASE ~EndsProgram(idex.inst)
  <2>1. CommittedPC' = IF idex'.valid THEN idex'.pc ELSE FrontPC'
    BY <1>1, <1>2, <1>4 DEF CommittedPC, FrontPC, Exits
  <2>2. CASE Flushes
    <3>1. CommittedPC' = pc'
      BY <2>1, <2>2, RegisterFields DEF Flushes, FrontPC
    <3>2. pc' = next
      BY <1>1, <2>2, Restarted DEF Flushes
    <3>3. QED
      BY <3>1, <3>2
  <2>3. CASE ~Flushes
    <3>1. ~Mispredicted(idex, BranchFlags, OperandRn) /\ (Bubble \/ GoesOn)
      BY <2>3 DEF Advances
    <3>2. Follow(prog, CommittedPC') = Follow(prog, FrontPC)
      BY <1>1, <2>1, <3>1, FrontMoves DEF PipeInv
    <3>3. Follow(prog, idex.guess.next) = Follow(prog, FrontPC)
      BY DEF PipeInv, Path
    <3>4. idex.guess.next = next
      BY <1>1, <3>1, GoodGuess
    <3>5. QED
      BY <3>2, <3>3, <3>4
  <2>4. QED
    BY <2>2, <2>3
<1>5. QED
  BY <1>3, <1>4

\* An instruction that leaves EX is a step of the emulator.
LEMMA ExecSteps ==
  ASSUME Typed, Typed', PipeInv, ~halted, ~Exits, NEW lat \in Nat, Retires(Access(lat)),
         Advances(Access(lat)), idex.valid
  PROVE  Emu!FoldedNext
<1>1. /\ Committed = State(idex.pc, AfterEXMEM, CommittedMem, CommittedFl, CommittedOut, halted, code)
      /\ idex.inst = InstAt(prog, idex.pc)
  BY CommittedInEX
<1>2. Committed.pc = idex.pc /\ Committed.halted = halted
  BY <1>1 DEF State
<1>3. idex.pc # Modulus
  <2>1. idex.pc \in Val
    BY OperandTypes DEF DecodeRegister
  <2>2. QED
    BY <2>1, WordAssumption DEF Val
<1>4. Emu!Execute(Committed, InstAt(prog, Committed.pc)) =
        State(idex.pc, ExecRegs, ExecMem, ExecFl, ExecOut, ExecHalted, ExecCode)
  <2>1. OperandsClear(FALSE)
    BY DEF Advances
  <2>2. QED
    BY <1>1, <1>2, <2>1, ExecutesAlike
<1>5. Emu!SkipB(Emu!Step(Committed)) =
        State(Follow(prog, Emu!NextPC(Committed, idex.inst)), ExecRegs, ExecMem, ExecFl, ExecOut,
              ExecHalted, ExecCode)
  BY <1>1, <1>2, <1>4, EmulatorStep
<1>6. Committed' = Emu!SkipB(Emu!Step(Committed))
  BY <1>5, ExecCommits, ExecGoesTo
<1>7. QED
  BY <1>2, <1>3, <1>6 DEF Emu!FoldedNext, Retires

\* Every tick is a step of the emulator or commits nothing.
LEMMA TickImplements ==
  ASSUME Typed, Typed', PipeInv, HazardNames \subseteq Avoid, Tick
  PROVE  prog' = prog /\ (Emu!FoldedNext \/ Committed' = Committed)
<1>1. PICK lat \in AccessLatencies :
        Retires(Access(lat)) /\ (Holds(Access(lat)) \/ Advances(Access(lat)))
  BY TickShape
<1>2. lat \in Nat /\ ~halted
  BY TickShape, PipelineAssumption DEF AccessLatencies
<1>3. QED
  BY <1>1, <1>2, ExitStutters, HoldStutters, BubbleStutters, ExecSteps DEF Retires
---------------------------------------------------------------------------
(* The refinement.                                                         *)

\* Where nothing is in flight and nothing has halted, the committed state is the machine's.
LEMMA NothingInFlight ==
  ASSUME ~ifid.valid, ~idex.valid, ~exmem.valid, ~memwb.valid, halted = FALSE
  PROVE  Committed = State(Follow(prog, pc), regs, view, fl, out, FALSE, code)
<1>1. ~Exits /\ ~Syscall /\ ~Storing /\ ~halted
  BY DEF Exits, Syscall, Storing
<1>2. CommittedPC = pc /\ CommittedFl = fl /\ AfterEXMEM = regs
  BY <1>1 DEF CommittedPC, CommittedFl, AfterEXMEM, AfterMEMWB, WritebackSlot
<1>3. (halted \/ Exits) = FALSE
  BY <1>1
<1>4. QED
  BY <1>1, <1>2, <1>3, Zenon DEF Committed, State

\* The emulator starts where the pipeline does.
LEMMA InitImplements == Init => Emu!FoldedInit
<1> SUFFICES ASSUME Init PROVE Emu!FoldedInit
  OBVIOUS
<1>1. /\ setup \in DOMAIN Setups /\ prog \in Setups[setup].programs
      /\ regs \in Setups[setup].regs /\ mem \in InitMems /\ view = mem
      /\ fl = [z |-> FALSE, c |-> FALSE] /\ out = << >> /\ halted = FALSE /\ code = 0 /\ pc = 0
      /\ ifid = Empty /\ idex = Empty /\ exmem = Empty /\ memwb = Empty
  BY DEF Init, Machine
<1>2. Committed = State(Follow(prog, 0), regs, mem, fl, << >>, FALSE, 0)
  BY <1>1, RegisterFields, NothingInFlight
<1>3. Committed = Emu!SkipB(Emu!Start(regs, mem))
  <2>1. Emu!Start(regs, mem) = State(0, regs, mem, fl, << >>, FALSE, 0)
    BY <1>1, Zenon DEF Emu!Start, State
  <2>2. \A h : LET a == State(0, regs, mem, fl, << >>, h, 0)
               IN a.pc = 0 /\ \A x : [a EXCEPT !.pc = x] = State(x, regs, mem, fl, << >>, h, 0)
    BY DEF State
  <2> DEFINE a == Emu!Start(regs, mem)
  <2>3. a.pc = 0 /\ \A x : [a EXCEPT !.pc = x] = State(x, regs, mem, fl, << >>, FALSE, 0)
    BY <2>1, <2>2, Zenon
  <2>4. Emu!SkipB(a) = [a EXCEPT !.pc = Emu!Follow(prog, a.pc)]
    BY DEF Emu!SkipB
  <2> HIDE DEF a
  <2>5. Emu!SkipB(a) = State(Follow(prog, 0), regs, mem, fl, << >>, FALSE, 0)
    BY <2>3, <2>4, EmulatorInsts, Zenon
  <2>6. QED
    BY <1>2, <2>5 DEF a
<1>4. /\ prog \in UNION {Setups[s].programs : s \in DOMAIN Setups}
      /\ regs \in UNION {Setups[s].regs : s \in DOMAIN Setups}
  BY <1>1
<1>5. QED
  BY <1>1, <1>3, <1>4 DEF Emu!FoldedInit

\* A tick of the machine, and the invariants it needs and keeps.
LEMMA StepImplements ==
  ASSUME HazardNames \subseteq Avoid, Typed, Typed', PipeInv, [Next]_vars
  PROVE  PipeInv' /\ [Emu!FoldedNext]_(Emu!emuVars)
<1>1. CASE Tick
  BY <1>1, TickKeepsInv, TickImplements DEF Emu!emuVars
<1>2. CASE UNCHANGED vars
  <2>1. PipeInv'
    BY <1>2 DEF vars, machine, PipeInv, Path, OnProgram, FrontPC, Behind, Captures, CapturedValue,
                InEXMEM, InMEMWB, FlagsKnown, MemoryKnown, Machine, NotExited
  <2>2. Committed' = Committed /\ prog' = prog
    BY <1>2 DEF vars, machine, Committed, CommittedPC, CommittedFl, AfterEXMEM, AfterMEMWB, Storing,
                Exits, Syscall, ExitPC
  <2>3. QED
    BY <2>1, <2>2 DEF Emu!emuVars
<1>3. QED
  BY <1>1, <1>2 DEF Next

\* On every machine, whatever its latencies, caches and predictions, and for every program,
\* the registers, flags, memory, output, PC and exit code the pipeline commits are, one
\* instruction after the other, those the emulator computes, as long as none of the operand
\* hazards is met: forwarding, stalls, replays, flushes and wrong paths do not show.
THEOREM PipelineImplementsEmulator ==
  ASSUME HazardNames \subseteq Avoid
  PROVE  Spec => ImplementsEmulator
<1>1. Init => PipeInv /\ Emu!FoldedInit
  BY InitInv, InitImplements
<1>2. Typed /\ Typed' /\ PipeInv /\ [Next]_vars => PipeInv' /\ [Emu!FoldedNext]_(Emu!emuVars)
  BY StepImplements
<1>3. QED
  BY <1>1, <1>2, AlwaysTyped, PTL DEF Spec, ImplementsEmulator, Emu!FoldedSpec
---------------------------------------------------------------------------
(* Runs after a Reset.                                                     *)

LEMMA ResetEnters ==
  ASSUME Reset
  PROVE  Committed' = Entered
<1>1. (~ifid.valid /\ ~idex.valid /\ ~exmem.valid /\ ~memwb.valid /\ halted = FALSE
         => Committed = State(Follow(prog, pc), regs, view, fl, out, FALSE, code))'
  BY NothingInFlight, PTL
<1>2. ~ifid'.valid /\ ~idex'.valid /\ ~exmem'.valid /\ ~memwb'.valid /\ halted' = FALSE
  BY RegisterFields DEF Reset, ClearRegisters
<1>3. /\ prog' = prog /\ pc' = 0 /\ regs' = regs /\ view' = view /\ fl' = fl /\ out' = out
      /\ code' = code
  BY DEF Reset
<1>4. Committed' = State(Follow(prog, 0), regs, view, fl, out, FALSE, code)
  BY <1>1, <1>2, <1>3
<1>5. QED
  BY <1>4, Zenon DEF Entered, State

\* What RunsAfresh says of a step.
Afresh ==
  IF resets' = resets THEN Emu!FoldedNext \/ UNCHANGED Committed ELSE Committed' = Entered

LEMMA RestartStep ==
  ASSUME HazardNames \subseteq Avoid, Typed, PipeInv, resets \in Nat, [RestartNext]_restartVars
  PROVE  Typed' /\ PipeInv' /\ resets' \in Nat /\ [Afresh]_restartVars
<1>1. CASE Reset
  <2>1. resets' = resets + 1
    BY <1>1 DEF Reset
  <2>2. QED
    BY <1>1, <2>1, ResetKeepsInv, ResetEnters DEF Afresh
<1>2. CASE Tick /\ UNCHANGED resets
  <2>1. Typed'
    BY <1>2, TickTyped
  <2>2. QED
    BY <1>2, <2>1, TickKeepsInv, TickImplements DEF Afresh
<1>3. CASE UNCHANGED restartVars
  <2>1. vars' = vars /\ resets' = resets
    BY <1>3 DEF restartVars
  <2>2. Typed' /\ PipeInv'
    BY <2>1 DEF vars, machine, Typed, Chosen, Stored, Scalars, Latched, Ports, Counts,
                PipeInv, Path, OnProgram, FrontPC, Behind, Captures, CapturedValue,
                InEXMEM, InMEMWB, FlagsKnown, MemoryKnown, Machine, NotExited
  <2>3. QED
    BY <1>3, <2>1, <2>2
<1>4. QED
  BY <1>1, <1>2, <1>3 DEF RestartNext

\* A run after a Reset, in the middle of a run or after its end, is a run of the emulator
\* from the entry over the registers, flags and memory the run before left: what was in
\* flight, waited for in the memory or fetch stages, or halted at the Reset does not show.
THEOREM ResetStartsAfresh ==
  ASSUME HazardNames \subseteq Avoid
  PROVE  RestartSpec => RunsAfresh
<1> DEFINE Inv == Typed /\ PipeInv /\ resets \in Nat
<1>1. Init /\ resets = 0 => Inv
  BY InitTyped, InitInv
<1>2. Inv /\ [RestartNext]_restartVars => Inv' /\ [Afresh]_restartVars
  BY RestartStep
<1>3. QED
  BY <1>1, <1>2, PTL DEF RestartSpec, RunsAfresh, Afresh
==========================================================================
