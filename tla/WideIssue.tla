---------------------------- MODULE WideIssue ----------------------------
(***************************************************************************)
(* timing/pipeline: the four-, six- and eight-wide pipelines                  *)
(* (Pipeline.tickQuadIssue, tickSextupleIssue and tickOctupleIssue with        *)
(* canIssueWith), and Tick, which runs one of them or the two-wide one of      *)
(* DualIssue.  Up to so many instructions are fetched in a tick, also through   *)
(* taken branches, and issued together in program order as far as              *)
(* canIssueWith allows.                                                      *)
(*                                                                         *)
(* The three ticks differ in this: the first port takes two ticks for an       *)
(* access and a load makes its consumer wait in the four- and six-wide ones,   *)
(* in the eight-wide one memory answers in the same tick, to the first slot's   *)
(* operands too; it alone resolves branches in slots 2 to 8 and forwards the   *)
(* addend of MADD; the four-wide one does not fuse a compare with the branch    *)
(* behind it.                                                                *)
(*                                                                         *)
(* Slots 1 and 2 use the registers of SingleIssue and DualIssue, those a        *)
(* machine does not have stay empty.  The machines have no cache but for the    *)
(* I-cache of the two-wide ones.                                              *)
(***************************************************************************)
EXTENDS DualIssue

ASSUME WideAssumption ==
  \A n \in DOMAIN Setups : /\ Setups[n].width \in {2, 4, 6, 8}
                           /\ Setups[n].width > 2 => ~Setups[n].icache

VARIABLES
  ifids, idexs, exmems, memwbs,   \* the pipeline registers of slots 3 to 8
  exLatencies,                    \* p.exLatency3 to p.exLatency8
  fusedFl                         \* auxiliary: the flags of a compare that was fused and
                                  \*   not written to PSTATE, while no later one was

restVars == <<ifids, idexs, exmems, memwbs, exLatencies, fusedFl>>
wideVars == <<dualVars, restVars>>

IFIDs == <<ifid, ifid2>> \o ifids
IDEXs == <<idex, idex2>> \o idexs
EXMEMs == <<exmem, exmem2>> \o exmems
MEMWBs == <<memwb, memwb2>> \o memwbs
Latencies == <<exLatency, exLatency2>> \o exLatencies

Slots == 1 .. 8
Occupied(stage) == {k \in Slots : stage[k].valid}
IsFused(s) == "fused" \in DOMAIN s
\* The element of a set of one, for which TLC computes what the set is built from once.
TheOne(S) == CHOOSE a \in S : TRUE
NoFlags == [none |-> TRUE]

\* Slot k compares a branch with its prediction.
Resolves(k) == k = 1 \/ Machine.width = 8

---------------------------------------------------------------------------
(* canIssueWith                                                            *)

MemPorts == 3
StorePorts == 2
ALUPorts == 6
WritePorts == 4

IsBCond(i) == i.op \in {"BEQ", "BCS"}
IsALUOp(i) == ~IsMem(i) /\ ~IsBranch(i) /\ i.op # "SVC"

\* j needs in this tick what i loads, or stores what i writes: neither is forwarded
\* within the group.
NeedsInGroup(i, j) ==
  LET sources == {j.rn} \cup (IF j.op \in {"ADD", "CMP"} THEN {j.rm} ELSE {})
      second == IF i.op = "LDP" THEN {i.rt2} \ {XZR} ELSE {}
  IN /\ RegWrite(i)
     /\ \/ IsLoad(i) /\ ({i.rd} \cup second) \cap sources # {}
        \/ IsStore(j) /\ j.rd \in {DestOf(i)} \cup second
        \/ j.op = "STP" /\ j.rt2 = DestOf(i)

\* Mutation: a branch may be issued with the compare whose flags it tests.
IssuesWithCompare(j, earlier) ==
  IsBCond(j) \/ \A n \in DOMAIN earlier : ~NeedsInGroup(earlier[n], j) /\ ~SameDest(earlier[n], j)

\* Instruction j may join those issued before it in this tick.
CanIssueWith(j, earlier) ==
  LET group == Append(earlier, j)
      loads == {n \in DOMAIN group : IsLoad(group[n])}
      stores == {n \in DOMAIN group : IsStore(group[n])}
  IN IF IsBCond(j) THEN \A n \in DOMAIN earlier : ~SetsFlags(earlier[n])
     ELSE /\ j.op \notin {"BL", "RET", "SVC"}
          /\ IsMem(j) => Len(earlier) < MemPorts
          /\ \A n \in DOMAIN earlier : /\ ~(IsStore(earlier[n]) /\ IsLoad(j))
                                       /\ ~NeedsInGroup(earlier[n], j)
                                       /\ ~SameDest(earlier[n], j)
          /\ Cardinality(loads \cup stores) <= MemPorts
          /\ Cardinality(stores) <= StorePorts
          /\ Cardinality({n \in DOMAIN group : IsALUOp(group[n])}) <= ALUPorts
          /\ Cardinality({n \in DOMAIN group : RegWrite(group[n])}) <= WritePorts

---------------------------------------------------------------------------
(* WB and MEM, slot by slot                                                *)

\* The register file once slots 1 to k are written back.
WrittenUpTo[k \in 0 .. 8] ==
  IF k = 0 THEN regs ELSE WritebackSlot(WrittenUpTo[k - 1], MEMWBs[k])

WrittenAll == WrittenUpTo[8]
AfterCall(written) == IF Syscall /\ ~Exits THEN [written EXCEPT ![0] = 1] ELSE written

\* The first port: two ticks for an access, or as long as any other.
FirstPort ==
  IF Machine.width < 8 \/ ~exmem.valid THEN Access(HitLatency)
  ELSE LET done == AccessMemory(exmem, view)
       IN [Idle EXCEPT !.data = done.data, !.data2 = done.data2, !.view = done.view]

\* What MEM does, first being what the first port does: what each slot loads, and the
\* memory they leave.  The other ports do not wait for the first one.
AccessAll(first) ==
  LET upTo[k \in 1 .. 8] ==
        IF k = 1 THEN [stall |-> first.stall, port |-> first.port,
                       loaded |-> <<first>>, view |-> first.view]
        ELSE LET before == upTo[k - 1]
                 acc == IF EXMEMs[k].valid THEN AccessMemory(EXMEMs[k], before.view)
                        ELSE [data |-> 0, data2 |-> 0, view |-> before.view]
             IN [before EXCEPT !.loaded = Append(@, acc), !.view = acc.view]
  IN upTo[8]

\* Every slot's MEM/WB, empty while memory stalls; a fused pair stays one instruction.
NextMEMWBs(access) ==
  [k \in Slots |->
     IF ~EXMEMs[k].valid \/ access.stall THEN Empty
     ELSE IF IsFused(EXMEMs[k])
       THEN [valid |-> TRUE, pc |-> EXMEMs[k].pc, inst |-> EXMEMs[k].inst, alu |-> 0,
             data |-> 0, data2 |-> 0, fused |-> TRUE]
     ELSE Leaving(EXMEMs[k], access.loaded[k])]

---------------------------------------------------------------------------
(* EX                                                                      *)

\* forwardFromNextMEMWB: what the first slot that loads r has loaded in this tick.
ForwardFromNextMEMWB(ms, r, v) ==
  LET second(s) == s.inst.op = "LDP" /\ s.inst.rt2 = r
      loading == {k \in Slots : ms[k].valid /\ IsLoad(ms[k].inst)
                                /\ (Writes(ms[k], r) \/ second(ms[k]))}
  IN IF r = XZR \/ loading = {} THEN v
     ELSE LET s == ms[Min(loading)] IN IF Writes(s, r) THEN s.data ELSE s.data2

\* The newest result for r of the slots before this one; done are their EX/MEM registers.
FromGroup(done, r, v) ==
  LET writers == {j \in DOMAIN done : Writes(done[j], r)}
  IN IF writers = {} THEN v ELSE done[Max(writers)].alu

Forwarded(r, v) == ForwardFromAllSlots(EXMEMs, MEMWBs, r, v)

\* An operand of slot k: the first of eight slots also gets what is loaded in this tick, ms.
Operand(k, r, captured, done, ms) ==
  LET first == Forwarded(r, GetForwardedValue(r, captured))
  IN IF k > 1 THEN FromGroup(done, r, Forwarded(r, captured))
     ELSE IF Machine.width = 8 THEN ForwardFromNextMEMWB(ms, r, first) ELSE first

\* The register file MADD finds its addend in: with eight slots the addend is forwarded.
AddendFile(i, done, file) ==
  LET computed == SelectSeq(done, LAMBDA s : s.valid /\ ~IsLoad(s.inst))
      r == i.rt2
  IN IF Machine.width < 8 \/ i.op # "MADD" \/ r = XZR THEN file
     ELSE [file EXCEPT ![r] = FromGroup(computed, r, Forwarded(r, @))]

\* The EX/MEM registers whose flags reach a branch in slot k.
FlagSlots(k) == CASE k = 1 -> Slots [] k \in {2, 3} -> 1 .. k [] OTHER -> {1}

\* The flags a branch in slot k tests: the newest of its group, or the oldest in EX/MEM,
\* or PSTATE as it is now.
FlagsFor(k, done, pstate) ==
  LET sets(s) == s.valid /\ SetsFlags(s.inst)
      group == {j \in DOMAIN done : sets(done[j])}
      older == {j \in FlagSlots(k) : sets(EXMEMs[j])}
  IN IF group # {} THEN done[Max(group)].fl
     ELSE IF older # {} THEN EXMEMs[Min(older)].fl ELSE pstate

\* What the compare fused into e leaves, from the operands captured at decode.
FusedFlags(e) ==
  SubFlags(e.fused.x, IF e.fused.inst.op = "CMPI" THEN e.fused.inst.imm ELSE e.fused.y)

\* What slot k computes, x and y being its operands.
SlotResult(k, x, y, done, file) ==
  LET e == IDEXs[k]
      i == e.inst
  IN IF IsFused(e) THEN [valid |-> TRUE, pc |-> e.pc, inst |-> i, alu |-> 0, st |-> 0,
                         st2 |-> 0, fl |-> [z |-> FALSE, c |-> FALSE], fused |-> TRUE]
     ELSE IF k = 1
       THEN Result(e, x, y, StoreData(file, i.rd), StoreData(file, i.rt2),
                   AddendFile(i, done, file))
     ELSE Result(e, x, y, y, Forwarded(i.rt2, ReadReg(file, i.rt2)), AddendFile(i, done, file))

\* The first slot's instruction needs another cycle.
ExecStalls == idex.valid /\ CyclesLeft(exLatency, idex) > 1

\* What EX has done once slot k is executed: x is its operand, flags those it tests and
\* result what it computed.  A mispredicted branch ends the group; in a slot but the
\* first it does not go on to EX/MEM itself.
ExecutedSlot(k, before, x, flags, result) ==
  LET e == IDEXs[k]
      wrong == Resolves(k) /\ Mispredicted(e, flags, x)
  IN [next |-> Append(before.next, IF wrong /\ k > 1 THEN Empty ELSE result),
      left |-> Append(before.left, 0),
      to |-> Append(before.to, RestartPC(e, flags, x)),
      fl |-> IF SetsFlags(e.inst) THEN result.fl ELSE before.fl,
      fusedFl |-> IF SetsFlags(e.inst) THEN NoFlags
                  ELSE IF IsFused(e) THEN flags ELSE before.fusedFl,
      flush |-> IF wrong THEN k ELSE 0]

\* EX of slots 1 to k, unless memory stalls.  What needs another cycle leaves its slot of
\* EX/MEM empty.
ExecutedUpTo(ms, file, stalls) ==
  LET upTo[k \in 0 .. 8] ==
        IF k = 0 THEN [next |-> << >>, left |-> << >>, to |-> << >>, fl |-> fl, fusedFl |-> fusedFl,
                       flush |-> 0]
        ELSE
        LET before == upTo[k - 1]
            e == IDEXs[k]
            begins == e.valid /\ before.flush = 0 /\ ~stalls /\ (k = 1 \/ ~ExecStalls)
            cycles == IF begins THEN CyclesLeft(Latencies[k], e) ELSE 0
        IN IF ~begins \/ cycles > 1
             THEN [before EXCEPT !.next = Append(@, Empty), !.to = Append(@, 0),
                                 !.left = Append(@, IF begins THEN cycles - 1 ELSE Latencies[k])]
             ELSE TheOne({ExecutedSlot(k, before, x, flags, SlotResult(k, x, y, before.next, file)) :
                            x \in {Operand(k, e.inst.rn, e.rn, before.next, ms)},
                            y \in {Operand(k, e.inst.rm, e.rm, before.next, ms)},
                            flags \in {IF IsFused(e) THEN FusedFlags(e)
                                       ELSE FlagsFor(k, before.next, before.fl)}})
  IN upTo[8]

---------------------------------------------------------------------------
(* ID: in order, as far as the instructions go together.                    *)

\* With six or eight slots a compare and the conditional branch behind it are issued as
\* one, and alone.
Fuses == /\ Machine.width > 4
         /\ ifid.valid /\ SetsFlags(ifid.inst) /\ ifid.inst.rd = XZR
         /\ ifid2.valid /\ IsBCond(ifid2.inst)

\* The load in ID/EX, of the first slots only, feeds the first instruction in IF/ID.
LoadUses ==
  CASE Machine.width = 4 -> \E k \in 1 .. 3 : FeedsNext(IDEXs[k])
    [] Machine.width = 6 -> LoadUse
    [] Machine.width = 8 -> FALSE

\* Slot k joins the slots before it; with eight slots nothing joins behind a branch in
\* slot 2 to 7.
Joins(k) ==
  /\ IFIDs[k].valid
  /\ Machine.width = 8 => \A j \in 2 .. k - 1 : ~IsBranch(IFIDs[j].inst)
  /\ CanIssueWith(IFIDs[k].inst, [j \in 1 .. k - 1 |-> IFIDs[j].inst])

IssueCount ==
  LET refused == {k \in 2 .. 8 : ~Joins(k)}
  IN IF ~ifid.valid THEN 0
     ELSE IF Fuses THEN 1
     ELSE IF refused = {} THEN 8 ELSE Min(refused) - 1

\* The fetched instructions that issue.
Consumed(count) == count + (IF Fuses THEN 1 ELSE 0)

\* The issued group ends in a branch that is predicted taken: what is left is dropped.
LeavesPath(count) ==
  Machine.width = 8 /\ count > 1 /\ IsBranch(IFIDs[count].inst) /\ IFIDs[count].guess.taken

\* The branch of a fused pair, with the compare and the operands it had at decode.
FusedDecode(file) ==
  LET cmp == Decoded(ifid, file)
      branch == Decoded(ifid2, file)
  IN [valid |-> TRUE, pc |-> branch.pc, inst |-> branch.inst, guess |-> branch.guess,
      rn |-> branch.rn, rm |-> branch.rm,
      fused |-> [pc |-> cmp.pc, inst |-> cmp.inst, x |-> cmp.rn, y |-> cmp.rm]]

NextIDEXs(count, file) ==
  [k \in Slots |-> IF k > count THEN Empty
                   ELSE IF Fuses THEN FusedDecode(file) ELSE Decoded(IFIDs[k], file)]

---------------------------------------------------------------------------
(* IF                                                                      *)

\* The addresses at which the predictor has a choice, and what it may answer there; it
\* does not change while a tick fetches.
Open == {n \in DOMAIN prog : prog[n].op \in {"BEQ", "BCS", "RET"}}
Predictors ==
  {g \in [Open -> UNION {Guesses(n, prog[n]) : n \in Open}] :
     \A n \in Open : g[n] \in Guesses(n, prog[n])}
Predict(g, n) == IF n \in DOMAIN g THEN g[n] ELSE CHOOSE a \in Guesses(n, InstAt(prog, n)) : TRUE

\* The fetched instructions that did not issue, and these predicted again.
NotIssued(count) ==
  IF LeavesPath(count) THEN << >>
  ELSE SubSeq(IFIDs, Consumed(count) + 1, Cardinality(Occupied(IFIDs)))
PredictedAgain(left, g) ==
  [n \in DOMAIN left |-> Fetched(left[n].pc, left[n].inst, Predict(g, left[n].pc))]

\* What moves up of left, which is now predicted again: the first that is now predicted
\* taken drops those behind it.
Moved(count, left, again) ==
  LET leaving == {n \in DOMAIN again : Redirects(again[n].guess)}
      kept == IF leaving = {} THEN Len(again) ELSE Min(leaving)
  IN [slots |-> SubSeq(again, 1, kept),
      pc |-> CASE leaving # {} -> again[kept].guess.next
               [] leaving = {} /\ LeavesPath(count) -> IFIDs[count].guess.target
               [] OTHER -> pc,
      \* a taken branch followed by its target's instructions is no longer taken
      strays |-> \E n \in 1 .. kept : Redirects(left[n].guess) /\ ~Redirects(again[n].guess)]

\* The slots fetch fills, going on at predicted targets and through every B; the
\* pc is Modulus when it never comes back from a loop of B's.
Filled(moved, g) ==
  LET fill[n \in 0 .. 8] ==
        IF n = 0 THEN [slots |-> moved.slots, pc |-> moved.pc]
        ELSE LET f == fill[n - 1]
                 at == IF f.pc = Modulus THEN Modulus ELSE Follow(prog, f.pc)
                 guess == Predict(g, at)
             IN IF Len(f.slots) = Machine.width THEN f
                ELSE IF at = Modulus THEN [f EXCEPT !.pc = Modulus]
                ELSE [slots |-> Append(f.slots, Fetched(at, InstAt(prog, at), guess)),
                      pc |-> guess.next]
      filled == fill[8]
  IN [filled EXCEPT !.slots = @ \o [k \in 1 .. 8 - Machine.width |-> Empty]]

---------------------------------------------------------------------------
(* Hazards: as in SingleIssue and DualIssue, the conditions under which a    *)
(* tick computes something else than the program says.  exec is what EX does  *)
(* in this tick, held whether ID/EX is held.                                 *)

DestsOfAll(stage, upTo) == UNION {DestsIn(stage[k]) : k \in 1 .. upTo}
LoadedByAll(stage, upTo) == UNION {LoadedIn(stage[k]) : k \in 1 .. upTo}
BasesOfAll(stage, upTo) == UNION {BaseIn(stage[k]) : k \in 1 .. upTo}

\* What the instruction e of slot k captured at decode and what it reads in EX.
CapturedAt(k, e) ==
  Captured(e.inst) \cup (IF k > 1 /\ IsStore(e.inst) THEN {0} ELSE {})
                   \cup (IF IsFused(e) THEN Captured(e.fused.inst) ELSE {})
InEXAt(k, e) ==
  IF k = 1 THEN ReadInEX(e.inst) ELSE IF e.inst.op = "STP" THEN {e.inst.rt2} \ {XZR} ELSE {}

\* The flags as the program has them.
ProgramFl == IF fusedFl # NoFlags THEN fusedFl ELSE fl

\* Two registers of stage, the one before the other, write r.
WrittenTwice(stage, r) ==
  \E k \in Slots : \E j \in 1 .. k - 1 : r \in DestsIn(stage[j]) \cap DestsIn(stage[k])

\* The hazards of the instruction in slot k of ID/EX.
SlotHazards(k, exec, held) ==
  LET e == IDEXs[k]
      i == e.inst
      captured == CapturedAt(k, e)
      inEX == InEXAt(k, e)
      reads == captured \cup inEX
      newer == DestsOfAll(EXMEMs, 8)
      group == DestsOfAll(IDEXs, k - 1)
      compares == {j \in Slots : EXMEMs[j].valid /\ SetsFlags(EXMEMs[j].inst)}
      reached == compares \cap FlagSlots(k)
      found(name, condition) == IF condition THEN {name} ELSE {}
  IN  found("lost in MEM/WB",
            held /\ ((captured \ group) \cap DestsOfAll(MEMWBs, 8)) \ newer # {})
      \* the call in EX/MEM or in the first slot of the group
 \cup found("call result", 0 \in reads /\ (Syscall \/ (k > 1 /\ idex.inst.op = "SVC")))
      \* the addend is not forwarded, with eight slots where loads and bases are not
 \cup found("addend", i.op = "MADD" /\
                      i.rt2 \in {XZR} \cup
                        IF Machine.width < 8 THEN newer \cup group
                        ELSE LoadedByAll(EXMEMs, 8) \cup BasesOfAll(EXMEMs, 8)
                             \cup LoadedByAll(IDEXs, k - 1) \cup BasesOfAll(IDEXs, k - 1))
      \* what is loaded in this tick reaches the first of eight slots' operands only
 \cup found("load use", \/ LoadedByAll(EXMEMs, 8)
                            \cap (IF k = 1 /\ Machine.width = 8 THEN inEX ELSE reads) # {}
                        \/ LoadedByAll(IDEXs, k - 1) \cap reads # {})
 \cup found("pair register", OneRegisterPair(e))
 \cup found("loaded base", LoadsOwnBase(e))
 \cup found("base", \/ BasesOfAll(EXMEMs, 8) \cap reads # {}
                    \/ BasesOfAll(MEMWBs, 8) \cap captured # {}
                    \/ BasesOfAll(IDEXs, k - 1) \cap reads # {})
      \* a load overtakes a newer result, or MEM/WB of the first slot that of another
 \cup found("older over newer",
            \/ k = 1 /\ \E r \in captured \cap LoadedByAll(EXMEMs, 8) : WrittenTwice(EXMEMs, r)
            \/ k = 1 /\ \E r \in inEX \cap DestsIn(memwb) : WrittenTwice(MEMWBs, r))
 \cup found("store data", k = 1 /\ inEX \cap (UNION {DestsIn(EXMEMs[j]) : j \in 2 .. 8}) # {})
 \cup found("slot 2 store", k > 1 /\ IsStore(i) /\ (i.rd # 0 \/ inEX \cap group # {}))
      \* it needs another cycle, but only the first slot is waited for
 \cup found("slot lost", k > 1 /\ ~held /\ exec.flush \notin 1 .. k /\ ~exec.next[k].valid)
      \* the older of two compares
 \cup found("flags", Resolves(k) /\ IsBCond(i) /\ ~IsFused(e) /\ reached # {} /\ Max(compares) # Min(reached))
      \* the compare's operands are not forwarded, its flags not written
 \cup found("fused operand", IsFused(e) /\ captured \cap (newer \cup DestsOfAll(MEMWBs, 8)) # {})
 \cup found("fused flags", Resolves(k) /\ IsBCond(i) /\ ~IsFused(e) /\ fusedFl # NoFlags)
      \* a wrong prediction that no one notices
 \cup found("secondary branch", ~Resolves(k) /\ ~held /\ Mispredicted(e, ProgramFl, 0))
 \cup found("compare and branch", i.op = "CBZ")
 \cup found("carry", /\ i.op = "CMPI" /\ exec.next[k].valid
                     /\ exec.next[k].fl # SubFlags(Wrap(exec.next[k].alu + i.imm), i.imm))
 \cup found("branch to 0", /\ i.op = "RET" /\ e.guess.taken /\ e.guess.next # 0 /\ ~held
                           /\ exec.to[k] = 0)

WideHazards(exec, held) ==
  LET memory == {k \in Slots : EXMEMs[k].valid /\ IsMem(EXMEMs[k].inst)}
      found(name, condition) == IF condition THEN {name} ELSE {}
  IN  UNION {SlotHazards(k, exec, held) : k \in Occupied(IDEXs)}
 \cup found("call repeated", Syscall /\ ~Exits /\ held)
      \* while EX waits MEM is done again, a load then behind the store that followed it
 \cup found("load behind store",
            held /\ \E j, k \in memory :
                      /\ j < k /\ IsLoad(EXMEMs[j].inst) /\ IsStore(EXMEMs[k].inst)
                      /\ Touched(EXMEMs[j]) \cap Touched(EXMEMs[k]) # {})
      \* what issued with the exit compares before the exit is handled, and stores with it
 \cup found("behind the exit",
            \E k \in 2 .. 8 :
              \/ idex.valid /\ EndsProgram(idex.inst) /\ IDEXs[k].valid /\ SetsFlags(IDEXs[k].inst)
              \/ Exits /\ EXMEMs[k].valid /\ IsStore(EXMEMs[k].inst))

---------------------------------------------------------------------------
NoSlots == [k \in 1 .. 6 |-> Empty]

WideInit ==
  /\ Init2
  /\ ifids = NoSlots /\ idexs = NoSlots /\ exmems = NoSlots /\ memwbs = NoSlots
  /\ exLatencies = [k \in 1 .. 6 |-> 0]
  /\ fusedFl = NoFlags

\* Instructions in these registers: a fused pair is two.
CountIn(stage) == Cardinality(Occupied(stage)) + (IF IsFused(stage[1]) THEN 1 ELSE 0)

AllEmpty == [k \in Slots |-> Empty]

\* One cycle: written is the register file after WB, access what MEM does, exec what EX
\* does, count how many slots issue.  A stall keeps ID/EX and EX/MEM, a load use empties
\* ID/EX; neither lets fetch go on, nor does a misprediction.
WideCycle(written, access, exec, count) ==
  LET ms == NextMEMWBs(access)
      held == access.stall \/ ExecStalls
      flush == exec.flush > 0
      fetches == ~held /\ ~flush /\ ~LoadUses
      d == CASE held -> IDEXs
             [] fetches -> NextIDEXs(count, AfterCall(written))
             [] OTHER -> AllEmpty
      x == IF held THEN EXMEMs ELSE exec.next
  IN
  /\ WideHazards(exec, held) \cap Avoid = {}
  \* WB
  /\ regs' = AfterCall(written)
  /\ retired' = retired + CountIn(MEMWBs)
  \* MEM
  /\ halted' = Exits
  /\ code' = IF Exits THEN written[0] ELSE code
  /\ out' = IF Syscall /\ ~Exits THEN Append(out, mem[ReadReg(written, 1)]) ELSE out
  /\ view' = access.view /\ mem' = access.view
  /\ dport' = access.port
  /\ memwb' = ms[1] /\ memwb2' = ms[2] /\ memwbs' = SubSeq(ms, 3, 8)
  \* EX
  /\ fl' = exec.fl /\ fusedFl' = exec.fusedFl
  /\ exLatency' = exec.left[1] /\ exLatency2' = exec.left[2]
  /\ exLatencies' = SubSeq(exec.left, 3, 8)
  /\ exmem' = x[1] /\ exmem2' = x[2] /\ exmems' = SubSeq(x, 3, 8)
  /\ executed' = executed + (IF held THEN 0 ELSE CountIn(exec.next))
  \* ID
  /\ idex' = d[1] /\ idex2' = d[2] /\ idexs' = SubSeq(d, 3, 8)
  \* IF: what the predictor answers
  /\ \E g \in IF fetches THEN Predictors ELSE {<< >>}, left \in {NotIssued(count)} :
       \E again \in {IF fetches THEN PredictedAgain(left, g) ELSE << >>} :
       \E moved \in {Moved(count, left, again)} :
         /\ fetches => ~(moved.strays /\ "predicted again" \in Avoid)
         /\ \E filled \in {CASE fetches -> Filled(moved, g)
                            [] flush -> [slots |-> AllEmpty, pc |-> exec.to[exec.flush]]
                            [] OTHER -> [slots |-> IFIDs, pc |-> pc]} :
              /\ filled.pc # Modulus
              /\ ifid' = filled.slots[1] /\ ifid2' = filled.slots[2]
              /\ ifids' = SubSeq(filled.slots, 3, 8)
              /\ pc' = filled.pc
  /\ flBefore' = ProgramFl
  /\ UNCHANGED <<setup, prog, fport>>

\* tickQuadIssue, tickSextupleIssue and tickOctupleIssue.  The bindings to sets of one have
\* TLC compute what a cycle uses in many places once.
WideTick ==
  /\ Machine.width > 2
  /\ ~halted
  /\ executed < MaxExecuted
  /\ \E written \in {WrittenAll}, access \in {AccessAll(FirstPort)}, count \in {IssueCount} :
       \E exec \in {ExecutedUpTo(NextMEMWBs(access), AfterCall(written), access.stall)} :
         WideCycle(written, access, exec, count)

TickSuperscalar == Machine.width = 2 /\ DualTick /\ UNCHANGED restVars

\* Pipeline.Tick: the tick of the configured issue width.
IssueTick == TickSuperscalar \/ WideTick

IssueSpec == WideInit /\ [][IssueTick]_wideVars

---------------------------------------------------------------------------
(* What has been committed, as in SingleIssue: what is in EX/MEM and MEM/WB  *)
(* is done in the order of the program, slot by slot.                        *)

\* Two at a time, EX may be held with a compare that has set the flags already.
HeldCompare == Machine.width = 2 /\ \E e \in {idex, idex2} : e.valid /\ SetsFlags(e.inst)

CommittedGroup ==
  LET written == WrittenAll
      stops == halted \/ Exits
      perform(a, m) ==
        IF ~m.valid THEN a
        ELSE LET acc == AccessMemory(m, a.mem)
             IN [regs |-> WritebackSlot(a.regs, Leaving(m, acc)), mem |-> acc.view]
      \* once the EX/MEM registers of slots 1 to k are done
      upTo[k \in 0 .. 8] ==
        IF k = 0 THEN {[regs |-> written, mem |-> view]}
        ELSE {perform(a, EXMEMs[k]) : a \in upTo[k - 1]}
      done == TheOne(upTo[8])
  IN [pc |-> Follow(prog, IF ~stops /\ idex.valid /\ IsFused(idex) THEN idex.fused.pc
                          ELSE CommittedPC),
      regs |-> IF halted THEN regs ELSE IF Exits THEN written ELSE AfterCall(done.regs),
      mem |-> IF stops THEN view ELSE done.mem,
      fl |-> IF halted \/ HeldCompare THEN flBefore ELSE ProgramFl,
      out |-> IF Syscall /\ ~stops THEN Append(out, view[ReadReg(written, 1)]) ELSE out,
      halted |-> stops,
      code |-> IF ~halted /\ Exits THEN written[0] ELSE code]

GroupEmu == INSTANCE Emulator WITH arch <- CommittedGroup,
                                   Programs <- UNION {Setups[s].programs : s \in DOMAIN Setups},
                                   InitRegs <- UNION {Setups[s].regs : s \in DOMAIN Setups}

(* A tick commits up to as many of the emulator's instructions as it is wide:  *)
(* the registers, flags, memory, output, PC and exit code that the slots       *)
(* commit are those the emulator computes.  Issuing a group, moving what is     *)
(* left of it up, fusing, forwarding between slots and stages and going on      *)
(* behind a predicted branch do not show.                                     *)
GroupsFollowEmulator ==
  GroupEmu!FoldedInit /\ [][GroupEmu!GroupNext(Machine.width)]_<<prog, CommittedGroup>>

\* s and t can follow each other in the program: t is behind s, or where s branches to.
OnPath(s, t) ==
  \/ t.pc = Follow(prog, Wrap(s.pc + 1))
  \/ s.inst.op \in {"BL", "BEQ", "BCS", "CBZ"} /\ t.pc = Follow(prog, s.inst.imm)
  \/ s.inst.op = "RET"

(* The slots of every stage hold a stretch of a path through the program, from *)
(* the first slot on without a gap, however stalls, flushes, bubbles, taken     *)
(* branches and the moves of what did not issue interleave.                    *)
SlotsInOrder ==
  ~halted => \A stage \in {IFIDs, IDEXs, EXMEMs, MEMWBs} :
    \A k \in Occupied(stage) \ {1} : stage[k - 1].valid /\ OnPath(stage[k - 1], stage[k])

(* Statistics.Instructions counts the instructions of all slots once each, a   *)
(* fused pair as two, whatever stalls hold or replay them, when none takes more *)
(* than a cycle in EX.  A mispredicted branch of slots 2 to 8 does not leave EX  *)
(* and is not counted.                                                        *)
GroupsCountedOnce ==
  (\A op \in Ops : Machine.latency[op] = 1) =>
    executed = retired + CountIn(EXMEMs) + CountIn(MEMWBs)
==========================================================================
