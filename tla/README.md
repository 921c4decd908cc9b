# A TLA+ development of M2Sim

M2Sim is an ARM64 user-mode simulator in Go: a functional emulator that says what a
program computes, and timing models that say in how many cycles an Apple-M2-like core
would compute it. The timing models execute the program themselves (they are not driven
by the emulator), so every forwarding path, stall, flush and cache line is a chance to
compute something else. The question this development asks is therefore, for each part:
*does the machine that counts cycles still compute what the emulator computes?*

Source references are relative to `src/`.

## 1. Inventory

| Component | State it keeps | Operations | Talks to |
|---|---|---|---|
| Decoder `insts/decoder.go` | none | `Decode(word)` | emulator, pipeline |
| Emulator `emu/emulator.go`, `branch.go`, `load_store.go`, `alu.go`, `simd.go` | register file, PSTATE, memory, PC, instruction count | `Step`, `Run`, `LoadProgram` | system calls |
| System calls `emu/syscall.go`, file table `emu/fdtable.go`, `driver/syscall.go` | file table, next descriptor, program break, mmap cursor and regions, output streams | `Handle` (exit, read, write, openat, close, lseek, fstat, brk, mmap, mprotect) | register file, memory, host files |
| Cache `timing/cache/cache.go` over the akita directory | tags, valid, dirty, data, LRU queue | `Read`, `Write`, `Invalidate`, `Flush`, `Reset` | backing store (`backing.go`: memory or a lower cache) |
| Pipeline `timing/pipeline/pipeline.go` with `stages.go`, `hazard.go`, `registers.go`, `cache_stages.go` | pipeline registers IF/ID .. MEM/WB (up to eight slots each), PC, latency counters, pending memory and fetch requests, statistics | `Tick` (one cycle), `Run`, `Reset`, `SetPC` | register file, memory, caches, predictor, system calls |
| Issue rules `superscalar.go` | none | `canDualIssue`, `canIssueWith` | the 2-, 4-, 6- and 8-wide ticks |
| Branch predictor `branch_predictor.go` | bimodal, gshare and choice counters, global history, BTB, statistics | `Predict`, `Update`, `Reset` | fetch (predict), execute (update) |
| Fast timing `fast_timing.go` | registers, pending loads, cycle count | `Tick`, `Run` | memory, latency table |
| Latency table `timing/latency` | configuration | `GetLatency` | pipeline |
| Core `timing/core` | a pipeline | `Tick`, `Run`, `Halted` | command line |
| Loader `loader/elf.go`, commands `cmd/`, benchmarks `benchmarks/` | none | parse, set up, print | everything above |

### How they interact

The simulator is one goroutine; nothing here runs in parallel. What makes it hard is the
*simulated* concurrency. A tick evaluates the stages in the order WB, MEM, EX, ID/IF on
the registers latched at the end of the last tick, and five instructions are in flight
at different stages. A value may be in the register file, in MEM/WB, in EX/MEM, or only
in the D-cache, and each consumer picks one of these. Three independent reasons may hold
a stage (the memory is not done, an operation takes several cycles, the I-cache missed),
and each of them holds a *different* set of registers; what a held stage did in the cycle
before must not be done again, and what it was about to receive must not be lost.
Predictions are made several cycles before the branch is resolved. The system call is
made in MEM, reads and writes the register file behind the back of the forwarding paths,
and reads `emu.Memory` behind the back of the D-cache.

### What makes each part correct

* Cache: a read answers the last value written, whatever was evicted, invalidated or
  written back in between; one copy of a block; a clean line equals its backing block;
  replacement is by recency.
* Pipeline: instruction by instruction it commits the emulator's registers, memory,
  flags, output and exit code; an instruction retires once; a program that ends, ends.
* Branch predictor: it may never change a result (part of the pipeline's property);
  it learns, and its statistics count what was predicted.
* System calls: a descriptor never names two files in turn, the break and the mmap
  cursor never move back, regions handed out do not overlap.

## 2. Modules

| Module | Models | Relation |
|---|---|---|
| `LayeredMemory` | what a client of a write-back cache sees: memory, and a layer of pending writes over it | abstract |
| `CacheOps` | the cache's operations as functions of its state | used by the next two |
| `Cache` | `timing/cache/cache.go` over memory, one action per operation | implements `LayeredMemory` |
| `CacheHierarchy` | a cache over a cache, through `CacheBacking` of `backing.go` | two `CacheOps`; implements `LayeredMemory` |
| `CacheProofs` | theorems about `Cache` | extends `Cache` |
| `HierarchyProofs` | `CacheHierarchy` implements `LayeredMemory` | extends `CacheHierarchy`; two `CacheProofs` |
| `Insts` | representative decoded instructions, registers, flags | used by all down to `MCWideIssue` |
| `Emulator` | `emu/emulator.go` on them, one instruction per step | abstract |
| `SingleIssue` | `Pipeline.tickSingleIssue`, one cycle per step | implements `Emulator` |
| `PipelineProofs` | lemmas about words, registers and `Follow`; theorems about `SingleIssue`: types, retirement | extends `SingleIssue` |
| `PipelineRefinement` | `SingleIssue` and `Restart` implement `Emulator` | extends `Restart`, `PipelineProofs` |
| `MCSingleIssue` | programs and machines for its runs | extends `SingleIssue` |
| `Restart`, `MCRestart` | `Reset` of pipeline and core, between and inside runs | extend `SingleIssue` |
| `DualIssue` | `Pipeline.tickSuperscalar` with `canDualIssue` | extends `SingleIssue` |
| `WideIssue` | `tickQuadIssue`, `tickSextupleIssue`, `tickOctupleIssue` with `canIssueWith`, and `Tick` | extends `DualIssue`; implements `Emulator`, a group per step |
| `MCWideIssue` | programs and machines of each width | extends `WideIssue`, `MCSingleIssue` |
| `WideIssueProofs` | theorems about `WideIssue`: program order, retirement, types of the two-wide machine | extends `WideIssue`, `PipelineProofs` |
| `Words` | 64-bit words exactly, memory in bytes | used by the next six |
| `Decoder` | `insts/decoder.go`, from words to instructions | used by `VectorUnit` |
| `VectorUnit` | `emu/simd.go`, `simd_regfile.go`: lane loops | used by `InstructionSet` |
| `InstructionSet` | `emu/` on the whole instruction set | the emulator of the next three |
| `FastTiming` | `fast_timing.go`, an executor of its own | extends `InstructionSet` |
| `Stages` | `stages.go` on one instruction alone, and the fused compare and branch | extends `InstructionSet` |
| `Simulators`, `MCSimulators` | the executors side by side, and the words they run | extend `FastTiming` and `Stages` |
| `SimulatorsProofs` | theorems about `Simulators`: decoding, conditions, fused pairs, 32-bit results, vector lanes, the stages and fast timing against the emulator | extends `Simulators` |
| `SystemCalls` | `emu/syscall.go` with `emu/fdtable.go`, one action per call | stands alone |
| `SystemCallProofs` | theorems about `SystemCalls` | extends `SystemCalls` |
| `BranchPredictor` | `branch_predictor.go`, with the pipeline as its client | stands alone; the pipelines let a prediction be any of its answers |
| `MCBranchPredictor` | branches for the run | extends `BranchPredictor` |
| `PredictorProofs` | theorems about `BranchPredictor` | extends `BranchPredictor` |

There are two levels. `Insts` has one instruction per *way of using* the machine and small
numbers, so that whole programs, predictions and stalls can be enumerated. `InstructionSet`
has every instruction with its real encoding and width, and enumerates single instructions
on corner values.

### Cache

State: `lines` (tag, valid, dirty and data per set and way), `queue` (the LRU order per
set) and `mem` (the backing store), in one record `CacheState` of `CacheOps`. Each action of `Cache` is one method with
everything it calls: `DoRead` and `DoWrite` are the hit path or the whole of `handleMiss`
(victim, write-back of a dirty victim, fetch, fill, merge of the store, LRU visit).
`extractData` answers zero and `storeData` drops the bytes when an access crosses the end
of its block, and so do the operators. The akita directory is not part of the repository;
`HasBlock`, `WayOf`, `Victim` and `Visited` are modelled from how it is used, and marked
external. Statistics are left out. A block is a sequence of bytes; a byte is a member of a
set, its arithmetic does not matter.

`LayeredMemory` has two arrays, what the client reads and what is below, and `op`, the
operation asked for with its arguments; a step is one of that operation. A read or a write
may move blocks down on the way, a flush moves all of them, and only `invalidate` and `reset`
take what the client sees back to what is below. `Cache` and `CacheHierarchy` record the same
`op`, so a flush that forgot its write-backs could not pass for a reset. The refinement mapping is the cached copy of a block where there is one and the
backing store elsewhere.

`CacheHierarchy` puts one `CacheOps` on another. `BackingRead` and `BackingWrite` are
`CacheBacking.Read` and `Write`: a block moves in chunks (8 bytes in the code,
`ChunkSize` here), and every chunk is a `Read` or `Write` of the lower cache that may hit,
miss and evict there. The client uses the upper cache; `Flush` may be called on the lower
one alone. What it implements is `LayeredMemory` again, over `Below`, what the lower cache
would answer: so hierarchies of any depth compose. Latencies are left out: `CacheBacking`
drops the latency of the lower access, and the upper cache charges its own `MissLatency`
whether the level below hit or missed. `Invalidate` and `Reset` of a lower cache under a
live upper one are not modelled; nothing in `src/` calls them.

### Emulator and single-issue pipeline

Instructions are decoded records with one representative per *way an instruction uses
registers, flags, memory and the PC*: register and immediate arithmetic, compares of both
forms, multiply-add, load, post-indexed load, store, pair load and store, branch,
conditional branch on Z and on C, compare-and-branch, call, return, system call. Words are
modulo `Modulus`, memory is one word per address, the PC counts instructions. The
arithmetic of the other operations is not something the pipeline's control can tell apart.

`SingleIssue!Tick` is `tickSingleIssue` as a whole. Its operators follow the stages:
`WritebackSlot`, `Access` (the plain two-tick access, or `CachedMemoryStage`), `NextMEMWB`,
`CyclesLeft`, `Executed`, `Mispredicted`, `Fetch`, `Decoded`, and the hazard unit's
`DetectForwardForReg`, `GetForwardedValue`, `LoadUse`. Three things are free choices of a
tick: the prediction (`Guesses`: anything the tables could say, after early resolution and
target enrichment), hit or miss of the I-cache, and latency (`AccessLatencies`: a hit, a hit
that waits for the store before it, a miss) and write-back of the D-cache.
So the result holds for any predictor and any cache contents. The D-cache is the layered
memory `Cache` is shown to implement: `view` above, `mem` below.

The options of `NewPipeline` and what is loaded are a *setup*; one run covers several. A
branch `B` is eliminated at fetch and never reaches the pipeline registers, so the pipeline
is compared with the emulator with each `B` folded into the step before it
(`Emulator!FoldedSpec`). The refinement mapping `Committed` is the architectural state once
the instructions in EX/MEM and MEM/WB are done: they are past the last point where they can
be cancelled, so this is the state after all instructions that have left EX, and its PC is
that of the oldest instruction that has not.

`Restart` adds `Pipeline.Reset` (`Core.Reset`) at any cycle. As in the code
(`pipeline.go:4111-4170`) it empties the pipeline registers and the stages of ports 2 and 3
but not those of the first port: its pending I-cache request and the store it issued last
survive, so does the exit code, and registers, flags and memory keep whatever part of the
in-flight instructions had reached them.

### Issuing several instructions together

`DualIssue!DualCycle` is `tickSuperscalar` as a whole, over the registers of `SingleIssue`
and a second set (`ifid2` .. `memwb2`, `exLatency2`). `CanDualIssue` is the issue rule,
`Operand1`, `Operand2` and `ForwardFromAllSlots` the forwarding of each slot, `Placed` and
`MovesUp` the fetch of two instructions and the case where the second was not issued.

`WideIssue!WideCycle` is a tick of the four-, six- and eight-wide machines. The code has
three long functions, each with every slot written out (`pipeline.go:1621-2560`,
`2815-4060`, `4218-6715`); the model has the slots as an index, `Machine.width`, and says
where the three differ:

| | four-wide | six-wide | eight-wide |
|---|---|---|---|
| first memory port (`FirstPort`) | two ticks | two ticks | at once |
| load in ID/EX delays its consumer (`LoadUses`) | slots 1 to 3 | slot 1 | no; what is loaded in this tick is forwarded to slot 1 (`ForwardFromNextMEMWB`) |
| branches compared with their prediction (`Resolves`) | slot 1 | slot 1 | every slot; nothing issues behind a branch (`Joins`, `LeavesPath`) |
| addend of MADD forwarded (`AddendFile`) | no | no | yes |
| compare and branch fused (`Fuses`) | no | yes | yes |

A tick goes through the slots in order, since each passes something on: `WrittenUpTo` the
register file, `AccessAll` the memory, `ExecutedUpTo` the results of the group, the flags
and whether a slot found a wrong prediction; `IssueCount` is how far `CanIssueWith` lets the
fetched instructions go together; what is left moves up and is predicted again
(`PredictedAgain`, `Moved`), and fetch fills the rest through taken branches (`Filled`).
One predictor answers all questions of a tick. `MaxExecuted` counts instructions past EX.

`Hazards2` and `WideHazards` name, as `Hazards` does for one slot, the conditions under
which an operand is not what the program says. The committed state is again everything past
EX, slot by slot, and a tick is up to as many steps of the emulator as the machine is wide
(`Emulator!GroupNext`). The machines have no D-cache; `IssueTick` is `Pipeline.Tick` over
the four of them. In the repository only the timing harness selects them
(`benchmarks/timing_harness.go:249-255`).

### Instruction set, fast timing and stages

`Words` represents a word as the set of its one bits, so 64-bit values are exact and `AND`,
`OR`, `EOR` are set operations. `Decoder` has each class of `insts/decoder.go` as a test and
a decoding, in the order of `DecodeInto`. `InstructionSet!Step` is `Emulator.Step`: fetch,
decode, execute, instruction limit, unknown instructions, exit. `FastTiming!Tick` is one
`Tick` of the fast timing mode, with its `executeInstruction`; `Stages!Through` is what
`DecodeStage`, `ExecuteStage`, `MemoryStage` and `WritebackStage` make of one instruction
that has the pipeline for itself. These are three implementations of one instruction set.
`Simulators` runs each from the same states, and `FastDiffers` and `StagesDiffer` name every
way in which two of them differ; away from those they agree in registers, flags, memory and
PC. The names are the specification of *what timing runs may not use*: for the stages among
others CBZ/TBZ (never taken), conditional select and compare, divides, variable shifts,
immediate logical operations, and everything on vector registers; for fast timing shifted
operands, SP in immediate arithmetic and as a base, and post-indexed pairs. That the lists are
complete is proved for every program (`StagesAreTheEmulator`, `FastTimingIsTheEmulator`).

Some things the words showed about the decoder itself, kept as the code has them: LDR and STR
of a D or S register move 128 bits (`decoder.go:669-712`); `isSIMDCopy` requires bit 30, so
a DUP to a D register is not decoded; an integer VADD with size 3 and Q = 0 works on sixteen
bytes; the offset of an unscaled access (LDUR) is decoded into a field no executor reads for
that form.

### System calls

State: the descriptor table (`fds`, `nextFD`), the program break, the mmap cursor and the
regions, register X0 after the call, and the two facts about the host that matter: how many
files it has opened and which of them are not closed (`opened`, `live`). Each action is one
`handle...` with the `FDTable` method it calls. The host's part (does a file open, does a
close, read, write, seek or stat succeed) is a free choice, `HostAnswers`, marked external;
on a file that is gone it can only fail. Buffers, paths, offsets and stat records are left
out: a read or write moves 0 or 1 units.

Kept as the code has them: read on 0 and write on 1 and 2 go past the table, so they work
after `close`; a failing host close leaves the entry open over a file that is gone; lengths
are rounded and the cursor advanced modulo the word; `MAP_FIXED` regions and the break are
not compared with anything. `FDTable` has a mutex, but the simulator has one goroutine.

### Branch predictor

Numbers are sets of bit positions, so an index mask is an intersection and the XOR of gshare
a symmetric difference, at any width. `Update` is the whole method. Around it is the client
it has in the pipeline: `Predict` queues the branch fetched, `Resolve` executes the oldest,
trains the tables and flushes the others on a wrong prediction; a branch resolved at fetch
(`early`) does not flush, and a branch held in EX by a fetch stall (`held`) executes again
and trains again, as `pipeline.go:712-765` does. `scored`, `streak` and `lastTarget` are
auxiliary: what the statistics were told, the current run of equal outcomes, and where each
branch last went.

## 3. Runs

| Run | Question | Bounds |
|---|---|---|
| `cache_hierarchy` | A cache over a cache; alignment, size, block crossing | one line of two bytes over another, two blocks, chunks of a byte |
| `cache_ways` | Eviction, LRU, one copy, clean is backed, refinement | two ways, three blocks |
| `pipeline_results` | Same results as the emulator, no caches, any prediction | all programs of 3 or 4 instructions over 8, 9 and 8 instructions |
| `pipeline_caches` | Same with I- and D-cache, and again after a `Reset` at any cycle; nothing retires twice | all programs of 3 instructions, loops included, 9 executed, one reset |
| `multi_issue` | Same results two, four, six and eight at a time; the slots of every stage stay in program order; each instruction counts once | all programs of 5 sums, loads and stores; of 4 data instructions; of 3 or 4 compares and branches under every prediction; of calls and returns; of 3 under the default latencies; of 3 behind an I-cache (two-wide); 256 of 8 instructions that fill six and eight slots; 12 executed |
| `pipeline_halts` | Stalls never hold each other up for ever | all loop-free programs of 3 instructions |
| `simulators` | Do fast timing, the stages and the fused compare and branch do what the emulator does; do conditions, 32-bit results and vector lanes mean what they should; are encoding classes disjoint | every form of every instruction from its encoding, and the unallocated 32-bit words the decoder accepts, on registers at the corners of both widths; two instructions per program |
| `system_calls` | Descriptors, host files and mappings under any sequence of calls | two opened files, two regions, a word of 8 pages |
| `branch_predictor` | Learning, targets and statistics, tournament on and off | two branches that share every entry, two in flight, history of 2 bits |
| `forwarding_lost`, `retired_twice`, `store_skipped` | Three places where the code does not do what its comments say | one program each |

*Why the bounds are enough.* The pipeline holds four instructions past fetch, forwarding
looks back two, the longest dependence (producer, instruction that stalls the memory,
consumer) is three; programs of three or four instructions followed by the exit call, over
sets where every instruction can feed every other, contain each arrangement. Three
instructions with backward branches give each of them several times in flight (nine
executed: `MaxExecuted`). For the cache, two ways make the choice of victim matter, three
blocks make every block evictable, and there is no interaction between sets: everything
that happens in one set happens with `NumSets = 1`. The proofs cover every geometry. Over
another cache, one line each is the hardest case: every upper miss writes its victim through
a line that the fill then needs, and a chunk of one byte makes each block two accesses below.

The two-wide pipeline looks back at four instructions (two stages of two slots) and issues
two, so five dependent instructions contain every arrangement of producers and consumer;
sums, a load and a store are the kinds `canDualIssue` tells apart, and the other programs
add pairs, indexed accesses, flags, calls and multi-cycle operations. The wide machines run
the same programs (the six-wide one those of three, since its control is the four-wide
one's with more slots and fusion): a group of four or five of them already meets every
rule of `canIssueWith` but its port limits. The programs of eight meet those: three memory
accesses, two stores, four writers, and branches in any slot behind them. Programs start at
the first slot, and branches move their targets there, so an instruction is met in every
slot of a group. Ten addresses leave two behind the longest program.

An instruction alone is a function of its word and the state it starts in: `simulators`
has at least one word per encoding form and width, with destinations that are also sources,
register 31 in each place, shift amounts 0 and nonzero, and registers at 0, 1, the sign bits
of both widths and all ones. `FloatLane`, the arithmetic of a floating-point lane, stays a
constant: the run uses an injective stand-in, which shows the routing of the lanes only.

Two opened files are enough for sharing, since the properties of the
table relate two descriptors; 15 bytes in a word of 16 make the cursor wrap, 3 bytes in
pages of 2 make rounding matter. In the predictor run the two PCs differ only in a bit both
masks cut off: counters and BTB entry are shared, and the history still selects between two
gshare counters. The bounds `MaxFD`, `MaxRegions` and `MaxInFlight` stop calls and fetches
that would go past them; the proofs hold for all of them.

*Deadlock* is not checked where the program ends: the pipelines' runs, `simulators` and
`system_calls`.

### Operands the pipeline does not deliver

Writing the model down showed instructions whose operand is *not* what program order says.
They are named in `SingleIssue!Hazards`, each as a condition on the latched registers, and a
run says in `Avoid` which of them its behaviours stop short of. `ImplementsEmulator` then says: *these are all*. Leaving
any name out of `Avoid` makes TLC produce the program that meets it.

| Name | What happens | Source (`timing/pipeline/`) |
|---|---|---|
| lost in MEM/WB | a memory or fetch stall empties MEM/WB and holds ID/EX with the register value read at decode; the forwarding source is gone when the stall ends (run `forwarding_lost`) | `pipeline.go:915-928` |
| call result | X0 set by a call in MEM is not forwarded to the instruction behind it | `pipeline.go:617-627` |
| call repeated | EX/MEM is held (fetch stall, multi-cycle operation) with the call in it: handled again every cycle | `pipeline.go:617`, `922` |
| addend | the addend of MADD is read in EX without forwarding; with XZR as addend (MUL) Rm is added | `stages.go:373-380` |
| load use | a loaded register used by an instruction the load-use test does not look at: the data of STP, STRB, STRH and the Rm of MADD | `pipeline.go:559-606` |
| pair register | a pair load into one register twice is forwarded as its first word; with XZR as its first register the second is not written | `hazard.go:56-133`, `stages.go:846-885` |
| loaded base | a post-indexed load into its own base: the emulator leaves the base, the write-back stage the loaded word | `stages.go:846-914` |
| base | the written-back base of an indexed access is not a forwarding source | `hazard.go:56-133` |
| compare and branch | CBZ, CBNZ, TBZ, TBNZ are no branches to `isBranchInst` and have no case in the execute stage: they do nothing, but a taken prediction is followed | `stages.go:145-153` |
| carry | an immediate compare takes its carry from Rm, for an immediate X0 | `stages.go:250` |
| return to 0 | a taken prediction without a target carries target 0 and is found right when the return goes to 0 | `pipeline.go:713-752` |
| pair | with a D-cache the primary port stores and loads one register of a pair | `cache_stages.go:118-206` |
| store skipped | the guard against a replayed store also skips the next execution of the same store to the same address (run `store_skipped`) | `cache_stages.go:193-198` |
| call memory | a call reads `emu.Memory`; a dirty line in the D-cache is not seen | `pipeline.go:617`, `emu/syscall.go:245` |

The two-wide pipeline (`DualIssue!Hazards2`) has most of these too, in either slot, and its
own:

| Name | What happens | Source (`pipeline.go`) |
|---|---|---|
| older over newer | for the first slot the second slot's older MEM/WB value is taken over the first slot's younger EX/MEM value; for the second slot and for store data the first slot's MEM/WB comes over the second's younger one | `1069-1091`, `1241-1282` |
| load use | no bubble behind a load in the second slot, nor for the registers the test leaves out; the consumer gets the address | `1307-1330` |
| slot 2 load | in MEM/WB, the second slot forwards its ALU result, which for a load is the address, and a pair's second word is not forwarded at all | `1076-1083`, `1249` |
| slot 2 store | a store in the second slot stores its Rm, which the decoder leaves at X0, and not Rd; the comment on `canDualIssue` (`superscalar.go:153-156`) speaks of Inst.Rd | `1284-1292` |
| store data | what a store in the first slot stores may have been computed in the second slot, which is not a source | `1115-1129` |
| load behind store | the second port answers while the first waits: the younger store is done before the older load reads | `1005-1024` |
| slot lost | a second instruction that needs more than one cycle is dropped when the first moves on | `1230-1238` |
| addend | as above, and also in the multiply-accumulate chain that `superscalar.go:172` lets issue because of a forwarding that `tickSuperscalar` does not have | `1241-1284` |
| flags | of two compares in one pair, the branch tests the first | `1093-1110` |
| branch to 0 | as "return to 0" for any branch the second slot predicts without a target | `1430-1560` |

The wider machines have these in their slots, as the comments in `WideIssue!SlotHazards`
say, and others:

| Name | What happens | Source (`pipeline.go`) |
|---|---|---|
| secondary branch | four- and six-wide: a conditional branch may issue behind the first slot (`superscalar.go:1013`), where it is executed but not compared with its prediction: a wrong one is never corrected | `1997-2017`, `3263-3283` |
| slot lost | an instruction behind the first slot that needs more than a cycle is dropped when the first moves on | `2021-2030`, `4873-4885` |
| load behind store | the other ports do not wait for the first, and an execution stall has MEM done twice | `1703-1737`, `4253-4330` |
| fused operand | a fused compare has the operands read at decode, nothing is forwarded to it | `6080-6116` |
| fused flags | the flags of a fused compare are not written; a later branch tests older ones | `stages.go:308-320` |
| predicted again | what did not issue is predicted again; if it is now not taken, what was fetched behind it is of the other path | `6448-6513` |
| behind the exit | what issues with the exit sets flags, and stores, before the machine halts | `4232-4253` |

Two of the first table, each contradicting a comment at the code, are findings with a run; a third is
`retired_twice`: an execution stall keeps EX/MEM and still copies it to MEM/WB, so the
instruction before a multiply is counted once per cycle of the multiply.

## 4. Fairness

`FairSpec` asks for weak fairness of `Tick` and nothing else. `Pipeline.Run`
(`pipeline.go:452`) is `for !p.halted { p.Tick() }` on one goroutine: the next tick is
always taken while the machine is not halted, which is what `WF_vars(Tick)` says. No
fairness is asked of hits, predictions or latencies: `Halts` holds if every request misses.

## 5. Proofs

`CacheProofs`, for every number of sets, ways, blocks, bytes and byte values
(assumption `GeometryAssumption`: all positive, a zero byte):

* `TypeCorrect`, `OneCopyAlways`, `CleanIsBackedAlways`: `Spec => []...`.
* `FreshestSurvive`: `Spec => []SurvivorsAreFresher`.
* `Refinement`: `Spec => ImplementsLayeredMemory`, each operation a step of the one with its
  name: `Flush` an `MFlush`, and so on.

The invariant is `Good`, the conjunction of the type, that a valid line is in its block's
own set and a block in one way only, that a clean line equals its backing block, and that
each queue is a permutation of the ways. None is inductive alone: a fill keeps
`CleanIsBacked` only because the victim is the one line of its block, `Victim` is defined
only when the queue has all ways, and the refinement mapping (which picks *the* way that
holds a block) is only a function of the state under `OneCopy`. The proofs go by operation:
a lemma says what each of `handleMiss`, the hit paths, `Dropped`, `AllDropped` and `Reset`
leaves in the lines, the queue and the backing store; from it one step per conjunct of
`Good`, and one step for the mapped arrays of `LayeredMemory`.

`FreshestSurvive` is about the auxiliary `order`, the pairs of blocks touched since either
was last dropped, the earlier one first. `Fresh` joins what makes it inductive: the places
in the queue of a set agree with `order`, and a block that was touched and is no longer
cached comes before every cached one of its set. A miss keeps it because the victim is the
way in the last place.

`HierarchyProofs`, for every geometry of two caches and every chunk size (`GeometryAssumption`,
`HierarchyAssumption`):

* `HierarchyRefinement`: `HierarchySpec => HierarchyIsLayered`, if `ChunksFit`.

`ChunksFit` says that a chunk of a block lies in one block of the lower cache. The code does not
check it, and without it the theorem is false: an access that crosses the end of its block reads
zeros and drops its bytes. It holds whenever the chunk divides both block sizes
(`WholeChunksFit`), as the 8 bytes of `CacheBacking` divide the 64 and 128 of every configuration
in the repository, and one byte divides the two of the run.

The invariant `HierarchyGood` is `Good` twice: for the lower cache over its memory and for the
upper one over `Below`, what the lower cache shows. The lemmas of `CacheProofs` are taken for each
of the two by `INSTANCE`. `ChunkReadEffect` and `ChunkWriteEffect` say what one chunk
does to `Below`, with the arithmetic of addresses (`Place`, `ChunkPlace`: from the place of a byte
in the lower cache its block and offset in the upper one follow); `BackingReadEffect`
and `BackingWriteEffect` carry that through all chunks of a block, `UpperFlushEffect` through all
lines. They are folds, whose recursive function has to be shown to exist before anything follows
from it (`FoldExists`, `FoldTrace`). What a miss gets from below is one block, and the model
gives it to the upper cache as a memory with that block everywhere; `MissOver` shows that a miss asks for
no other, since the victim is never the block that missed.

`PipelineProofs`, for every machine of `SingleIssue` (any latencies, caches, programs,
number of registers and word size; `PipelineAssumption`, `WordAssumption`):

* `TypeCorrect`: `Spec => []TypeOK`, by the invariant `Typed`, which adds the predictions, the
  captured operands and the ports to what `TypeOK` says. There is one lemma for what each
  stage computes.
* `CountsOnce`: `Spec => [](InOneCycle => RetireAccounting)`, by the invariant that EX is
  never left busy. Without `InOneCycle` the code counts twice (`retired_twice`).
* `NoneUncounted`: without that condition, what left EX is at most what is counted or
  still to be counted.

`PipelineRefinement`, for the same machines, on the assumption `HazardNames \subseteq Avoid`, that
the behaviour stops short of the named operands of section 3 (all of them are met by some
program, so without it the theorems are false, and TLC shows it name by name):

* `PipelineImplementsEmulator`: `Spec => ImplementsEmulator`.
* `ResetStartsAfresh`: `RestartSpec => RunsAfresh`.

The invariant `PipeInv` says what the pipeline registers have to do with the program:

| Part | Says | Needed because |
|---|---|---|
| `Path` | each register holds the instruction of the program at its PC with a prediction that could be made there, and the next younger one is where that prediction leads, `B`s skipped | an instruction that was predicted right is followed by the one the emulator executes next |
| `Captures` | an operand read at decode is still the register's, unless a younger producer is in EX/MEM or MEM/WB | forwarding then gives the value of program order (`OperandDelivered`, `StoreDelivered`) |
| `FlagsKnown` | `fl` is what the last executed compare left, or EX is held with the one that has set it | a branch tests the flags of program order, and a compare held in EX commits nothing |
| `MemoryKnown` | without a D-cache `mem` is the view; a pending load has the word it waits for | an access that is answered late is the access that was asked for (`Answered`) |
| `Behind`, `NotExited` | no load in EX/MEM or MEM/WB writes one register twice; the exit call never reaches MEM/WB of a running machine | write-back commutes with itself when replayed; the exit PC is that of the call |

Every tick has one of two shapes (`TickShape`): EX is held, or every stage goes on, with a
flush, a bubble or a fetch in front. A held tick commits nothing, however often it is
repeated, because writing back and storing twice is the same as once (`HoldStutters`); so
does a bubble, and the tick of the exit call. An instruction that leaves EX is one step of
the emulator (`ExecSteps`): `ExecutesAlike` compares what EX and MEM make of each operation
with `Emulator!Execute`, `ExecGoesTo` where fetch is with `Emulator!NextPC`. The proof found
three places where the model was wrong and TLC's programs could not see it: a compare in EX
of a held tick had already changed the committed flags, and the names `pair register` and
`loaded base` were missing. Every width needs these two: `OddPrograms` of `MCWideIssue` has
programs on which `GroupsFollowEmulator` fails without them.

`PipelineProofs` has what this needs about `Follow`, the end of a chain of `B`s, defined by a
recursive function: one `B` in front of a chain does not change its end (`FollowStep`), by
induction on the number of hops. The induction is done by hand from well-foundedness
(`Upwards`), since the library's theorem cannot be instantiated.

`WideIssueProofs`, for every width, latency, I-cache, program, number of registers and word size:

* `AlwaysArranged`: `IssueSpec => []Arranged`. Every slot holds the instruction of the program at
  its PC; the slots of the wide machines are sequences of eight, those of IF/ID end in what leads
  to the PC, and the first `Machine.width` of them are the only ones used.
* `AlwaysInOrder`: `IssueSpec => []SlotsInOrder`, if `"slot lost" \in Avoid`. The invariant is
  `Arranged` with `Ordered`: in each stage the valid slots come first and each is where a
  prediction of the one before it could lead, `B`s skipped. This alone is not inductive. Fetch goes
  on behind the *last* slot, so the PC has to be one that slot leads to (`LastLeads`,
  `PairLeads`), and to follow a `B` the PC has to be a word, which for the two-wide machine
  takes the types of everything a misprediction may write into it. The hypothesis is needed: an
  instruction of slots 2 to 8 that needs another cycle is gone from EX while those
  behind it go on (`pipeline.go:2023-2031` and the like).
* `TwoWideInOrder`: without the hypothesis, for two slots.
* `AlwaysCountedOnce`: `IssueSpec => []GroupsCountedOnce`, by the invariant `GroupCounted` that,
  where every operation takes one cycle, no slot of EX is left busy (`NoneBusy`). A held group
  is then counted when it goes on and never before, and each slot counts a fused pair as two.
* `TwoWideTypeCorrect`: `IssueSpec => [](Machine.width = 2 => TypedPair)`, for the two slots what
  `Typed` says for one, with the captured operands and the results forwarded from one slot to
  the other.

There is one lemma for what a stage of eight slots becomes (`WideCycleStages`), and the order
of a stage is carried to the next one by `SameOrder`: what has the PCs of an ordered stage, slot
by slot, and leaves no gap is ordered.

`SystemCallProofs`, for every word and page size with `Word % Page = 0`:

* `TypeCorrect`, `HandlesAlwaysOwned`, `ChosenAlwaysApart`: `Spec => []...`, and
  `NeverReused`: the action property `DescriptorsNeverReused`.

`HandlesOwned` needs that every host file in the table is one of the first `opened`, so that
a file just opened is not in the table yet: that is the strengthening in `FilesInv`.
`SpaceInv` joins the type with `ChosenApart`: each region ends at or below the cursor, which
makes the next one start above all of them; it needs that rounding up gives a multiple of
the page not below the length, the one place where arithmetic on `%` and `\div` is done.

`PredictorProofs`, for every table size, history length and set of branches
(`PredictorAssumption`):

* `TypeCorrect`, `TargetsAreLast`, `PredictionsCounted`: by `TypeOK` with the property, for
  the last one with `FreshIsCurrent` (a prediction in flight that no training came after is
  still the one the tables make; of one that another branch's training came after nothing is said).
* `Learns`: the invariant `LearnInv` says what `n` equal outcomes in a row leave behind,
  whatever the state before: the `n` lowest bits of the history, `n` steps of the bimodal
  counter, and from the moment the history is full, `n - HistoryLength` steps of the one
  gshare counter it then selects. After `HistoryLength + 2` both counters are past the
  middle, so the choice counter does not matter.

`SimulatorsProofs`, for every program, register file and word of 64 bits (the assumptions
`RegisterAssumption` and `SetupAssumption` say that a run starts with a PC and registers
of 64 bits, four flags and the 32 vector registers of 128; `ProgramAssumption`, that `RegNums`
has the general registers the programs name, as the register file of the code has all):

* `DecodingIsUnambiguous`: `SimSpec => []ClassesAreDisjoint`. `Fixed` is what the test of a
  class says bit by bit (`Patterns`), for which the number a field stands for is taken apart
  (`FieldDigits`); two patterns that could both hold would need a bit to be both (`OneClass`).
* `ConditionsStandForComparisons`: `SimSpec => ConditionsMeanComparisons`. `SubBits` is
  subtraction with its borrow, bit by bit; the borrow out of the highest bit is the unsigned
  comparison, and with the two signs gives the signed one, from which C, V, N and Z after a
  compare (`FlagsAfterCompare`), and from these each condition (`ConditionsOfFlags`).
* `FusedPairIsTheTwo`: `SimSpec => FusedPairFollowsEmulator`. Besides the flags this needs that
  PC + 4 + 4 + offset is PC + 8 + offset as words wrap (`TwoSteps`): a carry passes through the
  same bits in whichever order the numbers are added.
* `NoStaleUpperHalf`: `SimSpec => UpperHalfIsCleared`, by what each operation makes of
  its operands (`WordsOf32`, `ResultIsHeld`); for a division, by induction on its steps.
* `StagesAreTheEmulator`: `SimSpec => StagesFollowEmulator`. A state is taken apart into what
  the two sides write (`Put`), a decoded instruction into what its format says of its fields
  (`IsDecoded`); then the formats one by one: arithmetic and logic (`ImmediatesAgree`,
  `RegistersAgree`, `ResultsAgree`), moves, bit fields, products, addresses, branches, and loads and
  stores (`StoresAgree`, `LoadsAgree`, `PairLoadsAgree`). The emulator writes the destination
  and then the base register, the stages the base first: `BaseCommutes` says
  when that is the same. `NoDifference` reads off the names of `StagesDiffer` what each
  format may rely on, so a name missing there is a proof that fails.
* `LanesDoNotInterfere`: `SimSpec => VectorLanesAreIndependent`, for every arrangement, choice of
  registers and contents. `NextLane` is one turn of the loop: lane `m` is read from registers
  that differ from the old ones only below it (`SameLane`), so it is computed as if nothing had
  been written, also when the destination is a source; `LoopIs` is the whole loop, by
  induction on the lanes. On the other side `LaneCarry` shows that with the top bit of
  each lane cut off, a carry or borrow starts in the lane it reaches (`OneLane`, `TogetherBits`),
  and `SumOfLanes` puts the two halves of the register together. The invariant `VectorsHold`
  says that the vector registers stay words of 128 bits.
* `FastTimingIsTheEmulator`: `SimSpec => FastTimingFollowsEmulator`. Fast timing keeps 64 bits of
  what the emulator cuts to 32, so the two are compared by the lower halves of a 32-bit
  result. The lemmas say what the lower half of a result depends on: a carry
  into a position comes from those below it (`CarryBelow`, `LowOfSum`), a product is a sum of
  shifted words (`SumsAre`, `LowOfProduct`, by induction on the bits of the multiplier), and
  logic, shifts and fields in the same way (`LowOfLogic`, `FieldsTaken`). `NoFastDifference` reads
  the names of `FastDiffers` for each format, and the operations follow one by one
  (`SumsFollow` to `SystemCallsFollow`). The invariant `FastRuns` says that registers stay words,
  also the halves fast timing lets stand.

They rest on the invariants `EmulatorRuns`, `FusedRuns`, `StagesRun` and `FastRuns`: registers hold words, and what is
executed is in one of the decoder's formats with an operation that format has (`DecodedForms`,
`DecodedOperations`). The proofs showed three things the corner words of the run had missed, and the
properties now name them: a fused compare that names SP reads it as XZR (`stages.go:81-82`)
while the emulator subtracts from SP; a 32-bit MOVZ by 32 or 48 places, an
encoding the architecture does not have, puts its immediate into the upper half (`emulator.go:952-955`); and an
indexed load into its own base leaves the 64-bit address there.

A fourth came of the comparison of the stages with the emulator: an indexed LDP into its own base
(`LoadsBase`), after which the emulator has the address in the register (`emulator.go` writes the
base last) and the stages the loaded word (`performBaseWriteback` comes first). The run now has
such a word.

A fifth came of fast timing: the decoder takes 32-bit UBFM and SBFM whose fields lie beyond bit 31,
encodings the architecture leaves unallocated (`decoder.go` does not test bit 5 of immr and
imms). The emulator cuts the operand to 32 bits first and fast timing does not, so they
can differ when the upper half of the register is not zero. The stages differ from both: they
rotate the 32-bit operand right by immr and mask it (`stages.go:447-464`), so when imms is
beyond bit 31 and immr is not 0 the bits that come round at the top stay in the result, where
the emulator's shift leaves zeros. Both differences have their name (`a 32-bit field beyond
bit 31`), and the run has such words (`UnallocatedWords`), with the other 32-bit operations that
shift by more than 31. For all other fields `FieldsRotate` shows that the rotated word, masked,
is the field shifted down.

Only model-checked: that the groups of the wide pipelines follow the emulator
(`GroupsFollowEmulator`: its invariant has to say, for up to eight instructions in each of three
stages, which of them the registers already hold), and `Halts` (liveness is out of the prover's
reach).

## 6. Not modelled

* Several instructions at a time with a D-cache; the four-, six- and eight-wide ticks with an
  I-cache. There the code advances the PC with every slot it fills and, when a later slot of
  the same tick misses, puts IF/ID back without the PC (`pipeline.go:2502-2524`,
  `6590-6625`), so the instructions fetched before the miss are skipped: every
  miss that is not the first fetch of its tick would have to be avoided.
* Superscalar statistics; a mispredicted branch in slots 2 to 8 of the
  eight-wide tick retires uncounted (`GroupsCountedOnce` counts what leaves EX).
* Data read and written by system calls other than the write of the pipeline's runs.
* Floating-point arithmetic of a lane.
* Latencies of the cache hierarchy; the lower cache's own Invalidate and Reset.
* `LoadProgram`, options and set-up. ELF loading, command lines, benchmarks, configuration
  files: I/O around the above.
* Statistics other than the number of retired instructions and the predictor's.

## 7. Plan

1. Done: cache and cache hierarchy with proofs; emulator, single-issue
   pipeline with restart, and the two- to eight-wide ones; the instruction set with its decoder and the three
   executors, with proofs of the stages, the fused pair and fast timing; system calls and branch
   predictor with proofs.
2. Done: `SingleIssue` and `Restart` implement the emulator; program order and retirement of
   `WideIssue`. Next, `GroupsFollowEmulator`: for the two-wide machine, from its types and its order,
   that a pair that may issue together has what it needs (`CanDualIssue`), then for the others.
