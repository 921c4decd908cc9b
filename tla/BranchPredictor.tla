------------------------- MODULE BranchPredictor -------------------------
(***************************************************************************)
(* timing/pipeline/branch_predictor.go: the tournament predictor, trained   *)
(* by the branches of the in-order pipeline.  A prediction is made at fetch *)
(* and used for training when the branch executes, several fetches later.   *)
(*                                                                         *)
(* A number is the set of the positions of its 1 bits: masking is           *)
(* intersection, XOR the symmetric difference.  A PC is pc >> 2.            *)
(***************************************************************************)
EXTENDS Integers, Sequences

CONSTANTS
  IndexBits,      \* BHTSize is 2^IndexBits
  BTBBits,        \* BTBSize is 2^BTBBits
  HistoryLength,  \* GlobalHistoryLength
  PCs,            \* the PCs of the branches
  Targets,        \* the addresses branches go to
  MaxInFlight     \* branches between fetch and execute

ASSUME PredictorAssumption ==
  /\ IndexBits \in Nat /\ BTBBits \in Nat /\ HistoryLength \in Nat
  /\ PCs \subseteq SUBSET Nat
  /\ MaxInFlight \in Nat

IndexMask == 0 .. IndexBits - 1
BTBMask == 0 .. BTBBits - 1
HistoryMask == 0 .. HistoryLength - 1
Counter == 0 .. 3
Table == [SUBSET IndexMask -> Counter]

VARIABLES
  useTournament,
  bimodal, gshare, choice,   \* the counters
  globalHistory,
  btb,        \* index -> the entry, NoEntry when btbValid is false
  inflight,   \* branches fetched and not executed: their prediction, and whether
              \* the predictor has been trained since it was made
  scored,     \* auxiliary: what the last Update added to the statistics
  streak,     \* auxiliary: the last branches trained with one PC and outcome
  lastTarget  \* auxiliary: where the branch at a PC went when last taken

tables == <<bimodal, gshare, choice, globalHistory, btb>>
vars == <<useTournament, tables, inflight, scored, streak, lastTarget>>

NoEntry == [valid |-> FALSE]
EntryOf(pc, target) == [valid |-> TRUE, pc |-> pc, target |-> target]
BTBEntry == {NoEntry} \cup {EntryOf(pc, t) : pc \in PCs, t \in Targets}

Branch == [pc : PCs, taken : BOOLEAN, fresh : BOOLEAN]

Never == "never"
NoScore == [fresh |-> FALSE, made |-> FALSE, final |-> FALSE]

---------------------------------------------------------------------------
BimodalIndex(pc) == pc \cap IndexMask

\* XOR of the PC and the history, cut to the table.
GshareIndex(pc, history) ==
  LET p == BimodalIndex(pc)
      h == history \cap IndexMask
  IN (p \ h) \cup (h \ p)

ChoiceIndex(pc) == BimodalIndex(pc)
BTBIndex(pc) == pc \cap BTBMask

BimodalTaken(pc) == bimodal[BimodalIndex(pc)] >= 2
GshareTaken(pc) == gshare[GshareIndex(pc, globalHistory)] >= 2
UseGshare(pc) == choice[ChoiceIndex(pc)] >= 2

\* Predict: the direction.
PredictTaken(pc) ==
  IF useTournament /\ UseGshare(pc) THEN GshareTaken(pc) ELSE BimodalTaken(pc)

\* Mutation: the PC in the entry is not compared.
AnyEntry(pc) == btb[BTBIndex(pc)].valid

\* Predict: Prediction.TargetKnown.
TargetKnown(pc) == btb[BTBIndex(pc)].valid /\ btb[BTBIndex(pc)].pc = pc

PredictTarget(pc) == btb[BTBIndex(pc)].target

---------------------------------------------------------------------------
(* Update                                                                  *)

\* Mutation: the prediction counted is gshare's.
FinalOfGshare(pc) == IF useTournament THEN GshareTaken(pc) ELSE BimodalTaken(pc)

\* The prediction Update counts as correct or not, made again from the tables.
FinalPrediction(pc) ==
  IF useTournament /\ UseGshare(pc) THEN GshareTaken(pc) ELSE BimodalTaken(pc)

\* Mutation: no upper bound.
BumpUnbounded(c, up) == IF up THEN c + 1 ELSE IF c > 0 THEN c - 1 ELSE c

\* Mutation: two bits that wrap.
BumpWraps(c, up) == IF up THEN (c + 1) % 4 ELSE (c + 3) % 4

\* A two-bit saturating counter.
Bump(c, up) ==
  IF up THEN IF c < 3 THEN c + 1 ELSE c
  ELSE IF c > 0 THEN c - 1 ELSE c

\* The history shifted by one, the outcome in its lowest bit.
Shifted(history, taken) ==
  ({b + 1 : b \in history} \cup (IF taken THEN {0} ELSE {})) \cap HistoryMask

\* Update: pc, actual outcome and target.
Update(pc, taken, target) ==
  LET bimodalCorrect == BimodalTaken(pc) <=> taken
      gshareCorrect == GshareTaken(pc) <=> taken
  IN /\ bimodal' = [bimodal EXCEPT ![BimodalIndex(pc)] = Bump(@, taken)]
     /\ gshare' = [gshare EXCEPT ![GshareIndex(pc, globalHistory)] = Bump(@, taken)]
     /\ choice' = IF useTournament /\ (bimodalCorrect <=> ~gshareCorrect)
                    THEN [choice EXCEPT ![ChoiceIndex(pc)] = Bump(@, gshareCorrect)]
                    ELSE choice
     /\ globalHistory' = Shifted(globalHistory, taken)
     /\ btb' = IF taken THEN [btb EXCEPT ![BTBIndex(pc)] = EntryOf(pc, target)] ELSE btb

---------------------------------------------------------------------------
Counters(c) == [i \in SUBSET IndexMask |-> c]
EmptyBTB == [i \in SUBSET BTBMask |-> NoEntry]
NoStreak == [pc |-> {}, taken |-> FALSE, n |-> 0]

\* NewBranchPredictor: weakly not taken, weakly favouring gshare.
Init ==
  /\ useTournament \in BOOLEAN
  /\ bimodal = Counters(1) /\ gshare = Counters(1) /\ choice = Counters(2)
  /\ globalHistory = {} /\ btb = EmptyBTB
  /\ inflight = << >> /\ scored = NoScore /\ streak = NoStreak
  /\ lastTarget = [pc \in PCs |-> Never]

\* The pipeline fetches the branch at pc.
Predict(pc) ==
  /\ Len(inflight) < MaxInFlight
  /\ inflight' = Append(inflight, [pc |-> pc, taken |-> PredictTaken(pc), fresh |-> TRUE])
  /\ UNCHANGED <<useTournament, tables, scored, streak, lastTarget>>

\* How far the streak is counted: long enough to be learnt.
Learnt == HistoryLength + 2

\* The oldest branch executes.  A wrong direction or target flushes the others, but
\* not when fetch had resolved the branch early, whatever the tables said; a branch
\* held by a fetch stall stays and executes again.
Resolve(taken, target, wrongTarget, early, held) ==
  /\ inflight # << >>
  /\ LET b == Head(inflight)
         again == streak.n > 0 /\ streak.pc = b.pc /\ streak.taken = taken
         wrong == ~early /\ (b.taken # taken \/ wrongTarget)
         stale(s) == [i \in DOMAIN s |-> [s[i] EXCEPT !.fresh = FALSE]]
     IN /\ wrongTarget \/ early => taken
        /\ wrong => ~held
        /\ Update(b.pc, taken, target)
        /\ scored' = [fresh |-> b.fresh, made |-> b.taken = taken,
                      final |-> FinalPrediction(b.pc) = taken]
        /\ streak' = [pc |-> b.pc, taken |-> taken,
                      n |-> IF ~again THEN 1 ELSE IF streak.n < Learnt THEN streak.n + 1
                            ELSE Learnt]
        /\ lastTarget' = IF taken THEN [lastTarget EXCEPT ![b.pc] = target] ELSE lastTarget
        /\ inflight' = IF wrong THEN << >> ELSE stale(IF held THEN inflight ELSE Tail(inflight))
  /\ UNCHANGED useTournament

\* Pipeline.Reset, which resets the predictor too.
Reset ==
  /\ bimodal' = Counters(1) /\ gshare' = Counters(1) /\ choice' = Counters(2)
  /\ globalHistory' = {} /\ btb' = EmptyBTB
  /\ inflight' = << >> /\ scored' = NoScore /\ streak' = NoStreak
  /\ UNCHANGED <<useTournament, lastTarget>>

Next ==
  \/ \E pc \in PCs : Predict(pc)
  \/ \E taken, wrongTarget, early, held \in BOOLEAN, target \in Targets :
       Resolve(taken, target, wrongTarget, early, held)
  \/ Reset

Spec == Init /\ [][Next]_vars

---------------------------------------------------------------------------
(* Counters stay in two bits, the history in its mask, and an entry of the    *)
(* BTB names a branch.                                                        *)
TypeOK ==
  /\ useTournament \in BOOLEAN
  /\ bimodal \in Table /\ gshare \in Table /\ choice \in Table
  /\ globalHistory \subseteq HistoryMask
  /\ btb \in [SUBSET BTBMask -> BTBEntry]
  /\ inflight \in Seq(Branch)
  /\ streak \in [pc : PCs \cup {{}}, taken : BOOLEAN, n : 0 .. Learnt]
  /\ lastTarget \in [PCs -> Targets \cup {Never}]

(* A branch that did the same thing often enough in a row (once to fill the    *)
(* history, twice to turn the counter it then leads to) is predicted to do it  *)
(* again, whatever was learnt before, by itself or through other branches that *)
(* share its counters, and whichever predictor the choice counter favours.     *)
LearnsAStableBranch ==
  streak.n = Learnt => PredictTaken(streak.pc) = streak.taken

(* A known target is where that very branch went when it was last taken: never *)
(* the target of another branch in the same entry, never an older one.         *)
KnownTargetIsLast ==
  \A pc \in PCs : TargetKnown(pc) => PredictTarget(pc) = lastTarget[pc]

(* Correct and Mispredictions count the predictions fetch was given: for a     *)
(* branch that no training came in between, Update, which predicts again,      *)
(* finds what Predict answered.                                               *)
CountsPredictions == scored.fresh => (scored.final <=> scored.made)
==========================================================================
