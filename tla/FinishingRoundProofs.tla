------------------------ MODULE FinishingRoundProofs ------------------------
(***************************************************************************)
(* The finishing round for any number of stages, directives, terminals and *)
(* edits by hand, as long as no write-once file is written over: what a    *)
(* reviewer selected is what he watched, every stage goes on from the plan *)
(* approved before it by one change, and the files that close the round    *)
(* agree.                                                                  *)
(***************************************************************************)
EXTENDS FinishingRound, SequenceTheorems, TLAPS

-----------------------------------------------------------------------------
(* Until a file is written over, the round is one whose writeOnce is one   *)
(* step: a look that finds no file changes nothing, and the write after it *)
(* finds the file absent still, or identical.                              *)

Accepts(none, file, new) == file \in {none, new}
Halt(t) == command' = [command EXCEPT ![t] = Nothing]

PlanOnce(t) ==
  /\ Running(t, "PROPOSE", "PLAN")
  /\ LET s == command[t].stage IN
       \/ /\ Accepts(NoPlan, plan[s][At(t)], Derived(t))
          /\ plan' = [plan EXCEPT ![s][At(t)] = Derived(t)]
          /\ GoOn(t, "RECORD")
       \/ ~Accepts(NoPlan, plan[s][At(t)], Derived(t)) /\ Halt(t) /\ UNCHANGED plan
  /\ UNCHANGED <<record, comparison, directives, selection, closing, outside, started>>

RecordOnce(t) ==
  /\ Running(t, "PROPOSE", "RECORD")
  /\ LET s == command[t].stage
         r == CandidateRecord(Derived(t), command[t].time)
     IN \/ /\ Accepts(None, record[s][At(t)], r)
           /\ record' = [record EXCEPT ![s][At(t)] = r]
           /\ GoOn(t, "RENDER")
        \/ ~Accepts(None, record[s][At(t)], r) /\ Halt(t) /\ UNCHANGED record
  /\ UNCHANGED <<plan, comparison, directives, selection, closing, outside, started>>

DirectivesOnce(t) ==
  /\ Running(t, "PROPOSE", "DIRECTIVES")
  /\ LET s == command[t].stage
         new == [ops |-> command[t].ops]
     IN directives' = IF Accepts(None, directives[s], new)
                        THEN [directives EXCEPT ![s] = new] ELSE directives
  /\ Halt(t)
  /\ UNCHANGED <<plan, record, comparison, selection, closing, outside, started>>

SelectionOnce(t) ==
  /\ Running(t, "SELECT", "SELECTION")
  /\ LET s == command[t].stage IN
       selection' = IF Accepts(None, selection[s], command[t].selected)
                      THEN [selection EXCEPT ![s] = command[t].selected] ELSE selection
  /\ Halt(t)
  /\ UNCHANGED <<proposals, closing, outside, started>>

ScorecardOnce(t) ==
  /\ Running(t, "FINALIZE", "SCORECARD")
  /\ \/ /\ Accepts(None, scorecard, command[t].card)
        /\ scorecard' = command[t].card /\ GoOn(t, "VERDICT")
     \/ ~Accepts(None, scorecard, command[t].card) /\ Halt(t) /\ UNCHANGED scorecard
  /\ UNCHANGED <<proposals, selection, verdict, provenance, outside, started>>

round == <<proposals, selection, closing, outside, command, started>>

\* A step of a terminal, by whether it starts, goes on or stops.
Starts(t) == Propose(t) \/ Select(t) \/ Finalize(t)
Writes(t) ==
  \/ PlanOnce(t) \/ RecordOnce(t) \/ WriteComparison(t)
  \/ ScorecardOnce(t) \/ WriteVerdict(t)
Ends(t) == DirectivesOnce(t) \/ SelectionOnce(t) \/ WriteProvenance(t) \/ Die(t)

Step ==
  \/ \E t \in Terminals : Starts(t) \/ Writes(t) \/ Render(t) \/ Ends(t)
  \/ EditByHand
  \/ UNCHANGED round

\* What is written was absent or identical, or the run is not intact.
LEMMA PutsOnce ==
  ASSUME NEW t \in Terminals, NEW file, NEW none, NEW new, Puts(t, file, none, new), Intact'
  PROVE  Accepts(none, file, new) /\ Intact
BY DEF Puts, Intact, Accepts

-----------------------------------------------------------------------------
(* Types.                                                                  *)

Plans == Seq(Operations \cup {"HAND"})
Masters == Plans \cup {NoPlan}
Records == [plan : Plans, createdAt : Nat]
Shown == [plan : Plans, master : Masters]
Comparisons == [base : Plans, entries : Seq(Shown)]
Directives == [ops : Seq(Operations)]
Selected == [candidate : Candidates, plan : Plans, selectedAt : Nat]
Cards == [master : Plans, clears : BOOLEAN]

Proposing == [does : {"PROPOSE"}, at : {"PLAN", "RECORD", "RENDER", "COMPARISON", "DIRECTIVES"},
              stage : Stages, base : Plans, ops : Seq(Operations), entries : Seq(Shown),
              time : Nat]
Selecting == [does : {"SELECT"}, at : {"SELECTION"}, stage : Stages, selected : Selected]
Finalizing == [does : {"FINALIZE"}, at : {"SCORECARD", "VERDICT", "PROVENANCE"},
               master : Plans, stages : [Stages -> Plans], card : Cards]

Proposes(t) == command[t].does = "PROPOSE"
Selects(t) == command[t].does = "SELECT"
Finalizes(t) == command[t].does = "FINALIZE"

\* How far a proposal is among its candidates.
InTurn(p) ==
  /\ Len(p.ops) <= NDirectives
  /\ p.at \in {"PLAN", "RECORD", "RENDER"} => Len(p.entries) <= Len(p.ops)
  /\ p.at \in {"COMPARISON", "DIRECTIVES"} => Len(p.entries) = Len(p.ops) + 1

FilesOK ==
  /\ opening \in Plans /\ started \in Nat
  /\ plan \in [Stages -> [Candidates -> Masters]]
  /\ record \in [Stages -> [Candidates -> Records \cup {None}]]
  /\ comparison \in [Stages -> Comparisons \cup {None}]
  /\ directives \in [Stages -> Directives \cup {None}]
  /\ selection \in [Stages -> Selected \cup {None}]

CommandsOK ==
  /\ command \in [Terminals -> {Nothing} \cup Proposing \cup Selecting \cup Finalizing]
  /\ \A t \in Terminals : Proposes(t) => InTurn(command[t])

-----------------------------------------------------------------------------
(* Plans and commands.                                                     *)

\* Every selection pins the plan its master was cut from.
MastersWatched ==
  \A s \in Stages :
    Settled(s) => /\ comparison[s] # None
                  /\ Entry(s, selection[s].candidate).master = selection[s].plan

Typed == FilesOK /\ CommandsOK /\ MastersWatched

\* What a terminal runs is told by its name.
LEMMA KindOfCommand ==
  ASSUME CommandsOK, NEW t \in Terminals
  PROVE  /\ Proposes(t) => command[t] \in Proposing /\ InTurn(command[t])
         /\ Selects(t) => command[t] \in Selecting
         /\ Finalizes(t) => command[t] \in Finalizing
         /\ command[t] = Nothing => ~Proposes(t) /\ ~Selects(t) /\ ~Finalizes(t)
BY DEF CommandsOK, Proposes, Selects, Finalizes, Proposing, Selecting, Finalizing, Nothing

LEMMA Constants ==
  NStages \in Nat \ {0} /\ NDirectives \in Nat /\ NStages \in Stages /\ 0 \in Candidates
BY RoundAssumption DEF Stages, Candidates

\* No plan made of changes is the absent one.
LEMMA PlansAreThere == NoPlan \notin Plans /\ <<>> \in Plans
<1>1. NoPlan[1] = "NO_PLAN" /\ 1 \in DOMAIN NoPlan
  BY DEF NoPlan
<1>2. "NO_PLAN" \notin Operations \cup {"HAND"}
  BY RoundAssumption
<1>. QED
  BY <1>1, <1>2 DEF Plans

\* The plan a proposal derives for the candidate it is at.
LEMMA DerivedIsAPlan ==
  ASSUME CommandsOK, NEW t \in Terminals, Proposes(t),
         command[t].at \in {"PLAN", "RECORD", "RENDER"}
  PROVE  Derived(t) \in Plans /\ At(t) \in Candidates /\ At(t) \in Nat
<1>1. command[t] \in Proposing /\ InTurn(command[t])
  BY KindOfCommand
<1>2. At(t) \in 0 .. Len(command[t].ops) /\ Len(command[t].ops) \in 0 .. NDirectives
  BY <1>1, Constants DEF InTurn, At, Proposing
<1>3. At(t) = 0 \/ command[t].ops[At(t)] \in Operations
  BY <1>1, <1>2 DEF Proposing
<1>4. command[t].base \in Plans
  BY <1>1 DEF Proposing
<1>. QED
  BY <1>2, <1>3, <1>4, Constants DEF Derived, CandidatePlan, Apply, Plans, Candidates

\* A set of directives is a short list of operations.
LEMMA DirectivesAreShort ==
  ASSUME NEW ops \in DirectiveSets
  PROVE  ops \in Seq(Operations) /\ Len(ops) <= NDirectives
BY Constants DEF DirectiveSets

\* A command that starts, goes on or stops leaves the others alone.
LEMMA OneCommandMoves ==
  ASSUME CommandsOK, NEW t \in Terminals, NEW new, command' = [command EXCEPT ![t] = new]
  PROVE  command'[t] = new /\ \A u \in Terminals : u # t => command'[u] = command[u]
BY DEF CommandsOK

LEMMA GoingOn ==
  ASSUME CommandsOK, NEW t \in Terminals, NEW at, GoOn(t, at)
  PROVE  /\ \A u \in Terminals : u # t => command'[u] = command[u]
         /\ command[t] \in Proposing => 
              /\ command'[t].does = "PROPOSE" /\ command'[t].at = at
              /\ command'[t].stage = command[t].stage /\ command'[t].base = command[t].base
              /\ command'[t].ops = command[t].ops /\ command'[t].entries = command[t].entries
              /\ command'[t].time = command[t].time
              /\ at \in {"RECORD", "RENDER", "DIRECTIVES"} => command'[t] \in Proposing
         /\ command[t] \in Finalizing =>
              /\ command'[t].does = "FINALIZE" /\ command'[t].at = at
              /\ command'[t].master = command[t].master
              /\ command'[t].stages = command[t].stages /\ command'[t].card = command[t].card
              /\ at \in {"VERDICT", "PROVENANCE"} => command'[t] \in Finalizing
BY DEF CommandsOK, GoOn, Proposing, Finalizing

\* Each kind of command starts with what it needs.
LEMMA ProposalStarts ==
  ASSUME Typed, NEW t \in Terminals, Propose(t)
  PROVE  /\ command'[t] \in Proposing /\ InTurn(command'[t])
         /\ \A u \in Terminals : u # t => command'[u] = command[u]
         /\ command'[t].at = "PLAN" /\ command'[t].entries = <<>>
         /\ command'[t].time = started + 1 /\ started' = started + 1
         /\ LET s == command'[t].stage IN
              s > 1 => /\ Settled(s - 1) /\ s - 1 \in Stages
                       /\ command'[t].base = selection[s - 1].plan
<1>1. PICK s \in Stages, ops \in DirectiveSets :
        /\ IsNext(s) /\ (s > 1 => ApprovedStands(s - 1))
        /\ Run(t, [does |-> "PROPOSE", at |-> "PLAN", stage |-> s, base |-> StageBase(s),
                   ops |-> ops, entries |-> <<>>, time |-> started + 1])
  BY DEF Propose
<1> DEFINE new == [does |-> "PROPOSE", at |-> "PLAN", stage |-> s, base |-> StageBase(s),
                   ops |-> ops, entries |-> <<>>, time |-> started + 1]
<1>2. s > 1 => Settled(s - 1) /\ s - 1 \in Stages /\ StageBase(s) = selection[s - 1].plan
  BY <1>1, Constants DEF ApprovedStands, StageBase, Stages
<1>3. StageBase(s) \in Plans
  <2>1. CASE s = 1
    BY <2>1 DEF StageBase, Typed, FilesOK
  <2>2. CASE s > 1
    BY <1>2, <2>2 DEF Typed, FilesOK, Settled, Selected
  <2>. QED
    BY <2>1, <2>2, Constants DEF Stages
<1>4. new \in Proposing /\ InTurn(new)
  BY <1>3, DirectivesAreShort, Constants DEF Proposing, InTurn, Typed, FilesOK
<1>5. command'[t] = new /\ \A u \in Terminals : u # t => command'[u] = command[u]
  BY <1>1, OneCommandMoves DEF Run, Typed
<1>6. started' = started + 1
  BY <1>1 DEF Run
<1>. QED
  BY <1>2, <1>4, <1>5, <1>6

LEMMA SelectionStarts ==
  ASSUME Typed, NEW t \in Terminals, Select(t)
  PROVE  /\ command'[t] \in Selecting
         /\ \A u \in Terminals : u # t => command'[u] = command[u]
         /\ LET s == command'[t].stage
                c == command'[t].selected.candidate
            IN /\ comparison[s] # None /\ c < Len(comparison[s].entries)
               /\ Entry(s, c).master # NoPlan /\ AsCompared(s, c)
               /\ command'[t].selected.plan = plan[s][c]
<1>1. PICK s \in Stages, c \in Candidates :
        /\ comparison[s] # None
        /\ c < Len(comparison[s].entries) /\ Entry(s, c).master # NoPlan /\ AsCompared(s, c)
        /\ Run(t, [does |-> "SELECT", at |-> "SELECTION", stage |-> s,
                   selected |-> [candidate |-> c, plan |-> plan[s][c],
                                 selectedAt |-> started + 1]])
  BY DEF Select
<1> DEFINE new == [does |-> "SELECT", at |-> "SELECTION", stage |-> s,
                   selected |-> [candidate |-> c, plan |-> plan[s][c],
                                 selectedAt |-> started + 1]]
<1>2. Entry(s, c) \in Shown
  BY <1>1, Constants DEF Entry, Typed, FilesOK, Comparisons, Candidates
<1>3. plan[s][c] \in Plans /\ started + 1 \in Nat
  BY <1>1, <1>2 DEF AsCompared, Shown, Typed, FilesOK
<1>4. new \in Selecting
  BY <1>3 DEF Selecting, Selected
<1>5. command'[t] = new /\ \A u \in Terminals : u # t => command'[u] = command[u]
  BY <1>1, OneCommandMoves DEF Run, Typed
<1>. QED
  BY <1>1, <1>4, <1>5

LEMMA FinalizationStarts ==
  ASSUME Typed, NEW t \in Terminals, Finalize(t)
  PROVE  /\ command'[t] \in Finalizing /\ command'[t].at = "SCORECARD"
         /\ \A u \in Terminals : u # t => command'[u] = command[u]
         /\ \A s \in Stages : Settled(s)
         /\ command'[t].stages = [s \in Stages |-> selection[s].plan]
         /\ command'[t].master = selection[NStages].plan
<1> DEFINE finished == Entry(NStages, selection[NStages].candidate)
           masters == {Entry(NStages, c).master : c \in 0 .. Len(comparison[NStages].entries) - 1}
<1>1. PICK scored \in masters \ {NoPlan}, clears \in BOOLEAN :
        Run(t, [does |-> "FINALIZE", at |-> "SCORECARD", master |-> finished.master,
                stages |-> [s \in Stages |-> selection[s].plan],
                card |-> [master |-> scored, clears |-> clears]])
  BY DEF Finalize
<1> DEFINE new == [does |-> "FINALIZE", at |-> "SCORECARD", master |-> finished.master,
                   stages |-> [s \in Stages |-> selection[s].plan],
                   card |-> [master |-> scored, clears |-> clears]]
<1>2. \A s \in Stages : Settled(s) /\ selection[s].plan \in Plans
  BY DEF Finalize, Settled, Typed, FilesOK, Selected
<1>3. finished.master = selection[NStages].plan /\ comparison[NStages] # None
  BY <1>2, Constants DEF Typed, MastersWatched
<1>4. scored \in Plans
  <2>1. PICK c \in 0 .. Len(comparison[NStages].entries) - 1 : scored = Entry(NStages, c).master
    BY <1>1
  <2>2. comparison[NStages].entries \in Seq(Shown)
    BY <1>3, Constants DEF Typed, FilesOK, Comparisons
  <2>3. Entry(NStages, c) \in Shown
    BY <2>2 DEF Entry
  <2>. QED
    BY <1>1, <2>1, <2>3 DEF Shown, Masters
<1>5. new \in Finalizing
  BY <1>2, <1>3, <1>4, Constants DEF Finalizing, Cards
<1>6. command'[t] = new /\ \A u \in Terminals : u # t => command'[u] = command[u]
  BY <1>1, OneCommandMoves DEF Run, Typed
<1>. QED
  BY <1>2, <1>3, <1>5, <1>6

LEMMA RenderGoesOn ==
  ASSUME Typed, NEW t \in Terminals, Render(t)
  PROVE  /\ command[t] \in Proposing /\ InTurn(command[t]) /\ command[t].at = "RENDER"
         /\ command'[t] \in Proposing /\ InTurn(command'[t])
         /\ \A u \in Terminals : u # t => command'[u] = command[u]
         /\ command'[t].at \in {"PLAN", "COMPARISON"}
         /\ command'[t].stage = command[t].stage /\ command'[t].base = command[t].base
         /\ command'[t].ops = command[t].ops /\ command'[t].time = command[t].time
         /\ \E master \in {NoPlan, plan[command[t].stage][At(t)]} :
              command'[t].entries =
                Append(command[t].entries, [plan |-> Derived(t), master |-> master])
<1>1. PICK master \in {NoPlan, plan[command[t].stage][At(t)]} :
        command' = [command EXCEPT
          ![t].entries = Append(@, [plan |-> Derived(t), master |-> master]),
          ![t].at = IF At(t) < Len(command[t].ops) THEN "PLAN" ELSE "COMPARISON"]
  BY DEF Render
<1>2. /\ command[t].does = "PROPOSE" /\ command[t].at = "RENDER"
      /\ command[t] \in Proposing /\ InTurn(command[t])
  BY KindOfCommand DEF Render, Running, Typed, Proposes
<1>3. Derived(t) \in Plans /\ At(t) \in Candidates /\ At(t) \in Nat
  BY <1>2, DerivedIsAPlan DEF Typed, Proposes
<1>4. plan[command[t].stage][At(t)] \in Masters
  BY <1>2, <1>3 DEF Typed, FilesOK, Proposing
<1> DEFINE e == [plan |-> Derived(t), master |-> master]
           p == command[t]
           q == command'[t]
<1>5. e \in Shown
  BY <1>3, <1>4 DEF Shown, Masters
<1>6. Append(p.entries, e) \in Seq(Shown) /\ Len(Append(p.entries, e)) = At(t) + 1
  BY <1>2, <1>5 DEF Proposing, At
<1>7. /\ q.does = "PROPOSE" /\ q.at = IF At(t) < Len(p.ops) THEN "PLAN" ELSE "COMPARISON"
      /\ q.stage = p.stage /\ q.base = p.base /\ q.ops = p.ops /\ q.time = p.time
      /\ q.entries = Append(p.entries, e)
      /\ \A u \in Terminals : u # t => command'[u] = command[u]
  BY <1>1, <1>2 DEF CommandsOK, Typed, Proposing
<1>8. q \in Proposing
  BY <1>1, <1>2, <1>6 DEF CommandsOK, Typed, Proposing
<1>9. InTurn(q)
  <2>1. At(t) <= Len(p.ops) /\ Len(p.ops) \in Nat /\ Len(p.ops) <= NDirectives
    BY <1>2 DEF InTurn, At, Proposing
  <2>. QED
    BY <1>3, <1>6, <1>7, <2>1 DEF InTurn
<1>. QED
  BY <1>2, <1>7, <1>8, <1>9

-----------------------------------------------------------------------------
(* Every step keeps the types.                                             *)

\* The commands stay a function of the terminals.
LEMMA CommandsStay ==
  ASSUME CommandsOK, Step
  PROVE  command' = [t \in Terminals |-> command'[t]]
<1>1. ASSUME NEW t \in Terminals, NEW new, command' = [command EXCEPT ![t] = new]
      PROVE  command' = [u \in Terminals |-> command'[u]]
  BY <1>1 DEF CommandsOK
<1>2. ASSUME NEW t \in Terminals, Starts(t) \/ Writes(t) \/ Render(t) \/ Ends(t)
      PROVE  \E new : command' = [command EXCEPT ![t] = new]
  <2>1. ASSUME NEW at, GoOn(t, at) PROVE \E new : command' = [command EXCEPT ![t] = new]
    BY <2>1 DEF GoOn
  <2>2. CASE Starts(t)
    BY <2>2 DEF Starts, Propose, Select, Finalize, Run
  <2>3. CASE Writes(t)
    BY <2>1, <2>3
    DEF Writes, PlanOnce, RecordOnce, WriteComparison, ScorecardOnce, WriteVerdict, Stop, Halt
  <2>4. CASE Render(t)
    BY <2>4 DEF Render
  <2>5. CASE Ends(t)
    BY <2>5 DEF Ends, DirectivesOnce, SelectionOnce, WriteProvenance, Die, Stop, Halt
  <2>. QED
    BY <1>2, <2>2, <2>3, <2>4, <2>5
<1>3. CASE UNCHANGED command
  BY <1>3 DEF CommandsOK
<1>. QED
  BY <1>1, <1>2, <1>3 DEF Step, EditByHand, round

\* A proposal goes on with a write of a plan, a record or the comparison,
\* or is refused; the other writes leave it alone.
LEMMA WriteEffects ==
  ASSUME Typed, NEW t \in Terminals, Writes(t)
  PROVE  /\ \A u \in Terminals : u # t => command'[u] = command[u]
         /\ \/ command'[t] = Nothing
            \/ /\ Proposes(t) /\ command'[t] \in Proposing /\ InTurn(command'[t])
               /\ command'[t].stage = command[t].stage /\ command'[t].base = command[t].base
               /\ command'[t].ops = command[t].ops /\ command'[t].entries = command[t].entries
               /\ command'[t].time = command[t].time
               /\ <<command[t].at, command'[t].at>> \in
                    {<<"PLAN", "RECORD">>, <<"RECORD", "RENDER">>, <<"COMPARISON", "DIRECTIVES">>}
            \/ /\ Finalizes(t) /\ command'[t] \in Finalizing
               /\ command'[t].master = command[t].master
               /\ command'[t].stages = command[t].stages /\ command'[t].card = command[t].card
               /\ <<command[t].at, command'[t].at>> \in
                    {<<"SCORECARD", "VERDICT">>, <<"VERDICT", "PROVENANCE">>}
<1>1. CommandsOK
  BY DEF Typed
<1>2. CASE Halt(t)
  BY <1>1, <1>2, OneCommandMoves DEF Stop, Halt
<1>3. ASSUME NEW at, NEW from, Running(t, "PROPOSE", from), GoOn(t, at),
             <<from, at>> \in
               {<<"PLAN", "RECORD">>, <<"RECORD", "RENDER">>, <<"COMPARISON", "DIRECTIVES">>}
      PROVE  /\ \A u \in Terminals : u # t => command'[u] = command[u]
             /\ Proposes(t) /\ command'[t] \in Proposing /\ InTurn(command'[t])
             /\ command'[t].stage = command[t].stage /\ command'[t].base = command[t].base
             /\ command'[t].ops = command[t].ops /\ command'[t].entries = command[t].entries
             /\ command'[t].time = command[t].time
             /\ command[t].at = from /\ command'[t].at = at
  <2>1. Proposes(t) /\ command[t] \in Proposing /\ InTurn(command[t]) /\ command[t].at = from
    BY <1>1, <1>3, KindOfCommand DEF Running, Proposes
  <2>2. at \in {"RECORD", "RENDER", "DIRECTIVES"}
    BY <1>3
  <2>. QED
    BY <1>1, <1>3, <2>1, <2>2, GoingOn DEF InTurn
<1>4. ASSUME NEW at, NEW from, Running(t, "FINALIZE", from), GoOn(t, at),
             <<from, at>> \in {<<"SCORECARD", "VERDICT">>, <<"VERDICT", "PROVENANCE">>}
      PROVE  /\ \A u \in Terminals : u # t => command'[u] = command[u]
             /\ Finalizes(t) /\ command'[t] \in Finalizing
             /\ command'[t].master = command[t].master
             /\ command'[t].stages = command[t].stages /\ command'[t].card = command[t].card
             /\ command[t].at = from /\ command'[t].at = at
  <2>1. Finalizes(t) /\ command[t] \in Finalizing /\ command[t].at = from
    BY <1>1, <1>4, KindOfCommand DEF Running, Finalizes
  <2>2. at \in {"VERDICT", "PROVENANCE"}
    BY <1>4
  <2>. QED
    BY <1>1, <1>4, <2>1, <2>2, GoingOn
<1>5. CASE PlanOnce(t)
  BY <1>2, <1>3, <1>5 DEF PlanOnce
<1>6. CASE RecordOnce(t)
  BY <1>2, <1>3, <1>6 DEF RecordOnce
<1>7. CASE WriteComparison(t)
  BY <1>3, <1>7 DEF WriteComparison
<1>8. CASE ScorecardOnce(t)
  BY <1>2, <1>4, <1>8 DEF ScorecardOnce
<1>9. CASE WriteVerdict(t)
  BY <1>4, <1>9 DEF WriteVerdict
<1>. QED
  BY <1>5, <1>6, <1>7, <1>8, <1>9 DEF Writes

\* A command that ended runs no more.
LEMMA EndEffects ==
  ASSUME Typed, NEW t \in Terminals, Ends(t)
  PROVE  command'[t] = Nothing /\ \A u \in Terminals : u # t => command'[u] = command[u]
BY OneCommandMoves
DEF Ends, DirectivesOnce, SelectionOnce, WriteProvenance, Die, Stop, Halt, Typed

\* A step of one terminal is none of another's.
LEMMA OthersGoOn ==
  ASSUME Typed, NEW t \in Terminals, Starts(t) \/ Writes(t) \/ Render(t) \/ Ends(t),
         NEW u \in Terminals, u # t
  PROVE  command'[u] = command[u]
<1>1. CASE Propose(t)
  BY <1>1, ProposalStarts
<1>2. CASE Select(t)
  BY <1>2, SelectionStarts
<1>3. CASE Finalize(t)
  BY <1>3, FinalizationStarts
<1>4. CASE Writes(t)
  BY <1>4, WriteEffects
<1>5. CASE Render(t)
  BY <1>5, RenderGoesOn
<1>6. CASE Ends(t)
  BY <1>6, EndEffects
<1>. QED
  BY <1>1, <1>2, <1>3, <1>4, <1>5, <1>6 DEF Starts

LEMMA CommandTypes == Typed /\ Step => CommandsOK'
<1> SUFFICES ASSUME Typed, Step PROVE CommandsOK'
  OBVIOUS
<1>1. CommandsOK /\ command' = [t \in Terminals |-> command'[t]]
  BY CommandsStay DEF Typed
<1>2. ASSUME NEW t \in Terminals, NEW u \in Terminals,
             Starts(t) \/ Writes(t) \/ Render(t) \/ Ends(t)
      PROVE  /\ command'[u] \in {Nothing} \cup Proposing \cup Selecting \cup Finalizing
             /\ command'[u].does = "PROPOSE" => InTurn(command'[u])
  <2>1. CASE u # t
    <3>1. command'[u] = command[u]
      BY <1>2, <2>1, OthersGoOn
    <3>. QED
      BY <1>1, <3>1 DEF CommandsOK, Proposes
  <2>2. CASE u = t /\ Propose(t)
    BY <2>2, ProposalStarts
  <2>3. CASE u = t /\ Select(t)
    BY <2>3, SelectionStarts DEF Selecting
  <2>4. CASE u = t /\ Finalize(t)
    BY <2>4, FinalizationStarts DEF Finalizing
  <2>5. CASE u = t /\ Writes(t)
    BY <2>5, WriteEffects DEF Nothing, Finalizing
  <2>6. CASE u = t /\ Render(t)
    BY <2>6, RenderGoesOn
  <2>7. CASE u = t /\ Ends(t)
    BY <2>7, EndEffects DEF Nothing
  <2>. QED
    BY <1>2, <2>1, <2>2, <2>3, <2>4, <2>5, <2>6, <2>7 DEF Starts
<1>3. CASE UNCHANGED command
  BY <1>1, <1>3 DEF CommandsOK, Proposes
<1>. QED
  BY <1>1, <1>2, <1>3 DEF Step, CommandsOK, Proposes, EditByHand, round

\* Who writes which file.
LEMMA Writers ==
  ASSUME Step
  PROVE  /\ UNCHANGED plan \/ (\E t \in Terminals : PlanOnce(t)) \/ EditByHand
         /\ UNCHANGED opening \/ EditByHand
         /\ UNCHANGED record \/ \E t \in Terminals : RecordOnce(t)
         /\ UNCHANGED comparison \/ \E t \in Terminals : WriteComparison(t)
         /\ UNCHANGED directives \/ \E t \in Terminals : DirectivesOnce(t)
         /\ UNCHANGED selection \/ \E t \in Terminals : SelectionOnce(t)
         /\ UNCHANGED scorecard \/ \E t \in Terminals : ScorecardOnce(t)
         /\ UNCHANGED verdict \/ \E t \in Terminals : WriteVerdict(t)
         /\ UNCHANGED provenance \/ \E t \in Terminals : WriteProvenance(t)
         /\ UNCHANGED started \/ \E t \in Terminals : Starts(t) /\ started' = started + 1
<1>1. ASSUME NEW t \in Terminals, Starts(t)
      PROVE  /\ UNCHANGED <<proposals, selection, closing, outside>>
             /\ started' = started + 1
  BY <1>1 DEF Starts, Propose, Select, Finalize, Run
<1>2. CASE \E t \in Terminals : Starts(t)
  BY <1>1, <1>2 DEF proposals, closing, outside
<1>3. ASSUME NEW t \in Terminals, Writes(t) PROVE UNCHANGED <<opening, started, directives, selection, provenance>>
  BY <1>3
  DEF Writes, PlanOnce, RecordOnce, WriteComparison, ScorecardOnce, WriteVerdict, closing,
      proposals, outside
<1>4. CASE \E t \in Terminals : PlanOnce(t) \/ RecordOnce(t) \/ WriteComparison(t)
  BY <1>3, <1>4 DEF Writes, PlanOnce, RecordOnce, WriteComparison, closing
<1>5. CASE \E t \in Terminals : ScorecardOnce(t) \/ WriteVerdict(t)
  BY <1>3, <1>5 DEF Writes, ScorecardOnce, WriteVerdict, proposals
<1>6. CASE \E t \in Terminals : Render(t)
  BY <1>6 DEF Render, proposals, closing, outside
<1>7. CASE \E t \in Terminals : DirectivesOnce(t) \/ SelectionOnce(t)
  BY <1>7 DEF DirectivesOnce, SelectionOnce, proposals, closing, outside
<1>8. CASE \E t \in Terminals : WriteProvenance(t) \/ Die(t)
  BY <1>8 DEF WriteProvenance, Die, proposals, closing, outside
<1>9. CASE EditByHand
  BY <1>9 DEF EditByHand, closing
<1>10. CASE UNCHANGED round
  BY <1>10 DEF round, proposals, closing, outside
<1>. QED
  BY <1>2, <1>4, <1>5, <1>6, <1>7, <1>8, <1>9, <1>10 DEF Step, Writes, Ends

\* A plan is written where there was none, or has an edit appended to it.
LEMMA PlanEffects ==
  ASSUME Typed, Step
  PROVE  /\ plan' \in [Stages -> [Candidates -> Masters]]
         /\ \A s \in Stages, c \in Candidates :
              \/ plan'[s][c] = plan[s][c]
              \/ /\ plan[s][c] = NoPlan
                 /\ \E t \in Terminals :
                      /\ PlanOnce(t) /\ s = command[t].stage /\ c = At(t)
                      /\ plan'[s][c] = Derived(t)
              \/ /\ plan[s][c] \in Plans /\ plan'[s][c] = Append(plan[s][c], "HAND")
                 /\ EditByHand
<1>0. plan \in [Stages -> [Candidates -> Masters]] /\ CommandsOK
  BY DEF Typed, FilesOK
<1>1. CASE UNCHANGED plan
  BY <1>0, <1>1
<1>2. ASSUME NEW t \in Terminals, PlanOnce(t), ~UNCHANGED plan
      PROVE  /\ plan' \in [Stages -> [Candidates -> Masters]]
             /\ \A s \in Stages, c \in Candidates :
                  \/ plan'[s][c] = plan[s][c]
                  \/ /\ plan[s][c] = NoPlan /\ s = command[t].stage /\ c = At(t)
                     /\ plan'[s][c] = Derived(t)
  <2>1. Proposes(t) /\ command[t].at = "PLAN" /\ command[t].stage \in Stages
    BY <1>0, <1>2, KindOfCommand DEF PlanOnce, Running, Proposes, Proposing
  <2>2. Derived(t) \in Plans /\ At(t) \in Candidates
    BY <1>0, <2>1, DerivedIsAPlan
  <2>3. /\ plan' = [plan EXCEPT ![command[t].stage][At(t)] = Derived(t)]
        /\ plan[command[t].stage][At(t)] \in {NoPlan, Derived(t)}
    BY <1>2 DEF PlanOnce, Accepts
  <2>. QED
    BY <1>0, <2>1, <2>2, <2>3 DEF Masters
<1>3. CASE EditByHand /\ ~UNCHANGED plan
  <2>1. PICK s \in Stages, c \in Candidates :
          plan[s][c] # NoPlan /\ plan' = [plan EXCEPT ![s][c] = Append(@, "HAND")]
    BY <1>3 DEF EditByHand
  <2>2. plan[s][c] \in Plans
    BY <1>0, <2>1 DEF Masters
  <2>3. Append(plan[s][c], "HAND") \in Plans
    BY <2>2 DEF Plans
  <2>. QED
    BY <1>0, <1>3, <2>1, <2>2, <2>3 DEF Masters
<1>. QED
  BY <1>1, <1>2, <1>3, Writers

\* A record is written where there was none.
LEMMA RecordEffects ==
  ASSUME Typed, Step
  PROVE  /\ record' \in [Stages -> [Candidates -> Records \cup {None}]]
         /\ \A s \in Stages, c \in Candidates :
              \/ record'[s][c] = record[s][c]
              \/ /\ record[s][c] = None
                 /\ \E t \in Terminals :
                      /\ RecordOnce(t) /\ Proposes(t) /\ command[t].at = "RECORD"
                      /\ s = command[t].stage /\ c = At(t) /\ ~UNCHANGED record
                      /\ record'[s][c] = [plan |-> Derived(t), createdAt |-> command[t].time]
<1>0. record \in [Stages -> [Candidates -> Records \cup {None}]] /\ CommandsOK
  BY DEF Typed, FilesOK
<1>1. CASE UNCHANGED record
  BY <1>0, <1>1
<1>2. ASSUME NEW t \in Terminals, RecordOnce(t), ~UNCHANGED record
      PROVE  /\ record' \in [Stages -> [Candidates -> Records \cup {None}]]
             /\ Proposes(t) /\ command[t].at = "RECORD"
             /\ \A s \in Stages, c \in Candidates :
                  \/ record'[s][c] = record[s][c]
                  \/ /\ record[s][c] = None /\ s = command[t].stage /\ c = At(t)
                     /\ record'[s][c] = [plan |-> Derived(t), createdAt |-> command[t].time]
  <2>1. /\ Proposes(t) /\ command[t].at = "RECORD" /\ command[t].stage \in Stages
        /\ command[t].time \in Nat
    BY <1>0, <1>2, KindOfCommand DEF RecordOnce, Running, Proposes, Proposing
  <2>2. Derived(t) \in Plans /\ At(t) \in Candidates
    BY <1>0, <2>1, DerivedIsAPlan
  <2> DEFINE r == [plan |-> Derived(t), createdAt |-> command[t].time]
  <2>3. r \in Records
    BY <2>1, <2>2 DEF Records
  <2>4. /\ record' = [record EXCEPT ![command[t].stage][At(t)] = r]
        /\ record[command[t].stage][At(t)] \in {None, r}
    BY <1>2 DEF RecordOnce, Accepts, CandidateRecord
  <2>. QED
    BY <1>0, <2>1, <2>2, <2>3, <2>4
<1>. QED
  BY <1>1, <1>2, Writers

\* A comparison is what the proposal holds that writes it.
LEMMA ComparisonEffects ==
  ASSUME Typed, Step
  PROVE  /\ comparison' \in [Stages -> Comparisons \cup {None}]
         /\ \A s \in Stages :
              \/ comparison'[s] = comparison[s]
              \/ \E t \in Terminals :
                   /\ WriteComparison(t) /\ Proposes(t) /\ command[t].at = "COMPARISON"
                   /\ s = command[t].stage
                   /\ comparison'[s] = [base |-> command[t].base, entries |-> command[t].entries]
<1>0. comparison \in [Stages -> Comparisons \cup {None}] /\ CommandsOK
  BY DEF Typed, FilesOK
<1>1. CASE UNCHANGED comparison
  BY <1>0, <1>1
<1>2. ASSUME NEW t \in Terminals, WriteComparison(t)
      PROVE  /\ comparison' \in [Stages -> Comparisons \cup {None}]
             /\ Proposes(t) /\ command[t].at = "COMPARISON"
             /\ \A s \in Stages :
                  \/ comparison'[s] = comparison[s]
                  \/ /\ s = command[t].stage
                     /\ comparison'[s] = [base |-> command[t].base, entries |-> command[t].entries]
  <2>1. Proposes(t) /\ command[t].at = "COMPARISON" /\ command[t] \in Proposing
    BY <1>0, <1>2, KindOfCommand DEF WriteComparison, Running, Proposes
  <2> DEFINE c == [base |-> command[t].base, entries |-> command[t].entries]
  <2>2. c \in Comparisons /\ command[t].stage \in Stages
    BY <2>1 DEF Comparisons, Proposing
  <2>3. comparison' = [comparison EXCEPT ![command[t].stage] = c]
    BY <1>2 DEF WriteComparison
  <2>. QED
    BY <1>0, <2>1, <2>2, <2>3
<1>. QED
  BY <1>1, <1>2, Writers

\* Directives and a selection are written where there were none.
LEMMA DirectivesEffects ==
  ASSUME Typed, Step
  PROVE  /\ directives' \in [Stages -> Directives \cup {None}]
         /\ \A s \in Stages :
              \/ directives'[s] = directives[s]
              \/ /\ directives[s] = None
                 /\ \E t \in Terminals :
                      /\ DirectivesOnce(t) /\ Proposes(t) /\ command[t].at = "DIRECTIVES"
                      /\ s = command[t].stage /\ directives'[s] = [ops |-> command[t].ops]
<1>0. directives \in [Stages -> Directives \cup {None}] /\ CommandsOK
  BY DEF Typed, FilesOK
<1>1. CASE UNCHANGED directives
  BY <1>0, <1>1
<1>2. ASSUME NEW t \in Terminals, DirectivesOnce(t), ~UNCHANGED directives
      PROVE  /\ directives' \in [Stages -> Directives \cup {None}]
             /\ Proposes(t) /\ command[t].at = "DIRECTIVES"
             /\ \A s \in Stages :
                  \/ directives'[s] = directives[s]
                  \/ /\ directives[s] = None /\ s = command[t].stage
                     /\ directives'[s] = [ops |-> command[t].ops]
  <2>1. Proposes(t) /\ command[t].at = "DIRECTIVES" /\ command[t] \in Proposing
    BY <1>0, <1>2, KindOfCommand DEF DirectivesOnce, Running, Proposes
  <2> DEFINE new == [ops |-> command[t].ops]
  <2>2. new \in Directives /\ command[t].stage \in Stages
    BY <2>1 DEF Directives, Proposing
  <2>3. /\ directives' = [directives EXCEPT ![command[t].stage] = new]
        /\ directives[command[t].stage] \in {None, new}
    BY <1>2 DEF DirectivesOnce, Accepts
  <2>. QED
    BY <1>0, <2>1, <2>2, <2>3
<1>. QED
  BY <1>1, <1>2, Writers

LEMMA SelectionEffects ==
  ASSUME Typed, Step
  PROVE  /\ selection' \in [Stages -> Selected \cup {None}]
         /\ \A s \in Stages :
              \/ selection'[s] = selection[s]
              \/ /\ selection[s] = None
                 /\ \E t \in Terminals :
                      /\ Selects(t) /\ s = command[t].stage
                      /\ selection'[s] = command[t].selected
<1>0. selection \in [Stages -> Selected \cup {None}] /\ CommandsOK
  BY DEF Typed, FilesOK
<1>1. CASE UNCHANGED selection
  BY <1>0, <1>1
<1>2. ASSUME NEW t \in Terminals, SelectionOnce(t), ~UNCHANGED selection
      PROVE  /\ selection' \in [Stages -> Selected \cup {None}] /\ Selects(t)
             /\ \A s \in Stages :
                  \/ selection'[s] = selection[s]
                  \/ /\ selection[s] = None /\ s = command[t].stage
                     /\ selection'[s] = command[t].selected
  <2>1. Selects(t) /\ command[t] \in Selecting
    BY <1>0, <1>2, KindOfCommand DEF SelectionOnce, Running, Selects
  <2>2. command[t].selected \in Selected /\ command[t].stage \in Stages
    BY <2>1 DEF Selecting
  <2>3. /\ selection' = [selection EXCEPT ![command[t].stage] = command[t].selected]
        /\ selection[command[t].stage] \in {None, command[t].selected}
    BY <1>2 DEF SelectionOnce, Accepts
  <2>. QED
    BY <1>0, <2>1, <2>2, <2>3
<1>. QED
  BY <1>1, <1>2, Writers

LEMMA FileTypes == Typed /\ Step => FilesOK'
<1> SUFFICES ASSUME Typed, Step PROVE FilesOK'
  OBVIOUS
<1>1. opening' \in Plans
  <2>1. opening \in Plans
    BY DEF Typed, FilesOK
  <2>2. EditByHand => opening' \in {opening, Append(opening, "HAND")}
    BY DEF EditByHand
  <2>. QED
    BY <2>1, <2>2, Writers DEF Plans
<1>2. started' \in Nat
  BY Writers DEF Typed, FilesOK
<1>. QED
  BY <1>1, <1>2, PlanEffects, RecordEffects, ComparisonEffects, DirectivesEffects,
     SelectionEffects DEF FilesOK

\* What became of a proposal that is still under way.
LEMMA ProposalMoves ==
  ASSUME Typed, Step, NEW t \in Terminals, command'[t].does = "PROPOSE"
  PROVE  \/ Proposes(t) /\ command'[t] = command[t] /\ ~Writes(t) /\ ~Render(t)
         \/ Propose(t)
         \/ /\ Proposes(t)
            /\ command'[t].stage = command[t].stage /\ command'[t].base = command[t].base
            /\ command'[t].ops = command[t].ops /\ command'[t].time = command[t].time
            /\ \/ Render(t)
               \/ /\ command'[t].entries = command[t].entries
                  /\ \/ PlanOnce(t) /\ command[t].at = "PLAN" /\ command'[t].at = "RECORD"
                     \/ RecordOnce(t) /\ command[t].at = "RECORD" /\ command'[t].at = "RENDER"
                     \/ /\ WriteComparison(t)
                        /\ command[t].at = "COMPARISON" /\ command'[t].at = "DIRECTIVES"
<1>0. CommandsOK
  BY DEF Typed
<1>1. CASE Writes(t)
  <2>1. Proposes(t) /\ command[t] \in Proposing
    BY <1>0, <1>1, WriteEffects, KindOfCommand DEF Nothing, Finalizing
  <2>2. PlanOnce(t) => command[t].at = "PLAN"
    BY DEF PlanOnce, Running
  <2>3. RecordOnce(t) => command[t].at = "RECORD"
    BY DEF RecordOnce, Running
  <2>4. WriteComparison(t) => command[t].at = "COMPARISON"
    BY DEF WriteComparison, Running
  <2>5. ~ScorecardOnce(t) /\ ~WriteVerdict(t)
    BY <2>1 DEF ScorecardOnce, WriteVerdict, Running, Proposes
  <2>6. /\ command'[t].stage = command[t].stage /\ command'[t].base = command[t].base
        /\ command'[t].ops = command[t].ops /\ command'[t].time = command[t].time
        /\ command'[t].entries = command[t].entries
        /\ <<command[t].at, command'[t].at>> \in
             {<<"PLAN", "RECORD">>, <<"RECORD", "RENDER">>, <<"COMPARISON", "DIRECTIVES">>}
    BY <1>1, WriteEffects DEF Nothing, Finalizing
  <2>. QED
    BY <1>1, <2>1, <2>2, <2>3, <2>4, <2>5, <2>6 DEF Writes
<1>2. CASE Render(t)
  <2>1. Proposes(t)
    BY <1>2 DEF Render, Running, Proposes
  <2>. QED
    BY <1>2, <2>1, RenderGoesOn
<1>3. CASE Propose(t)
  BY <1>3
<1>4. CASE ~Writes(t) /\ ~Render(t) /\ ~Propose(t)
  <2>1. ~Select(t) /\ ~Finalize(t) /\ ~Ends(t)
    <3>1. Select(t) => command'[t].does = "SELECT"
      BY SelectionStarts DEF Selecting
    <3>2. Finalize(t) => command'[t].does = "FINALIZE"
      BY FinalizationStarts DEF Finalizing
    <3>3. Ends(t) => command'[t].does = "NOTHING"
      BY EndEffects DEF Nothing
    <3>. QED
      BY <3>1, <3>2, <3>3
  <2>2. command'[t] = command[t]
    BY <1>4, <2>1, OthersGoOn DEF Step, Starts, EditByHand, round
  <2>. QED
    BY <1>4, <2>2 DEF Proposes
<1>. QED
  BY <1>1, <1>2, <1>3, <1>4

-----------------------------------------------------------------------------
(* A stage is compared once: the record of its control belongs to the one  *)
(* proposal that wrote it, by its time, and no other gets past it.         *)

Past(p) == p.entries # <<>> \/ p.at \in {"RENDER", "COMPARISON", "DIRECTIVES"}

Control(s) == record[s][0]

\* No two proposals have the same time, and a record is no younger than the clock.
Timely ==
  /\ \A t \in Terminals : Proposes(t) => command[t].time <= started
  /\ \A t, u \in Terminals :
       t # u /\ Proposes(t) /\ Proposes(u) => command[t].time # command[u].time
  /\ \A s \in Stages : Control(s) # None => Control(s).createdAt <= started

\* A proposal past its control wrote the record that is there, one before it did not.
Owned ==
  \A t \in Terminals : Proposes(t) =>
    /\ Past(command[t]) => /\ Control(command[t].stage) # None
                           /\ Control(command[t].stage).createdAt = command[t].time
    /\ ~Past(command[t]) /\ Control(command[t].stage) # None =>
         Control(command[t].stage).createdAt # command[t].time

\* Once a stage is compared, the only proposal past its control is the one that
\* compared it.
ComparedOnce ==
  \A s \in Stages : comparison[s] # None =>
    /\ Control(s) # None
    /\ \A t \in Terminals : Proposes(t) /\ command[t].stage = s /\ Past(command[t]) =>
         command[t].at = "DIRECTIVES"

Proposals == Typed /\ Timely /\ Owned /\ ComparedOnce

LEMMA RecordsAreThere == None \notin Records
BY DEF Records, None

\* The record of the control changes by the proposal at it only.
LEMMA ControlEffects ==
  ASSUME Typed, Step, NEW s \in Stages, Control(s)' # Control(s)
  PROVE  /\ Control(s) = None
         /\ \E t \in Terminals :
              /\ RecordOnce(t) /\ Proposes(t) /\ command[t].at = "RECORD"
              /\ command[t].entries = <<>> /\ command[t].stage = s
              /\ Control(s)' # None /\ Control(s)'.createdAt = command[t].time
<1>1. PICK t \in Terminals :
        /\ record[s][0] = None
        /\ RecordOnce(t) /\ Proposes(t) /\ command[t].at = "RECORD"
        /\ s = command[t].stage /\ 0 = At(t)
        /\ record'[s][0] = [plan |-> Derived(t), createdAt |-> command[t].time]
  BY RecordEffects, Constants DEF Control
<1>2. command[t] \in Proposing
  BY <1>1, KindOfCommand DEF Typed
<1>3. command[t].entries = <<>>
  BY <1>1, <1>2, EmptySeq DEF At, Proposing
<1>4. record'[s][0] \in Records
  BY <1>1, <1>2, DerivedIsAPlan DEF Records, Proposing, Typed
<1>. QED
  BY <1>1, <1>3, <1>4, RecordsAreThere DEF Control

\* The time of a proposal under way is the one it began with.
LEMMA TimeOfProposal ==
  ASSUME Typed, Step, NEW t \in Terminals, command'[t].does = "PROPOSE"
  PROVE  \/ Proposes(t) /\ command'[t].time = command[t].time
         \/ command'[t].time = started + 1 /\ started' = started + 1 /\ Propose(t)
BY ProposalMoves, ProposalStarts, RenderGoesOn

LEMMA StaysTimely == Proposals /\ Step => Timely'
<1> SUFFICES ASSUME Proposals, Step PROVE Timely'
  OBVIOUS
<1>0. /\ Typed /\ Timely /\ started \in Nat /\ started' \in {started, started + 1}
      /\ \A t \in Terminals : Proposes(t) => command[t].time \in Nat
  BY Writers, KindOfCommand DEF Proposals, Typed, FilesOK, Proposing
<1>1. ASSUME NEW t \in Terminals, command'[t].does = "PROPOSE"
      PROVE  command'[t].time <= started'
  BY <1>0, <1>1, TimeOfProposal DEF Timely
<1>2. ASSUME NEW t \in Terminals, NEW u \in Terminals, t # u,
             command'[t].does = "PROPOSE", command'[u].does = "PROPOSE"
      PROVE  command'[t].time # command'[u].time
  <2>1. ~(Propose(t) /\ Propose(u) /\ ~Proposes(t))
    <3>1. ASSUME Propose(t), Propose(u) PROVE Proposes(t)
      BY <1>0, <1>2, <3>1, ProposalStarts DEF Proposes
    <3>. QED
      BY <3>1
  <2>2. Propose(t) => ~Proposes(t)
    BY <1>0, KindOfCommand DEF Propose, Run, Typed
  <2>. QED
    BY <1>0, <1>2, <2>1, <2>2, TimeOfProposal DEF Timely
<1>3. ASSUME NEW s \in Stages, Control(s)' # None
      PROVE  Control(s)'.createdAt <= started'
  <2>1. CASE Control(s)' = Control(s)
    <3>1. Control(s) \in Records
      BY <1>0, <1>3, <2>1, Constants DEF Control, Typed, FilesOK
    <3>. QED
      BY <1>0, <1>3, <2>1, <3>1 DEF Timely, Records
  <2>2. CASE Control(s)' # Control(s)
    <3>1. PICK t \in Terminals : Proposes(t) /\ Control(s)'.createdAt = command[t].time
      BY <1>0, <2>2, ControlEffects
    <3>. QED
      BY <1>0, <3>1 DEF Timely
  <2>. QED
    BY <2>1, <2>2
<1>. QED
  BY <1>1, <1>2, <1>3 DEF Timely, Proposes

\* A proposal that goes on from the write of its control's record found none
\* there, and leaves one of its own time.
LEMMA WrittenControl ==
  ASSUME Proposals, Step, NEW t \in Terminals, Proposes(t), RecordOnce(t),
         command'[t].does = "PROPOSE", command[t].entries = <<>>
  PROVE  /\ ~Past(command[t]) /\ Control(command[t].stage) = None
         /\ record'[command[t].stage][0] # None
         /\ record'[command[t].stage][0].createdAt = command[t].time
<1>1. command[t] \in Proposing /\ command[t].at = "RECORD" /\ command[t].stage \in Stages
  BY KindOfCommand DEF Proposals, Typed, RecordOnce, Running, Proposing
<1>2. ~Past(command[t]) /\ At(t) = 0
  BY <1>1 DEF Past, At
<1> DEFINE r == [plan |-> Derived(t), createdAt |-> command[t].time]
           s == command[t].stage
<1>3. ~Halt(t)
  <2>1. Halt(t) => command'[t] = Nothing
    BY DEF Proposals, Typed, CommandsOK, Stop, Halt
  <2>. QED
    BY <2>1 DEF Nothing
<1>4. record' = [record EXCEPT ![s][At(t)] = r] /\ record[s][At(t)] \in {None, r}
  BY <1>3 DEF RecordOnce, Accepts, CandidateRecord
<1>5. r \in Records
  BY <1>1, DerivedIsAPlan DEF Records, Proposing, Proposals, Typed
<1>6. record'[s][0] = r
  BY <1>1, <1>2, <1>4, Constants DEF Proposals, Typed, FilesOK
<1>7. Control(s) = None
  BY <1>1, <1>2, <1>4 DEF Proposals, Owned, Control
<1>. QED
  BY <1>2, <1>5, <1>6, <1>7, RecordsAreThere DEF Control

LEMMA StaysOwned == Proposals /\ Step => Owned'
<1> SUFFICES ASSUME Proposals, Step, NEW t \in Terminals, command'[t].does = "PROPOSE"
             PROVE  LET q == command'[t] IN
                      /\ Past(q) => /\ record'[q.stage][0] # None
                                    /\ record'[q.stage][0].createdAt = q.time
                      /\ ~Past(q) /\ record'[q.stage][0] # None =>
                           record'[q.stage][0].createdAt # q.time
  BY DEF Owned, Proposes, Control, Past
<1> DEFINE p == command[t]
           q == command'[t]
<1>0. /\ Typed /\ Timely /\ Owned /\ started \in Nat
      /\ Proposes(t) => p \in Proposing /\ p.stage \in Stages
  BY KindOfCommand DEF Proposals, Typed, FilesOK, Proposing
<1>1. ASSUME Proposes(t), q = p, ~Writes(t)
      PROVE  /\ Past(q) => record'[q.stage][0] # None /\ record'[q.stage][0].createdAt = q.time
             /\ ~Past(q) /\ record'[q.stage][0] # None => record'[q.stage][0].createdAt # q.time
  <2>1. CASE record'[p.stage][0] = Control(p.stage)
    BY <1>0, <1>1, <2>1 DEF Owned
  <2>2. CASE record'[p.stage][0] # Control(p.stage)
    <3>1. PICK u \in Terminals :
            /\ RecordOnce(u) /\ Proposes(u)
            /\ record'[p.stage][0] # None /\ record'[p.stage][0].createdAt = command[u].time
      BY <1>0, <1>1, <2>2, ControlEffects DEF Control
    <3>2. u # t
      BY <1>1, <3>1 DEF Writes
    <3>3. command[u].time # p.time
      BY <1>0, <1>1, <3>1, <3>2 DEF Timely
    <3>4. ~Past(p)
      BY <1>0, <1>1, <2>2, ControlEffects DEF Owned, Control
    <3>. QED
      BY <1>1, <3>1, <3>3, <3>4
  <2>. QED
    BY <2>1, <2>2
<1>2. ASSUME Propose(t)
      PROVE  ~Past(q) /\ (record'[q.stage][0] # None => record'[q.stage][0].createdAt # q.time)
  <2>1. q \in Proposing /\ q.at = "PLAN" /\ q.entries = <<>> /\ q.time = started + 1
    BY <1>0, <1>2, ProposalStarts
  <2>2. record' = record
    BY <1>2 DEF Propose, Run, proposals
  <2>3. q.stage \in Stages
    BY <2>1 DEF Proposing
  <2>4. record'[q.stage][0] = Control(q.stage) /\ Control(q.stage) \in Records \cup {None}
    BY <1>0, <2>2, <2>3, Constants DEF Control, Typed, FilesOK
  <2>5. Control(q.stage) # None => Control(q.stage).createdAt \in Nat /\ Control(q.stage).createdAt <= started
    BY <1>0, <2>3, <2>4 DEF Timely, Records
  <2>. QED
    BY <1>0, <2>1, <2>4, <2>5 DEF Past
<1>3. ASSUME Proposes(t), q.stage = p.stage, q.time = p.time, record' = record,
             Past(q) <=> Past(p)
      PROVE  /\ Past(q) => record'[q.stage][0] # None /\ record'[q.stage][0].createdAt = q.time
             /\ ~Past(q) /\ record'[q.stage][0] # None => record'[q.stage][0].createdAt # q.time
  BY <1>0, <1>3 DEF Owned, Control
<1>4. CASE Render(t) /\ Proposes(t)
  <2>1. p.at = "RENDER" /\ q.stage = p.stage /\ q.time = p.time
    BY <1>0, <1>4, RenderGoesOn
  <2>2. PICK e : q.entries = Append(p.entries, e)
    BY <1>0, <1>4, RenderGoesOn
  <2>4. Past(p) /\ Past(q)
    BY <1>0, <1>4, <2>1, <2>2 DEF Past, Proposing
  <2>3. record' = record
    BY <1>4 DEF Render, proposals
  <2>. QED
    BY <1>3, <1>4, <2>1, <2>3, <2>4
<1>5. ASSUME Proposes(t), q.stage = p.stage, q.time = p.time, q.entries = p.entries,
             RecordOnce(t), p.at = "RECORD", q.at = "RENDER"
      PROVE  Past(q) /\ record'[q.stage][0] # None /\ record'[q.stage][0].createdAt = q.time
  <2>1. Past(q)
    BY <1>5 DEF Past
  <2>2. CASE p.entries = <<>>
    BY <1>5, <2>1, <2>2, WrittenControl
  <2>3. CASE p.entries # <<>>
    <3>1. Past(p)
      BY <2>3 DEF Past
    <3>2. Control(p.stage) # None /\ Control(p.stage).createdAt = p.time
      BY <1>0, <1>5, <3>1 DEF Owned
    <3>3. record'[p.stage][0] = Control(p.stage)
      BY <1>0, <1>5, <3>2, ControlEffects DEF Control
    <3>. QED
      BY <1>5, <2>1, <3>2, <3>3
  <2>. QED
    BY <2>2, <2>3
<1>6. ASSUME Proposes(t), q.entries = p.entries, PlanOnce(t), p.at = "PLAN", q.at = "RECORD"
      PROVE  (Past(q) <=> Past(p)) /\ record' = record
  BY <1>6 DEF Past, PlanOnce
<1>7. ASSUME Proposes(t), WriteComparison(t), p.at = "COMPARISON", q.at = "DIRECTIVES"
      PROVE  (Past(q) <=> Past(p)) /\ record' = record
  BY <1>7 DEF Past, WriteComparison
<1>. QED
  BY <1>0, <1>1, <1>2, <1>3, <1>4, <1>5, <1>6, <1>7, ProposalMoves

LEMMA ComparisonIsFirst ==
  ASSUME Proposals, Step, NEW s \in Stages, comparison'[s] # comparison[s]
  PROVE  /\ comparison[s] = None
         /\ \E t \in Terminals :
              /\ WriteComparison(t) /\ Proposes(t) /\ command[t].at = "COMPARISON"
              /\ s = command[t].stage /\ Past(command[t])
              /\ comparison'[s] = [base |-> command[t].base, entries |-> command[t].entries]
<1>1. PICK t \in Terminals :
        /\ WriteComparison(t) /\ Proposes(t) /\ command[t].at = "COMPARISON"
        /\ s = command[t].stage
        /\ comparison'[s] = [base |-> command[t].base, entries |-> command[t].entries]
  BY ComparisonEffects DEF Proposals
<1>2. Past(command[t])
  BY <1>1 DEF Past
<1>3. comparison[s] = None
  BY <1>1, <1>2 DEF Proposals, ComparedOnce
<1>. QED
  BY <1>1, <1>2, <1>3

LEMMA StaysComparedOnce == Proposals /\ Step => ComparedOnce'
<1> SUFFICES ASSUME Proposals, Step, NEW s \in Stages, comparison'[s] # None
             PROVE  /\ Control(s)' # None
                    /\ \A t \in Terminals :
                         /\ command'[t].does = "PROPOSE" /\ command'[t].stage = s
                         /\ Past(command'[t])
                         => command'[t].at = "DIRECTIVES"
  BY DEF ComparedOnce, Proposes, Control
<1>0. Typed /\ Timely /\ Owned /\ ComparedOnce
  BY DEF Proposals
<1>1. Control(s) # None => Control(s)' = Control(s)
  BY <1>0, ControlEffects
<1>2. CASE comparison'[s] = comparison[s]
  <2>1. Control(s) # None
    BY <1>0, <1>2 DEF ComparedOnce
  <2>2. ASSUME NEW t \in Terminals, command'[t].does = "PROPOSE", command'[t].stage = s,
               Past(command'[t])
        PROVE  command'[t].at = "DIRECTIVES"
    <3> DEFINE p == command[t]
               q == command'[t]
    <3>1. Proposes(t) /\ p.stage = s /\ Past(p) => p.at = "DIRECTIVES"
      BY <1>0, <1>2 DEF ComparedOnce
    <3>2. ~Propose(t)
      BY <1>0, <2>2, ProposalStarts DEF Past
    <3>3. Render(t) => p.at = "RENDER"
      BY DEF Render, Running
    <3>4. CASE Render(t) /\ Proposes(t) /\ q.stage = p.stage
      BY <2>2, <3>1, <3>3, <3>4 DEF Past
    <3>5. CASE Proposes(t) /\ q = p
      BY <2>2, <3>1, <3>5
    <3>6. CASE /\ Proposes(t) /\ PlanOnce(t) /\ p.at = "PLAN" /\ q.at = "RECORD"
               /\ q.stage = p.stage /\ q.entries = p.entries
      BY <2>2, <3>1, <3>6 DEF Past
    <3>7. CASE /\ Proposes(t) /\ RecordOnce(t) /\ p.at = "RECORD" /\ q.at = "RENDER"
               /\ q.stage = p.stage /\ q.entries = p.entries
      BY <2>1, <2>2, <3>1, <3>7, WrittenControl DEF Past
    <3>. QED
      BY <1>0, <2>2, <3>2, <3>4, <3>5, <3>6, <3>7, ProposalMoves
  <2>. QED
    BY <1>1, <2>1, <2>2
<1>3. CASE comparison'[s] # comparison[s]
  <2>1. PICK u \in Terminals :
          /\ WriteComparison(u) /\ Proposes(u) /\ command[u].at = "COMPARISON"
          /\ s = command[u].stage /\ Past(command[u])
    BY <1>3, ComparisonIsFirst
  <2>2. Control(s) # None /\ Control(s).createdAt = command[u].time
    BY <1>0, <2>1 DEF Owned
  <2>3. ASSUME NEW t \in Terminals, command'[t].does = "PROPOSE", command'[t].stage = s,
               Past(command'[t])
        PROVE  command'[t].at = "DIRECTIVES"
    <3>1. Writes(u)
      BY <2>1 DEF Writes
    <3>2. CASE t = u
      BY <1>0, <2>1, <2>3, <3>1, <3>2, WriteEffects DEF Nothing, Finalizing
    <3>3. CASE t # u
      <4>1. command'[t] = command[t]
        BY <1>0, <3>1, <3>3, OthersGoOn
      <4>2. Proposes(t) /\ Control(s).createdAt = command[t].time
        BY <1>0, <2>3, <4>1 DEF Owned, Proposes
      <4>. QED
        BY <1>0, <2>1, <2>2, <3>3, <4>2 DEF Timely
    <3>. QED
      BY <3>2, <3>3
  <2>. QED
    BY <1>1, <2>2, <2>3
<1>. QED
  BY <1>2, <1>3

-----------------------------------------------------------------------------
(* What was watched: the plan a candidate's entry is about is on disk, and *)
(* has only grown by edits since, so where it still is what the entry says *)
(* the render was of it.                                                   *)

Grown(file, derived) == file # NoPlan /\ Len(derived) <= Len(file)

\* A stage's plan files bear out the entries of a comparison.
BearsOut(files, entries) ==
  \A c \in Candidates : c < Len(entries) =>
    LET e == entries[c + 1] IN
      /\ Grown(files[c], e.plan)
      /\ e.master # NoPlan /\ files[c] = e.plan => e.master = e.plan

Deriving(p) == CandidatePlan(p.base, p.ops, Len(p.entries))

\* What is selected is an entry whose master was watched.
Chosen(s, selected) ==
  /\ comparison[s] # None
  /\ selected.candidate < Len(comparison[s].entries)
  /\ Entry(s, selected.candidate) = [plan |-> selected.plan, master |-> selected.plan]

Watched ==
  /\ \A s \in Stages : comparison[s] # None => BearsOut(plan[s], comparison[s].entries)
  /\ \A t \in Terminals : Proposes(t) =>
       /\ BearsOut(plan[command[t].stage], command[t].entries)
       /\ command[t].at \in {"RECORD", "RENDER"} =>
            Grown(plan[command[t].stage][At(t)], Deriving(command[t]))
  /\ \A t \in Terminals : Selects(t) => Chosen(command[t].stage, command[t].selected)
  /\ \A s \in Stages : Settled(s) => Chosen(s, selection[s])

-----------------------------------------------------------------------------
(* What a stage goes on from.                                              *)

\* The plan a stage starts from is the one selected before it.
GoesOnFrom(s, base) == s > 1 => Settled(s - 1) /\ base = selection[s - 1].plan

\* Entries of one proposal: the candidate c has the plan derived for c.
DerivedFrom(base, ops, entries) ==
  \A c \in Candidates : c < Len(entries) => entries[c + 1].plan = CandidatePlan(base, ops, c)

Based ==
  /\ \A t \in Terminals : Proposes(t) =>
       /\ GoesOnFrom(command[t].stage, command[t].base)
       /\ DerivedFrom(command[t].base, command[t].ops, command[t].entries)
       /\ command[t].at = "DIRECTIVES" =>
            comparison[command[t].stage] = [base |-> command[t].base,
                                            entries |-> command[t].entries]
  /\ \A s \in Stages : comparison[s] # None =>
       /\ GoesOnFrom(s, comparison[s].base)
       /\ \E ops \in Seq(Operations) :
            /\ Len(comparison[s].entries) = Len(ops) + 1
            /\ DerivedFrom(comparison[s].base, ops, comparison[s].entries)
            /\ directives[s] # None => ops = directives[s].ops
  /\ \A s \in Stages : directives[s] # None => comparison[s] # None

-----------------------------------------------------------------------------
(* What closes the round.                                                  *)

Approved == [s \in Stages |-> selection[s].plan]

Closed ==
  /\ scorecard \in Cards \cup {None}
  /\ \A t \in Terminals : Finalizes(t) =>
       /\ \A s \in Stages : Settled(s)
       /\ command[t].master = selection[NStages].plan /\ command[t].stages = Approved
       /\ command[t].at \in {"VERDICT", "PROVENANCE"} => scorecard = command[t].card
       /\ command[t].at = "PROVENANCE" => verdict = Verdict(command[t].card, command[t].master)
  /\ verdict # "NONE" =>
       /\ \A s \in Stages : Settled(s)
       /\ scorecard # None /\ verdict = Verdict(scorecard, selection[NStages].plan)
  /\ provenance # None =>
       /\ verdict # "NONE" /\ provenance.verdict = verdict
       /\ provenance.stages = Approved /\ provenance.master = selection[NStages].plan

Round == Proposals /\ Watched /\ Based /\ Closed

-----------------------------------------------------------------------------
(* Every step keeps what was watched.                                      *)

\* Files that bear out entries still do when one is written or edited.
LEMMA BearingOutStays ==
  ASSUME Typed, Step, NEW s \in Stages, NEW entries \in Seq(Shown),
         BearsOut(plan[s], entries)
  PROVE  BearsOut(plan'[s], entries)
<1> SUFFICES ASSUME NEW c \in Candidates, c < Len(entries)
             PROVE  LET e == entries[c + 1] IN
                      /\ Grown(plan'[s][c], e.plan)
                      /\ e.master # NoPlan /\ plan'[s][c] = e.plan => e.master = e.plan
  BY DEF BearsOut
<1> DEFINE e == entries[c + 1]
<1>1. e \in Shown /\ e.plan \in Plans
  <2>1. c + 1 \in 1 .. Len(entries)
    BY Constants DEF Candidates
  <2>2. e \in Shown
    BY <2>1
  <2>. QED
    BY <2>2 DEF Shown
<1>2. /\ plan[s][c] # NoPlan /\ Len(e.plan) <= Len(plan[s][c])
      /\ e.master # NoPlan /\ plan[s][c] = e.plan => e.master = e.plan
  BY DEF BearsOut, Grown
<1>3. CASE plan'[s][c] = plan[s][c]
  BY <1>2, <1>3 DEF Grown
<1>4. CASE plan[s][c] \in Plans /\ plan'[s][c] = Append(plan[s][c], "HAND")
  <2>1. plan'[s][c] \in Plans /\ Len(plan'[s][c]) = Len(plan[s][c]) + 1 /\ Len(plan[s][c]) \in Nat
    BY <1>4 DEF Plans
  <2>2. plan'[s][c] # NoPlan /\ Len(e.plan) \in Nat
    BY <1>1, <2>1, PlansAreThere DEF Plans
  <2>3. Len(e.plan) < Len(plan'[s][c])
    BY <1>2, <2>1, <2>2
  <2>. QED
    BY <2>2, <2>3 DEF Grown
<1>. QED
  BY <1>2, <1>3, <1>4, PlanEffects

LEMMA GrowthStays ==
  ASSUME Typed, Step, NEW s \in Stages, NEW c \in Candidates, NEW derived \in Plans,
         Grown(plan[s][c], derived)
  PROVE  Grown(plan'[s][c], derived)
<1>1. CASE plan'[s][c] = plan[s][c]
  BY <1>1
<1>2. CASE plan[s][c] \in Plans /\ plan'[s][c] = Append(plan[s][c], "HAND")
  <2>1. plan'[s][c] \in Plans /\ Len(plan'[s][c]) = Len(plan[s][c]) + 1
        /\ Len(plan[s][c]) \in Nat /\ Len(derived) \in Nat
    BY <1>2 DEF Plans
  <2>. QED
    BY <2>1, PlansAreThere DEF Grown
<1>. QED
  BY <1>1, <1>2, PlanEffects DEF Grown

\* What a proposal derives.
LEMMA DerivedIs ==
  ASSUME NEW t \in Terminals
  PROVE  Derived(t) = Deriving(command[t])
BY DEF Derived, Deriving, At

\* What became of a selection that is still under way.
LEMMA SelectionMoves ==
  ASSUME Typed, Step, NEW t \in Terminals, command'[t].does = "SELECT"
  PROVE  (Selects(t) /\ command'[t] = command[t]) \/ Select(t)
<1>1. Propose(t) => command'[t].does = "PROPOSE"
  BY ProposalStarts DEF Proposing
<1>2. Finalize(t) => command'[t].does = "FINALIZE"
  BY FinalizationStarts DEF Finalizing
<1>3. Writes(t) => command'[t].does \in {"NOTHING", "PROPOSE", "FINALIZE"}
  BY WriteEffects DEF Nothing, Proposing, Finalizing
<1>4. Render(t) => command'[t].does = "PROPOSE"
  BY RenderGoesOn DEF Proposing
<1>5. Ends(t) => command'[t].does = "NOTHING"
  BY EndEffects DEF Nothing
<1>6. Select(t) \/ command'[t] = command[t]
  BY <1>1, <1>2, <1>3, <1>4, <1>5, OthersGoOn DEF Step, Starts, EditByHand, round
<1>. QED
  BY <1>6 DEF Selects

\* What is chosen from a comparison stays so, for the comparison stands.
LEMMA ChoiceStands ==
  ASSUME Proposals, Step, NEW s \in Stages, NEW selected, Chosen(s, selected)
  PROVE  Chosen(s, selected)'
BY ComparisonIsFirst DEF Chosen, Entry

LEMMA ProposalWatched ==
  ASSUME Round, Step, NEW t \in Terminals, command'[t].does = "PROPOSE"
  PROVE  LET q == command'[t] IN
           /\ BearsOut(plan'[q.stage], q.entries)
           /\ q.at \in {"RECORD", "RENDER"} =>
                Grown(plan'[q.stage][Len(q.entries)], Deriving(q))
<1> DEFINE p == command[t]
           q == command'[t]
<1>0. /\ Typed /\ Proposals /\ q \in Proposing
      /\ Proposes(t) => /\ p \in Proposing /\ BearsOut(plan[p.stage], p.entries)
                        /\ p.at \in {"RECORD", "RENDER"} =>
                             Grown(plan[p.stage][Len(p.entries)], Deriving(p))
                        /\ p.at \in {"PLAN", "RECORD", "RENDER"} =>
                             /\ Deriving(p) \in Plans /\ Len(p.entries) \in Candidates
                             /\ Deriving(p) = Derived(t) /\ Len(p.entries) = At(t)
  <2>1. Typed /\ Proposals /\ Watched
    BY DEF Round, Proposals
  <2>2. CommandsOK'
    BY <2>1, CommandTypes
  <2>3. q \in Proposing
    BY <2>2 DEF CommandsOK, Proposing, Selecting, Finalizing, Nothing
  <2>4. Proposes(t) /\ p.at \in {"PLAN", "RECORD", "RENDER"} =>
          /\ Deriving(p) \in Plans /\ Len(p.entries) \in Candidates
          /\ Deriving(p) = Derived(t) /\ Len(p.entries) = At(t)
    BY <2>1, DerivedIsAPlan, DerivedIs DEF At, Typed
  <2>5. Proposes(t) => p \in Proposing
    BY <2>1, KindOfCommand DEF Typed
  <2>. QED
    BY <2>1, <2>3, <2>4, <2>5 DEF Watched, At
<1>1. ASSUME Proposes(t), q.stage = p.stage, q.entries = p.entries
      PROVE  BearsOut(plan'[q.stage], q.entries)
  BY <1>0, <1>1, BearingOutStays DEF Proposing
<1>2. ASSUME Proposes(t), q.stage = p.stage, q.base = p.base, q.ops = p.ops,
             q.entries = p.entries, p.at \in {"RECORD", "RENDER"}
      PROVE  Grown(plan'[q.stage][Len(q.entries)], Deriving(q))
  <2>1. Deriving(q) = Deriving(p) /\ p.stage \in Stages
    BY <1>0, <1>2 DEF Deriving, Proposing
  <2>. QED
    BY <1>0, <1>2, <2>1, GrowthStays
<1>3. CASE Proposes(t) /\ q = p
  BY <1>1, <1>2, <1>3
<1>4. CASE Propose(t)
  <2>1. q.entries = <<>> /\ q.at = "PLAN"
    BY <1>0, <1>4, ProposalStarts
  <2>. QED
    BY <2>1, Constants DEF BearsOut, Candidates
<1>5. CASE Render(t) /\ Proposes(t)
  <2>1. /\ p.at = "RENDER" /\ p \in Proposing /\ q.stage = p.stage
        /\ q.at \in {"PLAN", "COMPARISON"} /\ plan' = plan
    BY <1>0, <1>5, RenderGoesOn DEF Render, proposals
  <2>2. PICK master \in {NoPlan, plan[p.stage][At(t)]} :
          q.entries = Append(p.entries, [plan |-> Derived(t), master |-> master])
    BY <1>0, <1>5, RenderGoesOn
  <2> DEFINE e == [plan |-> Derived(t), master |-> master]
  <2>3. Grown(plan[p.stage][Len(p.entries)], e.plan)
        /\ (e.master # NoPlan /\ plan[p.stage][Len(p.entries)] = e.plan => e.master = e.plan)
    BY <1>0, <1>5, <2>1, <2>2
  <2>4. ASSUME NEW c \in Candidates, c < Len(q.entries)
        PROVE  IF c = Len(p.entries) THEN q.entries[c + 1] = e
               ELSE c < Len(p.entries) /\ q.entries[c + 1] = p.entries[c + 1]
    BY <2>1, <2>2, <2>4, Constants DEF Candidates, Proposing
  <2>. QED
    BY <1>0, <1>5, <2>1, <2>3, <2>4 DEF BearsOut
<1>6. CASE /\ Proposes(t) /\ PlanOnce(t) /\ p.at = "PLAN" /\ q.at = "RECORD"
           /\ q.stage = p.stage /\ q.base = p.base /\ q.ops = p.ops /\ q.entries = p.entries
  <2>1. ~Halt(t)
    BY <1>0 DEF Typed, CommandsOK, Stop, Halt, Nothing, Proposing
  <2>2. plan' = [plan EXCEPT ![p.stage][At(t)] = Derived(t)]
    BY <1>6, <2>1 DEF PlanOnce
  <2>3. plan'[p.stage][Len(p.entries)] = Deriving(p)
    BY <1>0, <1>6, <2>2 DEF Typed, FilesOK, Proposing
  <2>4. Grown(Deriving(p), Deriving(p))
    BY <1>0, <1>6, PlansAreThere DEF Grown, Plans
  <2>5. Deriving(q) = Deriving(p)
    BY <1>6 DEF Deriving
  <2>. QED
    BY <1>1, <1>6, <2>3, <2>4, <2>5
<1>7. CASE /\ Proposes(t) /\ RecordOnce(t) /\ p.at = "RECORD" /\ q.at = "RENDER"
           /\ q.stage = p.stage /\ q.base = p.base /\ q.ops = p.ops /\ q.entries = p.entries
  BY <1>1, <1>2, <1>7
<1>8. CASE /\ Proposes(t) /\ WriteComparison(t) /\ q.at = "DIRECTIVES"
           /\ q.stage = p.stage /\ q.entries = p.entries
  BY <1>1, <1>8
<1>. QED
  BY <1>0, <1>3, <1>4, <1>5, <1>6, <1>7, <1>8, ProposalMoves

LEMMA StaysWatched == Round /\ Step => Watched'
<1> SUFFICES ASSUME Round, Step PROVE Watched'
  OBVIOUS
<1>0. /\ Typed /\ Proposals /\ Watched
      /\ comparison \in [Stages -> Comparisons \cup {None}]
  BY DEF Round, Proposals, Typed, FilesOK
<1>1. ASSUME NEW s \in Stages, comparison'[s] # None
      PROVE  BearsOut(plan'[s], comparison'[s].entries)
  <2>1. CASE comparison'[s] = comparison[s]
    BY <1>0, <1>1, <2>1, BearingOutStays DEF Watched, Comparisons
  <2>2. CASE comparison'[s] # comparison[s]
    <3>1. PICK t \in Terminals :
            /\ Proposes(t) /\ s = command[t].stage
            /\ comparison'[s] = [base |-> command[t].base, entries |-> command[t].entries]
      BY <1>0, <2>2, ComparisonIsFirst
    <3>2. command[t] \in Proposing /\ BearsOut(plan[s], command[t].entries)
      BY <1>0, <3>1, KindOfCommand DEF Watched, Typed
    <3>. QED
      BY <1>0, <3>1, <3>2, BearingOutStays DEF Proposing
  <2>. QED
    BY <2>1, <2>2
<1>2. ASSUME NEW t \in Terminals, command'[t].does = "PROPOSE"
      PROVE  /\ BearsOut(plan'[command'[t].stage], command'[t].entries)
             /\ command'[t].at \in {"RECORD", "RENDER"} =>
                  Grown(plan'[command'[t].stage][Len(command'[t].entries)], Deriving(command'[t]))
  BY <1>2, ProposalWatched
<1>3. ASSUME NEW t \in Terminals, command'[t].does = "SELECT"
      PROVE  /\ comparison'[command'[t].stage] # None
             /\ command'[t].selected.candidate < Len(comparison'[command'[t].stage].entries)
             /\ comparison'[command'[t].stage].entries[command'[t].selected.candidate + 1]
                  = [plan |-> command'[t].selected.plan, master |-> command'[t].selected.plan]
  <2>1. CASE Selects(t) /\ command'[t] = command[t]
    <3>1. Chosen(command[t].stage, command[t].selected) /\ command[t].stage \in Stages
      BY <1>0, <2>1, KindOfCommand DEF Watched, Typed, Selecting
    <3>2. comparison'[command[t].stage] = comparison[command[t].stage]
      BY <1>0, <3>1, ComparisonIsFirst DEF Chosen
    <3>. QED
      BY <2>1, <3>1, <3>2 DEF Chosen, Entry
  <2>2. CASE Select(t)
    <3> DEFINE s == command'[t].stage
               c == command'[t].selected.candidate
               e == comparison[s].entries[c + 1]
    <3>1. /\ comparison[s] # None /\ c < Len(comparison[s].entries)
          /\ e.master # NoPlan /\ plan[s][c] = e.plan
          /\ command'[t].selected.plan = plan[s][c]
          /\ s \in Stages /\ c \in Candidates
      BY <1>0, <2>2, SelectionStarts DEF Selecting, Selected, Entry, AsCompared
    <3>2. e.master = e.plan
      BY <1>0, <3>1 DEF Watched, BearsOut
    <3>3. e \in Shown
      BY <1>0, <3>1, Constants DEF Comparisons, Candidates
    <3>4. comparison' = comparison
      BY <2>2 DEF Select, Run, proposals
    <3>. QED
      BY <3>1, <3>2, <3>3, <3>4 DEF Shown
  <2>. QED
    BY <1>0, <1>3, <2>1, <2>2, SelectionMoves
<1>4. ASSUME NEW s \in Stages, selection'[s] # None
      PROVE  Chosen(s, selection'[s])
  <2>1. CASE selection'[s] = selection[s]
    BY <1>0, <1>4, <2>1 DEF Watched, Settled
  <2>2. CASE selection'[s] # selection[s]
    <3>1. PICK t \in Terminals : /\ Selects(t) /\ s = command[t].stage
                                 /\ selection'[s] = command[t].selected
      BY <1>0, <2>2, SelectionEffects
    <3>. QED
      BY <1>0, <3>1 DEF Watched
  <2>. QED
    BY <2>1, <2>2
<1>5. ASSUME NEW s \in Stages, selection'[s] # None
      PROVE  /\ comparison'[s] # None
             /\ selection'[s].candidate < Len(comparison'[s].entries)
             /\ comparison'[s].entries[selection'[s].candidate + 1]
                  = [plan |-> selection'[s].plan, master |-> selection'[s].plan]
  <2>1. Chosen(s, selection'[s])
    BY <1>4, <1>5
  <2>2. comparison'[s] = comparison[s]
    BY <1>0, <2>1, ComparisonIsFirst DEF Chosen
  <2>. QED
    BY <2>1, <2>2 DEF Chosen, Entry
<1>. QED
  BY <1>1, <1>2, <1>3, <1>5
  DEF Watched, Chosen, Entry, Settled, Proposes, Selects, At

-----------------------------------------------------------------------------
(* Every step keeps what a stage goes on from.                             *)

LEMMA SelectionStands ==
  ASSUME Typed, Step, NEW s \in Stages, Settled(s)
  PROVE  selection'[s] = selection[s]
BY SelectionEffects DEF Settled

LEMMA BaseStands ==
  ASSUME Typed, Step, NEW s \in Stages, NEW base, GoesOnFrom(s, base)
  PROVE  s > 1 => selection'[s - 1] # None /\ base = selection'[s - 1].plan
<1>1. s > 1 => s - 1 \in Stages
  BY Constants DEF Stages
<1>. QED
  BY <1>1, SelectionStands DEF GoesOnFrom, Settled

LEMMA ComparisonsAreThere == None \notin Comparisons
BY DEF Comparisons, None

LEMMA ProposalBased ==
  ASSUME Round, Step, NEW t \in Terminals, command'[t].does = "PROPOSE"
  PROVE  LET q == command'[t] IN
           /\ q.stage > 1 => selection'[q.stage - 1] # None /\ q.base = selection'[q.stage - 1].plan
           /\ DerivedFrom(q.base, q.ops, q.entries)
           /\ q.at = "DIRECTIVES" =>
                comparison'[q.stage] = [base |-> q.base, entries |-> q.entries]
<1> DEFINE p == command[t]
           q == command'[t]
<1>0. /\ Typed /\ Proposals /\ comparison \in [Stages -> Comparisons \cup {None}]
      /\ Proposes(t) =>
           /\ p \in Proposing /\ p.stage \in Stages
           /\ GoesOnFrom(p.stage, p.base) /\ DerivedFrom(p.base, p.ops, p.entries)
           /\ p.at = "DIRECTIVES" =>
                comparison[p.stage] = [base |-> p.base, entries |-> p.entries]
  BY KindOfCommand DEF Round, Proposals, Typed, FilesOK, Based, Proposing
<1>1. ASSUME Proposes(t), q.stage = p.stage, q.base = p.base
      PROVE  q.stage > 1 => selection'[q.stage - 1] # None /\ q.base = selection'[q.stage - 1].plan
  BY <1>0, <1>1, BaseStands
<1>2. ASSUME Proposes(t), p.at = "DIRECTIVES", q = p
      PROVE  comparison'[q.stage] = [base |-> q.base, entries |-> q.entries]
  <2>1. [base |-> p.base, entries |-> p.entries] \in Comparisons
    BY <1>0, <1>2 DEF Comparisons, Proposing
  <2>. QED
    BY <1>0, <1>2, <2>1, ComparisonIsFirst, ComparisonsAreThere
<1>3. CASE Proposes(t) /\ q = p
  BY <1>0, <1>1, <1>2, <1>3
<1>4. CASE Propose(t)
  <2>1. /\ q.entries = <<>> /\ q.at = "PLAN" /\ q \in Proposing
        /\ q.stage > 1 => Settled(q.stage - 1) /\ q.stage - 1 \in Stages
                          /\ q.base = selection[q.stage - 1].plan
    BY <1>0, <1>4, ProposalStarts
  <2>2. DerivedFrom(q.base, q.ops, q.entries)
    BY <2>1, Constants DEF DerivedFrom, Candidates
  <2>3. GoesOnFrom(q.stage, q.base) /\ q.stage \in Stages
    BY <2>1 DEF GoesOnFrom, Proposing
  <2>. QED
    BY <1>0, <2>1, <2>2, <2>3, BaseStands
<1>5. CASE Render(t) /\ Proposes(t) /\ q.stage = p.stage /\ q.base = p.base /\ q.ops = p.ops
  <2>1. q.at \in {"PLAN", "COMPARISON"}
    BY <1>0, <1>5, RenderGoesOn
  <2>2. PICK master : q.entries = Append(p.entries, [plan |-> Derived(t), master |-> master])
    BY <1>0, <1>5, RenderGoesOn
  <2>3. ASSUME NEW c \in Candidates, c < Len(q.entries)
        PROVE  q.entries[c + 1].plan = CandidatePlan(p.base, p.ops, c)
    <3>1. CASE c = Len(p.entries)
      BY <1>0, <1>5, <2>2, <3>1 DEF Derived, At, Proposing
    <3>2. CASE c # Len(p.entries)
      <4>1. c < Len(p.entries) /\ q.entries[c + 1] = p.entries[c + 1]
        BY <1>0, <1>5, <2>2, <2>3, <3>2, Constants DEF Candidates, Proposing
      <4>. QED
        BY <1>0, <1>5, <4>1 DEF DerivedFrom
    <3>. QED
      BY <3>1, <3>2
  <2>. QED
    BY <1>1, <1>5, <2>1, <2>3 DEF DerivedFrom
<1>6. CASE /\ Proposes(t) /\ q.at \in {"RECORD", "RENDER"}
           /\ q.stage = p.stage /\ q.base = p.base /\ q.ops = p.ops /\ q.entries = p.entries
  BY <1>0, <1>1, <1>6
<1>7. CASE /\ Proposes(t) /\ WriteComparison(t)
           /\ q.stage = p.stage /\ q.base = p.base /\ q.ops = p.ops /\ q.entries = p.entries
  <2>1. comparison'[p.stage] = [base |-> p.base, entries |-> p.entries]
    BY <1>0, <1>7 DEF WriteComparison
  <2>. QED
    BY <1>0, <1>1, <1>7, <2>1
<1>. QED
  BY <1>0, <1>3, <1>4, <1>5, <1>6, <1>7, ProposalMoves

\* What a proposal derived, and compared, by its directives.
LEMMA ComparedByDirectives ==
  ASSUME Round, NEW t \in Terminals, Proposes(t), command[t].at \in {"COMPARISON", "DIRECTIVES"}
  PROVE  /\ command[t] \in Proposing /\ command[t].ops \in Seq(Operations)
         /\ Len(command[t].entries) = Len(command[t].ops) + 1
         /\ DerivedFrom(command[t].base, command[t].ops, command[t].entries)
         /\ GoesOnFrom(command[t].stage, command[t].base)
BY KindOfCommand DEF Round, Proposals, Typed, Based, Proposing, InTurn

LEMMA ComparisonBased ==
  ASSUME Round, Step, NEW s \in Stages, comparison'[s] # None
  PROVE  /\ s > 1 => selection'[s - 1] # None /\ comparison'[s].base = selection'[s - 1].plan
         /\ \E ops \in Seq(Operations) :
              /\ Len(comparison'[s].entries) = Len(ops) + 1
              /\ DerivedFrom(comparison'[s].base, ops, comparison'[s].entries)
              /\ directives'[s] # None => ops = directives'[s].ops
<1>0. Typed /\ Proposals /\ Based
  BY DEF Round, Proposals
<1>1. CASE comparison'[s] # comparison[s]
  <2>1. PICK t \in Terminals :
          /\ WriteComparison(t) /\ Proposes(t) /\ command[t].at = "COMPARISON"
          /\ s = command[t].stage
          /\ comparison'[s] = [base |-> command[t].base, entries |-> command[t].entries]
    BY <1>0, <1>1, ComparisonIsFirst
  <2>2. directives'[s] = None
    BY <1>0, <1>1, <2>1, ComparisonIsFirst DEF WriteComparison, Based
  <2>. QED
    BY <1>0, <2>1, <2>2, ComparedByDirectives, BaseStands
<1>2. CASE comparison'[s] = comparison[s] /\ directives'[s] = directives[s]
  BY <1>0, <1>2, BaseStands DEF Based
<1>3. CASE comparison'[s] = comparison[s] /\ directives'[s] # directives[s]
  <2>1. PICK t \in Terminals :
          /\ Proposes(t) /\ command[t].at = "DIRECTIVES"
          /\ s = command[t].stage /\ directives'[s] = [ops |-> command[t].ops]
    BY <1>0, <1>3, DirectivesEffects
  <2>2. comparison[s] = [base |-> command[t].base, entries |-> command[t].entries]
    BY <1>0, <2>1 DEF Based
  <2>. QED
    BY <1>0, <1>3, <2>1, <2>2, ComparedByDirectives, BaseStands
<1>. QED
  BY <1>1, <1>2, <1>3

LEMMA StaysBased == Round /\ Step => Based'
<1> SUFFICES ASSUME Round, Step PROVE Based'
  OBVIOUS
<1>0. Typed /\ Proposals /\ Based
  BY DEF Round, Proposals
<1>1. ASSUME NEW s \in Stages, directives'[s] # None
      PROVE  comparison'[s] # None
  <2>1. comparison[s] # None
    <3>1. CASE directives'[s] = directives[s]
      BY <1>0, <1>1, <3>1 DEF Based
    <3>2. CASE directives'[s] # directives[s]
      <4>1. PICK t \in Terminals :
              Proposes(t) /\ command[t].at = "DIRECTIVES" /\ s = command[t].stage
        BY <1>0, <3>2, DirectivesEffects
      <4>2. comparison[s] = [base |-> command[t].base, entries |-> command[t].entries]
        BY <1>0, <4>1 DEF Based
      <4>. QED
        BY <4>1, <4>2, ComparedByDirectives, ComparisonsAreThere DEF Comparisons, Proposing
    <3>. QED
      BY <3>1, <3>2
  <2>. QED
    BY <1>0, <2>1, ComparisonIsFirst
<1>. QED
  BY <1>1, ProposalBased, ComparisonBased DEF Based, GoesOnFrom, Settled, Proposes

-----------------------------------------------------------------------------
(* Every step keeps what closes the round.                                 *)

LEMMA CardsAreThere == None \notin Cards
BY DEF Cards, None

\* Once all stages are settled, what is approved stands.
LEMMA ApprovedForGood ==
  ASSUME Typed, Step, \A s \in Stages : Settled(s)
  PROVE  /\ \A s \in Stages : selection'[s] # None
         /\ Approved' = Approved /\ selection'[NStages].plan = selection[NStages].plan
<1>1. \A s \in Stages : selection'[s] = selection[s] /\ selection[s] # None
  BY SelectionStands DEF Settled
<1>. QED
  BY <1>1, Constants DEF Approved

\* The scorecard is written where there was none; the verdict is of a scorecard
\* that is the one on record.
LEMMA ClosingEffects ==
  ASSUME Round, Step
  PROVE  /\ scorecard # None => scorecard' = scorecard
         /\ scorecard' \in Cards \cup {None}
         /\ verdict' # verdict =>
              \E t \in Terminals :
                /\ Finalizes(t) /\ command[t].at = "VERDICT"
                /\ verdict' = Verdict(command[t].card, command[t].master)
         /\ provenance' # provenance =>
              \E t \in Terminals :
                /\ Finalizes(t) /\ command[t].at = "PROVENANCE"
                /\ provenance' = [stages |-> command[t].stages, master |-> command[t].master,
                                  verdict |-> Verdict(command[t].card, command[t].master)]
<1>0. Typed /\ scorecard \in Cards \cup {None}
  BY DEF Round, Proposals, Closed
<1>1. ASSUME NEW t \in Terminals, ScorecardOnce(t), scorecard' # scorecard
      PROVE  scorecard = None /\ scorecard' \in Cards
  <2>1. command[t].card \in Cards
    BY <1>0, <1>1, KindOfCommand
    DEF ScorecardOnce, Running, Typed, Finalizes, Finalizing
  <2>2. scorecard' = command[t].card /\ scorecard \in {None, command[t].card}
    BY <1>1 DEF ScorecardOnce, Accepts
  <2>. QED
    BY <1>1, <2>1, <2>2
<1>2. ASSUME NEW t \in Terminals, WriteVerdict(t)
      PROVE  /\ Finalizes(t) /\ command[t].at = "VERDICT"
             /\ verdict' = Verdict(command[t].card, command[t].master)
  BY <1>2 DEF WriteVerdict, Running, Finalizes
<1>3. ASSUME NEW t \in Terminals, WriteProvenance(t)
      PROVE  /\ Finalizes(t) /\ command[t].at = "PROVENANCE"
             /\ provenance' = [stages |-> command[t].stages, master |-> command[t].master,
                               verdict |-> Verdict(command[t].card, command[t].master)]
  BY <1>3 DEF WriteProvenance, Running, Finalizes
<1>. QED
  BY <1>0, <1>1, <1>2, <1>3, Writers

\* The verdict on record is the one on the scorecard and the plan approved last.
LEMMA VerdictsAgree ==
  ASSUME Closed, NEW t \in Terminals, Finalizes(t), command[t] \in Finalizing,
         command[t].at \in {"VERDICT", "PROVENANCE"}
  PROVE  /\ scorecard = command[t].card /\ scorecard # None
         /\ \A s \in Stages : Settled(s)
         /\ Verdict(command[t].card, command[t].master) =
              Verdict(scorecard, selection[NStages].plan)
BY CardsAreThere DEF Closed, Finalizing

LEMMA FinalizationClosed ==
  ASSUME Round, Step, NEW t \in Terminals, command'[t].does = "FINALIZE"
  PROVE  LET f == command'[t] IN
           /\ \A s \in Stages : selection'[s] # None
           /\ f.master = selection'[NStages].plan /\ f.stages = Approved'
           /\ f.at \in {"VERDICT", "PROVENANCE"} => scorecard' = f.card
           /\ f.at = "PROVENANCE" => verdict' = Verdict(f.card, f.master)
<1> DEFINE f == command'[t]
<1>0. Typed /\ Closed /\ (Finalizes(t) => command[t] \in Finalizing)
  BY KindOfCommand DEF Round, Proposals, Typed
<1>1. CASE Finalize(t)
  <2>1. /\ f.at = "SCORECARD" /\ \A s \in Stages : Settled(s)
        /\ f.stages = Approved /\ f.master = selection[NStages].plan
    BY <1>0, <1>1, FinalizationStarts DEF Approved
  <2>. QED
    BY <1>0, <2>1, ApprovedForGood
<1>2. ASSUME Finalizes(t), f.master = command[t].master, f.stages = command[t].stages
      PROVE  /\ \A s \in Stages : selection'[s] # None
             /\ f.master = selection'[NStages].plan /\ f.stages = Approved'
  BY <1>0, <1>2, ApprovedForGood DEF Closed
<1>3. ASSUME Finalizes(t), command[t].at \in {"VERDICT", "PROVENANCE"}
      PROVE  scorecard' = command[t].card
  BY <1>0, <1>3, ClosingEffects, VerdictsAgree
<1>4. CASE Finalizes(t) /\ f = command[t]
  <2>1. ASSUME f.at = "PROVENANCE" PROVE verdict' = Verdict(f.card, f.master)
    <3>1. verdict = Verdict(f.card, f.master)
      BY <1>0, <1>4, <2>1 DEF Closed
    <3>2. CASE verdict' # verdict
      <4>1. PICK u \in Terminals :
              /\ Finalizes(u) /\ command[u].at = "VERDICT"
              /\ verdict' = Verdict(command[u].card, command[u].master)
        BY <3>2, ClosingEffects
      <4>2. command[u] \in Finalizing
        BY <1>0, <4>1, KindOfCommand DEF Typed
      <4>. QED
        BY <1>0, <1>4, <2>1, <4>1, <4>2, VerdictsAgree
    <3>. QED
      BY <3>1, <3>2
  <2>. QED
    BY <1>2, <1>3, <1>4, <2>1
<1>5. CASE /\ Finalizes(t) /\ Writes(t) /\ f.master = command[t].master
           /\ f.stages = command[t].stages /\ f.card = command[t].card
           /\ <<command[t].at, f.at>> \in {<<"SCORECARD", "VERDICT">>, <<"VERDICT", "PROVENANCE">>}
  <2>1. ~Halt(t)
    BY <1>0 DEF Typed, CommandsOK, Stop, Halt, Nothing
  <2>2. command[t].does = "FINALIZE"
    BY <1>5 DEF Finalizes
  <2>3. CASE command[t].at = "SCORECARD"
    <3>1. ScorecardOnce(t)
      BY <1>5, <2>2, <2>3
      DEF Writes, PlanOnce, RecordOnce, WriteComparison, WriteVerdict, Running
    <3>2. scorecard' = command[t].card
      BY <2>1, <3>1 DEF ScorecardOnce
    <3>. QED
      BY <1>2, <1>5, <2>3, <3>2
  <2>4. CASE command[t].at = "VERDICT"
    <3>1. WriteVerdict(t)
      BY <1>5, <2>2, <2>4
      DEF Writes, PlanOnce, RecordOnce, WriteComparison, ScorecardOnce, Running
    <3>2. verdict' = Verdict(command[t].card, command[t].master)
      BY <3>1 DEF WriteVerdict
    <3>. QED
      BY <1>2, <1>3, <1>5, <2>4, <3>2
  <2>. QED
    BY <1>5, <2>3, <2>4
<1>6. Finalize(t) \/ Writes(t) \/ command'[t] = command[t]
  <2>1. Propose(t) => f.does = "PROPOSE"
    BY <1>0, ProposalStarts DEF Proposing
  <2>2. Select(t) => f.does = "SELECT"
    BY <1>0, SelectionStarts DEF Selecting
  <2>3. Render(t) => f.does = "PROPOSE"
    BY <1>0, RenderGoesOn DEF Proposing
  <2>4. Ends(t) => f.does = "NOTHING"
    BY <1>0, EndEffects DEF Nothing
  <2>. QED
    BY <1>0, <2>1, <2>2, <2>3, <2>4, OthersGoOn DEF Step, Starts, EditByHand, round
<1>7. Writes(t) =>
        /\ Finalizes(t) /\ f.master = command[t].master
        /\ f.stages = command[t].stages /\ f.card = command[t].card
        /\ <<command[t].at, f.at>> \in {<<"SCORECARD", "VERDICT">>, <<"VERDICT", "PROVENANCE">>}
  BY <1>0, WriteEffects DEF Nothing, Proposing
<1>. QED
  BY <1>1, <1>4, <1>5, <1>6, <1>7 DEF Finalizes

LEMMA StaysClosed == Round /\ Step => Closed'
<1> SUFFICES ASSUME Round, Step PROVE Closed'
  OBVIOUS
<1>0. Typed /\ Closed
  BY DEF Round, Proposals
<1>1. scorecard' \in Cards \cup {None}
  BY ClosingEffects
<1>2. ASSUME verdict' # "NONE"
      PROVE  /\ \A s \in Stages : selection'[s] # None
             /\ scorecard' # None /\ verdict' = Verdict(scorecard', selection'[NStages].plan)
  <2>1. /\ \A s \in Stages : Settled(s)
        /\ scorecard # None /\ verdict' = Verdict(scorecard, selection[NStages].plan)
    <3>1. CASE verdict' = verdict
      BY <1>0, <1>2, <3>1 DEF Closed
    <3>2. CASE verdict' # verdict
      <4>1. PICK t \in Terminals :
              /\ Finalizes(t) /\ command[t].at = "VERDICT"
              /\ verdict' = Verdict(command[t].card, command[t].master)
        BY <3>2, ClosingEffects
      <4>2. command[t] \in Finalizing
        BY <1>0, <4>1, KindOfCommand DEF Typed
      <4>. QED
        BY <1>0, <4>1, <4>2, VerdictsAgree
    <3>. QED
      BY <3>1, <3>2
  <2>2. scorecard' = scorecard
    BY <2>1, ClosingEffects
  <2>. QED
    BY <1>0, <2>1, <2>2, ApprovedForGood
<1>3. ASSUME provenance' # None
      PROVE  /\ verdict' # "NONE" /\ provenance'.verdict = verdict'
             /\ provenance'.stages = Approved' /\ provenance'.master = selection'[NStages].plan
  <2>1. /\ \A s \in Stages : Settled(s) /\ scorecard # None
        /\ verdict = Verdict(scorecard, selection[NStages].plan)
        /\ provenance'.verdict = verdict
        /\ provenance'.stages = Approved /\ provenance'.master = selection[NStages].plan
    <3>1. CASE provenance' = provenance
      BY <1>0, <1>3, <3>1 DEF Closed
    <3>2. CASE provenance' # provenance
      <4>1. PICK t \in Terminals :
              /\ Finalizes(t) /\ command[t].at = "PROVENANCE"
              /\ provenance' = [stages |-> command[t].stages, master |-> command[t].master,
                                verdict |-> Verdict(command[t].card, command[t].master)]
        BY <3>2, ClosingEffects
      <4>2. command[t] \in Finalizing
        BY <1>0, <4>1, KindOfCommand DEF Typed
      <4>3. /\ command[t].stages = Approved /\ command[t].master = selection[NStages].plan
            /\ verdict = Verdict(command[t].card, command[t].master)
        BY <1>0, <4>1 DEF Closed
      <4>. QED
        BY <1>0, <4>1, <4>2, <4>3, VerdictsAgree
    <3>. QED
      BY <3>1, <3>2
  <2>2. verdict # "NONE"
    BY <2>1 DEF Verdict
  <2>3. verdict' = verdict
    <3>1. CASE verdict' # verdict
      <4>1. PICK t \in Terminals :
              /\ Finalizes(t) /\ command[t].at = "VERDICT"
              /\ verdict' = Verdict(command[t].card, command[t].master)
        BY <3>1, ClosingEffects
      <4>2. command[t] \in Finalizing
        BY <1>0, <4>1, KindOfCommand DEF Typed
      <4>. QED
        BY <1>0, <2>1, <4>1, <4>2, VerdictsAgree
    <3>. QED
      BY <3>1
  <2>. QED
    BY <1>0, <2>1, <2>2, <2>3, ApprovedForGood
<1>. QED
  BY <1>1, <1>2, <1>3, FinalizationClosed DEF Closed, Settled, Finalizes

-----------------------------------------------------------------------------
(* The theorems.                                                           *)

LEMMA RoundOpens == Init => Round
<1> SUFFICES ASSUME Init PROVE Round
  OBVIOUS
<1>1. FilesOK
  BY PlansAreThere DEF Init, FilesOK, Masters
<1>2. \A t \in Terminals : command[t] = Nothing /\ ~Proposes(t) /\ ~Selects(t) /\ ~Finalizes(t)
  BY DEF Init, Nothing, Proposes, Selects, Finalizes
<1>3. CommandsOK
  BY <1>2 DEF Init, CommandsOK
<1>4. \A s \in Stages : /\ comparison[s] = None /\ directives[s] = None /\ ~Settled(s)
                        /\ Control(s) = None
  BY Constants DEF Init, Settled, Control
<1>5. Closed
  BY <1>2 DEF Init, Closed
<1>. QED
  BY <1>1, <1>2, <1>3, <1>4, <1>5
  DEF Round, Proposals, Typed, MastersWatched, Timely, Owned, ComparedOnce, Watched, Based

LEMMA RoundGoesOn == Round /\ Step => Round'
<1> SUFFICES ASSUME Round, Step PROVE Round'
  OBVIOUS
<1>1. Proposals /\ Typed
  BY DEF Round, Proposals
<1>2. Watched' /\ MastersWatched'
  <2>1. Watched'
    BY StaysWatched
  <2>2. ASSUME NEW s \in Stages, selection'[s] # None
        PROVE  /\ comparison'[s] # None
               /\ comparison'[s].entries[selection'[s].candidate + 1].master = selection'[s].plan
    <3>1. Chosen(s, selection[s])'
      BY <2>1, <2>2 DEF Watched, Settled
    <3>. QED
      BY <3>1 DEF Chosen, Entry
  <2>. QED
    BY <2>1, <2>2 DEF MastersWatched, Settled, Entry
<1>3. Typed'
  BY <1>1, <1>2, FileTypes, CommandTypes DEF Typed
<1>4. Timely' /\ Owned' /\ ComparedOnce'
  BY <1>1, StaysTimely, StaysOwned, StaysComparedOnce
<1>. QED
  BY <1>2, <1>3, <1>4, StaysBased, StaysClosed DEF Round, Proposals

\* What was written over stays written over.
LEMMA IntactBefore ==
  ASSUME [Next]_vars, Intact'
  PROVE  Intact
<1>1. ASSUME NEW t \in Terminals, NEW file, NEW none, NEW new,
             \/ LooksFor(t, file, none) \/ Puts(t, file, none, new)
             \/ Finds(t, file, new) \/ Refuses(t, file, none, new)
      PROVE  Intact
  BY <1>1, PutsOnce DEF LooksFor, Finds, Refuses, Intact, looks
<1>2. ASSUME NEW t \in Terminals, Propose(t) \/ Select(t) \/ Finalize(t) PROVE Intact
  BY <1>2 DEF Propose, Select, Finalize, Run, Intact, looks
<1>3. ASSUME NEW t \in Terminals, WritePlan(t) \/ WriteRecord(t) PROVE Intact
  BY <1>1, <1>3 DEF WritePlan, WriteRecord
<1>4. ASSUME NEW t \in Terminals, WriteDirectives(t) \/ WriteSelection(t) \/ WriteScorecard(t)
      PROVE  Intact
  BY <1>1, <1>4 DEF WriteDirectives, WriteSelection, WriteScorecard
<1>5. ASSUME NEW t \in Terminals,
             \/ Render(t) \/ WriteComparison(t) \/ WriteVerdict(t)
             \/ WriteProvenance(t) \/ Die(t)
      PROVE  Intact
  BY <1>5 DEF Render, WriteComparison, WriteVerdict, WriteProvenance, Die, Intact, looks
<1>6. CASE EditByHand \/ UNCHANGED vars
  BY <1>6 DEF EditByHand, Intact, looks, vars
<1>. QED
  BY <1>2, <1>3, <1>4, <1>5, <1>6 DEF Next

\* While no file is written over, a step of the round is a step of one whose
\* writeOnce looks and writes at once, or changes no file.
LEMMA IntactSteps ==
  ASSUME Typed, [Next]_vars, Intact'
  PROVE  Step
<1>1. ASSUME NEW t \in Terminals, Stop(t) PROVE Halt(t)
  BY <1>1 DEF Stop, Halt
<1>2. ASSUME NEW t \in Terminals, WritePlan(t)
      PROVE  PlanOnce(t) \/ UNCHANGED round
  <2> DEFINE s == command[t].stage
             file == plan[s][At(t)]
  <2>1. CASE /\ Puts(t, file, NoPlan, Derived(t)) /\ GoOn(t, "RECORD")
             /\ plan' = [plan EXCEPT ![s][At(t)] = Derived(t)]
    <3>1. Accepts(NoPlan, file, Derived(t))
      BY <2>1, PutsOnce
    <3>. QED
      BY <1>2, <2>1, <3>1 DEF WritePlan, PlanOnce
  <2>2. CASE UNCHANGED plan /\ LooksFor(t, file, NoPlan)
    BY <1>2, <2>2 DEF WritePlan, LooksFor, round, proposals
  <2>3. CASE UNCHANGED plan /\ Refuses(t, file, NoPlan, Derived(t))
    BY <1>1, <1>2, <2>3 DEF WritePlan, PlanOnce, Refuses, Accepts
  <2>4. CASE UNCHANGED plan /\ Finds(t, file, Derived(t)) /\ GoOn(t, "RECORD")
    <3>1. plan = [plan EXCEPT ![s][At(t)] = Derived(t)]
      BY <2>4 DEF Finds, Typed, FilesOK
    <3>. QED
      BY <1>2, <2>4, <3>1 DEF WritePlan, PlanOnce, Finds, Accepts
  <2>. QED
    BY <1>2, <2>1, <2>2, <2>3, <2>4 DEF WritePlan
<1>3. ASSUME NEW t \in Terminals, WriteRecord(t)
      PROVE  RecordOnce(t) \/ UNCHANGED round
  <2> DEFINE s == command[t].stage
             file == record[s][At(t)]
             r == CandidateRecord(Derived(t), command[t].time)
  <2>1. CASE /\ Puts(t, file, None, r) /\ GoOn(t, "RENDER")
             /\ record' = [record EXCEPT ![s][At(t)] = r]
    <3>1. Accepts(None, file, r)
      BY <2>1, PutsOnce
    <3>. QED
      BY <1>3, <2>1, <3>1 DEF WriteRecord, RecordOnce
  <2>2. CASE UNCHANGED record /\ LooksFor(t, file, None)
    BY <1>3, <2>2 DEF WriteRecord, LooksFor, round, proposals
  <2>3. CASE UNCHANGED record /\ Refuses(t, file, None, r)
    BY <1>1, <1>3, <2>3 DEF WriteRecord, RecordOnce, Refuses, Accepts
  <2>4. CASE UNCHANGED record /\ Finds(t, file, r) /\ GoOn(t, "RENDER")
    <3>1. record = [record EXCEPT ![s][At(t)] = r]
      BY <2>4 DEF Finds, Typed, FilesOK
    <3>. QED
      BY <1>3, <2>4, <3>1 DEF WriteRecord, RecordOnce, Finds, Accepts
  <2>. QED
    BY <1>3, <2>1, <2>2, <2>3, <2>4 DEF WriteRecord
<1>4. ASSUME NEW t \in Terminals, WriteDirectives(t)
      PROVE  DirectivesOnce(t) \/ UNCHANGED round
  <2> DEFINE s == command[t].stage
             new == [ops |-> command[t].ops]
  <2>1. CASE /\ Puts(t, directives[s], None, new) /\ Stop(t)
             /\ directives' = [directives EXCEPT ![s] = new]
    <3>1. Accepts(None, directives[s], new)
      BY <2>1, PutsOnce
    <3>. QED
      BY <1>1, <1>4, <2>1, <3>1 DEF WriteDirectives, DirectivesOnce
  <2>2. CASE UNCHANGED directives /\ LooksFor(t, directives[s], None)
    BY <1>4, <2>2 DEF WriteDirectives, LooksFor, round, proposals
  <2>3. CASE UNCHANGED directives /\ Refuses(t, directives[s], None, new)
    BY <1>1, <1>4, <2>3 DEF WriteDirectives, DirectivesOnce, Refuses, Accepts
  <2>4. CASE UNCHANGED directives /\ Finds(t, directives[s], new) /\ Stop(t)
    <3>1. directives = [directives EXCEPT ![s] = new]
      BY <2>4 DEF Finds, Typed, FilesOK
    <3>. QED
      BY <1>1, <1>4, <2>4, <3>1 DEF WriteDirectives, DirectivesOnce, Finds, Accepts
  <2>. QED
    BY <1>4, <2>1, <2>2, <2>3, <2>4 DEF WriteDirectives
<1>5. ASSUME NEW t \in Terminals, WriteSelection(t)
      PROVE  SelectionOnce(t) \/ UNCHANGED round
  <2> DEFINE s == command[t].stage
             new == command[t].selected
  <2>1. CASE /\ Puts(t, selection[s], None, new) /\ Stop(t)
             /\ selection' = [selection EXCEPT ![s] = new]
    <3>1. Accepts(None, selection[s], new)
      BY <2>1, PutsOnce
    <3>. QED
      BY <1>1, <1>5, <2>1, <3>1 DEF WriteSelection, SelectionOnce
  <2>2. CASE UNCHANGED selection /\ LooksFor(t, selection[s], None)
    BY <1>5, <2>2 DEF WriteSelection, LooksFor, round
  <2>3. CASE UNCHANGED selection /\ Refuses(t, selection[s], None, new)
    BY <1>1, <1>5, <2>3 DEF WriteSelection, SelectionOnce, Refuses, Accepts
  <2>4. CASE UNCHANGED selection /\ Finds(t, selection[s], new) /\ Stop(t)
    <3>1. selection = [selection EXCEPT ![s] = new]
      BY <2>4 DEF Finds, Typed, FilesOK
    <3>. QED
      BY <1>1, <1>5, <2>4, <3>1 DEF WriteSelection, SelectionOnce, Finds, Accepts
  <2>. QED
    BY <1>5, <2>1, <2>2, <2>3, <2>4 DEF WriteSelection
<1>6. ASSUME NEW t \in Terminals, WriteScorecard(t)
      PROVE  ScorecardOnce(t) \/ UNCHANGED round
  <2> DEFINE new == command[t].card
  <2>1. CASE Puts(t, scorecard, None, new) /\ scorecard' = new /\ GoOn(t, "VERDICT")
    <3>1. Accepts(None, scorecard, new)
      BY <2>1, PutsOnce
    <3>. QED
      BY <1>6, <2>1, <3>1 DEF WriteScorecard, ScorecardOnce
  <2>2. CASE UNCHANGED scorecard /\ LooksFor(t, scorecard, None)
    BY <1>6, <2>2 DEF WriteScorecard, LooksFor, round, closing
  <2>3. CASE UNCHANGED scorecard /\ Refuses(t, scorecard, None, new)
    BY <1>1, <1>6, <2>3 DEF WriteScorecard, ScorecardOnce, Refuses, Accepts
  <2>4. CASE UNCHANGED scorecard /\ Finds(t, scorecard, new) /\ GoOn(t, "VERDICT")
    BY <1>6, <2>4 DEF WriteScorecard, ScorecardOnce, Finds, Accepts
  <2>. QED
    BY <1>6, <2>1, <2>2, <2>3, <2>4 DEF WriteScorecard
<1>7. UNCHANGED vars => UNCHANGED round
  BY DEF vars, round
<1>. QED
  BY <1>2, <1>3, <1>4, <1>5, <1>6, <1>7 DEF Next, Step, Starts, Writes, Ends

\* A command that found no file finds none until it writes it, if no other command
\* runs beside it.
FoundNone(t) ==
  LET s == command[t].stage IN
    \/ Running(t, "PROPOSE", "PLAN") /\ plan[s][At(t)] = NoPlan
    \/ Running(t, "PROPOSE", "RECORD") /\ record[s][At(t)] = None
    \/ Running(t, "PROPOSE", "DIRECTIVES") /\ directives[s] = None
    \/ Running(t, "SELECT", "SELECTION") /\ selection[s] = None
    \/ Running(t, "FINALIZE", "SCORECARD") /\ scorecard = None

Alone == /\ absent \subseteq Terminals /\ Intact
         /\ \A t \in absent : FoundNone(t)

LEMMA AloneGoesOn ==
  ASSUME \A t, u \in Terminals : t = u, Typed, Alone, [Next]_vars
  PROVE  Alone'
<1>1. ASSUME NEW t \in Terminals, NEW file, NEW none, NEW new,
             Puts(t, file, none, new), file = none
      PROVE  Alone'
  BY <1>1 DEF Puts, Alone, Intact
<1>2. ASSUME NEW t \in Terminals, absent \cap {t} = {}, absent' = absent, UNCHANGED overwritten
      PROVE  Alone'
  BY <1>2 DEF Alone, Intact
<1>3. ASSUME NEW t \in Terminals, absent' = absent \ {t}, UNCHANGED overwritten
      PROVE  Alone'
  BY <1>3 DEF Alone, Intact
<1>4. ASSUME NEW t \in Terminals, NEW file, NEW none, NEW new,
             \/ Finds(t, file, new) \/ Refuses(t, file, none, new)
      PROVE  Alone'
  BY <1>2, <1>3, <1>4 DEF Finds, Refuses, Stop, looks
<1>5. ASSUME NEW t \in Terminals, NEW file, NEW none, LooksFor(t, file, none)
      PROVE  absent' = {t} /\ Intact' /\ UNCHANGED command
  BY <1>5 DEF LooksFor, Alone, Intact
<1>6. ASSUME NEW t \in Terminals, WritePlan(t) PROVE Alone'
  <2>1. t \in absent => plan[command[t].stage][At(t)] = NoPlan
    BY <1>6 DEF WritePlan, Running, Alone, FoundNone
  <2>2. ASSUME LooksFor(t, plan[command[t].stage][At(t)], NoPlan), UNCHANGED plan
        PROVE  Alone'
    BY <1>5, <1>6, <2>2 DEF WritePlan, Running, LooksFor, Alone, FoundNone, At
  <2>. QED
    BY <1>1, <1>4, <1>6, <2>1, <2>2 DEF WritePlan, Puts
<1>7. ASSUME NEW t \in Terminals, WriteRecord(t) PROVE Alone'
  <2>1. t \in absent => record[command[t].stage][At(t)] = None
    BY <1>7 DEF WriteRecord, Running, Alone, FoundNone
  <2>2. ASSUME LooksFor(t, record[command[t].stage][At(t)], None), UNCHANGED record
        PROVE  Alone'
    BY <1>5, <1>7, <2>2 DEF WriteRecord, Running, LooksFor, Alone, FoundNone, At
  <2>. QED
    BY <1>1, <1>4, <1>7, <2>1, <2>2 DEF WriteRecord, Puts
<1>8. ASSUME NEW t \in Terminals, WriteDirectives(t) PROVE Alone'
  <2>1. t \in absent => directives[command[t].stage] = None
    BY <1>8 DEF WriteDirectives, Running, Alone, FoundNone
  <2>2. ASSUME LooksFor(t, directives[command[t].stage], None), UNCHANGED directives
        PROVE  Alone'
    BY <1>5, <1>8, <2>2 DEF WriteDirectives, Running, LooksFor, Alone, FoundNone
  <2>. QED
    BY <1>1, <1>4, <1>8, <2>1, <2>2 DEF WriteDirectives, Puts
<1>9. ASSUME NEW t \in Terminals, WriteSelection(t) PROVE Alone'
  <2>1. t \in absent => selection[command[t].stage] = None
    BY <1>9 DEF WriteSelection, Running, Alone, FoundNone
  <2>2. ASSUME LooksFor(t, selection[command[t].stage], None), UNCHANGED selection
        PROVE  Alone'
    BY <1>5, <1>9, <2>2 DEF WriteSelection, Running, LooksFor, Alone, FoundNone
  <2>. QED
    BY <1>1, <1>4, <1>9, <2>1, <2>2 DEF WriteSelection, Puts
<1>10. ASSUME NEW t \in Terminals, WriteScorecard(t) PROVE Alone'
  <2>1. t \in absent => scorecard = None
    BY <1>10 DEF WriteScorecard, Running, Alone, FoundNone
  <2>2. ASSUME LooksFor(t, scorecard, None), UNCHANGED scorecard
        PROVE  Alone'
    BY <1>5, <1>10, <2>2 DEF WriteScorecard, Running, LooksFor, Alone, FoundNone
  <2>. QED
    BY <1>1, <1>4, <1>10, <2>1, <2>2 DEF WriteScorecard, Puts
<1>11. ASSUME NEW t \in Terminals, WriteProvenance(t) \/ Die(t) PROVE Alone'
  BY <1>3, <1>11 DEF WriteProvenance, Die, Stop
<1>12. ASSUME NEW t \in Terminals, Propose(t) \/ Select(t) \/ Finalize(t) PROVE Alone'
  <2>1. command[t] = Nothing /\ UNCHANGED looks
    BY <1>12 DEF Propose, Select, Finalize, Run
  <2>2. t \notin absent
    BY <2>1 DEF Alone, FoundNone, Running, Nothing
  <2>. QED
    BY <1>2, <2>1, <2>2 DEF looks
<1>13. ASSUME NEW t \in Terminals, Render(t) \/ WriteComparison(t) \/ WriteVerdict(t)
       PROVE  Alone'
  <2>1. t \notin absent /\ UNCHANGED looks
    BY <1>13 DEF Render, WriteComparison, WriteVerdict, Running, Alone, FoundNone
  <2>. QED
    BY <1>2, <2>1 DEF looks
<1>14. CASE EditByHand
  <2>1. ASSUME NEW t \in absent PROVE FoundNone(t)'
    <3>1. ASSUME Running(t, "PROPOSE", "PLAN"), plan[command[t].stage][At(t)] = NoPlan
          PROVE  plan'[command[t].stage][At(t)] = NoPlan
      <4>0. t \in Terminals
        BY <2>1 DEF Alone
      <4>1. command[t].stage \in Stages /\ At(t) \in Candidates
        BY <3>1, <4>0, KindOfCommand, DerivedIsAPlan DEF Running, Proposes, Proposing, Typed
      <4>. QED
        <5>1. UNCHANGED plan \/ \E s \in Stages, c \in Candidates :
                plan[s][c] # NoPlan /\ plan' = [plan EXCEPT ![s][c] = Append(@, "HAND")]
          BY <1>14 DEF EditByHand
        <5>2. ASSUME NEW s \in Stages, NEW c \in Candidates, plan[s][c] # NoPlan,
                     plan' = [plan EXCEPT ![s][c] = Append(@, "HAND")]
              PROVE  plan'[command[t].stage][At(t)] = NoPlan
          <6>1. plan \in [Stages -> [Candidates -> Masters]]
            BY DEF Typed, FilesOK
          <6>2. ~(s = command[t].stage /\ c = At(t))
            BY <3>1, <5>2
          <6>3. /\ s # command[t].stage => plan'[command[t].stage] = plan[command[t].stage]
                /\ s = command[t].stage =>
                     plan'[s] = [plan[s] EXCEPT ![c] = Append(plan[s][c], "HAND")]
            BY <4>1, <5>2, <6>1
          <6>4. s = command[t].stage => plan'[s][At(t)] = plan[s][At(t)]
            <7>1. plan[s] \in [Candidates -> Masters]
              BY <6>1
            <7>. QED
              BY <4>1, <6>2, <6>3, <7>1
          <6>. QED
            BY <3>1, <6>3, <6>4
        <5>. QED
          BY <3>1, <5>1, <5>2
    <3>. QED
      BY <1>14, <2>1, <3>1
      DEF EditByHand, Alone, FoundNone, Running, At, closing
  <2>. QED
    BY <1>14, <2>1 DEF EditByHand, Alone, Intact, looks
<1>15. CASE UNCHANGED vars
  BY <1>15 DEF vars, proposals, closing, looks, Alone, Intact, FoundNone, Running, At
<1>. QED
  BY <1>6, <1>7, <1>8, <1>9, <1>10, <1>11, <1>12, <1>13, <1>14, <1>15 DEF Next

\* Types, and what ties the files to each other and to the commands under way,
\* hold whatever commands are run together, killed or refused, until two of them
\* write the same write-once file.
THEOREM RoundIsKept == Spec => [](Intact => Round)
<1>1. Init => (Intact => Round)
  BY RoundOpens
<1>2. (Intact => Round) /\ [Next]_vars => (Intact => Round)'
  <2> SUFFICES ASSUME Intact => Round, [Next]_vars, Intact' PROVE Round'
    OBVIOUS
  <2>1. Round /\ Typed
    BY IntactBefore DEF Round, Proposals
  <2>. QED
    BY <2>1, IntactSteps, RoundGoesOn
<1>. QED
  BY <1>1, <1>2, PTL DEF Spec

\* With one terminal no file is ever written over: the exception of every theorem
\* here takes two commands at once.
THEOREM OneTerminalKeepsFiles == (\A t, u \in Terminals : t = u) => (Spec => []Intact)
<1> SUFFICES ASSUME \A t, u \in Terminals : t = u PROVE Spec => []Intact
  OBVIOUS
<1>1. Init => Alone
  BY DEF Init, Alone, Intact
<1>2. (Intact => Round) /\ Alone /\ [Next]_vars => Alone'
  BY AloneGoesOn DEF Alone, Round, Proposals
<1>3. Alone => Intact
  BY DEF Alone
<1>. QED
  BY <1>1, <1>2, <1>3, RoundIsKept, PTL DEF Spec

\* A selection pins the plan of the master that was watched: an edit of the
\* file after the render is never what the stage goes on from, until a file that
\* is written once was written over.
THEOREM SelectionsWereWatched == Spec => []SelectedWasWatched
<1>1. (Intact => Round) => SelectedWasWatched
  BY DEF Round, Proposals, Typed, MastersWatched, SelectedWasWatched
<1>. QED
  BY <1>1, RoundIsKept, PTL

\* Every settled stage changes the plan settled before it by the operations of
\* one of its directives, or not at all, with the same exception.
THEOREM StagesChangeOneThing == Spec => []OneChangePerStage
<1>1. ASSUME Round, NEW s \in Stages, Settled(s)
      PROVE  LET base == IF s = 1 THEN comparison[1].base ELSE selection[s - 1].plan IN
               /\ comparison[s].base = base
               /\ selection[s].plan \in {base} \cup {Apply(base, o) : o \in Operations}
               /\ selection[s].candidate > 0 /\ directives[s] # None =>
                    selection[s].plan = Apply(base, directives[s].ops[selection[s].candidate])
  <2> DEFINE base == IF s = 1 THEN comparison[1].base ELSE selection[s - 1].plan
             c == selection[s].candidate
  <2>1. /\ comparison[s] # None /\ c \in Candidates /\ c < Len(comparison[s].entries)
        /\ comparison[s].entries[c + 1].plan = selection[s].plan
    <3>1. Chosen(s, selection[s])
      BY <1>1 DEF Round, Watched
    <3>2. selection[s] \in Selected
      BY <1>1 DEF Round, Proposals, Typed, FilesOK, Settled
    <3>. QED
      BY <3>1, <3>2 DEF Selected, Chosen, Entry
  <2>2. comparison[s].base = base
    BY <1>1, <2>1, Constants DEF Round, Based, GoesOnFrom, Stages
  <2>3. PICK ops \in Seq(Operations) :
          /\ Len(comparison[s].entries) = Len(ops) + 1
          /\ DerivedFrom(comparison[s].base, ops, comparison[s].entries)
          /\ directives[s] # None => ops = directives[s].ops
    BY <1>1, <2>1 DEF Round, Based
  <2>4. selection[s].plan = CandidatePlan(base, ops, c)
    BY <2>1, <2>2, <2>3 DEF DerivedFrom
  <2>5. c = 0 \/ (c > 0 /\ ops[c] \in Operations)
    BY <2>1, <2>3, Constants DEF Candidates
  <2>. QED
    BY <2>2, <2>3, <2>4, <2>5, Constants DEF CandidatePlan
<1>2. (Intact => Round) => OneChangePerStage
  BY <1>1 DEF OneChangePerStage
<1>. QED
  BY <1>2, RoundIsKept, PTL

\* A master is premium only by a scorecard of the plan approved last, and the
\* provenance names that plan, every stage's selection and that verdict, with the same
\* exception: two finalizations can both write their scorecard.
THEOREM PremiumMeansEarned == Spec => []PremiumIsEarned
<1>1. (Intact => Round) => PremiumIsEarned
  BY DEF Round, Closed, PremiumIsEarned, Verdict, Approved
<1>. QED
  BY <1>1, RoundIsKept, PTL
=============================================================================
