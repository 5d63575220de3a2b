--------------------------- MODULE FinishingRound ---------------------------
(* A finishing round of apps/aamp-cli/src/finishing.  A master is finished in  *)
(* stages: the operator proposes candidate plans that each change the approved *)
(* plan in one way, they are rendered and compared, and a reviewer selects one *)
(* whose bytes are pinned; after the last stage a scorecard decides whether    *)
(* the master is PREMIUM_READY.  All state is files of the run's directory;    *)
(* commands run in several terminals, die anywhere, and plan files are edited  *)
(* by hand.                                                                    *)
(*                                                                             *)
(* Abstractions: a plan is the sequence of changes that made it from the       *)
(* opening plan, and stands for its checksum and for the master cut from it; a *)
(* time is the number of the command that read the clock; candidates are       *)
(* numbered, 0 is the control; the operations of one directive are one change; *)
(* a command reads what it needs before its first write in one step, and one   *)
(* refused before it leaves no trace and is left out.                          *)
EXTENDS Naturals, Sequences, Functions

CONSTANTS
  NStages,      \* Len(REVISION_STAGES), 4 in the code
  NDirectives,  \* bound: directive candidates in one set
  Operations,   \* the changes a directive can ask for, its whole list being one
  Terminals,    \* where commands are run
  MaxCommands,  \* bound: commands of a run
  MaxEdits      \* bound: edits made by hand

ASSUME RoundAssumption ==
  /\ NStages \in Nat \ {0} /\ NDirectives \in Nat /\ MaxCommands \in Nat /\ MaxEdits \in Nat
  /\ {"HAND", "NO_PLAN"} \cap Operations = {}

VARIABLES
  opening,     \* base-plan.json
  plan,        \* stages/<stage>/candidates/<id>/plan.json
  record,      \* .../candidate.json
  comparison,  \* stages/<stage>/comparison.json
  directives,  \* stages/<stage>/directives.json
  selection,   \* stages/<stage>/selection.json
  scorecard, verdict, provenance,
  command,     \* what each terminal is running
  absent,      \* terminals that looked for the file they are at and found none
  overwritten, \* history: the write-once files that were written over all the same
  started,     \* commands so far
  edited       \* edits by hand so far

proposals == <<plan, record, comparison, directives>>
closing == <<scorecard, verdict, provenance>>
outside == <<opening, edited>>
looks == <<absent, overwritten>>
vars == <<proposals, selection, closing, outside, command, looks, started>>

Stages == 1 .. NStages
Candidates == 0 .. NDirectives
None == [none |-> TRUE]
NoPlan == <<"NO_PLAN">>
Nothing == [does |-> "NOTHING"]

DirectiveSets ==
  {ops \in UNION {[1 .. n -> Operations] : n \in 1 .. NDirectives} : IsInjective(ops)}

-----------------------------------------------------------------------------
(* Reading the run.                                                        *)

Settled(s) == selection[s] # None

\* currentStage and requireStageIsNext: the first stage nobody settled.
IsNext(s) == ~Settled(s) /\ \A earlier \in 1 .. s - 1 : Settled(earlier)

\* Mutant of ApprovedStands: the bytes on disk are trusted.
ApprovedTrusted(s) == Settled(s)

\* loadApprovedPlan: the plan on disk is still the one the selection pins.
ApprovedStands(s) == Settled(s) /\ plan[s][selection[s].candidate] = selection[s].plan

\* resolveStageBasePlan.
StageBase(s) == IF s = 1 THEN opening ELSE plan[s - 1][selection[s - 1].candidate]

\* applyFinishingOperations; what fits no plan is refused before a write.
Apply(base, op) == Append(base, op)

\* controlCandidate and deriveCandidate.
CandidatePlan(base, ops, c) == IF c = 0 THEN base ELSE Apply(base, ops[c])

CandidateRecord(derived, time) == [plan |-> derived, createdAt |-> time]

Entry(s, c) == comparison[s].entries[c + 1]

\* Mutant of AsCompared: the plan on disk is not looked at.
RecordAsCompared(s, c) == record[s][c].plan = Entry(s, c).plan

\* buildStageSelection: plan, record and comparison agree.
AsCompared(s, c) ==
  plan[s][c] = record[s][c].plan /\ plan[s][c] = Entry(s, c).plan

\* Mutant of Verdict: the scorecard may be about another master.
VerdictOnScores(card, master) ==
  IF card.clears THEN "PREMIUM_READY" ELSE "NOT_PREMIUM_READY"

\* evaluateFinishingVerdict.
Verdict(card, master) ==
  IF card.master = master /\ card.clears THEN "PREMIUM_READY" ELSE "NOT_PREMIUM_READY"

-----------------------------------------------------------------------------
(* The commands.                                                           *)

Running(t, kind, at) == command[t].does = kind /\ command[t].at = at

Run(t, running) ==
  /\ command[t] = Nothing /\ started < MaxCommands
  /\ started' = started + 1
  /\ command' = [command EXCEPT ![t] = running]
  /\ UNCHANGED <<proposals, selection, closing, outside, looks>>

GoOn(t, at) == command' = [command EXCEPT ![t].at = at]
Stop(t) == command' = [command EXCEPT ![t] = Nothing] /\ absent' = absent \ {t}

\* writeOnce looks for the file.  One it does not find it writes in a later step,
\* over what another terminal has put there since ...
LooksFor(t, file, none) ==
  /\ t \notin absent /\ file = none
  /\ absent' = absent \cup {t}
  /\ UNCHANGED <<command, overwritten>>

Puts(t, file, none, new) ==
  /\ t \in absent /\ absent' = absent \ {t}
  /\ overwritten' = IF file \in {none, new} THEN overwritten
                                            ELSE overwritten \cup {command[t].at}

\* ... one it finds is left alone, if it is identical, or refuses the command.
Finds(t, file, new) == t \notin absent /\ file = new /\ UNCHANGED looks

Refuses(t, file, none, new) ==
  /\ t \notin absent /\ file \notin {none, new}
  /\ Stop(t)
  /\ UNCHANGED overwritten

\* runPropose up to its first write.
Propose(t) ==
  \E s \in Stages, ops \in DirectiveSets :
    /\ IsNext(s) /\ (s > 1 => ApprovedStands(s - 1))
    /\ Run(t, [does |-> "PROPOSE", at |-> "PLAN", stage |-> s, base |-> StageBase(s),
               ops |-> ops, entries |-> <<>>, time |-> started + 1])

\* The candidate a propose is at, and the plan it derived for it.
At(t) == Len(command[t].entries)
Derived(t) == CandidatePlan(command[t].base, command[t].ops, At(t))

\* writeCandidate: the plan ...
WritePlan(t) ==
  /\ Running(t, "PROPOSE", "PLAN")
  /\ LET s == command[t].stage
         file == plan[s][At(t)]
     IN \/ /\ Puts(t, file, NoPlan, Derived(t))
           /\ plan' = [plan EXCEPT ![s][At(t)] = Derived(t)]
           /\ GoOn(t, "RECORD")
        \/ /\ UNCHANGED plan
           /\ \/ LooksFor(t, file, NoPlan)
              \/ Finds(t, file, Derived(t)) /\ GoOn(t, "RECORD")
              \/ Refuses(t, file, NoPlan, Derived(t))
  /\ UNCHANGED <<record, comparison, directives, selection, closing, outside, started>>

\* ... then its record, which says when it was made.
WriteRecord(t) ==
  /\ Running(t, "PROPOSE", "RECORD")
  /\ LET s == command[t].stage
         file == record[s][At(t)]
         r == CandidateRecord(Derived(t), command[t].time)
     IN \/ /\ Puts(t, file, None, r)
           /\ record' = [record EXCEPT ![s][At(t)] = r]
           /\ GoOn(t, "RENDER")
        \/ /\ UNCHANGED record
           /\ \/ LooksFor(t, file, None)
              \/ Finds(t, file, r) /\ GoOn(t, "RENDER")
              \/ Refuses(t, file, None, r)
  /\ UNCHANGED <<plan, comparison, directives, selection, closing, outside, started>>

\* The preview renders the plan it finds on disk, fails, or is skipped.
Render(t) ==
  /\ Running(t, "PROPOSE", "RENDER")
  /\ \E master \in {NoPlan, plan[command[t].stage][At(t)]} :
       command' = [command EXCEPT
         ![t].entries = Append(@, [plan |-> Derived(t), master |-> master]),
         ![t].at = IF At(t) < Len(command[t].ops) THEN "PLAN" ELSE "COMPARISON"]
  /\ UNCHANGED <<proposals, selection, closing, outside, looks, started>>

\* writeStageComparison overwrites what is there.
WriteComparison(t) ==
  /\ Running(t, "PROPOSE", "COMPARISON")
  /\ comparison' = [comparison EXCEPT ![command[t].stage] =
                      [base |-> command[t].base, entries |-> command[t].entries]]
  /\ GoOn(t, "DIRECTIVES")
  /\ UNCHANGED <<plan, record, directives, selection, closing, outside, looks, started>>

WriteDirectives(t) ==
  /\ Running(t, "PROPOSE", "DIRECTIVES")
  /\ LET s == command[t].stage
         new == [ops |-> command[t].ops]
     IN \/ /\ Puts(t, directives[s], None, new)
           /\ directives' = [directives EXCEPT ![s] = new]
           /\ Stop(t)
        \/ /\ UNCHANGED directives
           /\ \/ LooksFor(t, directives[s], None)
              \/ Finds(t, directives[s], new) /\ Stop(t)
              \/ Refuses(t, directives[s], None, new)
  /\ UNCHANGED <<plan, record, comparison, selection, closing, outside, started>>

\* runSelect up to its write: only a candidate that was watched can be chosen.
Select(t) ==
  \E s \in Stages, c \in Candidates :
    /\ IsNext(s) /\ comparison[s] # None
    /\ c < Len(comparison[s].entries) /\ Entry(s, c).master # NoPlan
    /\ AsCompared(s, c)
    /\ Run(t, [does |-> "SELECT", at |-> "SELECTION", stage |-> s,
               selected |-> [candidate |-> c, plan |-> plan[s][c],
                             selectedAt |-> started + 1]])

WriteSelection(t) ==
  /\ Running(t, "SELECT", "SELECTION")
  /\ LET s == command[t].stage
         new == command[t].selected
     IN \/ /\ Puts(t, selection[s], None, new)
           /\ selection' = [selection EXCEPT ![s] = new]
           /\ Stop(t)
        \/ /\ UNCHANGED selection
           /\ \/ LooksFor(t, selection[s], None)
              \/ Finds(t, selection[s], new) /\ Stop(t)
              \/ Refuses(t, selection[s], None, new)
  /\ UNCHANGED <<proposals, closing, outside, started>>

\* runFinalize up to its first write, on a scorecard of any master of the last
\* stage, which clears the thresholds or does not.
Finalize(t) ==
  /\ \A s \in Stages : Settled(s)
  /\ ApprovedStands(NStages)
  /\ selection[NStages].candidate < Len(comparison[NStages].entries)
  /\ LET finished == Entry(NStages, selection[NStages].candidate)
         masters == {Entry(NStages, c).master : c \in 0 .. Len(comparison[NStages].entries) - 1}
     IN /\ finished.master # NoPlan
        /\ \E scored \in masters \ {NoPlan}, clears \in BOOLEAN :
             Run(t, [does |-> "FINALIZE", at |-> "SCORECARD", master |-> finished.master,
                     stages |-> [s \in Stages |-> selection[s].plan],
                     card |-> [master |-> scored, clears |-> clears]])

WriteScorecard(t) ==
  /\ Running(t, "FINALIZE", "SCORECARD")
  /\ LET new == command[t].card
     IN \/ /\ Puts(t, scorecard, None, new)
           /\ scorecard' = new
           /\ GoOn(t, "VERDICT")
        \/ /\ UNCHANGED scorecard
           /\ \/ LooksFor(t, scorecard, None)
              \/ Finds(t, scorecard, new) /\ GoOn(t, "VERDICT")
              \/ Refuses(t, scorecard, None, new)
  /\ UNCHANGED <<proposals, selection, verdict, provenance, outside, started>>

WriteVerdict(t) ==
  /\ Running(t, "FINALIZE", "VERDICT")
  /\ verdict' = Verdict(command[t].card, command[t].master)
  /\ GoOn(t, "PROVENANCE")
  /\ UNCHANGED <<proposals, selection, scorecard, provenance, outside, looks, started>>

WriteProvenance(t) ==
  /\ Running(t, "FINALIZE", "PROVENANCE")
  /\ provenance' = [stages |-> command[t].stages, master |-> command[t].master,
                    verdict |-> Verdict(command[t].card, command[t].master)]
  /\ Stop(t)
  /\ UNCHANGED <<proposals, selection, scorecard, verdict, outside, overwritten, started>>

\* A command is killed, or a read or a write of it fails.
Die(t) ==
  /\ command[t] # Nothing
  /\ Stop(t)
  /\ UNCHANGED <<proposals, selection, closing, outside, overwritten, started>>

\* A plan file is edited by hand; no edit is exactly undone.
EditByHand ==
  /\ edited < MaxEdits /\ edited' = edited + 1
  /\ \/ opening' = Append(opening, "HAND") /\ UNCHANGED plan
     \/ /\ \E s \in Stages, c \in Candidates :
             plan[s][c] # NoPlan /\ plan' = [plan EXCEPT ![s][c] = Append(@, "HAND")]
        /\ UNCHANGED opening
  /\ UNCHANGED <<record, comparison, directives, selection, closing, command, looks, started>>

-----------------------------------------------------------------------------

\* runOpen.
Init ==
  /\ opening = <<>> /\ edited = 0
  /\ plan = [s \in Stages |-> [c \in Candidates |-> NoPlan]]
  /\ record = [s \in Stages |-> [c \in Candidates |-> None]]
  /\ comparison = [s \in Stages |-> None] /\ directives = [s \in Stages |-> None]
  /\ selection = [s \in Stages |-> None]
  /\ scorecard = None /\ verdict = "NONE" /\ provenance = None
  /\ command = [t \in Terminals |-> Nothing] /\ started = 0
  /\ absent = {} /\ overwritten = {}

Next ==
  \/ \E t \in Terminals :
       \/ Propose(t) \/ WritePlan(t) \/ WriteRecord(t) \/ Render(t)
       \/ WriteComparison(t) \/ WriteDirectives(t)
       \/ Select(t) \/ WriteSelection(t)
       \/ Finalize(t) \/ WriteScorecard(t) \/ WriteVerdict(t) \/ WriteProvenance(t)
       \/ Die(t)
  \/ EditByHand

Spec == Init /\ [][Next]_vars

-----------------------------------------------------------------------------
(* What a finished master rests on.  writeOnce does not keep two commands  *)
(* that looked for a file together from both writing it: what holds, holds *)
(* until a file of the run was in fact written over.                       *)

Intact == overwritten = {}

\* A selection pins the plan its master was cut from, whatever happened to the
\* files between the render the reviewer watched and the selection, unless another
\* command has written over a write-once file.
SelectedWasWatched ==
  Intact =>
    \A s \in Stages :
      Settled(s) => /\ comparison[s] # None
                    /\ Entry(s, selection[s].candidate).master = selection[s].plan

\* Each stage changes the plan the stage before it approved, by the operations of
\* one directive on record or not at all, so that every choice was between cuts
\* that one directive tells apart; with the same exception.
OneChangePerStage ==
  Intact =>
    \A s \in Stages :
      Settled(s) =>
        LET base == IF s = 1 THEN comparison[1].base ELSE selection[s - 1].plan IN
          /\ comparison[s].base = base
          /\ selection[s].plan \in {base} \cup {Apply(base, o) : o \in Operations}
          /\ selection[s].candidate > 0 /\ directives[s] # None =>
               selection[s].plan = Apply(base, directives[s].ops[selection[s].candidate])

\* What the files that close the round say agrees with each other, with every
\* stage's selection and with the one scorecard submitted: a master is premium
\* only if the reviewer scored that master, cut from the plan approved last.  Two
\* finalizations that both find no scorecard may leave one's verdict beside the
\* other's scorecard: they are excepted with the rest.
PremiumIsEarned ==
  Intact =>
    /\ verdict = "PREMIUM_READY" =>
         scorecard.clears /\ scorecard.master = selection[NStages].plan
    /\ provenance # None =>
         /\ provenance.verdict = verdict
         /\ provenance.stages = [s \in Stages |-> selection[s].plan]
         /\ provenance.master = selection[NStages].plan
=============================================================================
