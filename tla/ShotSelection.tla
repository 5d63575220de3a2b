----------------------------- MODULE ShotSelection -----------------------------
(***************************************************************************)
(* The versioned ShotSelectionSets of one campaign: reviewers draft a set  *)
(* for the latest script, select or reject a candidate shot by shot under  *)
(* a compare-and-swap of the set's revision, and freeze it; the workflow   *)
(* verifies the latest set before it lets the campaign cross the gate.     *)
(* Every handler is a sequence of awaited statements outside any           *)
(* transaction, and handlers of several reviewers interleave.              *)
(***************************************************************************)
EXTENDS Naturals, FiniteSets, FiniteSetsExt

CONSTANTS
  Reviewers,      \* requests under way at once, one per reviewer
  Positions,      \* sequence positions of a script's shots
  MaxCandidates,  \* bound: candidates generated for a shot
  Generations,    \* bound: what generation may yield, as <<shot, candidate, passes>>
  MaxScripts,     \* bound: script versions
  MaxSets,        \* bound: versions of the selection
  MaxRevisions    \* bound: revisions of all the sets together, until one more edit

ASSUME SelectionAssumption ==
  /\ Positions \in SUBSET Nat /\ Positions # {} /\ IsFiniteSet(Positions)
  /\ Generations \subseteq ((1 .. MaxScripts) \X Positions) \X (1 .. MaxCandidates) \X BOOLEAN
  /\ {MaxCandidates, MaxScripts, MaxSets, MaxRevisions} \subseteq Nat \ {0}

VARIABLES
  script,      \* version of the latest script
  succeeded,   \* by shot, the candidates whose generation has succeeded
  passed,      \* by shot, those whose two assessments have passed
  set,         \* the selection sets, by version
  history,     \* the replacement rows
  request,     \* the request each reviewer has under way
  crossing,    \* the verification of the workflow: what it has read so far
  crossed      \* versions of the sets the campaign has crossed the gate with

vars == <<script, succeeded, passed, set, history, request, crossing, crossed>>

Scripts == 1 .. MaxScripts
Versions == 1 .. MaxSets
Candidates == 1 .. MaxCandidates
Shots == Scripts \X Positions
None == 0

\* A row of a shot that has none yet, and a row as it is created.
NoRow == [status |-> "NO_ROW", candidate |-> None]
Pending == [status |-> "PENDING", candidate |-> None]
NoRows == [p \in Positions |-> NoRow]
RowsOf(v) == {p \in Positions : set[v].rows[p] # NoRow}

\* "seen" is what the reviewer who froze the set had seen of it, when nobody
\* else was at work on it at the time.
Absent == [status |-> "ABSENT", script |-> None, revision |-> 0, rows |-> NoRows,
           seen |-> NoRows]
Exists(v) == set[v].status # "ABSENT"

Latest == IF \E v \in Versions : Exists(v)
            THEN CHOOSE v \in Versions : Exists(v) /\ \A u \in Versions : Exists(u) => u <= v
            ELSE None

Idle == [pc |-> "IDLE", op |-> "NONE", set |-> None, script |-> None, position |-> None,
         candidate |-> None, revision |-> 0, eligible |-> {}, previous |-> None,
         seen |-> NoRows]

Init ==
  /\ script = 1
  /\ succeeded = [s \in Shots |-> {}]
  /\ passed = [s \in Shots |-> {}]
  /\ set = [v \in Versions |-> Absent]
  /\ history = {}
  /\ request = [r \in Reviewers |-> Idle]
  /\ crossing = [pc |-> "IDLE", set |-> None]
  /\ crossed = {}

At(r, pc) == request[r].pc = pc
Goes(r, q) == request' = [request EXCEPT ![r] = q]
Ends(r) == Goes(r, Idle)
Step(r, pc) == Goes(r, [request[r] EXCEPT !.pc = pc])

\* A request that may still write to the rows of a set.
Writing(r, v) == request[r].set = v /\ request[r].pc \in {"ROWS", "WRITE"}
Quiet(v) == \A r \in Reviewers : ~Writing(r, v)

Elsewhere == UNCHANGED <<script, succeeded, passed, crossing, crossed>>

-----------------------------------------------------------------------------
(* What is selected from.                                                  *)

\* A candidate is eligible while it is the latest that succeeded for its shot,
\* both its assessments pass and its script is the latest one.
Eligible(s, c) ==
  /\ c \in passed[s]
  /\ \A d \in succeeded[s] : d <= c
  /\ s[1] = script

\* Generation and assessment, in any order and at any stage: a reviewer's routes
\* do not look at the campaign's.
Succeed(s, c, pass) ==
  /\ c \notin succeeded[s] /\ s[1] = script
  /\ succeeded' = [succeeded EXCEPT ![s] = @ \cup {c}]
  /\ passed' = [passed EXCEPT ![s] = IF pass THEN @ \cup {c} ELSE @]
  /\ UNCHANGED <<script, set, history, request, crossing, crossed>>

ReviseScript ==
  /\ script < MaxScripts
  /\ script' = script + 1
  /\ UNCHANGED <<succeeded, passed, set, history, request, crossing, crossed>>

-----------------------------------------------------------------------------
(* POST draft.                                                             *)

AskDraft(r) ==
  /\ At(r, "IDLE")
  /\ Goes(r, [Idle EXCEPT !.pc = "DRAFT", !.op = "DRAFT", !.script = script])
  /\ UNCHANGED <<set, history>> /\ Elsewhere

\* An open draft of that script is answered; else the next version is planned.
DraftVersion(r) ==
  /\ At(r, "DRAFT")
  /\ IF Latest # None /\ set[Latest].status = "DRAFT" /\ set[Latest].script = request[r].script
       THEN Ends(r)
       ELSE /\ Latest < MaxSets
            /\ Goes(r, [request[r] EXCEPT !.pc = "CREATE", !.set = Latest + 1])
  /\ UNCHANGED <<set, history>> /\ Elsewhere

\* The version is found to exist, or (campaignId, version) refuses the second.
CreateSet(r) ==
  /\ At(r, "CREATE")
  /\ LET v == request[r].set
     IN IF Exists(v)
          THEN Ends(r) /\ UNCHANGED set
          ELSE /\ set' = [set EXCEPT ![v] = [Absent EXCEPT !.status = "DRAFT",
                                                           !.script = request[r].script]]
               /\ Goes(r, [Idle EXCEPT !.pc = "ROWS", !.set = v])
  /\ UNCHANGED history /\ Elsewhere

\* One PENDING row after the other, in the order of the shots.
CreateRow(r) ==
  /\ At(r, "ROWS")
  /\ LET v == request[r].set
         left == Positions \ RowsOf(v)
     IN IF left = {}
          THEN Ends(r) /\ UNCHANGED set
          ELSE /\ set' = [set EXCEPT ![v].rows[Min(left)] = Pending]
               /\ UNCHANGED request
  /\ UNCHANGED history /\ Elsewhere

-----------------------------------------------------------------------------
(* What a reviewer sees before he edits or approves.                       *)

\* GET reads the latest set, and then its rows; the request that follows names
\* the set and the revision.
LookAtSet(r) ==
  /\ At(r, "IDLE") /\ Latest # None
  /\ Goes(r, [Idle EXCEPT !.pc = "LOOK", !.set = Latest, !.revision = set[Latest].revision])
  /\ UNCHANGED <<set, history>> /\ Elsewhere

LookAtRows(r) ==
  /\ At(r, "LOOK")
  /\ Goes(r, [request[r] EXCEPT !.pc = "SEEN",
                !.seen = IF Quiet(request[r].set) THEN set[request[r].set].rows ELSE NoRows])
  /\ UNCHANGED <<set, history>> /\ Elsewhere

-----------------------------------------------------------------------------
(* POST select and reject-shot.                                            *)

\* Mutant: eligibility is left to the page that listed the candidates.
AskSelectAny(r) ==
  /\ At(r, "SEEN")
  /\ \E p \in Positions, c \in Candidates :
       /\ c \in succeeded[<<set[request[r].set].script, p>>]
       /\ Goes(r, [request[r] EXCEPT !.pc = "EDIT", !.op = "SELECT", !.position = p,
                                     !.candidate = c, !.seen = NoRows])
  /\ UNCHANGED <<set, history>> /\ Elsewhere

\* Only an eligible candidate of the shot is let through.
AskSelect(r) ==
  /\ At(r, "SEEN")
  /\ \E p \in Positions, c \in Candidates :
       /\ Eligible(<<set[request[r].set].script, p>>, c)
       /\ Goes(r, [request[r] EXCEPT !.pc = "EDIT", !.op = "SELECT", !.position = p,
                                     !.candidate = c, !.seen = NoRows])
  /\ UNCHANGED <<set, history>> /\ Elsewhere

AskReject(r) ==
  /\ At(r, "SEEN")
  /\ \E p \in Positions :
       Goes(r, [request[r] EXCEPT !.pc = "EDIT", !.op = "REJECT", !.position = p,
                                  !.seen = NoRows])
  /\ UNCHANGED <<set, history>> /\ Elsewhere

\* The set is open and has the shot; what the row names is kept for the history.
ReadForEdit(r) ==
  /\ At(r, "EDIT")
  /\ LET v == request[r].set
     IN IF set[v].status = "DRAFT" /\ request[r].position \in RowsOf(v)
          THEN Goes(r, [request[r] EXCEPT !.pc = "SWAP",
                          !.previous = set[v].rows[request[r].position].candidate])
          ELSE Ends(r)
  /\ UNCHANGED <<set, history>> /\ Elsewhere

\* Mutant: the set is open, whatever its revision.
MatchesStatus(v, revision) == set[v].status = "DRAFT"

\* casSetRevision's condition: the revision the client saw, on an open set.
Matches(v, revision) == set[v].status = "DRAFT" /\ set[v].revision = revision

SwapForEdit(r) ==
  /\ At(r, "SWAP")
  /\ LET v == request[r].set
     IN IF Matches(v, request[r].revision)
          THEN /\ MapThenSumSet(LAMBDA u : set[u].revision, Versions) < MaxRevisions
               /\ set' = [set EXCEPT ![v].revision = @ + 1]
               /\ Step(r, "WRITE")
          ELSE Ends(r) /\ UNCHANGED set
  /\ UNCHANGED history /\ Elsewhere

\* A rejected row keeps its candidate: an undefined field is not written.
WriteRow(r) ==
  /\ At(r, "WRITE")
  /\ LET q == request[r]
         replaced == q.previous # None /\ q.previous # q.candidate
     IN /\ set' = [set EXCEPT ![q.set].rows[q.position] =
                     IF q.op = "SELECT" THEN [status |-> "SELECTED", candidate |-> q.candidate]
                                        ELSE [@ EXCEPT !.status = "REJECTED"]]
        /\ IF replaced THEN Goes(r, [q EXCEPT !.pc = "HISTORY", !.revision = 0]) ELSE Ends(r)
  /\ UNCHANGED history /\ Elsewhere

WriteHistory(r) ==
  /\ At(r, "HISTORY")
  /\ LET q == request[r]
     IN history' = history \cup {[set |-> q.set, position |-> q.position,
                                  previous |-> q.previous, new |-> q.candidate]}
  /\ Ends(r)
  /\ UNCHANGED set /\ Elsewhere

-----------------------------------------------------------------------------
(* POST approve.                                                           *)

\* The eligible among the candidates selected now.
AskApprove(r) ==
  /\ At(r, "SEEN")
  /\ LET v == request[r].set
     IN Goes(r, [request[r] EXCEPT !.pc = "APPROVE", !.op = "APPROVE",
           !.eligible = {x \in Positions \X Candidates :
                           /\ set[v].rows[x[1]] = [status |-> "SELECTED", candidate |-> x[2]]
                           /\ Eligible(<<set[v].script, x[1]>>, x[2])}])
  /\ UNCHANGED <<set, history>> /\ Elsewhere

ReadForApproval(r) ==
  /\ At(r, "APPROVE")
  /\ LET v == request[r].set
     IN IF set[v].status = "DRAFT" /\ set[v].revision = request[r].revision
          THEN Step(r, "CHECK") ELSE Ends(r)
  /\ UNCHANGED <<set, history>> /\ Elsewhere

\* Every row there is holds a candidate, and one of the eligible ones.
Complete(v) ==
  /\ RowsOf(v) # {}
  /\ \A p \in RowsOf(v) : set[v].rows[p].status = "SELECTED"

CheckRows(r) ==
  /\ At(r, "CHECK")
  /\ LET v == request[r].set
     IN IF /\ Complete(v)
           /\ \A p \in RowsOf(v) : <<p, set[v].rows[p].candidate>> \in request[r].eligible
          THEN Goes(r, [request[r] EXCEPT !.pc = "FREEZE", !.eligible = {}]) ELSE Ends(r)
  /\ UNCHANGED <<set, history>> /\ Elsewhere

Freeze(r) ==
  /\ At(r, "FREEZE")
  /\ LET v == request[r].set
     IN IF Matches(v, request[r].revision)
          THEN set' = [set EXCEPT ![v].status = "APPROVED", ![v].revision = @ + 1,
                                  ![v].seen = request[r].seen]
          ELSE UNCHANGED set
  /\ Ends(r)
  /\ UNCHANGED history /\ Elsewhere

\* The process dies, or a query throws, at any point of a handler.
Die(r) ==
  /\ request[r] # Idle
  /\ Ends(r)
  /\ UNCHANGED <<set, history>> /\ Elsewhere

-----------------------------------------------------------------------------
(* verifyShotSelectionActivity.                                            *)

VerifyUnchanged == UNCHANGED <<script, succeeded, passed, set, history, request>>

\* Mutant: the latest set, open or approved.
VerifyAnySet ==
  /\ crossing.pc = "IDLE" /\ Latest # None
  /\ crossing' = [pc |-> "SCRIPT", set |-> Latest]
  /\ UNCHANGED crossed /\ VerifyUnchanged

\* The latest set is an approved one.
VerifySet ==
  /\ crossing.pc = "IDLE" /\ Latest # None /\ set[Latest].status = "APPROVED"
  /\ crossing' = [pc |-> "SCRIPT", set |-> Latest]
  /\ UNCHANGED crossed /\ VerifyUnchanged

\* It was drafted for the latest script.
VerifyScript ==
  /\ crossing.pc = "SCRIPT"
  /\ crossing' = IF set[crossing.set].script = script
                   THEN [crossing EXCEPT !.pc = "ROWS"] ELSE [pc |-> "IDLE", set |-> None]
  /\ UNCHANGED crossed /\ VerifyUnchanged

\* And its rows all hold a candidate: the campaign goes on with it.
VerifyRows ==
  /\ crossing.pc = "ROWS"
  /\ crossed' = IF Complete(crossing.set) THEN crossed \cup {crossing.set} ELSE crossed
  /\ crossing' = [pc |-> "IDLE", set |-> None]
  /\ VerifyUnchanged

-----------------------------------------------------------------------------
Handle(r) ==
  \/ DraftVersion(r) \/ CreateSet(r) \/ CreateRow(r) \/ LookAtRows(r)
  \/ AskSelect(r) \/ AskReject(r) \/ ReadForEdit(r) \/ SwapForEdit(r)
  \/ WriteRow(r) \/ WriteHistory(r)
  \/ AskApprove(r) \/ ReadForApproval(r) \/ CheckRows(r) \/ Freeze(r)

Next ==
  \/ \E r \in Reviewers : AskDraft(r) \/ LookAtSet(r) \/ Handle(r) \/ Die(r)
  \/ \E g \in Generations : Succeed(g[1], g[2], g[3])
  \/ ReviseScript
  \/ VerifySet \/ VerifyScript \/ VerifyRows

Spec == Init /\ [][Next]_vars

-----------------------------------------------------------------------------
(* What must hold.                                                         *)

\* What a reviewer approves is what he saw. When nobody else was at work on the
\* set as he looked at it, the frozen set holds exactly those rows, and holds them
\* ever after, whatever edits were asked for in between and are asked for later.
FrozenAsSeen ==
  \A v \in Versions :
    set[v].status = "APPROVED" /\ set[v].seen # NoRows => set[v].rows = set[v].seen

\* Of the edits of one set that may still write a row no two took the same
\* revision: one reviewer's edit never passes for another's.
OneEditPerRevision ==
  \A r, q \in Reviewers :
    /\ r # q /\ At(r, "WRITE") /\ At(q, "WRITE")
    /\ request[r].set = request[q].set
    => request[r].revision # request[q].revision

\* Whatever a set names for a shot, or its history ever named, is a candidate of
\* that very shot and script that both assessments have passed.
OnlyPassedAreNamed ==
  /\ \A v \in Versions, p \in Positions :
       set[v].rows[p].candidate # None =>
         set[v].rows[p].candidate \in passed[<<set[v].script, p>>]
  /\ \A h \in history :
       h.previous \in passed[<<set[h.set].script, h.position>>]

\* The campaign crosses the gate with a set some reviewer froze; seen by him at
\* rest, it crosses with a passed candidate for every row he saw.
CrossesAsFrozen ==
  \A v \in crossed :
    /\ set[v].status = "APPROVED"
    /\ set[v].seen # NoRows => \A p \in Positions :
         set[v].seen[p] # NoRow =>
           set[v].rows[p].status = "SELECTED"
           /\ set[v].rows[p].candidate \in passed[<<set[v].script, p>>]
=============================================================================
