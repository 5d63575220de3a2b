--------------------------- MODULE ShotGeneration ---------------------------
(***************************************************************************)
(* One run of shotGenerationWorkflow: it generates the film's shots in     *)
(* bounded batches, each shot by at most MaxAttempts attempts at a paid    *)
(* video provider, against the budgets of the scopes the shot falls under. *)
(*                                                                         *)
(* The workflow is Temporal's and does not crash.  Its activities do: a    *)
(* try of one ends anywhere, or is given up after a minute while its       *)
(* execution goes on (a stray), and is tried again up to MaxTries times.   *)
(* One action is what an execution does from one await to the next.        *)
(***************************************************************************)
EXTENDS Naturals, Integers, Sequences, FiniteSetsExt

CONSTANTS
  Shots,         \* the shot specifications
  Batch,         \* the batch of each, numbered from 1
  Policies,      \* the configured budget policies
  Scopes,        \* those a shot falls under, in the order of the levels
  Limit,         \* the cap of each
  Estimate,      \* the estimated cost of an attempt
  Costs,         \* what the provider may bill for a delivered job
  MaxAttempts,   \* MAX_SHOT_GENERATION_ATTEMPTS
  MaxTries,      \* maximumAttempts of the activities' retry policy
  CallsFail,     \* a call inside dispatch's try block may throw
  \* Bounds of the model, none of them the code's:
  Slots,         \* executions of one shot's activities at once
  MaxCrashes

Keys == Shots \X (1..MaxAttempts)     \* idempotency keys: the run is fixed
EntryTypes == {"RESERVATION", "CHARGE", "RELEASE"}
JobStatuses == {"NONE", "RUNNING", "CLIP", "BROKEN", "FAILED", "CANCELLED"}
AttemptStatuses == {"NONE", "SUBMITTED", "SUCCEEDED", "FAILED", "CANCELLED"}
Places == {"TOP", "DISPATCH", "POLL", "CANCEL", "SLEEP", "SUCCEEDED", "FAILED",
           "RETRY_EXHAUSTED", "CANCELLED"}
Terminal == {"SUCCEEDED", "FAILED", "RETRY_EXHAUSTED", "CANCELLED"}
Steps == {"IDLE", "ANSWERED", "OPEN", "RESERVE", "SUBMIT", "FIND", "INSERT",
          "COUNT", "UNDO", "FAIL", "POLL", "ASK", "NOTE", "REGISTER", "INGEST",
          "LINK", "CLOSE", "WRITE", "CANCEL", "KILL"}
Outcomes == {"NONE", "OK", "REFUSED", "ERROR", "NOT_FOUND", "RUNNING",
             "SUCCEEDED", "FAILED", "CANCELLED"}

ASSUME ShotConstants ==
  /\ IsFiniteSet(Shots) /\ IsFiniteSet(Policies)
  /\ Batch \in [Shots -> Nat \ {0}]
  /\ Scopes \in [Shots -> Seq(Policies)]
  /\ Limit \in [Policies -> Nat]
  /\ Costs \subseteq Nat \ {0}
  /\ {Estimate, Slots, MaxTries, MaxAttempts} \subseteq Nat \ {0}
  /\ CallsFail \in BOOLEAN /\ MaxCrashes \in Nat

VARIABLES
  \* The database.
  ledger,        \* BudgetLedgerEntry: the entries of a key at a policy
  attempts,      \* ShotGenerationAttempt of a key; job: it names the provider's
  attemptCount,  \* ShotGenerationJob.attemptCount
  assets,        \* how far the candidate of a key is registered
  \* The provider.
  jobs,          \* its job for a key; "CLIP": delivered, "BROKEN": unusable
  cost,          \* what it bills for the job
  \* The workflow.
  shots,         \* where runShotToTerminal is, its attempt, tries of the activity
  live,          \* the execution whose answer it waits for; 0: none
  cancelled,
  failed,        \* an activity used up its tries, and the workflow with it
  \* The worker.
  exec,          \* the executions of each shot's activities
  crashes

db == <<ledger, attempts, attemptCount, assets>>
provider == <<jobs, cost>>
workflow == <<shots, cancelled, failed>>
vars == <<db, provider, workflow, live, exec, crashes>>

Idle == [at |-> "IDLE", n |-> 0, seen |-> 0, outcome |-> "NONE", i |-> 0]
NoAttempt == [status |-> "NONE", job |-> FALSE]

Init ==
  /\ ledger = [p \in Policies |-> [k \in Keys |-> {}]]
  /\ attempts = [k \in Keys |-> NoAttempt]
  /\ attemptCount = [s \in Shots |-> 0]
  /\ assets = [k \in Keys |-> "NONE"]
  /\ jobs = [k \in Keys |-> "NONE"]
  /\ cost = [k \in Keys |-> 0]
  /\ shots = [s \in Shots |-> [place |-> "TOP", n |-> 0, tries |-> 0]]
  /\ live = [s \in Shots |-> 0]
  /\ cancelled = FALSE /\ failed = FALSE
  /\ exec = [s \in Shots |-> [e \in 1..Slots |-> Idle]]
  /\ crashes = 0

-----------------------------------------------------------------------------
(* The ledger.                                                             *)

Net(p, k) ==
  (IF "RESERVATION" \in ledger[p][k] THEN Estimate ELSE 0)
    + (IF "CHARGE" \in ledger[p][k] THEN cost[k] ELSE 0)
    - (IF "RELEASE" \in ledger[p][k] THEN Estimate ELSE 0)

computeSpentCents(p) == MapThenSumSet(LAMBDA k : Net(p, k), Keys)

\* Mutant: any room left is room enough.
HasSomeRoom(p) == Limit[p] - computeSpentCents(p) > 0

HasRoom(p) == Limit[p] - computeSpentCents(p) >= Estimate

PoliciesOf(s) == {Scopes[s][i] : i \in DOMAIN Scopes[s]}

\* Mutants: a success is charged and its reservation left; every end is charged.
ClosingByCharge(s, outcome) ==
  [i \in 1..Len(Scopes[s]) |->
     [policy |-> Scopes[s][i], type |-> IF outcome = "SUCCEEDED" THEN "CHARGE" ELSE "RELEASE"]]

ClosingCharged(s, outcome) ==
  LET n == Len(Scopes[s])
  IN  [i \in 1..(2 * n) |->
         IF i <= n THEN [policy |-> Scopes[s][i], type |-> "CHARGE"]
                   ELSE [policy |-> Scopes[s][i - n], type |-> "RELEASE"]]

\* The entries that close an attempt's reservations, in the order written:
\* level by level, and a success is charged before it is released.
Closing(s, outcome) ==
  LET types == IF outcome = "SUCCEEDED" THEN <<"CHARGE", "RELEASE">> ELSE <<"RELEASE">>
      m == Len(types)
  IN  [i \in 1..(m * Len(Scopes[s])) |->
         [policy |-> Scopes[s][1 + (i - 1) \div m], type |-> types[1 + ((i - 1) % m)]]]

-----------------------------------------------------------------------------
(* An execution e of shot s: where it is, and how it ends.                 *)

At(s, e, step) == exec[s][e].at = step
KeyOf(s, e) == <<s, exec[s][e].n>>
GoTo(s, e, step) == exec' = [exec EXCEPT ![s][e].at = step]

\* A stray's answer is dropped by the server.
Answer(s, e, outcome) ==
  exec' = [exec EXCEPT ![s][e] =
             IF live[s] = e THEN [Idle EXCEPT !.at = "ANSWERED", !.outcome = outcome]
                            ELSE Idle]

\* The try ends without an answer: the process died, or a call threw.
Lose(s, e) ==
  /\ exec' = [exec EXCEPT ![s][e] = Idle]
  /\ live' = [live EXCEPT ![s] = IF @ = e THEN 0 ELSE @]

CloseWith(s, e, outcome) ==
  exec' = [exec EXCEPT ![s][e].at = "CLOSE", ![s][e].outcome = outcome, ![s][e].i = 1]

\* The next of the closing entries; one that is there already stays as it is.
WriteEntry(s, e, then) ==
  LET x == exec[s][e]
      entries == Closing(s, x.outcome)
      k == KeyOf(s, e)
  IN  IF x.i > Len(entries)
      THEN GoTo(s, e, then) /\ UNCHANGED ledger
      ELSE /\ ledger' = [ledger EXCEPT ![entries[x.i].policy][k] = @ \cup {entries[x.i].type}]
           /\ exec' = [exec EXCEPT ![s][e].i = @ + 1]

-----------------------------------------------------------------------------
(* dispatchShotGenerationActivity                                          *)

OpenJob(s, e) ==
  /\ At(s, e, "OPEN")
  /\ exec' = [exec EXCEPT ![s][e].at = "RESERVE", ![s][e].seen = attemptCount[s]]
  /\ UNCHANGED <<db, provider, workflow, live, crashes>>

\* At every scope or at none; a scope the key has reserved at is not asked again.
Reserve(s, e) ==
  LET k == KeyOf(s, e)
      new == {p \in PoliciesOf(s) : "RESERVATION" \notin ledger[p][k]}
  IN  /\ At(s, e, "RESERVE")
      /\ \/ /\ \A p \in new : HasRoom(p)
            /\ ledger' = [p \in Policies |->
                            IF p \in new THEN [ledger[p] EXCEPT ![k] = @ \cup {"RESERVATION"}]
                                         ELSE ledger[p]]
            /\ GoTo(s, e, "SUBMIT")
         \/ /\ \E p \in new : ~HasRoom(p)
            /\ Answer(s, e, "REFUSED")
            /\ UNCHANGED ledger
      /\ UNCHANGED <<attempts, attemptCount, assets, provider, workflow, live, crashes>>

\* The provider has one job per key.
Submit(s, e) ==
  /\ At(s, e, "SUBMIT")
  /\ jobs' = [jobs EXCEPT ![KeyOf(s, e)] = IF @ = "NONE" THEN "RUNNING" ELSE @]
  /\ GoTo(s, e, "FIND")
  /\ UNCHANGED <<db, cost, workflow, live, crashes>>

Undo(s, e) ==
  exec' = [exec EXCEPT ![s][e].at = "UNDO", ![s][e].outcome = "ERROR", ![s][e].i = 1]

\* submit() throws: the request was refused, or only its answer was lost.
SubmitThrows(s, e) ==
  /\ CallsFail
  /\ At(s, e, "SUBMIT")
  /\ \/ UNCHANGED jobs
     \/ jobs' = [jobs EXCEPT ![KeyOf(s, e)] = IF @ = "NONE" THEN "RUNNING" ELSE @]
  /\ Undo(s, e)
  /\ UNCHANGED <<db, cost, workflow, live, crashes>>

\* Mutant: an attempt that is there is counted like a new one.
FindAndCount(s, e) ==
  /\ At(s, e, "FIND")
  /\ GoTo(s, e, IF attempts[KeyOf(s, e)].status = "NONE" THEN "INSERT" ELSE "COUNT")
  /\ UNCHANGED <<db, provider, workflow, live, crashes>>

FindAttempt(s, e) ==
  /\ At(s, e, "FIND")
  /\ IF attempts[KeyOf(s, e)].status = "NONE"
     THEN GoTo(s, e, "INSERT")
     ELSE Answer(s, e, "OK")
  /\ UNCHANGED <<db, provider, workflow, live, crashes>>

\* The row of the same key may have been inserted since it was not found.
InsertAttempt(s, e) ==
  LET k == KeyOf(s, e)
  IN  /\ At(s, e, "INSERT")
      /\ \/ /\ attempts[k].status = "NONE"
            /\ attempts' = [attempts EXCEPT ![k] = [status |-> "SUBMITTED", job |-> TRUE]]
            /\ GoTo(s, e, "COUNT")
         \/ /\ attempts[k].status # "NONE"
            /\ Undo(s, e)
            /\ UNCHANGED attempts
      /\ UNCHANGED <<ledger, attemptCount, assets, provider, workflow, live, crashes>>

CountAttempt(s, e) ==
  /\ At(s, e, "COUNT")
  /\ attemptCount' = [attemptCount EXCEPT ![s] = exec[s][e].seen + 1]
  /\ Answer(s, e, "OK")
  /\ UNCHANGED <<ledger, attempts, assets, provider, workflow, live, crashes>>

WriteThrows(s, e) ==
  /\ CallsFail
  /\ exec[s][e].at \in {"FIND", "INSERT", "COUNT"}
  /\ Undo(s, e)
  /\ UNCHANGED <<db, provider, workflow, live, crashes>>

ReleaseAlreadyReserved(s, e) ==
  /\ At(s, e, "UNDO")
  /\ WriteEntry(s, e, "FAIL")
  /\ UNCHANGED <<attempts, attemptCount, assets, provider, workflow, live, crashes>>

FailAttempt(s, e) ==
  LET k == KeyOf(s, e)
  IN  /\ At(s, e, "FAIL")
      /\ attempts' = [attempts EXCEPT ![k] =
                        IF @ = NoAttempt THEN [status |-> "FAILED", job |-> FALSE] ELSE @]
      /\ Answer(s, e, "ERROR")
      /\ UNCHANGED <<ledger, attemptCount, assets, provider, workflow, live, crashes>>

Dispatch(s, e) ==
  \/ OpenJob(s, e) \/ Reserve(s, e) \/ Submit(s, e) \/ SubmitThrows(s, e)
  \/ FindAttempt(s, e) \/ InsertAttempt(s, e) \/ CountAttempt(s, e)
  \/ WriteThrows(s, e) \/ ReleaseAlreadyReserved(s, e) \/ FailAttempt(s, e)

-----------------------------------------------------------------------------
(* pollShotGenerationActivity                                              *)

ReadAttempt(s, e) ==
  LET a == attempts[KeyOf(s, e)]
  IN  /\ At(s, e, "POLL")
      /\ \/ ~a.job /\ Answer(s, e, "NOT_FOUND")
         \/ a.job /\ a.status = "SUBMITTED" /\ GoTo(s, e, "ASK")
         \/ a.job /\ a.status # "SUBMITTED" /\ Answer(s, e, a.status)
      /\ UNCHANGED <<db, provider, workflow, live, crashes>>

\* getStatus, and for a delivered job the inspection of its file.
AskProvider(s, e) ==
  LET j == jobs[KeyOf(s, e)]
  IN  /\ At(s, e, "ASK")
      /\ \/ j = "RUNNING" /\ GoTo(s, e, "NOTE")
         \/ j = "CLIP" /\ GoTo(s, e, "REGISTER")
         \/ j \in {"BROKEN", "FAILED"} /\ CloseWith(s, e, "FAILED")
         \/ j = "CANCELLED" /\ CloseWith(s, e, "CANCELLED")
      /\ UNCHANGED <<db, provider, workflow, live, crashes>>

\* The status is written without a look at the one that is there.
NoteRunning(s, e) ==
  /\ At(s, e, "NOTE")
  /\ attempts' = [attempts EXCEPT ![KeyOf(s, e)].status = "SUBMITTED"]
  /\ Answer(s, e, "RUNNING")
  /\ UNCHANGED <<ledger, attemptCount, assets, provider, workflow, live, crashes>>

CreateCandidate(s, e) ==
  /\ At(s, e, "REGISTER")
  /\ assets' = [assets EXCEPT ![KeyOf(s, e)] = IF @ = "NONE" THEN "CANDIDATE" ELSE @]
  /\ GoTo(s, e, "INGEST")
  /\ UNCHANGED <<ledger, attempts, attemptCount, provider, workflow, live, crashes>>

\* An asset's storage key and its checksum are unique: a second create throws.
CreateAsset(s, e) ==
  LET k == KeyOf(s, e)
  IN  /\ At(s, e, "INGEST")
      /\ \/ /\ assets[k] = "CANDIDATE"
            /\ assets' = [assets EXCEPT ![k] = "STORED"]
            /\ GoTo(s, e, "LINK")
            /\ UNCHANGED live
         \/ /\ assets[k] # "CANDIDATE"
            /\ Lose(s, e)
            /\ UNCHANGED assets
      /\ UNCHANGED <<ledger, attempts, attemptCount, provider, workflow, crashes>>

LinkAsset(s, e) ==
  /\ At(s, e, "LINK")
  /\ assets' = [assets EXCEPT ![KeyOf(s, e)] = "LINKED"]
  /\ CloseWith(s, e, "SUCCEEDED")
  /\ UNCHANGED <<ledger, attempts, attemptCount, provider, workflow, live, crashes>>

releaseOrChargeAcrossLevels(s, e) ==
  /\ At(s, e, "CLOSE")
  /\ WriteEntry(s, e, "WRITE")
  /\ UNCHANGED <<attempts, attemptCount, assets, provider, workflow, live, crashes>>

WriteOutcome(s, e) ==
  /\ At(s, e, "WRITE")
  /\ attempts' = [attempts EXCEPT ![KeyOf(s, e)].status = exec[s][e].outcome]
  /\ Answer(s, e, exec[s][e].outcome)
  /\ UNCHANGED <<ledger, attemptCount, assets, provider, workflow, live, crashes>>

Poll(s, e) ==
  \/ ReadAttempt(s, e) \/ AskProvider(s, e) \/ NoteRunning(s, e)
  \/ CreateCandidate(s, e) \/ CreateAsset(s, e) \/ LinkAsset(s, e)
  \/ releaseOrChargeAcrossLevels(s, e) \/ WriteOutcome(s, e)

-----------------------------------------------------------------------------
(* cancelShotGenerationActivity; it closes as a poll does.                 *)

ReadForCancel(s, e) ==
  /\ At(s, e, "CANCEL")
  /\ IF attempts[KeyOf(s, e)].status = "SUBMITTED"
     THEN GoTo(s, e, "KILL")
     ELSE Answer(s, e, "CANCELLED")
  /\ UNCHANGED <<db, provider, workflow, live, crashes>>

\* Mutant: a cancelled attempt keeps its reservation.
CancelJobOnly(s, e) ==
  /\ At(s, e, "KILL")
  /\ jobs' = [jobs EXCEPT ![KeyOf(s, e)] = IF @ = "RUNNING" THEN "CANCELLED" ELSE @]
  /\ exec' = [exec EXCEPT ![s][e].at = "WRITE", ![s][e].outcome = "CANCELLED"]
  /\ UNCHANGED <<db, cost, workflow, live, crashes>>

CancelJob(s, e) ==
  /\ At(s, e, "KILL")
  /\ jobs' = [jobs EXCEPT ![KeyOf(s, e)] = IF @ = "RUNNING" THEN "CANCELLED" ELSE @]
  /\ CloseWith(s, e, "CANCELLED")
  /\ UNCHANGED <<db, cost, workflow, live, crashes>>

Cancel(s, e) == ReadForCancel(s, e) \/ CancelJob(s, e)

-----------------------------------------------------------------------------
(* shotGenerationWorkflow: runShotToTerminal for each shot of a batch.     *)

Running == ~failed
Ended == failed \/ \A s \in Shots : shots[s].place \in Terminal

\* A batch begins when the one before it has ended, whatever its shots came to.
BatchStarted(s) == \A r \in Shots : Batch[r] < Batch[s] => shots[r].place \in Terminal

Move(s, place) == shots' = [shots EXCEPT ![s].place = place, ![s].tries = 0]

BeginAttempt(s) ==
  /\ Running /\ shots[s].place = "TOP" /\ BatchStarted(s)
  /\ IF cancelled
     THEN Move(s, "CANCELLED")
     ELSE shots' = [shots EXCEPT ![s] = [place |-> "DISPATCH", n |-> @.n + 1, tries |-> 0]]
  /\ UNCHANGED <<db, provider, cancelled, failed, live, exec, crashes>>

FirstStep == [DISPATCH |-> "OPEN", POLL |-> "POLL", CANCEL |-> "CANCEL"]

\* Mutant: one try too many.
MayTryLate(s) == shots[s].tries <= MaxTries

MayTry(s) == shots[s].tries < MaxTries

StartTry(s, e) ==
  /\ Running /\ shots[s].place \in DOMAIN FirstStep
  /\ live[s] = 0 /\ MayTry(s) /\ At(s, e, "IDLE")
  /\ shots' = [shots EXCEPT ![s].tries = @ + 1]
  /\ live' = [live EXCEPT ![s] = e]
  /\ exec' = [exec EXCEPT ![s][e] = [Idle EXCEPT !.at = FirstStep[shots[s].place],
                                                 !.n = shots[s].n]]
  /\ UNCHANGED <<db, provider, cancelled, failed, crashes>>

\* The activity fails for good; the workflow with it, and nothing waits any more.
GiveUp(s) ==
  /\ Running /\ shots[s].place \in DOMAIN FirstStep
  /\ live[s] = 0 /\ shots[s].tries = MaxTries
  /\ failed' = TRUE
  /\ live' = [r \in Shots |-> 0]
  /\ UNCHANGED <<db, provider, shots, cancelled, exec, crashes>>

\* Mutant: a failed dispatch is retried like a failed job.
RetriedAlways(outcome, n) == outcome \in {"FAILED", "ERROR"} /\ n < MaxAttempts

\* A failed attempt is followed by the next; other failures are the shot's last.
Retried(outcome, n) == outcome = "FAILED" /\ n < MaxAttempts

AfterOk == IF cancelled THEN "CANCEL" ELSE "POLL"

\* Mutant: an attempt that has no job yet is polled again.
PlaceAfterPatient(outcome, n) ==
  CASE outcome = "OK" -> AfterOk
    [] outcome \in {"RUNNING", "NOT_FOUND"} -> "SLEEP"
    [] Retried(outcome, n) -> "TOP"
    [] outcome \in {"REFUSED", "ERROR"} -> "FAILED"
    [] outcome \in {"SUCCEEDED", "CANCELLED"} -> outcome
    [] OTHER -> "RETRY_EXHAUSTED"

PlaceAfter(outcome, n) ==
  CASE outcome = "OK" -> AfterOk
    [] outcome = "RUNNING" -> "SLEEP"
    [] Retried(outcome, n) -> "TOP"
    [] outcome \in {"REFUSED", "ERROR"} -> "FAILED"
    [] outcome \in {"SUCCEEDED", "CANCELLED"} -> outcome
    [] OTHER -> IF n < MaxAttempts THEN "FAILED" ELSE "RETRY_EXHAUSTED"

TakeAnswer(s) ==
  /\ Running /\ live[s] # 0 /\ At(s, live[s], "ANSWERED")
  /\ Move(s, PlaceAfter(exec[s][live[s]].outcome, shots[s].n))
  /\ Lose(s, live[s])
  /\ UNCHANGED <<db, provider, cancelled, failed, crashes>>

Wake(s) ==
  /\ Running /\ shots[s].place = "SLEEP"
  /\ Move(s, AfterOk)
  /\ UNCHANGED <<db, provider, cancelled, failed, live, exec, crashes>>

CancelSignal ==
  /\ Running /\ ~Ended /\ ~cancelled
  /\ cancelled' = TRUE
  /\ UNCHANGED <<db, provider, shots, failed, live, exec, crashes>>

-----------------------------------------------------------------------------
(* What fails, and the provider.                                           *)

Busy(s, e) == exec[s][e].at \notin {"IDLE", "ANSWERED"}

Crash(s, e) ==
  /\ Busy(s, e) /\ crashes < MaxCrashes
  /\ crashes' = crashes + 1
  /\ Lose(s, e)
  /\ UNCHANGED <<db, provider, workflow>>

\* The minute is over: the try counts as lost while its execution goes on.
TimeOut(s) ==
  /\ live[s] # 0 /\ Busy(s, live[s])
  /\ \E e \in 1..Slots : At(s, e, "IDLE")
  /\ live' = [live EXCEPT ![s] = 0]
  /\ UNCHANGED <<db, provider, workflow, exec, crashes>>

FinishJob(k) ==
  /\ jobs[k] = "RUNNING"
  /\ \E j \in {"CLIP", "BROKEN", "FAILED"} : jobs' = [jobs EXCEPT ![k] = j]
  /\ IF jobs'[k] = "CLIP"
     THEN \E c \in Costs : cost' = [cost EXCEPT ![k] = c]
     ELSE UNCHANGED cost
  /\ UNCHANGED <<db, workflow, live, exec, crashes>>

-----------------------------------------------------------------------------
Execute(s, e) == Dispatch(s, e) \/ Poll(s, e) \/ Cancel(s, e)

RunShot(s) == BeginAttempt(s) \/ GiveUp(s) \/ TakeAnswer(s) \/ Wake(s)

Next ==
  \/ \E s \in Shots : RunShot(s) \/ TimeOut(s)
  \/ \E s \in Shots, e \in 1..Slots : StartTry(s, e) \/ Execute(s, e) \/ Crash(s, e)
  \/ \E k \in Keys : FinishJob(k)
  \/ CancelSignal

Spec == Init /\ [][Next]_vars

\* The step the workflow waits for in shot s, by the workflow or its live try.
Awaited(s) ==
  \/ RunShot(s)
  \/ \E e \in 1..Slots : StartTry(s, e) \/ (e = live[s] /\ Execute(s, e))

\* A worker polls for ever; a provider ends every job it has accepted.
FairSpec ==
  /\ Spec
  /\ \A s \in Shots : WF_vars(Awaited(s))
  /\ \A k \in Keys : WF_vars(FinishJob(k))

-----------------------------------------------------------------------------
(* Properties                                                              *)

TypeOK ==
  /\ ledger \in [Policies -> [Keys -> SUBSET EntryTypes]]
  /\ attempts \in [Keys -> [status : AttemptStatuses, job : BOOLEAN]]
  /\ attemptCount \in [Shots -> 0..MaxAttempts]
  /\ assets \in [Keys -> {"NONE", "CANDIDATE", "STORED", "LINKED"}]
  /\ jobs \in [Keys -> JobStatuses]
  /\ cost \in [Keys -> Costs \cup {0}]
  /\ shots \in [Shots -> [place : Places, n : 0..MaxAttempts, tries : 0..MaxTries]]
  /\ live \in [Shots -> 0..Slots]
  /\ {cancelled, failed} \subseteq BOOLEAN
  /\ exec \in [Shots -> [1..Slots -> [at : Steps, n : 0..MaxAttempts,
                  seen : 0..MaxAttempts, outcome : Outcomes, i : Nat]]]
  /\ crashes \in 0..MaxCrashes

\* An attempt recorded as a success was delivered, has its registered asset,
\* and nets to its cost at every scope: whichever of its executions, the lost
\* and the late ones included, did the steps (poll-shot-generation-activity.ts).
SettledAtCost ==
  \A s \in Shots, n \in 1..MaxAttempts :
    attempts[<<s, n>>].status = "SUCCEEDED" =>
      /\ jobs[<<s, n>>] = "CLIP" /\ assets[<<s, n>>] = "LINKED"
      /\ \A p \in PoliciesOf(s) : ledger[p][<<s, n>>] = EntryTypes

\* The provider never works on two attempts of one shot at a time, and never
\* on one more after it delivered one: a lost answer, a late try or a failed
\* dispatch does not start another paid job.
OneJobAtATime ==
  \A s \in Shots : \A n, m \in 1..MaxAttempts :
    n < m /\ jobs[<<s, m>>] # "NONE" => jobs[<<s, n>>] \in {"BROKEN", "FAILED"}

\* Nothing is charged for an attempt that delivered nothing usable, and no
\* scope is charged for a shot twice.
PaidOnce ==
  \A p \in Policies :
    /\ \A k \in Keys : "CHARGE" \in ledger[p][k] => jobs[k] = "CLIP"
    /\ \A s \in Shots :
         Cardinality({n \in 1..MaxAttempts : "CHARGE" \in ledger[p][<<s, n>>]}) <= 1

\* A replayed dispatch does not count its attempt again.
CountsNoReplay ==
  \A s \in Shots :
    attemptCount[s] <= Cardinality({n \in 1..MaxAttempts : attempts[<<s, n>>].job})

\* A workflow that returns leaves no reservation open, on whatever path each
\* shot ended and whatever was lost on the way.
ClosedWhenDone ==
  Ended /\ ~failed =>
    \A p \in Policies, k \in Keys :
      "RESERVATION" \in ledger[p][k] => "RELEASE" \in ledger[p][k]

\* What has been charged, and what is reserved for the rest, is within every
\* cap while several shots reserve and settle at once: if no job costs more than
\* its estimate and no call of a dispatch throws.  A charge comes before its
\* release, so the ledger's own sum may go over for a moment.
Committed(p, k) ==
  IF "CHARGE" \in ledger[p][k] THEN cost[k]
  ELSE IF "RESERVATION" \in ledger[p][k] /\ "RELEASE" \notin ledger[p][k] THEN Estimate
  ELSE 0

Commitments(p) == MapThenSumSet(LAMBDA k : Committed(p, k), Keys)

WithinCaps == \A p \in Policies : Commitments(p) <= Limit[p]

\* No attempt is reserved for unless it fits the cap with everything charged and
\* everything reserved by then: with late executions, calls that throw and jobs that
\* cost more than their estimate, too.  These may take what is committed over a cap,
\* but then nothing new is granted there: no release counts for more than the
\* reservation it takes back.
GrantsWithinCaps ==
  [][\A p \in Policies :
       (\E k \in Keys : "RESERVATION" \in ledger'[p][k] \ ledger[p][k])
         => Commitments(p)' <= Limit[p]]_vars

\* The workflow comes to an end: every shot's attempts, polls and tries do.
ShotsEnd == <>Ended
=============================================================================
