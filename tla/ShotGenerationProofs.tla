----------------------- MODULE ShotGenerationProofs -----------------------
(***************************************************************************)
(* Two invariants, for every number of shots, tries, strays and crashes.   *)
(*                                                                         *)
(* IInv: the provider never works on two attempts of one shot, and on none *)
(* after one it delivered.  The reason is a chain through five places: a   *)
(* job that ended badly is what a poll closes as FAILED, what it writes on *)
(* the attempt, what it answers, what sends the shot back to the top, and  *)
(* so what every attempt before the shot's current one has come to.  A     *)
(* stray works on the current attempt or an earlier one, whose job is      *)
(* there already.                                                          *)
(*                                                                         *)
(* SInv: what is written about an attempt agrees.  Whoever works on it     *)
(* knows that it is reserved, the closing entries come before the row that *)
(* says an end, the row before the answer, and the workflow leaves an      *)
(* attempt when the answer says that it is settled.                        *)
(*                                                                         *)
(* The caps: a policy's sum of what is charged, and reserved for the rest, *)
(* is never more than the ledger's own sum, which a reservation is held    *)
(* against, because an entry of a key comes after its reservation.         *)
(***************************************************************************)
EXTENDS ShotGeneration, FiniteSetTheorems, SequenceTheorems, WellFoundedInduction, TLAPS

Failed(k) == jobs[k] \in {"BROKEN", "FAILED"}

Execution ==
  [at : Steps, n : 0..MaxAttempts, seen : Nat, outcome : Outcomes, i : Nat]

\* What may be written on an attempt, as far as types go.
Statuses == AttemptStatuses \cup Outcomes

Typed ==
  /\ attempts \in [Keys -> [status : Statuses, job : BOOLEAN]]
  /\ attemptCount \in [Shots -> Nat]
  /\ jobs \in [Keys -> JobStatuses]
  /\ shots \in [Shots -> [place : Places, n : 0..MaxAttempts, tries : Nat]]
  /\ live \in [Shots -> 0..Slots]
  /\ exec \in [Shots -> [1..Slots -> Execution]]

\* Earlier attempts have ended badly; later ones have no job.
AttemptsInTurn ==
  \A s \in Shots, n \in 1..MaxAttempts :
    /\ n < shots[s].n => Failed(<<s, n>>)
    /\ n > shots[s].n => jobs[<<s, n>>] = "NONE"

\* A shot goes back to the top after a failed job only, with attempts left.
TopAfterFailure ==
  \A s \in Shots :
    shots[s].place = "TOP" =>
      shots[s].n < MaxAttempts /\ (shots[s].n > 0 => Failed(<<s, shots[s].n>>))

\* The workflow waits for a try of its current attempt; strays are of no later one.
TriesOfAttempts ==
  \A s \in Shots :
    /\ shots[s].place \in {"DISPATCH", "POLL", "CANCEL", "SLEEP"} => shots[s].n > 0
    /\ live[s] # 0 => shots[s].place \in {"DISPATCH", "POLL", "CANCEL"}
    /\ \A e \in 1..Slots : Busy(s, e) =>
         /\ exec[s][e].n \in 1..shots[s].n
         /\ live[s] = e => exec[s][e].n = shots[s].n

\* FAILED is said of failed jobs only: by the row, while closing, in the answer.
FailedIsFailed ==
  /\ \A k \in Keys : attempts[k].job /\ attempts[k].status = "FAILED" => Failed(k)
  /\ \A s \in Shots, e \in 1..Slots : exec[s][e].outcome = "FAILED" =>
       /\ exec[s][e].at \in {"CLOSE", "WRITE"} => Failed(KeyOf(s, e))
       /\ At(s, e, "ANSWERED") /\ live[s] = e => Failed(<<s, shots[s].n>>)

IInv == Typed /\ AttemptsInTurn /\ TopAfterFailure /\ TriesOfAttempts /\ FailedIsFailed

-----------------------------------------------------------------------------
(* How an execution moves.                                                 *)

\* The bounds are numbers.
LEMMA ConstantsNat == MaxAttempts \in Nat /\ Slots \in Nat /\ MaxTries \in Nat
  BY ShotConstants DEF ShotConstants

\* Execution e of s becomes x, and the others stay as they are.
Becomes(s, e, x) ==
  /\ x \in Execution
  /\ exec' \in [Shots -> [1..Slots -> Execution]]
  /\ exec'[s][e] = x
  /\ \A r \in Shots, f \in 1..Slots : r # s \/ f # e => exec'[r][f] = exec[r][f]

\* Replacing one execution by a well-typed one does that.
LEMMA Replaced ==
  ASSUME Typed, NEW s \in Shots, NEW e \in 1..Slots, NEW x \in Execution,
         exec' = [exec EXCEPT ![s][e] = x]
  PROVE  Becomes(s, e, x)
  BY DEF Becomes, Typed

\* A step within an activity.
LEMMA GoneTo ==
  ASSUME Typed, NEW s \in Shots, NEW e \in 1..Slots, NEW step \in Steps,
         GoTo(s, e, step)
  PROVE  Becomes(s, e, [exec[s][e] EXCEPT !.at = step])
<1>1. exec[s][e] \in Execution
  BY DEF Typed
<1>2. [exec[s][e] EXCEPT !.at = step] \in Execution
  BY <1>1 DEF Execution
<1>3. exec' = [exec EXCEPT ![s][e] = [exec[s][e] EXCEPT !.at = step]]
  BY DEF GoTo, Typed
<1> QED BY <1>2, <1>3, Replaced

\* A free slot is well typed.
LEMMA IdleTyped == Idle \in Execution
  BY ConstantsNat DEF Idle, Execution, Steps, Outcomes

\* The end of an activity: its answer is kept only if the workflow waits for it.
LEMMA Answered ==
  ASSUME Typed, NEW s \in Shots, NEW e \in 1..Slots, NEW o \in Outcomes,
         Answer(s, e, o)
  PROVE  Becomes(s, e, IF live[s] = e
                       THEN [Idle EXCEPT !.at = "ANSWERED", !.outcome = o] ELSE Idle)
<1>1. [Idle EXCEPT !.at = "ANSWERED", !.outcome = o] \in Execution
  BY IdleTyped DEF Execution, Steps, Idle
<1>2. CASE live[s] = e
  BY <1>1, <1>2, Replaced DEF Answer
<1>3. CASE live[s] # e
  BY <1>3, IdleTyped, Replaced DEF Answer
<1> QED BY <1>2, <1>3

\* A lost try leaves its slot.
LEMMA Lost ==
  ASSUME Typed, NEW s \in Shots, NEW e \in 1..Slots, Lose(s, e)
  PROVE  /\ Becomes(s, e, Idle)
         /\ live' \in [Shots -> 0..Slots]
         /\ \A r \in Shots : live'[r] \in {live[r], 0}
<1>1. Becomes(s, e, Idle)
  BY IdleTyped, Replaced DEF Lose
<1> QED BY <1>1, ConstantsNat DEF Lose, Typed

\* The start of the closing entries, of a poll or cancellation and of an undo.
LEMMA ClosingWith ==
  ASSUME Typed, NEW s \in Shots, NEW e \in 1..Slots, NEW o \in Outcomes,
         CloseWith(s, e, o)
  PROVE  Becomes(s, e, [exec[s][e] EXCEPT !.at = "CLOSE", !.outcome = o, !.i = 1])
<1>1. exec[s][e] \in Execution
  BY DEF Typed
<1>2. [exec[s][e] EXCEPT !.at = "CLOSE", !.outcome = o, !.i = 1] \in Execution
  BY <1>1 DEF Execution, Steps
<1>3. exec' = [exec EXCEPT ![s][e] =
                 [exec[s][e] EXCEPT !.at = "CLOSE", !.outcome = o, !.i = 1]]
  BY DEF CloseWith, Typed
<1> QED BY <1>2, <1>3, Replaced

\* The start of releasing what a failed dispatch had reserved.
LEMMA Undone ==
  ASSUME Typed, NEW s \in Shots, NEW e \in 1..Slots, Undo(s, e)
  PROVE  Becomes(s, e, [exec[s][e] EXCEPT !.at = "UNDO", !.outcome = "ERROR", !.i = 1])
<1>1. exec[s][e] \in Execution
  BY DEF Typed
<1>2. [exec[s][e] EXCEPT !.at = "UNDO", !.outcome = "ERROR", !.i = 1] \in Execution
  BY <1>1 DEF Execution, Steps, Outcomes
<1>3. exec' = [exec EXCEPT ![s][e] =
                 [exec[s][e] EXCEPT !.at = "UNDO", !.outcome = "ERROR", !.i = 1]]
  BY DEF Undo, Typed
<1> QED BY <1>2, <1>3, Replaced

-----------------------------------------------------------------------------
(* What a step of an execution may do to keep the invariant.               *)

Working(x) == x.at \notin {"IDLE", "ANSWERED"}

FailedNext(k) == jobs'[k] \in {"BROKEN", "FAILED"}

\* Failed jobs stay failed and no job is created but for key k.
JobsKept(k) ==
  /\ jobs' \in [Keys -> JobStatuses]
  /\ \A l \in Keys : Failed(l) => FailedNext(l)
  /\ \A l \in Keys : l # k /\ jobs[l] = "NONE" => jobs'[l] = "NONE"

AttemptsKept ==
  /\ attempts' \in [Keys -> [status : Statuses, job : BOOLEAN]]
  /\ \A k \in Keys : attempts'[k].job /\ attempts'[k].status = "FAILED" => FailedNext(k)

ExecutionKept(s, e, x) ==
  /\ Becomes(s, e, x)
  /\ Working(x) => x.n = exec[s][e].n
  /\ x.outcome = "FAILED" =>
       /\ x.at \in {"CLOSE", "WRITE"} => FailedNext(<<s, x.n>>)
       /\ x.at = "ANSWERED" /\ live'[s] = e => FailedNext(<<s, shots[s].n>>)

LiveKept ==
  /\ live' \in [Shots -> 0..Slots]
  /\ \A r \in Shots : live'[r] \in {live[r], 0}

\* A step of one execution keeps the invariant if it creates a job for its own key
\* only, fails none but failed jobs and says FAILED of failed ones only.
LEMMA ExecutionStep ==
  ASSUME IInv, NEW s \in Shots, NEW e \in 1..Slots, NEW x,
         Working(exec[s][e]), UNCHANGED shots, attemptCount' \in [Shots -> Nat],
         JobsKept(KeyOf(s, e)), AttemptsKept, ExecutionKept(s, e, x), LiveKept
  PROVE  IInv'
<1> USE ConstantsNat
<1>1. Typed'
  BY DEF IInv, Typed, JobsKept, AttemptsKept, ExecutionKept, LiveKept, Becomes
<1>2. exec[s][e].n \in 1..shots[s].n /\ (live[s] = e => exec[s][e].n = shots[s].n)
  BY DEF IInv, TriesOfAttempts, Busy, Working
<1>3. AttemptsInTurn'
  <2> SUFFICES ASSUME NEW r \in Shots, NEW n \in 1..MaxAttempts
               PROVE  /\ n < shots[r].n => FailedNext(<<r, n>>)
                      /\ n > shots[r].n => jobs'[<<r, n>>] = "NONE"
    BY DEF AttemptsInTurn, Failed, FailedNext
  <2>1. <<r, n>> \in Keys
    BY DEF Keys
  <2>2. n > shots[r].n => <<r, n>> # KeyOf(s, e)
    BY <1>2 DEF KeyOf, IInv, Typed
  <2> QED BY <2>1, <2>2 DEF IInv, AttemptsInTurn, JobsKept
<1>4. TopAfterFailure'
  <2> SUFFICES ASSUME NEW r \in Shots, shots[r].place = "TOP"
               PROVE  shots[r].n < MaxAttempts /\ (shots[r].n > 0 => FailedNext(<<r, shots[r].n>>))
    BY DEF TopAfterFailure, Failed, FailedNext
  <2>1. shots[r].n \in 0..MaxAttempts
    BY DEF IInv, Typed
  <2>2. shots[r].n > 0 => <<r, shots[r].n>> \in Keys
    BY <2>1 DEF Keys
  <2> QED BY <2>2 DEF IInv, TopAfterFailure, JobsKept
<1>5. TriesOfAttempts'
  <2> SUFFICES ASSUME NEW r \in Shots
               PROVE  /\ shots[r].place \in {"DISPATCH", "POLL", "CANCEL", "SLEEP"} => shots[r].n > 0
                      /\ live'[r] # 0 => shots[r].place \in {"DISPATCH", "POLL", "CANCEL"}
                      /\ \A f \in 1..Slots : Working(exec'[r][f]) =>
                           /\ exec'[r][f].n \in 1..shots[r].n
                           /\ live'[r] = f => exec'[r][f].n = shots[r].n
    BY DEF TriesOfAttempts, Busy, Working
  <2>1. live'[r] \in {live[r], 0}
    BY DEF LiveKept
  <2>2. ASSUME NEW f \in 1..Slots, Working(exec'[r][f])
        PROVE  /\ exec'[r][f].n \in 1..shots[r].n
               /\ live'[r] = f => exec'[r][f].n = shots[r].n
    <3>1. CASE r = s /\ f = e
      BY <3>1, <2>2, <2>1, <1>2 DEF ExecutionKept, Becomes
    <3>2. CASE r # s \/ f # e
      <4>1. exec'[r][f] = exec[r][f]
        BY <3>2 DEF ExecutionKept, Becomes
      <4> QED BY <4>1, <2>2, <2>1 DEF IInv, TriesOfAttempts, Busy, Working
    <3> QED BY <3>1, <3>2
  <2> QED BY <2>1, <2>2 DEF IInv, TriesOfAttempts
<1>6. FailedIsFailed'
  <2>1. ASSUME NEW r \in Shots, NEW f \in 1..Slots, exec'[r][f].outcome = "FAILED"
        PROVE  /\ exec'[r][f].at \in {"CLOSE", "WRITE"} => FailedNext(<<r, exec'[r][f].n>>)
               /\ exec'[r][f].at = "ANSWERED" /\ live'[r] = f => FailedNext(<<r, shots[r].n>>)
    <3>1. CASE r = s /\ f = e
      BY <3>1, <2>1 DEF ExecutionKept, Becomes
    <3>2. CASE r # s \/ f # e
      <4>1. exec'[r][f] = exec[r][f] /\ live'[r] \in {live[r], 0}
        BY <3>2 DEF ExecutionKept, Becomes, LiveKept
      <4>2. ASSUME exec[r][f].at \in {"CLOSE", "WRITE"}
            PROVE  FailedNext(<<r, exec[r][f].n>>)
        <5>1. exec[r][f].n \in 1..MaxAttempts
          <6>1. exec[r][f].n \in 1..shots[r].n
            BY <4>2 DEF IInv, TriesOfAttempts, Busy
          <6>2. shots[r].n \in 0..MaxAttempts
            BY DEF IInv, Typed
          <6> QED BY <6>1, <6>2
        <5>2. <<r, exec[r][f].n>> \in Keys
          BY <5>1 DEF Keys
        <5> QED BY <5>2, <4>2, <4>1, <2>1 DEF IInv, FailedIsFailed, KeyOf, JobsKept
      <4>3. ASSUME exec[r][f].at = "ANSWERED", live'[r] = f
            PROVE  FailedNext(<<r, shots[r].n>>)
        <5>1. live[r] = f
          BY <4>1, <4>3
        <5>2. shots[r].n \in 1..MaxAttempts
          <6>1. shots[r].n \in 0..MaxAttempts
            BY DEF IInv, Typed
          <6>2. live[r] # 0
            BY <5>1
          <6>3. shots[r].n > 0
            BY <6>2 DEF IInv, TriesOfAttempts
          <6> QED BY <6>1, <6>3
        <5>3. <<r, shots[r].n>> \in Keys
          BY <5>2 DEF Keys
        <5> QED BY <5>1, <5>3, <4>3, <4>1, <2>1 DEF IInv, FailedIsFailed, At, JobsKept
      <4> QED BY <4>1, <4>2, <4>3
    <3> QED BY <3>1, <3>2
  <2>2. \A k \in Keys : attempts'[k].job /\ attempts'[k].status = "FAILED" => FailedNext(k)
    BY DEF AttemptsKept
  <2> QED BY <2>1, <2>2 DEF FailedIsFailed, KeyOf, At, Failed, FailedNext
<1> QED BY <1>1, <1>3, <1>4, <1>5, <1>6 DEF IInv

-----------------------------------------------------------------------------
(* The kinds of steps the activities are made of.                          *)

\* What does not touch the jobs, the attempts or the waiting keeps them.
LEMMA Untouched ==
  ASSUME IInv
  PROVE  /\ jobs' = jobs => \A k \in Keys : JobsKept(k)
         /\ jobs' = jobs /\ attempts' = attempts => AttemptsKept
         /\ live' = live => LiveKept
  BY DEF IInv, Typed, FailedIsFailed, JobsKept, AttemptsKept, LiveKept, Failed, FailedNext

\* A working execution has a key: of its shot's current attempt or an earlier one.
LEMMA KeyOfInKeys ==
  ASSUME IInv, NEW s \in Shots, NEW e \in 1..Slots, Working(exec[s][e])
  PROVE  /\ exec[s][e].n \in 1..MaxAttempts
         /\ exec[s][e].n \in 1..shots[s].n
         /\ live[s] = e => exec[s][e].n = shots[s].n
         /\ KeyOf(s, e) \in Keys
<1> USE ConstantsNat
<1>1. exec[s][e].n \in 1..shots[s].n /\ (live[s] = e => exec[s][e].n = shots[s].n)
  BY DEF IInv, TriesOfAttempts, Busy, Working
<1>2. shots[s].n \in 0..MaxAttempts
  BY DEF IInv, Typed
<1>3. exec[s][e].n \in 1..MaxAttempts
  BY <1>1, <1>2
<1> QED BY <1>1, <1>3 DEF KeyOf, Keys

\* A step that only moves its execution on, short of closing and answering.
LEMMA GoToStep ==
  ASSUME IInv, NEW s \in Shots, NEW e \in 1..Slots, Working(exec[s][e]),
         NEW step \in Steps \ {"CLOSE", "WRITE", "ANSWERED"}, GoTo(s, e, step),
         UNCHANGED <<shots, live>>, attemptCount' \in [Shots -> Nat],
         JobsKept(KeyOf(s, e)), AttemptsKept
  PROVE  IInv'
<1> DEFINE x == [exec[s][e] EXCEPT !.at = step]
<1>1. Becomes(s, e, x)
  BY GoneTo DEF IInv
<1>2. x.at = step /\ x.n = exec[s][e].n
  BY DEF IInv, Typed, Execution
<1>3. ExecutionKept(s, e, x)
  BY <1>1, <1>2 DEF ExecutionKept
<1>4. LiveKept
  BY Untouched
<1> QED BY <1>3, <1>4, ExecutionStep

\* A step that answers FAILED for a failed job only,
LEMMA AnswerStep ==
  ASSUME IInv, NEW s \in Shots, NEW e \in 1..Slots, Working(exec[s][e]),
         NEW o \in Outcomes, Answer(s, e, o),
         UNCHANGED <<shots, live>>, attemptCount' \in [Shots -> Nat],
         JobsKept(KeyOf(s, e)), AttemptsKept,
         o = "FAILED" => FailedNext(KeyOf(s, e))
  PROVE  IInv'
<1> DEFINE x == IF live[s] = e THEN [Idle EXCEPT !.at = "ANSWERED", !.outcome = o] ELSE Idle
<1>1. Becomes(s, e, x)
  BY Answered DEF IInv
<1>2. ~Working(x) /\ x.at \notin {"CLOSE", "WRITE"}
  BY DEF Idle, Working
<1>3. x.outcome = "FAILED" => live[s] = e /\ o = "FAILED"
  BY DEF Idle
<1>4. x.outcome = "FAILED" => FailedNext(<<s, shots[s].n>>)
  BY <1>3, KeyOfInKeys DEF KeyOf
<1>5. ExecutionKept(s, e, x)
  BY <1>1, <1>2, <1>4 DEF ExecutionKept
<1>6. LiveKept
  BY Untouched
<1> QED BY <1>5, <1>6, ExecutionStep

\* that loses its try,
LEMMA LoseStep ==
  ASSUME IInv, NEW s \in Shots, NEW e \in 1..Slots, Working(exec[s][e]), Lose(s, e),
         UNCHANGED <<shots, jobs, attempts, attemptCount>>
  PROVE  IInv'
<1>1. Becomes(s, e, Idle) /\ LiveKept
  BY Lost DEF IInv, LiveKept
<1>2. ExecutionKept(s, e, Idle)
  BY <1>1 DEF ExecutionKept, Idle, Working
<1>3. JobsKept(KeyOf(s, e)) /\ AttemptsKept
  BY Untouched, KeyOfInKeys
<1>4. attemptCount' \in [Shots -> Nat]
  BY DEF IInv, Typed
<1> QED BY <1>1, <1>2, <1>3, <1>4, ExecutionStep

\* that closes as FAILED a failed job only,
LEMMA CloseStep ==
  ASSUME IInv, NEW s \in Shots, NEW e \in 1..Slots, Working(exec[s][e]),
         NEW o \in Outcomes, CloseWith(s, e, o),
         UNCHANGED <<shots, live>>, attemptCount' \in [Shots -> Nat],
         JobsKept(KeyOf(s, e)), AttemptsKept,
         o = "FAILED" => FailedNext(KeyOf(s, e))
  PROVE  IInv'
<1> DEFINE x == [exec[s][e] EXCEPT !.at = "CLOSE", !.outcome = o, !.i = 1]
<1>1. Becomes(s, e, x)
  BY ClosingWith DEF IInv
<1>2. x.at = "CLOSE" /\ x.outcome = o /\ x.n = exec[s][e].n
  BY DEF IInv, Typed, Execution
<1>3. ExecutionKept(s, e, x)
  BY <1>1, <1>2 DEF ExecutionKept, KeyOf
<1>4. LiveKept
  BY Untouched
<1> QED BY <1>3, <1>4, ExecutionStep

\* or that gives its dispatch up keeps it.
LEMMA UndoStep ==
  ASSUME IInv, NEW s \in Shots, NEW e \in 1..Slots, Working(exec[s][e]), Undo(s, e),
         UNCHANGED <<shots, live>>, attemptCount' \in [Shots -> Nat],
         JobsKept(KeyOf(s, e)), AttemptsKept
  PROVE  IInv'
<1> DEFINE x == [exec[s][e] EXCEPT !.at = "UNDO", !.outcome = "ERROR", !.i = 1]
<1>1. Becomes(s, e, x)
  BY Undone DEF IInv
<1>2. x.at = "UNDO" /\ x.n = exec[s][e].n
  BY DEF IInv, Typed, Execution
<1>3. ExecutionKept(s, e, x)
  BY <1>1, <1>2 DEF ExecutionKept
<1>4. LiveKept
  BY Untouched
<1> QED BY <1>3, <1>4, ExecutionStep

\* A closing entry is written, or there are no more: what FAILED is said of stays.
LEMMA EntryStep ==
  ASSUME IInv, NEW s \in Shots, NEW e \in 1..Slots, NEW step \in {"WRITE", "FAIL"},
         Working(exec[s][e]), exec[s][e].at \in {"CLOSE", "UNDO"},
         step = "WRITE" => exec[s][e].at = "CLOSE",
         WriteEntry(s, e, step),
         UNCHANGED <<shots, live, jobs, attempts, attemptCount>>
  PROVE  IInv'
<1>1. JobsKept(KeyOf(s, e)) /\ AttemptsKept /\ LiveKept
  BY Untouched, KeyOfInKeys
<1>2. attemptCount' \in [Shots -> Nat]
  BY DEF IInv, Typed
<1>3. exec[s][e] \in Execution
  BY DEF IInv, Typed
<1>4. exec[s][e].outcome = "FAILED" /\ exec[s][e].at = "CLOSE" => FailedNext(KeyOf(s, e))
  BY <1>1, KeyOfInKeys DEF IInv, FailedIsFailed, JobsKept
<1>5. CASE GoTo(s, e, step)
  <2> DEFINE x == [exec[s][e] EXCEPT !.at = step]
  <2>1. Becomes(s, e, x)
    BY <1>5, GoneTo DEF IInv, Steps
  <2>2. x.at = step /\ x.outcome = exec[s][e].outcome /\ x.n = exec[s][e].n
    BY <1>3 DEF Execution
  <2>3. ExecutionKept(s, e, x)
    BY <2>1, <2>2, <1>4 DEF ExecutionKept, KeyOf
  <2> QED BY <2>3, <1>1, <1>2, ExecutionStep
<1>6. CASE exec' = [exec EXCEPT ![s][e].i = @ + 1]
  <2> DEFINE x == [exec[s][e] EXCEPT !.i = @ + 1]
  <2>1. x \in Execution
    BY <1>3 DEF Execution
  <2>2. exec' = [exec EXCEPT ![s][e] = x]
    BY <1>6 DEF IInv, Typed
  <2>3. Becomes(s, e, x)
    BY <2>1, <2>2, Replaced DEF IInv
  <2>4. x.at = exec[s][e].at /\ x.outcome = exec[s][e].outcome /\ x.n = exec[s][e].n
    BY <1>3 DEF Execution
  <2>5. ExecutionKept(s, e, x)
    BY <2>3, <2>4, <1>4 DEF ExecutionKept, KeyOf
  <2> QED BY <2>5, <1>1, <1>2, ExecutionStep
<1> QED BY <1>5, <1>6 DEF WriteEntry

-----------------------------------------------------------------------------
(* The actions.                                                            *)

\* A step of a dispatch keeps the invariant: a job is submitted for its own key.
LEMMA DispatchKeeps ==
  ASSUME IInv, NEW s \in Shots, NEW e \in 1..Slots, Dispatch(s, e)
  PROVE  IInv'
<1> DEFINE k == KeyOf(s, e)
<1>0. Working(exec[s][e])
  BY DEF Dispatch, OpenJob, Reserve, Submit, SubmitThrows, FindAttempt, InsertAttempt,
         CountAttempt, WriteThrows, ReleaseAlreadyReserved, FailAttempt, At, Working
<1>k. k \in Keys
  BY <1>0, KeyOfInKeys
<1>t. attemptCount \in [Shots -> Nat] /\ jobs \in [Keys -> JobStatuses]
      /\ attempts \in [Keys -> [status : Statuses, job : BOOLEAN]]
      /\ exec[s][e] \in Execution
  BY DEF IInv, Typed
<1>u. /\ jobs' = jobs => JobsKept(k)
      /\ jobs' = jobs /\ attempts' = attempts => AttemptsKept
  BY <1>k, Untouched
\* A job is created where there was none: what was failed stays so.
<1>j. ASSUME jobs' = [jobs EXCEPT ![k] = IF @ = "NONE" THEN "RUNNING" ELSE @],
             attempts' = attempts
      PROVE  JobsKept(k) /\ AttemptsKept
  <2>1. JobsKept(k)
    BY <1>j, <1>k, <1>t DEF JobsKept, JobStatuses, Failed, FailedNext
  <2>2. AttemptsKept
    BY <2>1, <1>j, <1>t DEF AttemptsKept, JobsKept, IInv, FailedIsFailed
  <2> QED BY <2>1, <2>2
<1>1. CASE OpenJob(s, e)
  <2> DEFINE x == [exec[s][e] EXCEPT !.at = "RESERVE", !.seen = attemptCount[s]]
  <2>1. x \in Execution /\ x.at = "RESERVE" /\ x.n = exec[s][e].n
    BY <1>t DEF Execution, Steps
  <2>2. exec' = [exec EXCEPT ![s][e] = x]
    BY <1>1 DEF OpenJob, IInv, Typed
  <2>3. Becomes(s, e, x)
    BY <2>1, <2>2, Replaced DEF IInv
  <2>4. ExecutionKept(s, e, x)
    BY <2>1, <2>3 DEF ExecutionKept
  <2>5. UNCHANGED <<shots, jobs, attempts, attemptCount, live>>
    BY <1>1 DEF OpenJob, db, provider, workflow
  <2> QED BY <2>4, <2>5, <1>0, <1>t, <1>u, Untouched, ExecutionStep
<1>2. CASE Reserve(s, e)
  <2>1. UNCHANGED <<shots, jobs, attempts, attemptCount, live>>
    BY <1>2 DEF Reserve, provider, workflow
  <2>2. GoTo(s, e, "SUBMIT") \/ Answer(s, e, "REFUSED")
    BY <1>2 DEF Reserve
  <2>3. "SUBMIT" \in Steps \ {"CLOSE", "WRITE", "ANSWERED"} /\ "REFUSED" \in Outcomes
    BY DEF Steps, Outcomes
  <2> QED BY <2>1, <2>2, <2>3, <1>0, <1>t, <1>u, GoToStep, AnswerStep
<1>3. CASE Submit(s, e)
  <2>1. /\ UNCHANGED <<shots, attempts, attemptCount, live>> /\ GoTo(s, e, "FIND")
        /\ jobs' = [jobs EXCEPT ![k] = IF @ = "NONE" THEN "RUNNING" ELSE @]
    BY <1>3 DEF Submit, db, workflow
  <2>2. "FIND" \in Steps \ {"CLOSE", "WRITE", "ANSWERED"}
    BY DEF Steps
  <2> QED BY <2>1, <2>2, <1>0, <1>t, <1>j, GoToStep
<1>4. CASE SubmitThrows(s, e)
  <2>1. /\ UNCHANGED <<shots, attempts, attemptCount, live>> /\ Undo(s, e)
        /\ \/ jobs' = jobs
           \/ jobs' = [jobs EXCEPT ![k] = IF @ = "NONE" THEN "RUNNING" ELSE @]
    BY <1>4 DEF SubmitThrows, db, workflow
  <2> QED BY <2>1, <1>0, <1>t, <1>u, <1>j, UndoStep
<1>5. CASE FindAttempt(s, e)
  <2>1. UNCHANGED <<shots, jobs, attempts, attemptCount, live>>
    BY <1>5 DEF FindAttempt, db, provider, workflow
  <2>2. GoTo(s, e, "INSERT") \/ Answer(s, e, "OK")
    BY <1>5 DEF FindAttempt
  <2>3. "INSERT" \in Steps \ {"CLOSE", "WRITE", "ANSWERED"} /\ "OK" \in Outcomes
    BY DEF Steps, Outcomes
  <2> QED BY <2>1, <2>2, <2>3, <1>0, <1>t, <1>u, GoToStep, AnswerStep
<1>6. CASE InsertAttempt(s, e)
  <2>1. UNCHANGED <<shots, jobs, attemptCount, live>>
    BY <1>6 DEF InsertAttempt, provider, workflow
  <2>2. CASE attempts' = [attempts EXCEPT ![k] = [status |-> "SUBMITTED", job |-> TRUE]]
             /\ GoTo(s, e, "COUNT")
    <3>1. AttemptsKept
      BY <2>1, <2>2, <1>k, <1>t
         DEF AttemptsKept, AttemptStatuses, Statuses, IInv, FailedIsFailed, Failed, FailedNext
    <3>2. "COUNT" \in Steps \ {"CLOSE", "WRITE", "ANSWERED"}
      BY DEF Steps
    <3> QED BY <2>1, <2>2, <3>1, <3>2, <1>0, <1>t, <1>u, GoToStep
  <2>3. CASE attempts' = attempts /\ Undo(s, e)
    BY <2>1, <2>3, <1>0, <1>t, <1>u, UndoStep
  <2> QED BY <1>6, <2>2, <2>3 DEF InsertAttempt
<1>7. CASE CountAttempt(s, e)
  <2>1. UNCHANGED <<shots, jobs, attempts, live>> /\ Answer(s, e, "OK")
    BY <1>7 DEF CountAttempt, provider, workflow
  <2>2. attemptCount' \in [Shots -> Nat] /\ "OK" \in Outcomes
    BY <1>7, <1>t DEF CountAttempt, Execution, Outcomes
  <2> QED BY <2>1, <2>2, <1>0, <1>u, AnswerStep
<1>8. CASE WriteThrows(s, e)
  <2>1. UNCHANGED <<shots, jobs, attempts, attemptCount, live>> /\ Undo(s, e)
    BY <1>8 DEF WriteThrows, db, provider, workflow
  <2> QED BY <2>1, <1>0, <1>t, <1>u, UndoStep
<1>9. CASE ReleaseAlreadyReserved(s, e)
  <2>1. UNCHANGED <<shots, jobs, attempts, attemptCount, live>> /\ WriteEntry(s, e, "FAIL")
        /\ exec[s][e].at = "UNDO"
    BY <1>9 DEF ReleaseAlreadyReserved, provider, workflow, At
  <2> QED BY <2>1, <1>0, EntryStep
<1>10. CASE FailAttempt(s, e)
  <2>1. /\ UNCHANGED <<shots, jobs, attemptCount, live>> /\ Answer(s, e, "ERROR")
        /\ attempts' = [attempts EXCEPT ![k] =
             IF @ = NoAttempt THEN [status |-> "FAILED", job |-> FALSE] ELSE @]
    BY <1>10 DEF FailAttempt, provider, workflow
  <2>2. AttemptsKept
    BY <2>1, <1>k, <1>t
       DEF AttemptsKept, AttemptStatuses, Statuses, IInv, FailedIsFailed, Failed, FailedNext
  <2>3. "ERROR" \in Outcomes
    BY DEF Outcomes
  <2> QED BY <2>1, <2>2, <2>3, <1>0, <1>t, <1>u, AnswerStep
<1> QED BY <1>1, <1>2, <1>3, <1>4, <1>5, <1>6, <1>7, <1>8, <1>9, <1>10 DEF Dispatch

\* A step of a poll keeps it: FAILED goes from the job to the entries, the row
\* and the answer.
LEMMA PollKeeps ==
  ASSUME IInv, NEW s \in Shots, NEW e \in 1..Slots, Poll(s, e)
  PROVE  IInv'
<1> DEFINE k == KeyOf(s, e)
<1>0. Working(exec[s][e])
  BY DEF Poll, ReadAttempt, AskProvider, NoteRunning, CreateCandidate, CreateAsset,
         LinkAsset, releaseOrChargeAcrossLevels, WriteOutcome, At, Working
<1>k. k \in Keys
  BY <1>0, KeyOfInKeys
<1>t. attemptCount \in [Shots -> Nat] /\ jobs \in [Keys -> JobStatuses]
      /\ attempts \in [Keys -> [status : Statuses, job : BOOLEAN]]
      /\ exec[s][e] \in Execution
  BY DEF IInv, Typed
<1>u. /\ jobs' = jobs => JobsKept(k)
      /\ jobs' = jobs /\ attempts' = attempts => AttemptsKept
  BY <1>k, Untouched
<1>1. CASE ReadAttempt(s, e)
  <2>1. UNCHANGED <<shots, jobs, attempts, attemptCount, live>>
    BY <1>1 DEF ReadAttempt, db, provider, workflow
  <2>2. \/ Answer(s, e, "NOT_FOUND")
        \/ GoTo(s, e, "ASK")
        \/ /\ attempts[k].job /\ attempts[k].status # "SUBMITTED"
           /\ Answer(s, e, attempts[k].status)
    BY <1>1 DEF ReadAttempt
  <2>3. CASE Answer(s, e, "NOT_FOUND")
    BY <2>1, <2>3, <1>0, <1>t, <1>u, AnswerStep DEF Outcomes
  <2>4. CASE GoTo(s, e, "ASK")
    BY <2>1, <2>4, <1>0, <1>t, <1>u, GoToStep DEF Steps
  <2>5. CASE /\ attempts[k].job /\ attempts[k].status # "SUBMITTED"
             /\ Answer(s, e, attempts[k].status)
    <3>1. attempts[k].status \in Outcomes
      BY <2>5, <1>k, <1>t DEF AttemptStatuses, Statuses, Outcomes
    <3>2. attempts[k].status = "FAILED" => FailedNext(k)
      BY <2>1, <2>5, <1>k DEF IInv, FailedIsFailed, Failed, FailedNext
    <3> QED BY <2>1, <2>5, <3>1, <3>2, <1>0, <1>t, <1>u, AnswerStep
  <2> QED BY <2>2, <2>3, <2>4, <2>5
<1>2. CASE AskProvider(s, e)
  <2>1. UNCHANGED <<shots, jobs, attempts, attemptCount, live>>
    BY <1>2 DEF AskProvider, db, provider, workflow
  <2>2. \/ GoTo(s, e, "NOTE") \/ GoTo(s, e, "REGISTER") \/ CloseWith(s, e, "CANCELLED")
        \/ jobs[k] \in {"BROKEN", "FAILED"} /\ CloseWith(s, e, "FAILED")
    BY <1>2 DEF AskProvider
  <2>3. CASE GoTo(s, e, "NOTE")
    BY <2>1, <2>3, <1>0, <1>t, <1>u, GoToStep DEF Steps
  <2>4. CASE GoTo(s, e, "REGISTER")
    BY <2>1, <2>4, <1>0, <1>t, <1>u, GoToStep DEF Steps
  <2>5. CASE CloseWith(s, e, "CANCELLED")
    BY <2>1, <2>5, <1>0, <1>t, <1>u, CloseStep DEF Outcomes
  <2>6. CASE jobs[k] \in {"BROKEN", "FAILED"} /\ CloseWith(s, e, "FAILED")
    <3>1. FailedNext(k) /\ "FAILED" \in Outcomes
      BY <2>1, <2>6 DEF FailedNext, Outcomes
    <3> QED BY <2>1, <2>6, <3>1, <1>0, <1>t, <1>u, CloseStep
  <2> QED BY <2>2, <2>3, <2>4, <2>5, <2>6
<1>3. CASE NoteRunning(s, e)
  <2>1. /\ UNCHANGED <<shots, jobs, attemptCount, live>> /\ Answer(s, e, "RUNNING")
        /\ attempts' = [attempts EXCEPT ![k].status = "SUBMITTED"]
    BY <1>3 DEF NoteRunning, provider, workflow
  <2>2. AttemptsKept
    BY <2>1, <1>k, <1>t
       DEF AttemptsKept, AttemptStatuses, Statuses, IInv, FailedIsFailed, Failed, FailedNext
  <2>3. "RUNNING" \in Outcomes
    BY DEF Outcomes
  <2> QED BY <2>1, <2>2, <2>3, <1>0, <1>t, <1>u, AnswerStep
<1>4. CASE CreateCandidate(s, e)
  <2>1. UNCHANGED <<shots, jobs, attempts, attemptCount, live>> /\ GoTo(s, e, "INGEST")
    BY <1>4 DEF CreateCandidate, provider, workflow
  <2> QED BY <2>1, <1>0, <1>t, <1>u, GoToStep DEF Steps
<1>5. CASE CreateAsset(s, e)
  <2>1. UNCHANGED <<shots, jobs, attempts, attemptCount>>
    BY <1>5 DEF CreateAsset, provider, workflow
  <2>2. CASE live' = live /\ GoTo(s, e, "LINK")
    BY <2>1, <2>2, <1>0, <1>t, <1>u, GoToStep DEF Steps
  <2>3. CASE Lose(s, e)
    BY <2>1, <2>3, <1>0, LoseStep
  <2> QED BY <1>5, <2>2, <2>3 DEF CreateAsset
<1>6. CASE LinkAsset(s, e)
  <2>1. UNCHANGED <<shots, jobs, attempts, attemptCount, live>> /\ CloseWith(s, e, "SUCCEEDED")
    BY <1>6 DEF LinkAsset, provider, workflow
  <2> QED BY <2>1, <1>0, <1>t, <1>u, CloseStep DEF Outcomes
<1>7. CASE releaseOrChargeAcrossLevels(s, e)
  <2>1. UNCHANGED <<shots, jobs, attempts, attemptCount, live>> /\ WriteEntry(s, e, "WRITE")
        /\ exec[s][e].at = "CLOSE"
    BY <1>7 DEF releaseOrChargeAcrossLevels, provider, workflow, At
  <2> QED BY <2>1, <1>0, EntryStep
<1>8. CASE WriteOutcome(s, e)
  <2> DEFINE o == exec[s][e].outcome
  <2>1. /\ UNCHANGED <<shots, jobs, attemptCount, live>> /\ Answer(s, e, o)
        /\ attempts' = [attempts EXCEPT ![k].status = o] /\ At(s, e, "WRITE")
    BY <1>8 DEF WriteOutcome, provider, workflow
  <2>2. o \in Outcomes
    BY <1>t DEF Execution
  <2>3. o = "FAILED" => FailedNext(k)
    BY <2>1 DEF IInv, FailedIsFailed, Failed, FailedNext, At
  <2>4. AttemptsKept
    <3>1. attempts' \in [Keys -> [status : Statuses, job : BOOLEAN]]
      BY <2>1, <2>2, <1>k, <1>t DEF Statuses
    <3>2. attempts'[k].status = o /\ \A l \in Keys : l # k => attempts'[l] = attempts[l]
      BY <2>1, <1>k, <1>t
    <3> QED BY <2>1, <2>3, <3>1, <3>2 DEF AttemptsKept, IInv, FailedIsFailed, Failed, FailedNext
  <2> QED BY <2>1, <2>2, <2>3, <2>4, <1>0, <1>t, <1>u, AnswerStep
<1> QED BY <1>1, <1>2, <1>3, <1>4, <1>5, <1>6, <1>7, <1>8 DEF Poll

\* A step of a cancellation keeps it: it says CANCELLED, and cancels running jobs.
LEMMA CancelKeeps ==
  ASSUME IInv, NEW s \in Shots, NEW e \in 1..Slots, Cancel(s, e)
  PROVE  IInv'
<1> DEFINE k == KeyOf(s, e)
<1>0. Working(exec[s][e])
  BY DEF Cancel, ReadForCancel, CancelJob, At, Working
<1>k. k \in Keys
  BY <1>0, KeyOfInKeys
<1>t. attemptCount \in [Shots -> Nat] /\ jobs \in [Keys -> JobStatuses]
  BY DEF IInv, Typed
<1>u. /\ jobs' = jobs => JobsKept(k)
      /\ jobs' = jobs /\ attempts' = attempts => AttemptsKept
  BY <1>k, Untouched
<1>1. CASE ReadForCancel(s, e)
  <2>1. UNCHANGED <<shots, jobs, attempts, attemptCount, live>>
    BY <1>1 DEF ReadForCancel, db, provider, workflow
  <2>2. GoTo(s, e, "KILL") \/ Answer(s, e, "CANCELLED")
    BY <1>1 DEF ReadForCancel
  <2>3. "KILL" \in Steps \ {"CLOSE", "WRITE", "ANSWERED"} /\ "CANCELLED" \in Outcomes
    BY DEF Steps, Outcomes
  <2> QED BY <2>1, <2>2, <2>3, <1>0, <1>t, <1>u, GoToStep, AnswerStep
<1>2. CASE CancelJob(s, e)
  <2>1. /\ UNCHANGED <<shots, attempts, attemptCount, live>> /\ CloseWith(s, e, "CANCELLED")
        /\ jobs' = [jobs EXCEPT ![k] = IF @ = "RUNNING" THEN "CANCELLED" ELSE @]
    BY <1>2 DEF CancelJob, db, workflow
  <2>2. JobsKept(k)
    BY <2>1, <1>k, <1>t DEF JobsKept, JobStatuses, Failed, FailedNext
  <2>3. AttemptsKept
    BY <2>1, <2>2 DEF AttemptsKept, JobsKept, IInv, Typed, FailedIsFailed
  <2>4. "CANCELLED" \in Outcomes
    BY DEF Outcomes
  <2> QED BY <2>1, <2>2, <2>3, <2>4, <1>0, <1>t, CloseStep
<1> QED BY <1>1, <1>2 DEF Cancel

\* A step of runShotToTerminal keeps it: the next attempt follows a failed one.
LEMMA RunShotKeeps ==
  ASSUME IInv, NEW s \in Shots, RunShot(s)
  PROVE  IInv'
<1> USE ConstantsNat
<1>t. /\ shots[s] \in [place : Places, n : 0..MaxAttempts, tries : Nat]
      /\ live \in [Shots -> 0..Slots]
  BY DEF IInv, Typed
<1>1. CASE BeginAttempt(s) /\ ~cancelled
  <2>1. /\ UNCHANGED <<jobs, attempts, attemptCount, live, exec>>
        /\ shots[s].place = "TOP"
        /\ shots' = [shots EXCEPT ![s] = [place |-> "DISPATCH", n |-> shots[s].n + 1, tries |-> 0]]
    BY <1>1 DEF BeginAttempt, db, provider, IInv, Typed
  <2>2. shots[s].n < MaxAttempts /\ (shots[s].n > 0 => Failed(<<s, shots[s].n>>)) /\ live[s] = 0
    BY <2>1 DEF IInv, TopAfterFailure, TriesOfAttempts
  <2>3. Typed'
    BY <2>1, <2>2, <1>t DEF IInv, Typed, Places
  <2>4. AttemptsInTurn'
    <3> SUFFICES ASSUME NEW r \in Shots, NEW n \in 1..MaxAttempts
                 PROVE  /\ n < shots'[r].n => Failed(<<r, n>>)
                        /\ n > shots'[r].n => jobs[<<r, n>>] = "NONE"
      BY <2>1 DEF AttemptsInTurn, Failed
    <3>1. CASE r # s
      BY <3>1, <2>1 DEF IInv, Typed, AttemptsInTurn
    <3>2. CASE r = s
      <4>1. shots'[s].n = shots[s].n + 1
        BY <2>1 DEF IInv, Typed
      <4>2. /\ n < shots[s].n => Failed(<<s, n>>)
            /\ n > shots[s].n => jobs[<<s, n>>] = "NONE"
        BY DEF IInv, AttemptsInTurn
      <4>3. shots[s].n \in Nat /\ n \in Nat /\ n > 0
        BY <1>t
      <4>4. CASE n = shots[s].n
        BY <4>1, <4>3, <4>4, <2>2, <3>2
      <4>5. CASE n # shots[s].n
        BY <4>1, <4>2, <4>3, <4>5, <3>2
      <4> QED BY <4>4, <4>5
    <3> QED BY <3>1, <3>2
  <2>5. TopAfterFailure'
    BY <2>1 DEF IInv, Typed, TopAfterFailure, Failed
  <2>6. TriesOfAttempts'
    <3> SUFFICES ASSUME NEW r \in Shots
                 PROVE  /\ shots'[r].place \in {"DISPATCH", "POLL", "CANCEL", "SLEEP"} => shots'[r].n > 0
                        /\ live[r] # 0 => shots'[r].place \in {"DISPATCH", "POLL", "CANCEL"}
                        /\ \A f \in 1..Slots : Busy(r, f) =>
                             /\ exec[r][f].n \in 1..shots'[r].n
                             /\ live[r] = f => exec[r][f].n = shots'[r].n
      BY <2>1 DEF TriesOfAttempts, Busy
    <3>1. CASE r # s
      BY <3>1, <2>1 DEF IInv, Typed, TriesOfAttempts
    <3>2. CASE r = s
      <4>1. shots'[s] = [place |-> "DISPATCH", n |-> shots[s].n + 1, tries |-> 0]
        BY <2>1 DEF IInv, Typed
      <4>2. \A f \in 1..Slots : Busy(s, f) => exec[s][f].n \in 1..shots[s].n
        BY DEF IInv, TriesOfAttempts
      <4> QED BY <4>1, <4>2, <3>2, <2>2, <1>t
    <3> QED BY <3>1, <3>2
  <2>7. FailedIsFailed'
    <3>1. \A k \in Keys : attempts'[k].job /\ attempts'[k].status = "FAILED" => Failed(k)'
      BY <2>1 DEF IInv, FailedIsFailed, Failed
    <3>2. ASSUME NEW r \in Shots, NEW f \in 1..Slots, exec[r][f].outcome = "FAILED"
          PROVE  /\ exec[r][f].at \in {"CLOSE", "WRITE"} => Failed(<<r, exec[r][f].n>>)
                 /\ exec[r][f].at = "ANSWERED" /\ live[r] = f => Failed(<<r, shots'[r].n>>)
      <4>1. live[r] = f => r # s
        BY <2>2
      <4>2. r # s => shots'[r] = shots[r]
        BY <2>1 DEF IInv, Typed
      <4> QED BY <4>1, <4>2, <3>2 DEF IInv, FailedIsFailed, KeyOf, At
    <3> QED BY <3>1, <3>2, <2>1 DEF FailedIsFailed, KeyOf, At, Failed
  <2> QED BY <2>3, <2>4, <2>5, <2>6, <2>7 DEF IInv
<1>2. CASE (BeginAttempt(s) /\ cancelled) \/ Wake(s)
  <2>1. PICK place \in Places \ {"TOP"} :
          /\ UNCHANGED <<jobs, attempts, attemptCount, live, exec>>
          /\ shots[s].place \in {"TOP", "SLEEP"} /\ Move(s, place)
          /\ place = "CANCELLED" \/ shots[s].place = "SLEEP"
    BY <1>2 DEF BeginAttempt, Wake, AfterOk, Places, db, provider
  <2>2. live[s] = 0 /\ (shots[s].place = "SLEEP" => shots[s].n > 0)
    BY <2>1 DEF IInv, TriesOfAttempts
  <2>3. /\ shots'[s] = [place |-> place, n |-> shots[s].n, tries |-> 0]
        /\ \A r \in Shots : r # s => shots'[r] = shots[r]
        /\ \A r \in Shots : shots'[r].n = shots[r].n
        /\ shots' \in [Shots -> [place : Places, n : 0..MaxAttempts, tries : Nat]]
    BY <2>1, <1>t DEF Move, IInv, Typed
  <2>4. Typed'
    BY <2>1, <2>3 DEF IInv, Typed
  <2>b. TopAfterFailure'
    <3>1. place # "TOP"
      BY <2>1
    <3> QED BY <2>1, <2>3, <3>1 DEF IInv, TopAfterFailure, Failed
  <2>a. AttemptsInTurn'
    BY <2>1, <2>3 DEF IInv, AttemptsInTurn, Failed
  <2>5. TriesOfAttempts'
    BY <2>1, <2>2, <2>3 DEF IInv, TriesOfAttempts, Busy
  <2>6. FailedIsFailed'
    BY <2>1, <2>3 DEF IInv, FailedIsFailed, KeyOf, At, Failed
  <2> QED BY <2>4, <2>a, <2>b, <2>5, <2>6 DEF IInv
<1>3. CASE GiveUp(s)
  <2>1. /\ UNCHANGED <<jobs, attempts, attemptCount, shots, exec>>
        /\ live' = [r \in Shots |-> 0]
    BY <1>3 DEF GiveUp, db, provider
  <2>2. Typed' /\ AttemptsInTurn' /\ TopAfterFailure'
    BY <2>1 DEF IInv, Typed, AttemptsInTurn, TopAfterFailure, Failed
  <2>3. TriesOfAttempts' /\ FailedIsFailed'
    BY <2>1 DEF IInv, TriesOfAttempts, FailedIsFailed, Busy, KeyOf, At, Failed
  <2> QED BY <2>2, <2>3 DEF IInv
<1>4. CASE TakeAnswer(s)
  <2> DEFINE e == live[s]
             o == exec[s][e].outcome
             place == PlaceAfter(o, shots[s].n)
  <2>1. /\ UNCHANGED <<jobs, attempts, attemptCount>>
        /\ e \in 1..Slots /\ exec[s][e].at = "ANSWERED" /\ Move(s, place) /\ Lose(s, e)
    BY <1>4, <1>t DEF TakeAnswer, db, provider, At
  <2>2. Becomes(s, e, Idle) /\ live' = [live EXCEPT ![s] = 0]
    BY <2>1, Lost DEF Lose, IInv, Typed
  <2>3. shots[s].n > 0 /\ (o = "FAILED" => Failed(<<s, shots[s].n>>))
    BY <2>1 DEF IInv, TriesOfAttempts, FailedIsFailed, At
  <2>4. /\ place \in Places
        /\ place = "TOP" => o = "FAILED" /\ shots[s].n < MaxAttempts
    BY DEF PlaceAfter, AfterOk, Retried, Places
  <2>5. /\ shots'[s] = [place |-> place, n |-> shots[s].n, tries |-> 0]
        /\ \A r \in Shots : r # s => shots'[r] = shots[r]
        /\ \A r \in Shots : shots'[r].n = shots[r].n
        /\ shots' \in [Shots -> [place : Places, n : 0..MaxAttempts, tries : Nat]]
    BY <2>1, <2>4, <1>t DEF Move, IInv, Typed
  <2>6. Typed'
    <3>1. live' \in [Shots -> 0..Slots]
      BY <2>2, <1>t
    <3>2. exec' \in [Shots -> [1..Slots -> Execution]]
      BY <2>2 DEF Becomes
    <3> QED BY <2>1, <2>5, <3>1, <3>2 DEF IInv, Typed
  <2>a. AttemptsInTurn'
    BY <2>1, <2>5 DEF IInv, AttemptsInTurn, Failed
  <2>7. TopAfterFailure'
    BY <2>1, <2>3, <2>4, <2>5 DEF IInv, TopAfterFailure, Failed
  <2>8. /\ live'[s] = 0 /\ \A r \in Shots : r # s => live'[r] = live[r]
        /\ exec'[s][e].at = "IDLE" /\ exec'[s][e].outcome = "NONE"
        /\ \A r \in Shots, f \in 1..Slots : r # s \/ f # e => exec'[r][f] = exec[r][f]
    BY <2>2 DEF Becomes, Idle, IInv, Typed
  <2>9. TriesOfAttempts'
    BY <2>3, <2>5, <2>8 DEF IInv, TriesOfAttempts, Busy
  <2>10. FailedIsFailed'
    <3>1. \A k \in Keys : attempts'[k].job /\ attempts'[k].status = "FAILED" => Failed(k)'
      BY <2>1 DEF IInv, FailedIsFailed, Failed
    <3>2. ASSUME NEW r \in Shots, NEW f \in 1..Slots, exec'[r][f].outcome = "FAILED"
          PROVE  /\ exec'[r][f].at \in {"CLOSE", "WRITE"} => Failed(<<r, exec'[r][f].n>>)
                 /\ exec'[r][f].at = "ANSWERED" /\ live'[r] = f => Failed(<<r, shots'[r].n>>)
      <4>1. exec'[r][f] = exec[r][f] /\ (live'[r] = f => live[r] = f)
        BY <3>2, <2>8
      <4> QED BY <4>1, <3>2, <2>5 DEF IInv, FailedIsFailed, KeyOf, At
    <3> QED BY <3>1, <3>2, <2>1 DEF FailedIsFailed, KeyOf, At, Failed
  <2> QED BY <2>6, <2>a, <2>7, <2>9, <2>10 DEF IInv
<1> QED BY <1>1, <1>2, <1>3, <1>4 DEF RunShot

\* The workflow's server starts a try of the current attempt.
LEMMA StartTryKeeps ==
  ASSUME IInv, NEW s \in Shots, NEW e \in 1..Slots, StartTry(s, e)
  PROVE  IInv'
<1> USE ConstantsNat
<1> DEFINE x == [Idle EXCEPT !.at = FirstStep[shots[s].place], !.n = shots[s].n]
<1>t. /\ shots[s] \in [place : Places, n : 0..MaxAttempts, tries : Nat]
      /\ live \in [Shots -> 0..Slots]
  BY DEF IInv, Typed
<1>1. /\ UNCHANGED <<jobs, attempts, attemptCount>>
      /\ shots[s].place \in {"DISPATCH", "POLL", "CANCEL"} /\ live[s] = 0
      /\ shots' = [shots EXCEPT ![s].tries = @ + 1]
      /\ live' = [live EXCEPT ![s] = e]
      /\ exec' = [exec EXCEPT ![s][e] = x]
  BY DEF StartTry, FirstStep, db, provider
<1>2. FirstStep[shots[s].place] \in {"OPEN", "POLL", "CANCEL"}
  BY <1>1 DEF FirstStep
<1>3. x \in Execution
  BY <1>2, <1>t DEF Execution, Idle, Steps, Outcomes
<1>4. Becomes(s, e, x)
  BY <1>1, <1>3, Replaced DEF IInv
<1>5. /\ x.n = shots[s].n /\ x.outcome = "NONE"
      /\ x.at \notin {"IDLE", "ANSWERED", "CLOSE", "WRITE"}
  BY <1>2 DEF Idle
<1>6. /\ shots' \in [Shots -> [place : Places, n : 0..MaxAttempts, tries : Nat]]
      /\ \A r \in Shots : shots'[r].n = shots[r].n /\ shots'[r].place = shots[r].place
  BY <1>1, <1>t DEF IInv, Typed
<1>7. /\ live' \in [Shots -> 0..Slots] /\ live'[s] = e
      /\ \A r \in Shots : r # s => live'[r] = live[r]
  BY <1>1, <1>t
<1>8. Typed'
  <2>1. exec' \in [Shots -> [1..Slots -> Execution]]
    BY <1>4 DEF Becomes
  <2> QED BY <2>1, <1>1, <1>6, <1>7 DEF IInv, Typed
<1>9. AttemptsInTurn'
  BY <1>1, <1>6 DEF IInv, AttemptsInTurn, Failed
<1>10. TopAfterFailure'
  BY <1>1, <1>6 DEF IInv, TopAfterFailure, Failed
<1>11. shots[s].n \in 1..MaxAttempts
  BY <1>1, <1>t DEF IInv, TriesOfAttempts
<1>12. TriesOfAttempts'
  <2> SUFFICES ASSUME NEW r \in Shots
               PROVE  /\ shots[r].place \in {"DISPATCH", "POLL", "CANCEL", "SLEEP"} => shots[r].n > 0
                      /\ live'[r] # 0 => shots[r].place \in {"DISPATCH", "POLL", "CANCEL"}
                      /\ \A f \in 1..Slots : Working(exec'[r][f]) =>
                           /\ exec'[r][f].n \in 1..shots[r].n
                           /\ live'[r] = f => exec'[r][f].n = shots[r].n
    BY <1>6 DEF TriesOfAttempts, Busy, Working
  <2>1. ASSUME NEW f \in 1..Slots, Working(exec'[r][f])
        PROVE  /\ exec'[r][f].n \in 1..shots[r].n
               /\ live'[r] = f => exec'[r][f].n = shots[r].n
    <3>1. CASE r = s /\ f = e
      BY <3>1, <1>4, <1>5, <1>11 DEF Becomes
    <3>2. CASE r # s \/ f # e
      <4>1. exec'[r][f] = exec[r][f]
        BY <3>2, <1>4 DEF Becomes
      <4>2. live'[r] = f => live[r] = f
        BY <3>2, <1>7
      <4> QED BY <4>1, <4>2, <2>1 DEF IInv, TriesOfAttempts, Busy, Working
    <3> QED BY <3>1, <3>2
  <2>2. live'[r] # 0 => shots[r].place \in {"DISPATCH", "POLL", "CANCEL"}
    BY <1>1, <1>7 DEF IInv, TriesOfAttempts
  <2> QED BY <2>1, <2>2 DEF IInv, TriesOfAttempts
<1>13. FailedIsFailed'
  <2>1. \A l \in Keys : attempts'[l].job /\ attempts'[l].status = "FAILED" => Failed(l)'
    BY <1>1 DEF IInv, FailedIsFailed, Failed
  <2>2. ASSUME NEW r \in Shots, NEW f \in 1..Slots, exec'[r][f].outcome = "FAILED"
        PROVE  /\ exec'[r][f].at \in {"CLOSE", "WRITE"} => Failed(<<r, exec'[r][f].n>>)
               /\ exec'[r][f].at = "ANSWERED" /\ live'[r] = f => Failed(<<r, shots'[r].n>>)
    <3>1. r # s \/ f # e
      BY <2>2, <1>4, <1>5 DEF Becomes
    <3>2. exec'[r][f] = exec[r][f] /\ (live'[r] = f => live[r] = f)
      BY <3>1, <1>4, <1>7 DEF Becomes
    <3> QED BY <3>2, <2>2, <1>6 DEF IInv, FailedIsFailed, KeyOf, At
  <2> QED BY <2>1, <2>2, <1>1 DEF FailedIsFailed, KeyOf, At, Failed
<1> QED BY <1>8, <1>9, <1>10, <1>12, <1>13 DEF IInv

\* What happens around the executions: jobs end, the workflow waits no longer.
LEMMA AroundKeeps ==
  ASSUME IInv, UNCHANGED <<shots, attempts, attemptCount, exec>>, LiveKept,
         jobs' \in [Keys -> JobStatuses],
         \A l \in Keys : /\ Failed(l) => FailedNext(l)
                         /\ jobs[l] = "NONE" => jobs'[l] = "NONE"
  PROVE  IInv'
<1> USE ConstantsNat
<1>1. Typed'
  BY DEF IInv, Typed, LiveKept
<1>2. \A r \in Shots : live'[r] \in {live[r], 0}
  BY DEF LiveKept
<1>3. \A r \in Shots : shots[r].n \in 0..MaxAttempts
  BY DEF IInv, Typed
<1>4. AttemptsInTurn'
  <2> SUFFICES ASSUME NEW r \in Shots, NEW n \in 1..MaxAttempts
               PROVE  /\ n < shots[r].n => FailedNext(<<r, n>>)
                      /\ n > shots[r].n => jobs'[<<r, n>>] = "NONE"
    BY DEF AttemptsInTurn, Failed, FailedNext
  <2>1. <<r, n>> \in Keys
    BY DEF Keys
  <2> QED BY <2>1 DEF IInv, AttemptsInTurn
<1>5. TopAfterFailure'
  <2> SUFFICES ASSUME NEW r \in Shots, shots[r].place = "TOP"
               PROVE  shots[r].n < MaxAttempts /\ (shots[r].n > 0 => FailedNext(<<r, shots[r].n>>))
    BY DEF TopAfterFailure, Failed, FailedNext
  <2>1. shots[r].n > 0 => <<r, shots[r].n>> \in Keys
    BY <1>3 DEF Keys
  <2> QED BY <2>1 DEF IInv, TopAfterFailure
<1>6. TriesOfAttempts'
  BY <1>2 DEF IInv, TriesOfAttempts, Busy
<1>7. FailedIsFailed'
  <2>1. \A l \in Keys : attempts'[l].job /\ attempts'[l].status = "FAILED" => FailedNext(l)
    BY DEF IInv, FailedIsFailed
  <2>2. ASSUME NEW r \in Shots, NEW f \in 1..Slots, exec[r][f].outcome = "FAILED",
               exec[r][f].at \in {"CLOSE", "WRITE"}
        PROVE  FailedNext(<<r, exec[r][f].n>>)
    <3>1. Working(exec[r][f])
      BY <2>2 DEF Working
    <3>2. KeyOf(r, f) \in Keys
      BY <3>1, KeyOfInKeys
    <3> QED BY <2>2, <3>2 DEF IInv, FailedIsFailed, KeyOf
  <2>3. ASSUME NEW r \in Shots, NEW f \in 1..Slots, exec[r][f].outcome = "FAILED",
               exec[r][f].at = "ANSWERED", live'[r] = f
        PROVE  FailedNext(<<r, shots[r].n>>)
    <3>1. live[r] = f /\ live[r] # 0
      BY <2>3, <1>2
    <3>2. shots[r].n \in 1..MaxAttempts
      BY <3>1, <1>3 DEF IInv, TriesOfAttempts
    <3>3. <<r, shots[r].n>> \in Keys
      BY <3>2 DEF Keys
    <3> QED BY <2>3, <3>1, <3>3 DEF IInv, FailedIsFailed, At
  <2> QED BY <2>1, <2>2, <2>3 DEF FailedIsFailed, KeyOf, At, Failed, FailedNext
<1> QED BY <1>1, <1>4, <1>5, <1>6, <1>7 DEF IInv

-----------------------------------------------------------------------------
(* The invariant and the theorem.                                          *)

\* The invariant holds before the first attempt.
LEMMA InitIInv ==
  ASSUME Init
  PROVE  IInv
<1> USE ConstantsNat
<1>1. 0 < MaxAttempts
  BY ShotConstants DEF ShotConstants
<1>2. Typed
  <2>1. exec \in [Shots -> [1..Slots -> Execution]]
    BY IdleTyped DEF Init
  <2>2. [place |-> "TOP", n |-> 0, tries |-> 0] \in [place : Places, n : 0..MaxAttempts, tries : Nat]
    BY DEF Places
  <2>3. NoAttempt \in [status : Statuses, job : BOOLEAN]
    BY DEF NoAttempt, Statuses, AttemptStatuses
  <2>4. attempts \in [Keys -> [status : Statuses, job : BOOLEAN]]
    BY <2>3 DEF Init
  <2>5. shots \in [Shots -> [place : Places, n : 0..MaxAttempts, tries : Nat]]
    BY <2>2 DEF Init
  <2>6. attemptCount \in [Shots -> Nat] /\ live \in [Shots -> 0..Slots]
    BY DEF Init
  <2>7. jobs \in [Keys -> JobStatuses]
    BY DEF Init, JobStatuses
  <2> QED BY <2>1, <2>4, <2>5, <2>6, <2>7 DEF Typed
<1>3. AttemptsInTurn
  BY DEF Init, AttemptsInTurn, Keys
<1>4. TopAfterFailure
  BY <1>1 DEF Init, TopAfterFailure
<1>5. TriesOfAttempts
  BY DEF Init, TriesOfAttempts, Busy, Idle
<1>6. FailedIsFailed
  BY DEF Init, FailedIsFailed, Idle, NoAttempt, At
<1> QED BY <1>2, <1>3, <1>4, <1>5, <1>6 DEF IInv

\* Every step keeps the invariant.
LEMMA NextIInv ==
  ASSUME IInv, [Next]_vars
  PROVE  IInv'
<1>1. ASSUME NEW s \in Shots, RunShot(s)
      PROVE  IInv'
  BY <1>1, RunShotKeeps
<1>2. ASSUME NEW s \in Shots, NEW e \in 1..Slots, StartTry(s, e) \/ Execute(s, e) \/ Crash(s, e)
      PROVE  IInv'
  <2>1. CASE Crash(s, e)
    BY <2>1, LoseStep DEF Crash, Busy, Working, db, provider, workflow
  <2> QED BY <1>2, <2>1, StartTryKeeps, DispatchKeeps, PollKeeps, CancelKeeps DEF Execute
<1>3. ASSUME NEW s \in Shots, TimeOut(s)
      PROVE  IInv'
  <2>1. UNCHANGED <<shots, attempts, attemptCount, exec, jobs>> /\ live' = [live EXCEPT ![s] = 0]
    BY <1>3 DEF TimeOut, db, provider, workflow
  <2>2. LiveKept
    BY <2>1, ConstantsNat DEF LiveKept, IInv, Typed
  <2>3. jobs \in [Keys -> JobStatuses]
    BY DEF IInv, Typed
  <2> QED BY <2>1, <2>2, <2>3, AroundKeeps DEF Failed, FailedNext
<1>4. ASSUME NEW k \in Keys, FinishJob(k)
      PROVE  IInv'
  <2>1. UNCHANGED <<shots, attempts, attemptCount, exec, live>> /\ jobs[k] = "RUNNING"
    BY <1>4 DEF FinishJob, db, workflow
  <2>2. PICK j \in {"CLIP", "BROKEN", "FAILED"} : jobs' = [jobs EXCEPT ![k] = j]
    BY <1>4 DEF FinishJob
  <2>3. jobs \in [Keys -> JobStatuses]
    BY DEF IInv, Typed
  <2>4. jobs' \in [Keys -> JobStatuses]
    BY <2>2, <2>3 DEF JobStatuses
  <2>5. \A l \in Keys : l # k => jobs'[l] = jobs[l]
    BY <2>2, <2>3
  <2>6. \A l \in Keys : /\ Failed(l) => FailedNext(l)
                        /\ jobs[l] = "NONE" => jobs'[l] = "NONE"
    BY <2>1, <2>5 DEF Failed, FailedNext
  <2>7. LiveKept
    BY <2>1, Untouched
  <2> QED BY <2>1, <2>4, <2>6, <2>7, AroundKeeps
<1>5. CASE CancelSignal \/ UNCHANGED vars
  <2>1. UNCHANGED <<shots, attempts, attemptCount, exec, live, jobs>>
    BY <1>5 DEF CancelSignal, vars, db, provider, workflow
  <2>2. LiveKept /\ jobs \in [Keys -> JobStatuses]
    BY <2>1, Untouched DEF IInv, Typed
  <2> QED BY <2>1, <2>2, AroundKeeps DEF Failed, FailedNext
<1>6. CASE \E s \in Shots : RunShot(s) \/ TimeOut(s)
  BY <1>6, <1>1, <1>3
<1>7. CASE \E s \in Shots, e \in 1..Slots : StartTry(s, e) \/ Execute(s, e) \/ Crash(s, e)
  BY <1>7, <1>2
<1>8. CASE \E k \in Keys : FinishJob(k)
  BY <1>8, <1>4
<1> QED BY <1>5, <1>6, <1>7, <1>8 DEF Next

\* Every attempt before a shot's current one has failed at the provider, and no
\* later one has a job: in every state the runs of the workflow reach.
THEOREM AttemptsStayInTurn == Spec => []IInv
<1>1. Init => IInv
  BY InitIInv
<1>2. IInv /\ [Next]_vars => IInv'
  BY NextIInv
<1> QED BY <1>1, <1>2, PTL DEF Spec

\* No two paid jobs for one shot at a time, and none after a delivered one
\* (dispatch-shot-generation-activity.ts, shot-generation-workflow.ts).
THEOREM OneJobIsKept == Spec => []OneJobAtATime
<1>1. IInv => OneJobAtATime
  <2> SUFFICES ASSUME IInv, NEW s \in Shots, NEW n \in 1..MaxAttempts, NEW m \in 1..MaxAttempts,
                      n < m, jobs[<<s, m>>] # "NONE"
               PROVE  Failed(<<s, n>>)
    BY DEF OneJobAtATime, Failed
  <2>1. m <= shots[s].n
    BY ConstantsNat DEF IInv, Typed, AttemptsInTurn
  <2>2. n < shots[s].n
    BY <2>1, ConstantsNat DEF IInv, Typed
  <2> QED BY <2>2 DEF IInv, AttemptsInTurn
<1> QED BY <1>1, AttemptsStayInTurn, PTL

-----------------------------------------------------------------------------
(* The settlement: what is written about an attempt.                       *)

\* What the entries of a key come to at every scope of its shot.
Reserved(k, l) == \A p \in PoliciesOf(k[1]) : "RESERVATION" \in l[p][k]
Released(k, l) == \A p \in PoliciesOf(k[1]) : "RELEASE" \in l[p][k]
Charged(k, l) == \A p \in PoliciesOf(k[1]) : "CHARGE" \in l[p][k]
Settled(k, l) == Reserved(k, l) /\ Released(k, l)

Ends == {"SUCCEEDED", "FAILED", "CANCELLED"}

\* The first i - 1 closing entries are written.
Written(s, k, o, i, l) ==
  \A j \in DOMAIN Closing(s, o) :
    j < i => Closing(s, o)[j].type \in l[Closing(s, o)[j].policy][k]

\* The length of a sequence given as a function.
LEMMA LenOfFunction ==
  ASSUME NEW S, NEW n \in Nat, NEW q \in [1..n -> S]
  PROVE  Len(q) = n /\ DOMAIN q = 1..n
<1>1. q \in Seq(S)
  BY SeqDef
<1>2. Len(q) \in Nat /\ DOMAIN q = 1..Len(q)
  BY <1>1, LenProperties
<1>3. 1..Len(q) = 1..n
  BY <1>2
<1> QED BY <1>2, <1>3

\* The bounds of the closing entries, and where each policy's are.
LEMMA ClosingEntries ==
  ASSUME NEW s \in Shots, NEW o
  PROVE  /\ Len(Scopes[s]) \in Nat
         /\ DOMAIN Closing(s, o) = 1..Len(Closing(s, o))
         /\ Len(Closing(s, o)) \in Nat
         /\ \A j \in 1..Len(Closing(s, o)) :
              /\ Closing(s, o)[j].policy \in PoliciesOf(s)
              /\ Closing(s, o)[j].type = "RELEASE" \/ (Closing(s, o)[j].type = "CHARGE" /\ o = "SUCCEEDED")
         /\ \A p \in PoliciesOf(s) :
              /\ \E j \in 1..Len(Closing(s, o)) : Closing(s, o)[j] = [policy |-> p, type |-> "RELEASE"]
              /\ o = "SUCCEEDED" => \E j \in 1..Len(Closing(s, o)) :
                   Closing(s, o)[j] = [policy |-> p, type |-> "CHARGE"]
<1> DEFINE n == Len(Scopes[s])
           c == Closing(s, o)
<1>1. Scopes[s] \in Seq(Policies) /\ n \in Nat /\ DOMAIN Scopes[s] = 1..n
  BY ShotConstants DEF ShotConstants
<1>2. CASE o = "SUCCEEDED"
  <2>1. c = [i \in 1..(2 * n) |->
               [policy |-> Scopes[s][1 + (i - 1) \div 2],
                type |-> <<"CHARGE", "RELEASE">>[1 + ((i - 1) % 2)]]]
    BY <1>2 DEF Closing
  <2>2. ASSUME NEW j \in 1..(2 * n)
        PROVE  c[j] \in [policy : PoliciesOf(s), type : {"CHARGE", "RELEASE"}]
    <3>1. 1 + (j - 1) \div 2 \in 1..n /\ (j - 1) % 2 \in {0, 1}
      BY <1>1
    <3>2. c[j] = [policy |-> Scopes[s][1 + (j - 1) \div 2],
                  type |-> <<"CHARGE", "RELEASE">>[1 + ((j - 1) % 2)]]
      BY <2>1
    <3>3. <<"CHARGE", "RELEASE">>[1 + ((j - 1) % 2)] \in {"CHARGE", "RELEASE"}
      BY <3>1
    <3>4. Scopes[s][1 + (j - 1) \div 2] \in PoliciesOf(s)
      BY <3>1, <1>1 DEF PoliciesOf
    <3> QED BY <3>2, <3>3, <3>4
  <2>3. Len(c) = 2 * n /\ Len(c) \in Nat /\ DOMAIN c = 1..(2 * n)
    <3>1. 2 * n \in Nat
      BY <1>1
    <3>2. c = [j \in 1..(2 * n) |-> c[j]]
      BY <2>1
    <3>3. c \in [1..(2 * n) -> [policy : PoliciesOf(s), type : {"CHARGE", "RELEASE"}]]
      BY <2>2, <3>2, Zenon
    <3> QED BY <3>1, <3>3, LenOfFunction
  <2>4. \A j \in 1..(2 * n) : c[j].policy \in PoliciesOf(s) /\ c[j].type \in {"CHARGE", "RELEASE"}
    BY <2>2
  <2>5. ASSUME NEW p \in PoliciesOf(s)
        PROVE  /\ \E j \in 1..Len(c) : c[j] = [policy |-> p, type |-> "RELEASE"]
               /\ \E j \in 1..Len(c) : c[j] = [policy |-> p, type |-> "CHARGE"]
    <3>1. PICK m \in 1..n : p = Scopes[s][m]
      BY <1>1 DEF PoliciesOf
    <3>2. 2 * m - 1 \in 1..(2 * n) /\ 2 * m \in 1..(2 * n)
      BY <1>1
    <3>3. (2 * m - 1 - 1) \div 2 = m - 1 /\ (2 * m - 1 - 1) % 2 = 0
      BY <1>1
    <3>4. (2 * m - 1) \div 2 = m - 1 /\ (2 * m - 1) % 2 = 1
      BY <1>1
    <3>5. c[2 * m - 1] = [policy |-> Scopes[s][1 + (2 * m - 1 - 1) \div 2], type |-> <<"CHARGE", "RELEASE">>[1 + ((2 * m - 1 - 1) % 2)]]
      BY <2>1, <3>2
    <3>6. c[2 * m] = [policy |-> Scopes[s][1 + (2 * m - 1) \div 2], type |-> <<"CHARGE", "RELEASE">>[1 + ((2 * m - 1) % 2)]]
      BY <2>1, <3>2
    <3>7. 1 + (m - 1) = m
      BY <1>1
    <3>8. c[2 * m - 1] = [policy |-> p, type |-> "CHARGE"]
      BY <3>5, <3>3, <3>7, <3>1
    <3>9. c[2 * m] = [policy |-> p, type |-> "RELEASE"]
      <4>1. <<"CHARGE", "RELEASE">>[1 + 1] = "RELEASE"
        OBVIOUS
      <4> QED BY <4>1, <3>6, <3>4, <3>7, <3>1
    <3> QED BY <3>8, <3>9, <3>2, <2>3
  <2> QED BY <1>1, <1>2, <2>3, <2>4, <2>5
<1>3. CASE o # "SUCCEEDED"
  <2>1. c = [i \in 1..(1 * n) |->
               [policy |-> Scopes[s][1 + (i - 1) \div 1],
                type |-> <<"RELEASE">>[1 + ((i - 1) % 1)]]]
    BY <1>3 DEF Closing
  <2>2. \A i \in 1..n : (i - 1) \div 1 = i - 1 /\ (i - 1) % 1 = 0 /\ 1 + (i - 1) = i
    BY <1>1
  <2>3. c = [i \in 1..n |-> [policy |-> Scopes[s][i], type |-> "RELEASE"]]
    BY <2>1, <2>2, <1>1
  <2>4. Len(c) = n /\ DOMAIN c = 1..n
    <3>1. c \in [1..n -> [policy : {Scopes[s][i] : i \in 1..n}, type : {"RELEASE"}]]
      BY <2>3
    <3> QED BY <3>1, <1>1, LenOfFunction
  <2>5. \A j \in 1..n : c[j] = [policy |-> Scopes[s][j], type |-> "RELEASE"]
    BY <2>3
  <2>6. \A j \in 1..n : c[j].policy \in PoliciesOf(s) /\ c[j].type = "RELEASE"
    <3> SUFFICES ASSUME NEW j \in 1..n
                 PROVE  c[j].policy \in PoliciesOf(s) /\ c[j].type = "RELEASE"
      OBVIOUS
    <3>1. Scopes[s][j] \in PoliciesOf(s)
      BY <1>1 DEF PoliciesOf
    <3>2. c[j] = [policy |-> Scopes[s][j], type |-> "RELEASE"]
      BY <2>5
    <3> QED BY <3>1, <3>2
  <2>7. \A p \in PoliciesOf(s) : \E j \in 1..n : c[j] = [policy |-> p, type |-> "RELEASE"]
    BY <2>5, <1>1 DEF PoliciesOf
  <2> QED BY <1>1, <1>3, <2>4, <2>6, <2>7
<1> QED BY <1>2, <1>3

-----------------------------------------------------------------------------
(* What an execution has found and done.                                   *)

Delivered(k, j, f) == j[k] = "CLIP" /\ f[k] = "LINKED"

\* The attempts of a shot that have a job on record.
Recorded(s, a) == {n \in 1..MaxAttempts : a[<<s, n>>].job}

HasReserved == {"SUBMIT", "FIND", "INSERT", "COUNT", "UNDO", "FAIL"}
HasAttempt == {"POLL", "ASK", "NOTE", "REGISTER", "INGEST", "LINK", "CLOSE", "WRITE",
               "CANCEL", "KILL"}

\* The execution x of shot s, the database and the provider's jobs.
Fits(s, x, l, a, j, f) ==
  LET k == <<s, x.n>>
  IN /\ x.at \in HasReserved => Reserved(k, l)
     /\ x.at \in HasAttempt \cup {"COUNT"} => a[k].status # "NONE"
     /\ x.at \in {"ASK", "NOTE"} => a[k].job
     /\ x.at \in {"REGISTER", "INGEST", "LINK"} => j[k] = "CLIP"
     /\ x.at \in {"CLOSE", "WRITE"} =>
          x.outcome \in Ends /\ (x.outcome = "SUCCEEDED" => Delivered(k, j, f))
     /\ x.at = "UNDO" => x.outcome = "ERROR"
     /\ x.at \in {"CLOSE", "UNDO"} => x.i > 0 /\ Written(s, k, x.outcome, x.i, l)
     /\ x.at \in {"WRITE", "FAIL"} => Released(k, l)
     /\ x.at = "WRITE" /\ x.outcome = "SUCCEEDED" => Charged(k, l)
     /\ x.seen <= Cardinality(Recorded(s, a))
     /\ x.at = "COUNT" => x.seen < Cardinality(Recorded(s, a))

\* Entries, jobs, rows and assets are not taken back.
Grows(l, a, j, f, l2, a2, j2, f2) ==
  /\ \A p \in Policies, k \in Keys : l[p][k] \subseteq l2[p][k]
  /\ \A k \in Keys :
       /\ a[k].status # "NONE" => a2[k].status # "NONE"
       /\ a[k].job => a2[k].job
       /\ j[k] = "CLIP" => j2[k] = "CLIP"
       /\ f[k] = "LINKED" => f2[k] = "LINKED"

\* The policies of a shot are policies.
LEMMA PoliciesOfShot == ASSUME NEW s \in Shots PROVE PoliciesOf(s) \subseteq Policies
<1>1. Scopes[s] \in Seq(Policies)
  BY ShotConstants DEF ShotConstants
<1>2. \A i \in DOMAIN Scopes[s] : Scopes[s][i] \in Policies
  BY <1>1, LenProperties
<1> QED BY <1>2 DEF PoliciesOf

\* A shot's attempts on record can be counted, and more of them are no fewer.
LEMMA RecordedCount ==
  ASSUME NEW s \in Shots, NEW a, NEW a2,
         \A k \in Keys : a[k].job => a2[k].job
  PROVE  /\ Cardinality(Recorded(s, a)) \in 0..MaxAttempts
         /\ Cardinality(Recorded(s, a2)) \in 0..MaxAttempts
         /\ Cardinality(Recorded(s, a)) <= Cardinality(Recorded(s, a2))
<1>1. IsFiniteSet(1..MaxAttempts) /\ Cardinality(1..MaxAttempts) = MaxAttempts
  BY FS_Interval, ConstantsNat
<1>2. Recorded(s, a) \subseteq 1..MaxAttempts /\ Recorded(s, a2) \subseteq 1..MaxAttempts
  BY DEF Recorded
<1>3. IsFiniteSet(Recorded(s, a)) /\ IsFiniteSet(Recorded(s, a2))
  BY <1>1, <1>2, FS_Subset
<1>4. Recorded(s, a) \subseteq Recorded(s, a2)
  BY DEF Recorded, Keys
<1>5. Cardinality(Recorded(s, a)) <= MaxAttempts
  BY <1>1, <1>2, FS_Subset
<1>7. Cardinality(Recorded(s, a2)) <= MaxAttempts
  BY <1>1, <1>2, FS_Subset
<1>6. Cardinality(Recorded(s, a)) \in Nat /\ Cardinality(Recorded(s, a2)) \in Nat
  BY <1>3, FS_CardinalityType
<1> QED BY <1>3, <1>4, <1>5, <1>6, <1>7, FS_Subset, ConstantsNat

\* What fits goes on fitting while the database and the jobs grow.
LEMMA FitsStays ==
  ASSUME NEW s \in Shots, NEW x, x.n \in 1..MaxAttempts \/ x.at \notin HasReserved \cup HasAttempt,
         x.seen \in Nat,
         NEW l, NEW a, NEW j, NEW f, NEW l2, NEW a2, NEW j2, NEW f2,
         Grows(l, a, j, f, l2, a2, j2, f2), Fits(s, x, l, a, j, f)
  PROVE  Fits(s, x, l2, a2, j2, f2)
<1> DEFINE k == <<s, x.n>>
<1>1. Cardinality(Recorded(s, a)) \in Nat /\ Cardinality(Recorded(s, a2)) \in Nat
      /\ Cardinality(Recorded(s, a)) <= Cardinality(Recorded(s, a2))
  BY RecordedCount DEF Grows
<1>2. /\ x.seen <= Cardinality(Recorded(s, a2))
      /\ x.at = "COUNT" => x.seen < Cardinality(Recorded(s, a2))
  BY <1>1 DEF Fits
<1>3. CASE x.at \notin HasReserved \cup HasAttempt
  BY <1>2, <1>3 DEF Fits, HasReserved, HasAttempt
<1>4. CASE x.n \in 1..MaxAttempts
  <2>1. k \in Keys /\ k[1] = s
    BY <1>4 DEF Keys
  <2>2. /\ Reserved(k, l) => Reserved(k, l2)
        /\ Released(k, l) => Released(k, l2)
        /\ Charged(k, l) => Charged(k, l2)
    BY <2>1, PoliciesOfShot DEF Reserved, Released, Charged, Grows
  <2>3. Written(s, k, x.outcome, x.i, l) => Written(s, k, x.outcome, x.i, l2)
    BY <2>1, PoliciesOfShot, ClosingEntries DEF Written, Grows
  <2>4. Delivered(k, j, f) => Delivered(k, j2, f2)
    BY <2>1 DEF Delivered, Grows
  <2>5. /\ a[k].status # "NONE" => a2[k].status # "NONE"
        /\ j[k] = "CLIP" => j2[k] = "CLIP"
    BY <2>1 DEF Grows
  <2>6. a[k].job => a2[k].job
    BY <2>1 DEF Grows
  <2> QED BY <1>2, <2>2, <2>3, <2>4, <2>5, <2>6 DEF Fits
<1> QED BY <1>3, <1>4

-----------------------------------------------------------------------------
(* The invariant of the settlement.                                        *)

Unreserved(k, l) == \A p \in Policies : "RESERVATION" \notin l[p][k]

\* No execution overlaps another one of its shot.
Alone == Slots = 1 /\ ~failed

Current(s) == <<s, shots[s].n>>

\* Entries are written at the scopes of the shot, with a reservation at each.
LedgerFits ==
  /\ ledger \in [Policies -> [Keys -> SUBSET EntryTypes]]
  /\ \A p \in Policies, k \in Keys :
       /\ "CHARGE" \in ledger[p][k] => jobs[k] = "CLIP"
       /\ ledger[p][k] # {} =>
            p \in PoliciesOf(k[1]) /\ Reserved(k, ledger) /\ k[2] <= shots[k[1]].n

\* A row that says an attempt has ended says that it is settled.
RowsFit ==
  /\ assets \in [Keys -> {"NONE", "CANDIDATE", "STORED", "LINKED"}]
  /\ \A k \in Keys :
       /\ attempts[k].status \in AttemptStatuses
       /\ attempts[k].status = "SUBMITTED" => attempts[k].job
       /\ attempts[k].job => attempts[k].status # "NONE"
       /\ attempts[k].status # "NONE" \/ jobs[k] # "NONE" => Reserved(k, ledger)
       /\ attempts[k].status \in Ends => Released(k, ledger)
       /\ attempts[k].status = "SUCCEEDED" => Delivered(k, jobs, assets) /\ Charged(k, ledger)
  /\ \A s \in Shots : attemptCount[s] <= Cardinality(Recorded(s, attempts))

ExecutionsFit ==
  \A s \in Shots, e \in 1..Slots : Fits(s, exec[s][e], ledger, attempts, jobs, assets)

AnswerFits(k, o, l, a) ==
  /\ o # "NONE"
  /\ o \in Ends \cup {"ERROR", "NOT_FOUND"} => Settled(k, l)
  /\ o \in {"OK", "RUNNING"} => a[k].status # "NONE"

\* The answer the workflow waits for says how the current attempt stands.
AnswersFit ==
  \A s \in Shots, e \in 1..Slots :
    At(s, e, "ANSWERED") /\ live[s] = e =>
      /\ AnswerFits(Current(s), exec[s][e].outcome, ledger, attempts)
      /\ exec[s][e].outcome = "REFUSED" => (Alone => Unreserved(Current(s), ledger))

\* An attempt that was left is settled.
PlacesFit ==
  \A s \in Shots :
    /\ shots[s].place \in {"POLL", "CANCEL", "SLEEP"} => attempts[Current(s)].status # "NONE"
    /\ \A n \in 1..MaxAttempts : n < shots[s].n => Settled(<<s, n>>, ledger)
    /\ shots[s].place \in {"TOP", "SUCCEEDED", "RETRY_EXHAUSTED", "CANCELLED"} =>
         shots[s].n = 0 \/ Settled(Current(s), ledger)
    /\ shots[s].place = "FAILED" =>
         /\ shots[s].n > 0
         /\ Settled(Current(s), ledger) \/ (Alone => Unreserved(Current(s), ledger))
    /\ Alone => \A e \in 1..Slots : Working(exec[s][e]) => live[s] = e

SInv == IInv /\ LedgerFits /\ RowsFit /\ ExecutionsFit /\ AnswersFit /\ PlacesFit

\* The database's and the provider's part of a step.
GrowsOn == Grows(ledger, attempts, jobs, assets, ledger', attempts', jobs', assets')

\* The current attempt of a shot has a key once there is one.
LEMMA CurrentInKeys ==
  ASSUME IInv, NEW s \in Shots
  PROVE  /\ shots[s].n \in 0..MaxAttempts
         /\ shots[s].n > 0 => Current(s) \in Keys /\ Current(s)[1] = s
         /\ live[s] # 0 \/ shots[s].place \in {"DISPATCH", "POLL", "CANCEL", "SLEEP"} => shots[s].n > 0
         /\ live[s] # 0 => shots[s].place \in {"DISPATCH", "POLL", "CANCEL"}
<1>1. shots[s].n \in 0..MaxAttempts
  BY DEF IInv, Typed
<1> QED BY <1>1, ConstantsNat DEF IInv, TriesOfAttempts, Current, Keys

\* An execution is well typed, and has a key when it is at work on an attempt.
LEMMA ExecutionTyped ==
  ASSUME IInv, NEW s \in Shots, NEW e \in 1..Slots
  PROVE  /\ exec[s][e] \in Execution
         /\ exec[s][e].seen \in Nat
         /\ exec[s][e].n \in 1..MaxAttempts \/ exec[s][e].at \notin HasReserved \cup HasAttempt
<1>1. exec[s][e] \in Execution /\ exec[s][e].seen \in Nat
  BY DEF IInv, Typed, Execution
<1>2. Working(exec[s][e]) => exec[s][e].n \in 1..MaxAttempts
  BY KeyOfInKeys
<1> QED BY <1>1, <1>2 DEF Working, HasReserved, HasAttempt

\* What is settled stays settled, and what has a row keeps it.
LEMMA SettledStays ==
  ASSUME GrowsOn, NEW k \in Keys
  PROVE  /\ Reserved(k, ledger) => Reserved(k, ledger')
         /\ Released(k, ledger) => Released(k, ledger')
         /\ Charged(k, ledger) => Charged(k, ledger')
         /\ Settled(k, ledger) => Settled(k, ledger')
         /\ attempts[k].status # "NONE" => attempts'[k].status # "NONE"
         /\ Delivered(k, jobs, assets) => Delivered(k, jobs', assets')
<1>1. k[1] \in Shots
  BY DEF Keys
<1> QED BY <1>1, PoliciesOfShot DEF GrowsOn, Grows, Reserved, Released, Charged, Settled, Delivered

\* The others go on fitting while one execution moves, if the database only grows and
\* the entries of its shot alone.
LEMMA ExecutionGoesOn ==
  ASSUME SInv, IInv', NEW s \in Shots, NEW e \in 1..Slots, Working(exec[s][e]),
         NEW x, Becomes(s, e, x),
         UNCHANGED <<shots, failed>>,
         \A r \in Shots : live'[r] \in {live[r], 0} /\ (r # s => live'[r] = live[r]),
         Working(x) => live'[s] = live[s],
         GrowsOn,
         \A p \in Policies, k \in Keys : k[1] # s => ledger'[p][k] = ledger[p][k],
         LedgerFits', RowsFit',
         Fits(s, x, ledger', attempts', jobs', assets'),
         x.at = "ANSWERED" /\ live'[s] = e =>
           /\ AnswerFits(Current(s), x.outcome, ledger', attempts')
           /\ x.outcome = "REFUSED" => (Alone => Unreserved(Current(s), ledger'))
  PROVE  SInv'
<1>c. ASSUME NEW r \in Shots
      PROVE  /\ Current(r)' = Current(r)
             /\ shots[r].n \in 0..MaxAttempts
             /\ shots[r].n > 0 => Current(r) \in Keys /\ Current(r)[1] = r
             /\ live[r] # 0 \/ shots[r].place \in {"DISPATCH", "POLL", "CANCEL", "SLEEP"} => shots[r].n > 0
             /\ live[r] # 0 => shots[r].place \in {"DISPATCH", "POLL", "CANCEL"}
  <2>1. Current(r)' = Current(r)
    BY DEF Current
  <2> QED BY <2>1, CurrentInKeys DEF SInv
<1>a. Alone' = Alone
  BY DEF Alone
<1>1. ExecutionsFit'
  <2> SUFFICES ASSUME NEW r \in Shots, NEW f \in 1..Slots
               PROVE  Fits(r, exec'[r][f], ledger', attempts', jobs', assets')
    BY DEF ExecutionsFit
  <2>1. CASE r = s /\ f = e
    BY <2>1 DEF Becomes
  <2>2. CASE r # s \/ f # e
    <3>1. exec'[r][f] = exec[r][f]
      BY <2>2 DEF Becomes
    <3>2. Fits(r, exec[r][f], ledger, attempts, jobs, assets)
      BY DEF SInv, ExecutionsFit
    <3> QED BY <3>1, <3>2, ExecutionTyped, FitsStays DEF GrowsOn, SInv
  <2> QED BY <2>1, <2>2
<1>2. AnswersFit'
  <2> SUFFICES ASSUME NEW r \in Shots, NEW f \in 1..Slots,
                      exec'[r][f].at = "ANSWERED", live'[r] = f
               PROVE  /\ AnswerFits(Current(r), exec'[r][f].outcome, ledger', attempts')
                      /\ exec'[r][f].outcome = "REFUSED" =>
                           (Alone => Unreserved(Current(r), ledger'))
    BY <1>c, <1>a DEF AnswersFit, At
  <2>1. CASE r = s /\ f = e
    BY <2>1 DEF Becomes
  <2>2. CASE r # s \/ f # e
    <3>1. exec'[r][f] = exec[r][f] /\ live[r] = f /\ live[r] # 0
      BY <2>2 DEF Becomes
    <3>2. /\ AnswerFits(Current(r), exec[r][f].outcome, ledger, attempts)
          /\ exec[r][f].outcome = "REFUSED" => (Alone => Unreserved(Current(r), ledger))
      BY <3>1 DEF SInv, AnswersFit, At
    <3>3. Current(r) \in Keys /\ Current(r)[1] = r
      BY <3>1, <1>c
    <3>4. AnswerFits(Current(r), exec[r][f].outcome, ledger', attempts')
      BY <3>2, <3>3, SettledStays DEF AnswerFits
    <3>5. Alone => r # s
      BY <2>2, ConstantsNat DEF Alone
    <3>6. r # s /\ Unreserved(Current(r), ledger) => Unreserved(Current(r), ledger')
      BY <3>3 DEF Unreserved
    <3> QED BY <3>1, <3>2, <3>4, <3>5, <3>6
  <2> QED BY <2>1, <2>2
<1>3. PlacesFit'
  <2> SUFFICES ASSUME NEW r \in Shots
               PROVE
    /\ shots[r].place \in {"POLL", "CANCEL", "SLEEP"} => attempts'[Current(r)].status # "NONE"
    /\ \A n \in 1..MaxAttempts : n < shots[r].n => Settled(<<r, n>>, ledger')
    /\ shots[r].place \in {"TOP", "SUCCEEDED", "RETRY_EXHAUSTED", "CANCELLED"} =>
         shots[r].n = 0 \/ Settled(Current(r), ledger')
    /\ shots[r].place = "FAILED" =>
         /\ shots[r].n > 0
         /\ Settled(Current(r), ledger') \/ (Alone => Unreserved(Current(r), ledger'))
    /\ Alone => \A f \in 1..Slots : Working(exec'[r][f]) => live'[r] = f
    BY <1>c, <1>a DEF PlacesFit
  <2>1. shots[r].place \in {"POLL", "CANCEL", "SLEEP"} => attempts'[Current(r)].status # "NONE"
    BY <1>c, SettledStays DEF SInv, PlacesFit
  <2>2. \A n \in 1..MaxAttempts : <<r, n>> \in Keys
    BY DEF Keys
  <2>3. \A n \in 1..MaxAttempts : n < shots[r].n => Settled(<<r, n>>, ledger')
    BY <2>2, SettledStays DEF SInv, PlacesFit
  <2>4. shots[r].place \in {"TOP", "SUCCEEDED", "RETRY_EXHAUSTED", "CANCELLED"} =>
         shots[r].n = 0 \/ Settled(Current(r), ledger')
    BY <1>c, SettledStays DEF SInv, PlacesFit
  <2>5. ASSUME shots[r].place = "FAILED"
        PROVE  /\ shots[r].n > 0
               /\ Settled(Current(r), ledger') \/ (Alone => Unreserved(Current(r), ledger'))
    <3>1. /\ shots[r].n > 0
          /\ Settled(Current(r), ledger) \/ (Alone => Unreserved(Current(r), ledger))
      BY <2>5 DEF SInv, PlacesFit
    <3>2. Current(r) \in Keys /\ Current(r)[1] = r
      BY <3>1, <1>c
    <3>3. Alone => r # s
      <4>1. Alone => live[s] = e
        BY DEF SInv, PlacesFit
      <4>2. Alone => shots[s].place \in {"DISPATCH", "POLL", "CANCEL"}
        BY <4>1, <1>c
      <4> QED BY <4>2, <2>5
    <3>4. r # s /\ Unreserved(Current(r), ledger) => Unreserved(Current(r), ledger')
      BY <3>2 DEF Unreserved
    <3> QED BY <3>1, <3>2, <3>3, <3>4, SettledStays
  <2>6. ASSUME Alone, NEW f \in 1..Slots, Working(exec'[r][f])
        PROVE  live'[r] = f
    <3>1. CASE r = s /\ f = e
      BY <3>1, <2>6 DEF Becomes, SInv, PlacesFit
    <3>2. CASE r # s \/ f # e
      <4>1. r # s
        BY <3>2, <2>6, ConstantsNat DEF Alone
      <4> QED BY <4>1, <2>6 DEF Becomes, SInv, PlacesFit
    <3> QED BY <3>1, <3>2
  <2> QED BY <2>1, <2>3, <2>4, <2>5, <2>6
<1> QED BY <1>1, <1>2, <1>3 DEF SInv

-----------------------------------------------------------------------------
(* What an activity does to the database and the provider's jobs.          *)

\* They grow and go on fitting, and the entries of other shots stay.
Kept(s) ==
  /\ GrowsOn /\ LedgerFits' /\ RowsFit'
  /\ \A p \in Policies, k \in Keys : k[1] # s => ledger'[p][k] = ledger[p][k]

\* Nothing is written.
LEMMA NothingWritten ==
  ASSUME SInv, NEW s \in Shots, UNCHANGED <<ledger, attempts, attemptCount, assets, jobs, shots>>
  PROVE  Kept(s)
<1>1. GrowsOn
  BY DEF GrowsOn, Grows
<1>2. LedgerFits'
  BY DEF SInv, LedgerFits
<1>3. RowsFit'
  BY DEF SInv, RowsFit
<1> QED BY <1>1, <1>2, <1>3 DEF Kept

\* A job of a key that is reserved changes; a delivered one does not.
LEMMA JobWritten ==
  ASSUME SInv, NEW s \in Shots, NEW k \in Keys, NEW v, jobs' = [jobs EXCEPT ![k] = v],
         jobs[k] = "CLIP" => v = "CLIP", Reserved(k, ledger),
         UNCHANGED <<ledger, attempts, attemptCount, assets, shots>>
  PROVE  Kept(s)
<1>1. jobs \in [Keys -> JobStatuses]
  BY DEF SInv, IInv, Typed
<1>2. \A l \in Keys : jobs'[l] = IF l = k THEN v ELSE jobs[l]
  BY <1>1
<1>3. \A l \in Keys : jobs[l] = "CLIP" => jobs'[l] = "CLIP"
  BY <1>2
<1>4. GrowsOn
  BY <1>3 DEF GrowsOn, Grows
<1>5. LedgerFits'
  BY <1>3 DEF SInv, LedgerFits
<1>6. RowsFit'
  <2>1. \A l \in Keys : Delivered(l, jobs, assets) => Delivered(l, jobs', assets')
    BY <1>3 DEF Delivered
  <2>2. \A l \in Keys : attempts[l].status # "NONE" \/ jobs'[l] # "NONE" => Reserved(l, ledger)
    BY <1>2 DEF SInv, RowsFit
  <2> QED BY <2>1, <2>2 DEF SInv, RowsFit
<1> QED BY <1>4, <1>5, <1>6 DEF Kept

\* A candidate is registered a step further; a linked one stays linked.
LEMMA AssetWritten ==
  ASSUME SInv, NEW s \in Shots, NEW k \in Keys, NEW v \in {"CANDIDATE", "STORED", "LINKED"},
         assets' = [assets EXCEPT ![k] = v], assets[k] = "LINKED" => v = "LINKED",
         UNCHANGED <<ledger, attempts, attemptCount, jobs, shots>>
  PROVE  Kept(s)
<1>1. /\ \A l \in Keys : assets[l] = "LINKED" => assets'[l] = "LINKED"
      /\ assets' \in [Keys -> {"NONE", "CANDIDATE", "STORED", "LINKED"}]
  BY DEF SInv, RowsFit
<1>2. GrowsOn
  BY <1>1 DEF GrowsOn, Grows
<1>3. LedgerFits'
  BY DEF SInv, LedgerFits
<1>4. RowsFit'
  <2>1. \A l \in Keys : Delivered(l, jobs, assets) => Delivered(l, jobs', assets')
    BY <1>1 DEF Delivered
  <2> QED BY <1>1, <2>1 DEF SInv, RowsFit
<1> QED BY <1>2, <1>3, <1>4 DEF Kept

\* The row of an attempt is written, which is reserved and, at its end, settled.
LEMMA RowWritten ==
  ASSUME SInv, NEW s \in Shots, NEW k \in Keys, NEW a \in [status : AttemptStatuses, job : BOOLEAN],
         attempts' = [attempts EXCEPT ![k] = a],
         a.status # "NONE", attempts[k].job => a.job, a.status = "SUBMITTED" => a.job,
         Reserved(k, ledger), a.status \in Ends => Released(k, ledger),
         a.status = "SUCCEEDED" => Delivered(k, jobs, assets) /\ Charged(k, ledger),
         UNCHANGED <<ledger, attemptCount, assets, jobs, shots>>
  PROVE  Kept(s)
<1>1. attempts \in [Keys -> [status : Statuses, job : BOOLEAN]]
  BY DEF SInv, IInv, Typed
<1>2. attempts'[k] = a /\ \A l \in Keys : l # k => attempts'[l] = attempts[l]
  BY <1>1
<1>3. \A l \in Keys : /\ attempts[l].job => attempts'[l].job
                      /\ attempts[l].status # "NONE" => attempts'[l].status # "NONE"
  BY <1>2
<1>4. GrowsOn
  BY <1>3 DEF GrowsOn, Grows
<1>5. LedgerFits'
  BY DEF SInv, LedgerFits
<1>6. RowsFit'
  <2>1. ASSUME NEW r \in Shots
        PROVE  attemptCount[r] <= Cardinality(Recorded(r, attempts'))
    <3>1. /\ Cardinality(Recorded(r, attempts)) \in 0..MaxAttempts
          /\ Cardinality(Recorded(r, attempts')) \in 0..MaxAttempts
          /\ Cardinality(Recorded(r, attempts)) <= Cardinality(Recorded(r, attempts'))
      BY <1>3, RecordedCount
    <3>2. attemptCount[r] <= Cardinality(Recorded(r, attempts)) /\ attemptCount[r] \in Nat
      BY DEF SInv, RowsFit, IInv, Typed
    <3> QED BY <3>1, <3>2, ConstantsNat
  <2>2. ASSUME NEW l \in Keys
        PROVE  /\ attempts'[l].status \in AttemptStatuses
               /\ attempts'[l].status = "SUBMITTED" => attempts'[l].job
               /\ attempts'[l].job => attempts'[l].status # "NONE"
               /\ attempts'[l].status # "NONE" \/ jobs[l] # "NONE" => Reserved(l, ledger)
               /\ attempts'[l].status \in Ends => Released(l, ledger)
               /\ attempts'[l].status = "SUCCEEDED" => Delivered(l, jobs, assets) /\ Charged(l, ledger)
    <3>1. CASE l = k
      BY <3>1, <1>2
    <3>2. CASE l # k
      BY <3>2, <1>2 DEF SInv, RowsFit
    <3> QED BY <3>1, <3>2
  <2> QED BY <2>1, <2>2 DEF SInv, RowsFit
<1> QED BY <1>4, <1>5, <1>6 DEF Kept

\* The ledger gains entries of one key, at scopes of its shot.
LEMMA EntriesWritten ==
  ASSUME SInv, NEW s \in Shots, NEW k \in Keys, k[1] = s, k[2] <= shots[s].n,
         ledger' \in [Policies -> [Keys -> SUBSET EntryTypes]],
         \A p \in Policies, l \in Keys : l # k => ledger'[p][l] = ledger[p][l],
         \A p \in Policies : ledger[p][k] \subseteq ledger'[p][k],
         \A p \in Policies \ PoliciesOf(s) : ledger'[p][k] = ledger[p][k],
         Reserved(k, ledger'),
         \A p \in Policies : "CHARGE" \in ledger'[p][k] => jobs[k] = "CLIP",
         UNCHANGED <<attempts, attemptCount, assets, jobs, shots>>
  PROVE  Kept(s)
<1>1. \A p \in Policies, l \in Keys : ledger[p][l] \subseteq ledger'[p][l]
  OBVIOUS
<1>2. GrowsOn
  BY <1>1 DEF GrowsOn, Grows
<1>3. ASSUME NEW l \in Keys
      PROVE  /\ Reserved(l, ledger) => Reserved(l, ledger')
             /\ Released(l, ledger) => Released(l, ledger')
             /\ Charged(l, ledger) => Charged(l, ledger')
  BY <1>2, SettledStays
<1>4. LedgerFits'
  <2> SUFFICES ASSUME NEW p \in Policies, NEW l \in Keys
               PROVE  /\ "CHARGE" \in ledger'[p][l] => jobs[l] = "CLIP"
                      /\ ledger'[p][l] # {} =>
                           p \in PoliciesOf(l[1]) /\ Reserved(l, ledger') /\ l[2] <= shots[l[1]].n
    BY DEF LedgerFits
  <2>1. CASE l # k
    BY <2>1, <1>3 DEF SInv, LedgerFits
  <2>2. CASE l = k
    BY <2>2 DEF SInv, LedgerFits
  <2> QED BY <2>1, <2>2
<1>5. RowsFit'
  BY <1>3 DEF SInv, RowsFit
<1> QED BY <1>2, <1>4, <1>5 DEF Kept

-----------------------------------------------------------------------------
(* The kinds of steps, for the settlement.                                 *)

\* A free or an answered slot fits whatever is recorded.
LEMMA RestFits ==
  ASSUME NEW s \in Shots, NEW x, ~Working(x), x.seen = 0,
         NEW l, NEW a, NEW j, NEW f
  PROVE  Fits(s, x, l, a, j, f)
<1>1. Cardinality(Recorded(s, a)) \in Nat
  BY RecordedCount
<1> QED BY <1>1 DEF Fits, Working, HasReserved, HasAttempt

\* An execution goes on working,
LEMMA WorksOn ==
  ASSUME SInv, IInv', NEW s \in Shots, NEW e \in 1..Slots, Working(exec[s][e]),
         NEW x, Becomes(s, e, x), Working(x), UNCHANGED <<shots, live, failed>>,
         Kept(s), Fits(s, x, ledger', attempts', jobs', assets')
  PROVE  SInv'
BY ExecutionGoesOn DEF Kept, Working

\* answers,
LEMMA AnswersOn ==
  ASSUME SInv, IInv', NEW s \in Shots, NEW e \in 1..Slots, Working(exec[s][e]),
         NEW o \in Outcomes, Answer(s, e, o), UNCHANGED <<shots, live, failed>>, Kept(s),
         AnswerFits(KeyOf(s, e), o, ledger', attempts'),
         o = "REFUSED" => (Alone => Unreserved(KeyOf(s, e), ledger'))
  PROVE  SInv'
<1> DEFINE x == IF live[s] = e THEN [Idle EXCEPT !.at = "ANSWERED", !.outcome = o] ELSE Idle
<1>1. Becomes(s, e, x)
  BY Answered DEF SInv, IInv
<1>2. ~Working(x) /\ x.seen = 0
  BY DEF Idle, Working
<1>3. Fits(s, x, ledger', attempts', jobs', assets')
  BY <1>2, RestFits
<1>4. x.at = "ANSWERED" => x.outcome = o /\ Current(s) = KeyOf(s, e)
  <2>1. CASE live[s] = e
    BY <2>1, KeyOfInKeys DEF SInv, Idle, Current, KeyOf
  <2>2. CASE live[s] # e
    BY <2>2 DEF Idle
  <2> QED BY <2>1, <2>2
<1> HIDE DEF x
<1> QED BY <1>1, <1>2, <1>3, <1>4, ExecutionGoesOn DEF Kept

\* or is lost.
LEMMA LosesOn ==
  ASSUME SInv, IInv', NEW s \in Shots, NEW e \in 1..Slots, Working(exec[s][e]), Lose(s, e),
         UNCHANGED <<shots, failed>>, Kept(s)
  PROVE  SInv'
<1>1. /\ Becomes(s, e, Idle)
      /\ \A r \in Shots : live'[r] \in {live[r], 0} /\ (r # s => live'[r] = live[r])
  BY Lost DEF SInv, IInv, Typed, Lose
<1>2. ~Working(Idle) /\ Idle.seen = 0 /\ Idle.at # "ANSWERED"
  BY DEF Idle, Working
<1>3. Fits(s, Idle, ledger', attempts', jobs', assets')
  BY <1>2, RestFits
<1> QED BY <1>1, <1>2, <1>3, ExecutionGoesOn DEF Kept

-----------------------------------------------------------------------------
(* The actions, for the settlement.                                        *)

\* A closing entry is written, for an attempt that is reserved; after the last one
\* the attempt is settled.
LEMMA EntrySettles ==
  ASSUME SInv, IInv', NEW s \in Shots, NEW e \in 1..Slots, Working(exec[s][e]),
         NEW step \in {"WRITE", "FAIL"},
         \/ exec[s][e].at = "CLOSE" /\ step = "WRITE"
         \/ exec[s][e].at = "UNDO" /\ step = "FAIL",
         WriteEntry(s, e, step),
         UNCHANGED <<shots, live, failed, jobs, attempts, attemptCount, assets>>
  PROVE  SInv'
<1> DEFINE k == KeyOf(s, e)
           o == exec[s][e].outcome
           i == exec[s][e].i
           c == Closing(s, o)
<1>k. k \in Keys /\ k[1] = s /\ k[2] <= shots[s].n /\ k = <<s, exec[s][e].n>>
  <2>1. exec[s][e].n \in 1..shots[s].n /\ k \in Keys
    BY KeyOfInKeys DEF SInv
  <2> QED BY <2>1 DEF KeyOf
<1>x. exec[s][e] \in Execution /\ i \in Nat
  BY ExecutionTyped DEF SInv, Execution
<1>f. Fits(s, exec[s][e], ledger, attempts, jobs, assets)
  BY DEF SInv, ExecutionsFit
<1>r. Reserved(k, ledger)
  BY <1>f, <1>k DEF Fits, HasReserved, HasAttempt, SInv, RowsFit
<1>w. Written(s, k, o, i, ledger)
  BY <1>f, <1>k DEF Fits
<1>c. /\ Len(c) \in Nat
      /\ DOMAIN c = 1..Len(c)
      /\ \A j \in 1..Len(c) :
           /\ c[j].policy \in PoliciesOf(s)
           /\ c[j].type = "RELEASE" \/ (c[j].type = "CHARGE" /\ o = "SUCCEEDED")
      /\ \A p \in PoliciesOf(s) :
           /\ \E j \in 1..Len(c) : c[j] = [policy |-> p, type |-> "RELEASE"]
           /\ o = "SUCCEEDED" => \E j \in 1..Len(c) : c[j] = [policy |-> p, type |-> "CHARGE"]
  BY ClosingEntries
<1>l. ledger \in [Policies -> [Keys -> SUBSET EntryTypes]]
  BY DEF SInv, LedgerFits
<1>1. CASE i > Len(c)
  <2> DEFINE x == [exec[s][e] EXCEPT !.at = step]
  <2>1. GoTo(s, e, step) /\ UNCHANGED ledger
    BY <1>1 DEF WriteEntry
  <2>2. Becomes(s, e, x)
    BY <2>1, GoneTo DEF SInv, IInv, Steps
  <2>3. /\ x.at = step /\ x.outcome = o /\ x.n = exec[s][e].n /\ x.seen = exec[s][e].seen
    BY <1>x DEF Execution
  <2>4. \A j \in 1..Len(c) : c[j].type \in ledger[c[j].policy][k]
    BY <1>1, <1>w, <1>c, <1>x DEF Written
  <2>5. Released(k, ledger) /\ (o = "SUCCEEDED" => Charged(k, ledger))
    <3>1. ASSUME NEW p \in PoliciesOf(s)
          PROVE  "RELEASE" \in ledger[p][k] /\ (o = "SUCCEEDED" => "CHARGE" \in ledger[p][k])
      <4>1. PICK j \in 1..Len(c) : c[j] = [policy |-> p, type |-> "RELEASE"]
        BY <1>c
      <4>2. "RELEASE" \in ledger[p][k]
        BY <4>1, <2>4
      <4>3. ASSUME o = "SUCCEEDED"
            PROVE  "CHARGE" \in ledger[p][k]
        <5>1. PICK m \in 1..Len(c) : c[m] = [policy |-> p, type |-> "CHARGE"]
          BY <1>c, <4>3
        <5> QED BY <5>1, <2>4
      <4> QED BY <4>2, <4>3
    <3> QED BY <3>1, <1>k DEF Released, Charged
  <2>6. Fits(s, x, ledger', attempts', jobs', assets')
    BY <2>1, <2>3, <2>5, <1>f, <1>r, <1>k DEF Fits, HasReserved, HasAttempt
  <2>7. Kept(s)
    BY <2>1, NothingWritten
  <2>8. Working(x)
    BY <2>3 DEF Working
  <2> HIDE DEF x
  <2> QED BY <2>2, <2>6, <2>7, <2>8, WorksOn
<1>2. CASE ~(i > Len(c))
  <2> DEFINE x == [exec[s][e] EXCEPT !.i = @ + 1]
             p == c[i].policy
             t == c[i].type
  <2>1. /\ ledger' = [ledger EXCEPT ![p][k] = @ \cup {t}]
        /\ exec' = [exec EXCEPT ![s][e].i = @ + 1]
    BY <1>2 DEF WriteEntry
  <2>2. Becomes(s, e, x)
    <3>1. x \in Execution
      BY <1>x DEF Execution
    <3>2. exec' = [exec EXCEPT ![s][e] = x]
      BY <2>1 DEF SInv, IInv, Typed
    <3> QED BY <3>1, <3>2, Replaced DEF SInv, IInv
  <2>3. /\ x.at = exec[s][e].at /\ x.outcome = o /\ x.n = exec[s][e].n
        /\ x.seen = exec[s][e].seen /\ x.i = i + 1
    BY <1>x DEF Execution
  <2>4. i = 0 \/ i \in 1..Len(c)
    BY <1>2, <1>x, <1>c
  <2>5. i \in 1..Len(c)
    BY <2>4, <1>f, <1>x DEF Fits
  <2>6. p \in PoliciesOf(s) /\ p \in Policies /\ t \in EntryTypes
        /\ (t = "CHARGE" => o = "SUCCEEDED")
    BY <2>5, <1>c, PoliciesOfShot DEF EntryTypes
  <2>7. t = "CHARGE" => jobs[k] = "CLIP"
    BY <2>6, <1>f, <1>k DEF Fits, Delivered
  <2>8. /\ ledger' \in [Policies -> [Keys -> SUBSET EntryTypes]]
        /\ \A q \in Policies, l \in Keys :
             ledger'[q][l] = IF q = p /\ l = k THEN ledger[q][l] \cup {t} ELSE ledger[q][l]
    BY <2>1, <2>6, <1>l, <1>k
  <2>9. Kept(s)
    <3>1. ASSUME NEW q \in Policies, "CHARGE" \in ledger'[q][k]
          PROVE  jobs[k] = "CLIP"
      <4>1. "CHARGE" \in ledger[q][k] => jobs[k] = "CLIP"
        BY <1>k DEF SInv, LedgerFits
      <4>2. "CHARGE" \in ledger[q][k] \/ t = "CHARGE"
        <5>1. ledger'[q][k] = IF q = p THEN ledger[q][k] \cup {t} ELSE ledger[q][k]
          BY <2>8, <1>k
        <5> QED BY <5>1, <3>1
      <4> QED BY <4>1, <4>2, <2>7
    <3>2. Reserved(k, ledger')
      BY <2>8, <1>r, <1>k, PoliciesOfShot DEF Reserved
    <3>3. \A q \in Policies, l \in Keys : l # k => ledger'[q][l] = ledger[q][l]
      BY <2>8
    <3>4. /\ \A q \in Policies : ledger[q][k] \subseteq ledger'[q][k]
          /\ \A q \in Policies \ PoliciesOf(s) : ledger'[q][k] = ledger[q][k]
      BY <2>6, <2>8, <1>k
    <3> QED BY <3>1, <3>2, <3>3, <3>4, <2>8, <1>k, EntriesWritten
  <2>10. Written(s, k, o, i + 1, ledger')
    <3> SUFFICES ASSUME NEW j \in 1..Len(c), j < i + 1
                 PROVE  c[j].type \in ledger'[c[j].policy][k]
      BY <1>c DEF Written
    <3>1. c[j].policy \in Policies
      BY <1>c, PoliciesOfShot
    <3>2. CASE j = i
      BY <3>2, <3>1, <2>8, <1>k
    <3>3. CASE j < i
      BY <3>3, <3>1, <2>8, <1>k, <1>c, <1>w DEF Written
    <3> QED BY <3>2, <3>3, <1>x
  <2>11. Fits(s, x, ledger', attempts', jobs', assets')
    <3>1. Reserved(k, ledger')
      BY <2>9, <1>r, <1>k, SettledStays DEF Kept
    <3> QED BY <3>1, <2>3, <2>10, <1>f, <1>k, <1>x DEF Fits, HasReserved, HasAttempt
  <2>12. Working(x)
    BY <2>3 DEF Working
  <2> HIDE DEF x
  <2> QED BY <2>2, <2>9, <2>11, <2>12, WorksOn
<1> QED BY <1>1, <1>2

\* What fitted before the database was written fits after.
LEMMA StillFits ==
  ASSUME SInv, NEW s \in Shots, NEW e \in 1..Slots, Working(exec[s][e]), Kept(s)
  PROVE  /\ Fits(s, exec[s][e], ledger', attempts', jobs', assets')
         /\ KeyOf(s, e) \in Keys /\ KeyOf(s, e)[1] = s /\ KeyOf(s, e) = <<s, exec[s][e].n>>
         /\ exec[s][e].at \in HasReserved => Reserved(KeyOf(s, e), ledger')
         /\ exec[s][e].at \in HasAttempt => attempts'[KeyOf(s, e)].status # "NONE"
         /\ exec[s][e].seen <= Cardinality(Recorded(s, attempts'))
<1>1. Fits(s, exec[s][e], ledger, attempts, jobs, assets)
  BY DEF SInv, ExecutionsFit
<1>2. Fits(s, exec[s][e], ledger', attempts', jobs', assets')
  BY <1>1, ExecutionTyped, FitsStays DEF Kept, GrowsOn, SInv
<1>3. KeyOf(s, e) \in Keys /\ KeyOf(s, e) = <<s, exec[s][e].n>>
  BY KeyOfInKeys DEF SInv, KeyOf
<1> QED BY <1>2, <1>3 DEF Fits

\* An execution goes to a step of its activity whose conditions hold,
LEMMA MovesOn ==
  ASSUME SInv, IInv', NEW s \in Shots, NEW e \in 1..Slots, Working(exec[s][e]),
         NEW step \in (HasReserved \cup HasAttempt) \ {"UNDO", "FAIL", "CLOSE", "WRITE"},
         GoTo(s, e, step), UNCHANGED <<shots, live, failed>>, Kept(s),
         step \in HasReserved => Reserved(KeyOf(s, e), ledger'),
         step \in HasAttempt \cup {"COUNT"} => attempts'[KeyOf(s, e)].status # "NONE",
         step \in {"ASK", "NOTE"} => attempts'[KeyOf(s, e)].job,
         step \in {"REGISTER", "INGEST", "LINK"} => jobs'[KeyOf(s, e)] = "CLIP",
         step = "COUNT" => exec[s][e].seen < Cardinality(Recorded(s, attempts'))
  PROVE  SInv'
<1> DEFINE x == [exec[s][e] EXCEPT !.at = step]
<1>1. step \in Steps /\ Working(x)
  <2>1. exec[s][e] \in Execution
    BY ExecutionTyped DEF SInv
  <2> QED BY <2>1 DEF HasReserved, HasAttempt, Steps, Working, Execution
<1>2. Becomes(s, e, x)
  BY <1>1, GoneTo DEF SInv, IInv
<1>3. x.at = step /\ x.n = exec[s][e].n /\ x.seen = exec[s][e].seen
  BY ExecutionTyped DEF Execution, SInv
<1>4. Fits(s, x, ledger', attempts', jobs', assets')
  BY <1>3, StillFits DEF Fits, HasReserved, HasAttempt
<1> HIDE DEF x
<1> QED BY <1>1, <1>2, <1>4, WorksOn

\* begins to close its attempt,
LEMMA ClosesOn ==
  ASSUME SInv, IInv', NEW s \in Shots, NEW e \in 1..Slots, Working(exec[s][e]),
         NEW o \in Ends, CloseWith(s, e, o), UNCHANGED <<shots, live, failed>>, Kept(s),
         exec[s][e].at \in HasAttempt,
         o = "SUCCEEDED" => Delivered(KeyOf(s, e), jobs', assets')
  PROVE  SInv'
<1> DEFINE x == [exec[s][e] EXCEPT !.at = "CLOSE", !.outcome = o, !.i = 1]
<1>1. Becomes(s, e, x)
  BY ClosingWith DEF SInv, IInv, Ends, Outcomes
<1>2. /\ x.at = "CLOSE" /\ x.outcome = o /\ x.i = 1
      /\ x.n = exec[s][e].n /\ x.seen = exec[s][e].seen
  BY ExecutionTyped DEF Execution, SInv
<1>3. Written(s, KeyOf(s, e), o, 1, ledger')
  BY ClosingEntries DEF Written
<1>4. Fits(s, x, ledger', attempts', jobs', assets')
  BY <1>2, <1>3, StillFits DEF Fits, HasReserved, HasAttempt
<1>5. Working(x)
  BY <1>2 DEF Working
<1> HIDE DEF x
<1> QED BY <1>1, <1>4, <1>5, WorksOn

\* or gives its dispatch up.
LEMMA UndoesOn ==
  ASSUME SInv, IInv', NEW s \in Shots, NEW e \in 1..Slots, Working(exec[s][e]),
         Undo(s, e), UNCHANGED <<shots, live, failed>>, Kept(s),
         exec[s][e].at \in HasReserved
  PROVE  SInv'
<1> DEFINE x == [exec[s][e] EXCEPT !.at = "UNDO", !.outcome = "ERROR", !.i = 1]
<1>1. Becomes(s, e, x)
  BY Undone DEF SInv, IInv
<1>2. /\ x.at = "UNDO" /\ x.outcome = "ERROR" /\ x.i = 1
      /\ x.n = exec[s][e].n /\ x.seen = exec[s][e].seen
  BY ExecutionTyped DEF Execution, SInv
<1>3. Written(s, KeyOf(s, e), "ERROR", 1, ledger')
  BY ClosingEntries DEF Written
<1>4. Fits(s, x, ledger', attempts', jobs', assets')
  BY <1>2, <1>3, StillFits DEF Fits, HasReserved, HasAttempt
<1>5. Working(x)
  BY <1>2 DEF Working
<1> HIDE DEF x
<1> QED BY <1>1, <1>4, <1>5, WorksOn

\* The attempts of a shot are counted, no more of them than are on record.
LEMMA CountWritten ==
  ASSUME SInv, NEW s \in Shots, NEW m \in Nat, m <= Cardinality(Recorded(s, attempts)),
         attemptCount' = [attemptCount EXCEPT ![s] = m],
         UNCHANGED <<ledger, attempts, assets, jobs, shots>>
  PROVE  Kept(s)
<1>1. GrowsOn
  BY DEF GrowsOn, Grows
<1>2. LedgerFits'
  BY DEF SInv, LedgerFits
<1>3. \A r \in Shots : attemptCount'[r] <= Cardinality(Recorded(r, attempts))
  BY DEF SInv, RowsFit, IInv, Typed
<1>4. RowsFit'
  BY <1>3 DEF SInv, RowsFit
<1> QED BY <1>1, <1>2, <1>4 DEF Kept

\* A finite set counts more with one more in it.
LEMMA OneMore ==
  ASSUME NEW S, IsFiniteSet(S), NEW x, x \notin S
  PROVE  Cardinality(S) < Cardinality(S \cup {x})
<1>1. Cardinality(S) \in Nat
  BY FS_CardinalityType
<1>2. Cardinality(S \cup {x}) = IF x \in S THEN Cardinality(S) ELSE Cardinality(S) + 1
  BY FS_AddElement
<1> QED BY <1>1, <1>2

\* The row that is inserted is one more on record.
LEMMA RowRecorded ==
  ASSUME SInv, NEW s \in Shots, NEW n \in 1..MaxAttempts,
         attempts[<<s, n>>].status = "NONE",
         attempts' = [attempts EXCEPT ![<<s, n>>] = [status |-> "SUBMITTED", job |-> TRUE]]
  PROVE  Cardinality(Recorded(s, attempts)) < Cardinality(Recorded(s, attempts'))
<1>1. <<s, n>> \in Keys /\ ~attempts[<<s, n>>].job
  BY DEF SInv, RowsFit, Keys
<1>2. attempts \in [Keys -> [status : Statuses, job : BOOLEAN]]
  BY DEF SInv, IInv, Typed
<1>3. \A m \in 1..MaxAttempts : attempts'[<<s, m>>].job <=> m = n \/ attempts[<<s, m>>].job
  <2> SUFFICES ASSUME NEW m \in 1..MaxAttempts
               PROVE  attempts'[<<s, m>>].job <=> m = n \/ attempts[<<s, m>>].job
    OBVIOUS
  <2>1. <<s, m>> \in Keys
    BY DEF Keys
  <2>2. CASE m = n
    BY <2>1, <2>2, <1>2
  <2>3. CASE m # n
    <3>1. <<s, m>> # <<s, n>>
      BY <2>3
    <3> QED BY <2>1, <2>3, <3>1, <1>2
  <2> QED BY <2>2, <2>3
<1>4. Recorded(s, attempts') = Recorded(s, attempts) \cup {n}
  BY <1>3 DEF Recorded
<1>5. n \notin Recorded(s, attempts)
  BY <1>1 DEF Recorded
<1>6. IsFiniteSet(Recorded(s, attempts))
  <2>1. IsFiniteSet(1..MaxAttempts) /\ Recorded(s, attempts) \subseteq 1..MaxAttempts
    BY FS_Interval, ConstantsNat DEF Recorded
  <2> QED BY <2>1, FS_Subset
<1>7. Cardinality(Recorded(s, attempts)) < Cardinality(Recorded(s, attempts) \cup {n})
  BY <1>5, <1>6, OneMore
<1> QED BY <1>4, <1>7

\* The reservation of an attempt: at every scope, and nothing yet if one refuses.
LEMMA ReserveSettles ==
  ASSUME SInv, IInv', NEW s \in Shots, NEW e \in 1..Slots, Working(exec[s][e]), Reserve(s, e)
  PROVE  SInv'
<1> DEFINE k == KeyOf(s, e)
           new == {p \in PoliciesOf(s) : "RESERVATION" \notin ledger[p][k]}
<1>k. k \in Keys /\ k[1] = s /\ k[2] <= shots[s].n /\ (live[s] = e => k = Current(s))
  <2>1. exec[s][e].n \in 1..shots[s].n /\ k \in Keys /\ (live[s] = e => exec[s][e].n = shots[s].n)
    BY KeyOfInKeys DEF SInv
  <2> QED BY <2>1 DEF KeyOf, Current
<1>l. ledger \in [Policies -> [Keys -> SUBSET EntryTypes]]
  BY DEF SInv, LedgerFits
<1>0. UNCHANGED <<attempts, attemptCount, assets, jobs, shots, live, failed>>
  BY DEF Reserve, provider, workflow
<1>1. CASE /\ ledger' = [p \in Policies |->
                           IF p \in new THEN [ledger[p] EXCEPT ![k] = @ \cup {"RESERVATION"}]
                                        ELSE ledger[p]]
           /\ GoTo(s, e, "SUBMIT")
  <2>1. \A p \in Policies, l \in Keys :
          ledger'[p][l] = IF p \in new /\ l = k THEN ledger[p][l] \cup {"RESERVATION"}
                                                ELSE ledger[p][l]
    BY <1>1, <1>l, <1>k
  <2>2. ledger' \in [Policies -> [Keys -> SUBSET EntryTypes]]
    <3>1. ASSUME NEW p \in Policies
          PROVE  (IF p \in new THEN [ledger[p] EXCEPT ![k] = @ \cup {"RESERVATION"}]
                               ELSE ledger[p]) \in [Keys -> SUBSET EntryTypes]
      <4>1. ledger[p] \in [Keys -> SUBSET EntryTypes] /\ "RESERVATION" \in EntryTypes
        BY <1>l DEF EntryTypes
      <4>2. [ledger[p] EXCEPT ![k] = @ \cup {"RESERVATION"}] \in [Keys -> SUBSET EntryTypes]
        BY <4>1, <1>k
      <4> QED BY <4>1, <4>2
    <3> HIDE DEF new
    <3> QED BY <1>1, <3>1
  <2>3. Reserved(k, ledger')
    <3> SUFFICES ASSUME NEW p \in PoliciesOf(s)
                 PROVE  "RESERVATION" \in ledger'[p][k]
      BY <1>k DEF Reserved
    <3>1. p \in Policies
      BY PoliciesOfShot
    <3> QED BY <3>1, <2>1, <1>k
  <2>4. ASSUME NEW p \in Policies, "CHARGE" \in ledger'[p][k]
        PROVE  jobs[k] = "CLIP"
    <3>1. "CHARGE" \in ledger[p][k]
      <4>1. ledger'[p][k] \in {ledger[p][k], ledger[p][k] \cup {"RESERVATION"}}
        BY <2>1, <1>k
      <4> QED BY <4>1, <2>4
    <3> QED BY <3>1, <1>k DEF SInv, LedgerFits
  <2>5. \A p \in Policies, l \in Keys : l # k => ledger'[p][l] = ledger[p][l]
    BY <2>1
  <2>6. /\ \A p \in Policies : ledger[p][k] \subseteq ledger'[p][k]
        /\ \A p \in Policies \ PoliciesOf(s) : ledger'[p][k] = ledger[p][k]
    BY <2>1, <1>k
  <2>7. Kept(s)
    BY <2>2, <2>3, <2>4, <2>5, <2>6, <1>0, <1>k, EntriesWritten
  <2> QED BY <1>1, <1>0, <2>3, <2>7, MovesOn DEF HasReserved, HasAttempt
<1>2. CASE /\ \E p \in new : ~HasRoom(p)
           /\ Answer(s, e, "REFUSED")
           /\ UNCHANGED ledger
  <2>1. PICK p \in PoliciesOf(s) : "RESERVATION" \notin ledger[p][k]
    BY <1>2
  <2>2. ~Reserved(k, ledger)
    BY <2>1, <1>k DEF Reserved
  <2>3. \A q \in Policies : ledger[q][k] = {}
    BY <2>2, <1>k DEF SInv, LedgerFits
  <2>4. Unreserved(k, ledger')
    BY <2>3, <1>2 DEF Unreserved
  <2>5. Kept(s)
    BY <1>0, <1>2, NothingWritten
  <2>6. AnswerFits(k, "REFUSED", ledger', attempts')
    BY DEF AnswerFits, Ends
  <2>7. "REFUSED" \in Outcomes
    BY DEF Outcomes
  <2> QED BY <1>0, <1>2, <2>4, <2>5, <2>6, <2>7, AnswersOn
<1> QED BY <1>1, <1>2 DEF Reserve

\* Every step of a dispatch keeps the settlement's invariant.
LEMMA DispatchSettles ==
  ASSUME SInv, IInv', NEW s \in Shots, NEW e \in 1..Slots, Dispatch(s, e)
  PROVE  SInv'
<1> DEFINE k == KeyOf(s, e)
<1>0. Working(exec[s][e])
  BY DEF Dispatch, OpenJob, Reserve, Submit, SubmitThrows, FindAttempt, InsertAttempt,
         CountAttempt, WriteThrows, ReleaseAlreadyReserved, FailAttempt, At, Working
<1>k. k \in Keys /\ k[1] = s /\ k = <<s, exec[s][e].n>> /\ exec[s][e].n \in 1..MaxAttempts
  BY <1>0, KeyOfInKeys DEF SInv, KeyOf
<1>t. /\ exec[s][e] \in Execution
      /\ attemptCount \in [Shots -> Nat] /\ jobs \in [Keys -> JobStatuses]
      /\ attempts \in [Keys -> [status : Statuses, job : BOOLEAN]]
  BY DEF SInv, IInv, Typed
<1>f. Fits(s, exec[s][e], ledger, attempts, jobs, assets)
  BY DEF SInv, ExecutionsFit
<1>r. exec[s][e].at \in HasReserved => Reserved(k, ledger)
  BY <1>f, <1>k DEF Fits
<1>j. ASSUME Reserved(k, ledger),
             jobs' = [jobs EXCEPT ![k] = IF @ = "NONE" THEN "RUNNING" ELSE @],
             UNCHANGED <<ledger, attempts, attemptCount, assets, shots>>
      PROVE  Kept(s)
  <2>1. jobs' = [jobs EXCEPT ![k] = IF jobs[k] = "NONE" THEN "RUNNING" ELSE jobs[k]]
    BY <1>j
  <2> QED BY <2>1, <1>j, <1>k, JobWritten
<1>1. CASE OpenJob(s, e)
  <2> DEFINE x == [exec[s][e] EXCEPT !.at = "RESERVE", !.seen = attemptCount[s]]
  <2>1. x \in Execution /\ x.at = "RESERVE" /\ x.n = exec[s][e].n /\ x.seen = attemptCount[s]
    BY <1>t DEF Execution, Steps
  <2>2. exec' = [exec EXCEPT ![s][e] = x]
    BY <1>1 DEF OpenJob, SInv, IInv, Typed
  <2>3. Becomes(s, e, x)
    BY <2>1, <2>2, Replaced DEF SInv, IInv
  <2>4. UNCHANGED <<ledger, attempts, attemptCount, assets, jobs, shots, live, failed>>
    BY <1>1 DEF OpenJob, db, provider, workflow
  <2>5. Kept(s)
    BY <2>4, NothingWritten
  <2>6. attemptCount[s] <= Cardinality(Recorded(s, attempts'))
    BY <2>4 DEF SInv, RowsFit
  <2>7. Fits(s, x, ledger', attempts', jobs', assets')
    BY <2>1, <2>6 DEF Fits, HasReserved, HasAttempt
  <2>8. Working(x)
    BY <2>1 DEF Working
  <2> HIDE DEF x
  <2> QED BY <1>0, <2>3, <2>4, <2>5, <2>7, <2>8, WorksOn
<1>2. CASE Reserve(s, e)
  BY <1>0, <1>2, ReserveSettles
<1>3. CASE Submit(s, e)
  <2>1. /\ UNCHANGED <<ledger, attempts, attemptCount, assets, shots, live, failed>>
        /\ GoTo(s, e, "FIND") /\ exec[s][e].at = "SUBMIT"
        /\ jobs' = [jobs EXCEPT ![k] = IF @ = "NONE" THEN "RUNNING" ELSE @]
    BY <1>3 DEF Submit, db, workflow, At
  <2>2. Reserved(k, ledger)
    BY <2>1, <1>r DEF HasReserved
  <2>3. Kept(s)
    BY <2>1, <2>2, <1>j
  <2> QED BY <2>1, <2>2, <2>3, <1>0, MovesOn DEF HasReserved, HasAttempt
<1>4. CASE SubmitThrows(s, e)
  <2>1. /\ UNCHANGED <<ledger, attempts, attemptCount, assets, shots, live, failed>>
        /\ Undo(s, e) /\ exec[s][e].at = "SUBMIT"
        /\ \/ jobs' = jobs
           \/ jobs' = [jobs EXCEPT ![k] = IF @ = "NONE" THEN "RUNNING" ELSE @]
    BY <1>4 DEF SubmitThrows, db, workflow, At
  <2>2. Reserved(k, ledger)
    BY <2>1, <1>r DEF HasReserved
  <2>3. Kept(s)
    BY <2>1, <2>2, <1>j, NothingWritten
  <2> QED BY <2>1, <2>3, <1>0, UndoesOn DEF HasReserved
<1>5. CASE FindAttempt(s, e)
  <2>1. /\ UNCHANGED <<ledger, attempts, attemptCount, assets, jobs, shots, live, failed>>
        /\ exec[s][e].at = "FIND"
    BY <1>5 DEF FindAttempt, db, provider, workflow, At
  <2>2. Reserved(k, ledger') /\ Kept(s)
    BY <2>1, <1>r, NothingWritten DEF HasReserved
  <2>3. CASE GoTo(s, e, "INSERT")
    BY <2>1, <2>2, <2>3, <1>0, MovesOn DEF HasReserved, HasAttempt
  <2>4. CASE attempts[k].status # "NONE" /\ Answer(s, e, "OK")
    <3>1. AnswerFits(k, "OK", ledger', attempts') /\ "OK" \in Outcomes
      BY <2>1, <2>4 DEF AnswerFits, Ends, Outcomes
    <3> QED BY <2>1, <2>2, <2>4, <3>1, <1>0, AnswersOn
  <2> QED BY <1>5, <2>3, <2>4 DEF FindAttempt
<1>6. CASE InsertAttempt(s, e)
  <2>1. /\ UNCHANGED <<ledger, attemptCount, assets, jobs, shots, live, failed>>
        /\ exec[s][e].at = "INSERT"
    BY <1>6 DEF InsertAttempt, provider, workflow, At
  <2>2. Reserved(k, ledger)
    BY <2>1, <1>r DEF HasReserved
  <2>3. CASE /\ attempts[k].status = "NONE"
             /\ attempts' = [attempts EXCEPT ![k] = [status |-> "SUBMITTED", job |-> TRUE]]
             /\ GoTo(s, e, "COUNT")
    <3> DEFINE a == [status |-> "SUBMITTED", job |-> TRUE]
    <3>1. /\ a \in [status : AttemptStatuses, job : BOOLEAN] /\ a.status = "SUBMITTED"
          /\ a.job = TRUE /\ a.status \notin Ends /\ a.status # "NONE"
      BY DEF Statuses, AttemptStatuses, Ends
    <3>2. attempts' = [attempts EXCEPT ![k] = a]
      BY <2>3
    <3>3. Kept(s)
      <4> HIDE DEF a
      <4> QED BY <2>1, <2>2, <3>1, <3>2, <1>k, RowWritten
    <3>4. Cardinality(Recorded(s, attempts)) < Cardinality(Recorded(s, attempts'))
      BY <2>3, <1>k, RowRecorded
    <3>5. exec[s][e].seen < Cardinality(Recorded(s, attempts'))
      <4>1. exec[s][e].seen <= Cardinality(Recorded(s, attempts)) /\ exec[s][e].seen \in Nat
        BY <1>f, <1>t DEF Fits, Execution
      <4>2. /\ Cardinality(Recorded(s, attempts)) \in 0..MaxAttempts
            /\ Cardinality(Recorded(s, attempts')) \in 0..MaxAttempts
        <5>1. \A l \in Keys : attempts[l].job => attempts'[l].job
          BY <3>3 DEF Kept, GrowsOn, Grows
        <5> QED BY <5>1, RecordedCount
      <4> QED BY <3>4, <4>1, <4>2, ConstantsNat
    <3>6. attempts'[k].status = "SUBMITTED" /\ Reserved(k, ledger')
      BY <2>1, <2>2, <3>1, <3>2, <1>k, <1>t
    <3> QED BY <2>1, <2>3, <3>3, <3>5, <3>6, <1>0, MovesOn DEF HasReserved, HasAttempt
  <2>4. CASE attempts' = attempts /\ Undo(s, e)
    <3>1. Kept(s)
      BY <2>1, <2>4, NothingWritten
    <3> QED BY <2>1, <2>4, <3>1, <1>0, UndoesOn DEF HasReserved
  <2> QED BY <1>6, <2>3, <2>4 DEF InsertAttempt
<1>7. CASE CountAttempt(s, e)
  <2>1. /\ UNCHANGED <<ledger, attempts, assets, jobs, shots, live, failed>>
        /\ exec[s][e].at = "COUNT" /\ Answer(s, e, "OK")
        /\ attemptCount' = [attemptCount EXCEPT ![s] = exec[s][e].seen + 1]
    BY <1>7 DEF CountAttempt, provider, workflow, At
  <2>2. exec[s][e].seen \in Nat /\ exec[s][e].seen < Cardinality(Recorded(s, attempts))
    BY <2>1, <1>f, <1>t DEF Fits, Execution
  <2>3. Cardinality(Recorded(s, attempts)) \in 0..MaxAttempts
    BY RecordedCount
  <2>4. exec[s][e].seen + 1 \in Nat /\ exec[s][e].seen + 1 <= Cardinality(Recorded(s, attempts))
    BY <2>2, <2>3, ConstantsNat
  <2>5. Kept(s)
    BY <2>1, <2>4, CountWritten
  <2>6. attempts[k].status # "NONE"
    BY <2>1, <1>f, <1>k DEF Fits
  <2>7. AnswerFits(k, "OK", ledger', attempts') /\ "OK" \in Outcomes
    BY <2>1, <2>6 DEF AnswerFits, Ends, Outcomes
  <2> QED BY <2>1, <2>5, <2>7, <1>0, AnswersOn
<1>8. CASE WriteThrows(s, e)
  <2>1. /\ UNCHANGED <<ledger, attempts, attemptCount, assets, jobs, shots, live, failed>>
        /\ Undo(s, e) /\ exec[s][e].at \in HasReserved
    BY <1>8 DEF WriteThrows, db, provider, workflow, HasReserved
  <2>2. Kept(s)
    BY <2>1, NothingWritten
  <2> QED BY <2>1, <2>2, <1>0, UndoesOn
<1>9. CASE ReleaseAlreadyReserved(s, e)
  <2>1. /\ UNCHANGED <<attempts, attemptCount, assets, jobs, shots, live, failed>>
        /\ WriteEntry(s, e, "FAIL") /\ exec[s][e].at = "UNDO"
    BY <1>9 DEF ReleaseAlreadyReserved, provider, workflow, At
  <2> QED BY <2>1, <1>0, EntrySettles
<1>10. CASE FailAttempt(s, e)
  <2>1. /\ UNCHANGED <<ledger, attemptCount, assets, jobs, shots, live, failed>>
        /\ Answer(s, e, "ERROR") /\ exec[s][e].at = "FAIL"
        /\ attempts' = [attempts EXCEPT ![k] =
             IF @ = NoAttempt THEN [status |-> "FAILED", job |-> FALSE] ELSE @]
    BY <1>10 DEF FailAttempt, provider, workflow, At
  <2>2. Settled(k, ledger)
    BY <2>1, <1>f, <1>k DEF Fits, HasReserved, Settled
  <2>3. Kept(s)
    <3>1. CASE attempts[k] = NoAttempt
      <4> DEFINE a == [status |-> "FAILED", job |-> FALSE]
      <4>1. /\ a \in [status : AttemptStatuses, job : BOOLEAN] /\ a.status = "FAILED"
            /\ a.job = FALSE
        BY DEF Statuses, AttemptStatuses
      <4>2. attempts' = [attempts EXCEPT ![k] = a] /\ ~attempts[k].job
        BY <2>1, <3>1 DEF NoAttempt
      <4> HIDE DEF a
      <4> QED BY <2>1, <2>2, <4>1, <4>2, <1>k, RowWritten DEF Settled
    <3>2. CASE attempts[k] # NoAttempt
      <4>1. attempts' = attempts
        BY <2>1, <3>2, <1>t
      <4> QED BY <4>1, <2>1, NothingWritten
    <3> QED BY <3>1, <3>2
  <2>4. AnswerFits(k, "ERROR", ledger', attempts') /\ "ERROR" \in Outcomes
    BY <2>1, <2>2 DEF AnswerFits, Outcomes
  <2> QED BY <2>1, <2>3, <2>4, <1>0, AnswersOn
<1> QED BY <1>1, <1>2, <1>3, <1>4, <1>5, <1>6, <1>7, <1>8, <1>9, <1>10 DEF Dispatch

\* Every step of a poll keeps it: the row says an end after the entries do.
LEMMA PollSettles ==
  ASSUME SInv, IInv', NEW s \in Shots, NEW e \in 1..Slots, Poll(s, e)
  PROVE  SInv'
<1> DEFINE k == KeyOf(s, e)
<1>0. Working(exec[s][e])
  BY DEF Poll, ReadAttempt, AskProvider, NoteRunning, CreateCandidate, CreateAsset,
         LinkAsset, releaseOrChargeAcrossLevels, WriteOutcome, At, Working
<1>k. k \in Keys /\ k[1] = s /\ k = <<s, exec[s][e].n>>
  BY <1>0, KeyOfInKeys DEF SInv, KeyOf
<1>t. /\ exec[s][e] \in Execution /\ jobs \in [Keys -> JobStatuses]
      /\ attempts \in [Keys -> [status : Statuses, job : BOOLEAN]]
      /\ assets \in [Keys -> {"NONE", "CANDIDATE", "STORED", "LINKED"}]
  BY DEF SInv, IInv, Typed, RowsFit
<1>f. Fits(s, exec[s][e], ledger, attempts, jobs, assets)
  BY DEF SInv, ExecutionsFit
<1>w. /\ attempts[k].status \in AttemptStatuses
      /\ attempts[k].status = "SUBMITTED" => attempts[k].job
      /\ attempts[k].status # "NONE" => Reserved(k, ledger)
      /\ attempts[k].status \in Ends => Released(k, ledger)
  BY <1>k DEF SInv, RowsFit
<1>a. exec[s][e].at \in HasAttempt => attempts[k].status # "NONE"
  BY <1>f, <1>k DEF Fits
<1>1. CASE ReadAttempt(s, e)
  <2>1. /\ UNCHANGED <<ledger, attempts, attemptCount, assets, jobs, shots, live, failed>>
        /\ exec[s][e].at = "POLL"
    BY <1>1 DEF ReadAttempt, db, provider, workflow, At
  <2>2. Kept(s) /\ attempts[k].status # "NONE"
    BY <2>1, <1>a, NothingWritten DEF HasAttempt
  <2>3. attempts[k].status # "SUBMITTED" => attempts[k].status \in Ends /\ Settled(k, ledger)
    BY <2>2, <1>w DEF AttemptStatuses, Ends, Settled
  <2>4. CASE ~attempts[k].job /\ Answer(s, e, "NOT_FOUND")
    <3>1. AnswerFits(k, "NOT_FOUND", ledger', attempts') /\ "NOT_FOUND" \in Outcomes
      BY <2>1, <2>3, <2>4, <1>w DEF AnswerFits, Outcomes
    <3> QED BY <2>1, <2>2, <2>4, <3>1, <1>0, AnswersOn
  <2>5. CASE attempts[k].job /\ GoTo(s, e, "ASK")
    BY <2>1, <2>2, <2>5, <1>0, MovesOn DEF HasReserved, HasAttempt
  <2>6. CASE attempts[k].status # "SUBMITTED" /\ Answer(s, e, attempts[k].status)
    <3> DEFINE o == attempts[k].status
    <3>1. AnswerFits(k, o, ledger', attempts') /\ o \in Outcomes /\ o # "REFUSED"
      BY <2>1, <2>2, <2>3, <2>6 DEF AnswerFits, Outcomes, Ends
    <3> HIDE DEF o
    <3> QED BY <2>1, <2>2, <2>6, <3>1, <1>0, AnswersOn DEF o
  <2> QED BY <1>1, <2>4, <2>5, <2>6 DEF ReadAttempt
<1>2. CASE AskProvider(s, e)
  <2>1. /\ UNCHANGED <<ledger, attempts, attemptCount, assets, jobs, shots, live, failed>>
        /\ exec[s][e].at = "ASK"
    BY <1>2 DEF AskProvider, db, provider, workflow, At
  <2>2. Kept(s) /\ attempts[k].status # "NONE" /\ attempts[k].job
    BY <2>1, <1>a, <1>f, <1>k, NothingWritten DEF HasAttempt, Fits
  <2>3. CASE GoTo(s, e, "NOTE")
    BY <2>1, <2>2, <2>3, <1>0, MovesOn DEF HasReserved, HasAttempt
  <2>4. CASE jobs[k] = "CLIP" /\ GoTo(s, e, "REGISTER")
    BY <2>1, <2>2, <2>4, <1>0, MovesOn DEF HasReserved, HasAttempt
  <2>5. CASE CloseWith(s, e, "FAILED")
    BY <2>1, <2>2, <2>5, <1>0, ClosesOn DEF Ends, HasAttempt
  <2>6. CASE CloseWith(s, e, "CANCELLED")
    BY <2>1, <2>2, <2>6, <1>0, ClosesOn DEF Ends, HasAttempt
  <2> QED BY <1>2, <2>3, <2>4, <2>5, <2>6 DEF AskProvider
<1>3. CASE NoteRunning(s, e)
  <2>1. /\ UNCHANGED <<ledger, attemptCount, assets, jobs, shots, live, failed>>
        /\ exec[s][e].at = "NOTE" /\ Answer(s, e, "RUNNING")
        /\ attempts' = [attempts EXCEPT ![k].status = "SUBMITTED"]
    BY <1>3 DEF NoteRunning, provider, workflow, At
  <2> DEFINE a == [attempts[k] EXCEPT !.status = "SUBMITTED"]
  <2>2. attempts[k].status # "NONE" /\ attempts[k].job
    BY <2>1, <1>a, <1>f, <1>k DEF HasAttempt, Fits
  <2>3. /\ a \in [status : AttemptStatuses, job : BOOLEAN] /\ a.status = "SUBMITTED"
        /\ a.job = attempts[k].job
    BY <1>t, <1>k DEF AttemptStatuses
  <2>4. attempts' = [attempts EXCEPT ![k] = a]
    BY <2>1
  <2>5. Kept(s)
    <3>1. a.status # "NONE" /\ a.status \notin Ends /\ a.status # "SUCCEEDED"
      BY <2>3 DEF Ends
    <3> HIDE DEF a
    <3> QED BY <2>1, <2>2, <2>3, <2>4, <3>1, <1>k, <1>w, RowWritten
  <2>6. attempts'[k].status # "NONE"
    BY <2>3, <2>4, <1>k, <1>t
  <2>7. AnswerFits(k, "RUNNING", ledger', attempts') /\ "RUNNING" \in Outcomes
    BY <2>6 DEF AnswerFits, Ends, Outcomes
  <2> QED BY <2>1, <2>5, <2>7, <1>0, AnswersOn
<1>4. CASE CreateCandidate(s, e)
  <2>1. /\ UNCHANGED <<ledger, attempts, attemptCount, jobs, shots, live, failed>>
        /\ exec[s][e].at = "REGISTER" /\ GoTo(s, e, "INGEST")
        /\ assets' = [assets EXCEPT ![k] = IF @ = "NONE" THEN "CANDIDATE" ELSE @]
    BY <1>4 DEF CreateCandidate, provider, workflow, At
  <2> DEFINE v == IF assets[k] = "NONE" THEN "CANDIDATE" ELSE assets[k]
  <2>2. v \in {"CANDIDATE", "STORED", "LINKED"} /\ (assets[k] = "LINKED" => v = "LINKED")
    BY <1>t, <1>k
  <2>3. assets' = [assets EXCEPT ![k] = v]
    BY <2>1
  <2>4. Kept(s)
    <3> HIDE DEF v
    <3> QED BY <2>1, <2>2, <2>3, <1>k, AssetWritten
  <2>5. jobs[k] = "CLIP" /\ attempts[k].status # "NONE"
    BY <2>1, <1>f, <1>a, <1>k DEF Fits, HasAttempt
  <2> QED BY <2>1, <2>4, <2>5, <1>0, MovesOn DEF HasReserved, HasAttempt
<1>5. CASE CreateAsset(s, e)
  <2>1. /\ UNCHANGED <<ledger, attempts, attemptCount, jobs, shots, failed>>
        /\ exec[s][e].at = "INGEST"
    BY <1>5 DEF CreateAsset, provider, workflow, At
  <2>2. jobs[k] = "CLIP" /\ attempts[k].status # "NONE"
    BY <2>1, <1>f, <1>a, <1>k DEF Fits, HasAttempt
  <2>3. CASE /\ assets[k] = "CANDIDATE" /\ assets' = [assets EXCEPT ![k] = "STORED"]
             /\ GoTo(s, e, "LINK") /\ UNCHANGED live
    <3>1. Kept(s)
      BY <2>1, <2>3, <1>k, AssetWritten
    <3> QED BY <2>1, <2>2, <2>3, <3>1, <1>0, MovesOn DEF HasReserved, HasAttempt
  <2>4. CASE Lose(s, e) /\ UNCHANGED assets
    <3>1. Kept(s)
      BY <2>1, <2>4, NothingWritten
    <3> QED BY <2>1, <2>4, <3>1, <1>0, LosesOn
  <2> QED BY <1>5, <2>3, <2>4 DEF CreateAsset
<1>6. CASE LinkAsset(s, e)
  <2>1. /\ UNCHANGED <<ledger, attempts, attemptCount, jobs, shots, live, failed>>
        /\ exec[s][e].at = "LINK" /\ CloseWith(s, e, "SUCCEEDED")
        /\ assets' = [assets EXCEPT ![k] = "LINKED"]
    BY <1>6 DEF LinkAsset, provider, workflow, At
  <2>2. Kept(s)
    BY <2>1, <1>k, AssetWritten
  <2>3. jobs[k] = "CLIP"
    BY <2>1, <1>f, <1>k DEF Fits
  <2>4. Delivered(k, jobs', assets')
    BY <2>1, <2>3, <1>k, <1>t DEF Delivered
  <2> QED BY <2>1, <2>2, <2>4, <1>0, ClosesOn DEF Ends, HasAttempt
<1>7. CASE releaseOrChargeAcrossLevels(s, e)
  <2>1. /\ UNCHANGED <<attempts, attemptCount, assets, jobs, shots, live, failed>>
        /\ WriteEntry(s, e, "WRITE") /\ exec[s][e].at = "CLOSE"
    BY <1>7 DEF releaseOrChargeAcrossLevels, provider, workflow, At
  <2> QED BY <2>1, <1>0, EntrySettles
<1>8. CASE WriteOutcome(s, e)
  <2> DEFINE o == exec[s][e].outcome
             a == [attempts[k] EXCEPT !.status = o]
  <2>1. /\ UNCHANGED <<ledger, attemptCount, assets, jobs, shots, live, failed>>
        /\ exec[s][e].at = "WRITE" /\ Answer(s, e, o)
        /\ attempts' = [attempts EXCEPT ![k].status = o]
    BY <1>8 DEF WriteOutcome, provider, workflow, At
  <2>2. /\ o \in Ends /\ Released(k, ledger) /\ Reserved(k, ledger)
        /\ o = "SUCCEEDED" => Delivered(k, jobs, assets) /\ Charged(k, ledger)
    BY <2>1, <1>f, <1>a, <1>k, <1>w DEF Fits, HasAttempt
  <2>3. /\ a \in [status : AttemptStatuses, job : BOOLEAN] /\ a.status = o
        /\ a.job = attempts[k].job
    BY <2>2, <1>t, <1>k DEF AttemptStatuses, Ends
  <2>4. attempts' = [attempts EXCEPT ![k] = a]
    BY <2>1
  <2>5. Kept(s)
    <3>1. a.status # "NONE" /\ a.status # "SUBMITTED" /\ a.status \in Ends
      BY <2>2, <2>3 DEF Ends
    <3> HIDE DEF a, o
    <3> QED BY <2>1, <2>2, <2>3, <2>4, <3>1, <1>k, RowWritten
  <2>6. AnswerFits(k, o, ledger', attempts') /\ o \in Outcomes /\ o # "REFUSED"
    BY <2>1, <2>2 DEF AnswerFits, Ends, Outcomes, Settled
  <2> HIDE DEF o
  <2> QED BY <2>1, <2>5, <2>6, <1>0, AnswersOn
<1> QED BY <1>1, <1>2, <1>3, <1>4, <1>5, <1>6, <1>7, <1>8 DEF Poll

\* Every step of a cancellation keeps it: an attempt it leaves alone is settled.
LEMMA CancelSettles ==
  ASSUME SInv, IInv', NEW s \in Shots, NEW e \in 1..Slots, Cancel(s, e)
  PROVE  SInv'
<1> DEFINE k == KeyOf(s, e)
<1>0. Working(exec[s][e])
  BY DEF Cancel, ReadForCancel, CancelJob, At, Working
<1>k. k \in Keys /\ k[1] = s /\ k = <<s, exec[s][e].n>>
  BY <1>0, KeyOfInKeys DEF SInv, KeyOf
<1>f. Fits(s, exec[s][e], ledger, attempts, jobs, assets)
  BY DEF SInv, ExecutionsFit
<1>w. /\ attempts[k].status \in AttemptStatuses
      /\ attempts[k].status # "NONE" => Reserved(k, ledger)
      /\ attempts[k].status \in Ends => Released(k, ledger)
  BY <1>k DEF SInv, RowsFit
<1>a. exec[s][e].at \in HasAttempt => attempts[k].status # "NONE"
  BY <1>f, <1>k DEF Fits
<1>1. CASE ReadForCancel(s, e)
  <2>1. /\ UNCHANGED <<ledger, attempts, attemptCount, assets, jobs, shots, live, failed>>
        /\ exec[s][e].at = "CANCEL"
    BY <1>1 DEF ReadForCancel, db, provider, workflow, At
  <2>2. Kept(s) /\ attempts[k].status # "NONE"
    BY <2>1, <1>a, NothingWritten DEF HasAttempt
  <2>3. CASE GoTo(s, e, "KILL")
    BY <2>1, <2>2, <2>3, <1>0, MovesOn DEF HasReserved, HasAttempt
  <2>4. CASE attempts[k].status # "SUBMITTED" /\ Answer(s, e, "CANCELLED")
    <3>1. Settled(k, ledger)
      BY <2>2, <2>4, <1>w DEF AttemptStatuses, Ends, Settled
    <3>2. AnswerFits(k, "CANCELLED", ledger', attempts') /\ "CANCELLED" \in Outcomes
      BY <2>1, <3>1 DEF AnswerFits, Outcomes
    <3> QED BY <2>1, <2>2, <2>4, <3>2, <1>0, AnswersOn
  <2> QED BY <1>1, <2>3, <2>4 DEF ReadForCancel
<1>2. CASE CancelJob(s, e)
  <2>1. /\ UNCHANGED <<ledger, attempts, attemptCount, assets, shots, live, failed>>
        /\ exec[s][e].at = "KILL" /\ CloseWith(s, e, "CANCELLED")
        /\ jobs' = [jobs EXCEPT ![k] = IF @ = "RUNNING" THEN "CANCELLED" ELSE @]
    BY <1>2 DEF CancelJob, db, workflow, At
  <2>2. Reserved(k, ledger)
    BY <2>1, <1>a, <1>w DEF HasAttempt
  <2> DEFINE v == IF jobs[k] = "RUNNING" THEN "CANCELLED" ELSE jobs[k]
  <2>3. jobs' = [jobs EXCEPT ![k] = v] /\ (jobs[k] = "CLIP" => v = "CLIP")
    BY <2>1
  <2>4. Kept(s)
    <3> HIDE DEF v
    <3> QED BY <2>1, <2>2, <2>3, <1>k, JobWritten
  <2> QED BY <2>1, <2>4, <1>0, ClosesOn DEF Ends, HasAttempt
<1> QED BY <1>1, <1>2 DEF Cancel

\* The database, the jobs and the executions stay while the workflow moves.
LEMMA RestStays ==
  ASSUME SInv, UNCHANGED <<ledger, attempts, attemptCount, assets, jobs>>,
         \A r \in Shots : shots'[r].n \in Nat /\ shots[r].n <= shots'[r].n
  PROVE  LedgerFits' /\ RowsFit'
<1>1. RowsFit'
  BY DEF SInv, RowsFit
<1>2. LedgerFits'
  <2> SUFFICES ASSUME NEW p \in Policies, NEW k \in Keys, ledger[p][k] # {}
               PROVE  k[2] <= shots'[k[1]].n
    BY DEF SInv, LedgerFits
  <2>1. k[1] \in Shots /\ k[2] \in 1..MaxAttempts
    BY DEF Keys
  <2>2. k[2] <= shots[k[1]].n
    BY DEF SInv, LedgerFits
  <2>3. shots[k[1]].n \in 0..MaxAttempts
    BY <2>1 DEF SInv, IInv, Typed
  <2> QED BY <2>1, <2>2, <2>3, ConstantsNat
<1> QED BY <1>1, <1>2

\* What an answer leads to: the next attempt follows an end only.
LEMMA PlaceOfAnswer ==
  ASSUME NEW o \in Outcomes \ {"NONE"}, NEW n \in Nat
  PROVE  /\ PlaceAfter(o, n) \in {"POLL", "CANCEL", "SLEEP"} => o \in {"OK", "RUNNING"}
         /\ PlaceAfter(o, n) \in {"TOP", "SUCCEEDED", "RETRY_EXHAUSTED", "CANCELLED"} =>
              o \in Ends \cup {"NOT_FOUND"}
         /\ PlaceAfter(o, n) = "FAILED" => o \in Ends \cup {"ERROR", "NOT_FOUND", "REFUSED"}
         /\ PlaceAfter(o, n) # "DISPATCH"
<1>1. CASE o \in {"OK", "RUNNING"}
  <2>1. PlaceAfter(o, n) = IF o = "OK" THEN AfterOk ELSE "SLEEP"
    BY <1>1 DEF PlaceAfter, Retried
  <2>2. AfterOk \in {"CANCEL", "POLL"}
    BY DEF AfterOk
  <2> QED BY <1>1, <2>1, <2>2
<1>2. CASE o \in {"REFUSED", "ERROR", "SUCCEEDED", "CANCELLED"}
  BY <1>2 DEF PlaceAfter, Ends, Retried
<1>3. CASE o \in {"FAILED", "NOT_FOUND"}
  BY <1>3, ConstantsNat DEF PlaceAfter, Ends, Retried
<1> QED BY <1>1, <1>2, <1>3 DEF Outcomes

\* A step of runShotToTerminal keeps it: an attempt is left when it is settled.
LEMMA RunShotSettles ==
  ASSUME SInv, IInv', NEW s \in Shots, RunShot(s)
  PROVE  SInv'
<1>0. UNCHANGED <<ledger, attempts, attemptCount, assets, jobs>>
  BY DEF RunShot, BeginAttempt, GiveUp, TakeAnswer, Wake, db, provider
<1>t. /\ shots \in [Shots -> [place : Places, n : 0..MaxAttempts, tries : Nat]]
      /\ shots[s].n \in Nat /\ live \in [Shots -> 0..Slots]
  BY ConstantsNat DEF SInv, IInv, Typed
<1>p. /\ shots[s].place \in {"POLL", "CANCEL", "SLEEP"} => attempts[Current(s)].status # "NONE"
      /\ \A n \in 1..MaxAttempts : n < shots[s].n => Settled(<<s, n>>, ledger)
      /\ shots[s].place \in {"TOP", "SUCCEEDED", "RETRY_EXHAUSTED", "CANCELLED"} =>
           shots[s].n = 0 \/ Settled(Current(s), ledger)
      /\ Alone => \A e \in 1..Slots : Working(exec[s][e]) => live[s] = e
  BY DEF SInv, PlacesFit
<1>1. CASE BeginAttempt(s) /\ ~cancelled
  <2>1. /\ UNCHANGED <<live, exec, failed>> /\ shots[s].place = "TOP"
        /\ shots' = [shots EXCEPT ![s] = [place |-> "DISPATCH", n |-> shots[s].n + 1, tries |-> 0]]
    BY <1>1, <1>t DEF BeginAttempt
  <2>2. live[s] = 0
    BY <2>1 DEF SInv, IInv, TriesOfAttempts
  <2>3. /\ shots'[s].place = "DISPATCH" /\ shots'[s].n = shots[s].n + 1
        /\ \A r \in Shots : r # s => shots'[r] = shots[r] /\ Current(r)' = Current(r)
    BY <2>1, <1>t DEF Current
  <2>4. \A r \in Shots : shots'[r].n \in Nat /\ shots[r].n <= shots'[r].n
    BY <2>3, <1>t
  <2>5. LedgerFits' /\ RowsFit'
    BY <1>0, <2>4, RestStays
  <2>6. ExecutionsFit'
    BY <1>0, <2>1 DEF SInv, ExecutionsFit
  <2>7. AnswersFit'
    <3> SUFFICES ASSUME NEW r \in Shots, NEW f \in 1..Slots, exec[r][f].at = "ANSWERED", live[r] = f
                 PROVE  /\ AnswerFits(Current(r)', exec[r][f].outcome, ledger, attempts)
                        /\ exec[r][f].outcome = "REFUSED" => (Alone => Unreserved(Current(r)', ledger))
      BY <1>0, <2>1 DEF AnswersFit, At, Alone
    <3>1. r # s
      BY <2>2
    <3> QED BY <2>3, <3>1 DEF SInv, AnswersFit, At
  <2>8. PlacesFit'
    <3> SUFFICES ASSUME NEW r \in Shots
                 PROVE
           /\ shots'[r].place \in {"POLL", "CANCEL", "SLEEP"} => attempts[Current(r)'].status # "NONE"
           /\ \A n \in 1..MaxAttempts : n < shots'[r].n => Settled(<<r, n>>, ledger)
           /\ shots'[r].place \in {"TOP", "SUCCEEDED", "RETRY_EXHAUSTED", "CANCELLED"} =>
                shots'[r].n = 0 \/ Settled(Current(r)', ledger)
           /\ shots'[r].place = "FAILED" =>
                /\ shots'[r].n > 0
                /\ Settled(Current(r)', ledger) \/ (Alone => Unreserved(Current(r)', ledger))
           /\ Alone => \A e \in 1..Slots : Working(exec[r][e]) => live[r] = e
      BY <1>0, <2>1 DEF PlacesFit, Alone
    <3>1. CASE r # s
      BY <3>1, <2>3 DEF SInv, PlacesFit
    <3>2. CASE r = s
      <4>1. ASSUME NEW n \in 1..MaxAttempts, n < shots[s].n + 1
            PROVE  Settled(<<s, n>>, ledger)
        <5>1. n < shots[s].n \/ n = shots[s].n
          BY <4>1, <1>t
        <5> QED BY <5>1, <1>p, <2>1 DEF Current
      <4> QED BY <3>2, <4>1, <2>3, <1>p
    <3> QED BY <3>1, <3>2
  <2> QED BY <2>5, <2>6, <2>7, <2>8 DEF SInv
<1>2. CASE GiveUp(s)
  <2>1. UNCHANGED <<shots, exec>> /\ failed' = TRUE /\ live' = [r \in Shots |-> 0]
    BY <1>2 DEF GiveUp
  <2>2. ~Alone'
    BY <2>1 DEF Alone
  <2>3. LedgerFits' /\ RowsFit'
    BY <1>0, <1>t, <2>1, RestStays
  <2>4. ExecutionsFit'
    BY <1>0, <2>1 DEF SInv, ExecutionsFit
  <2>5. AnswersFit'
    <3>1. \A r \in Shots, e \in 1..Slots : live'[r] # e
      BY <2>1, ConstantsNat
    <3> QED BY <3>1 DEF AnswersFit
  <2>6. \A r \in Shots : Current(r)' = Current(r)
    BY <2>1 DEF Current
  <2>7. PlacesFit'
    BY <1>0, <2>1, <2>2, <2>6 DEF SInv, PlacesFit
  <2> QED BY <2>3, <2>4, <2>5, <2>7 DEF SInv
<1>3. ASSUME NEW place \in Places, Move(s, place), UNCHANGED <<failed>>,
             NEW z \in {exec[s], [exec[s] EXCEPT ![live[s]] = Idle]},
             exec' = [exec EXCEPT ![s] = z],
             \/ z = exec[s] /\ live[s] = 0
             \/ live[s] # 0 /\ z = [exec[s] EXCEPT ![live[s]] = Idle],
             live' = [live EXCEPT ![s] = 0],
             place # "DISPATCH",
             place \in {"POLL", "CANCEL", "SLEEP"} => attempts[Current(s)].status # "NONE",
             place \in {"TOP", "SUCCEEDED", "RETRY_EXHAUSTED", "CANCELLED"} =>
               shots[s].n = 0 \/ Settled(Current(s), ledger),
             place = "FAILED" =>
               /\ shots[s].n > 0
               /\ Settled(Current(s), ledger) \/ (Alone => Unreserved(Current(s), ledger))
      PROVE  SInv'
  <2>1. /\ shots'[s] = [place |-> place, n |-> shots[s].n, tries |-> 0]
        /\ \A r \in Shots : r # s => shots'[r] = shots[r]
        /\ \A r \in Shots : shots'[r].n = shots[r].n /\ Current(r)' = Current(r)
    BY <1>3, <1>t DEF Move, Current
  <2>2. LedgerFits' /\ RowsFit'
    BY <1>0, <1>t, <2>1, RestStays
  <2>3. exec \in [Shots -> [1..Slots -> Execution]]
    BY DEF SInv, IInv, Typed
  <2>4. \A r \in Shots, f \in 1..Slots :
          \/ exec'[r][f] = exec[r][f] /\ (r = s => f # live[s])
          \/ r = s /\ f = live[s] /\ exec'[r][f] = Idle
    <3>1. exec'[s] = z /\ \A r \in Shots : r # s => exec'[r] = exec[r]
      BY <1>3, <2>3
    <3>2. ASSUME NEW f \in 1..Slots
          PROVE  \/ z[f] = exec[s][f] /\ f # live[s]
                 \/ f = live[s] /\ z[f] = Idle
      <4>1. CASE z = exec[s] /\ live[s] = 0
        BY <4>1, ConstantsNat
      <4>2. CASE live[s] # 0 /\ z = [exec[s] EXCEPT ![live[s]] = Idle]
        BY <4>2, <2>3
      <4> QED BY <4>1, <4>2, <1>3
    <3> QED BY <3>1, <3>2
  <2>5. live'[s] = 0 /\ \A r \in Shots : r # s => live'[r] = live[r]
    BY <1>3, <1>t
  <2>6. ExecutionsFit'
    <3> SUFFICES ASSUME NEW r \in Shots, NEW f \in 1..Slots
                 PROVE  Fits(r, exec'[r][f], ledger, attempts, jobs, assets)
      BY <1>0 DEF ExecutionsFit
    <3>1. ~Working(Idle) /\ Idle.seen = 0
      BY DEF Idle, Working
    <3> QED BY <2>4, <3>1, RestFits DEF SInv, ExecutionsFit
  <2>7. AnswersFit'
    <3> SUFFICES ASSUME NEW r \in Shots, NEW f \in 1..Slots, exec'[r][f].at = "ANSWERED", live'[r] = f
                 PROVE  /\ AnswerFits(Current(r), exec'[r][f].outcome, ledger, attempts)
                        /\ exec'[r][f].outcome = "REFUSED" => (Alone => Unreserved(Current(r), ledger))
      BY <1>0, <1>3, <2>1 DEF AnswersFit, At, Alone
    <3>1. r # s /\ live[r] = f
      BY <2>5
    <3>2. exec'[r][f] = exec[r][f]
      BY <3>1, <2>4
    <3> QED BY <3>1, <3>2 DEF SInv, AnswersFit, At
  <2>8. PlacesFit'
    <3> SUFFICES ASSUME NEW r \in Shots
                 PROVE
           /\ shots'[r].place \in {"POLL", "CANCEL", "SLEEP"} => attempts[Current(r)].status # "NONE"
           /\ \A n \in 1..MaxAttempts : n < shots[r].n => Settled(<<r, n>>, ledger)
           /\ shots'[r].place \in {"TOP", "SUCCEEDED", "RETRY_EXHAUSTED", "CANCELLED"} =>
                shots[r].n = 0 \/ Settled(Current(r), ledger)
           /\ shots'[r].place = "FAILED" =>
                /\ shots[r].n > 0
                /\ Settled(Current(r), ledger) \/ (Alone => Unreserved(Current(r), ledger))
           /\ Alone => \A e \in 1..Slots : Working(exec'[r][e]) => live'[r] = e
      BY <1>0, <1>3, <2>1 DEF PlacesFit, Alone
    <3>1. ASSUME Alone, NEW e \in 1..Slots, Working(exec'[r][e])
          PROVE  live'[r] = e
      <4>1. exec'[r][e] = exec[r][e] /\ (r = s => e # live[s])
        BY <3>1, <2>4 DEF Idle, Working
      <4>2. live[r] = e
        BY <3>1, <4>1 DEF SInv, PlacesFit
      <4> QED BY <4>1, <4>2, <2>5
    <3>2. CASE r # s
      BY <3>1, <3>2, <2>1 DEF SInv, PlacesFit
    <3>3. CASE r = s
      BY <3>1, <3>3, <2>1, <1>3, <1>p
    <3> QED BY <3>2, <3>3
  <2> QED BY <2>2, <2>6, <2>7, <2>8 DEF SInv
<1>4. CASE (BeginAttempt(s) /\ cancelled) \/ Wake(s)
  <2>1. PICK place \in {"POLL", "CANCEL", "CANCELLED"} :
          /\ UNCHANGED <<live, exec, failed>> /\ Move(s, place)
          /\ \/ shots[s].place = "TOP" /\ place = "CANCELLED"
             \/ shots[s].place = "SLEEP" /\ place \in {"POLL", "CANCEL"}
    BY <1>4 DEF BeginAttempt, Wake, AfterOk
  <2>2. live[s] = 0
    BY <2>1 DEF SInv, IInv, TriesOfAttempts
  <2>3. live' = [live EXCEPT ![s] = 0] /\ exec' = [exec EXCEPT ![s] = exec[s]]
    BY <2>1, <2>2, <1>t DEF SInv, IInv, Typed
  <2>4. /\ place \in Places /\ place # "DISPATCH"
        /\ place \in {"POLL", "CANCEL", "SLEEP"} => attempts[Current(s)].status # "NONE"
        /\ place \in {"TOP", "SUCCEEDED", "RETRY_EXHAUSTED", "CANCELLED"} =>
             shots[s].n = 0 \/ Settled(Current(s), ledger)
        /\ place # "FAILED"
    BY <2>1, <1>p DEF Places
  <2> QED BY <2>1, <2>2, <2>3, <2>4, <1>3
<1>5. CASE TakeAnswer(s)
  <2> DEFINE e == live[s]
             o == exec[s][e].outcome
             place == PlaceAfter(o, shots[s].n)
  <2>1. /\ UNCHANGED failed /\ e \in 1..Slots /\ exec[s][e].at = "ANSWERED"
        /\ Move(s, place) /\ Lose(s, e)
    BY <1>5, <1>t DEF TakeAnswer, At
  <2>2. live' = [live EXCEPT ![s] = 0]
    BY <2>1, <1>t DEF Lose
  <2>3. exec' = [exec EXCEPT ![s] = [exec[s] EXCEPT ![e] = Idle]]
    BY <2>1 DEF Lose
  <2>4. /\ AnswerFits(Current(s), o, ledger, attempts)
        /\ o = "REFUSED" => (Alone => Unreserved(Current(s), ledger))
    BY <2>1 DEF SInv, AnswersFit, At
  <2>5. o \in Outcomes \ {"NONE"}
    <3>1. exec[s][e] \in Execution
      BY <2>1, ExecutionTyped DEF SInv
    <3> QED BY <3>1, <2>4 DEF Execution, AnswerFits
  <2>6. place \in Places
    BY DEF PlaceAfter, AfterOk, Retried, Places
  <2>7. shots[s].n > 0
    BY <2>1, CurrentInKeys DEF SInv
  <2>8. /\ place # "DISPATCH"
        /\ place \in {"POLL", "CANCEL", "SLEEP"} => attempts[Current(s)].status # "NONE"
        /\ place \in {"TOP", "SUCCEEDED", "RETRY_EXHAUSTED", "CANCELLED"} =>
             shots[s].n = 0 \/ Settled(Current(s), ledger)
        /\ place = "FAILED" =>
             /\ shots[s].n > 0
             /\ Settled(Current(s), ledger) \/ (Alone => Unreserved(Current(s), ledger))
    <3> HIDE DEF o
    <3>1. /\ PlaceAfter(o, shots[s].n) \in {"POLL", "CANCEL", "SLEEP"} => o \in {"OK", "RUNNING"}
          /\ PlaceAfter(o, shots[s].n) \in {"TOP", "SUCCEEDED", "RETRY_EXHAUSTED", "CANCELLED"} =>
               o \in Ends \cup {"NOT_FOUND"}
          /\ PlaceAfter(o, shots[s].n) = "FAILED" => o \in Ends \cup {"ERROR", "NOT_FOUND", "REFUSED"}
          /\ PlaceAfter(o, shots[s].n) # "DISPATCH"
      BY <2>5, <1>t, PlaceOfAnswer
    <3> QED BY <3>1, <2>4, <2>7 DEF AnswerFits
  <2> HIDE DEF place, o
  <2> QED BY <2>1, <2>2, <2>3, <2>6, <2>8, <1>3
<1> QED BY <1>1, <1>2, <1>4, <1>5 DEF RunShot

\* A try that is started finds its attempt as the workflow left it.
LEMMA StartTrySettles ==
  ASSUME SInv, IInv', NEW s \in Shots, NEW e \in 1..Slots, StartTry(s, e)
  PROVE  SInv'
<1> DEFINE x == [Idle EXCEPT !.at = FirstStep[shots[s].place], !.n = shots[s].n]
<1>t. /\ shots \in [Shots -> [place : Places, n : 0..MaxAttempts, tries : Nat]]
      /\ live \in [Shots -> 0..Slots] /\ exec \in [Shots -> [1..Slots -> Execution]]
      /\ \A r \in Shots : shots[r].n \in Nat
  BY ConstantsNat DEF SInv, IInv, Typed
<1>1. /\ UNCHANGED <<ledger, attempts, attemptCount, assets, jobs, failed>>
      /\ shots[s].place \in {"DISPATCH", "POLL", "CANCEL"} /\ live[s] = 0
      /\ exec[s][e].at = "IDLE"
      /\ shots' = [shots EXCEPT ![s].tries = @ + 1]
      /\ live' = [live EXCEPT ![s] = e]
      /\ exec' = [exec EXCEPT ![s][e] = x]
  BY DEF StartTry, FirstStep, db, provider, At
<1>2. /\ x.at = "OPEN" \/ (x.at \in {"POLL", "CANCEL"} /\ shots[s].place \in {"POLL", "CANCEL"})
      /\ x.n = shots[s].n /\ x.seen = 0
  BY <1>1 DEF FirstStep, Idle
<1>3. /\ exec'[s][e] = x
      /\ \A r \in Shots, f \in 1..Slots : r # s \/ f # e => exec'[r][f] = exec[r][f]
  BY <1>1, <1>t
<1> HIDE DEF x
<1>4. \A r \in Shots : /\ shots'[r].n = shots[r].n /\ shots'[r].place = shots[r].place
                       /\ Current(r)' = Current(r)
  BY <1>1, <1>t DEF Current
<1>5. live'[s] = e /\ \A r \in Shots : r # s => live'[r] = live[r]
  BY <1>1, <1>t
<1>6. LedgerFits' /\ RowsFit'
  BY <1>1, <1>4, <1>t, RestStays
<1>7. Fits(s, x, ledger, attempts, jobs, assets)
  <2>1. Cardinality(Recorded(s, attempts)) \in Nat
    BY RecordedCount
  <2>2. x.at \in {"POLL", "CANCEL"} => attempts[<<s, x.n>>].status # "NONE"
    BY <1>2 DEF SInv, PlacesFit, Current
  <2> QED BY <1>2, <2>1, <2>2 DEF Fits, HasReserved, HasAttempt
<1>8. ExecutionsFit'
  <2> SUFFICES ASSUME NEW r \in Shots, NEW f \in 1..Slots
               PROVE  Fits(r, exec'[r][f], ledger, attempts, jobs, assets)
    BY <1>1 DEF ExecutionsFit
  <2> QED BY <1>3, <1>7 DEF SInv, ExecutionsFit
<1>9. AnswersFit'
  <2> SUFFICES ASSUME NEW r \in Shots, NEW f \in 1..Slots, exec'[r][f].at = "ANSWERED", live'[r] = f
               PROVE  /\ AnswerFits(Current(r), exec'[r][f].outcome, ledger, attempts)
                      /\ exec'[r][f].outcome = "REFUSED" => (Alone => Unreserved(Current(r), ledger))
    BY <1>1, <1>4 DEF AnswersFit, At, Alone
  <2>1. r # s
    BY <1>2, <1>3, <1>5
  <2> QED BY <2>1, <1>3, <1>5 DEF SInv, AnswersFit, At
<1>10. PlacesFit'
  <2>1. ASSUME NEW r \in Shots, Alone, NEW f \in 1..Slots, Working(exec'[r][f])
        PROVE  live'[r] = f
    <3>1. CASE r = s
      <4>1. f = e
        BY <2>1, ConstantsNat DEF Alone
      <4> QED BY <4>1, <3>1, <1>5
    <3>2. CASE r # s
      BY <2>1, <3>2, <1>3, <1>5 DEF SInv, PlacesFit
    <3> QED BY <3>1, <3>2
  <2> QED BY <2>1, <1>1, <1>4 DEF SInv, PlacesFit, Alone
<1> QED BY <1>6, <1>8, <1>9, <1>10 DEF SInv

\* A try that is given up overlaps the next: it was not alone.
LEMMA TimeOutSettles ==
  ASSUME SInv, NEW s \in Shots, TimeOut(s), IInv'
  PROVE  SInv'
<1>1. /\ UNCHANGED <<ledger, attempts, attemptCount, assets, jobs, shots, exec, failed>>
      /\ live' = [live EXCEPT ![s] = 0] /\ live[s] # 0 /\ Busy(s, live[s])
      /\ \E e \in 1..Slots : exec[s][e].at = "IDLE"
  BY DEF TimeOut, db, provider, workflow, At
<1>2. ~Alone
  BY <1>1 DEF Alone, Busy, SInv, IInv, Typed
<1>3. \A r \in Shots : live'[r] \in {live[r], 0} /\ Current(r)' = Current(r)
  BY <1>1 DEF Current, SInv, IInv, Typed
<1>4. LedgerFits' /\ RowsFit' /\ ExecutionsFit'
  BY <1>1 DEF SInv, LedgerFits, RowsFit, ExecutionsFit
<1>5. AnswersFit'
  <2> SUFFICES ASSUME NEW r \in Shots, NEW f \in 1..Slots, exec[r][f].at = "ANSWERED", live'[r] = f
               PROVE  /\ AnswerFits(Current(r), exec[r][f].outcome, ledger, attempts)
                      /\ exec[r][f].outcome = "REFUSED" => (Alone => Unreserved(Current(r), ledger))
    BY <1>1, <1>3 DEF AnswersFit, At, Alone
  <2>1. live[r] = f
    BY <1>3, ConstantsNat
  <2> QED BY <2>1 DEF SInv, AnswersFit, At
<1>6. PlacesFit'
  BY <1>1, <1>2, <1>3 DEF SInv, PlacesFit, Alone
<1> QED BY <1>4, <1>5, <1>6, <1>1 DEF SInv

\* A job ends: what was reserved for it stays, and a delivered one is not running.
LEMMA FinishJobSettles ==
  ASSUME SInv, IInv', NEW k \in Keys, FinishJob(k)
  PROVE  SInv'
<1>1. /\ UNCHANGED <<ledger, attempts, attemptCount, assets, shots, live, exec, failed>>
      /\ jobs[k] = "RUNNING"
  BY DEF FinishJob, db, workflow
<1>2. PICK j \in {"CLIP", "BROKEN", "FAILED"} : jobs' = [jobs EXCEPT ![k] = j]
  BY DEF FinishJob
<1>3. Kept(k[1])
  <2>1. k[1] \in Shots
    BY DEF Keys
  <2>2. Reserved(k, ledger)
    BY <1>1 DEF SInv, RowsFit
  <2> QED BY <1>1, <1>2, <2>1, <2>2, JobWritten
<1>4. ExecutionsFit'
  <2> SUFFICES ASSUME NEW r \in Shots, NEW f \in 1..Slots
               PROVE  Fits(r, exec[r][f], ledger', attempts', jobs', assets')
    BY <1>1 DEF ExecutionsFit
  <2>1. Fits(r, exec[r][f], ledger, attempts, jobs, assets)
    BY DEF SInv, ExecutionsFit
  <2> QED BY <2>1, <1>3, ExecutionTyped, FitsStays DEF Kept, GrowsOn, SInv
<1>5. AnswersFit'
  BY <1>1 DEF SInv, AnswersFit, At, Alone, Current
<1>6. PlacesFit'
  BY <1>1 DEF SInv, PlacesFit, Alone, Current
<1> QED BY <1>3, <1>4, <1>5, <1>6 DEF SInv, Kept

\* The settlement's invariant holds before the first attempt.
LEMMA InitSettles ==
  ASSUME Init
  PROVE  SInv
<1>0. IInv
  BY InitIInv
<1>1. \A p \in Policies, k \in Keys : ledger[p][k] = {}
  BY DEF Init
<1>2. LedgerFits
  <2>1. ledger \in [Policies -> [Keys -> SUBSET EntryTypes]]
    BY DEF Init
  <2> QED BY <1>1, <2>1 DEF LedgerFits
<1>3. RowsFit
  <2>1. assets \in [Keys -> {"NONE", "CANDIDATE", "STORED", "LINKED"}]
    BY DEF Init
  <2>2. \A k \in Keys : attempts[k].status = "NONE" /\ attempts[k].job = FALSE /\ jobs[k] = "NONE"
    BY DEF Init, NoAttempt
  <2>3. \A s \in Shots : attemptCount[s] = 0 /\ Cardinality(Recorded(s, attempts)) \in Nat
    BY RecordedCount DEF Init
  <2>4. \A s \in Shots : attemptCount[s] <= Cardinality(Recorded(s, attempts))
    BY <2>3
  <2> QED BY <2>1, <2>2, <2>4 DEF RowsFit, AttemptStatuses, Ends
<1>4. ExecutionsFit
  <2>1. ~Working(Idle) /\ Idle.seen = 0
    BY DEF Idle, Working
  <2>2. \A s \in Shots, e \in 1..Slots : exec[s][e] = Idle
    BY DEF Init
  <2> QED BY <2>1, <2>2, RestFits DEF ExecutionsFit
<1>5. AnswersFit
  BY DEF Init, AnswersFit, At, Idle
<1>6. PlacesFit
  <2> SUFFICES ASSUME NEW s \in Shots
               PROVE
         /\ shots[s].place = "TOP" /\ shots[s].n = 0
         /\ \A e \in 1..Slots : ~Working(exec[s][e])
    BY DEF PlacesFit
  <2> QED BY DEF Init, Idle, Working
<1> QED BY <1>0, <1>2, <1>3, <1>4, <1>5, <1>6 DEF SInv

\* Every step keeps it.
LEMMA NextSettles ==
  ASSUME SInv, [Next]_vars
  PROVE  SInv'
<1>0. IInv'
  BY NextIInv DEF SInv
<1>1. ASSUME NEW s \in Shots, RunShot(s) \/ TimeOut(s)
      PROVE  SInv'
  BY <1>0, <1>1, RunShotSettles, TimeOutSettles
<1>2. ASSUME NEW s \in Shots, NEW e \in 1..Slots, StartTry(s, e) \/ Execute(s, e) \/ Crash(s, e)
      PROVE  SInv'
  <2>1. CASE Crash(s, e)
    <3>1. /\ UNCHANGED <<ledger, attempts, attemptCount, assets, jobs, shots, failed>>
          /\ Working(exec[s][e]) /\ Lose(s, e)
      BY <2>1 DEF Crash, Busy, Working, db, provider, workflow
    <3>2. Kept(s)
      BY <3>1, NothingWritten
    <3> QED BY <1>0, <3>1, <3>2, LosesOn
  <2> QED BY <1>0, <1>2, <2>1, StartTrySettles, DispatchSettles, PollSettles, CancelSettles DEF Execute
<1>3. ASSUME NEW k \in Keys, FinishJob(k)
      PROVE  SInv'
  BY <1>0, <1>3, FinishJobSettles
<1>4. CASE CancelSignal \/ UNCHANGED vars
  <2>1. UNCHANGED <<ledger, attempts, attemptCount, assets, jobs, shots, live, exec, failed>>
    BY <1>4 DEF CancelSignal, vars, db, provider, workflow
  <2>2. LedgerFits' /\ RowsFit' /\ ExecutionsFit'
    BY <2>1 DEF SInv, LedgerFits, RowsFit, ExecutionsFit
  <2>3. AnswersFit' /\ PlacesFit'
    BY <2>1 DEF SInv, AnswersFit, PlacesFit, At, Alone, Current
  <2> QED BY <1>0, <2>2, <2>3 DEF SInv
<1>5. CASE \E s \in Shots : RunShot(s) \/ TimeOut(s)
  BY <1>5, <1>1
<1>6. CASE \E s \in Shots, e \in 1..Slots : StartTry(s, e) \/ Execute(s, e) \/ Crash(s, e)
  BY <1>6, <1>2
<1>7. CASE \E k \in Keys : FinishJob(k)
  BY <1>7, <1>3
<1> QED BY <1>4, <1>5, <1>6, <1>7 DEF Next

\* What is written about an attempt, at the ledger, on its row, by its executions and
\* in the answer the workflow waits for, agrees: in every state that is reached.
THEOREM SettlementHolds == Spec => []SInv
<1>1. Init => SInv
  BY InitSettles
<1>2. SInv /\ [Next]_vars => SInv'
  BY NextSettles
<1> QED BY <1>1, <1>2, PTL DEF Spec

\* A success was delivered and registered, and nets to its cost at every scope
\* (poll-shot-generation-activity.ts).
THEOREM SettledAtCostIsKept == Spec => []SettledAtCost
<1>1. SInv => SettledAtCost
  <2> SUFFICES ASSUME SInv, NEW s \in Shots, NEW n \in 1..MaxAttempts,
                      attempts[<<s, n>>].status = "SUCCEEDED"
               PROVE  /\ jobs[<<s, n>>] = "CLIP" /\ assets[<<s, n>>] = "LINKED"
                      /\ \A p \in PoliciesOf(s) : ledger[p][<<s, n>>] = EntryTypes
    BY DEF SettledAtCost
  <2> DEFINE k == <<s, n>>
  <2>1. k \in Keys /\ k[1] = s
    BY DEF Keys
  <2>2. Reserved(k, ledger) /\ Released(k, ledger) /\ Charged(k, ledger) /\ Delivered(k, jobs, assets)
    BY <2>1 DEF SInv, RowsFit, Ends
  <2>3. ASSUME NEW p \in PoliciesOf(s)
        PROVE  ledger[p][k] = EntryTypes
    <3>1. ledger[p][k] \in SUBSET EntryTypes
      BY <2>1, PoliciesOfShot DEF SInv, LedgerFits
    <3>2. {"RESERVATION", "RELEASE", "CHARGE"} \subseteq ledger[p][k]
      BY <2>1, <2>2 DEF Reserved, Released, Charged
    <3> QED BY <3>1, <3>2 DEF EntryTypes
  <2> QED BY <2>2, <2>3 DEF Delivered
<1> QED BY <1>1, SettlementHolds, PTL

\* Nothing is charged but a delivered clip, and at most one of a shot's attempts
\* delivers one (release-or-charge, dispatch-shot-generation-activity.ts).
THEOREM PaidOnceIsKept == Spec => []PaidOnce
<1>1. SInv => PaidOnce
  <2> SUFFICES ASSUME SInv, NEW p \in Policies
               PROVE  /\ \A k \in Keys : "CHARGE" \in ledger[p][k] => jobs[k] = "CLIP"
                      /\ \A s \in Shots :
                           Cardinality({n \in 1..MaxAttempts : "CHARGE" \in ledger[p][<<s, n>>]}) <= 1
    BY DEF PaidOnce
  <2>1. \A k \in Keys : "CHARGE" \in ledger[p][k] => jobs[k] = "CLIP"
    BY DEF SInv, LedgerFits
  <2>2. ASSUME NEW s \in Shots
        PROVE  Cardinality({n \in 1..MaxAttempts : "CHARGE" \in ledger[p][<<s, n>>]}) <= 1
    <3> DEFINE C == {n \in 1..MaxAttempts : "CHARGE" \in ledger[p][<<s, n>>]}
    <3>1. ASSUME NEW n \in C, NEW m \in C, n < m
          PROVE  FALSE
      <4>1. <<s, n>> \in Keys /\ <<s, m>> \in Keys
        BY DEF Keys
      <4>2. jobs[<<s, n>>] = "CLIP" /\ jobs[<<s, m>>] = "CLIP"
        BY <2>1, <4>1
      <4>3. shots[s].n \in 0..MaxAttempts /\ m <= shots[s].n
        BY <4>2, ConstantsNat DEF SInv, IInv, Typed, AttemptsInTurn
      <4>4. n < shots[s].n
        BY <3>1, <4>3, ConstantsNat
      <4> QED BY <4>2, <4>4 DEF SInv, IInv, AttemptsInTurn, Failed
    <3>2. \A n, m \in C : n = m
      BY <3>1, ConstantsNat
    <3>3. C = {} \/ \E n \in C : C = {n}
      BY <3>2
    <3>4. Cardinality(C) \in {0, 1}
      <4> HIDE DEF C
      <4> QED BY <3>3, FS_EmptySet, FS_Singleton
    <3> QED BY <3>4
  <2> QED BY <2>1, <2>2
<1> QED BY <1>1, SettlementHolds, PTL

\* A replayed dispatch does not count its attempt again: the count a dispatch read is
\* less than the attempts on record once its own is there.
THEOREM CountsNoReplayIsKept == Spec => []CountsNoReplay
<1>1. SInv => CountsNoReplay
  BY DEF SInv, RowsFit, CountsNoReplay, Recorded
<1> QED BY <1>1, SettlementHolds, PTL

\* What a shot that ended without FAILED, or that goes on, has left behind.
LeftSettled ==
  \A s \in Shots, n \in 1..MaxAttempts :
    n < shots[s].n \/ shots[s].place \in {"SUCCEEDED", "RETRY_EXHAUSTED", "CANCELLED"} =>
      \A p \in Policies :
        "RESERVATION" \in ledger[p][<<s, n>>] => "RELEASE" \in ledger[p][<<s, n>>]

\* An entry of a key is at a scope of its shot and of no later attempt than its current.
LEMMA EntriesOfShot ==
  ASSUME SInv, NEW s \in Shots, NEW n \in 1..MaxAttempts, NEW p \in Policies,
         ledger[p][<<s, n>>] # {}
  PROVE  p \in PoliciesOf(s) /\ n <= shots[s].n /\ shots[s].n \in Nat
<1>1. <<s, n>> \in Keys
  BY DEF Keys
<1>2. p \in PoliciesOf(<<s, n>>[1]) /\ <<s, n>>[2] <= shots[<<s, n>>[1]].n
  BY <1>1 DEF SInv, LedgerFits
<1>3. shots[s].n \in 0..MaxAttempts
  BY DEF SInv, IInv, Typed
<1> QED BY <1>2, <1>3, ConstantsNat

\* Whatever was lost and however many strays there are, an attempt that is followed by
\* another, or by any end of its shot but FAILED, holds no reservation.
THEOREM AttemptsAreLeftSettled == Spec => []LeftSettled
<1>1. SInv => LeftSettled
  <2> SUFFICES ASSUME SInv, NEW s \in Shots, NEW n \in 1..MaxAttempts, NEW p \in Policies,
                      n < shots[s].n \/ shots[s].place \in {"SUCCEEDED", "RETRY_EXHAUSTED", "CANCELLED"},
                      "RESERVATION" \in ledger[p][<<s, n>>]
               PROVE  "RELEASE" \in ledger[p][<<s, n>>]
    BY DEF LeftSettled
  <2>1. p \in PoliciesOf(s) /\ n <= shots[s].n /\ shots[s].n \in Nat
    BY EntriesOfShot
  <2>2. Settled(<<s, n>>, ledger)
    <3>1. CASE n < shots[s].n
      BY <3>1 DEF SInv, PlacesFit
    <3>2. CASE n = shots[s].n /\ shots[s].place \in {"SUCCEEDED", "RETRY_EXHAUSTED", "CANCELLED"}
      BY <3>2 DEF SInv, PlacesFit, Current
    <3> QED BY <2>1, <3>1, <3>2
  <2> QED BY <2>1, <2>2 DEF Settled, Released
<1> QED BY <1>1, SettlementHolds, PTL

\* Where no execution overlaps another of its shot, a workflow that returns leaves no
\* reservation open, on whatever path its shots ended.  With overlapping ones it may:
\* a late dispatch reserves again, or undoes, after the shot has FAILED.
THEOREM ClosedWhenDoneIsKept == ASSUME Slots = 1 PROVE Spec => []ClosedWhenDone
<1>1. SInv => ClosedWhenDone
  <2> SUFFICES ASSUME SInv, Ended, ~failed, NEW p \in Policies, NEW s \in Shots,
                      NEW n \in 1..MaxAttempts, "RESERVATION" \in ledger[p][<<s, n>>]
               PROVE  "RELEASE" \in ledger[p][<<s, n>>]
    BY DEF ClosedWhenDone, Keys
  <2>1. p \in PoliciesOf(s) /\ n <= shots[s].n /\ shots[s].n \in Nat
    BY EntriesOfShot
  <2>2. Alone /\ shots[s].place \in Terminal
    BY DEF Alone, Ended
  <2>3. ~Unreserved(<<s, n>>, ledger)
    BY DEF Unreserved
  <2>4. Settled(<<s, n>>, ledger)
    <3>1. CASE n < shots[s].n
      BY <3>1 DEF SInv, PlacesFit
    <3>2. CASE n = shots[s].n
      BY <3>2, <2>2, <2>3 DEF SInv, PlacesFit, Current, Terminal
    <3> QED BY <2>1, <3>1, <3>2
  <2> QED BY <2>1, <2>4 DEF Settled, Released
<1> QED BY <1>1, SettlementHolds, PTL

-----------------------------------------------------------------------------
(* Types.                                                                  *)

Bounded ==
  /\ cost \in [Keys -> Costs \cup {0}]
  /\ \A s \in Shots : shots[s].tries <= MaxTries
  /\ cancelled \in BOOLEAN /\ failed \in BOOLEAN
  /\ crashes \in 0..MaxCrashes

\* The bounds of the counters, the bills and the flags.
LEMMA BoundedStays ==
  ASSUME IInv, Bounded, [Next]_vars
  PROVE  Bounded'
<1>t. /\ shots \in [Shots -> [place : Places, n : 0..MaxAttempts, tries : Nat]]
      /\ MaxTries \in Nat /\ 0 <= MaxTries
  BY ConstantsNat DEF IInv, Typed
<1>1. ASSUME NEW s \in Shots, NEW place, Move(s, place)
      PROVE  \A r \in Shots : shots'[r].tries <= MaxTries
  BY <1>1, <1>t DEF Move, Bounded
<1>2. ASSUME NEW s \in Shots, RunShot(s)
      PROVE  Bounded'
  <2>1. cost' = cost /\ cancelled' = cancelled /\ failed' \in {failed, TRUE} /\ crashes' = crashes
    BY <1>2 DEF RunShot, BeginAttempt, GiveUp, TakeAnswer, Wake, provider
  <2>2. \A r \in Shots : shots'[r].tries <= MaxTries
    <3>1. CASE BeginAttempt(s) /\ ~cancelled
      BY <3>1, <1>t DEF BeginAttempt, Bounded
    <3>2. CASE GiveUp(s)
      BY <3>2 DEF GiveUp, Bounded
    <3>3. CASE ~GiveUp(s) /\ ~(BeginAttempt(s) /\ ~cancelled)
      <4>1. \E place : Move(s, place)
        BY <1>2, <3>3 DEF RunShot, BeginAttempt, TakeAnswer, Wake
      <4> QED BY <4>1, <1>1
    <3> QED BY <3>1, <3>2, <3>3
  <2> QED BY <2>1, <2>2 DEF Bounded
<1>3. ASSUME NEW s \in Shots, NEW e \in 1..Slots, Execute(s, e) \/ TimeOut(s)
      PROVE  Bounded'
  <2>1. UNCHANGED <<cost, shots, cancelled, failed, crashes>>
    <3>1. CASE Dispatch(s, e)
      BY <3>1 DEF Dispatch, OpenJob, Reserve, Submit, SubmitThrows, FindAttempt, InsertAttempt,
         CountAttempt, WriteThrows, ReleaseAlreadyReserved, FailAttempt, provider, workflow
    <3>2. CASE Poll(s, e)
      BY <3>2 DEF Poll, ReadAttempt, AskProvider, NoteRunning, CreateCandidate, CreateAsset,
         LinkAsset, releaseOrChargeAcrossLevels, WriteOutcome, provider, workflow
    <3>3. CASE Cancel(s, e)
      BY <3>3 DEF Cancel, ReadForCancel, CancelJob, provider, workflow
    <3>4. CASE TimeOut(s)
      BY <3>4 DEF TimeOut, provider, workflow
    <3> QED BY <1>3, <3>1, <3>2, <3>3, <3>4 DEF Execute
  <2> QED BY <2>1 DEF Bounded
<1>4. ASSUME NEW s \in Shots, NEW e \in 1..Slots, StartTry(s, e)
      PROVE  Bounded'
  <2>1. /\ UNCHANGED <<cost, cancelled, failed, crashes>> /\ shots[s].tries < MaxTries
        /\ shots' = [shots EXCEPT ![s].tries = @ + 1]
    BY <1>4 DEF StartTry, MayTry, provider
  <2>2. \A r \in Shots : shots'[r].tries <= MaxTries
    BY <2>1, <1>t DEF Bounded
  <2> QED BY <2>1, <2>2 DEF Bounded
<1>5. ASSUME NEW s \in Shots, NEW e \in 1..Slots, Crash(s, e)
      PROVE  Bounded'
  <2>1. /\ UNCHANGED <<cost, shots, cancelled, failed>>
        /\ crashes < MaxCrashes /\ crashes' = crashes + 1
    BY <1>5 DEF Crash, provider, workflow
  <2>2. crashes' \in 0..MaxCrashes
    BY <2>1, ShotConstants DEF Bounded, ShotConstants
  <2> QED BY <2>1, <2>2 DEF Bounded
<1>6. ASSUME NEW k \in Keys, FinishJob(k)
      PROVE  Bounded'
  <2>1. UNCHANGED <<shots, cancelled, failed, crashes>>
    BY <1>6 DEF FinishJob, workflow
  <2>2. cost' = cost \/ \E c \in Costs : cost' = [cost EXCEPT ![k] = c]
    BY <1>6 DEF FinishJob
  <2> QED BY <2>1, <2>2 DEF Bounded
<1>7. CASE CancelSignal \/ UNCHANGED vars
  BY <1>7 DEF CancelSignal, vars, provider, workflow, Bounded
<1>8. CASE \E s \in Shots : RunShot(s) \/ TimeOut(s)
  <2>1. 1 \in 1..Slots
    BY ShotConstants DEF ShotConstants
  <2> QED BY <1>8, <2>1, <1>2, <1>3
<1>9. CASE \E s \in Shots, e \in 1..Slots : StartTry(s, e) \/ Execute(s, e) \/ Crash(s, e)
  BY <1>9, <1>3, <1>4, <1>5
<1>10. CASE \E k \in Keys : FinishJob(k)
  BY <1>10, <1>6
<1> QED BY <1>7, <1>8, <1>9, <1>10 DEF Next

\* They hold before the first step.
LEMMA InitBounded ==
  ASSUME Init
  PROVE  Bounded
<1>1. MaxTries \in Nat /\ MaxCrashes \in Nat
  BY ShotConstants DEF ShotConstants
<1>2. cost \in [Keys -> Costs \cup {0}]
  BY DEF Init
<1>3. \A s \in Shots : shots[s].tries = 0
  BY DEF Init
<1>4. cancelled \in BOOLEAN /\ failed \in BOOLEAN /\ crashes = 0
  BY DEF Init
<1>5. crashes \in 0..MaxCrashes /\ \A s \in Shots : shots[s].tries <= MaxTries
  BY <1>1, <1>3, <1>4
<1> QED BY <1>2, <1>4, <1>5 DEF Bounded

\* Every variable has its type; that the counts of a shot stay within its attempts
\* needs the settlement's invariant.
THEOREM TypesHold == Spec => []TypeOK
<1>1. Init => Bounded
  BY InitBounded
<1>2. IInv /\ Bounded /\ [Next]_vars => Bounded'
  BY BoundedStays
<1>3. SInv /\ Bounded => TypeOK
  <2> SUFFICES ASSUME SInv, Bounded
               PROVE  TypeOK
    OBVIOUS
  <2>1. /\ ledger \in [Policies -> [Keys -> SUBSET EntryTypes]]
        /\ assets \in [Keys -> {"NONE", "CANDIDATE", "STORED", "LINKED"}]
        /\ jobs \in [Keys -> JobStatuses] /\ live \in [Shots -> 0..Slots]
        /\ cost \in [Keys -> Costs \cup {0}] /\ crashes \in 0..MaxCrashes
        /\ {cancelled, failed} \subseteq BOOLEAN
    BY DEF SInv, LedgerFits, RowsFit, IInv, Typed, Bounded
  <2>2. attempts \in [Keys -> [status : AttemptStatuses, job : BOOLEAN]]
    <3>1. attempts \in [Keys -> [status : Statuses, job : BOOLEAN]]
          /\ \A k \in Keys : attempts[k].status \in AttemptStatuses
      BY DEF SInv, RowsFit, IInv, Typed
    <3> QED BY <3>1
  <2>3. \A s \in Shots : Cardinality(Recorded(s, attempts)) \in 0..MaxAttempts
    BY RecordedCount
  <2>4. attemptCount \in [Shots -> 0..MaxAttempts]
    <3>1. attemptCount \in [Shots -> Nat]
          /\ \A s \in Shots : attemptCount[s] <= Cardinality(Recorded(s, attempts))
      BY DEF SInv, RowsFit, IInv, Typed
    <3>2. \A s \in Shots : attemptCount[s] \in 0..MaxAttempts
      BY <3>1, <2>3, ConstantsNat
    <3> QED BY <3>1, <3>2
  <2>5. shots \in [Shots -> [place : Places, n : 0..MaxAttempts, tries : 0..MaxTries]]
    <3>1. shots \in [Shots -> [place : Places, n : 0..MaxAttempts, tries : Nat]]
          /\ \A s \in Shots : shots[s].tries <= MaxTries
      BY DEF SInv, IInv, Typed, Bounded
    <3> QED BY <3>1, ConstantsNat
  <2>6. exec \in [Shots -> [1..Slots -> [at : Steps, n : 0..MaxAttempts,
                    seen : 0..MaxAttempts, outcome : Outcomes, i : Nat]]]
    <3>1. exec \in [Shots -> [1..Slots -> Execution]]
      BY DEF SInv, IInv, Typed
    <3>2. ASSUME NEW s \in Shots, NEW e \in 1..Slots
          PROVE  exec[s][e] \in [at : Steps, n : 0..MaxAttempts,
                    seen : 0..MaxAttempts, outcome : Outcomes, i : Nat]
      <4>1. exec[s][e].seen <= Cardinality(Recorded(s, attempts)) /\ exec[s][e] \in Execution
        BY <3>1 DEF SInv, ExecutionsFit, Fits
      <4>2. exec[s][e].seen \in 0..MaxAttempts
        BY <4>1, <2>3, ConstantsNat DEF Execution
      <4> QED BY <4>1, <4>2 DEF Execution
    <3> QED BY <3>1, <3>2
  <2> QED BY <2>1, <2>2, <2>4, <2>5, <2>6 DEF TypeOK
<1>4. Spec => []Bounded
  BY <1>1, <1>2, AttemptsStayInTurn, PTL DEF Spec
<1> QED BY <1>3, <1>4, SettlementHolds, PTL

-----------------------------------------------------------------------------
(* Sums over finite sets.                                                  *)

\* Less-than on the naturals, as a relation.
LEMMA LessThan ==
  \A p, q \in Nat : <<q, p>> \in OpToRel(<, Nat) <=> q < p
  BY DEF OpToRel

\* The sum of g over S, the element that is taken first, and the function the sum is
\* computed by.
Total(g, S) == MapThenSumSet(LAMBDA x : g[x], S)
First(s) == CHOOSE x \in s : TRUE
Summing(g, S, f) ==
  f = [s \in SUBSET S |-> IF s = {} THEN 0 ELSE g[First(s)] + f[s \ {First(s)}]]
IsInt(g, S) == \A x \in S : g[x] \in Int

LEMMA HasALeast ==
  ASSUME NEW S, S \subseteq Nat, S # {}
  PROVE  \E x \in S : \A y \in S : x <= y
<1>1. \E R : IsWellFoundedOn(R, Nat) /\ \A p, q \in Nat : <<q, p>> \in R <=> q < p
  BY LessThan, NatLessThanWellFounded, Zenon
<1>2. PICK R : IsWellFoundedOn(R, Nat) /\ \A p, q \in Nat : <<q, p>> \in R <=> q < p
  BY <1>1
<1>3. PICK p \in S : \A q \in S : ~(<<q, p>> \in R)
  BY <1>2, WFMin
<1>4. \A q \in S : ~(q < p)
  BY <1>2, <1>3
<1> QED BY <1>4

LEMMA FirstIsOfThem ==
  ASSUME NEW s, s # {}
  PROVE  First(s) \in s
BY DEF First

LEMMA Removed ==
  ASSUME NEW s, IsFiniteSet(s), NEW x \in s
  PROVE  /\ IsFiniteSet(s \ {x}) /\ Cardinality(s) \in Nat /\ Cardinality(s \ {x}) \in Nat
         /\ Cardinality(s \ {x}) = Cardinality(s) - 1
BY FS_RemoveElement, FS_CardinalityType

\* There is such a function: for ever larger subsets.
LEMMA SummingExists ==
  ASSUME NEW S, IsFiniteSet(S), NEW g, IsInt(g, S)
  PROVE  \E f \in [SUBSET S -> Int] : Summing(g, S, f)
<1> DEFINE Small(n) == {s \in SUBSET S : Cardinality(s) <= n}
           Value(f, s) == IF s = {} THEN 0 ELSE g[First(s)] + f[s \ {First(s)}]
           Good(n) == \E f \in [Small(n) -> Int] : \A s \in Small(n) : f[s] = Value(f, s)
           Bad == {n \in Nat : ~Good(n)}
<1>0. \A s \in SUBSET S : IsFiniteSet(s) /\ Cardinality(s) \in Nat
  BY FS_Subset, FS_CardinalityType
<1>1. Bad = {}
  <2>. SUFFICES ASSUME Bad # {} PROVE FALSE
    OBVIOUS
  <2>1. PICK n \in Bad : \A m \in Bad : n <= m
    BY HasALeast
  <2>2. CASE n = 0
    <3>1. \A s \in Small(0) : s = {}
      BY <1>0, FS_EmptySet
    <3> DEFINE f == [s \in Small(0) |-> 0]
    <3>2. f \in [Small(0) -> Int] /\ \A s \in Small(0) : f[s] = Value(f, s)
      BY <3>1
    <3>3. Good(0)
      BY <3>2
    <3> QED BY <3>3, <2>1, <2>2
  <2>3. CASE n # 0
    <3>1. n \in Nat /\ n - 1 \in Nat /\ Good(n - 1)
      <4>1. n \in Nat /\ n - 1 \in Nat /\ ~(n <= n - 1)
        BY <2>1, <2>3
      <4> HIDE DEF Good
      <4>2. n - 1 \notin Bad
        BY <4>1, <2>1
      <4> QED BY <4>1, <4>2
    <3>2. PICK f \in [Small(n - 1) -> Int] : \A s \in Small(n - 1) : f[s] = Value(f, s)
      BY <3>1
    <3> DEFINE h == [s \in Small(n) |-> Value(f, s)]
    <3>3. \A s \in Small(n - 1) : s \in Small(n) /\ h[s] = f[s]
      BY <3>1, <3>2, <1>0
    <3>4. \A s \in Small(n) : s # {} =>
            First(s) \in S /\ s \ {First(s)} \in Small(n - 1)
      <4> SUFFICES ASSUME NEW s \in Small(n), s # {}
                   PROVE  First(s) \in S /\ s \ {First(s)} \in Small(n - 1)
        OBVIOUS
      <4>1. First(s) \in s /\ IsFiniteSet(s)
        BY FirstIsOfThem, <1>0
      <4>2. Cardinality(s \ {First(s)}) = Cardinality(s) - 1 /\ Cardinality(s) \in Nat
        BY <4>1, Removed
      <4> QED BY <4>1, <4>2, <2>1
    <3>5. h \in [Small(n) -> Int]
      <4> SUFFICES ASSUME NEW s \in Small(n) PROVE Value(f, s) \in Int
        OBVIOUS
      <4>1. CASE s = {}
        BY <4>1
      <4>2. CASE s # {}
        <5>1. g[First(s)] \in Int /\ f[s \ {First(s)}] \in Int
          BY <3>4, <4>2 DEF IsInt
        <5> QED BY <4>2, <5>1
      <4> QED BY <4>1, <4>2
    <3>6. \A s \in Small(n) : h[s] = Value(h, s)
      BY <3>3, <3>4
    <3> HIDE DEF h
    <3>7. Good(n)
      BY <3>5, <3>6
    <3> QED BY <3>7, <2>1
  <2> QED BY <2>2, <2>3
<1> DEFINE N == Cardinality(S)
<1>2. N \in Nat /\ Small(N) = SUBSET S
  BY FS_CardinalityType, FS_Subset
<1>3. Good(N)
  BY <1>1, <1>2
<1>4. PICK f \in [SUBSET S -> Int] : \A s \in SUBSET S : f[s] = Value(f, s)
  BY <1>2, <1>3
<1>5. Summing(g, S, f)
  BY <1>4 DEF Summing
<1> QED BY <1>5

\* And it says the same of a set, of whichever larger set it is computed and from
\* whichever values that agree there.
LEMMA SummingAgrees ==
  ASSUME NEW S, IsFiniteSet(S), NEW T, S \subseteq T, NEW g, NEW f, NEW d, NEW h,
         \A x \in S : g[x] = d[x],
         Summing(g, S, f), Summing(d, T, h)
  PROVE  \A s \in SUBSET S : f[s] = h[s]
<1> DEFINE Bad == {Cardinality(s) : s \in {r \in SUBSET S : f[r] # h[r]}}
<1>0. \A s \in SUBSET S : IsFiniteSet(s) /\ Cardinality(s) \in Nat
  BY FS_Subset, FS_CardinalityType
<1> SUFFICES ASSUME NEW r \in SUBSET S, f[r] # h[r] PROVE FALSE
  OBVIOUS
<1>1. Bad \subseteq Nat /\ Bad # {}
  BY <1>0
<1>2. PICK n \in Bad : \A m \in Bad : n <= m
  BY <1>1, HasALeast
<1>3. PICK s \in SUBSET S : f[s] # h[s] /\ Cardinality(s) = n
  BY <1>2
<1>4. /\ f[s] = IF s = {} THEN 0 ELSE g[First(s)] + f[s \ {First(s)}]
      /\ h[s] = IF s = {} THEN 0 ELSE d[First(s)] + h[s \ {First(s)}]
  BY <1>3 DEF Summing
<1>5. s # {}
  BY <1>3, <1>4
<1>6. First(s) \in s /\ s \ {First(s)} \in SUBSET S
  BY <1>5, FirstIsOfThem
<1>7. f[s \ {First(s)}] = h[s \ {First(s)}]
  <2> SUFFICES ASSUME f[s \ {First(s)}] # h[s \ {First(s)}] PROVE FALSE
    OBVIOUS
  <2>1. Cardinality(s \ {First(s)}) \in Bad
    BY <1>6
  <2>2. Cardinality(s \ {First(s)}) = n - 1 /\ n \in Nat
    BY <1>0, <1>3, <1>6, Removed
  <2> QED BY <2>1, <2>2, <1>2
<1> QED BY <1>3, <1>4, <1>5, <1>6, <1>7

LEMMA TotalSums ==
  ASSUME NEW S, NEW g
  PROVE  Total(g, S) = (CHOOSE f : Summing(g, S, f))[S]
BY DEF Total, MapThenSumSet, MapThenFoldSet, Summing, First

LEMMA TotalIs ==
  ASSUME NEW S, IsFiniteSet(S), NEW g, IsInt(g, S), NEW f, Summing(g, S, f), NEW s \in SUBSET S
  PROVE  Total(g, s) = f[s] /\ f[s] \in Int
<1>1. IsFiniteSet(s) /\ IsInt(g, s)
  BY FS_Subset DEF IsInt
<1> DEFINE h == CHOOSE h : Summing(g, s, h)
<1>2. Summing(g, s, h)
  BY <1>1, SummingExists
<1>3. PICK k \in [SUBSET S -> Int] : Summing(g, S, k)
  BY SummingExists
<1>4. f[s] = k[s]
  BY <1>3, SummingAgrees
<1>5. Total(g, s) = h[s]
  BY TotalSums
<1> HIDE DEF h
<1>6. h[s] = f[s]
  BY <1>1, <1>2, SummingAgrees
<1> QED BY <1>3, <1>4, <1>5, <1>6

LEMMA TotalUnfolds ==
  ASSUME NEW S, IsFiniteSet(S), NEW g, IsInt(g, S)
  PROVE  /\ Total(g, S) \in Int
         /\ S = {} => Total(g, S) = 0
         /\ S # {} => Total(g, S) = g[First(S)] + Total(g, S \ {First(S)})
<1>1. PICK f \in [SUBSET S -> Int] : Summing(g, S, f)
  BY SummingExists
<1>2. Total(g, S) = f[S] /\ Total(g, S \ {First(S)}) = f[S \ {First(S)}] /\ f[S] \in Int
  BY <1>1, TotalIs
<1> QED BY <1>1, <1>2 DEF Summing

LEMMA TotalOfNone ==
  ASSUME NEW g
  PROVE  Total(g, {}) = 0
BY TotalUnfolds, FS_EmptySet DEF IsInt

\* It does not matter which element is taken first.
LEMMA TotalRemove ==
  ASSUME NEW S, IsFiniteSet(S), NEW g, IsInt(g, S), NEW x \in S
  PROVE  Total(g, S) = g[x] + Total(g, S \ {x})
<1> DEFINE Differs == {s \in SUBSET S : \E y \in s : Total(g, s) # g[y] + Total(g, s \ {y})}
           Bad == {Cardinality(s) : s \in Differs}
<1>0. \A s \in SUBSET S : IsFiniteSet(s) /\ Cardinality(s) \in Nat /\ IsInt(g, s) /\ Total(g, s) \in Int
  BY FS_Subset, FS_CardinalityType, TotalUnfolds DEF IsInt
<1> SUFFICES ASSUME Differs # {} PROVE FALSE
  OBVIOUS
<1>1. Bad \subseteq Nat /\ Bad # {}
  BY <1>0
<1>2. PICK n \in Bad : \A m \in Bad : n <= m
  BY <1>1, HasALeast
<1>3. PICK s \in Differs : Cardinality(s) = n
  BY <1>2
<1>4. PICK y \in s : Total(g, s) # g[y] + Total(g, s \ {y})
  BY <1>3
<1> DEFINE z == First(s)
<1>5. s \in SUBSET S /\ z \in s /\ Total(g, s) = g[z] + Total(g, s \ {z})
  BY <1>0, <1>3, <1>4, FirstIsOfThem, TotalUnfolds
<1>6. y # z
  BY <1>4, <1>5
<1> HIDE DEF z
<1>7. \A r \in SUBSET s : Cardinality(r) < n => r \notin Differs
  BY <1>0, <1>2, <1>5
<1>8. Cardinality(s \ {z}) < n /\ Cardinality(s \ {y}) < n
  BY <1>0, <1>3, <1>4, <1>5, Removed
<1>9. Total(g, s \ {z}) = g[y] + Total(g, (s \ {z}) \ {y})
  BY <1>4, <1>5, <1>6, <1>7, <1>8
<1>10. Total(g, s \ {y}) = g[z] + Total(g, (s \ {y}) \ {z})
  BY <1>4, <1>5, <1>6, <1>7, <1>8
<1>11. (s \ {z}) \ {y} = (s \ {y}) \ {z}
  OBVIOUS
<1>12. g[y] \in Int /\ g[z] \in Int /\ Total(g, (s \ {z}) \ {y}) \in Int
  BY <1>0, <1>4, <1>5 DEF IsInt
<1>13. \A a, b, c \in Int : a + (b + c) = b + (a + c)
  OBVIOUS
<1>14. g[z] + (g[y] + Total(g, (s \ {z}) \ {y})) = g[y] + (g[z] + Total(g, (s \ {y}) \ {z}))
  <2>1. PICK t \in Int : t = Total(g, (s \ {z}) \ {y})
    BY <1>12
  <2>2. t = Total(g, (s \ {y}) \ {z})
    BY <2>1, <1>11
  <2>3. g[z] + (g[y] + t) = g[y] + (g[z] + t)
    BY <1>12, <1>13
  <2> QED BY <2>1, <2>2, <2>3
<1> QED BY <1>4, <1>5, <1>9, <1>10, <1>14

\* A sum of no larger values is no larger.
LEMMA TotalGrows ==
  ASSUME NEW S, IsFiniteSet(S), NEW g, IsInt(g, S), NEW d, IsInt(d, S),
         \A x \in S : g[x] <= d[x]
  PROVE  Total(g, S) <= Total(d, S)
<1> DEFINE Differs == {s \in SUBSET S : ~(Total(g, s) <= Total(d, s))}
           Bad == {Cardinality(s) : s \in Differs}
<1>0. \A s \in SUBSET S : IsFiniteSet(s) /\ Cardinality(s) \in Nat /\ IsInt(g, s) /\ IsInt(d, s)
                          /\ Total(g, s) \in Int /\ Total(d, s) \in Int
  BY FS_Subset, FS_CardinalityType, TotalUnfolds DEF IsInt
<1> SUFFICES ASSUME Differs # {} PROVE FALSE
  OBVIOUS
<1>1. Bad \subseteq Nat /\ Bad # {}
  BY <1>0
<1>2. PICK n \in Bad : \A m \in Bad : n <= m
  BY <1>1, HasALeast
<1>3. PICK s \in Differs : Cardinality(s) = n
  BY <1>2
<1>4. s # {}
  BY <1>3, TotalOfNone
<1>5. PICK y : y \in s
  BY <1>4
<1>6. Total(g, s) = g[y] + Total(g, s \ {y}) /\ Total(d, s) = d[y] + Total(d, s \ {y})
  BY <1>0, <1>3, <1>5, TotalRemove
<1>7. Cardinality(s \ {y}) < n
  BY <1>0, <1>3, <1>5, Removed
<1>8. s \ {y} \notin Differs
  BY <1>0, <1>2, <1>3, <1>7
<1>9. g[y] \in Int /\ d[y] \in Int /\ g[y] <= d[y] /\ Total(g, s \ {y}) \in Int
      /\ Total(d, s \ {y}) \in Int
  BY <1>0, <1>3, <1>5 DEF IsInt
<1> QED BY <1>3, <1>6, <1>8, <1>9

LEMMA TotalSame ==
  ASSUME NEW S, IsFiniteSet(S), NEW g, IsInt(g, S), NEW d, \A x \in S : g[x] = d[x]
  PROVE  Total(g, S) = Total(d, S)
<1>1. IsInt(d, S)
  BY DEF IsInt
<1>2. Total(g, S) <= Total(d, S) /\ Total(d, S) <= Total(g, S)
  BY <1>1, TotalGrows DEF IsInt
<1>3. Total(g, S) \in Int /\ Total(d, S) \in Int
  BY <1>1, TotalUnfolds
<1>4. \A a, b \in Int : a <= b /\ b <= a => a = b
  OBVIOUS
<1> QED BY <1>2, <1>3, <1>4

\* What one value changes by the sum does.
LEMMA TotalChange ==
  ASSUME NEW S, IsFiniteSet(S), NEW g, IsInt(g, S), NEW d, IsInt(d, S), NEW x \in S,
         \A y \in S : y # x => g[y] = d[y]
  PROVE  Total(d, S) = Total(g, S) - g[x] + d[x]
<1>1. IsFiniteSet(S \ {x}) /\ IsInt(g, S \ {x}) /\ \A y \in S \ {x} : g[y] = d[y]
  BY Removed DEF IsInt
<1>2. Total(g, S \ {x}) = Total(d, S \ {x}) /\ Total(g, S \ {x}) \in Int
  BY <1>1, TotalSame, TotalUnfolds
<1>3. Total(g, S) = g[x] + Total(g, S \ {x}) /\ Total(d, S) = d[x] + Total(d, S \ {x})
  BY TotalRemove
<1> QED BY <1>2, <1>3 DEF IsInt

-----------------------------------------------------------------------------
(* The sums of the caps.                                                   *)

\* Committed, of a ledger and its bills.
CommittedIn(l, c, p, k) ==
  IF "CHARGE" \in l[p][k] THEN c[k]
  ELSE IF "RESERVATION" \in l[p][k] /\ "RELEASE" \notin l[p][k] THEN Estimate
  ELSE 0

Commits(l, c, p) == [k \in Keys |-> CommittedIn(l, c, p, k)]
Nets(p) == [k \in Keys |-> Net(p, k)]

Billed(c) == c \in [Keys -> Costs \cup {0}]

\* The constants, as the sums use them.
LEMMA Capacities ==
  /\ IsFiniteSet(Keys) /\ Estimate \in Nat /\ Costs \subseteq Nat
  /\ \A p \in Policies : Limit[p] \in Nat
<1>1. IsFiniteSet(Shots) /\ IsFiniteSet(1..MaxAttempts)
  BY ShotConstants, ConstantsNat, FS_Interval DEF ShotConstants
<1>2. IsFiniteSet(Keys)
  BY <1>1, FS_Product DEF Keys
<1> QED BY <1>2, ShotConstants DEF ShotConstants

LEMMA BillOfKey ==
  ASSUME NEW c, Billed(c), NEW k \in Keys
  PROVE  c[k] \in Nat /\ Estimate \in Nat
<1>1. c[k] \in Costs \cup {0}
  BY DEF Billed
<1>2. 0 \in Nat /\ Costs \subseteq Nat /\ Estimate \in Nat
  BY Capacities
<1> QED BY <1>1, <1>2

LEMMA CommitsAreInts ==
  ASSUME NEW l, NEW c, Billed(c), NEW p
  PROVE  IsInt(Commits(l, c, p), Keys) /\ \A k \in Keys : CommittedIn(l, c, p, k) \in Nat
<1>1. ASSUME NEW k \in Keys PROVE CommittedIn(l, c, p, k) \in Nat
  <2>1. c[k] \in Nat /\ Estimate \in Nat
    BY BillOfKey
  <2> QED BY <2>1 DEF CommittedIn
<1> QED BY <1>1 DEF IsInt, Commits

\* A sum by MapThenSumSet over keys is the total of the function.
LEMMA SpentIsTotal ==
  ASSUME SInv, Billed(cost), NEW p \in Policies
  PROVE  /\ computeSpentCents(p) = Total(Nets(p), Keys)
         /\ IsInt(Nets(p), Keys)
<1> DEFINE g == Nets(p)
           Spending(f) == f = [s \in SUBSET Keys |-> IF s = {} THEN 0
                                 ELSE Net(p, First(s)) + f[s \ {First(s)}]]
<1>1. computeSpentCents(p) = (CHOOSE f : Spending(f))[Keys]
  BY DEF computeSpentCents, MapThenSumSet, MapThenFoldSet, First
<1>2. \A k \in Keys : g[k] = Net(p, k)
  BY DEF Nets
<1>3. \A f : Spending(f) <=> Summing(g, Keys, f)
  <2> SUFFICES ASSUME NEW f PROVE Spending(f) <=> Summing(g, Keys, f)
    OBVIOUS
  <2> DEFINE A == [s \in SUBSET Keys |-> IF s = {} THEN 0 ELSE Net(p, First(s)) + f[s \ {First(s)}]]
             B == [s \in SUBSET Keys |-> IF s = {} THEN 0 ELSE g[First(s)] + f[s \ {First(s)}]]
  <2>1. \A s \in SUBSET Keys : A[s] = B[s]
    <3> SUFFICES ASSUME NEW s \in SUBSET Keys PROVE A[s] = B[s]
      OBVIOUS
    <3>1. CASE s = {}
      BY <3>1
    <3>2. CASE s # {}
      <4>1. First(s) \in Keys
        BY <3>2, FirstIsOfThem
      <4>2. g[First(s)] = Net(p, First(s))
        BY <4>1, <1>2
      <4> QED BY <3>2, <4>2
    <3> QED BY <3>1, <3>2
  <2>2. A = B
    BY <2>1
  <2> QED BY <2>2 DEF Summing
<1>4. IsInt(g, Keys)
  <2> SUFFICES ASSUME NEW k \in Keys PROVE Net(p, k) \in Int
    BY <1>2 DEF IsInt
  <2>1. cost[k] \in Nat /\ Estimate \in Nat
    BY BillOfKey
  <2> QED BY <2>1 DEF Net
<1>5. IsFiniteSet(Keys)
  BY Capacities
<1> HIDE DEF Spending, g
<1>6. \E f : Spending(f)
  BY <1>3, <1>4, <1>5, SummingExists
<1> DEFINE h == CHOOSE f : Spending(f)
<1>7. Summing(g, Keys, h)
  BY <1>3, <1>6
<1> HIDE DEF h
<1>8. Total(g, Keys) = h[Keys]
  BY <1>4, <1>5, <1>7, TotalIs
<1> QED BY <1>1, <1>4, <1>8 DEF h, g

LEMMA CommittedIsTotal ==
  ASSUME Billed(cost), NEW p \in Policies
  PROVE  Commitments(p) = Total(Commits(ledger, cost, p), Keys)
<1> DEFINE g == Commits(ledger, cost, p)
           Spending(f) == f = [s \in SUBSET Keys |-> IF s = {} THEN 0
                                 ELSE Committed(p, First(s)) + f[s \ {First(s)}]]
<1>1. Commitments(p) = (CHOOSE f : Spending(f))[Keys]
  BY DEF Commitments, MapThenSumSet, MapThenFoldSet, First
<1>2. \A k \in Keys : g[k] = Committed(p, k)
  BY DEF Commits, CommittedIn, Committed
<1>3. \A f : Spending(f) <=> Summing(g, Keys, f)
  <2> SUFFICES ASSUME NEW f PROVE Spending(f) <=> Summing(g, Keys, f)
    OBVIOUS
  <2> DEFINE A == [s \in SUBSET Keys |-> IF s = {} THEN 0 ELSE Committed(p, First(s)) + f[s \ {First(s)}]]
             B == [s \in SUBSET Keys |-> IF s = {} THEN 0 ELSE g[First(s)] + f[s \ {First(s)}]]
  <2>1. \A s \in SUBSET Keys : A[s] = B[s]
    <3> SUFFICES ASSUME NEW s \in SUBSET Keys PROVE A[s] = B[s]
      OBVIOUS
    <3>1. CASE s = {}
      BY <3>1
    <3>2. CASE s # {}
      <4>1. First(s) \in Keys
        BY <3>2, FirstIsOfThem
      <4>2. g[First(s)] = Committed(p, First(s))
        BY <4>1, <1>2
      <4> QED BY <3>2, <4>2
    <3> QED BY <3>1, <3>2
  <2>2. A = B
    BY <2>1
  <2> QED BY <2>2 DEF Summing
<1>4. IsInt(g, Keys) /\ IsFiniteSet(Keys)
  BY CommitsAreInts, Capacities
<1> HIDE DEF Spending, g
<1>6. \E f : Spending(f)
  BY <1>3, <1>4, SummingExists
<1> DEFINE h == CHOOSE f : Spending(f)
<1>7. Summing(g, Keys, h)
  BY <1>3, <1>6
<1> HIDE DEF h
<1>8. Total(g, Keys) = h[Keys]
  BY <1>4, <1>7, TotalIs
<1> QED BY <1>1, <1>8 DEF h, g

\* What the ledger nets to is no less than what is committed.
LEMMA CommittedWithinNet ==
  ASSUME SInv, Billed(cost), NEW p \in Policies, NEW k \in Keys
  PROVE  /\ CommittedIn(ledger, cost, p, k) <= Net(p, k)
         /\ "RESERVATION" \notin ledger[p][k] => Net(p, k) = 0 /\ ledger[p][k] = {}
<1>1. cost[k] \in Nat /\ Estimate \in Nat
  BY BillOfKey
<1>2. ledger[p][k] # {} => "RESERVATION" \in ledger[p][k]
  BY DEF SInv, LedgerFits, Reserved
<1>3. CASE "RESERVATION" \in ledger[p][k]
  BY <1>1, <1>3 DEF Net, CommittedIn
<1>4. CASE "RESERVATION" \notin ledger[p][k]
  BY <1>1, <1>2, <1>4 DEF Net, CommittedIn
<1> QED BY <1>3, <1>4

\* A reservation is made where there is room for it.
LEMMA ReserveFits ==
  ASSUME SInv, Billed(cost), NEW s \in Shots, NEW e \in 1..Slots, Working(exec[s][e]),
         Reserve(s, e), NEW p \in Policies, ledger'[p] # ledger[p]
  PROVE  Total(Commits(ledger', cost', p), Keys) <= Limit[p]
<1> DEFINE k == KeyOf(s, e)
           new == {q \in PoliciesOf(s) : "RESERVATION" \notin ledger[q][k]}
           spent == computeSpentCents(p)
           N == Nets(p)
           D == [j \in Keys |-> IF j = k THEN Estimate ELSE Net(p, j)]
           B == Commits(ledger', cost, p)
<1>k. k \in Keys
  BY KeyOfInKeys DEF SInv
<1>l. ledger \in [Policies -> [Keys -> SUBSET EntryTypes]]
  BY DEF SInv, LedgerFits
<1>c. cost' = cost
  BY DEF Reserve, provider
<1>0. /\ \A q \in new : HasRoom(q)
      /\ ledger' = [q \in Policies |->
                      IF q \in new THEN [ledger[q] EXCEPT ![k] = @ \cup {"RESERVATION"}]
                                   ELSE ledger[q]]
  BY DEF Reserve
<1>i. p \in new
  BY <1>0
<1>1. \A j \in Keys :
        ledger'[p][j] = IF j = k THEN ledger[p][j] \cup {"RESERVATION"} ELSE ledger[p][j]
  BY <1>0, <1>i, <1>l, <1>k
<1>2. Limit[p] - spent >= Estimate
  BY <1>0, <1>i DEF HasRoom
<1>3. spent = Total(N, Keys) /\ IsInt(N, Keys) /\ N[k] = Net(p, k)
  BY <1>k, SpentIsTotal DEF Nets
<1>4. Net(p, k) = 0 /\ ledger[p][k] = {}
  BY <1>i, <1>k, CommittedWithinNet
<1>5. \A j \in Keys : j # k => CommittedIn(ledger', cost, p, j) <= Net(p, j)
  <2>1. \A j \in Keys : j # k => CommittedIn(ledger', cost, p, j) = CommittedIn(ledger, cost, p, j)
    BY <1>1 DEF CommittedIn
  <2> QED BY <2>1, CommittedWithinNet
<1>6. CommittedIn(ledger', cost, p, k) = Estimate
  <2>1. ledger'[p][k] = {"RESERVATION"}
    BY <1>1, <1>4, <1>k
  <2> QED BY <2>1 DEF CommittedIn
<1>7. Estimate \in Nat /\ IsFiniteSet(Keys) /\ Limit[p] \in Int
  BY Capacities
<1>8. IsInt(B, Keys) /\ IsInt(D, Keys)
  <2>1. IsInt(B, Keys)
    BY CommitsAreInts
  <2>2. \A j \in Keys : Net(p, j) \in Int
    BY <1>3 DEF IsInt, Nets
  <2> QED BY <2>1, <2>2, <1>7 DEF IsInt
<1>9. \A j \in Keys : B[j] <= D[j]
  BY <1>5, <1>6, <1>7 DEF Commits
<1>10. (\A j \in Keys : j # k => N[j] = D[j]) /\ D[k] = Estimate
  BY <1>k DEF Nets
<1> HIDE DEF B, D, N, spent
<1>11. Total(B, Keys) <= Total(D, Keys)
  BY <1>7, <1>8, <1>9, TotalGrows
<1>12. Total(D, Keys) = Total(N, Keys) - N[k] + D[k]
  BY <1>k, <1>3, <1>7, <1>8, <1>10, TotalChange
<1>13. Total(B, Keys) \in Int /\ Total(N, Keys) \in Int
  BY <1>3, <1>7, <1>8, TotalUnfolds
<1>14. Total(D, Keys) = spent + Estimate /\ spent \in Int
  BY <1>3, <1>4, <1>7, <1>10, <1>12, <1>13
<1>15. Total(B, Keys) <= Limit[p]
  BY <1>2, <1>7, <1>11, <1>13, <1>14
<1> QED BY <1>15, <1>c DEF B

\* Entries that close an attempt are charges and releases.
LEMMA ClosingReservesNothing ==
  ASSUME SInv, NEW s \in Shots, NEW e \in 1..Slots, NEW then, Working(exec[s][e]),
         exec[s][e].at \in {"UNDO", "CLOSE"}, WriteEntry(s, e, then),
         NEW p \in Policies, NEW k \in Keys
  PROVE  "RESERVATION" \in ledger'[p][k] => "RESERVATION" \in ledger[p][k]
<1> DEFINE x == exec[s][e]
           c == Closing(s, x.outcome)
<1>1. CASE x.i > Len(c)
  BY <1>1 DEF WriteEntry
<1>2. CASE ~(x.i > Len(c))
  <2>1. ledger' = [ledger EXCEPT ![c[x.i].policy][KeyOf(s, e)] = @ \cup {c[x.i].type}]
    BY <1>2 DEF WriteEntry
  <2>2. x \in Execution /\ Fits(s, x, ledger, attempts, jobs, assets)
    BY DEF SInv, IInv, Typed, ExecutionsFit
  <2>3. x.i \in Nat /\ x.i > 0
    BY <2>2 DEF Fits, Execution
  <2>4. x.i \in 1..Len(c)
    BY <1>2, <2>3, ClosingEntries
  <2>5. c[x.i].type \in {"CHARGE", "RELEASE"}
    BY <2>4, ClosingEntries
  <2>6. ledger \in [Policies -> [Keys -> SUBSET EntryTypes]]
    BY DEF SInv, LedgerFits
  <2> HIDE DEF c
  <2> QED BY <2>1, <2>5, <2>6
<1> QED BY <1>1, <1>2

\* A reservation is made by Reserve only.
LEMMA ReservedByReserve ==
  ASSUME SInv, [Next]_vars, NEW p \in Policies, NEW k \in Keys,
         "RESERVATION" \in ledger'[p][k] \ ledger[p][k]
  PROVE  \E s \in Shots, e \in 1..Slots : Reserve(s, e)
<1>1. ASSUME NEW s \in Shots, NEW e \in 1..Slots, Execute(s, e) PROVE Reserve(s, e)
  <2>1. ~ReleaseAlreadyReserved(s, e) /\ ~releaseOrChargeAcrossLevels(s, e)
    BY ClosingReservesNothing DEF ReleaseAlreadyReserved, releaseOrChargeAcrossLevels, At, Working
  <2> QED
    BY <1>1, <2>1 DEF Execute, Dispatch, Poll, Cancel, OpenJob, Submit, SubmitThrows, FindAttempt,
       InsertAttempt, CountAttempt, WriteThrows, FailAttempt, ReadAttempt, AskProvider,
       NoteRunning, CreateCandidate, CreateAsset, LinkAsset, WriteOutcome, ReadForCancel,
       CancelJob, db
<1>2. ASSUME NEW s \in Shots, RunShot(s) \/ TimeOut(s) PROVE FALSE
  BY <1>2 DEF RunShot, BeginAttempt, GiveUp, TakeAnswer, Wake, TimeOut, db
<1>3. ASSUME NEW s \in Shots, NEW e \in 1..Slots, StartTry(s, e) \/ Crash(s, e) PROVE FALSE
  BY <1>3 DEF StartTry, Crash, db
<1>4. ~CancelSignal /\ ~UNCHANGED vars /\ \A j \in Keys : ~FinishJob(j)
  BY DEF CancelSignal, FinishJob, vars, db
<1> QED BY <1>1, <1>2, <1>3, <1>4 DEF Next

\* Whatever is late, lost or thrown and whatever jobs turn out to cost, nothing is
\* reserved that does not fit its cap with all that is charged and all that is
\* reserved: the ledger's own sum, which a reservation is held against, is never
\* less than that, since every entry of a key comes after its reservation.
THEOREM GrantsAreWithinCaps == Spec => GrantsWithinCaps
<1>1. Bounded => \A p \in Policies : Commitments(p) = Total(Commits(ledger, cost, p), Keys)
  BY CommittedIsTotal DEF Bounded, Billed
<1>2. Bounded' => \A p \in Policies : Commitments(p)' = Total(Commits(ledger', cost', p), Keys)
  <2>1. (\A p \in Policies : Commitments(p) = Total(Commits(ledger, cost, p), Keys))'
         => \A p \in Policies : Commitments(p)' = Total(Commits(ledger', cost', p), Keys)
    BY DEF Commits, CommittedIn
  <2> QED BY <1>1, <2>1, PTL
<1>3. SInv /\ Bounded /\ [Next]_vars =>
        [\A p \in Policies :
           (\E k \in Keys : "RESERVATION" \in ledger'[p][k] \ ledger[p][k])
             => Commitments(p)' <= Limit[p]]_vars
  <2> SUFFICES ASSUME SInv, Bounded, [Next]_vars, NEW p \in Policies, NEW k \in Keys,
                      "RESERVATION" \in ledger'[p][k] \ ledger[p][k]
               PROVE  Commitments(p)' <= Limit[p]
    OBVIOUS
  <2>1. PICK s \in Shots, e \in 1..Slots : Reserve(s, e)
    BY ReservedByReserve
  <2>2. Working(exec[s][e]) /\ ledger'[p] # ledger[p]
    BY <2>1 DEF Reserve, At, Working
  <2>3. Total(Commits(ledger', cost', p), Keys) <= Limit[p]
    BY <2>1, <2>2, ReserveFits DEF Bounded, Billed
  <2> QED BY <1>2, <2>3, BoundedStays DEF SInv
<1>4. Init => Bounded
  BY InitBounded
<1>5. SInv /\ Bounded /\ [Next]_vars => Bounded'
  BY BoundedStays DEF SInv
<1> QED BY <1>3, <1>4, <1>5, SettlementHolds, PTL DEF Spec, GrantsWithinCaps
=============================================================================
