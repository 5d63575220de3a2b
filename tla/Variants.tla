------------------------------ MODULE Variants ------------------------------
(***************************************************************************)
(* The VARIANT_GENERATION and VARIANT_QA stages: variantWorkflow cuts the  *)
(* master to every duration of the delivery profile, renders each cut and  *)
(* judges it, one duration after the other, and the campaign goes on to    *)
(* EXPORTING or back for a repair.  Activities run as tries that the       *)
(* server may time out while they still run: their answer is dropped, but  *)
(* not what they write.                                                    *)
(***************************************************************************)
EXTENDS Naturals, Sequences

CONSTANTS
  NumDurations,  \* how many durations the delivery profile names
  MaxVisits,     \* maxVariantRepairAttempts + 1
  MaxAttempts,   \* maxAttempts, the renders of one cut
  MaxTries,      \* maximumAttempts of an activity's retry policy
  MaxStrays,     \* tries that are timed out while they still run
  SlowOps,       \* the activities whose tries are
  JobEndings     \* how the provider's jobs may end

ASSUME VariantsAssumption ==
  /\ NumDurations \in Nat \ {0}
  /\ MaxVisits \in Nat \ {0} /\ MaxAttempts \in Nat \ {0}
  /\ MaxTries \in Nat \ {0} /\ MaxStrays \in Nat
  /\ SlowOps \subseteq {"CUT", "DISPATCH", "POLL", "CANCEL", "QA"}
  /\ JobEndings \subseteq {"SUCCEEDED", "FAILED", "UNSUPPORTED", "CANCELLED"}

VARIABLES
  campaign,  \* its stage, the visit it is on, whether its workflow goes on
  child,     \* variantWorkflow
  try,       \* the tries that run, in two slots: at most one of them a stray
  strays,    \* tries timed out so far
  agent,     \* what the recorded invocations of the two agents answered for a cut
  spec,      \* variant_specifications
  attempt,   \* variant_generation_attempts: the status of every render of a cut
  job,       \* the provider's jobs, by the same key
  ledger,    \* the budget entries of that key
  rows       \* creative_variants of a cut

vars == <<campaign, child, try, strays, agent, spec, attempt, job, ledger, rows>>
stored == <<agent, spec, attempt, job, ledger, rows>>

\* profile.durationsSeconds, in their order.  One cut of a duration is made on each visit; its version is the visit's.
Durations == 1 .. NumDurations
Visits == 1 .. MaxVisits
Cuts == Durations \X Visits
Attempts == 1 .. MaxAttempts
Slots == {1, 2}
Last == NumDurations

Ended == {"SUCCEEDED", "FAILED", "UNSUPPORTED", "CANCELLED"}
NoRow == 0

Idle == [op |-> "NONE", cut |-> <<1, 1>>, n |-> 0, pc |-> "IDLE",
         saw |-> "NOTHING", row |-> NoRow, live |-> {}]

NewChild == [pc |-> "CUT", at |-> 1, n |-> 0, slot |-> 0, tries |-> 0,
             cut |-> FALSE, cancelled |-> FALSE, stopped |-> FALSE]

Init ==
  /\ campaign = [stage |-> "VARIANT_GENERATION", visit |-> 1, status |-> "RUNNING"]
  /\ child = NewChild
  /\ try = [i \in Slots |-> Idle]
  /\ strays = 0
  /\ agent = [c \in Cuts |-> [generator |-> "NONE", qa |-> "NONE"]]
  /\ spec = [c \in Cuts |-> [exists |-> FALSE, superseded |-> FALSE, approved |-> FALSE]]
  /\ attempt = [c \in Cuts |-> [n \in Attempts |-> "NONE"]]
  /\ job = [c \in Cuts |-> [n \in Attempts |-> "NONE"]]
  /\ ledger = [c \in Cuts |-> [n \in Attempts |-> {}]]
  /\ rows = [c \in Cuts |-> <<>>]

At(i, op, pc) == try[i].op = op /\ try[i].pc = pc
Goes(i, r) == try' = [try EXCEPT ![i] = r] /\ UNCHANGED child

-----------------------------------------------------------------------------
(* variantWorkflow: what it does with an answer.                           *)

\* The next duration, or the end.
Onward(ch) == IF ch.at = Last THEN [ch EXCEPT !.pc = "DONE"]
                              ELSE [ch EXCEPT !.at = @ + 1, !.n = 0, !.pc = "RENDER"]

\* A refused cut ends the child, and no duration is rendered.
AfterCut(ch, answer) ==
  IF answer = "CUT" THEN [ch EXCEPT !.cut = TRUE, !.pc = "RENDER"]
                    ELSE [ch EXCEPT !.pc = "DONE"]

AfterDispatch(ch, answer) ==
  IF answer = "SUBMITTED" THEN [ch EXCEPT !.pc = "POLL"] ELSE Onward(ch)

\* A failed render is dispatched again within its bound, one the provider cannot
\* do at all is not.
AfterPoll(ch, answer) ==
  CASE answer = "RUNNING" -> [ch EXCEPT !.pc = "POLL"]
    [] answer = "SUCCEEDED" -> [ch EXCEPT !.pc = "QA"]
    [] answer = "FAILED" /\ ch.n < MaxAttempts -> [ch EXCEPT !.pc = "RENDER"]
    [] OTHER -> Onward(ch)

After(ch, op, answer) ==
  LET heard == [ch EXCEPT !.slot = 0, !.tries = 0]
  IN CASE op = "CUT" -> AfterCut(heard, answer)
       [] op = "DISPATCH" -> AfterDispatch(heard, answer)
       [] op = "POLL" -> AfterPoll(heard, answer)
       [] op = "QA" -> Onward(heard)
       [] op = "CANCEL" -> [heard EXCEPT !.pc = "DONE", !.stopped = TRUE]

\* A try ends with an answer; that of a stray is dropped.
Answers(i, answer) ==
  /\ try' = [try EXCEPT ![i] = Idle]
  /\ child' = IF child.slot = i THEN After(child, try[i].op, answer) ELSE child

FirstStep == [CUT |-> "AGENT", DISPATCH |-> "ATTEMPT", POLL |-> "READ",
              CANCEL |-> "READ", QA |-> "READ"]

Fresh(op, ch) == [Idle EXCEPT !.op = op, !.cut = <<ch.at, campaign.visit>>, !.n = ch.n,
                              !.pc = FirstStep[op]]

Calls(i, op, ch) ==
  /\ try[i] = Idle
  /\ try' = [try EXCEPT ![i] = Fresh(op, ch)]
  /\ child' = [ch EXCEPT !.slot = i, !.tries = 1]

Waits == child.slot # 0

AsksForCuts(i) == child.pc = "CUT" /\ ~Waits /\ Calls(i, "CUT", child)

\* The signal is looked at before every dispatch and every poll.
AsksForRender(i) ==
  /\ child.pc = "RENDER" /\ ~Waits /\ ~child.cancelled
  /\ Calls(i, "DISPATCH", [child EXCEPT !.n = @ + 1])

StopsBeforeRender ==
  /\ child.pc = "RENDER" /\ ~Waits /\ child.cancelled
  /\ child' = [child EXCEPT !.pc = "DONE", !.stopped = TRUE]
  /\ UNCHANGED try

AsksForPoll(i) == child.pc = "POLL" /\ ~Waits /\ ~child.cancelled /\ Calls(i, "POLL", child)
AsksForCancel(i) == child.pc = "POLL" /\ ~Waits /\ child.cancelled /\ Calls(i, "CANCEL", child)
AsksForQA(i) == child.pc = "QA" /\ ~Waits /\ Calls(i, "QA", child)

ChildActs ==
  /\ campaign.stage = "VARIANT_GENERATION" /\ campaign.status = "RUNNING"
  /\ \/ StopsBeforeRender
     \/ \E i \in Slots : \/ AsksForCuts(i) \/ AsksForRender(i) \/ AsksForPoll(i)
                         \/ AsksForCancel(i) \/ AsksForQA(i)
  /\ UNCHANGED <<campaign, strays, stored>>

\* The cancel endpoint's signal, while the child runs.
CancelSignal ==
  /\ campaign.stage = "VARIANT_GENERATION" /\ child.pc \notin {"DONE", "FAILED"}
  /\ ~child.cancelled
  /\ child' = [child EXCEPT !.cancelled = TRUE]
  /\ UNCHANGED <<campaign, try, strays, stored>>

\* A query throws or the worker dies: the server starts another try, or, after the
\* last, the activity has failed and the child with it.
NoAnswer(i) ==
  IF child.slot # i THEN Goes(i, Idle)
  ELSE \/ /\ child.tries < MaxTries
          /\ try' = [try EXCEPT ![i] = Fresh(@.op, child)]
          /\ child' = [child EXCEPT !.tries = @ + 1]
       \/ /\ child.tries = MaxTries
          /\ try' = [try EXCEPT ![i] = Idle]
          /\ child' = [child EXCEPT !.pc = "FAILED", !.slot = 0]

Die(i) ==
  /\ try[i] # Idle
  /\ NoAnswer(i)
  /\ UNCHANGED <<campaign, strays, stored>>

\* A try takes longer than startToCloseTimeout: the next one starts beside it.
TimeOut(i, j) ==
  /\ child.slot = i /\ child.tries < MaxTries
  /\ strays < MaxStrays /\ try[i].op \in SlowOps /\ try[j] = Idle
  /\ strays' = strays + 1
  /\ try' = [try EXCEPT ![j] = Fresh(try[i].op, child)]
  /\ child' = [child EXCEPT !.slot = j, !.tries = @ + 1]
  /\ UNCHANGED <<campaign, stored>>

-----------------------------------------------------------------------------
(* runVariantGeneratorActivity: every duration in turn.                    *)

Cut(i) == try[i].cut
Siblings(c) == {s \in Cuts : s[1] = c[1] /\ spec[s].exists}
Live(c) == {s \in Siblings(c) : ~spec[s].superseded}

\* On to the next duration's cut, or the answer.
CutDone(i) ==
  IF Cut(i)[1] = Last
    THEN Answers(i, "CUT")
    ELSE Goes(i, [Idle EXCEPT !.op = "CUT", !.cut = <<Cut(i)[1] + 1, Cut(i)[2]>>,
                              !.pc = "AGENT"])

\* The generator's invocation for the cut, answered by its record once it has one.
\* REFUSED is a failed invocation, or a cut that is not legal.
CutAgent(i) ==
  /\ At(i, "CUT", "AGENT")
  /\ \/ /\ agent[Cut(i)].generator = "NONE"
        /\ \E answer \in {"CUT", "REFUSED"} :
             agent' = [agent EXCEPT ![Cut(i)].generator = answer]
        /\ UNCHANGED <<try, child>>
     \/ /\ agent[Cut(i)].generator = "REFUSED"
        /\ Answers(i, "REFUSED")
        /\ UNCHANGED agent
     \/ /\ agent[Cut(i)].generator = "CUT"
        /\ Goes(i, [try[i] EXCEPT !.pc = "SIBLINGS"])
        /\ UNCHANGED agent
  /\ UNCHANGED <<campaign, strays, spec, attempt, job, ledger, rows>>

\* Mutant: a frozen cut is superseded like any other.
SupersedeAnyCut(i) ==
  /\ At(i, "CUT", "SIBLINGS")
  /\ IF spec[Cut(i)].exists THEN CutDone(i)
     ELSE Goes(i, [try[i] EXCEPT !.pc = "CREATE", !.live = Live(Cut(i))])
  /\ UNCHANGED <<campaign, strays, stored>>

\* A cut the invocation has made already is the answer; a frozen one of the
\* duration throws.
ReadSiblings(i) ==
  /\ At(i, "CUT", "SIBLINGS")
  /\ IF spec[Cut(i)].exists THEN CutDone(i)
     ELSE IF \E s \in Live(Cut(i)) : spec[s].approved THEN NoAnswer(i)
     ELSE Goes(i, [try[i] EXCEPT !.pc = "CREATE", !.live = Live(Cut(i))])
  /\ UNCHANGED <<campaign, strays, stored>>

\* The version is unique for the duration: a second row throws.
CreateCut(i) ==
  /\ At(i, "CUT", "CREATE")
  /\ IF spec[Cut(i)].exists
       THEN NoAnswer(i) /\ UNCHANGED spec
       ELSE /\ spec' = [spec EXCEPT ![Cut(i)].exists = TRUE]
            /\ Goes(i, [try[i] EXCEPT !.pc = "SUPERSEDE"])
  /\ UNCHANGED <<campaign, strays, agent, attempt, job, ledger, rows>>

SupersedeCuts(i) ==
  /\ At(i, "CUT", "SUPERSEDE")
  /\ \/ /\ try[i].live = {}
        /\ CutDone(i)
        /\ UNCHANGED spec
     \/ \E s \in try[i].live :
          /\ spec' = [spec EXCEPT ![s].superseded = TRUE]
          /\ Goes(i, [try[i] EXCEPT !.live = @ \ {s}])
  /\ UNCHANGED <<campaign, strays, agent, attempt, job, ledger, rows>>

-----------------------------------------------------------------------------
(* dispatchVariantRenderActivity.                                          *)

Status(i) == attempt[Cut(i)][try[i].n]
Sets(i, status) == attempt' = [attempt EXCEPT ![Cut(i)][try[i].n] = status]
Enters(i, entry) == ledger' = [ledger EXCEPT ![Cut(i)][try[i].n] = @ \cup {entry}]

\* A row without a provider job is dispatched; one with it, whatever its status
\* has become, is the answer.
TakeAttempt(i) ==
  /\ At(i, "DISPATCH", "ATTEMPT")
  /\ \/ /\ Status(i) \in {"NONE", "QUEUED", "NOT_SENT"}
        /\ IF Status(i) = "NONE" THEN Sets(i, "QUEUED") ELSE UNCHANGED attempt
        /\ Goes(i, [try[i] EXCEPT !.pc = "RESERVE"])
     \/ /\ Status(i) \notin {"NONE", "QUEUED", "NOT_SENT"}
        /\ Answers(i, "SUBMITTED")
        /\ UNCHANGED attempt
  /\ UNCHANGED <<campaign, strays, agent, spec, job, ledger, rows>>

\* What the policies have left is others' doing too; a reservation of the same key
\* stands in for a new one, also after it has been released.
Reserve(i) ==
  /\ At(i, "DISPATCH", "RESERVE")
  /\ \/ /\ Enters(i, "RESERVED")
        /\ Goes(i, [try[i] EXCEPT !.pc = "SUBMIT"])
     \/ /\ "RESERVED" \notin ledger[Cut(i)][try[i].n]
        /\ Goes(i, [try[i] EXCEPT !.pc = "FAIL"])
        /\ UNCHANGED ledger
  /\ UNCHANGED <<campaign, strays, agent, spec, attempt, job, rows>>

\* The provider takes the job, once for a key, or throws.
SubmitRender(i) ==
  /\ At(i, "DISPATCH", "SUBMIT")
  /\ \/ /\ job' = [job EXCEPT ![Cut(i)][try[i].n] = IF @ = "NONE" THEN "RUNNING" ELSE @]
        /\ Goes(i, [try[i] EXCEPT !.pc = "NOTE"])
     \/ /\ Goes(i, [try[i] EXCEPT !.pc = "UNDO"])
        /\ UNCHANGED job
  /\ UNCHANGED <<campaign, strays, agent, spec, attempt, ledger, rows>>

\* Writing the job down is inside the same try block: it may throw into the catch.  (One
\* that throws after it was written ends the attempt as FAILED, too, with its job noted:
\* the child goes on to the next duration and nothing polls it.)
NoteJob(i) ==
  /\ At(i, "DISPATCH", "NOTE")
  /\ \/ Sets(i, "SUBMITTED") /\ Answers(i, "SUBMITTED")
     \/ Goes(i, [try[i] EXCEPT !.pc = "UNDO"]) /\ UNCHANGED attempt
  /\ UNCHANGED <<campaign, strays, agent, spec, job, ledger, rows>>

ReleaseDispatch(i) ==
  /\ At(i, "DISPATCH", "UNDO")
  /\ Enters(i, "RELEASED")
  /\ Goes(i, [try[i] EXCEPT !.pc = "FAIL"])
  /\ UNCHANGED <<campaign, strays, agent, spec, attempt, job, rows>>

\* FAILED, with or without the provider job another try may have noted.
FailDispatch(i) ==
  /\ At(i, "DISPATCH", "FAIL")
  /\ Sets(i, IF Status(i) \in {"NONE", "QUEUED", "NOT_SENT"} THEN "NOT_SENT" ELSE "FAILED")
  /\ Answers(i, "FAILED")
  /\ UNCHANGED <<campaign, strays, agent, spec, job, ledger, rows>>
-----------------------------------------------------------------------------
(* pollVariantRenderActivity.                                              *)

Shows(status) == IF status = "RUNNING" THEN {"RUNNING"} \cup JobEndings ELSE {status}

\* An attempt that has ended is answered from its row.
ReadAttempt(i) ==
  /\ At(i, "POLL", "READ")
  /\ IF Status(i) = "SUCCEEDED" THEN Goes(i, [try[i] EXCEPT !.pc = "AGAIN"])
     ELSE IF Status(i) \in Ended THEN Answers(i, Status(i))
     ELSE Goes(i, [try[i] EXCEPT !.pc = "STATUS"])
  /\ UNCHANGED <<campaign, strays, stored>>

\* A row the render's asset never reached gets it now.
AnswerSucceeded(i) ==
  /\ At(i, "POLL", "AGAIN")
  /\ \E r \in DOMAIN rows[Cut(i)] :
       rows' = IF rows[Cut(i)][r].asset # 0 THEN rows
               ELSE [rows EXCEPT ![Cut(i)][r] = [status |-> "RENDERING", asset |-> try[i].n]]
  /\ Answers(i, "SUCCEEDED")
  /\ UNCHANGED <<campaign, strays, agent, spec, attempt, job, ledger>>

\* A job's end shows when the provider is asked, and may never come.  What it says
\* decides the order of what follows: a success is shown on the row and paid before
\* the attempt ends, a failure is given back and ends it before the row shows it.
AskProvider(i) ==
  /\ At(i, "POLL", "STATUS")
  /\ \E status \in Shows(job[Cut(i)][try[i].n]) :
       /\ job' = [job EXCEPT ![Cut(i)][try[i].n] = status]
       /\ Goes(i, [try[i] EXCEPT !.saw = status,
                                 !.pc = CASE status = "RUNNING" -> "NOTE"
                                          [] status = "SUCCEEDED" -> "ROW"
                                          [] OTHER -> "RELEASE"])
  /\ UNCHANGED <<campaign, strays, agent, spec, attempt, ledger, rows>>

\* Written over whatever the attempt has become meanwhile.
NoteRunning(i) ==
  /\ At(i, "POLL", "NOTE")
  /\ Sets(i, "SUBMITTED")
  /\ Answers(i, "RUNNING")
  /\ UNCHANGED <<campaign, strays, agent, spec, job, ledger, rows>>

\* Any row of the cut is found; nothing makes the row unique.
FindRow(i) ==
  /\ At(i, "POLL", "ROW")
  /\ IF rows[Cut(i)] = <<>>
       THEN Goes(i, [try[i] EXCEPT !.pc = "CREATE_ROW"])
       ELSE \E r \in DOMAIN rows[Cut(i)] : Goes(i, [try[i] EXCEPT !.row = r, !.pc = "MARK"])
  /\ UNCHANGED <<campaign, strays, stored>>

CreateRow(i) ==
  /\ At(i, "POLL", "CREATE_ROW")
  /\ rows' = [rows EXCEPT ![Cut(i)] = Append(@, [status |-> "PENDING", asset |-> 0])]
  /\ Goes(i, [try[i] EXCEPT !.row = Len(rows[Cut(i)]) + 1, !.pc = "MARK"])
  /\ UNCHANGED <<campaign, strays, agent, spec, attempt, job, ledger>>

\* Mutant: a delivered render makes the variant READY.
MarkReady(i) ==
  /\ At(i, "POLL", "MARK")
  /\ LET c == Cut(i)
         r == try[i].row
     IN IF try[i].saw = "SUCCEEDED"
          THEN /\ rows' = [rows EXCEPT ![c][r] = [status |-> "READY", asset |-> try[i].n]]
               /\ Goes(i, [try[i] EXCEPT !.pc = "CHARGE"])
          ELSE /\ rows' = [rows EXCEPT ![c][r].status = "FAILED"]
               /\ Answers(i, try[i].saw)
  /\ UNCHANGED <<campaign, strays, agent, spec, attempt, job, ledger>>

\* A success shows as RENDERING: only the QA re-run makes a variant READY.
MarkRow(i) ==
  /\ At(i, "POLL", "MARK")
  /\ LET c == Cut(i)
         r == try[i].row
     IN IF try[i].saw = "SUCCEEDED"
          THEN /\ rows' = [rows EXCEPT ![c][r] = [status |-> "RENDERING", asset |-> try[i].n]]
               /\ Goes(i, [try[i] EXCEPT !.pc = "CHARGE"])
          ELSE /\ rows' = [rows EXCEPT ![c][r].status = "FAILED"]
               /\ Answers(i, try[i].saw)
  /\ UNCHANGED <<campaign, strays, agent, spec, attempt, job, ledger>>

ChargeRender(i) ==
  /\ At(i, "POLL", "CHARGE")
  /\ Enters(i, "CHARGED")
  /\ Goes(i, [try[i] EXCEPT !.pc = "RELEASE"])
  /\ UNCHANGED <<campaign, strays, agent, spec, attempt, job, rows>>

ReleaseRender(i) ==
  /\ At(i, "POLL", "RELEASE")
  /\ Enters(i, "RELEASED")
  /\ Goes(i, [try[i] EXCEPT !.pc = "END"])
  /\ UNCHANGED <<campaign, strays, agent, spec, attempt, job, rows>>

EndAttempt(i) ==
  /\ At(i, "POLL", "END")
  /\ Sets(i, try[i].saw)
  /\ IF try[i].saw \in {"SUCCEEDED", "CANCELLED"}
       THEN Answers(i, try[i].saw)
       ELSE Goes(i, [try[i] EXCEPT !.pc = "ROW"])
  /\ UNCHANGED <<campaign, strays, agent, spec, job, ledger, rows>>

-----------------------------------------------------------------------------
(* cancelVariantRenderActivity.                                            *)

ReadForCancel(i) ==
  /\ At(i, "CANCEL", "READ")
  /\ IF Status(i) \in Ended \cup {"NOT_SENT"}
       THEN Answers(i, "NOT_CANCELLED")
       ELSE Goes(i, [try[i] EXCEPT !.pc = "STOP"])
  /\ UNCHANGED <<campaign, strays, stored>>

StopJob(i) ==
  /\ At(i, "CANCEL", "STOP")
  /\ \E status \in Shows(job[Cut(i)][try[i].n]) :
       job' = [job EXCEPT ![Cut(i)][try[i].n] =
                            IF status = "RUNNING" THEN "CANCELLED" ELSE status]
  /\ Goes(i, [try[i] EXCEPT !.pc = "UNDO"])
  /\ UNCHANGED <<campaign, strays, agent, spec, attempt, ledger, rows>>

ReleaseCancelled(i) ==
  /\ At(i, "CANCEL", "UNDO")
  /\ Enters(i, "RELEASED")
  /\ Goes(i, [try[i] EXCEPT !.pc = "END"])
  /\ UNCHANGED <<campaign, strays, agent, spec, attempt, job, rows>>

CancelAttempt(i) ==
  /\ At(i, "CANCEL", "END")
  /\ Sets(i, "CANCELLED")
  /\ Answers(i, "CANCELLED")
  /\ UNCHANGED <<campaign, strays, agent, spec, job, ledger, rows>>

-----------------------------------------------------------------------------
(* runVariantFinalQaActivity.                                              *)

\* A row without an asset cannot be judged.
ReadVariant(i) ==
  /\ At(i, "QA", "READ")
  /\ \E r \in DOMAIN rows[Cut(i)] :
       IF rows[Cut(i)][r].asset = 0
         THEN Answers(i, "NOT_RUN")
         ELSE Goes(i, [try[i] EXCEPT !.row = r, !.pc = "JUDGE"])
  /\ UNCHANGED <<campaign, strays, stored>>

\* One invocation judges the cut's asset, and its record answers every later try; one
\* of another stage is refused.  Its key names the asset: a cut has a second one only
\* where a dispatch outlives its timeout, and the two share their verdict here.
JudgeVariant(i) ==
  /\ At(i, "QA", "JUDGE")
  /\ \/ /\ agent[Cut(i)].qa = "NONE"
        /\ IF campaign.stage = "VARIANT_GENERATION"
             THEN /\ \E verdict \in {"PASS", "FAIL", "NOT_RUN"} :
                       agent' = [agent EXCEPT ![Cut(i)].qa = verdict]
                  /\ UNCHANGED <<try, child>>
             ELSE Answers(i, "NOT_RUN") /\ UNCHANGED agent
     \/ /\ agent[Cut(i)].qa = "NOT_RUN"
        /\ Answers(i, "NOT_RUN")
        /\ UNCHANGED agent
     \/ /\ agent[Cut(i)].qa \in {"PASS", "FAIL"}
        /\ Goes(i, [try[i] EXCEPT !.pc = "WRITE"])
        /\ UNCHANGED agent
  /\ UNCHANGED <<campaign, strays, spec, attempt, job, ledger, rows>>

WriteVerdict(i) ==
  /\ At(i, "QA", "WRITE")
  /\ LET passed == agent[Cut(i)].qa = "PASS"
     IN /\ rows' = [rows EXCEPT ![Cut(i)][try[i].row].status =
                                   IF passed THEN "READY" ELSE "FAILED"]
        /\ IF passed THEN Goes(i, [try[i] EXCEPT !.pc = "FREEZE"]) ELSE Answers(i, "FAIL")
  /\ UNCHANGED <<campaign, strays, agent, spec, attempt, job, ledger>>

FreezeCut(i) ==
  /\ At(i, "QA", "FREEZE")
  /\ spec' = [spec EXCEPT ![Cut(i)].approved = TRUE]
  /\ Answers(i, "PASS")
  /\ UNCHANGED <<campaign, strays, agent, attempt, job, ledger, rows>>

-----------------------------------------------------------------------------
(* The campaign's workflow around the child, and the facts it reads.       *)

Rows == UNION {{c} \X DOMAIN rows[c] : c \in Cuts}
RowStatus(x) == rows[x[1]][x[2]].status

variantsGenerated == Rows # {}
variantQAFailed == \E x \in Rows : RowStatus(x) = "FAILED"

variantQAPassed == Rows # {} /\ \A x \in Rows : RowStatus(x) = "READY"

Moves(stage) == campaign' = [campaign EXCEPT !.stage = stage]
Ends(status) == campaign' = [campaign EXCEPT !.status = status]

\* A child that was cancelled or made no cuts blocks the campaign, one that failed
\* takes its workflow with it; any other goes on, whatever became of its cuts.
ChildReturns ==
  /\ campaign.stage = "VARIANT_GENERATION" /\ campaign.status = "RUNNING"
  /\ \/ child.pc = "FAILED" /\ Ends("FAILED")
     \/ /\ child.pc = "DONE" /\ child.cut /\ variantsGenerated
        /\ ~child.stopped
        /\ Moves("VARIANT_QA")
     \/ /\ child.pc = "DONE"
        /\ ~child.cut \/ ~variantsGenerated \/ child.stopped
        /\ Ends("BLOCKED")
  /\ UNCHANGED <<child, try, strays, stored>>

\* Forward when every row is READY; back for a repair within the bound, by an edge
\* that wants a FAILED row.
JudgeVariants ==
  /\ campaign.stage = "VARIANT_QA" /\ campaign.status = "RUNNING"
  /\ \/ /\ variantQAPassed
        /\ Moves("EXPORTING")
        /\ UNCHANGED child
     \/ /\ ~variantQAPassed /\ variantQAFailed /\ campaign.visit < MaxVisits
        /\ campaign' = [campaign EXCEPT !.stage = "VARIANT_GENERATION", !.visit = @ + 1]
        /\ child' = NewChild
     \/ /\ ~variantQAPassed
        /\ campaign.visit = MaxVisits \/ ~variantQAFailed
        /\ Ends("BLOCKED")
        /\ UNCHANGED child
  /\ UNCHANGED <<try, strays, stored>>

Work(i) ==
  \/ CutAgent(i) \/ ReadSiblings(i) \/ CreateCut(i) \/ SupersedeCuts(i)
  \/ TakeAttempt(i) \/ Reserve(i) \/ SubmitRender(i) \/ NoteJob(i)
  \/ ReleaseDispatch(i) \/ FailDispatch(i)
  \/ ReadAttempt(i) \/ AnswerSucceeded(i) \/ AskProvider(i) \/ NoteRunning(i) \/ FindRow(i)
  \/ CreateRow(i) \/ MarkRow(i) \/ ChargeRender(i) \/ ReleaseRender(i) \/ EndAttempt(i)
  \/ ReadForCancel(i) \/ StopJob(i) \/ ReleaseCancelled(i) \/ CancelAttempt(i)
  \/ ReadVariant(i) \/ JudgeVariant(i) \/ WriteVerdict(i) \/ FreezeCut(i)

Next ==
  \/ ChildActs \/ CancelSignal \/ ChildReturns \/ JudgeVariants
  \/ \E i \in Slots : Work(i) \/ Die(i)
  \/ \E i, j \in Slots : TimeOut(i, j)

Spec == Init /\ [][Next]_vars

-----------------------------------------------------------------------------
(* What must hold.                                                         *)

\* A variant is READY only for an asset that the provider delivered, that passed
\* the QA re-run, and whose render is charged and its reservation given back, at
\* whichever step the tries of the render and of the QA died or were overtaken.
ReadyIsEarned ==
  \A x \in Rows :
    RowStatus(x) = "READY" =>
      LET c == x[1]
          n == rows[c][x[2]].asset
      IN /\ n # 0 /\ agent[c].qa = "PASS"
         /\ job[c][n] = "SUCCEEDED"
         /\ {"CHARGED", "RELEASED"} \subseteq ledger[c][n]

\* "An approved cut is the artifact downstream export would ship": once approved it
\* is never superseded by a later visit's cut.  Where two overlapping polls
\* have each created a row for the cut, the QA's tries may judge different rows and
\* a late one approve a cut that has a successor; those are excepted.
FrozenStays ==
  [][\A c \in Cuts : spec[c].approved /\ ~spec[c].superseded /\ Len(rows[c]) <= 1
                       => ~spec'[c].superseded]_vars

\* The rows of the cuts that no later visit has replaced.
InForce == {x \in Rows : ~spec[x[1]].superseded}

\* "The second pass: everything passes this time" goes on to the export: a campaign is
\* not blocked for its variants while every cut in force is READY.  The code breaks
\* it: variantQAPassed asks of the rows of replaced cuts, too.
RepairedGoesOn ==
  campaign.stage = "VARIANT_QA" /\ campaign.status = "BLOCKED"
    => ~(InForce # {} /\ \A x \in InForce : RowStatus(x) = "READY")
=============================================================================
