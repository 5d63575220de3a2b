# A verification of Combat Creative OS: the campaign, its human gates and its paid jobs

This directory holds TLA+ specifications of Combat Creative OS. Three of them
decide what happens to a campaign: the Temporal workflow that drives it with its
reviewers and its operator, the service that moves its persisted stage, and the
versioned selection the reviewers freeze. Four spend money or make what is paid
for: shot generation, the agents' invocations, variant renders, and the command
line's storyboard run. One is the finishing round of a master, kept in files.
TLC checks them on small instances; TLAPS proves the central results for every
set of reviewers, shots, tries and stages, every bound and every outcome.

Run a check with `tlc -config Concept.cfg MCCampaignProduction`, a proof with
`tlapm CampaignProductionProofs.tla`.

## 1. The system

| Part | Where | State it keeps | Operations |
| --- | --- | --- | --- |
| Transition table | `packages/domain/src/workflow/transition-rules.ts` | none: 19 forward and 19 revision edges, each with a gate or facts | `evaluateCampaignTransition` |
| Transition facts | `packages/database/src/repositories/transition-facts.ts` | none: derived from the rows of 15 tables | `loadTransitionFactInputs`, `computeTransitionFacts` |
| Transition service | `.../repositories/campaign-transition-service.ts`, `activities/advance-campaign-stage-activity.ts` | `Campaign.currentStage`, `version`, the transition audit | AUTO_FORWARD, AUTO_RETRY, GATE_DECISION |
| Production workflow | `packages/workflows/src/workflows/campaign-production-workflow*.ts` | current stage, status, pending gate, revision counts, processed approvals, signal queue, variant repairs | one loop; three signals |
| Human gates | `apps/api/src/approval-routes.ts`, `shot-review-routes.ts`, `human-approval-repository.ts`, `verify-*-activity.ts` | append-only `HumanApproval` rows | approve, reject, request changes; signal |
| Shot selection | `shot-selection-repository.ts`, `candidate-eligibility*.ts` | `ShotSelectionSet` (DRAFT, APPROVED; revision), its `ShotSelection`s | draft, select, reject, freeze, verify |
| Start and brief | `apps/api/src/campaign-routes.ts` | `CampaignBrief` | submit the brief, start the workflow |
| Specialist-agent stages | `activities/run-*-activity.ts` | strategy, concept, script, specifications, assessments, edits, plans | one activity per stage |
| Agent execution | `execute-specialist-agent-activity.ts`, `packages/agent-runtime` | `AgentInvocation` rows | look up, reserve, call, true up, record |
| Shot generation | `shot-generation-workflow*.ts`, `dispatch-`, `poll-`, `cancel-shot-generation-activity.ts` | jobs, attempts, candidates | dispatch, poll, retry, cancel |
| Variants | `variant-workflow*.ts`, the generator, render and QA activities, `variant-repositories.ts` | specifications, attempts, `CreativeVariant`s | cut, dispatch, poll, judge, cancel |
| Compositing | `compositing-workflow*.ts` and its activities | render jobs, rough edits | edit, render, cancel |
| Budget ledger | `budget-repository.ts`, `budget-transaction.ts` | policies and ledger rows | reserve, charge, release, settle |
| Storyboard video, motion review | `apps/aamp-cli/src/storyboard-video` and the commands beside it | clips, generation cache, published sources, decision ledger: files | price, buy, publish, gate, render; review |
| Finishing round | `apps/aamp-cli/src/finishing` | plans, records, comparisons, selections, scorecard, verdict: files | open, propose, select, finalize |
| Performance analysis, media ingest, providers, agents, dashboard, worker process, the other commands | the other packages and apps | see `PROJECT.json` | |

**How they interact.** The workflow is the only writer of the stage. At every
stage it runs that stage's activity (its *hook*), which writes rows, and then
asks the transition service to advance. The service reads the rows again,
computes the facts the table asks for, and moves the campaign by a
compare-and-swap on `currentStage` and `version`. At `CONCEPT_REVIEW`,
`HUMAN_SHOT_SELECTION` and `FINAL_APPROVAL` an automatic advance is refused
with `GATE_REQUIRED` and the workflow waits for a signal. The API records a
decision as a row, then signals the workflow with the row's id; the workflow
verifies the row and applies it. Start requests and draft editing come at any
time. Child workflows generate the shots, the composite and the variants; they,
and every agent, reserve and settle in the same ledger. The command line does not
share the database: its runs keep files, and meet only other commands over them.

**What is hard.**

* A decision exists twice, as a row and as a signal, written in two steps by a
  process that may die in between; signals may be resent, queue up before a
  gate opens and outlive the gate they were meant for.
* The workflow has a stage of its own. It is copied from the database when it
  is started, by a request that read it earlier, and an attempt may move the
  database and die before it tells the workflow. From then on the two disagree.
* Facts are existential ("some candidate passed", "the latest decision is an
  approval") over rows that accumulate over retries, regenerations, repairs
  and restarts, while the workflow routes by what its activities just told it.
* Activities are retried and keyed, so a second visit to a stage may replay. One
  that is timed out goes on as a *stray* beside its retry and what comes after,
  and writes the same rows under the same keys. A try may end between any two
  of its writes.
* No statement sequence of a handler is in a transaction, but for the budget's
  reservation; what guards a write (a status, a revision, a version, a unique
  key) was read some awaits before it.
* The offline commands read a ledger, a cache or a plan once and act on it while
  it is edited, and may die between any two of the files they write.

**What makes it correct**, part by part. The table and the service only move a
campaign along an edge, one move at a time, on facts that hold, and the audit
trail is true. A gate is crossed in its turn, by a verified decision of that gate
only, on an approval that was the latest decision there at some moment since the
campaign came to it; only the concept's gate is ever left again, and must then be
crossed anew; a run grants no more revisions than the bound and counts each
decision once; the artefacts a stage needs are there when it starts; a queued decision is taken up,
and automatic work ends. A selection that was frozen is what its approver saw,
holds only candidates that passed, and is what the campaign crosses with. A shot
has one paid job at a time, each is settled at its cost, the caps hold, no
reservation is left behind. An agent's reservation is all or nothing and what is
recorded is settled. A READY variant was delivered, judged and paid for. No
storyboard run spends more than it priced or buys twice what was kept, and its
film holds what was approved. A finished master was watched, stage by stage.

## 2. The modules

| Module | What it is |
| --- | --- |
| `TransitionRules` | The table: every edge with its fact, the gates, and how the advance activity picks an edge. Constants only. |
| `CampaignProduction` | The campaign: database rows, workflow, API and operator, one action per database-visible step. |
| `GateProtocol` | What the gates promise, whatever drives the campaign: a gate is found approved and then crossed, in its turn; a way back is over the reopened gates only. |
| `CampaignTransition` | One transition taken apart: every awaited query of the advance activity and of `attemptCampaignTransition`, its tries and their timeouts. |
| `StageMachine` | What a transition promises of the campaign row: it moves along an edge, on a fact that has held since the last move. |
| `ShotSelection` | Drafting, selecting, rejecting, freezing and verifying a selection set, statement by statement. |
| `ShotGeneration` | One run of `shotGenerationWorkflow`: its shots, the tries of its three activities, the provider's jobs and the ledger. |
| `AgentInvocation` | `executeSpecialistAgentActivity` and the budget transaction, with overlapping tries of several invocations. |
| `Variants` | `variantWorkflow` and its five activities over the parent's visits and repairs. |
| `StoryboardVideo` | The paid storyboard run of the command line and the motion review beside it. |
| `FinishingRound` | The finishing commands over a run's directory. |
| `*Proofs` | The theorems, see section 5. |
| `MC*` | Instances for TLC. |

`CampaignProduction` composes all of the campaign's actors. It takes a child
workflow, an agent and an edit of a selection as single steps, and an attempt at a
transition as three: the look, the swap, the answer; `CampaignTransition`,
`ShotGeneration`, `Variants`, `AgentInvocation` and `ShotSelection` each take one of
them further apart.

### CampaignProduction

*Database.* `stage` is `Campaign.currentStage`; `approvals` the `HumanApproval`
rows in the order they were written (an index is an id); `concepts` and
`scripts` the latest versions of strategy/concept and script; `candidates` the
succeeded candidates with the two verdicts kept on each; `sets`, `draft`,
`chosen` the selection sets; `edits` the rough edits, each with what hangs on it
(rendered, scored, the verdict on its master); `variants` the re-cuts.
`Fact` is `computeTransitionFacts`: the disjuncts are the facts some row can
make true. No code of the repository writes an EXPORT render job or an
assessment of a compositing, rough-cut or sound-design asset, so those facts
have no disjunct and a campaign stops in `EXPORTING`.

*Workflow.* `run` counts executions, `wfStage`, `status`, `pendingGate`,
`revisionCounts`, `processed`, `signals`, `repairs` are the fields of
`CampaignProductionWorkflowState` and the incoming-signal queue. `step` is the
place in the loop: `TOP`, `CHILD` (selection checked, compositing child next),
`HELD` (a decision is verified, its selection is not yet), or, while the advance
activity is out (`Asking`), how far the execution is that the server waits for.
Every activity is an action: it contains its stage check (`AtItsStage`, made by
the agents against the *database's* stage), all its writes, and the reducer that
takes its result. A failed result, a thrown activity error and a failed execution
all leave the execution closed: `BLOCKED`, signals gone.

*The advance.* `GoForward`, `RetryTowards` and `AskForDecision` ask for a `target`,
for the decision `held` if there is one, with `left` more executions to be had.
An execution reads campaign and facts and judges the edge from the stage it reads
(`Look`), changes the row if nobody has since (`Swap`), and answers with the stage
the campaign then has (`Answer`), an answer the workflow takes for its own place;
or it has been overtaken (`Lose`). It may end at any await (`Die`), or be
timed out by the server and run on (`TimeOut`): `late[t]` is such an execution,
which looks (`LookLate`) and swaps (`SwapLate`) whenever it gets to it, beside the
retry of its ask (`mine`) or long after the ask is over. `astray` is history: one
of the latter has moved the campaign.

*API.* `req[r]` is a handler in flight, at the await it has reached: `READ` (the
campaign has been read), `FROZEN` (the selection has been frozen), `RECORD`
(no earlier row was found to match), `SIGNAL`. `LoseRequest` is a crash between
two of its writes. `starting` is a start request that has read the stage.

*Abstractions.* The shots of a script are one aggregate shot, the cuts of one
re-cut one variant: facts over all shots become facts over it. The reads of an
attempt at a transition are one step and its audit rows are kept with the
execution that wrote them; `CampaignTransition` has each query by itself, and the
rows. An advance is the only activity with late executions here; those of the
others are in the modules that take them apart. `Elsewhere` is what the assessments of *other* campaigns'
masters say, because the query behind the facts reads them.

### ShotGeneration

*Database.* `ledger[p][k]` is the set of entries at policy `p` that carry the key
`k` of an attempt, or a key derived from it: the reservation's, `:charge`,
`:release`. Each is unique, so a set is all there is to know; the amounts are the
estimate and the provider's cost. `attempts` are the attempt rows, `attemptCount`
is the job row's, `assets` how far the delivered candidate is registered: its row
(`CANDIDATE`), the asset (`STORED`), the link between them (`LINKED`).

*Workflow.* `shots[s]` is where `runShotToTerminal` is: `TOP` of its loop, waiting
for an activity (`DISPATCH`, `POLL`, `CANCEL`), asleep, or done; `n` is
`attemptNumber` and `tries` counts the tries of the activity it waits for.

*Activities.* `exec[s][e]` is one execution of one of shot `s`'s activities and
the await it has reached; what it read before an await and uses after it, it
carries along (`seen`, `outcome`). `live[s]` is the execution whose answer the
server still waits for. Any other is a stray: it goes on, and its answer is
dropped. `TimeOut` makes one of a live try; `Crash` ends a try anywhere.

*Provider.* It has one job per key, so that a repeated `submit` returns the same
job. `FinishJob` ends a job with a clip, with a file that fails the inspection,
or with a failure.

*Abstractions.* An attempt has one candidate. TIMED_OUT is FAILED; QUEUED and
POLLING are SUBMITTED; no code tells them apart. A specification that is not
found, an unsupported capability and a provider error at dispatch all end the
shot and are one outcome. A reservation is one step, because its transaction is
serializable. Costs and estimates are positive (a zero writes no entry). The
verdict on a delivered file is a property of the file. The job row's status is
left out: nothing here reads it.

### CampaignTransition

`stage`, `version` are the campaign row, `audit` the audit rows by idempotency
key, `try[t]` an execution of the activity and the query it is at (`FIND` the
audit, `READ` the campaign, `EVALUATE` the facts, `SWAP`, `REREAD`, `AUDIT`,
`ANSWER`), carrying what it read: `seenStage` and `seenVersion`. `live` is the
execution the server waits for, `left` the tries it may still start, `wf` the
workflow's stage and its ask. The facts are opaque: `Learn` has an agent, a
provider or a reviewer write or take back what `Learnable` allows at the stage,
`Rivals` being facts of which one at most holds (a gate's latest decision).
`since` and `moved` are history: the facts that have held since the last move, and
the moves made under each key. *Left out*: the budget argument of a transition,
which no caller passes.

### ShotSelection

`set[v]` is a `ShotSelectionSet`, its rows and its revision; `request[r]` a
handler of a reviewer and the await it has reached, with what it read (the
revision, the eligible candidates, the row it will replace); `crossing` the
verification by the workflow, which reads the set and then the candidates.
`seen` is history: what the approver saw, when nobody else was at work on the set
as he looked. *Abstractions*: a candidate is eligible when its generation
succeeded and both assessments passed; ids are versions and positions.

### AgentInvocation

`try[k][n]` is the n-th try of invocation `k`: it finds the record, begins the
transaction (`snapshot`), commits or aborts it, calls, charges and releases policy
by policy, and records. PostgreSQL's SERIALIZABLE is `Conflicts`: of two
transactions that read one policy's rows and both insert reservations there, the
second aborts; charges and releases are written outside it. *Abstractions*: one
call or a corrective second one is one step that reports the last cost, as the
code does, also when the agent failed; the agent's output, and the record of an
agent that is not registered, which no charge or reservation goes with, are left
out.

### Variants

`child` is `variantWorkflow`: the duration it is at, the attempt, what it waits
for; `try[i]` a try of one of the five activities and the await it is at; `agent`
the recorded answers of the two agents; `spec`, `attempt`, `ledger`, `rows` the
tables. A cut is a duration and the visit that made it. *Abstractions*: the budget
levels of a render are one set of entries per attempt; how a job ends is decided
when the provider is asked; an asset is named by the attempt that delivered it; a
second row of one cut (two polls that both found none) is possible, a third is
not; the QA agent's answer is kept per cut; a write of SUBMITTED that takes effect
and throws all the same is a failed one; the child's COMPLETED and its BLOCKED with entries are not told apart, because
the parent does not; the parent reads the facts of `variantQAPassed` in one step.

### StoryboardVideo

`clips` are the clips bought, a clip's number standing for its bytes; `cache`,
`index` and `ledger` are `generation-cache.json`, `generated-sources.json` and the
review ledger; `run` is the run in progress, with the manifest and the length of
the ledger as it read them; `look` the review command. `Begin`,
`findRejectedScenes`, `Price`, `Obtain`, `Save`, `Review` and `Render` are the
stages of `runStoryboardVideo`, `Die` a death between two writes and
`DieInReview`, and one outcome of `Save`, a death that cuts a file short.
*Abstractions*: the prompt stands for
everything that identifies a scene's content (manifest entry, keyframe,
contract); a read of the manifest finds any combination of drafts; cost is
counted in scenes, so the two ceilings are one; a run that is dry or has no key ends in
`Price`; the cache in memory is the file, since one run works in a directory;
acquired footage, which is never bought, and the routing of product stories are
left out.

### FinishingRound

One variable per kind of file; `command[t]` is what a terminal is running and the
file it writes next. A plan is the sequence of changes that made it, and stands
for its checksum and for the master cut from it; a time is the number of the command that read the clock; candidate 0 is the control.
`writeOnce` is what it is in the code, a look for the file (`LooksFor`) and, if none
is there, a write in a later step (`Puts`): two terminals may both look before
either writes. `overwritten` is history, the files that were written over with other
content in this way. The operations of a directive's list are one change; a command
refused before it writes leaves no trace. `EditByHand` changes a plan file, and no edit is exactly undone. A skipped render
and a failed one are the same empty master; a candidate passes its automatic QA
if it was rendered.

## 3. What is checked

| Run | Properties | What is allowed to happen |
| --- | --- | --- |
| `Concept` | `TypeOK`, `RevisionsBounded`, `WaitsAtItsGate`, `OnlyDecisionsCross`, `KeepsGateProtocol` | two requests of two reviewers at once, resends, lost requests, failing activities, a restart on a stale stage, executions of the advance that the server timed out, before and at the concept gate |
| `Whole` | `StagesBuildOnArtefacts`, `RevisionsBounded`, `KeepsGateProtocol`, `DecisionTakenUp`, `RunSettles` | one execution of the whole pipeline under fairness: rejections at every gate, decisions before the concept gate opens, shots that fail their checks, failing masters and repairs, failing variants, late executions at the last two gates |
| `Transition` | `TypeOK`, `AppliedRowsAreMoves`, `ImplementsStageMachine`, `GoesOnOnlyWhenMoved`, `AskEnds` | two executions at a time of three asks, timed out ones beside their retries, each dying anywhere; facts change at every stage |
| `ShotSelection` | `FrozenAsSeen`, `OneEditPerRevision`, `OnlyPassedAreNamed`, `CrossesAsFrozen` | two reviewers' handlers interleaved and dying, candidates arriving, a revised script, two sets |
| `Generation` | `TypeOK`, `SettledAtCost`, `OneJobAtATime`, `PaidOnce`, `CountsNoReplay`, `ShotsEnd` | one shot, two attempts, two scopes; strays, calls of the dispatch that throw after or before they took effect, cancellation |
| `GenerationBatch` | `ClosedWhenDone`, `WithinCaps` | two shots of one batch at a cap that holds one job; a crash anywhere; cancellation |
| `Ledger` | `WithinCaps`, `AllOrNothing`, `SettledBeforeRecorded` | two invocations at a shared policy, one capped twice; overlapping tries, aborted transactions, deaths |
| `Variants` | `ReadyIsEarned`, `FrozenStays` | two visits of two renders, tries that die or run on past their timeout, cancellation |
| `StoryboardVideo` | `RenderedAsApproved`, `CutFitsItsScene`, `ApprovedStays`, `SpentAsPriced`, `BoughtAgainOnlyWhenAsked` | three runs of either intent, asked to regenerate anything, over a generated scene and one supplied by hand; prompts edited and edited back, up to three decisions before and during the runs, a death anywhere |
| `FinishingRound` | `SelectedWasWatched`, `OneChangePerStage`, `PremiumIsEarned` | two terminals, six commands over two stages, each file looked for and written in two steps, failing renders, a plan edited by hand, a death anywhere |
| `DoubleCount` | `SettledAtCost`, expected to be violated | as `Ledger`; see section 4 |
| `VariantRepair` | `RepairedGoesOn`, expected to be violated | one duration, two visits, nothing late and nothing dying: a variant fails its check and its repair passes; see section 4 |

The campaign:

* `RevisionsBounded`: a run grants a gate as many revisions as it applied
  distinct non-approving decisions there, and at most the bound, whatever is
  resent or queued twice.
* `WaitsAtItsGate`: a waiting workflow waits at the gate of the stage it believes
  in, and the *first* execution of a campaign, when it is not waiting for an answer,
  believes in the stage the database has. It does not once a late execution has
  moved the campaign for an ask that is over (`astray`), nor does a later execution
  of the workflow, which a start request may have begun at a stage gone stale. That
  is why the other properties are not stated over `wfStage`.
* `OnlyDecisionsCross`: the campaign gets behind a gate only in the step of an
  execution, live or late, that was asked for by a recorded approval of that gate;
  never of an automatic ask, though its edge is looked up from whatever stage it
  finds.
* `KeepsGateProtocol`: the rows, the stage and the executions about to swap, read
  through `decided`, `crossed` and `opened`, implement `GateProtocol`. An execution
  looks at the facts and swaps later, so a rejection recorded in between does not
  keep the campaign from crossing: what is promised is that the approval was the
  latest decision at some moment since the campaign came to the gate. `SCRIPT_REVIEW`
  goes back to `CONCEPT_REVIEW` on no fact, and a late AUTO_FORWARD of
  `STRATEGY_REVIEW` takes that edge: CONCEPT is the one gate that is reopened.
* `StagesBuildOnArtefacts`: each stage's input exists when it starts: one
  candidate that itself passed both checks before the reviewers choose, a frozen
  set before the edit, a rendered edit, a passed master before the final gate, but
  that the query takes another campaign's (section 4). The facts are existential, so
  this is a property of the order of the stages and of the agents' own refusals, not
  of any one guard.
* `DecisionTakenUp`, `RunSettles`: a queued decision for the gate the workflow
  waits at is taken up; automatic work comes to a gate, a block or the end.
* `ImplementsStageMachine`: whatever executions overlap, the row moves along an
  edge on a fact that has held since it last moved. The version in the
  compare-and-swap is what turns away facts read on an earlier visit to the stage.
* `AppliedRowsAreMoves`: an APPLIED audit row names a move its key has made.
* `GoesOnOnlyWhenMoved`: the workflow takes a stage for reached only when its ask
  moved the campaign; a timed out ask's late answer is not taken for another's.
* `AskEnds`: an ask is answered or given up.
* `FrozenAsSeen`: a frozen set holds, for ever, what its approver saw. Sets that
  someone else was editing as he looked are excepted: an edit that passed its
  compare-and-swap before the freeze may write its row after it.
* `OneEditPerRevision`, `OnlyPassedAreNamed`, `CrossesAsFrozen`: no two pending
  edits of a set took one revision; no row and no history ever names a candidate
  of another shot or one that did not pass; the campaign crosses with such a set.

The money:

* `SettledAtCost` (shot generation): an attempt recorded as a success was
  delivered, has its linked asset, and at every scope its reservation is charged
  and released, whichever executions did the parts of that.
* `OneJobAtATime`: while one job of a shot runs, or once one has delivered, no
  other attempt of the shot has a job.
* `PaidOnce`: no charge without a usable clip, and one charged attempt per shot
  and scope. `CountsNoReplay`: the attempt count is never above the submitted
  attempts. (It may be below: a crash between row and count loses it.)
* `ClosedWhenDone`: when the workflow returns, every reservation is released,
  whatever ended the shots. `ShotsEnd`: the workflow ends, by its shots or by an
  activity that used up its tries.
* `WithinCaps`: what is charged, and reserved for the rest, fits every cap. In
  `GenerationBatch` it needs jobs that cost no more than their estimate and calls
  of the dispatch that do not throw (section 4). In `Ledger` a call may cost more
  than its estimate; there the property bounds what an invocation *binds*, its
  charge held to the estimate, which is what a reservation can promise.
* `AllOrNothing`, `SettledBeforeRecorded`: an invocation is reserved at all its
  policies or at none; a recorded result is settled at every one.
* `ReadyIsEarned`: a READY variant's asset was delivered, passed the QA, and its
  render is charged and released. `FrozenStays`: an approved cut is never
  superseded; cuts for which two polls each made a row are excepted.
  `RepairedGoesOn`, that a campaign is not blocked for its variants while every cut
  in force is READY, is what the code means and does not do (section 4).

The files:

* `SpentAsPriced`: a run submits no more jobs than it priced, nor than its
  ceiling: the two places that consult the cache decide alike.
  `BoughtAgainOnlyWhenAsked`: what was bought and kept is not bought again
  unasked, unless a death cost the cache its entry.
* `RenderedAsApproved`, `CutFitsItsScene`, `ApprovedStays`: a production master
  is cut from clips approved as they are, for their scene and prompt, with no later
  rejection among the decisions the run read; no other clip takes an
  approved one's place.
* `SelectedWasWatched`: a selection pins the plan its master was cut from,
  whatever happened to the files since. `OneChangePerStage`: each stage changes
  the plan approved before it by the operations of one directive on record, or not
  at all. `PremiumIsEarned`: the files that close a round agree with each other, the
  selections and the one scorecard, whatever dies and is sent again. All three are
  stated of a round in which no write-once file was written over (`Intact`): two
  commands that look for one file together both write it (section 4), and from then
  on nothing is promised. Short of that, every overlap of two terminals is in the run.

**Bounds, and why they are enough.** They are constants of the models.
`MaxRevisionsPerGate` is the code's parameter (3 by default): 2 in `Concept`, where
two rejections meet it, 1 in `Whole`, where a further rejection is beyond it.
`MaxApprovals` is 2 in `Concept` (two reviewers agree, disagree, or one decides
twice) and 3 in `Whole` (all three gates are decided, or one of them again).
`MaxSignals` 1 has one signal queued while another is handled or sent again.
`MaxTries` is 2 where the code has 5: an execution and its retry. `Late` is one
timed-out execution at a time; `LateFrom` are the stages whose asks may time out:
those around the concept gate in `Concept`, from where a late execution can find an
edge other than the one asked for, and the last two gates in `Whole`. `MaxRuns` 2
in `Concept` gives a restart; `Whole` has 1, one set and one edit, so that a repair
that wants a second edit ends there. Second runs, superseded sets and edits over
the whole pipeline are the theorems' (section 5), which have no bound.
`Horizon` is the set of stages the worker works in; `Concept` stops at its gate.
`DecideAt` says which gate's decisions are sent in which stage; `AroundGates`
sends the concept's before its gate opens as well. `Elsewhere`, what assessments
of other campaigns' masters say, is empty (section 4). The two reviewers of
`Concept` are interchangeable, each with the request he sends (symmetry).
In `CampaignTransition` two executions and three asks let one execution stray
through a whole later ask; `StartStages` are the stages around a gate, before a
repair edge and at the end of the path, with the facts of those. In `ShotSelection` two
candidates of one shot, a second script and two sets give every replacement,
a stale script and a superseded set; reviewers are interchangeable
(symmetry). In `ShotGeneration` `MaxTries` is 2 where the code has 5 and
`MaxAttempts` 2 where it has 3 (a first, a last, and something to go wrong in
both). `Slots` 2 lets one stray run beside the live try, through both attempts and
a cancellation. `Generation` has no crashes, because a stray that nobody waits for
and that stops is a lost try already; `GenerationBatch` has one crash and no
strays. `OneJob` is a cap of 3 with an estimate of 2. In `AgentInvocation` the
caps hold one of the two invocations, costs lie on both sides of the estimate and
two transactions (10 in the code) give an abort that is retried and one that is
not. In `Variants` one duration with two visits, two attempts, two tries and one
stray; the cut, the poll and the QA are the activities that are slow, and jobs
succeed or fail (the other two endings of a job take the failure's path). In
`StoryboardVideo` a ceiling of one scene is met and exceeded; two clips are one
bought and one bought anew; the constraint `Few` lets three decisions meet two runs,
an approval, a rejection and one more between or during them, and two decisions meet
three runs. `VariantRepair` has the least of everything that has a repair. In `FinishingRound` two stages are a first and a last
(the code has four), the six commands a proposal, a selection, and one of each
for the second stage, and two finalizations, or repeats of any. The constraint
`Intact` stops where a file was written over: all three properties except what
comes after, and nothing undoes it.

**Deadlock** is not checked: a campaign that is blocked, or waits and is not
decided, or has used up a bound of the model, rightly stops; so does a
workflow that ended, and files nobody works on.

**Fairness.** Of the campaign it is `WF_vars(Worker)`: Temporal retries an
activity until it answers and a worker polls for ever, so the workflow takes a
step if it can, failing ones included. Nothing is assumed of humans, of the API,
or of which outcome an activity has. Two loops have no end in the code: the shot
loop, where a second visit replays the first, and the repair loop of a master.
`RunSettles` excepts the stages of those loops (`Loops`) and says that the work
settles everywhere else. `Worker` holds the steps of the execution the server waits
for (`Look`, `Swap`, `Answer`, `Lose`); of the server's timeouts and of executions it
has let go nothing is assumed. Of a
transition: the server starts tries and times out those that do not answer, and a
query returns or throws. Of shot generation it is, for each shot, that
of `Awaited`: the workflow's own step, the start of a try, or a step of the try it
waits for. A stray need not go on, since nothing makes it. The provider ends each
job it has accepted (`WF_vars(FinishJob(k))`): the loop of polls has no deadline
of its own, so without that `ShotsEnd` is false, in the code as in the model. The
other modules state no liveness: variants poll without a deadline as shots
do, and commands are run by people.

## 4. Where the code and its documentation part

`DoubleCount` checks what the comment of `computeSpentCents` says of every
settlement path, that a finished job counts its charge and nothing of its
reservation, and finds it violated on the agents' path:
`execute-specialist-agent-activity.ts:308` charges the cost and releases only what
the reservation exceeds it by, so an agent that ran within its estimate is counted
twice.

`VariantRepair` checks what `variant-workflow-state.ts:182-183` and the test
`campaign-production-workflow-variants.test.ts:106-138` say of the repair of a failed
variant, that the campaign goes on when "everything passes this time", and finds it
blocked: `variantQAPassed` (`transition-facts.ts:455`) asks all the rows there are,
and the rows of the replaced cuts stay FAILED. The test's advance activity is a fake,
so the fact is never asked there. Where another duration passed, the repair fails
before that: its new cut throws `VariantSpecificationImmutableError`
(`variant-repositories.ts:167`). `RepairsNeverExport` proves that one or the other
keeps every repair from the export.

Other behaviours of the models that a comment or a document rules out, given no
run of their own:

*The campaign.*

* A reviewer's second rejection, of the revised concept, is taken for a resend of
  the first (`approval-routes.ts:166`, against `human-approval-repository.ts:8`,
  "a revised decision is always a new row"); its signal is dropped and the
  workflow waits on.
* A signal left from an earlier opening of a gate is applied to a revision its
  sender has not seen (`campaign-production-workflow-state.ts:404`, against its
  comment at 395-402).
* Two copies of one approval request in flight both insert a row, against
  `approval-routes.ts:113-116`; both signals are handled, and `RevisionsBounded`
  holds with them.
* A draft created between the check of the selection and the advance lets a
  campaign cross to COMPOSITING without a valid selection, against
  `campaign-production-workflow.ts:536-541`; COMPOSITING then refuses it.
* A second visit to SHOT_GENERATION in one run replays the first visit's attempt
  keys, counts none, and is sent back by the same check without end
  (`dispatch-shot-generation-activity.ts:106`, against `docs/domain-model.md:325`).
  The repair loop of a failed master has no bound either, since the fact it is
  said to be bounded by stays true. A second execution counts its revisions from
  zero and replays the first version of the concept.
* The query behind the asset facts has no campaign (`transition-facts.ts:233`,
  against 291-294): a failed master goes to the final gate on another film's pass.
  `StagesBuildOnArtefacts` excepts its last stages so: the master passed, or the
database holds another campaign's pass.

*The transition service.*

* The comment at `campaign-transition-service.ts:117-128` counts on a caller's
  transaction, `runCampaignTransition`; there is no such function, and
  `worker-activities.ts:231` passes the plain client. An execution that moved the
  campaign and died before its audit leaves its ask refused, and the workflow
  blocks with the campaign moved.
* A stray between its audit check and its read of the campaign can move the
  campaign a second time under one key, when the stage has come back.
* The edge is looked up from the stage that is read, which need not be the one the
  ask was made from. A late AUTO_FORWARD of STRATEGY_REVIEW takes SCRIPT_REVIEW back
  to CONCEPT_REVIEW, and the workflow, which believes in SCRIPT_REVIEW, blocks at its
  next ask; `Concept` has it, and `KeepsGateProtocol` allows it. A late AUTO_RETRY of
  VISUAL_QA that finds the campaign at HUMAN_SHOT_SELECTION takes the human-gated
  revision edge from there; `CampaignProduction` has it, though in `Whole` only the
  asks of the last two gates are late.
* A decision recorded between an execution's look at the facts and its swap does
  not keep the campaign from crossing: the version that is compared is the campaign
  row's.

*Paid jobs.*

* A poll that dies after it created the asset throws on the asset's unique key in
  every retry (`poll-shot-generation-activity.ts:270`, against
  `docs/architecture.md:465-466`): the delivered job is never paid for, nor its
  reservation released.
* A dispatch that throws releases its reservation. If its answer is lost, the
  retry finds the reservation, though it is released, and goes on without one
  (`dispatch-shot-generation-activity.ts:286`): with calls that throw, `WithinCaps`
  does not hold, and a job whose `submit` reached the provider though its answer
  did not is never polled, charged or cancelled.
* Two dispatches of one attempt, one past its timeout and its retry, both find no
  row of it; the one whose insert is refused takes that for a failure and gives the
  reservation back, while the job runs (`dispatch-shot-generation-activity.ts:290`).
    The budget takes another shot in, and the charge goes past the cap: `WithinCaps`
  fails with two executions of a shot at a time. What holds even so is that nothing
  more is granted then (`GrantsAreWithinCaps`). So does `ClosedWhenDone`, by a
  dispatch that goes on and reserves after the shot was refused. An attempt of a shot
  that succeeded, was cancelled or used up its tries is closed whatever strays there
  are (`AttemptsAreLeftSettled`).
* Of a variant's dispatch the same stray marks an attempt FAILED whose job runs on:
  the child renders the next, its QA passes, and a late poll of the first shows the
  first's asset on the row the QA makes READY. `ReadyIsEarned` fails so with
  "DISPATCH" in `SlowOps` and three strays.
* `variantQAPassed` asks of the rows there are (`transition-facts.ts:455`): a
  duration whose render was refused or failed to dispatch has none and is not
  missed, against `variant-workflow-state.ts:51-52`.

*Storyboard runs.*

* The review resolves its sources with no scene asked for
  (`motion-review-cli.ts:287`): a hand-animated scene that was rejected and
  regenerated shows the reviewer the hand-animated clip again, and the clip paid
  for can never be approved, against `run-storyboard-video.ts:417-419`.
* A rejection recorded while a run works does not stop its film; a run that died
  between its purchases and its publication leaves the index naming the clip that
  was rejected, so that the next `--regenerate-rejected` buys again; a rejected
  clip that is technically invalid, or published under another prompt, is skipped
  by that flag; an approved scene that is regenerated is paid for and then refused
  (`MOTION_REVIEW_BLOCKED`).

*Finishing rounds.*

* A stage that nobody has selected can never be proposed again, though
  `finishing-store.ts:321-323` and `finishing-gate.test.ts:288` call that legitimate
  and harmless: the control's record holds the time it was made, and `writeOnce`
  refuses another. (The test writes the identical record, time included.) A proposal
  that died before its comparison, whose renders failed, or that skipped them, ends
  the run.
* "A file that must never change afterwards" (`finishing-store.ts:98-104`) does when
  two commands look for it (`finishing-store.ts:105`) before either writes. Two
  finalizations with different scorecards leave one's PREMIUM verdict beside the
  other's scorecard; two proposals both go on to write the comparison. The
  properties of the round except a run in which that has happened; it takes two
  terminals (`OneTerminalKeepsFiles`).
* `base-plan.json` and `brief.json` are never compared with the checksums the
  manifest keeps of them (`finishing-store.ts:148`): an opening plan edited by hand
  makes the provenance name another plan than the run was opened with.

## 5. What is proved

For every value of the constants that satisfies the modules' named assumptions
(which type them and bound nothing), and the hypotheses a theorem states. Where
there is one, TLC shows that the property fails without it, unless said otherwise.

Of the campaign, `CampaignProductionProofs`:

* `TypeCorrect`: `Spec => []TypeOK`; `Inductive`: `Spec => []IInv`.
* `GatesAlwaysHold`: a campaign behind a gate has an approval of it on record.
* `DecisionsAloneCross`: `Spec => OnlyDecisionsCross`.
* `GatesAreKept`: `Spec => KeepsGateProtocol`, the refinement.
* `RevisionsStayInStep`: `Spec => []RInv`; `RevisionsAreBounded`:
  `Spec => []RevisionsBounded`.
* `WaitsWhereItShould`: `Spec => []WaitsAtItsGate`.
* `StagesAreBuiltOn`: `Spec => []StagesBuildOnArtefacts`, whatever other campaigns'
  masters say.

All of them hold of any number of late executions.

Of the transition service, `CampaignTransitionProofs`:

* `TransitionTypes`, `AuditIsTrue`: `Spec => []TypeOK`, `Spec => []AppliedRowsAreMoves`.
* `RowIsAStageMachine`: `Spec => ImplementsStageMachine`, the refinement.
* `GoesOnAfterAMove`: `Spec => GoesOnOnlyWhenMoved`.

Of shot generation, `ShotGenerationProofs`:

* `AttemptsStayInTurn`: `Spec => []IInv`; `SettlementHolds`: `Spec => []SInv`: the
  two inductive invariants.
* `OneJobIsKept`, `SettledAtCostIsKept`, `PaidOnceIsKept`, `CountsNoReplayIsKept`,
  `TypesHold`: the invariants of `Generation`, with any number of strays, crashes
  and calls that throw.
* `AttemptsAreLeftSettled`: an attempt that the workflow has gone past, or has ended
  its shot with otherwise than by a failure, has no reservation open. This holds
  beside strays.
* `ClosedWhenDoneIsKept`: `Spec => []ClosedWhenDone`, if `Slots` = 1.
* `GrantsAreWithinCaps`: `Spec => GrantsWithinCaps`, with any number of strays, calls
  that throw and jobs that cost more than their estimate: a reservation is granted
  only if it fits the cap with all that is charged and reserved by then. No run checks
  it; it is what is left of `WithinCaps` where that fails (section 4).

Of shot selection, `ShotSelectionProofs`:

* `ViewsAreKept`: `Spec => []IInv`, its inductive invariant.
* `FrozenIsAsSeen`, `EditsTakeRevisions`, `NamedHavePassed`, `CrossingIsFrozen`: the
  four properties its run checks.

Of the agents' invocations, `AgentInvocationProofs`:

* `InvocationsFit`: `Spec => []IInv`, its inductive invariant.
* `ReservedAllOrNothing`, `RecordedIsSettled`: `Spec => []AllOrNothing`,
  `Spec => []SettledBeforeRecorded`.
* `CapsHold`: `Spec => []WithinCaps`, of any overlapping tries.

Of variants, `VariantsProofs`, with any number of strays:

* `VariantsInductive`: `Spec => []IInv`, the invariant of a render.
* `ReadyVariantsAreEarned`: `Spec => []ReadyIsEarned`, if "DISPATCH" is not in
  `SlowOps`.
* `ReadyVariantsArePaid`: what is left of it where dispatches are slow as well. The
  asset of a READY variant is delivered and has passed, and a render of the same
  cut is charged and given back, though it may be another one.
* `RepairsNeverExport`: what the finding of `VariantRepair` comes to, that a campaign
  gets to the export on its first visit or not at all, with the invariant of the
  visits, `XInv`.
* `FrozenCutsStay`: `Spec => FrozenStays`.

Of the storyboard run, `StoryboardVideoProofs`:

* `StoryboardInductive`: `Spec => []IInv`, its inductive invariant.
* `MastersAreApproved`, `CutsFitTheirScenes`, `ApprovedClipsStay`,
  `RunsSpendAsPriced`, `BoughtOnce`: the five properties its run checks.

Of the finishing round, `FinishingRoundProofs`:

* `RoundIsKept`: `Spec => [](Intact => Round)`, its inductive invariant.
* `SelectionsWereWatched`, `StagesChangeOneThing`, `PremiumMeansEarned`: the three
  properties its run checks.
* `OneTerminalKeepsFiles`: with one terminal, `Spec => []Intact`.

### The campaign

`TypeOK` is not inductive, and neither are the gate properties. `IInv` adds what
they rest on: requests and queued signals name recorded approvals (`IdsName`,
`RequestsFilledIn`), without which `approvals[held]` is undefined; a decision
between its verification and its application is of the pending gate, unused, and
the workflow waits (`HeldIsVerified`); a waiting workflow is at its gate's stage
(`WaitsAtGateStage`); an ask is out only of an open execution, and what is under way
for an ask that is over is not taken for its successor's (`AsksAreOpen`); and a stale stage, held by an execution of the
workflow or a start request, may lag behind the campaign but is never ahead of it by
one of the last two gates (`NeverAhead`).

The dangerous case is an execution of the advance, live or late, that finds the
campaign in another stage than the ask was made from, and is judged by an edge out
of that stage. `AsksAreFounded` says what every execution under way was sent for:
one that asks for the far side of a gate has an approval of that gate with it, or,
at the last two, was sent from behind the gate, where `NeverAhead` puts the campaign
too, for good. `LookedIsOpen` says the same of an execution that has looked and can
swap still: it stands before an edge of the table, and, before a gate, with an
approval of it on record. That a swap voids all the others
that have looked is what the version in the compare-and-swap does. The rest is the
table: the only edge through each gate leaves that gate's stage
(`EdgesThroughGates`, `EdgesThroughExits`), the only edge back over one is from
SCRIPT_REVIEW (`EdgesBackOverGates`, `NeverBack`).

A step moves the campaign, lets an execution look, or does neither (`LookSteps`,
`MoveEffects`). The refinement maps it to `Decide` (an approval row is recorded),
`Open` (an execution has looked and found a gate approved, `LooksOpen`; one at a time,
`OneGateAtATime`), `Cross` or `GoBack` (`MovesInTurn`), or to `GiveUp`, when an
execution that had looked is gone.

`RInv` is inductive beside `IInv`. `AppliedIsRecorded`: what a run has processed is
on record, and a revision about to be applied is still within the bound although
the bound was checked some awaits before; with `IInv`'s "a held decision is
unused", resent, queued and raced signals cannot be counted twice.
`FirstRunIsCurrent`: until a campaign is started again, or an execution of an ask
that is over has moved it, the workflow's stage between two asks is the database's.

`StagesBuildOnArtefacts` needs two facts of candidates and sets that no stage
shows by itself. `ContinuityAfterVisual`: the continuity check of a candidate
passed only after its visual check did, so that two existential facts ("one
passed this", "one passed that") are of one candidate. `CutFromASelection`: an
edit is made of a selection that was frozen, and of no other.

### The transition service

Between the load of the facts and the compare-and-swap anything may happen,
including the retry of the same ask, a stray of an older one and writes that make
the facts false. The invariant says of an execution that has read the campaign:
the version it holds is at most the row's; if it is the row's, the stage it holds
is the row's too, and whatever it has judged was true since the row last moved.
The swap needs the version equal, so it is a step of `StageMachine`; an execution
with an older version is refused, which is a stutter. `AuditIsTrue` needs one more:
an execution that is about to write APPLIED has itself moved the row, under the key
it writes.

For `GoesOnAfterAMove` the workflow has to be told by the right execution.
`LiveServesTheAsk`: the one the server waits for carries the key of the ask that
is out, since a new ask, a timeout or an answer ends the waiting for the old one.
`AnswersAMove`: an execution that answers APPLIED, having found the audit row or
having written it, does so under a key that has moved the campaign.

### Shot generation

`OneJobAtATime` is about the provider's jobs only, and what keeps it is far away:
the workflow, which has seen nothing of the provider but an answer, begins the
next attempt. `IInv` follows FAILED along that way. `FailedIsFailed`: it is on an
attempt's row, in the hands of an execution that closes the attempt, or in the
answer the workflow waits for, only if the provider's job failed; from which
`TopAfterFailure`: a shot returns to the top of its loop only after a failed
job, with attempts left. `AttemptsInTurn` is the result: all attempts before the
current one failed, and none after it has a job. `TriesOfAttempts` keeps the
executions in step: the live try works on the current attempt, a stray on it or
an earlier one, so that a late `submit` adds no job to an attempt given up.

The proof has one lemma for what a step of an execution may do
(`ExecutionStep`), five for the forms such a step has (`GoToStep`, `AnswerStep`,
`LoseStep`, `CloseStep`, `UndoStep`), and one per activity and per action of the
workflow that instantiates them.

*Settlement.* `SInv` says in which order the records of one attempt are made:
who works on it has it reserved at all its scopes, the entries that settle it come
before the row that says it ended (`RowsFit`), that row before the answer
(`AnswersFit`), and the workflow leaves an attempt on such an answer only
(`PlacesFit`). Each execution is looked at by itself (`Fits`); nothing it rests on
is ever taken back (`Grows`), so the others cannot disturb it (`FitsStays`), which
is why strays do no harm here. `PaidOnce` follows with `AttemptsInTurn`: only
delivered jobs are charged, and no attempt follows one that delivered.

*The caps.* `GrantsWithinCaps` is about a sum over keys, while any number of shots
reserve and settle at once, and what is summed may be over the cap already: a call
that throws or an overlapping dispatch gives a reservation back while its job runs.
The sum is computed by a recursive function over subsets; the lemmas on `Total` (its
value does not depend on the order in which elements are taken, one changed term
changes it by the difference) are proved by taking a smallest counterexample. Every
entry of a key comes after its reservation, whoever writes it, so the ledger's own
sum, which `HasRoom` is asked against, is never less than what is committed; a
reservation passes that check and adds its estimate to both.

### Shot selection

A handler takes its revision in one statement and writes its row in a later one,
so a revision that still matches does not say that the rows are those that were
read. It does if nobody was writing when they were read (`ViewsStand`): whoever
writes later has to take another revision first, and the view's own matches no
more. That is why `FrozenAsSeen` speaks of a set seen at rest, and why the
campaign, which reads the rows of the frozen set some statements after its status,
still crosses with the rows the reviewer saw (`FrozenStands`, `Crossing`). An edit
about to write holds a revision below the set's, one about to take a revision
holds the set's own (`Fits`): so no two take the same. `SetWritten` carries the
invariant over any write to one set, `GoesOn` over any step that writes none; each
handler's step is an instance of one of them.

### Agent invocations

No row of the ledger is ever taken back, so what a try has found or written stays
there, and every try can be looked at by itself, whatever the others do
(`Fits`, `FitsStays`): its snapshot is a part of the ledger, what it works on is
reserved, the policies it has no longer to do are charged or given back. `Whole`
does not rest on the isolation of the transaction: a commit writes all that its
snapshot misses, which together with what is there is all.

`WithinCaps` does rest on it. The check against the cap is made on the snapshot;
charges and releases are written beside the transaction. A transaction commits only
if nobody has reserved at its policies since (`Conflicts`); what the snapshot counts
as spent there is therefore at least what is bound when it commits, because a
charge or a release written in between never raises what its invocation binds
(`Sound`: a charge is of a reservation, and of an agent that ran it comes before
the release). So the sum that was compared with the cap bounds the one that counts.

### Variants

The parent trusts a row that says READY, written by a QA that knows nothing of jobs
or money. `IInv` ties the four records of a render together. An attempt is SUBMITTED
or ended only if it has a job, and SUCCEEDED only if it is settled (`JobsFit`); the
asset on a row is of a job that succeeded, and the row of a cut without a paid render
is not READY (`RowsFit`). `Called` says where a stray may still be (a poll at an
attempt that has a job and is not ahead of the child's, a QA at a cut that is paid
for), `Works` what it has seen to. The other half of the invariant is conditional
on `Prompt`, that no dispatch is slow: a job is sent after all the earlier ones of
its cut failed, so one at most succeeds, and no poll can bring another asset to the
row (`OneDelivered`). A dispatch that outlives its timeout breaks that half, and with it
`ReadyIsEarned` (section 4), but neither the first half nor the visits, which rest on
the first half alone.

`XInv` adds the visits. `QaStands`: a QA that still runs when the child has gone on
finds its cut refused, approved, or with a row that has no asset and gets none.
`CutsMade`: cuts are made visit by visit, and what a try has found to supersede was
not approved when it looked; if it was approved since, it has two rows, which is
`FrozenStays`. `Blocked`: after a repair there is a row nothing makes READY any
more (`Lost`), or a duration whose approved cut keeps the new visit from making its
own (`Stuck`); either keeps `variantQAPassed` from being true, so the export is
reached on the first visit or not at all.

### The storyboard run

A run consults the cache twice, when it prices a scene and when it obtains it; in
between it buys for other scenes. `UnpricedIsCached`: what it did not price will
be found there, since purchases only add to the cache, and `Submitting` that it
waits only for a clip it could not find; with them `WithinPrice` counts: what was
submitted, and what is left of what was priced, is no more than what was priced.
`CacheLeads` says that an entry leads to a clip of its scene and prompt, and that
every clip bought has one, unless a death cut the file short: hence
`BoughtAgainOnlyWhenAsked`. `ProtectsWhatItRead`: the approvals a run protects are
those of the part of the ledger it has read; decisions are appended, so they stay
what they were (`PrefixIsKept`), and the three properties of a film (`Film`) follow
when it is rendered.

### The finishing round

The properties speak of files; nothing in the model says who wrote one. `Intact` is
never regained, so it was true before every step after which it is (`IntactBefore`),
and such a step writes a file that was not there or leaves it as it was
(`IntactSteps`): as if the look and the write had been one. The invariant `Round` is
proved of those steps. It recovers the writer of a file from the times in it. `Proposals`: a comparison
under a stage's control record belongs by its time to one proposal at most, so a
second terminal, a death and a command run again cannot attribute it to another.
`Watched`: the plan a selection names is backed by a record whose file can only
have grown by edits since. `Based`: every record goes on from the record of the
stage before it, with one plan in between. `Closed`: scorecard and selection are
written once and the verdict is a function of the two. Each of the four is
preserved given the others, by one lemma per command and file it writes.

**Model-checked only.** The liveness properties, `DecisionTakenUp`, `RunSettles`,
`ShotsEnd` and `AskEnds`: the prover has no fairness or ENABLED. `WithinCaps` of
`GenerationBatch`, which rests on the absence of strays and of calls that throw:
what is proved is `GrantsAreWithinCaps`, which does not. Every other property of the
passing runs is proved. Two theorems have a hypothesis, which is what the run's
configuration has as well, and beyond which TLC shows the property false:
`ClosedWhenDoneIsKept` (`Slots` = 1) and `ReadyVariantsAreEarned` (no slow dispatch).
That the expected violations of `DoubleCount` and `VariantRepair` are such is TLC's
as well.

## 6. The plan

Next, in this order:

1. `CompositingRender`: the composite's dispatch, poll and cancellation, which are
   built like those of `Variants` and differ in the artefact, and the settlement of
   its one job.
2. `LaunchGate` (`apps/aamp-cli/src/launch`): appending a decision and writing the
   selection are two writes; a version that was written in part is refused for
   ever; a revision may overlap a selection.
3. The part of `ClosedWhenDone` that holds beside strays, per way a shot may end.
4. Scene acceptance and creative memory of the command line; performance analysis.

## 7. What is not modelled

The content of the agents' work, prompts, providers, ffmpeg and object storage:
their answers are the nondeterministic outcomes of the actions. Authentication,
configuration, logging: no campaign state. The dashboard: its users are the
reviewers and the operator. Of `apps/aamp-cli`, all but the storyboard run, the
motion review and the finishing round: batch pipelines over files. The
media package computes filter graphs and probes files: pure functions of numbers
and strings, with no protocol. Performance analysis and media ingest: they read finished campaigns, or files; last in line. The
`COMPLETED` status and distribution stages: the facts that lead there are never
true in this repository. The budget argument of a transition is never passed.
Compositing is a single step of `CampaignProduction`; its render protocol is
planned.
