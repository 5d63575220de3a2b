--------------------------- MODULE StoryboardVideo ---------------------------
(***************************************************************************)
(* runStoryboardVideo and the motion review beside it: a run prices the    *)
(* scenes it has to buy, buys them one by one, publishes what it has for   *)
(* the reviewers and renders only what its gate clears.  Reviewers look at *)
(* the published clips and append their decisions to a ledger the run read *)
(* once, when it began; the manifest is edited between any two reads of it *)
(* and a run may die at any time.  One run at a time works in a directory. *)
(***************************************************************************)
EXTENDS Naturals, Sequences, FiniteSets, FiniteSetsExt

CONSTANTS
  Scenes,        \* the scenes that move: generated, or animated by hand
  Manual,        \* those a hand-animated clip was supplied for
  SoundHands,    \* those whose supplied clip passes the binding checks
  Drafts,        \* the prompts the manifest may hold for a scene
  Intents,       \* what the commands are run for
  Ceiling,       \* --max-generations, and --max-cost-cents in scenes
  MaxRuns, MaxClips, MaxDecisions

ASSUME StoryboardAssumption ==
  /\ Scenes \subseteq Nat /\ IsFiniteSet(Scenes)
  /\ SoundHands \subseteq Manual /\ Manual \subseteq Scenes
  /\ Intents \subseteq {"PRODUCTION_MASTER", "FULL_LENGTH_REVIEW_CANDIDATE"}
  /\ {Ceiling, MaxRuns, MaxClips, MaxDecisions} \subseteq Nat

VARIABLES
  clips,    \* the clips bought, in order; a clip's number stands for its bytes
  cache,    \* generation-cache.json: the clip of a scene and prompt
  torn,     \* whether a death has cost that file an entry
  index,    \* generated-sources.json: the clip published for a scene
  ledger,   \* motion-review-ledger.jsonl
  look,     \* the review command in progress
  run, runs \* the run in progress, and how many have begun

files == <<clips, cache, torn, index, ledger>>
vars == <<files, look, run, runs>>

NoPrompt == "NO_PROMPT"
Prompts == UNION {Drafts[s] : s \in Scenes}

\* What a read of the scene manifest may find.
Manifests == {m \in [Scenes -> Prompts] : \A s \in Scenes : m[s] \in Drafts[s]}

\* Mutant of Key: the prompt is no part of it.
KeyOfScene(s, p) == <<s, CHOOSE q \in Prompts : TRUE>>

Key(s, p) == <<s, p>>
NoClip == 0
Hand == MaxClips + 1
Clip == 1 .. MaxClips + 1
NoneFor == [s \in Scenes |-> NoClip]
NoCache == [k \in Scenes \X Prompts |-> NoClip]

NotLooking == [scene |-> 0, clip |-> NoClip, prompt |-> NoPrompt]

\* A run: what it was asked to regenerate, the manifest and the ledger as it
\* read them, the clips approved then, what it priced, has left to obtain and
\* has submitted, and the clips it obtained, later the cut.
Idle == [pc |-> "IDLE", intent |-> "PRODUCTION_MASTER", asked |-> {},
         prompt |-> [s \in Scenes |-> NoPrompt], seen |-> 0, approved |-> NoneFor,
         priced |-> {}, todo |-> {}, submitted |-> 0, cut |-> NoneFor]

At(pc) == run.pc = pc
Goes(r) == run' = r
End == run' = Idle

Init ==
  /\ clips = <<>> /\ cache = NoCache /\ torn = FALSE /\ index = NoneFor
  /\ ledger = <<>> /\ look = NotLooking /\ run = Idle /\ runs = 0

-----------------------------------------------------------------------------
(* Sources and the gate.                                                   *)

\* A scene is generated unless a hand-animated clip stands for it.
RequiresGeneration(s, asked) == s \notin Manual \/ s \in asked

movingSourcePathFor(s, asked, generated) ==
  IF RequiresGeneration(s, asked) THEN generated[s] ELSE Hand

Sound(s, c) == IF c = Hand THEN s \in SoundHands ELSE clips[c].sound

\* A verdict on what a reviewer looked at.
Decision(seen, verdict) ==
  [scene |-> seen.scene, clip |-> seen.clip, prompt |-> seen.prompt, verdict |-> verdict]

\* The last decision about a scene, and the last about this identity of it.
LatestOf(decisions, fitting) ==
  IF fitting = {} THEN Decision(NotLooking, "NONE") ELSE decisions[Max(fitting)]

latestAny(decisions, s) ==
  LatestOf(decisions, {n \in DOMAIN decisions : decisions[n].scene = s})

\* Mutant of latestApplicable: no later decision takes an approval back.
FirstApproval(decisions, s, c, p) ==
  LET fitting == {n \in DOMAIN decisions :
                    decisions[n] \in [scene : {s}, clip : {c}, prompt : {p}, verdict : {"APPROVED"}]}
  IN  IF fitting = {} THEN Decision(NotLooking, "NONE") ELSE decisions[Min(fitting)]

latestApplicable(decisions, s, c, p) ==
  LatestOf(decisions, {n \in DOMAIN decisions : /\ decisions[n].scene = s
                                                /\ decisions[n].clip = c
                                                /\ decisions[n].prompt = p})

Status(r, s, c) ==
  IF c = NoClip THEN "MISSING_SOURCE"
  ELSE IF ~Sound(s, c) THEN "TECHNICALLY_INVALID"
  ELSE latestApplicable(SubSeq(ledger, 1, r.seen), s, c, r.prompt[s]).verdict

-----------------------------------------------------------------------------
(* The run.                                                                *)

\* The command reads the ledger, then the manifest and the sources.
Begin ==
  /\ At("IDLE") /\ runs < MaxRuns
  /\ \E asked \in SUBSET Scenes, next \in {"REJECTED", "PRICE"}, intent \in Intents,
        prompt \in Manifests :
       Goes([Idle EXCEPT !.pc = next, !.intent = intent, !.asked = asked,
                         !.prompt = prompt, !.seen = Len(ledger)])
  /\ runs' = runs + 1
  /\ UNCHANGED <<files, look>>

\* --regenerate-rejected: the standing decisions about the published clips. The
\* context is resolved once more when they add a scene.
findRejectedScenes ==
  /\ At("REJECTED")
  /\ LET rejected == {s \in Scenes \ run.asked :
                        Status(run, s, movingSourcePathFor(s, run.asked, index)) = "REJECTED"}
     IN  \E prompt \in IF rejected = {} THEN {run.prompt} ELSE Manifests :
           Goes([run EXCEPT !.pc = "PRICE", !.asked = @ \cup rejected, !.prompt = prompt])
  /\ UNCHANGED <<files, look, runs>>

collectApprovedClipChecksums(r) ==
  [s \in Scenes |-> LET latest == latestAny(SubSeq(ledger, 1, r.seen), s)
                    IN  IF latest.verdict = "APPROVED" THEN latest.clip ELSE NoClip]

Lookup(r, s) == cache[Key(s, r.prompt[s])]

\* Mutant of findCachedScenes: a scene asked for counts as cached too.
FindAllCached(r) ==
  {s \in Scenes : RequiresGeneration(s, r.asked) /\ Lookup(r, s) # NoClip}

findCachedScenes(r) ==
  {s \in Scenes \ r.asked : RequiresGeneration(s, r.asked) /\ Lookup(r, s) # NoClip}

\* buildCostEstimate and the two ceilings; a dry run, and one without a key to
\* buy with, end here.
Price ==
  /\ At("PRICE")
  /\ LET generating == {s \in Scenes : RequiresGeneration(s, run.asked)}
         priced == generating \ findCachedScenes(run)
     IN  \/ /\ Cardinality(priced) <= Ceiling
            /\ Goes([run EXCEPT !.pc = "BUY", !.priced = priced, !.todo = generating,
                                !.approved = collectApprovedClipChecksums(run)])
         \/ End
  /\ UNCHANGED <<files, look, runs>>

\* generateSceneClip, for the next scene: the cached clip, or a paid job.
Obtain ==
  /\ At("BUY") /\ run.todo # {}
  /\ LET s == Min(run.todo)
     IN  \/ /\ s \notin run.asked /\ Lookup(run, s) # NoClip
            /\ Goes([run EXCEPT !.todo = @ \ {s}, !.cut[s] = Lookup(run, s)])
         \/ /\ s \in run.asked \/ Lookup(run, s) = NoClip
            /\ \/ Goes([run EXCEPT !.pc = "POLL", !.submitted = @ + 1])
               \/ End
  /\ UNCHANGED <<files, look, runs>>

\* Mutant of Recorded: the entry does not lead to the clip.
RecordedAmiss(s, p, c) == cache

Recorded(s, p, c) == [cache EXCEPT ![Key(s, p)] = c]

\* The job ends, its file is downloaded, measured, kept and recorded; whatever
\* fails on the way ends the run, and no clip is left.
Save ==
  /\ At("POLL")
  /\ \/ End /\ UNCHANGED files
     \/ /\ Len(clips) < MaxClips
        /\ LET s == Min(run.todo)
               c == Len(clips) + 1
           IN  /\ \E sound \in BOOLEAN :
                    clips' = Append(clips, [scene |-> s, prompt |-> run.prompt[s],
                                            sound |-> sound, asked |-> s \in run.asked])
               /\ \/ /\ cache' = Recorded(s, run.prompt[s], c) /\ UNCHANGED torn
                     /\ Goes([run EXCEPT !.pc = "BUY", !.todo = @ \ {s}, !.cut[s] = c])
                  \/ \* the process dies, before the entry or while the file is written
                     /\ torn' = TRUE /\ cache' \in {cache, NoCache} /\ End
        /\ UNCHANGED <<index, ledger>>
  /\ UNCHANGED <<look, runs>>

Sources == [s \in Scenes |-> movingSourcePathFor(s, run.asked, run.cut)]

\* Mutant of ChangedApproved: a scene asked for may change.
ChangedUnasked(cut) ==
  {s \in Scenes \ run.asked : run.approved[s] # NoClip /\ cut[s] \notin {NoClip, run.approved[s]}}

ChangedApproved(cut) ==
  {s \in Scenes : run.approved[s] # NoClip /\ cut[s] \notin {NoClip, run.approved[s]}}

\* A review candidate holds a generated clip that fails the binding checks as
\* a still; a production master wants an approval of every clip.
Demoted(cut) ==
  IF run.intent = "PRODUCTION_MASTER" THEN {}
  ELSE {s \in Scenes : cut[s] # Hand /\ Status(run, s, cut[s]) = "TECHNICALLY_INVALID"}

Clears(cut) ==
  \A s \in Scenes \ Demoted(cut) :
    IF run.intent = "PRODUCTION_MASTER" THEN Status(run, s, cut[s]) = "APPROVED"
    ELSE Status(run, s, cut[s]) \notin {"MISSING_SOURCE", "TECHNICALLY_INVALID"}

\* runMotionReview: the index is written over with what this run obtained, if
\* anything, and the gate decides.
Review ==
  /\ At("BUY") /\ run.todo = {}
  /\ index' = IF run.cut = NoneFor THEN index ELSE run.cut
  /\ IF ChangedApproved(Sources) = {} /\ Clears(Sources)
     THEN Goes([run EXCEPT !.pc = "RENDER",
                           !.cut = [s \in Scenes |-> IF s \in Demoted(Sources) THEN NoClip
                                                     ELSE Sources[s]]])
     ELSE End
  /\ UNCHANGED <<clips, cache, torn, ledger, look, runs>>

\* The index is cut short by a death: it reads as empty.
DieInReview ==
  /\ At("BUY") /\ run.todo = {} /\ run.cut # NoneFor
  /\ index' \in {NoneFor, run.cut} /\ End
  /\ UNCHANGED <<clips, cache, torn, ledger, look, runs>>

\* The cut is composed; the films themselves are read by nothing here.
Render == At("RENDER") /\ End /\ UNCHANGED <<files, look, runs>>

\* The process dies between two writes.
Die == ~At("IDLE") /\ End /\ UNCHANGED <<files, look, runs>>

-----------------------------------------------------------------------------
(* The reviewer.                                                           *)

Inspectable(c) == c # NoClip

\* The review command resolves its sources with no scene asked for.
Look ==
  /\ look = NotLooking /\ Len(ledger) < MaxDecisions
  /\ \E s \in Scenes : \E prompt \in Drafts[s] :
       LET c == movingSourcePathFor(s, {}, index)
       IN  /\ Inspectable(c)
           /\ look' = [scene |-> s, clip |-> c, prompt |-> prompt]
  /\ UNCHANGED <<files, run, runs>>

\* recordDecision: no approval of a clip that fails the binding checks.
recordDecision ==
  /\ look # NotLooking
  /\ \E verdict \in {"APPROVED", "REJECTED"} :
       /\ verdict = "APPROVED" => Sound(look.scene, look.clip)
       /\ ledger' = Append(ledger, Decision(look, verdict))
  /\ look' = NotLooking
  /\ UNCHANGED <<clips, cache, torn, index, run, runs>>

Next ==
  \/ Begin \/ findRejectedScenes \/ Price \/ Obtain \/ Save \/ Review \/ Render
  \/ Die \/ DieInReview
  \/ Look \/ recordDecision

Spec == Init /\ [][Next]_vars

-----------------------------------------------------------------------------
(* Properties.                                                             *)

\* What a production master is cut from was approved, clip by clip, by someone
\* who looked at that clip under the prompt the run reads, and none of the
\* decisions the run read takes the approval back (assertMotionGateClears).
RenderedAsApproved ==
  At("RENDER") /\ run.intent = "PRODUCTION_MASTER" =>
    \A s \in Scenes : \E n \in 1 .. run.seen :
      /\ ledger[n] = [scene |-> s, clip |-> run.cut[s], prompt |-> run.prompt[s],
                      verdict |-> "APPROVED"]
      /\ \A m \in n + 1 .. run.seen :
           ledger[m] # [ledger[n] EXCEPT !.verdict = "REJECTED"]

\* Whatever is cut into a film was made for its scene, from the prompt the run
\* read, over any history of edits, caches and publications (the cache's key).
CutFitsItsScene ==
  At("RENDER") =>
    \A s \in Scenes : run.cut[s] \notin {NoClip, Hand} =>
      /\ clips[run.cut[s]].scene = s /\ clips[run.cut[s]].prompt = run.prompt[s]
      /\ clips[run.cut[s]].sound

\* A clip the last decision about its scene approves is not replaced in any
\* film by another clip (assertApprovedClipsUnchanged).
ApprovedStays ==
  At("RENDER") =>
    \A s \in Scenes, n \in 1 .. run.seen :
      /\ ledger[n].scene = s /\ ledger[n].verdict = "APPROVED"
      /\ \A m \in n + 1 .. run.seen : ledger[m].scene # s
      => run.cut[s] \in {ledger[n].clip, NoClip}

\* A run never submits more jobs than the estimate it printed, nor than its
\* ceiling (findCachedScenes and generateSceneClip decide alike).
SpentAsPriced ==
  /\ run.submitted <= Cardinality(run.priced)
  /\ Cardinality(run.priced) <= Ceiling

\* No run pays again for a scene and prompt that were bought and kept, unless it
\* was asked to or a death cost the cache its entries (generation-cache.ts: "to stop a re-run
\* costing money twice").
BoughtAgainOnlyWhenAsked ==
  \A j \in DOMAIN clips : \A i \in 1 .. j - 1 :
    /\ clips[i].scene = clips[j].scene /\ clips[i].prompt = clips[j].prompt
    => clips[j].asked \/ torn
=============================================================================
