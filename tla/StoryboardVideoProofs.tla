------------------------ MODULE StoryboardVideoProofs ------------------------
(***************************************************************************)
(* What StoryboardVideo promises, for every set of scenes, drafts and      *)
(* supplied clips and every bound: what a run spends is within what it     *)
(* priced, nothing kept is bought again unasked, and what a film is cut    *)
(* from was made for its scene, is approved, and replaces nothing that     *)
(* was.                                                                    *)
(***************************************************************************)
EXTENDS StoryboardVideo, FiniteSetTheorems, SequenceTheorems, WellFoundedInduction, TLAPS

-----------------------------------------------------------------------------
(* The inductive invariant.                                                *)

\* What each variable may hold.  A clip's number is its place in clips, so a
\* file of clips never points past the last one.
BoughtClip == [scene : Scenes, prompt : Prompts, sound : BOOLEAN, asked : BOOLEAN]
Bought == 0 .. Len(clips)

FilesOK ==
  /\ clips \in Seq(BoughtClip) /\ Len(clips) <= MaxClips
  /\ cache \in [Scenes \X Prompts -> Bought] /\ torn \in BOOLEAN
  /\ index \in [Scenes -> Bought]

Looked == [scene : Scenes, clip : Clip, prompt : Prompts]
Decided == [scene : Scenes, clip : Clip, prompt : Prompts,
            verdict : {"APPROVED", "REJECTED"}]

LedgerOK == ledger \in Seq(Decided) /\ look \in Looked \cup {NotLooking}

Run == [pc : {"IDLE", "REJECTED", "PRICE", "BUY", "POLL", "RENDER"},
        intent : {"PRODUCTION_MASTER", "FULL_LENGTH_REVIEW_CANDIDATE"},
        asked : SUBSET Scenes, prompt : [Scenes -> Prompts \cup {NoPrompt}],
        seen : Nat, approved : [Scenes -> 0 .. Hand], priced : SUBSET Scenes,
        todo : SUBSET Scenes, submitted : Nat, cut : [Scenes -> 0 .. Hand]]

RunOK ==
  /\ run \in Run
  /\ run.pc # "IDLE" => run.prompt \in Manifests
  /\ run.seen <= Len(ledger)

\* An entry of the cache leads to a clip of its scene and prompt, and unless a
\* death has cost it entries the cache leads to one for all that were bought.
CacheLeads ==
  /\ \A s \in Scenes, p \in Prompts : cache[Key(s, p)] # NoClip =>
       clips[cache[Key(s, p)]].scene = s /\ clips[cache[Key(s, p)]].prompt = p
  /\ ~torn => \A c \in DOMAIN clips : cache[Key(clips[c].scene, clips[c].prompt)] # NoClip

\* Before it buys a run has obtained and spent nothing.
Fresh ==
  run.pc \in {"IDLE", "REJECTED", "PRICE"} => run.cut = NoneFor /\ run.submitted = 0

\* While it buys, all it has obtained fits; what it has left to obtain and did
\* not price it will find in the cache; and what it has left of what it priced is
\* within what it has not submitted yet.
Buying == run.pc \in {"BUY", "POLL"}

ObtainedFits ==
  Buying => \A s \in Scenes : run.cut[s] # NoClip =>
    /\ run.cut[s] \in DOMAIN clips
    /\ clips[run.cut[s]].scene = s /\ clips[run.cut[s]].prompt = run.prompt[s]

UnpricedIsCached ==
  Buying => \A s \in run.todo \ run.priced : s \notin run.asked /\ Lookup(run, s) # NoClip

Submitting ==
  run.pc = "POLL" =>
    /\ run.todo # {}
    /\ Min(run.todo) \in run.asked \/ Lookup(run, Min(run.todo)) = NoClip

WithinPrice ==
  Buying => run.submitted + Cardinality(run.todo \cap run.priced)
              <= Cardinality(run.priced) + (IF run.pc = "POLL" THEN 1 ELSE 0)

\* The approvals a run protects are the ones of the ledger it read.
ProtectsWhatItRead == Buying => run.approved = collectApprovedClipChecksums(run)

FilesInv == FilesOK /\ LedgerOK /\ CacheLeads /\ BoughtAgainOnlyWhenAsked

Progress == Fresh /\ ObtainedFits /\ UnpricedIsCached /\ Submitting /\ WithinPrice
Film == RenderedAsApproved /\ CutFitsItsScene /\ ApprovedStays

RunInv == RunOK /\ Progress /\ SpentAsPriced /\ ProtectsWhatItRead /\ Film

IInv == FilesInv /\ RunInv

-----------------------------------------------------------------------------
(* The first and the last of a set of numbers.                             *)

LEMMA Constants ==
  /\ Scenes \subseteq Nat /\ IsFiniteSet(Scenes) /\ SoundHands \subseteq Manual
  /\ Manual \subseteq Scenes
  /\ Intents \subseteq {"PRODUCTION_MASTER", "FULL_LENGTH_REVIEW_CANDIDATE"}
  /\ Ceiling \in Nat /\ MaxRuns \in Nat /\ MaxClips \in Nat /\ MaxDecisions \in Nat
BY StoryboardAssumption

\* Less-than on the naturals, as a relation.
LEMMA LessThan ==
  \A p, q \in Nat : <<q, p>> \in OpToRel(<, Nat) <=> q < p
BY DEF OpToRel

LEMMA HasALeast ==
  ASSUME NEW S, S \subseteq Nat, S # {}
  PROVE  \E x \in S : \A y \in S : x <= y
<1>1. \E R : IsWellFoundedOn(R, Nat) /\ \A p, q \in Nat : <<q, p>> \in R <=> q < p
  BY LessThan, NatLessThanWellFounded, Zenon
<1>2. PICK R : IsWellFoundedOn(R, Nat) /\ \A p, q \in Nat : <<q, p>> \in R <=> q < p
  BY <1>1
<1>3. PICK p \in S : \A q \in S : ~(<<q, p>> \in R)
  BY <1>2, WFMin
<1>4. \A q \in S : ~(q < p)
  BY <1>2, <1>3
<1>. QED
  BY <1>4

LEMMA MinIsLeast ==
  ASSUME NEW S, S \subseteq Nat, S # {}
  PROVE  Min(S) \in S /\ \A y \in S : Min(S) <= y
BY HasALeast DEF Min

LEMMA MaxIsGreatest ==
  ASSUME NEW n \in Nat, NEW S, S \subseteq 1 .. n, S # {}
  PROVE  Max(S) \in S /\ \A y \in S : y <= Max(S)
<1> DEFINE Mirror == {n - x : x \in S}
<1>0. \A x \in S : x \in Nat /\ n - x \in Nat
  OBVIOUS
<1>1. Mirror \subseteq Nat /\ Mirror # {}
  BY <1>0
<1>2. PICK m \in Mirror : \A y \in Mirror : m <= y
  BY <1>1, HasALeast
<1>3. PICK x \in S : m = n - x
  OBVIOUS
<1>4. ASSUME NEW y \in S PROVE x >= y
  <2>1. n - y \in Mirror
    OBVIOUS
  <2>2. n - x <= n - y
    BY <1>2, <1>3, <2>1
  <2>3. x \in Nat /\ y \in Nat
    BY <1>0
  <2>. QED
    BY <2>2, <2>3
<1>5. \E z \in S : \A y \in S : z >= y
  BY <1>4
<1>6. Max(S) \in S /\ \A y \in S : Max(S) >= y
  BY <1>5 DEF Max
<1>7. \A y \in S : y \in Nat
  OBVIOUS
<1>. QED
  BY <1>6, <1>7

-----------------------------------------------------------------------------
(* Reading the ledger.                                                     *)

\* What a run read of the ledger is what is there.
LEMMA Prefix ==
  ASSUME LedgerOK, NEW k \in 0 .. Len(ledger)
  PROVE  /\ DOMAIN SubSeq(ledger, 1, k) = 1 .. k
         /\ \A n \in 1 .. k : SubSeq(ledger, 1, k)[n] = ledger[n] /\ ledger[n] \in Decided
<1>1. ledger \in Seq(Decided) /\ Len(ledger) \in Nat
  BY DEF LedgerOK
<1>2. Len(SubSeq(ledger, 1, k)) = k /\ \A n \in 1 .. k : SubSeq(ledger, 1, k)[n] = ledger[n]
  BY <1>1
<1>3. SubSeq(ledger, 1, k) \in Seq(Decided)
  BY <1>1
<1>. QED
  BY <1>1, <1>2, <1>3

\* A decision that is recorded leaves what was read before it as it was.
LEMMA PrefixIsKept ==
  ASSUME LedgerOK, NEW k \in 0 .. Len(ledger), NEW d, ledger' = Append(ledger, d)
  PROVE  SubSeq(ledger', 1, k) = SubSeq(ledger, 1, k)
<1>1. ledger \in Seq(Decided) /\ Len(ledger) \in Nat
  BY DEF LedgerOK
<1>2. ledger' \in Seq(Decided \cup {d}) /\ Len(ledger') = Len(ledger) + 1
      /\ \A n \in 1 .. Len(ledger) : ledger'[n] = ledger[n]
  BY <1>1
<1> DEFINE new == SubSeq(ledger', 1, k)
           old == SubSeq(ledger, 1, k)
<1>3. Len(new) = k /\ (\A n \in 1 .. k : new[n] = ledger'[n]) /\ new \in Seq(Decided \cup {d})
  BY <1>1, <1>2
<1>4. Len(old) = k /\ (\A n \in 1 .. k : old[n] = ledger[n]) /\ old \in Seq(Decided \cup {d})
  BY <1>1
<1>5. \A n \in 1 .. k : new[n] = old[n]
  BY <1>1, <1>2, <1>3, <1>4
<1> HIDE DEF new, old
<1>6. new = old
  BY <1>3, <1>4, <1>5, SeqEqual
<1>. QED
  BY <1>6 DEF new, old

\* The latest decision of some is the last one of them.
LEMMA LatestIsLast ==
  ASSUME LedgerOK, NEW k \in 0 .. Len(ledger), NEW fitting, fitting \subseteq 1 .. k
  PROVE  /\ fitting = {} => LatestOf(SubSeq(ledger, 1, k), fitting).verdict = "NONE"
         /\ fitting # {} =>
              \E n \in fitting : /\ LatestOf(SubSeq(ledger, 1, k), fitting) = ledger[n]
                                 /\ ledger[n] \in Decided /\ \A m \in fitting : m <= n
<1>0. k \in Nat
  BY DEF LedgerOK
<1>1. CASE fitting = {}
  BY <1>1 DEF LatestOf, Decision
<1>2. CASE fitting # {}
  <2>1. Max(fitting) \in fitting /\ \A y \in fitting : y <= Max(fitting)
    BY <1>0, <1>2, MaxIsGreatest
  <2>2. LatestOf(SubSeq(ledger, 1, k), fitting) = SubSeq(ledger, 1, k)[Max(fitting)]
    BY <1>2 DEF LatestOf
  <2>. QED
    BY <1>2, <2>1, <2>2, Prefix
<1>. QED
  BY <1>1, <1>2

\* A clip whose status is APPROVED has an approval that no later decision about
\* the same identity takes back.
LEMMA ApprovedStatus ==
  ASSUME LedgerOK, NEW r, r.seen \in 0 .. Len(ledger), NEW s \in Scenes, NEW c,
         Status(r, s, c) = "APPROVED"
  PROVE  \E n \in 1 .. r.seen :
           /\ ledger[n] = [scene |-> s, clip |-> c, prompt |-> r.prompt[s],
                           verdict |-> "APPROVED"]
           /\ \A m \in n + 1 .. r.seen : ledger[m] # [ledger[n] EXCEPT !.verdict = "REJECTED"]
<1> DEFINE k == r.seen
           read == SubSeq(ledger, 1, k)
           fitting == {n \in DOMAIN read : /\ read[n].scene = s /\ read[n].clip = c
                                           /\ read[n].prompt = r.prompt[s]}
<1>1. LatestOf(read, fitting).verdict = "APPROVED"
  BY DEF Status, latestApplicable
<1>2. /\ fitting \subseteq 1 .. k
      /\ \A n \in 1 .. k : n \in fitting <=> /\ ledger[n].scene = s /\ ledger[n].clip = c
                                             /\ ledger[n].prompt = r.prompt[s]
  BY Prefix
<1> HIDE DEF fitting
<1>3. PICK n \in fitting : /\ LatestOf(read, fitting) = ledger[n]
                           /\ ledger[n] \in Decided /\ \A m \in fitting : m <= n
  BY <1>1, <1>2, LatestIsLast
<1>4. ledger[n] = [scene |-> s, clip |-> c, prompt |-> r.prompt[s], verdict |-> "APPROVED"]
  BY <1>1, <1>2, <1>3 DEF Decided
<1>5. ASSUME NEW m \in n + 1 .. k, ledger[m] = [ledger[n] EXCEPT !.verdict = "REJECTED"]
      PROVE  FALSE
  <2>1. n \in 1 .. k /\ k \in Nat
    BY <1>2 DEF LedgerOK
  <2>2. m \in 1 .. k /\ m > n
    BY <2>1
  <2>3. ledger[m].scene = s /\ ledger[m].clip = c /\ ledger[m].prompt = r.prompt[s]
    BY <1>4, <1>5
  <2>. QED
    BY <1>2, <1>3, <2>1, <2>2, <2>3
<1>. QED
  BY <1>2, <1>4, <1>5

\* The clips a run protects: those the last decision about their scene approves.
LEMMA ProtectedClips ==
  ASSUME LedgerOK, NEW r, r.seen \in 0 .. Len(ledger)
  PROVE  /\ collectApprovedClipChecksums(r) \in [Scenes -> 0 .. Hand]
         /\ \A s \in Scenes, n \in 1 .. r.seen :
              /\ ledger[n].scene = s /\ ledger[n].verdict = "APPROVED"
              /\ \A m \in n + 1 .. r.seen : ledger[m].scene # s
              => collectApprovedClipChecksums(r)[s] = ledger[n].clip /\ ledger[n].clip # NoClip
<1> DEFINE k == r.seen
           read == SubSeq(ledger, 1, k)
           Fitting(s) == {n \in DOMAIN read : read[n].scene = s}
           Latest(s) == LatestOf(read, Fitting(s))
<1>0. k \in Nat /\ 0 \in 0 .. Hand /\ \A c \in Clip : c \in 0 .. Hand /\ c # 0
  BY Constants DEF LedgerOK, Hand, Clip
<1>1. collectApprovedClipChecksums(r) =
        [s \in Scenes |-> IF Latest(s).verdict = "APPROVED" THEN Latest(s).clip ELSE NoClip]
  BY DEF collectApprovedClipChecksums, latestAny
<1>2. \A s \in Scenes : Fitting(s) \subseteq 1 .. k
                        /\ \A n \in 1 .. k : n \in Fitting(s) <=> ledger[n].scene = s
  BY Prefix
<1> HIDE DEF Fitting
<1>3. \A s \in Scenes :
        /\ Fitting(s) = {} => Latest(s).verdict = "NONE"
        /\ Fitting(s) # {} =>
             \E n \in Fitting(s) : /\ Latest(s) = ledger[n] /\ ledger[n] \in Decided
                                   /\ \A m \in Fitting(s) : m <= n
  BY <1>2, LatestIsLast
<1> HIDE DEF Latest
<1>4. \A s \in Scenes : Latest(s).verdict = "APPROVED" => Latest(s).clip \in 0 .. Hand
  BY <1>0, <1>3 DEF Decided
<1>5. ASSUME NEW s \in Scenes, NEW n \in 1 .. k,
             ledger[n].scene = s, ledger[n].verdict = "APPROVED",
             \A m \in n + 1 .. k : ledger[m].scene # s
      PROVE  Latest(s) = ledger[n] /\ ledger[n].clip # NoClip
  <2>1. n \in Fitting(s)
    BY <1>2, <1>5
  <2>2. PICK l \in Fitting(s) : /\ Latest(s) = ledger[l] /\ ledger[l] \in Decided
                                /\ \A m \in Fitting(s) : m <= l
    BY <1>3, <2>1
  <2>3. l \in 1 .. k /\ n <= l /\ ledger[l].scene = s
    BY <1>2, <2>1, <2>2
  <2>4. l = n
    BY <1>0, <1>5, <2>3
  <2>. QED
    BY <1>0, <2>2, <2>4 DEF Decided, NoClip
<1>. QED
  BY <1>0, <1>1, <1>4, <1>5 DEF NoClip

-----------------------------------------------------------------------------
(* Steps that end a run, and steps of the reviewer.                        *)

\* Between runs there is nothing to keep.
LEMMA EndKeeps ==
  ASSUME End, Len(ledger') \in Nat
  PROVE  RunInv'
<1>1. Idle \in Run
  BY Constants DEF Idle, Run, NoneFor, NoClip, Hand
<1>2. RunOK'
  BY <1>1 DEF End, RunOK, Idle
<1>3. Progress'
  BY DEF End, Idle, Progress, Fresh, ObtainedFits, UnpricedIsCached, Submitting, WithinPrice,
         Buying
<1>4. SpentAsPriced'
  <2>1. Cardinality({}) = 0
    BY FS_EmptySet
  <2>. QED
    BY <2>1, Constants DEF End, Idle, SpentAsPriced
<1>5. ProtectsWhatItRead' /\ Film'
  BY DEF End, Idle, ProtectsWhatItRead, Buying, Film, RenderedAsApproved, CutFitsItsScene,
         ApprovedStays, At
<1>. QED
  BY <1>2, <1>3, <1>4, <1>5 DEF RunInv

LEMMA FilesKept == FilesInv /\ UNCHANGED <<files, look>> => FilesInv'
BY DEF FilesInv, FilesOK, LedgerOK, CacheLeads, BoughtAgainOnlyWhenAsked, files, Bought

\* Looking changes nothing a run relies on; nor does a decision, which a run in
\* progress does not read.
LEMMA ReviewerKeeps ==
  ASSUME IInv, Look \/ recordDecision
  PROVE  IInv'
<1> USE DEF IInv, FilesInv
<1>0. ledger \in Seq(Decided) /\ Len(ledger) \in Nat /\ clips \in Seq(BoughtClip)
      /\ Len(clips) \in Nat /\ Len(clips) <= MaxClips
  BY DEF LedgerOK, FilesOK
<1>1. /\ UNCHANGED <<clips, cache, torn, index, run>>
      /\ ledger' = ledger \/ \E d : ledger' = Append(ledger, d)
  BY DEF Look, recordDecision, files
<1>2. LedgerOK'
  <2>1. CASE Look
    <3>1. PICK s \in Scenes : \E prompt \in Drafts[s] :
            /\ look' = [scene |-> s, clip |-> movingSourcePathFor(s, {}, index),
                        prompt |-> prompt]
            /\ movingSourcePathFor(s, {}, index) # NoClip
      BY <2>1 DEF Look, Inspectable
    <3>2. Drafts[s] \subseteq Prompts
      BY DEF Prompts
    <3>3. movingSourcePathFor(s, {}, index) \in Clip
      BY <1>0, <3>1, Constants
      DEF movingSourcePathFor, Hand, Clip, FilesOK, Bought, NoClip
    <3>. QED
      BY <2>1, <3>1, <3>2, <3>3 DEF Look, LedgerOK, Looked, files
  <2>2. CASE recordDecision
    <3>1. PICK verdict \in {"APPROVED", "REJECTED"} :
            ledger' = Append(ledger, Decision(look, verdict))
      BY <2>2 DEF recordDecision
    <3>2. look \in Looked
      BY <2>2 DEF recordDecision, LedgerOK
    <3>3. Decision(look, verdict) \in Decided
      BY <3>2 DEF Looked, Decision, Decided
    <3>. QED
      BY <1>0, <2>2, <3>1, <3>3 DEF recordDecision, LedgerOK
  <2>. QED
    BY <2>1, <2>2
<1>3. FilesOK' /\ CacheLeads' /\ BoughtAgainOnlyWhenAsked'
  BY <1>1 DEF FilesOK, CacheLeads, BoughtAgainOnlyWhenAsked, Bought
<1>4. \A k \in 0 .. Len(ledger) :
        /\ SubSeq(ledger', 1, k) = SubSeq(ledger, 1, k)
        /\ \A n \in 1 .. k : ledger'[n] = ledger[n]
  BY <1>0, <1>1, PrefixIsKept
<1>5. run.seen \in 0 .. Len(ledger) /\ Len(ledger) <= Len(ledger')
  <2>1. run.seen \in Nat /\ run.seen <= Len(ledger)
    BY DEF RunInv, RunOK, Run
  <2>. QED
    BY <1>0, <1>1, <2>1
<1>6. RunOK'
  BY <1>0, <1>1, <1>2, <1>5 DEF RunInv, RunOK, LedgerOK
<1>7. Progress' /\ SpentAsPriced' /\ CutFitsItsScene'
  BY <1>1 DEF RunInv, Progress, Fresh, ObtainedFits, UnpricedIsCached, Submitting, WithinPrice,
              Buying, SpentAsPriced, Film, CutFitsItsScene, Lookup, At
<1>8. ProtectsWhatItRead'
  BY <1>1, <1>4, <1>5 DEF RunInv, ProtectsWhatItRead, Buying, collectApprovedClipChecksums
<1>9. RenderedAsApproved' /\ ApprovedStays'
  <2>1. \A n \in 1 .. run.seen : ledger'[n] = ledger[n]
    BY <1>4, <1>5
  <2>2. \A n \in 1 .. run.seen : \A m \in n + 1 .. run.seen : m \in 1 .. run.seen
    BY <1>5
  <2>3. RenderedAsApproved'
    <3>1. SUFFICES ASSUME At("RENDER"), run.intent = "PRODUCTION_MASTER", NEW s \in Scenes
                   PROVE  \E n \in 1 .. run.seen :
                            /\ ledger'[n] = [scene |-> s, clip |-> run.cut[s],
                                             prompt |-> run.prompt[s], verdict |-> "APPROVED"]
                            /\ \A m \in n + 1 .. run.seen :
                                 ledger'[m] # [ledger'[n] EXCEPT !.verdict = "REJECTED"]
      BY <1>1 DEF RenderedAsApproved, At
    <3>2. PICK n \in 1 .. run.seen :
            /\ ledger[n] = [scene |-> s, clip |-> run.cut[s],
                            prompt |-> run.prompt[s], verdict |-> "APPROVED"]
            /\ \A m \in n + 1 .. run.seen :
                 ledger[m] # [ledger[n] EXCEPT !.verdict = "REJECTED"]
      BY <3>1 DEF RunInv, Film, RenderedAsApproved
    <3>. QED
      BY <2>1, <2>2, <3>2
  <2>4. ApprovedStays'
    BY <1>1, <2>1, <2>2 DEF RunInv, Film, ApprovedStays, At
  <2>. QED
    BY <2>3, <2>4
<1>. QED
  BY <1>2, <1>3, <1>6, <1>7, <1>8, <1>9 DEF RunInv, Film

-----------------------------------------------------------------------------
(* Steps of a run, before it buys.                                         *)

\* A run that has not begun to buy carries nothing but what it read.
LEMMA NotYetBuying ==
  ASSUME RunOK', run'.pc \in {"REJECTED", "PRICE"}, run'.cut = NoneFor, run'.submitted = 0,
         SpentAsPriced'
  PROVE  RunInv'
BY DEF RunInv, Progress, Fresh, ObtainedFits, UnpricedIsCached, Submitting, WithinPrice,
       Buying, ProtectsWhatItRead, Film, RenderedAsApproved, CutFitsItsScene, ApprovedStays, At

LEMMA BeginKeeps == ASSUME IInv, Begin PROVE IInv'
<1>1. PICK asked \in SUBSET Scenes, next \in {"REJECTED", "PRICE"}, intent \in Intents,
           prompt \in Manifests :
        run' = [Idle EXCEPT !.pc = next, !.intent = intent, !.asked = asked,
                            !.prompt = prompt, !.seen = Len(ledger)]
  BY DEF Begin, Goes
<1>2. ledger' = ledger /\ Len(ledger) \in Nat
  BY DEF Begin, files, IInv, FilesInv, LedgerOK
<1>3. Idle \in Run
  BY Constants DEF Idle, Run, NoneFor, NoClip, Hand
<1>4. prompt \in [Scenes -> Prompts \cup {NoPrompt}]
  BY DEF Manifests
<1>5. intent \in {"PRODUCTION_MASTER", "FULL_LENGTH_REVIEW_CANDIDATE"}
  BY Constants
<1>6. /\ run' \in Run /\ run'.pc = next /\ run'.prompt = prompt /\ run'.seen = Len(ledger)
      /\ run'.cut = NoneFor /\ run'.submitted = 0 /\ run'.priced = {}
  BY <1>1, <1>2, <1>3, <1>4, <1>5 DEF Run, Idle
<1>7. RunOK'
  BY <1>2, <1>6 DEF RunOK
<1>8. SpentAsPriced'
  BY <1>6, FS_EmptySet, Constants DEF SpentAsPriced
<1>9. FilesInv'
  BY FilesKept DEF IInv, Begin
<1>. QED
  BY <1>6, <1>7, <1>8, <1>9, NotYetBuying DEF IInv

LEMMA RejectedKeeps == ASSUME IInv, findRejectedScenes PROVE IInv'
<1>1. PICK rejected \in SUBSET Scenes, prompt \in Manifests \cup {run.prompt} :
        run' = [run EXCEPT !.pc = "PRICE", !.asked = @ \cup rejected, !.prompt = prompt]
  BY DEF findRejectedScenes, Goes
<1>2. /\ run \in Run /\ run.pc = "REJECTED" /\ run.prompt \in Manifests
      /\ run.seen <= Len(ledger) /\ ledger' = ledger
      /\ run.cut = NoneFor /\ run.submitted = 0
  BY DEF findRejectedScenes, At, IInv, RunInv, RunOK, Progress, Fresh, files
<1>3. prompt \in Manifests /\ prompt \in [Scenes -> Prompts \cup {NoPrompt}]
  BY <1>2 DEF Manifests
<1>4. /\ run' \in Run /\ run'.pc = "PRICE" /\ run'.prompt = prompt /\ run'.seen = run.seen
      /\ run'.cut = run.cut /\ run'.submitted = run.submitted /\ run'.priced = run.priced
  BY <1>1, <1>2, <1>3 DEF Run
<1>5. RunOK'
  BY <1>2, <1>3, <1>4 DEF RunOK
<1>6. SpentAsPriced'
  BY <1>4 DEF SpentAsPriced, IInv, RunInv
<1>7. FilesInv'
  BY FilesKept DEF IInv, findRejectedScenes
<1>. QED
  BY <1>2, <1>4, <1>5, <1>6, <1>7, NotYetBuying DEF IInv

\* What a run finds in the cache is a clip of that scene and prompt.
LEMMA LookupFits ==
  ASSUME FilesInv, RunOK, run.pc # "IDLE", NEW s \in Scenes
  PROVE  /\ run.prompt[s] \in Prompts /\ Lookup(run, s) \in Bought
         /\ Lookup(run, s) # NoClip =>
              /\ Lookup(run, s) \in DOMAIN clips
              /\ clips[Lookup(run, s)].scene = s
              /\ clips[Lookup(run, s)].prompt = run.prompt[s]
<1>1. run.prompt[s] \in Prompts
  BY DEF RunOK, Manifests
<1>2. <<s, run.prompt[s]>> \in Scenes \X Prompts
  BY <1>1
<1>3. Lookup(run, s) \in Bought
  BY <1>2 DEF Lookup, Key, FilesInv, FilesOK
<1>4. clips \in Seq(BoughtClip) /\ Len(clips) \in Nat
  BY DEF FilesInv, FilesOK
<1>. QED
  BY <1>1, <1>3, <1>4 DEF Lookup, FilesInv, CacheLeads, Bought, NoClip

\* The price covers every scene to be generated that the cache does not hold.
LEMMA PriceKeeps == ASSUME IInv, Price PROVE IInv'
<1>0. FilesInv' /\ Len(ledger') \in Nat
  BY FilesKept DEF IInv, Price, FilesInv, LedgerOK
<1>1. CASE End
  BY <1>0, <1>1, EndKeeps DEF IInv
<1>2. CASE ~End
  <2> DEFINE generating == {s \in Scenes : RequiresGeneration(s, run.asked)}
             priced == generating \ findCachedScenes(run)
             approved == collectApprovedClipChecksums(run)
  <2>1. /\ Cardinality(priced) <= Ceiling
        /\ run' = [run EXCEPT !.pc = "BUY", !.priced = priced, !.todo = generating,
                              !.approved = approved]
        /\ UNCHANGED <<clips, cache, ledger>>
    BY <1>2 DEF Price, Goes, files
  <2>2. /\ run \in Run /\ run.pc = "PRICE" /\ run.prompt \in Manifests
        /\ run.seen <= Len(ledger) /\ run.cut = NoneFor /\ run.submitted = 0
    BY DEF Price, At, IInv, RunInv, RunOK, Progress, Fresh
  <2>3. run.seen \in 0 .. Len(ledger)
    BY <2>2 DEF Run, IInv, FilesInv, LedgerOK
  <2>4. approved \in [Scenes -> 0 .. Hand]
    BY <2>3, ProtectedClips DEF IInv, FilesInv
  <2>5. generating \in SUBSET Scenes /\ priced \in SUBSET Scenes
    OBVIOUS
  <2> HIDE DEF generating, priced, approved
  <2>6. /\ run' \in Run /\ run'.pc = "BUY" /\ run'.priced = priced /\ run'.todo = generating
        /\ run'.approved = approved /\ run'.prompt = run.prompt /\ run'.seen = run.seen
        /\ run'.cut = NoneFor /\ run'.submitted = 0 /\ run'.asked = run.asked
    BY <2>1, <2>2, <2>4, <2>5 DEF Run
  <2>7. RunOK'
    BY <2>1, <2>2, <2>6 DEF RunOK
  <2>8. Fresh' /\ ObtainedFits' /\ Submitting'
    BY <2>6 DEF Fresh, ObtainedFits, Submitting, Buying, NoneFor
  <2>9. UnpricedIsCached'
    <3>1. \A s \in generating \ priced : s \notin run.asked /\ Lookup(run, s) # NoClip
      BY DEF priced, findCachedScenes
    <3>. QED
      BY <2>1, <2>6, <3>1 DEF UnpricedIsCached, Lookup
  <2>10. Cardinality(priced) \in Nat /\ generating \cap priced = priced
    BY <2>5, Constants, FS_Subset, FS_CardinalityType DEF priced
  <2>11. WithinPrice' /\ SpentAsPriced'
    <3>1. /\ Cardinality(run'.todo \cap run'.priced) = Cardinality(priced)
          /\ Cardinality(run'.priced) = Cardinality(priced)
      BY <2>6, <2>10
    <3>. QED
      BY <2>1, <2>6, <2>10, <3>1 DEF WithinPrice, SpentAsPriced
  <2>12. ProtectsWhatItRead'
    BY <2>1, <2>6 DEF ProtectsWhatItRead, collectApprovedClipChecksums, approved
  <2>13. Film'
    BY <2>6 DEF Film, RenderedAsApproved, CutFitsItsScene, ApprovedStays, At
  <2>. QED
    BY <1>0, <2>7, <2>8, <2>9, <2>11, <2>12, <2>13 DEF IInv, RunInv, Progress
<1>. QED
  BY <1>1, <1>2

-----------------------------------------------------------------------------
(* Buying.                                                                 *)

\* The next scene of some, and what it leaves of the priced ones.
LEMMA NextScene ==
  ASSUME RunOK, run.todo # {}
  PROVE  /\ Min(run.todo) \in run.todo /\ Min(run.todo) \in Scenes
         /\ Cardinality(run.priced) \in Nat
         /\ LET left == run.todo \cap run.priced
                rest == (run.todo \ {Min(run.todo)}) \cap run.priced
            IN  /\ Cardinality(left) \in Nat /\ Cardinality(rest) \in Nat
                /\ Cardinality(rest) <= Cardinality(left)
                /\ Min(run.todo) \in run.priced =>
                     Cardinality(left) >= 1 /\ Cardinality(rest) = Cardinality(left) - 1
<1>1. run.todo \subseteq Scenes /\ run.priced \subseteq Scenes /\ Scenes \subseteq Nat
      /\ IsFiniteSet(Scenes)
  BY Constants DEF RunOK, Run
<1>2. Min(run.todo) \in run.todo
  BY <1>1, MinIsLeast
<1> DEFINE s == Min(run.todo)
           left == run.todo \cap run.priced
           rest == (run.todo \ {s}) \cap run.priced
<1>3. IsFiniteSet(run.priced) /\ IsFiniteSet(left) /\ rest \subseteq left
  BY <1>1, FS_Subset
<1>4. Cardinality(run.priced) \in Nat /\ Cardinality(left) \in Nat
  BY <1>3, FS_CardinalityType
<1>5. IsFiniteSet(rest) /\ Cardinality(rest) \in Nat /\ Cardinality(rest) <= Cardinality(left)
  BY <1>3, FS_Subset, FS_CardinalityType
<1>6. ASSUME s \in run.priced
      PROVE  Cardinality(left) >= 1 /\ Cardinality(rest) = Cardinality(left) - 1
  <2>1. s \in left /\ rest = left \ {s}
    BY <1>2, <1>6
  <2>2. Cardinality(rest) = Cardinality(left) - 1
    BY <1>3, <2>1, FS_RemoveElement
  <2>. QED
    BY <1>4, <1>5, <2>2
<1>. QED
  BY <1>1, <1>2, <1>4, <1>5, <1>6

\* A step of the purchase that keeps the run at it.
LEMMA StillBuying ==
  ASSUME IInv, Buying, Buying', RunOK', ledger' = ledger,
         run'.approved = run.approved, run'.seen = run.seen,
         ObtainedFits', UnpricedIsCached', Submitting', WithinPrice', SpentAsPriced'
  PROVE  RunInv'
<1>1. ProtectsWhatItRead'
  BY DEF IInv, RunInv, ProtectsWhatItRead, collectApprovedClipChecksums
<1>2. Fresh' /\ Film'
  BY DEF Buying, Fresh, Film, RenderedAsApproved, CutFitsItsScene, ApprovedStays, At
<1>. QED
  BY <1>1, <1>2 DEF RunInv, Progress

\* A scene is found in the cache, or a job that was priced is submitted for it.
LEMMA ObtainKeeps == ASSUME IInv, Obtain PROVE IInv'
<1> DEFINE s == Min(run.todo)
<1>0. FilesInv' /\ Len(ledger') \in Nat /\ UNCHANGED <<clips, cache, ledger>>
  BY FilesKept DEF IInv, Obtain, FilesInv, LedgerOK, files
<1>1. /\ run \in Run /\ run.pc = "BUY" /\ run.todo # {} /\ Buying /\ RunOK /\ FilesInv
      /\ run.prompt \in Manifests /\ run.seen <= Len(ledger)
  BY DEF Obtain, At, IInv, RunInv, RunOK, Buying
<1>2. /\ ObtainedFits /\ UnpricedIsCached /\ WithinPrice /\ SpentAsPriced
  BY DEF IInv, RunInv, Progress
<1>3. s \in run.todo /\ s \in Scenes
  BY <1>1, NextScene
<1>4. CASE End
  BY <1>0, <1>4, EndKeeps DEF IInv
<1>5. CASE s \notin run.asked /\ Lookup(run, s) # NoClip
           /\ run' = [run EXCEPT !.todo = @ \ {s}, !.cut[s] = Lookup(run, s)]
  <2>1. /\ Lookup(run, s) \in DOMAIN clips /\ clips[Lookup(run, s)].scene = s
        /\ clips[Lookup(run, s)].prompt = run.prompt[s]
    BY <1>1, <1>3, <1>5, LookupFits
  <2>2. Lookup(run, s) \in 0 .. Hand
    BY <2>1, Constants DEF FilesInv, FilesOK, Hand, IInv
  <2> HIDE DEF s
  <2>3. /\ run' \in Run /\ run'.pc = "BUY" /\ run'.todo = run.todo \ {s}
        /\ run'.cut = [run.cut EXCEPT ![s] = Lookup(run, s)]
        /\ run'.prompt = run.prompt /\ run'.asked = run.asked /\ run'.seen = run.seen
        /\ run'.approved = run.approved /\ run'.priced = run.priced
        /\ run'.submitted = run.submitted
    BY <1>1, <1>3, <1>5, <2>2 DEF Run
  <2>4. RunOK'
    BY <1>0, <1>1, <2>3 DEF RunOK
  <2>5. ObtainedFits'
    <3>1. run.cut \in [Scenes -> 0 .. Hand]
      BY <1>1 DEF Run
    <3>. QED
      BY <1>0, <1>1, <1>2, <2>1, <2>3, <3>1 DEF ObtainedFits, Buying
  <2>6. UnpricedIsCached'
    BY <1>0, <1>1, <1>2, <2>3 DEF UnpricedIsCached, Buying, Lookup
  <2>7. Submitting' /\ SpentAsPriced' /\ Buying'
    BY <1>2, <2>3 DEF Submitting, SpentAsPriced, Buying
  <2>8. WithinPrice'
    <3>1. Cardinality((run.todo \ {s}) \cap run.priced) <= Cardinality(run.todo \cap run.priced)
          /\ Cardinality((run.todo \ {s}) \cap run.priced) \in Nat
          /\ Cardinality(run.todo \cap run.priced) \in Nat /\ Cardinality(run.priced) \in Nat
      BY <1>1, NextScene DEF s
    <3>2. run.submitted \in Nat
      BY <1>1 DEF Run
    <3>. QED
      BY <1>1, <1>2, <2>3, <3>1, <3>2 DEF WithinPrice, Buying
  <2>. QED
    BY <1>0, <1>1, <2>3, <2>4, <2>5, <2>6, <2>7, <2>8, StillBuying DEF IInv
<1>6. CASE (s \in run.asked \/ Lookup(run, s) = NoClip)
           /\ run' = [run EXCEPT !.pc = "POLL", !.submitted = @ + 1]
  <2>1. s \in run.priced
    BY <1>1, <1>2, <1>3, <1>6 DEF UnpricedIsCached
  <2> HIDE DEF s
  <2>a. run.submitted \in Nat /\ run.submitted + 1 \in Nat
    BY <1>1 DEF Run
  <2>b. run' = [run EXCEPT !.pc = "POLL", !.submitted = run.submitted + 1]
    BY <1>6
  <2>2. /\ run' \in Run /\ run'.pc = "POLL" /\ run'.todo = run.todo
        /\ run'.cut = run.cut
        /\ run'.prompt = run.prompt /\ run'.asked = run.asked /\ run'.seen = run.seen
        /\ run'.approved = run.approved /\ run'.priced = run.priced
        /\ run'.submitted = run.submitted + 1 /\ run.submitted \in Nat
    BY <1>1, <2>a, <2>b DEF Run
  <2>3. RunOK'
    BY <1>0, <1>1, <2>2 DEF RunOK
  <2>4. ObtainedFits' /\ UnpricedIsCached'
    BY <1>0, <1>1, <1>2, <2>2 DEF ObtainedFits, UnpricedIsCached, Buying, Lookup
  <2>5. Submitting' /\ Buying'
    BY <1>0, <1>1, <1>6, <2>2 DEF Submitting, Lookup, Buying, s
  <2>6. WithinPrice' /\ SpentAsPriced'
    <3>1. /\ Cardinality(run.todo \cap run.priced) \in Nat /\ Cardinality(run.priced) \in Nat
          /\ Cardinality(run.todo \cap run.priced) >= 1
      BY <1>1, <2>1, NextScene DEF s
    <3>2. run.submitted + Cardinality(run.todo \cap run.priced) <= Cardinality(run.priced)
      BY <1>1, <1>2, <3>1, <2>2 DEF WithinPrice, Buying
    <3>3. WithinPrice'
      BY <2>2, <3>1, <3>2 DEF WithinPrice, Buying
    <3>4. SpentAsPriced'
      BY <1>2, <2>2, <3>1, <3>2 DEF SpentAsPriced
    <3>. QED
      BY <3>3, <3>4
  <2>. QED
    BY <1>0, <1>1, <2>2, <2>3, <2>4, <2>5, <2>6, StillBuying DEF IInv
<1>. QED
  BY <1>4, <1>5, <1>6 DEF Obtain, Goes

\* A clip that was paid for is kept under its scene and prompt, unless the
\* process dies over it.
LEMMA SaveKeeps == ASSUME IInv, Save PROVE IInv'
<1> DEFINE s == Min(run.todo)
           c == Len(clips) + 1
           p == run.prompt[s]
<1>1. /\ run \in Run /\ run.pc = "POLL" /\ run.todo # {} /\ Buying /\ RunOK /\ FilesInv
      /\ run.prompt \in Manifests /\ run.seen <= Len(ledger) /\ Len(ledger) \in Nat
      /\ s \in run.asked \/ Lookup(run, s) = NoClip
  BY DEF Save, At, IInv, RunInv, RunOK, Buying, Progress, Submitting, FilesInv, LedgerOK
<1>2. /\ ObtainedFits /\ UnpricedIsCached /\ WithinPrice /\ SpentAsPriced
  BY DEF IInv, RunInv, Progress
<1>3. s \in run.todo /\ s \in Scenes /\ p \in Prompts
  BY <1>1, NextScene, LookupFits
<1>4. /\ clips \in Seq(BoughtClip) /\ Len(clips) \in Nat /\ Len(clips) <= MaxClips
      /\ cache \in [Scenes \X Prompts -> Bought] /\ torn \in BOOLEAN
      /\ index \in [Scenes -> Bought]
  BY <1>1 DEF FilesInv, FilesOK
<1>5. CASE End /\ UNCHANGED files
  BY <1>1, <1>5, EndKeeps, FilesKept DEF IInv, Save, files
<1>6. CASE ~(End /\ UNCHANGED files)
  <2>1. PICK sound \in BOOLEAN :
          clips' = Append(clips, [scene |-> s, prompt |-> p, sound |-> sound,
                                  asked |-> s \in run.asked])
    BY <1>6 DEF Save
  <2>2. /\ Len(clips) < MaxClips /\ UNCHANGED <<index, ledger, look>>
        /\ \/ /\ cache' = Recorded(s, p, c) /\ torn' = torn
              /\ run' = [run EXCEPT !.pc = "BUY", !.todo = @ \ {s}, !.cut[s] = c]
           \/ torn' = TRUE /\ cache' \in {cache, NoCache} /\ End
    BY <1>6 DEF Save, Goes
  <2> DEFINE row == [scene |-> s, prompt |-> p, sound |-> sound, asked |-> s \in run.asked]
  <2>3. row \in BoughtClip
    BY <1>3 DEF BoughtClip
  <2>4. /\ row.scene = s /\ row.prompt = p /\ (row.asked <=> s \in run.asked)
    OBVIOUS
  <2> HIDE DEF row
  <2>5. /\ clips' \in Seq(BoughtClip) /\ Len(clips') = c /\ DOMAIN clips' = 1 .. c
        /\ clips'[c] = row /\ \A k \in 1 .. Len(clips) : clips'[k] = clips[k]
    BY <1>4, <2>1, <2>3 DEF row
  <2> HIDE DEF s, p
  <2>6. /\ \A k \in Scenes \X Prompts : cache[k] \in 0 .. Len(clips)
        /\ c \in Nat /\ c # 0 /\ c <= MaxClips /\ DOMAIN clips = 1 .. Len(clips)
        /\ c \notin DOMAIN clips /\ <<s, p>> \in Scenes \X Prompts
    BY <1>3, <1>4, <2>2, Constants DEF Bought
  <2> HIDE DEF c
  <2>7. /\ cache' \in [Scenes \X Prompts -> 0 .. c]
        /\ \A k \in Scenes \X Prompts :
             \/ cache'[k] = cache[k] \/ (cache'[k] = 0 /\ torn')
             \/ k = <<s, p>> /\ cache'[k] = c
        /\ ~torn' => ~torn /\ cache'[<<s, p>>] = c
        /\ torn => torn'
    <3>1. CASE cache' = Recorded(s, p, c) /\ torn' = torn
      <4>1. cache' = [cache EXCEPT ![<<s, p>>] = c]
        BY <3>1 DEF Recorded, Key
      <4>2. \A k \in Scenes \X Prompts : cache[k] \in 0 .. c
        BY <1>4, <2>6 DEF c
      <4> DEFINE Dom == Scenes \X Prompts
                 e == <<s, p>>
      <4>3. /\ cache \in [Dom -> Bought] /\ e \in Dom /\ cache' = [cache EXCEPT ![e] = c]
            /\ c \in 0 .. c /\ \A k \in Dom : cache[k] \in 0 .. c
        BY <1>4, <2>6, <4>1, <4>2
      <4> HIDE DEF Dom, e
      <4>4. /\ cache' \in [Dom -> 0 .. c] /\ cache'[e] = c
            /\ \A k \in Dom : cache'[k] = cache[k] \/ (k = e /\ cache'[k] = c)
        BY <4>3
      <4>. QED
        BY <3>1, <4>4 DEF Dom, e
    <3>2. CASE torn' = TRUE /\ cache' \in {cache, NoCache}
      <4>2. \A k \in Scenes \X Prompts : cache[k] \in 0 .. c
        BY <1>4, <2>6 DEF c
      <4>3. NoCache \in [Scenes \X Prompts -> 0 .. c]
            /\ \A k \in Scenes \X Prompts : NoCache[k] = 0
        BY <2>6 DEF NoCache, NoClip
      <4>. QED
        BY <1>4, <3>2, <4>2, <4>3
    <3>. QED
      BY <2>2, <3>1, <3>2
  <2>8. FilesOK'
    <3>1. Bought' = 0 .. c /\ Bought \subseteq 0 .. c
      BY <1>4, <2>5, <2>6 DEF Bought, c
    <3>2. torn' \in BOOLEAN
      BY <1>4, <2>2
    <3>3. index' \in [Scenes -> 0 .. c]
      BY <1>4, <2>2, <3>1
    <3>. QED
      BY <2>5, <2>6, <2>7, <3>1, <3>2, <3>3 DEF FilesOK
  <2>9. LedgerOK'
    BY <1>1, <2>2 DEF FilesInv, LedgerOK
  <2>10. CacheLeads'
    <3>1. ASSUME NEW s2 \in Scenes, NEW p2 \in Prompts, cache'[<<s2, p2>>] # 0
          PROVE  /\ clips'[cache'[<<s2, p2>>]].scene = s2
                 /\ clips'[cache'[<<s2, p2>>]].prompt = p2
      <4>1. CASE cache'[<<s2, p2>>] = cache[<<s2, p2>>]
        <5>1. cache[<<s2, p2>>] \in 1 .. Len(clips)
          BY <1>4, <2>6, <3>1, <4>1
        <5>. QED
          BY <1>1, <2>5, <3>1, <4>1, <5>1 DEF FilesInv, CacheLeads, Key, NoClip
      <4>2. CASE <<s2, p2>> = <<s, p>> /\ cache'[<<s2, p2>>] = c
        BY <2>4, <2>5, <4>2
      <4>. QED
        BY <2>7, <3>1, <4>1, <4>2
    <3>2. ASSUME ~torn', NEW k \in DOMAIN clips'
          PROVE  cache'[<<clips'[k].scene, clips'[k].prompt>>] # 0
      <4>1. CASE k = c
        BY <2>4, <2>5, <2>6, <2>7, <3>2, <4>1
      <4>2. CASE k \in 1 .. Len(clips)
        <5>1. clips'[k] = clips[k] /\ clips[k] \in BoughtClip
          BY <1>4, <2>5, <4>2
        <5>2. cache[<<clips[k].scene, clips[k].prompt>>] # 0
          BY <1>1, <2>6, <2>7, <3>2, <4>2 DEF FilesInv, CacheLeads, Key, NoClip
        <5>3. <<clips[k].scene, clips[k].prompt>> \in Scenes \X Prompts
          BY <5>1 DEF BoughtClip
        <5>. QED
          BY <2>6, <2>7, <3>2, <5>1, <5>2, <5>3
      <4>. QED
        BY <1>4, <2>5, <4>1, <4>2 DEF c
    <3>. QED
      BY <3>1, <3>2 DEF CacheLeads, Key, NoClip
  <2>11. BoughtAgainOnlyWhenAsked'
    <3> SUFFICES ASSUME NEW j \in 1 .. c, NEW i \in 1 .. j - 1,
                        clips'[i].scene = clips'[j].scene, clips'[i].prompt = clips'[j].prompt
                 PROVE  clips'[j].asked \/ torn'
      BY <2>5 DEF BoughtAgainOnlyWhenAsked
    <3>1. i \in 1 .. Len(clips) /\ clips'[i] = clips[i] /\ i \in DOMAIN clips
      BY <1>4, <2>5, <2>6 DEF c
    <3>2. CASE j = c
      <4>1. clips[i].scene = s /\ clips[i].prompt = p
        BY <2>4, <2>5, <3>1, <3>2
      <4>2. torn \/ Lookup(run, s) # NoClip
        BY <1>1, <3>1, <4>1 DEF FilesInv, CacheLeads, Lookup, p
      <4>. QED
        BY <1>1, <2>4, <2>5, <2>7, <3>2, <4>2
    <3>3. CASE j # c
      <4>1. j \in DOMAIN clips /\ clips'[j] = clips[j]
        BY <1>4, <2>5, <2>6, <3>3 DEF c
      <4>. QED
        BY <1>1, <2>7, <3>1, <4>1 DEF FilesInv, BoughtAgainOnlyWhenAsked
    <3>. QED
      BY <3>2, <3>3
  <2>12. FilesInv'
    BY <2>8, <2>9, <2>10, <2>11 DEF FilesInv
  <2>13. CASE End
    BY <1>1, <2>2, <2>12, <2>13, EndKeeps DEF IInv
  <2>14. CASE /\ cache' = Recorded(s, p, c)
              /\ run' = [run EXCEPT !.pc = "BUY", !.todo = @ \ {s}, !.cut[s] = c]
    <3>1. c \in 0 .. Hand
      BY <2>6, Constants DEF Hand
    <3>2. /\ run' \in Run /\ run'.pc = "BUY" /\ run'.todo = run.todo \ {s}
          /\ run'.cut = [run.cut EXCEPT ![s] = c]
          /\ run'.prompt = run.prompt /\ run'.asked = run.asked /\ run'.seen = run.seen
          /\ run'.approved = run.approved /\ run'.priced = run.priced
          /\ run'.submitted = run.submitted
      BY <1>1, <1>3, <2>14, <3>1 DEF Run
    <3>3. RunOK' /\ ledger' = ledger
      BY <1>1, <2>2, <3>2 DEF RunOK
    <3>4. ObtainedFits'
      <4>1. run.cut \in [Scenes -> 0 .. Hand]
        BY <1>1 DEF Run
      <4>2. ASSUME NEW s2 \in Scenes, run'.cut[s2] # NoClip
            PROVE  /\ run'.cut[s2] \in DOMAIN clips'
                   /\ clips'[run'.cut[s2]].scene = s2
                   /\ clips'[run'.cut[s2]].prompt = run'.prompt[s2]
        <5>1. CASE s2 = s
          BY <1>3, <2>4, <2>5, <2>6, <3>2, <4>1, <5>1 DEF p
        <5>2. CASE s2 # s
          <6>1. run'.cut[s2] = run.cut[s2]
            BY <3>2, <4>1, <5>2
          <6>2. /\ run.cut[s2] \in DOMAIN clips /\ clips[run.cut[s2]].scene = s2
                /\ clips[run.cut[s2]].prompt = run.prompt[s2]
            BY <1>1, <1>2, <4>2, <6>1 DEF ObtainedFits
          <6>3. run.cut[s2] \in 1 .. c /\ clips'[run.cut[s2]] = clips[run.cut[s2]]
            BY <1>4, <2>5, <2>6, <6>2 DEF c
          <6>. QED
            BY <2>5, <3>2, <6>1, <6>2, <6>3
        <5>. QED
          BY <5>1, <5>2
      <4>. QED
        BY <4>2 DEF ObtainedFits
    <3>5. UnpricedIsCached'
      <4>1. ASSUME NEW s2 \in run'.todo \ run'.priced
            PROVE  s2 \notin run'.asked /\ Lookup(run, s2)' # NoClip
        <5>1. s2 \notin run.asked /\ Lookup(run, s2) # NoClip /\ s2 \in Scenes
          BY <1>1, <1>2, <3>2, <4>1 DEF UnpricedIsCached, Run
        <5>2. <<s2, run.prompt[s2]>> \in Scenes \X Prompts
          BY <1>1, <5>1, LookupFits
        <5>3. cache'[<<s2, run.prompt[s2]>>] # 0
          BY <1>4, <2>6, <2>14, <5>1, <5>2 DEF Lookup, Recorded, Key, NoClip
        <5>. QED
          BY <3>2, <5>1, <5>3 DEF Lookup, Key, NoClip
      <4>. QED
        BY <4>1 DEF UnpricedIsCached
    <3>6. Submitting' /\ SpentAsPriced' /\ Buying'
      BY <1>2, <3>2 DEF Submitting, SpentAsPriced, Buying
    <3>7. WithinPrice'
      <4>1. s \in run.priced
        BY <1>1, <1>2, <1>3 DEF UnpricedIsCached
      <4>2. /\ Cardinality((run.todo \ {s}) \cap run.priced)
                 = Cardinality(run.todo \cap run.priced) - 1
            /\ Cardinality(run.todo \cap run.priced) \in Nat
            /\ Cardinality(run.priced) \in Nat
        BY <1>1, <4>1, NextScene DEF s
      <4>3. run.submitted \in Nat
        BY <1>1 DEF Run
      <4>4. run.submitted + Cardinality(run.todo \cap run.priced) <= Cardinality(run.priced) + 1
        BY <1>1, <1>2 DEF WithinPrice
      <4>. QED
        BY <3>2, <4>2, <4>3, <4>4 DEF WithinPrice
    <3>. QED
      BY <1>1, <2>12, <3>2, <3>3, <3>4, <3>5, <3>6, <3>7, StillBuying DEF IInv
  <2>. QED
    BY <2>2, <2>13, <2>14
<1>. QED
  BY <1>5, <1>6

-----------------------------------------------------------------------------
(* The gate.                                                               *)

\* What a run obtained may be published: it holds no clip that is not there.
LEMMA ObtainedIsBought ==
  ASSUME IInv, run.pc = "BUY"
  PROVE  run.cut \in [Scenes -> Bought]
<1>1. run.cut \in [Scenes -> 0 .. Hand] /\ clips \in Seq(BoughtClip) /\ Len(clips) \in Nat
  BY DEF IInv, RunInv, RunOK, Run, FilesInv, FilesOK
<1>2. \A s \in Scenes : run.cut[s] \in Bought
  BY <1>1 DEF IInv, RunInv, Progress, ObtainedFits, Buying, Bought, NoClip
<1>. QED
  BY <1>1, <1>2

\* Publishing writes the index and nothing else.
LEMMA PublishKeeps ==
  ASSUME FilesInv, index' \in [Scenes -> Bought], UNCHANGED <<clips, cache, torn, ledger, look>>
  PROVE  FilesInv'
BY DEF FilesInv, FilesOK, LedgerOK, CacheLeads, BoughtAgainOnlyWhenAsked, Bought

\* A clip the gate lets into a film is there and passed the binding checks.
LEMMA ClearedIsSound ==
  ASSUME RunOK, Clears(Sources), NEW s \in Scenes \ Demoted(Sources)
  PROVE  /\ Sources[s] # NoClip /\ Sound(s, Sources[s])
         /\ run.intent = "PRODUCTION_MASTER" => Status(run, s, Sources[s]) = "APPROVED"
<1>1. Status(run, s, Sources[s]) \notin {"MISSING_SOURCE", "TECHNICALLY_INVALID"}
      /\ (run.intent = "PRODUCTION_MASTER" => Status(run, s, Sources[s]) = "APPROVED")
  BY DEF Clears
<1>. QED
  BY <1>1 DEF Status

\* What passes the gate is what the properties of a film ask for.
LEMMA GateLetsThrough ==
  ASSUME IInv, run.pc = "BUY", ChangedApproved(Sources) = {}, Clears(Sources),
         UNCHANGED <<clips, ledger>>,
         run' = [run EXCEPT !.pc = "RENDER",
                            !.cut = [s \in Scenes |-> IF s \in Demoted(Sources) THEN NoClip
                                                      ELSE Sources[s]]]
  PROVE  RunInv'
<1> DEFINE final == [s \in Scenes |-> IF s \in Demoted(Sources) THEN NoClip ELSE Sources[s]]
<1>1. /\ run \in Run /\ run.prompt \in Manifests /\ run.seen <= Len(ledger) /\ RunOK
      /\ ledger \in Seq(Decided) /\ Len(ledger) \in Nat /\ LedgerOK
      /\ clips \in Seq(BoughtClip) /\ Len(clips) <= MaxClips /\ Len(clips) \in Nat
  BY DEF IInv, RunInv, RunOK, FilesInv, FilesOK, LedgerOK
<1>2. run.cut \in [Scenes -> 0 .. Hand] /\ run.seen \in 0 .. Len(ledger)
      /\ 0 \in 0 .. Hand /\ Hand \in 0 .. Hand /\ Hand \notin DOMAIN clips
  BY <1>1, Constants DEF Run, Hand
<1>3. \A s \in Scenes : Sources[s] \in {run.cut[s], Hand}
  BY DEF Sources, movingSourcePathFor
<1>4. final \in [Scenes -> 0 .. Hand]
  BY <1>2, <1>3 DEF NoClip
<1>5. \A s \in Scenes : final[s] \in {NoClip, Sources[s]}
                        /\ (final[s] # NoClip => s \notin Demoted(Sources))
  OBVIOUS
<1> HIDE DEF final
<1>6. /\ run' \in Run /\ run'.pc = "RENDER" /\ run'.cut = final /\ run'.intent = run.intent
      /\ run'.prompt = run.prompt /\ run'.seen = run.seen /\ run'.approved = run.approved
      /\ run'.submitted = run.submitted /\ run'.priced = run.priced
  BY <1>1, <1>4 DEF Run, final
<1>7. RunOK' /\ Progress' /\ ProtectsWhatItRead'
  BY <1>1, <1>6 DEF RunOK, Progress, Fresh, ObtainedFits, UnpricedIsCached, Submitting,
                    WithinPrice, ProtectsWhatItRead, Buying
<1>8. SpentAsPriced'
  BY <1>6 DEF IInv, RunInv, SpentAsPriced
<1>9. RenderedAsApproved'
  <2>1. SUFFICES ASSUME run.intent = "PRODUCTION_MASTER", NEW s \in Scenes
                 PROVE  \E n \in 1 .. run.seen :
                          /\ ledger[n] = [scene |-> s, clip |-> final[s],
                                          prompt |-> run.prompt[s], verdict |-> "APPROVED"]
                          /\ \A m \in n + 1 .. run.seen :
                               ledger[m] # [ledger[n] EXCEPT !.verdict = "REJECTED"]
    BY <1>6 DEF RenderedAsApproved
  <2>2. final[s] = Sources[s] /\ s \in Scenes \ Demoted(Sources)
    BY <2>1 DEF Demoted, final
  <2>3. Status(run, s, final[s]) = "APPROVED"
    BY <1>1, <2>1, <2>2, ClearedIsSound
  <2>. QED
    BY <1>1, <1>2, <2>3, ApprovedStatus
<1>10. CutFitsItsScene'
  <2>1. ASSUME NEW s \in Scenes, final[s] \notin {NoClip, Hand}
        PROVE  /\ clips[final[s]].scene = s /\ clips[final[s]].prompt = run.prompt[s]
               /\ clips[final[s]].sound
    <3>1. final[s] = run.cut[s] /\ s \in Scenes \ Demoted(Sources) /\ final[s] = Sources[s]
      BY <1>3, <1>5, <2>1
    <3>2. clips[final[s]].scene = s /\ clips[final[s]].prompt = run.prompt[s]
      BY <2>1, <3>1 DEF IInv, RunInv, Progress, ObtainedFits, Buying
    <3>3. Sound(s, final[s])
      BY <1>1, <3>1, ClearedIsSound
    <3>. QED
      BY <2>1, <3>2, <3>3 DEF Sound
  <2>. QED
    BY <1>6, <2>1 DEF CutFitsItsScene
<1>11. ApprovedStays'
  <2>1. ASSUME NEW s \in Scenes, NEW n \in 1 .. run.seen,
               ledger[n].scene = s, ledger[n].verdict = "APPROVED",
               \A m \in n + 1 .. run.seen : ledger[m].scene # s
        PROVE  final[s] \in {ledger[n].clip, NoClip}
    <3>1. run.approved[s] = ledger[n].clip /\ ledger[n].clip # NoClip
      BY <1>1, <1>2, <2>1, ProtectedClips DEF IInv, RunInv, ProtectsWhatItRead, Buying
    <3>2. Sources[s] \in {NoClip, run.approved[s]}
      BY <3>1 DEF ChangedApproved
    <3>. QED
      BY <1>5, <3>1, <3>2
  <2>. QED
    BY <1>6, <2>1 DEF ApprovedStays
<1>. QED
  BY <1>7, <1>8, <1>9, <1>10, <1>11 DEF RunInv, Film

LEMMA ReviewKeeps == ASSUME IInv, Review PROVE IInv'
<1>1. run.pc = "BUY" /\ UNCHANGED <<clips, cache, torn, ledger, look>>
  BY DEF Review, At
<1>2. index' \in [Scenes -> Bought]
  BY <1>1, ObtainedIsBought DEF Review, IInv, FilesInv, FilesOK
<1>3. FilesInv' /\ Len(ledger') \in Nat
  BY <1>1, <1>2, PublishKeeps DEF IInv, FilesInv, LedgerOK
<1>4. CASE ChangedApproved(Sources) = {} /\ Clears(Sources)
  BY <1>1, <1>3, <1>4, GateLetsThrough DEF Review, Goes, IInv
<1>5. CASE ~(ChangedApproved(Sources) = {} /\ Clears(Sources))
  BY <1>3, <1>5, EndKeeps DEF Review, IInv
<1>. QED
  BY <1>4, <1>5

LEMMA DeathsKeep == ASSUME IInv, DieInReview \/ Render \/ Die PROVE IInv'
<1>0. Len(ledger) \in Nat
  BY DEF IInv, FilesInv, LedgerOK
<1>1. CASE DieInReview
  <2>1. run.pc = "BUY" /\ UNCHANGED <<clips, cache, torn, ledger, look>> /\ End
        /\ index' \in {NoneFor, run.cut}
    BY <1>1 DEF DieInReview, At
  <2>2. NoneFor \in [Scenes -> Bought]
    BY DEF NoneFor, NoClip, Bought, IInv, FilesInv, FilesOK
  <2>3. FilesInv'
    BY <2>1, <2>2, ObtainedIsBought, PublishKeeps DEF IInv
  <2>. QED
    BY <1>0, <2>1, <2>3, EndKeeps DEF IInv
<1>2. CASE Render \/ Die
  BY <1>0, <1>2, EndKeeps, FilesKept DEF Render, Die, IInv, files
<1>. QED
  BY <1>1, <1>2

-----------------------------------------------------------------------------
(* The theorems.                                                           *)

\* The inductive invariant holds, for every set of scenes, every manifest, any
\* number of runs, deaths, edits and decisions, in any order.
THEOREM StoryboardInductive == Spec => []IInv
<1>1. ASSUME Init PROVE IInv
  <2>1. FilesInv
    <3>1. clips = <<>> /\ Len(clips) = 0 /\ DOMAIN clips = {} /\ 0 \in Bought
      BY <1>1 DEF Init, Bought
    <3>2. FilesOK /\ LedgerOK
      <4>1. NoCache \in [Scenes \X Prompts -> Bought] /\ NoneFor \in [Scenes -> Bought]
        BY <3>1 DEF NoCache, NoneFor, NoClip
      <4>2. clips \in Seq(BoughtClip) /\ ledger \in Seq(Decided) /\ 0 <= MaxClips
        BY <1>1, <3>1, Constants DEF Init
      <4>. QED
        BY <1>1, <3>1, <4>1, <4>2 DEF Init, FilesOK, LedgerOK
    <3>3. \A s \in Scenes, p \in Prompts : cache[Key(s, p)] = NoClip
      BY <1>1 DEF Init, NoCache, Key
    <3>. QED
      BY <3>1, <3>2, <3>3 DEF FilesInv, CacheLeads, BoughtAgainOnlyWhenAsked
  <2>2. Idle \in Run
    BY Constants DEF Idle, Run, NoneFor, NoClip, Hand
  <2>3. RunOK /\ Progress
    BY <1>1, <2>2 DEF Init, RunOK, Idle, Progress, Fresh, ObtainedFits, UnpricedIsCached,
       Submitting, WithinPrice, Buying
  <2>4. SpentAsPriced
    BY <1>1, FS_EmptySet, Constants DEF Init, Idle, SpentAsPriced
  <2>5. ProtectsWhatItRead /\ Film
    BY <1>1 DEF Init, Idle, ProtectsWhatItRead, Buying, Film, RenderedAsApproved,
       CutFitsItsScene, ApprovedStays, At
  <2>. QED
    BY <2>1, <2>3, <2>4, <2>5 DEF IInv, RunInv
<1>2. IInv /\ [Next]_vars => IInv'
  <2>1. ASSUME IInv, Next PROVE IInv'
    BY <2>1, BeginKeeps, RejectedKeeps, PriceKeeps, ObtainKeeps, SaveKeeps, ReviewKeeps,
       DeathsKeep, ReviewerKeeps DEF Next
  <2>2. ASSUME IInv, UNCHANGED vars PROVE IInv'
    <3>1. FilesInv'
      BY <2>2, FilesKept DEF IInv, vars
    <3>2. UNCHANGED <<clips, cache, ledger, run>>
      BY <2>2 DEF vars, files
    <3>3. RunOK' /\ Progress' /\ SpentAsPriced' /\ ProtectsWhatItRead'
      BY <2>2, <3>2 DEF IInv, RunInv, RunOK, Progress, Fresh, ObtainedFits, UnpricedIsCached,
         Submitting, WithinPrice, Buying, SpentAsPriced, ProtectsWhatItRead, Lookup,
         collectApprovedClipChecksums
    <3>4. Film'
      BY <2>2, <3>2 DEF IInv, RunInv, Film, RenderedAsApproved, CutFitsItsScene,
         ApprovedStays, At
    <3>. QED
      BY <3>1, <3>3, <3>4 DEF IInv, RunInv
  <2>. QED
    BY <2>1, <2>2
<1>. QED
  BY <1>1, <1>2, PTL DEF Spec

\* What a production master is cut from was approved, clip by clip and prompt by
\* prompt, and no decision the run read takes the approval back.
THEOREM MastersAreApproved == Spec => []RenderedAsApproved
<1>1. IInv => RenderedAsApproved
  BY DEF IInv, RunInv, Film
<1>. QED
  BY <1>1, StoryboardInductive, PTL

\* Whatever is cut into a film was made for its scene from the prompt the run
\* read and passed the binding checks, over any history of edits, caches and
\* publications.
THEOREM CutsFitTheirScenes == Spec => []CutFitsItsScene
<1>1. IInv => CutFitsItsScene
  BY DEF IInv, RunInv, Film
<1>. QED
  BY <1>1, StoryboardInductive, PTL

\* No film replaces a clip that the last decision about its scene approves.
THEOREM ApprovedClipsStay == Spec => []ApprovedStays
<1>1. IInv => ApprovedStays
  BY DEF IInv, RunInv, Film
<1>. QED
  BY <1>1, StoryboardInductive, PTL

\* No run submits more jobs than it priced, nor prices more than its ceiling.
THEOREM RunsSpendAsPriced == Spec => []SpentAsPriced
<1>1. IInv => SpentAsPriced
  BY DEF IInv, RunInv
<1>. QED
  BY <1>1, StoryboardInductive, PTL

\* Nothing that was bought and kept is paid for again unasked.
THEOREM BoughtOnce == Spec => []BoughtAgainOnlyWhenAsked
<1>1. IInv => BoughtAgainOnlyWhenAsked
  BY DEF IInv, FilesInv
<1>. QED
  BY <1>1, StoryboardInductive, PTL
=============================================================================
