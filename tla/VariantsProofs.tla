--------------------------- MODULE VariantsProofs ---------------------------
(***************************************************************************)
(* What Variants promises of a variant that is READY, of a cut that is     *)
(* approved and of a campaign that came back for a repair, for every       *)
(* delivery profile, every bound and any number of tries that are overtaken*)
(* while they still run.  That the render a READY variant shows is the one *)
(* that was paid holds as long as no try of a dispatch is overtaken: a late*)
(* one marks an attempt FAILED whose job runs on, the child renders another*)
(* one, and a late poll then shows the first one's asset on the row the QA *)
(* makes READY.                                                            *)
(***************************************************************************)
EXTENDS Variants, SequenceTheorems, TLAPS

-----------------------------------------------------------------------------
(* The inductive invariant.                                                *)

\* A render the provider has delivered, that is charged and its reservation given back,
\* and a cut that has one.
Delivered(c, n) == job[c][n] = "SUCCEEDED" /\ {"CHARGED", "RELEASED"} \subseteq ledger[c][n]
Paid(c) == \E n \in Attempts : Delivered(c, n)

\* No try of a dispatch is overtaken.
Prompt == "DISPATCH" \notin SlowOps

\* What the records may hold.
Unsent == {"NONE", "QUEUED", "NOT_SENT"}
Statuses == Unsent \cup Ended \cup {"SUBMITTED"}
JobStatuses == Ended \cup {"NONE", "RUNNING"}
OpOf == [CUT |-> {"CUT"}, RENDER |-> {"DISPATCH"}, POLL |-> {"POLL", "CANCEL"}, QA |-> {"QA"}]
ChildPcs == {"CUT", "RENDER", "POLL", "QA", "DONE", "FAILED"}
Ops == {"NONE", "CUT", "DISPATCH", "POLL", "CANCEL", "QA"}

Pcs == {"IDLE", "AGENT", "SIBLINGS", "CREATE", "SUPERSEDE", "ATTEMPT", "RESERVE", "SUBMIT",
        "NOTE", "UNDO", "FAIL", "READ", "AGAIN", "STATUS", "ROW", "CREATE_ROW", "MARK",
        "CHARGE", "RELEASE", "END", "STOP", "JUDGE", "WRITE", "FREEZE"}
Children == [pc : ChildPcs, at : Durations, n : 0 .. MaxAttempts, slot : {0, 1, 2},
             tries : Nat, cut : BOOLEAN, cancelled : BOOLEAN, stopped : BOOLEAN]
Tries == [op : Ops, cut : Cuts, n : Nat, pc : Pcs,
          saw : JobStatuses \cup {"NOTHING"}, row : Nat, live : SUBSET Cuts]
RowRecords == [status : {"PENDING", "RENDERING", "READY", "FAILED"}, asset : 0 .. MaxAttempts]

CampaignOK ==
  campaign \in [stage : {"VARIANT_GENERATION", "VARIANT_QA", "EXPORTING"}, visit : Visits,
                status : {"RUNNING", "BLOCKED", "FAILED"}]

ChildOK == child \in Children
TryOK == try \in [Slots -> Tries]

StoredOK ==
  /\ agent \in [Cuts -> [generator : {"NONE", "CUT", "REFUSED"},
                         qa : {"NONE", "PASS", "FAIL", "NOT_RUN"}]]
  /\ attempt \in [Cuts -> [Attempts -> Statuses]]
  /\ job \in [Cuts -> [Attempts -> JobStatuses]]
  /\ ledger \in [Cuts -> [Attempts -> SUBSET {"RESERVED", "CHARGED", "RELEASED"}]]
  /\ rows \in [Cuts -> Seq(RowRecords)]

TypesFit == CampaignOK /\ ChildOK /\ TryOK /\ StoredOK

\* The cut the child is at; whether it has heard the end of a failed render and not
\* asked for the next; whether one is being dispatched; and the cuts it has got to.
Current == <<child.at, campaign.visit>>
Heard == child.pc = "RENDER" /\ child.slot = 0
Sending == child.pc = "RENDER" /\ child.slot # 0
NotAhead(c) == c[2] < campaign.visit \/ (c[2] = campaign.visit /\ c[1] <= child.at)

\* The try whose answer the child waits for is of what it asked.
ChildCalls ==
  child.slot # 0 =>
    /\ child.pc \in DOMAIN OpOf
    /\ try[child.slot].op \in OpOf[child.pc]
    /\ try[child.slot].op # "CUT" =>
         try[child.slot].cut = Current /\ try[child.slot].n = child.n

\* Where the child stands: the attempt it polls has a job, a cut it has judged is paid for,
\* and, if dispatches are prompt, all the attempts before its own have failed.
ChildStands ==
  /\ campaign.stage # "VARIANT_GENERATION" => child.pc = "DONE"
  /\ child.pc = "CUT" => child.n = 0
  /\ child.pc \in {"POLL", "QA"} \/ Sending => child.n # 0
  /\ child.pc = "POLL" => job[Current][child.n] # "NONE"
  /\ child.pc = "QA" => Paid(Current)
  /\ Heard => child.n < MaxAttempts
  /\ Prompt => \A m \in Attempts :
       m < child.n \/ (Heard /\ m = child.n) => job[Current][m] = "FAILED"

\* Where a try may still run: a prompt dispatch only while the child waits for it, a
\* poll for an attempt that has a job and is not ahead of the child's, the QA for a
\* cut that is paid for.
Called(i) ==
  /\ try[i].op = "DISPATCH" => try[i].n \in Attempts /\ (Prompt => child.slot = i)
  /\ try[i].op \in {"POLL", "CANCEL"} =>
       /\ try[i].n \in Attempts /\ job[Cut(i)][try[i].n] # "NONE"
       /\ NotAhead(Cut(i))
       /\ Cut(i) = Current => try[i].n <= child.n /\ (Sending => try[i].n < child.n)
  /\ try[i].op = "QA" => Paid(Cut(i))

\* What the steps of a try have seen to.
DispatchWorks(i) ==
  try[i].op = "DISPATCH" =>
    /\ Prompt /\ try[i].pc \in {"RESERVE", "SUBMIT", "NOTE", "UNDO", "FAIL"} =>
         Status(i) \in {"QUEUED", "NOT_SENT"}
    /\ try[i].pc = "NOTE" => job[Cut(i)][try[i].n] # "NONE"

PollWorks(i) ==
  try[i].op = "POLL" =>
    /\ try[i].pc = "AGAIN" => Delivered(Cut(i), try[i].n)
    /\ try[i].pc \in {"RELEASE", "END", "ROW", "CREATE_ROW", "MARK", "CHARGE"} =>
         try[i].saw \in Ended /\ job[Cut(i)][try[i].n] = try[i].saw
    /\ try[i].pc \in {"RELEASE", "END"} /\ try[i].saw = "SUCCEEDED" =>
         "CHARGED" \in ledger[Cut(i)][try[i].n]
    /\ try[i].pc = "END" => "RELEASED" \in ledger[Cut(i)][try[i].n]
    /\ try[i].pc = "CHARGE" => try[i].saw = "SUCCEEDED"
    /\ try[i].pc = "MARK" => try[i].row \in DOMAIN rows[Cut(i)]

QaWorks(i) ==
  try[i].op = "QA" =>
    /\ try[i].pc \in {"JUDGE", "WRITE"} =>
         try[i].row \in DOMAIN rows[Cut(i)] /\ rows[Cut(i)][try[i].row].asset # 0
    /\ try[i].pc = "WRITE" => agent[Cut(i)].qa \in {"PASS", "FAIL"}

Works(i) == DispatchWorks(i) /\ PollWorks(i) /\ QaWorks(i)

TriesFit == \A i \in Slots : Called(i) /\ Works(i)

\* An attempt is marked SUBMITTED only when there is a job, and SUCCEEDED only when it
\* is delivered.  If dispatches are prompt, a job is sent only after all the earlier
\* ones of its cut failed, and an attempt is marked FAILED only when its job did.
JobsFit ==
  \A c \in Cuts : \A n \in Attempts :
    /\ Prompt /\ job[c][n] # "NONE" => \A m \in Attempts : m < n => job[c][m] = "FAILED"
    /\ attempt[c][n] \notin Unsent => job[c][n] # "NONE"
    /\ Prompt /\ attempt[c][n] = "FAILED" => job[c][n] = "FAILED"
    /\ attempt[c][n] = "SUCCEEDED" => Delivered(c, n)

\* The asset of a row is of a job that succeeded; a READY one has passed, and a render
\* of its cut is paid for: its own, if dispatches are prompt.
RowsFit ==
  \A c \in Cuts : \A r \in DOMAIN rows[c] :
    /\ rows[c][r].asset # 0 => job[c][rows[c][r].asset] = "SUCCEEDED"
    /\ rows[c][r].status = "READY" =>
         /\ rows[c][r].asset # 0 /\ agent[c].qa = "PASS" /\ Paid(c)
         /\ Prompt => Delivered(c, rows[c][r].asset)

ChildFits == ChildCalls /\ ChildStands
IInv == TypesFit /\ ChildFits /\ TriesFit /\ JobsFit /\ RowsFit

-----------------------------------------------------------------------------
(* Types.                                                                  *)

LEMMA Constants ==
  /\ NumDurations \in Nat \ {0} /\ MaxVisits \in Nat \ {0} /\ MaxAttempts \in Nat \ {0}
  /\ MaxTries \in Nat \ {0}
  /\ SlowOps \subseteq {"CUT", "DISPATCH", "POLL", "CANCEL", "QA"}
  /\ JobEndings \subseteq Ended
BY VariantsAssumption DEF Ended

LEMMA CutPairs ==
  /\ \A c \in Cuts : c[1] \in 1 .. NumDurations /\ c[2] \in 1 .. MaxVisits /\ c = <<c[1], c[2]>>
  /\ \A d \in 1 .. NumDurations, v \in 1 .. MaxVisits : <<d, v>> \in Cuts
BY DEF Cuts, Durations, Visits

LEMMA CurrentIsCut ==
  ASSUME TypesFit
  PROVE  /\ Current \in Cuts /\ Current[1] = child.at /\ Current[2] = campaign.visit
         /\ child.at \in 1 .. NumDurations /\ campaign.visit \in 1 .. MaxVisits
BY CutPairs DEF TypesFit, ChildOK, CampaignOK, Children, Current, Durations, Visits

LEMMA IdleType == Idle \in Tries
<1>1. <<1, 1>> \in Cuts
  BY Constants, CutPairs
<1>. QED
  BY <1>1 DEF Idle, Tries, Ops, NoRow, Pcs

LEMMA FreshType ==
  ASSUME TypesFit, NEW op \in Ops \ {"NONE"}, NEW ch \in Children
  PROVE  /\ Fresh(op, ch) \in Tries
         /\ Fresh(op, ch).op = op /\ Fresh(op, ch).cut = <<ch.at, campaign.visit>>
         /\ Fresh(op, ch).n = ch.n
         /\ Fresh(op, ch).pc = CASE op = "CUT" -> "AGENT" [] op = "DISPATCH" -> "ATTEMPT" [] OTHER -> "READ"
<1>1. <<ch.at, campaign.visit>> \in Cuts
  BY CutPairs DEF Children, Durations, Visits, TypesFit, CampaignOK
<1>2. ch.n \in Nat
  BY Constants DEF Children
<1>3. FirstStep[op] = CASE op = "CUT" -> "AGENT" [] op = "DISPATCH" -> "ATTEMPT" [] OTHER -> "READ"
  <2>1. CASE op \in {"CUT", "DISPATCH"}
    BY <2>1 DEF FirstStep
  <2>2. CASE op \in {"POLL", "CANCEL", "QA"}
    BY <2>2 DEF FirstStep
  <2>. QED
    BY <2>1, <2>2 DEF Ops
<1>4. FirstStep[op] \in Pcs
  BY <1>3 DEF Pcs
<1>. QED
  BY <1>1, <1>2, <1>3, <1>4, IdleType DEF Fresh, Idle, Tries, NoRow

LEMMA OnwardType ==
  ASSUME NEW ch \in Children
  PROVE  Onward(ch) \in Children
<1>1. ch.at # NumDurations => ch.at + 1 \in Durations
  BY Constants DEF Children, Durations
<1>2. CASE ch.at = NumDurations
  BY <1>2 DEF Onward, Children, Last, ChildPcs
<1>3. CASE ch.at # NumDurations
  <2>1. 0 \in 0 .. MaxAttempts
    BY Constants
  <2>. QED
    BY <2>1, <1>1, <1>3 DEF Onward, Children, Last, ChildPcs
<1>. QED
  BY <1>2, <1>3

LEMMA AfterType ==
  ASSUME NEW ch \in Children, NEW op \in Ops \ {"NONE"}, NEW answer
  PROVE  After(ch, op, answer) \in Children
<1> DEFINE heard == [ch EXCEPT !.slot = 0, !.tries = 0]
<1>1. heard \in Children
  BY DEF Children
<1>2. Onward(heard) \in Children
  BY <1>1, OnwardType
<1>. QED
  BY <1>1, <1>2 DEF After, AfterCut, AfterDispatch, AfterPoll, Children, ChildPcs, Ops

-----------------------------------------------------------------------------
(* What no step takes back.                                                *)

Grows ==
  /\ \A c \in Cuts : \A n \in Attempts :
       /\ job[c][n] # "NONE" => job'[c][n] # "NONE"
       /\ job[c][n] \in Ended => job'[c][n] = job[c][n]
       /\ ledger[c][n] \subseteq ledger'[c][n]
  /\ \A c \in Cuts :
       /\ agent[c].qa \in {"PASS", "FAIL"} => agent'[c].qa = agent[c].qa
       /\ \A r \in DOMAIN rows[c] :
            r \in DOMAIN rows'[c] /\ (rows[c][r].asset # 0 => rows'[c][r].asset # 0)

\* The attempts that other tries dispatch, if those are prompt, are left as they are.
KeyKept(i) ==
  Prompt => \A j \in Slots \ {i} :
    try[j].op = "DISPATCH" => attempt'[Cut(j)][try[j].n] = attempt[Cut(j)][try[j].n]

\* What becomes of the child and its duration at a step within a visit.
ChildMoves ==
  \/ child'.at = child.at /\ child'.n = child.n /\ (Sending' => Sending)
  \/ child'.at = child.at /\ child'.n = child.n + 1
  \/ child'.at = child.at + 1

LEMMA DeliveredStays ==
  ASSUME Grows, NEW c \in Cuts, NEW n \in Attempts, Delivered(c, n)
  PROVE  Delivered(c, n)'
BY DEF Grows, Delivered, Ended

LEMMA PaidStays ==
  ASSUME Grows, NEW c \in Cuts, Paid(c)
  PROVE  Paid(c)'
<1>1. PICK n \in Attempts : Delivered(c, n)
  BY DEF Paid
<1>2. Delivered(c, n)'
  BY <1>1, DeliveredStays
<1>. QED
  BY <1>2 DEF Paid

LEMMA TryTyped ==
  ASSUME TypesFit, NEW i \in Slots
  PROVE  /\ try[i] \in Tries /\ Cut(i) \in Cuts /\ try[i].n \in Nat /\ try[i].op \in Ops
         /\ try[i].row \in Nat
BY DEF TypesFit, TryOK, Tries, Cut

\* A prompt dispatch is of the child's attempt, of which no other try is.
LEMMA DispatchKey ==
  ASSUME IInv, NEW i \in Slots, try[i].op = "DISPATCH"
  PROVE  /\ try[i].n \in Attempts
         /\ Prompt => /\ child.slot = i /\ Sending /\ Cut(i) = Current /\ try[i].n = child.n
                      /\ \A j \in Slots \ {i} : try[j].op # "DISPATCH"
<1>1. try[i].n \in Attempts
  BY DEF IInv, TriesFit, Called
<1>. SUFFICES ASSUME Prompt
              PROVE  /\ child.slot = i /\ Sending /\ Cut(i) = Current /\ try[i].n = child.n
                     /\ \A j \in Slots \ {i} : try[j].op # "DISPATCH"
  BY <1>1
<1>2. child.slot = i /\ \A j \in Slots \ {i} : try[j].op # "DISPATCH"
  BY DEF IInv, TriesFit, Called
<1>3. i # 0
  BY DEF Slots
<1>4. child.pc = "RENDER" /\ Cut(i) = Current /\ try[i].n = child.n
  BY <1>2, <1>3 DEF IInv, ChildFits, ChildCalls, OpOf, Cut
<1>5. Sending
  BY <1>2, <1>3, <1>4 DEF Sending
<1>. QED
  BY <1>2, <1>4, <1>5

LEMMA PollKey ==
  ASSUME IInv, NEW i \in Slots, try[i].op \in {"POLL", "CANCEL"}
  PROVE  /\ try[i].n \in Attempts /\ job[Cut(i)][try[i].n] # "NONE"
         /\ Prompt => \A j \in Slots : try[j].op = "DISPATCH" =>
              ~(Cut(j) = Cut(i) /\ try[j].n = try[i].n)
<1>1. /\ try[i].n \in Attempts /\ job[Cut(i)][try[i].n] # "NONE"
      /\ Cut(i) = Current => (Sending => try[i].n < child.n)
  BY DEF IInv, TriesFit, Called
<1>2. ASSUME Prompt, NEW j \in Slots, try[j].op = "DISPATCH",
             Cut(j) = Cut(i), try[j].n = try[i].n
      PROVE  FALSE
  <2>1. Sending /\ Cut(j) = Current /\ try[j].n = child.n
    BY <1>2, DispatchKey
  <2>2. try[i].n < try[i].n
    BY <2>1, <1>1, <1>2
  <2>. QED
    BY <2>2, TryTyped DEF IInv
<1>. QED
  BY <1>1, <1>2

LEMMA OthersStay ==
  ASSUME IInv, TypesFit', Grows, ChildMoves, campaign' = campaign,
         NEW i \in Slots, KeyKept(i), NEW j \in Slots \ {i}, try'[j] = try[j],
         Prompt /\ try[j].op = "DISPATCH" => child'.slot = j
  PROVE  Called(j)' /\ Works(j)'
<1>1. Called(j) /\ Works(j)
  BY DEF IInv, TriesFit
<1>2. Cut(j)' = Cut(j) /\ Cut(j) \in Cuts /\ try[j].n \in Nat
  BY TryTyped DEF IInv, Cut
<1>3. Called(j)'
  <2>1. CASE try[j].op \in {"POLL", "CANCEL"}
    <3>1. /\ try[j].n \in Attempts /\ job[Cut(j)][try[j].n] # "NONE"
          /\ NotAhead(Cut(j))
          /\ Cut(j) = Current => try[j].n <= child.n /\ (Sending => try[j].n < child.n)
      BY <1>1, <2>1 DEF Called
    <3>2. job'[Cut(j)][try[j].n] # "NONE"
      BY <3>1, <1>2 DEF Grows
    <3>3. /\ Cut(j)[1] \in Nat /\ Cut(j)[2] \in Nat /\ child.at \in Nat /\ campaign.visit \in Nat
          /\ child.n \in Nat /\ child'.at \in Nat /\ Cut(j) = <<Cut(j)[1], Cut(j)[2]>>
      BY <1>2, CutPairs, Constants, CurrentIsCut
         DEF IInv, TypesFit, ChildOK, Children, Durations
    <3>4. NotAhead(Cut(j))'
      BY <3>1, <3>3, <1>2 DEF NotAhead, ChildMoves
    <3>5. ASSUME Cut(j) = Current'
          PROVE  try[j].n <= child'.n /\ (Sending' => try[j].n < child'.n)
      <4>1. Cut(j)[1] = child'.at /\ Cut(j)[2] = campaign.visit
        BY <3>5 DEF Current
      <4>2. child'.at = child.at
        BY <4>1, <3>1, <3>3 DEF NotAhead, ChildMoves
      <4>3. Cut(j) = Current
        BY <3>3, <4>1, <4>2 DEF Current
      <4>. QED
        BY <4>2, <4>3, <3>1, <3>3, <1>2 DEF ChildMoves
    <3>. QED
      BY <2>1, <3>1, <3>2, <3>4, <3>5, <1>2 DEF Called
  <2>2. CASE try[j].op = "QA"
    BY <2>2, <1>1, <1>2, PaidStays DEF Called
  <2>3. CASE try[j].op \notin {"POLL", "CANCEL", "QA"}
    BY <2>3, <1>1 DEF Called
  <2>. QED
    BY <2>1, <2>2, <2>3
<1>4. DispatchWorks(j)'
  <2>1. CASE try[j].op = "DISPATCH"
    <3>1. /\ try[j].n \in Attempts
          /\ Prompt => attempt'[Cut(j)][try[j].n] = attempt[Cut(j)][try[j].n]
      BY <2>1, DispatchKey DEF KeyKept
    <3>2. try[j].pc = "NOTE" => job'[Cut(j)][try[j].n] # "NONE"
      BY <1>1, <1>2, <2>1, <3>1 DEF Works, DispatchWorks, Grows
    <3>3. Prompt => Status(j)' = Status(j)
      BY <3>1, <1>2 DEF Status
    <3>. QED
      BY <3>2, <3>3, <1>1, <1>2, <2>1 DEF Works, DispatchWorks
  <2>. QED
    BY <2>1 DEF DispatchWorks
<1>5. PollWorks(j)'
  <2>1. CASE try[j].op = "POLL"
    <3>1. try[j].n \in Attempts
      BY <2>1, PollKey
    <3>2. try[j].pc = "AGAIN" => Delivered(Cut(j), try[j].n)'
      BY <1>1, <1>2, <2>1, <3>1, DeliveredStays DEF Works, PollWorks
    <3>3. /\ job[Cut(j)][try[j].n] \in Ended => job'[Cut(j)][try[j].n] = job[Cut(j)][try[j].n]
          /\ ledger[Cut(j)][try[j].n] \subseteq ledger'[Cut(j)][try[j].n]
          /\ \A r \in DOMAIN rows[Cut(j)] : r \in DOMAIN rows'[Cut(j)]
      BY <3>1, <1>2 DEF Grows
    <3>. QED
      BY <3>2, <3>3, <1>1, <1>2, <2>1 DEF Works, PollWorks, Delivered, Cut
  <2>. QED
    BY <2>1 DEF PollWorks
<1>6. QaWorks(j)'
  BY <1>1, <1>2 DEF Works, QaWorks, Grows
<1>. QED
  BY <1>3, <1>4, <1>5, <1>6 DEF Works

-----------------------------------------------------------------------------
(* A try that goes on, and one that ends.                                  *)

LEMMA StandsStill ==
  ASSUME IInv, Grows, UNCHANGED <<campaign, child>>
  PROVE  ChildStands'
<1>1. Current' = Current /\ Current \in Cuts /\ (Heard' <=> Heard) /\ (Sending' <=> Sending)
  BY CurrentIsCut DEF IInv, Current, Heard, Sending
<1>2. child.pc = "POLL" => job'[Current][child.n] # "NONE"
  <2>. HAVE child.pc = "POLL"
  <2>1. child.n \in Attempts /\ job[Current][child.n] # "NONE"
    BY Constants DEF IInv, ChildFits, ChildStands, TypesFit, ChildOK, Children, Attempts
  <2>. QED
    BY <2>1, <1>1 DEF Grows
<1>3. child.pc = "QA" => Paid(Current)'
  BY <1>1, PaidStays DEF IInv, ChildFits, ChildStands
<1>4. \A m \in Attempts : job[Current][m] = "FAILED" => job'[Current][m] = "FAILED"
  BY <1>1 DEF Grows, Ended
<1>. QED
  BY <1>1, <1>2, <1>3, <1>4 DEF IInv, ChildFits, ChildStands, Paid, Delivered

LEMMA TriesFitAfter ==
  ASSUME IInv, TypesFit', Grows, ChildMoves, campaign' = campaign,
         NEW i \in Slots, KeyKept(i), NEW r, try' = [try EXCEPT ![i] = r],
         \A j \in Slots \ {i} : Prompt /\ try[j].op = "DISPATCH" => child'.slot = j,
         Called(i)', Works(i)'
  PROVE  TriesFit'
<1>1. ASSUME NEW j \in Slots \ {i} PROVE Called(j)' /\ Works(j)'
  <2>1. try'[j] = try[j]
    BY DEF IInv, TypesFit, TryOK
  <2>. QED
    BY <2>1, OthersStay
<1>. QED
  BY <1>1 DEF TriesFit

LEMMA GoesFits ==
  ASSUME IInv, TypesFit', Grows, campaign' = campaign,
         NEW i \in Slots, KeyKept(i), NEW r \in Tries, Goes(i, r),
         r.op = try[i].op, r.op # "CUT" => r.cut = Cut(i) /\ r.n = try[i].n,
         Works(i)'
  PROVE  ChildFits' /\ TriesFit'
<1>1. /\ child' = child /\ try' = [try EXCEPT ![i] = r] /\ try'[i] = r
      /\ \A j \in Slots \ {i} : try'[j] = try[j]
  BY DEF Goes, IInv, TypesFit, TryOK
<1>2. ChildMoves /\ Current' = Current /\ (Sending' <=> Sending)
  BY <1>1 DEF ChildMoves, Sending, Current
<1>3. ChildStands'
  BY <1>1, StandsStill
<1>4. ChildCalls'
  <2>. SUFFICES ASSUME child.slot # 0
                PROVE  ChildCalls'
    BY <1>1 DEF ChildCalls
  <2>1. child.slot \in Slots
    BY DEF IInv, TypesFit, ChildOK, Children, Slots
  <2>2. CASE child.slot = i
    BY <2>2, <1>1, <1>2 DEF IInv, ChildFits, ChildCalls, Cut
  <2>3. CASE child.slot # i
    BY <2>1, <2>3, <1>1, <1>2 DEF IInv, ChildFits, ChildCalls
  <2>. QED
    BY <2>2, <2>3
<1>5. Called(i)'
  <2>1. Called(i) /\ Cut(i) \in Cuts
    BY TryTyped DEF IInv, TriesFit
  <2>2. CASE r.op \in {"POLL", "CANCEL"}
    <3>1. Cut(i)' = Cut(i) /\ try'[i].n = try[i].n /\ r.op # "CUT"
      BY <2>2, <1>1 DEF Cut
    <3>. QED
      BY <3>1, <2>1, <2>2, <1>1, <1>2 DEF Called, NotAhead, Grows
  <2>3. CASE r.op = "QA"
    <3>1. Cut(i)' = Cut(i)
      BY <2>3, <1>1 DEF Cut
    <3>. QED
      BY <3>1, <2>1, <2>3, <1>1, PaidStays DEF Called
  <2>4. CASE r.op \notin {"POLL", "CANCEL", "QA"}
    BY <2>1, <2>4, <1>1 DEF Called
  <2>. QED
    BY <2>2, <2>3, <2>4
<1>6. \A j \in Slots \ {i} : Prompt /\ try[j].op = "DISPATCH" => child'.slot = j
  BY <1>1 DEF IInv, TriesFit, Called
<1>. QED
  BY <1>1, <1>2, <1>3, <1>4, <1>5, <1>6, TriesFitAfter DEF ChildFits

\* What the answer a child hears must mean.
AnswerMeans(i, answer) ==
  /\ try[i].op = "DISPATCH" /\ answer = "SUBMITTED" => job'[Cut(i)][try[i].n] # "NONE"
  /\ try[i].op = "POLL" /\ answer = "SUCCEEDED" => \A c : c = Cut(i) => Paid(c)'
  /\ Prompt /\ try[i].op = "POLL" /\ answer = "FAILED" => job'[Cut(i)][try[i].n] = "FAILED"

LEMMA EmptySlot ==
  ASSUME NEW i \in Slots, try'[i].op = "NONE"
  PROVE  Called(i)' /\ Works(i)'
BY DEF Called, Works, DispatchWorks, PollWorks, QaWorks

LEMMA OnwardFits ==
  ASSUME IInv, TypesFit', Grows, campaign' = campaign, NEW ch \in Children,
         ch.at = child.at, ch.n = child.n, ch.slot = 0, child' = Onward(ch),
         ~(Heard /\ child.n \in Attempts),
         campaign.stage = "VARIANT_GENERATION"
  PROVE  ChildFits' /\ ChildMoves
<1>1. /\ child.at \in Nat /\ child.n \in 0 .. MaxAttempts /\ MaxAttempts \in Nat \ {0}
      /\ 0 \notin Attempts /\ \A m \in Attempts : m > 0 /\ m \in Nat
  BY Constants DEF IInv, TypesFit, ChildOK, Children, Durations, Attempts
<1>2. CASE ch.at = Last
  <2>1. child' = [ch EXCEPT !.pc = "DONE"]
    BY <1>2 DEF Onward
  <2>2. child'.at = child.at /\ child'.n = child.n /\ child'.pc = "DONE" /\ child'.slot = 0
    BY <2>1 DEF Children
  <2>3. Current' = Current /\ Current \in Cuts
    BY <2>2, CurrentIsCut DEF Current, IInv
  <2>4. Prompt => \A m \in Attempts : m < child.n => job'[Current][m] = "FAILED"
    BY <2>3 DEF IInv, ChildFits, ChildStands, Grows, Ended
  <2>. QED
    BY <2>2, <2>3, <2>4 DEF ChildFits, ChildCalls, ChildStands, ChildMoves, Heard, Sending
<1>3. CASE ch.at # Last
  <2>1. child' = [ch EXCEPT !.at = ch.at + 1, !.n = 0, !.pc = "RENDER"]
    BY <1>3 DEF Onward
  <2>2. child'.at = child.at + 1 /\ child'.n = 0 /\ child'.pc = "RENDER" /\ child'.slot = 0
    BY <2>1 DEF Children
  <2>. QED
    BY <2>2, <1>1 DEF ChildFits, ChildCalls, ChildStands, ChildMoves, Heard, Sending
<1>. QED
  BY <1>2, <1>3

LEMMA CallerKey ==
  ASSUME IInv, child.slot # 0
  PROVE  /\ child.slot \in Slots /\ campaign.stage = "VARIANT_GENERATION" /\ ~Heard
         /\ child.pc \in {"CUT", "RENDER", "POLL", "QA"}
         /\ try[child.slot].op \in {"CUT", "DISPATCH", "POLL", "CANCEL", "QA"}
         /\ try[child.slot].op = "CUT" <=> child.pc = "CUT"
         /\ try[child.slot].op = "DISPATCH" <=> child.pc = "RENDER"
         /\ try[child.slot].op \in {"POLL", "CANCEL"} <=> child.pc = "POLL"
         /\ try[child.slot].op = "QA" <=> child.pc = "QA"
         /\ try[child.slot].op # "CUT" =>
              Cut(child.slot) = Current /\ try[child.slot].n = child.n /\ child.n \in Attempts
         /\ try[child.slot].op = "CUT" => child.n = 0
<1>1. child.slot \in Slots
  BY DEF IInv, TypesFit, ChildOK, Children, Slots
<1>2. /\ child.pc \in DOMAIN OpOf /\ try[child.slot].op \in OpOf[child.pc]
      /\ try[child.slot].op # "CUT" => Cut(child.slot) = Current /\ try[child.slot].n = child.n
  BY DEF IInv, ChildFits, ChildCalls, Cut
<1>3. child.pc \in {"CUT", "RENDER", "POLL", "QA"}
  BY <1>2 DEF OpOf
<1>4. campaign.stage = "VARIANT_GENERATION" /\ ~Heard
  BY <1>3 DEF IInv, ChildFits, ChildStands, Heard
<1>5. /\ try[child.slot].op = "CUT" <=> child.pc = "CUT"
      /\ try[child.slot].op = "DISPATCH" <=> child.pc = "RENDER"
      /\ try[child.slot].op \in {"POLL", "CANCEL"} <=> child.pc = "POLL"
      /\ try[child.slot].op = "QA" <=> child.pc = "QA"
      /\ try[child.slot].op \in {"CUT", "DISPATCH", "POLL", "CANCEL", "QA"}
  BY <1>2, <1>3 DEF OpOf
<1>6. child.pc # "CUT" => child.n \in Attempts
  BY <1>3, Constants DEF IInv, ChildFits, ChildStands, Sending, TypesFit, ChildOK, Children, Attempts
<1>7. child.pc = "CUT" => child.n = 0
  BY DEF IInv, ChildFits, ChildStands
<1>. QED
  BY <1>1, <1>2, <1>3, <1>4, <1>5, <1>6, <1>7

LEMMA AnswersFits ==
  ASSUME IInv, TypesFit', Grows, campaign' = campaign,
         NEW i \in Slots, KeyKept(i), NEW answer, Answers(i, answer),
         AnswerMeans(i, answer)
  PROVE  ChildFits' /\ TriesFit'
<1>1. /\ try' = [try EXCEPT ![i] = Idle] /\ try'[i] = Idle
      /\ \A j \in Slots \ {i} : try'[j] = try[j]
  BY DEF Answers, IInv, TypesFit, TryOK
<1>2. Called(i)' /\ Works(i)'
  BY <1>1, EmptySlot DEF Idle
<1>3. SUFFICES ChildFits' /\ ChildMoves
               /\ \A j \in Slots \ {i} : Prompt /\ try[j].op = "DISPATCH" => child'.slot = j
  BY <1>1, <1>2, <1>3, TriesFitAfter
<1>4. CASE child.slot # i
  <2>1. child' = child
    BY <1>4 DEF Answers
  <2>2. ChildStands'
    BY <2>1, StandsStill
  <2>3. ChildMoves /\ Current' = Current
    BY <2>1 DEF ChildMoves, Sending, Current
  <2>4. child.slot # 0 => child.slot \in Slots
    BY DEF IInv, TypesFit, ChildOK, Children, Slots
  <2>5. ChildCalls'
    BY <1>1, <1>4, <2>1, <2>3, <2>4 DEF IInv, ChildFits, ChildCalls
  <2>. QED
    BY <2>1, <2>2, <2>3, <2>5 DEF ChildFits, IInv, TriesFit, Called
<1>5. CASE child.slot = i
  <2>0. i # 0 /\ (Prompt => \A j \in Slots \ {i} : try[j].op # "DISPATCH")
    BY <1>5 DEF IInv, TriesFit, Called, Slots
  <2> DEFINE heard == [child EXCEPT !.slot = 0, !.tries = 0]
  <2>1. child' = After(child, try[i].op, answer)
    BY <1>5 DEF Answers
  <2>2. /\ heard \in Children /\ heard.at = child.at /\ heard.n = child.n /\ heard.slot = 0
        /\ heard.pc = child.pc
    BY DEF IInv, TypesFit, ChildOK, Children
  <2>3. /\ campaign.stage = "VARIANT_GENERATION" /\ ~Heard
        /\ child.pc \in {"CUT", "RENDER", "POLL", "QA"}
        /\ try[i].op \in {"CUT", "DISPATCH", "POLL", "CANCEL", "QA"}
        /\ try[i].op = "CUT" <=> child.pc = "CUT"
        /\ try[i].op = "DISPATCH" <=> child.pc = "RENDER"
        /\ try[i].op \in {"POLL", "CANCEL"} <=> child.pc = "POLL"
        /\ try[i].op = "QA" <=> child.pc = "QA"
        /\ try[i].op # "CUT" => Cut(i) = Current /\ try[i].n = child.n /\ child.n \in Attempts
        /\ try[i].op = "CUT" => child.n = 0
    BY <1>5, <2>0, CallerKey
  <2>4. /\ child.n \in 0 .. MaxAttempts /\ MaxAttempts \in Nat \ {0}
        /\ \A m \in Attempts : m > 0 /\ m \in Nat
    BY Constants DEF IInv, TypesFit, ChildOK, Children, Attempts
  <2>5. /\ Current \in Cuts
        /\ Prompt => \A m \in Attempts : m < child.n => job'[Current][m] = "FAILED"
    <3>1. Current \in Cuts
      BY CurrentIsCut DEF IInv
    <3>. QED
      BY <3>1 DEF IInv, ChildFits, ChildStands, Grows, Ended
  <2>6. SUFFICES ChildFits' /\ ChildMoves
    BY <2>0
  <2>7. ASSUME NEW pc, child' = [heard EXCEPT !.pc = pc],
               pc \in {"DONE", "POLL", "QA", "RENDER"},
               pc = "POLL" => child.n \in Attempts /\ job'[Current][child.n] # "NONE",
               pc = "QA" => child.n \in Attempts /\ Paid(Current)',
               pc = "RENDER" => /\ child.n < MaxAttempts
                                /\ Prompt /\ child.n \in Attempts =>
                                     job'[Current][child.n] = "FAILED"
        PROVE  ChildFits' /\ ChildMoves
    <3>1. child'.pc = pc /\ child'.at = child.at /\ child'.n = child.n /\ child'.slot = 0
      BY <2>2, <2>7 DEF Children
    <3>2. Current' = Current /\ ~Sending'
      BY <3>1 DEF Current, Sending
    <3>. QED
      BY <3>1, <3>2, <2>3, <2>4, <2>5, <2>7
         DEF ChildFits, ChildCalls, ChildStands, ChildMoves, Heard, Sending
  <2>8. ASSUME child' = Onward(heard) PROVE ChildFits' /\ ChildMoves
    BY <2>2, <2>3, <2>8, OnwardFits
  <2>9. CASE try[i].op = "CUT"
    <3>0. 0 \notin Attempts
      BY <2>4
    <3>1. CASE answer = "CUT"
      <4>1. child' = [heard EXCEPT !.cut = TRUE, !.pc = "RENDER"]
        BY <2>1, <2>9, <3>1 DEF After, AfterCut
      <4>2. child'.pc = "RENDER" /\ child'.at = child.at /\ child'.n = 0 /\ child'.slot = 0
        BY <4>1, <2>2, <2>3, <2>9 DEF Children
      <4>. QED
        BY <4>2, <2>3, <2>4, <2>9
           DEF ChildFits, ChildCalls, ChildStands, ChildMoves, Heard, Sending
    <3>2. CASE answer # "CUT"
      <4>1. child' = [heard EXCEPT !.pc = "DONE"]
        BY <2>1, <2>9, <3>2 DEF After, AfterCut
      <4>. QED
        BY <4>1, <2>7
    <3>. QED
      BY <3>1, <3>2
  <2>10. CASE try[i].op = "DISPATCH"
    <3>1. CASE answer = "SUBMITTED"
      <4>1. child' = [heard EXCEPT !.pc = "POLL"]
        BY <2>1, <2>10, <3>1 DEF After, AfterDispatch
      <4>2. child.n \in Attempts /\ job'[Current][child.n] # "NONE"
        BY <2>3, <2>10, <3>1 DEF AnswerMeans
      <4>. QED
        BY <4>1, <4>2, <2>7
    <3>2. CASE answer # "SUBMITTED"
      <4>1. child' = Onward(heard)
        BY <2>1, <2>10, <3>2 DEF After, AfterDispatch
      <4>. QED
        BY <4>1, <2>8
    <3>. QED
      BY <3>1, <3>2
  <2>11. CASE try[i].op = "POLL"
    <3>1. child' = AfterPoll(heard, answer)
      BY <2>1, <2>11 DEF After
    <3>2. CASE answer = "RUNNING"
      <4>1. child' = [heard EXCEPT !.pc = "POLL"]
        BY <3>1, <3>2 DEF AfterPoll
      <4>2. child.n \in Attempts /\ job[Current][child.n] # "NONE"
        BY <2>3, <2>11 DEF IInv, ChildFits, ChildStands
      <4>3. job'[Current][child.n] # "NONE"
        BY <4>2, <2>5 DEF Grows
      <4>. QED
        BY <4>1, <4>2, <4>3, <2>7
    <3>3. CASE answer = "SUCCEEDED"
      <4>1. child' = [heard EXCEPT !.pc = "QA"]
        BY <3>1, <3>3 DEF AfterPoll
      <4>2. Cut(i) = Current /\ child.n \in Attempts
        BY <2>3, <2>11
      <4>3. PICK c : c = Cut(i)
        OBVIOUS
      <4>4. Paid(c)'
        BY <2>11, <3>3, <4>3 DEF AnswerMeans
      <4>5. Current' = Current
        BY <4>1, <2>2 DEF Current, Children
      <4>6. Paid(Current)'
        BY <4>2, <4>3, <4>4, <4>5
      <4>. QED
        BY <4>1, <4>2, <4>6, <2>7
    <3>4. CASE answer = "FAILED" /\ heard.n < MaxAttempts
      <4>1. child' = [heard EXCEPT !.pc = "RENDER"]
        BY <3>1, <3>4 DEF AfterPoll
      <4>2. child.n < MaxAttempts /\ (Prompt => job'[Current][child.n] = "FAILED")
        BY <2>2, <2>3, <2>11, <3>4 DEF AnswerMeans
      <4>. QED
        BY <4>1, <4>2, <2>7
    <3>5. CASE answer \notin {"RUNNING", "SUCCEEDED"} /\ ~(answer = "FAILED" /\ heard.n < MaxAttempts)
      <4>1. child' = Onward(heard)
        BY <3>1, <3>5 DEF AfterPoll
      <4>. QED
        BY <4>1, <2>8
    <3>. QED
      BY <3>2, <3>3, <3>4, <3>5
  <2>12. CASE try[i].op = "QA"
    <3>1. child' = Onward(heard)
      BY <2>1, <2>12 DEF After
    <3>. QED
      BY <3>1, <2>8
  <2>13. CASE try[i].op = "CANCEL"
    <3>1. child' = [heard EXCEPT !.pc = "DONE", !.stopped = TRUE]
      BY <2>1, <2>13 DEF After
    <3>2. child'.pc = "DONE" /\ child'.at = child.at /\ child'.n = child.n /\ child'.slot = 0
      BY <3>1, <2>2 DEF Children
    <3>3. Current' = Current /\ ~Sending'
      BY <3>2 DEF Current, Sending
    <3>. QED
      BY <3>2, <3>3, <2>3, <2>5
         DEF ChildFits, ChildCalls, ChildStands, ChildMoves, Heard, Sending
  <2>. QED
    BY <2>3, <2>9, <2>10, <2>11, <2>12, <2>13
<1>. QED
  BY <1>4, <1>5

-----------------------------------------------------------------------------
(* A try that begins, and what the child and the campaign do themselves.   *)

LEMMA BeginsFits ==
  ASSUME IInv, TypesFit', Grows, campaign' = campaign, NEW k \in Slots,
         NEW op \in Ops \ {"NONE"}, NEW ch \in Children,
         child.pc \in {"CUT", "RENDER", "POLL", "QA"},
         op \in OpOf[child.pc], try'[k] = Fresh(op, ch),
         child'.pc = child.pc, child'.at = child.at, child'.slot = k,
         ch.at = child.at, ch.n = child'.n,
         child'.n = child.n \/ (Heard /\ child'.n = child.n + 1),
         op = "DISPATCH" => Sending \/ child'.n = child.n + 1
  PROVE  ChildFits' /\ ChildMoves /\ Called(k)' /\ Works(k)'
<1>1. /\ try'[k].op = op /\ try'[k].cut = Current /\ try'[k].n = child'.n
      /\ try'[k].pc \in {"AGENT", "ATTEMPT", "READ"} /\ Cut(k)' = Current
  BY FreshType DEF IInv, Current, Cut
<1>2. k # 0 /\ Current' = Current /\ Current \in Cuts
  BY CurrentIsCut DEF Slots, Current, IInv
<1>3. /\ child.n \in 0 .. MaxAttempts /\ MaxAttempts \in Nat \ {0}
      /\ \A m \in Attempts : m > 0 /\ m \in Nat
  BY Constants DEF IInv, TypesFit, ChildOK, Children, Attempts
<1>4. op = "CUT" <=> child.pc = "CUT"
  BY DEF OpOf
<1>5. op \in {"POLL", "CANCEL"} <=> child.pc = "POLL"
  BY DEF OpOf
<1>6. (op = "QA" <=> child.pc = "QA") /\ (op = "DISPATCH" <=> child.pc = "RENDER")
  BY DEF OpOf
<1>7. child.pc # "RENDER" => child'.n = child.n
  BY DEF Heard
<1>8. ~Heard' /\ (Sending' <=> child.pc = "RENDER")
  BY <1>2 DEF Heard, Sending
<1>9. ChildCalls'
  BY <1>1, <1>2 DEF ChildCalls, OpOf
<1>10. campaign.stage = "VARIANT_GENERATION"
  BY DEF IInv, ChildFits, ChildStands
<1>11. Prompt => \A m \in Attempts : m < child'.n => job'[Current][m] = "FAILED"
  <2>1. ASSUME Prompt, NEW m \in Attempts, m < child'.n PROVE job[Current][m] = "FAILED"
    <3>1. m < child.n \/ (Heard /\ m = child.n)
      BY <2>1, <1>3
    <3>. QED
      BY <2>1, <3>1 DEF IInv, ChildFits, ChildStands
  <2>. QED
    BY <2>1, <1>2 DEF Grows, Ended
<1>12. child.pc = "POLL" => child.n \in Attempts /\ job'[Current][child.n] # "NONE"
  <2>. HAVE child.pc = "POLL"
  <2>1. child.n \in Attempts /\ job[Current][child.n] # "NONE"
    BY <1>3 DEF IInv, ChildFits, ChildStands, Attempts
  <2>. QED
    BY <2>1, <1>2 DEF Grows
<1>13. child.pc = "QA" => Paid(Current)'
  BY <1>2, PaidStays DEF IInv, ChildFits, ChildStands
<1>14. child.pc \in {"RENDER", "POLL", "QA"} => child'.n # 0
  BY <1>3, <1>6, <1>7 DEF IInv, ChildFits, ChildStands, Sending
<1>15. ChildStands'
  BY <1>2, <1>7, <1>8, <1>10, <1>11, <1>12, <1>13, <1>14
     DEF IInv, ChildFits, ChildStands
<1>16. ChildMoves
  BY <1>2, <1>6, <1>7, <1>8 DEF ChildMoves, Heard, Sending
<1>17. Called(k)'
  <2>1. op \in {"POLL", "CANCEL"} =>
          /\ NotAhead(Current)' /\ try'[k].n \in Attempts /\ job'[Current][try'[k].n] # "NONE"
          /\ try'[k].n <= child'.n /\ ~Sending'
    <3>. HAVE op \in {"POLL", "CANCEL"}
    <3>1. child.at \in Nat /\ Current[1] = child.at /\ Current[2] = campaign.visit
      BY CurrentIsCut DEF IInv
    <3>2. NotAhead(Current)'
      BY <3>1, <1>2 DEF NotAhead
    <3>. QED
      BY <3>2, <1>1, <1>2, <1>3, <1>5, <1>7, <1>8, <1>12
  <2>2. op = "QA" => Paid(Cut(k))'
    BY <1>1, <1>2, <1>6, <1>13 DEF Paid, Delivered
  <2>3. op = "DISPATCH" => child'.n \in Attempts
    <3>1. child'.n \in Nat /\ child'.n <= MaxAttempts
      BY Constants DEF TypesFit, ChildOK, Children
    <3>. QED
      BY <3>1, <1>3, <1>6, <1>14 DEF Attempts
  <2>. QED
    BY <2>1, <2>2, <2>3, <1>1, <1>2 DEF Called
<1>18. Works(k)'
  BY <1>1 DEF Works, DispatchWorks, PollWorks, QaWorks
<1>. QED
  BY <1>9, <1>15, <1>16, <1>17, <1>18 DEF ChildFits

LEMMA StoredStays ==
  ASSUME IInv, UNCHANGED stored
  PROVE  StoredOK' /\ Grows /\ JobsFit' /\ RowsFit' /\ \A i \in Slots : KeyKept(i)
BY DEF IInv, TypesFit, StoredOK, stored, Grows, JobsFit, RowsFit, Delivered, Paid, KeyKept

LEMMA TryType ==
  ASSUME TypesFit, NEW i \in Slots, NEW r \in Tries, try' = [try EXCEPT ![i] = r]
  PROVE  TryOK' /\ try'[i] = r /\ \A j \in Slots \ {i} : try'[j] = try[j]
BY DEF TypesFit, TryOK

LEMMA AnswersType ==
  ASSUME IInv, NEW i \in Slots, NEW answer, Answers(i, answer)
  PROVE  TryOK' /\ ChildOK'
<1>1. TryOK'
  BY IdleType, TryType DEF Answers, IInv
<1>2. CASE child.slot # i
  BY <1>1, <1>2 DEF Answers, IInv, TypesFit, ChildOK
<1>3. CASE child.slot = i
  <2>1. try[i].op \in Ops \ {"NONE"}
    BY <1>3, CallerKey DEF Ops, Slots
  <2>. QED
    BY <1>1, <2>1, <1>3, AfterType DEF Answers, IInv, TypesFit, ChildOK
<1>. QED
  BY <1>1, <1>2, <1>3

LEMMA NoAnswerFits ==
  ASSUME IInv, Grows, StoredOK', campaign' = campaign, NEW i \in Slots, KeyKept(i), NoAnswer(i)
  PROVE  TypesFit' /\ ChildFits' /\ TriesFit'
<1>0. CampaignOK'
  BY DEF IInv, TypesFit, CampaignOK
<1>1. CASE child.slot # i
  <2>1. Answers(i, "NONE") /\ AnswerMeans(i, "NONE")
    BY <1>1 DEF NoAnswer, Goes, Answers, AnswerMeans
  <2>2. TypesFit'
    BY <2>1, <1>0, AnswersType DEF TypesFit
  <2>. QED
    BY <2>1, <2>2, AnswersFits
<1>2. CASE child.slot = i /\ try' = [try EXCEPT ![i] = Fresh(@.op, child)]
           /\ child' = [child EXCEPT !.tries = @ + 1]
  <2>1. /\ try[i].op \in Ops \ {"NONE"} /\ child \in Children
        /\ child.pc \in {"CUT", "RENDER", "POLL", "QA"} /\ try[i].op \in OpOf[child.pc]
        /\ child.slot # 0 /\ i # 0
    BY <1>2, CallerKey DEF Ops, Slots, IInv, ChildFits, ChildCalls, TypesFit, ChildOK
  <2>2. /\ child' \in Children /\ child'.pc = child.pc /\ child'.at = child.at
        /\ child'.slot = i /\ child'.n = child.n
    BY <1>2, <2>1 DEF Children
  <2>3. Fresh(try[i].op, child) \in Tries
    BY <2>1, FreshType DEF IInv
  <2>4. TryOK' /\ try'[i] = Fresh(try[i].op, child)
    BY <1>2, <2>3, TryType DEF IInv
  <2>5. TypesFit'
    BY <1>0, <2>2, <2>4 DEF TypesFit, ChildOK
  <2>6. try[i].op = "DISPATCH" => Sending
    BY <1>2, <2>1 DEF OpOf, Sending
  <2>7. ChildFits' /\ ChildMoves /\ Called(i)' /\ Works(i)'
    BY <2>1, <2>2, <2>4, <2>5, <2>6, BeginsFits
  <2>8. \A j \in Slots \ {i} : Prompt /\ try[j].op = "DISPATCH" => child'.slot = j
    BY <1>2 DEF IInv, TriesFit, Called
  <2>9. TriesFit'
    BY <1>2, <2>5, <2>7, <2>8, TriesFitAfter
  <2>. QED
    BY <2>5, <2>7, <2>9
<1>3. CASE child.slot = i /\ try' = [try EXCEPT ![i] = Idle]
           /\ child' = [child EXCEPT !.pc = "FAILED", !.slot = 0]
  <2>1. /\ child' \in Children /\ child'.pc = "FAILED" /\ child'.at = child.at
        /\ child'.slot = 0 /\ child'.n = child.n
    BY <1>3 DEF Children, ChildPcs, IInv, TypesFit, ChildOK
  <2>2. TryOK' /\ try'[i] = Idle
    BY <1>3, IdleType, TryType DEF IInv
  <2>3. TypesFit'
    BY <1>0, <2>1, <2>2 DEF TypesFit, ChildOK
  <2>4. Called(i)' /\ Works(i)'
    BY <2>2, EmptySlot DEF Idle
  <2>5. Current' = Current /\ Current \in Cuts /\ ~Heard' /\ ~Sending'
    BY <2>1, CurrentIsCut DEF Current, Heard, Sending, IInv
  <2>6. campaign.stage = "VARIANT_GENERATION"
    BY <1>3, CallerKey DEF Slots
  <2>7. ChildFits'
    BY <2>1, <2>5, <2>6 DEF IInv, ChildFits, ChildCalls, ChildStands, Grows, Ended
  <2>8. /\ ChildMoves
        /\ \A j \in Slots \ {i} : Prompt /\ try[j].op = "DISPATCH" => child'.slot = j
    BY <1>3, <2>1, <2>5 DEF IInv, TriesFit, Called, ChildMoves
  <2>9. TriesFit'
    BY <1>3, <2>3, <2>4, <2>8, TriesFitAfter
  <2>. QED
    BY <2>3, <2>7, <2>9
<1>. QED
  BY <1>1, <1>2, <1>3 DEF NoAnswer

LEMMA DieKeeps ==
  ASSUME IInv, NEW i \in Slots, Die(i)
  PROVE  IInv'
BY StoredStays, NoAnswerFits DEF Die, IInv

LEMMA TimeOutKeeps ==
  ASSUME IInv, NEW i \in Slots, NEW j \in Slots, TimeOut(i, j)
  PROVE  IInv'
<1>1. /\ child.slot = i /\ try[i].op \in SlowOps /\ try[j] = Idle
      /\ try' = [try EXCEPT ![j] = Fresh(try[i].op, child)]
      /\ child' = [child EXCEPT !.slot = j, !.tries = @ + 1]
      /\ campaign' = campaign /\ UNCHANGED stored
  BY DEF TimeOut
<1>2. StoredOK' /\ Grows /\ JobsFit' /\ RowsFit' /\ KeyKept(j)
  BY <1>1, StoredStays
<1>3. /\ try[i].op \in Ops \ {"NONE"} /\ child \in Children
      /\ child.pc \in {"CUT", "RENDER", "POLL", "QA"} /\ try[i].op \in OpOf[child.pc]
      /\ child.slot # 0 /\ i # 0
  BY <1>1, CallerKey DEF Ops, Slots, IInv, ChildFits, ChildCalls, TypesFit, ChildOK
<1>4. /\ child' \in Children /\ child'.pc = child.pc /\ child'.at = child.at
      /\ child'.slot = j /\ child'.n = child.n
  <2>1. j \in {0, 1, 2} /\ child.tries + 1 \in Nat
    BY <1>3 DEF Slots, Children
  <2>. QED
    BY <2>1, <1>1, <1>3 DEF Children
<1>5. Fresh(try[i].op, child) \in Tries
  BY <1>3, FreshType DEF IInv
<1>6. TryOK' /\ try'[j] = Fresh(try[i].op, child)
  BY <1>1, <1>5, TryType DEF IInv
<1>7. TypesFit'
  BY <1>1, <1>2, <1>4, <1>6 DEF TypesFit, ChildOK, IInv, CampaignOK
<1>8. /\ try[i].op = "DISPATCH" => Sending
      /\ Prompt => try[i].op # "DISPATCH"
  BY <1>1, <1>3 DEF OpOf, Sending, Prompt
<1>9. ChildFits' /\ ChildMoves /\ Called(j)' /\ Works(j)'
  BY <1>1, <1>2, <1>3, <1>4, <1>6, <1>7, <1>8, BeginsFits
<1>10. Prompt => \A k \in Slots : try[k].op # "DISPATCH"
  BY <1>1, <1>8 DEF IInv, TriesFit, Called
<1>11. TriesFit'
  BY <1>1, <1>2, <1>7, <1>9, <1>10, TriesFitAfter
<1>. QED
  BY <1>2, <1>7, <1>9, <1>11 DEF IInv

LEMMA CallsKeeps ==
  ASSUME IInv, campaign' = campaign, UNCHANGED stored, NEW i \in Slots,
         NEW op \in Ops \ {"NONE"}, NEW ch \in Children, Calls(i, op, ch),
         child.slot = 0, child.pc \in {"CUT", "RENDER", "POLL", "QA"}, op \in OpOf[child.pc],
         ch.pc = child.pc, ch.at = child.at,
         op = "DISPATCH" => ch.n = child.n + 1, op # "DISPATCH" => ch.n = child.n
  PROVE  IInv'
<1>1. StoredOK' /\ Grows /\ JobsFit' /\ RowsFit' /\ KeyKept(i)
  BY StoredStays
<1>2. i \in {1, 2} /\ try' = [try EXCEPT ![i] = Fresh(op, ch)]
      /\ child' = [ch EXCEPT !.slot = i, !.tries = 1]
  BY DEF Calls, Slots
<1>3. /\ child' \in Children /\ child'.pc = child.pc /\ child'.at = child.at
      /\ child'.slot = i /\ child'.n = ch.n
  BY <1>2 DEF Children
<1>4. Fresh(op, ch) \in Tries
  BY FreshType DEF IInv
<1>5. TryOK' /\ try'[i] = Fresh(op, ch)
  BY <1>2, <1>4, TryType DEF IInv
<1>6. TypesFit'
  BY <1>1, <1>3, <1>5 DEF TypesFit, ChildOK, IInv, CampaignOK
<1>7. op = "DISPATCH" => Heard
  BY DEF OpOf, Heard
<1>8. ChildFits' /\ ChildMoves /\ Called(i)' /\ Works(i)'
  BY <1>1, <1>3, <1>5, <1>6, <1>7, BeginsFits
<1>9. Prompt => \A k \in Slots : try[k].op # "DISPATCH"
  BY DEF IInv, TriesFit, Called, Slots
<1>10. TriesFit'
  BY <1>1, <1>2, <1>6, <1>8, <1>9, TriesFitAfter
<1>. QED
  BY <1>1, <1>6, <1>8, <1>10 DEF IInv

\* A step of the child alone.
LEMMA ChildAloneKeeps ==
  ASSUME IInv, UNCHANGED <<campaign, try, stored>>, child' \in Children,
         child'.at = child.at, child'.n = child.n, child'.slot = child.slot,
         child'.pc = child.pc \/
           (child'.pc = "DONE" /\ child.slot = 0)
  PROVE  IInv'
<1>1. StoredOK' /\ Grows /\ JobsFit' /\ RowsFit'
  BY StoredStays
<1>2. TypesFit'
  BY <1>1 DEF IInv, TypesFit, ChildOK, CampaignOK, TryOK
<1>3. Current' = Current /\ (Sending' => Sending) /\ (Heard' => Heard)
  BY DEF Current, Sending, Heard
<1>4. ChildFits'
  BY <1>3 DEF IInv, ChildFits, ChildCalls, ChildStands, Sending, stored, Paid, Delivered
<1>5. TriesFit'
  BY <1>3 DEF IInv, TriesFit, Called, Works, DispatchWorks, PollWorks, QaWorks, stored, Paid,
              Delivered, NotAhead, Cut, Status
<1>. QED
  BY <1>1, <1>2, <1>4, <1>5 DEF IInv

LEMMA ChildActsKeeps ==
  ASSUME IInv, ChildActs
  PROVE  IInv'
<1>1. campaign' = campaign /\ UNCHANGED stored /\ child \in Children
  BY DEF ChildActs, IInv, TypesFit, ChildOK
<1>2. CASE StopsBeforeRender
  <2>1. /\ child' = [child EXCEPT !.pc = "DONE", !.stopped = TRUE] /\ try' = try /\ child.slot = 0
    BY <1>2 DEF StopsBeforeRender, Waits
  <2>2. /\ child' \in Children /\ child'.at = child.at /\ child'.n = child.n
        /\ child'.slot = child.slot /\ child'.pc = "DONE"
    BY <1>1, <2>1 DEF Children, ChildPcs
  <2>. QED
    BY <1>1, <2>1, <2>2, ChildAloneKeeps
<1>3. ASSUME NEW i \in Slots, AsksForCuts(i) PROVE IInv'
  <2>1. Calls(i, "CUT", child) /\ child.slot = 0 /\ child.pc = "CUT"
    BY <1>3 DEF AsksForCuts, Waits
  <2>. QED
    BY <1>1, <2>1, CallsKeeps DEF Ops, OpOf
<1>4. ASSUME NEW i \in Slots, AsksForRender(i) PROVE IInv'
  <2>1. Calls(i, "DISPATCH", [child EXCEPT !.n = @ + 1]) /\ child.slot = 0 /\ child.pc = "RENDER"
    BY <1>4 DEF AsksForRender, Waits
  <2>2. child.n < MaxAttempts /\ MaxAttempts \in Nat /\ child.n \in Nat
    BY <2>1, <1>1, Constants DEF Heard, IInv, ChildFits, ChildStands, Children
  <2>3. child.n + 1 \in 0 .. MaxAttempts
    BY <2>2
  <2>4. /\ [child EXCEPT !.n = @ + 1] \in Children /\ [child EXCEPT !.n = @ + 1].pc = child.pc
        /\ [child EXCEPT !.n = @ + 1].at = child.at
        /\ [child EXCEPT !.n = @ + 1].n = child.n + 1
    BY <1>1, <2>3 DEF Children
  <2>5. PICK ch \in Children : ch = [child EXCEPT !.n = @ + 1]
    BY <2>4
  <2>6. ch.pc = child.pc /\ ch.at = child.at /\ ch.n = child.n + 1 /\ Calls(i, "DISPATCH", ch)
    BY <2>1, <2>4, <2>5
  <2>. QED
    BY <1>1, <2>1, <2>6, CallsKeeps DEF Ops, OpOf
<1>5. ASSUME NEW i \in Slots, AsksForPoll(i) PROVE IInv'
  <2>1. Calls(i, "POLL", child) /\ child.slot = 0 /\ child.pc = "POLL"
    BY <1>5 DEF AsksForPoll, Waits
  <2>. QED
    BY <1>1, <2>1, CallsKeeps DEF Ops, OpOf
<1>6. ASSUME NEW i \in Slots, AsksForCancel(i) PROVE IInv'
  <2>1. Calls(i, "CANCEL", child) /\ child.slot = 0 /\ child.pc = "POLL"
    BY <1>6 DEF AsksForCancel, Waits
  <2>. QED
    BY <1>1, <2>1, CallsKeeps DEF Ops, OpOf
<1>7. ASSUME NEW i \in Slots, AsksForQA(i) PROVE IInv'
  <2>1. Calls(i, "QA", child) /\ child.slot = 0 /\ child.pc = "QA"
    BY <1>7 DEF AsksForQA, Waits
  <2>. QED
    BY <1>1, <2>1, CallsKeeps DEF Ops, OpOf
<1>. QED
  BY <1>2, <1>3, <1>4, <1>5, <1>6, <1>7 DEF ChildActs

LEMMA CancelSignalKeeps ==
  ASSUME IInv, CancelSignal
  PROVE  IInv'
<1>1. /\ child' = [child EXCEPT !.cancelled = TRUE] /\ UNCHANGED <<campaign, try, stored>>
      /\ child \in Children
  BY DEF CancelSignal, IInv, TypesFit, ChildOK
<1>2. /\ child' \in Children /\ child'.at = child.at /\ child'.n = child.n
      /\ child'.slot = child.slot /\ child'.pc = child.pc
  BY <1>1 DEF Children
<1>. QED
  BY <1>1, <1>2, ChildAloneKeeps

\* The campaign goes on, or ends, within a visit.
LEMMA CampaignMovesKeeps ==
  ASSUME IInv, UNCHANGED <<child, try, stored>>, CampaignOK',
         campaign'.visit = campaign.visit,
         campaign'.stage = campaign.stage \/ child.pc = "DONE"
  PROVE  IInv'
<1>1. StoredOK' /\ Grows /\ JobsFit' /\ RowsFit'
  BY StoredStays
<1>2. TypesFit'
  BY <1>1 DEF IInv, TypesFit, ChildOK, TryOK
<1>3. Current' = Current
  BY DEF Current
<1>4. ChildFits'
  BY <1>3 DEF IInv, ChildFits, ChildCalls, ChildStands, Heard, Sending, stored, Paid, Delivered
<1>5. TriesFit'
  BY <1>3 DEF IInv, TriesFit, Called, Works, DispatchWorks, PollWorks, QaWorks, stored, Paid,
              Delivered, NotAhead, Cut, Status, Sending
<1>. QED
  BY <1>1, <1>2, <1>4, <1>5 DEF IInv

LEMMA ChildReturnsKeeps ==
  ASSUME IInv, ChildReturns
  PROVE  IInv'
<1>1. /\ UNCHANGED <<child, try, stored>> /\ CampaignOK' /\ campaign'.visit = campaign.visit
      /\ campaign'.stage = campaign.stage \/ child.pc = "DONE"
  BY DEF ChildReturns, Ends, Moves, IInv, TypesFit, CampaignOK
<1>. QED
  BY <1>1, CampaignMovesKeeps

LEMMA RepairKeeps ==
  ASSUME IInv, campaign.stage = "VARIANT_QA", campaign.visit < MaxVisits,
         campaign' = [campaign EXCEPT !.stage = "VARIANT_GENERATION", !.visit = @ + 1],
         child' = NewChild, UNCHANGED <<try, stored>>
  PROVE  IInv'
<1>1. StoredOK' /\ Grows /\ JobsFit' /\ RowsFit'
  BY StoredStays
<1>2. /\ campaign.visit \in 1 .. MaxVisits /\ MaxVisits \in Nat /\ MaxAttempts \in Nat
      /\ 1 \in Durations /\ 0 \notin Attempts /\ \A m \in Attempts : m > 0 /\ m \in Nat
  BY CurrentIsCut, Constants DEF IInv, Durations, Attempts
<1>3. CampaignOK' /\ campaign'.stage = "VARIANT_GENERATION" /\ campaign'.visit = campaign.visit + 1
  <2>1. campaign.visit + 1 \in Visits
    BY <1>2 DEF Visits
  <2>. QED
    BY <2>1 DEF IInv, TypesFit, CampaignOK
<1>4. child' \in Children
  BY <1>2 DEF NewChild, Children, ChildPcs
<1>5. TypesFit'
  BY <1>1, <1>3, <1>4 DEF IInv, TypesFit, ChildOK, TryOK
<1>6. child.pc = "DONE" /\ child.slot = 0
  BY DEF IInv, ChildFits, ChildStands, ChildCalls, OpOf
<1>7. child'.pc = "CUT" /\ child'.n = 0 /\ child'.slot = 0
  BY DEF NewChild
<1>8. ChildFits'
  BY <1>2, <1>3, <1>7 DEF ChildFits, ChildCalls, ChildStands, Heard, Sending
<1>9. ASSUME NEW i \in Slots PROVE Called(i)' /\ Works(i)'
  <2>1. Called(i) /\ Works(i) /\ Cut(i) \in Cuts /\ i # 0
    BY TryTyped DEF IInv, TriesFit, Slots
  <2>2. Cut(i)' = Cut(i) /\ Cut(i)[2] \in Nat /\ Cut(i)[1] \in Nat
    BY <2>1, CutPairs DEF Cut
  <2>3. Prompt => try[i].op # "DISPATCH"
    BY <2>1, <1>6 DEF Called
  <2>4. NotAhead(Cut(i)) => NotAhead(Cut(i))' /\ Cut(i) # Current'
    <3>. HAVE NotAhead(Cut(i))
    <3>1. Cut(i)[2] < campaign'.visit
      BY <2>2, <1>2, <1>3 DEF NotAhead
    <3>2. NotAhead(Cut(i))'
      BY <3>1, <2>2 DEF NotAhead
    <3>3. Cut(i) # Current'
      BY <3>1, <2>2, <1>2, <1>3 DEF Current
    <3>. QED
      BY <3>2, <3>3
  <2>5. Called(i)'
    BY <2>1, <2>2, <2>3, <2>4 DEF Called, stored, Paid, Delivered
  <2>6. Works(i)'
    BY <2>1, <2>2 DEF Works, DispatchWorks, PollWorks, QaWorks, stored, Delivered, Status
  <2>. QED
    BY <2>5, <2>6
<1>. QED
  BY <1>1, <1>5, <1>8, <1>9 DEF IInv, TriesFit

LEMMA JudgeVariantsKeeps ==
  ASSUME IInv, JudgeVariants
  PROVE  IInv'
<1>1. CASE variantQAPassed /\ Moves("EXPORTING") /\ UNCHANGED child
  <2>1. /\ UNCHANGED <<child, try, stored>> /\ CampaignOK' /\ campaign'.visit = campaign.visit
        /\ child.pc = "DONE"
    BY <1>1 DEF JudgeVariants, Moves, IInv, TypesFit, CampaignOK, ChildFits, ChildStands
  <2>. QED
    BY <2>1, CampaignMovesKeeps
<1>2. CASE campaign.visit < MaxVisits
           /\ campaign' = [campaign EXCEPT !.stage = "VARIANT_GENERATION", !.visit = @ + 1]
           /\ child' = NewChild
  BY <1>2, RepairKeeps DEF JudgeVariants
<1>3. CASE Ends("BLOCKED") /\ UNCHANGED child
  <2>1. /\ UNCHANGED <<child, try, stored>> /\ CampaignOK' /\ campaign'.visit = campaign.visit
        /\ campaign'.stage = campaign.stage
    BY <1>3 DEF JudgeVariants, Ends, IInv, TypesFit, CampaignOK
  <2>. QED
    BY <2>1, CampaignMovesKeeps
<1>. QED
  BY <1>1, <1>2, <1>3 DEF JudgeVariants

-----------------------------------------------------------------------------
(* What a step of a try writes.                                            *)

\* The records stay of their types, keep what they showed, and keep fitting together.
StoredFits(i) == StoredOK' /\ Grows /\ KeyKept(i) /\ JobsFit' /\ RowsFit'

LEMMA NothingWritten ==
  ASSUME IInv, UNCHANGED <<agent, attempt, job, ledger, rows>>, NEW i \in Slots
  PROVE  StoredFits(i)
BY DEF StoredFits, IInv, TypesFit, StoredOK, Grows, JobsFit, RowsFit, Delivered, Paid, KeyKept

LEMMA AssetIsAttempt ==
  ASSUME IInv, NEW c \in Cuts, NEW r \in DOMAIN rows[c]
  PROVE  /\ rows[c] \in Seq(RowRecords) /\ rows[c][r] \in RowRecords
         /\ rows[c][r].asset # 0 => rows[c][r].asset \in Attempts
<1>1. rows[c] \in Seq(RowRecords)
  BY DEF IInv, TypesFit, StoredOK
<1>2. rows[c][r] \in RowRecords
  BY <1>1
<1>3. rows[c][r].asset # 0 => rows[c][r].asset \in Attempts
  BY <1>2, Constants DEF RowRecords, Attempts
<1>. QED
  BY <1>1, <1>2, <1>3

LEMMA EntersFits ==
  ASSUME IInv, NEW i \in Slots, try[i].n \in Attempts,
         NEW entry \in {"RESERVED", "CHARGED", "RELEASED"}, Enters(i, entry),
         UNCHANGED <<agent, attempt, job, rows>>
  PROVE  /\ StoredFits(i) /\ entry \in ledger'[Cut(i)][try[i].n]
         /\ \A e : e \in ledger[Cut(i)][try[i].n] => e \in ledger'[Cut(i)][try[i].n]
<1> DEFINE c == Cut(i)
           n == try[i].n
<1>1. c \in Cuts
  BY TryTyped DEF IInv
<1>2. /\ ledger \in [Cuts -> [Attempts -> SUBSET {"RESERVED", "CHARGED", "RELEASED"}]]
      /\ ledger' = [ledger EXCEPT ![c][n] = @ \cup {entry}]
  BY DEF IInv, TypesFit, StoredOK, Enters
<1>3. /\ ledger' \in [Cuts -> [Attempts -> SUBSET {"RESERVED", "CHARGED", "RELEASED"}]]
      /\ ledger'[c][n] = ledger[c][n] \cup {entry}
      /\ \A d \in Cuts : \A m \in Attempts : ledger[d][m] \subseteq ledger'[d][m]
  BY <1>1, <1>2
<1>4. StoredOK'
  BY <1>3 DEF IInv, TypesFit, StoredOK
<1>5. Grows
  BY <1>3 DEF Grows
<1>6. \A d \in Cuts : \A m \in Attempts : Delivered(d, m) => Delivered(d, m)'
  BY <1>3 DEF Delivered
<1>7. JobsFit'
  BY <1>6 DEF IInv, JobsFit, Delivered
<1>8. \A d \in Cuts : \A r \in DOMAIN rows[d] : rows[d][r].asset # 0 => rows[d][r].asset \in Attempts
  BY AssetIsAttempt
<1>9. \A d \in Cuts : Paid(d) => Paid(d)'
  BY <1>5, PaidStays
<1>10. RowsFit'
  BY <1>6, <1>8, <1>9 DEF IInv, RowsFit, Delivered
<1>. QED
  BY <1>3, <1>4, <1>5, <1>7, <1>10 DEF StoredFits, KeyKept

LEMMA SetsFits ==
  ASSUME IInv, NEW i \in Slots, try[i].op \in {"DISPATCH", "POLL", "CANCEL"},
         NEW status \in Statuses, Sets(i, status),
         status \notin Unsent => job[Cut(i)][try[i].n] # "NONE",
         Prompt /\ status = "FAILED" => job[Cut(i)][try[i].n] = "FAILED",
         status = "SUCCEEDED" => Delivered(Cut(i), try[i].n),
         UNCHANGED <<agent, job, ledger, rows>>
  PROVE  StoredFits(i) /\ attempt'[Cut(i)][try[i].n] = status
<1> DEFINE c == Cut(i)
           n == try[i].n
<1>1. c \in Cuts /\ n \in Attempts
  BY TryTyped, DispatchKey, PollKey DEF IInv
<1>2. /\ attempt \in [Cuts -> [Attempts -> Statuses]]
      /\ attempt' = [attempt EXCEPT ![c][n] = status]
  BY DEF IInv, TypesFit, StoredOK, Sets
<1>3. /\ attempt' \in [Cuts -> [Attempts -> Statuses]] /\ attempt'[c][n] = status
      /\ \A d \in Cuts : \A m \in Attempts :
           ~(d = c /\ m = n) => attempt'[d][m] = attempt[d][m]
  BY <1>1, <1>2
<1>4. StoredOK' /\ Grows
  BY <1>3 DEF IInv, TypesFit, StoredOK, Grows
<1>5. RowsFit'
  BY DEF IInv, RowsFit, Delivered, Paid
<1>6. JobsFit'
  BY <1>3 DEF IInv, JobsFit, Delivered
<1>7. KeyKept(i)
  <2>. SUFFICES ASSUME Prompt, NEW j \in Slots \ {i}, try[j].op = "DISPATCH"
                PROVE  attempt'[Cut(j)][try[j].n] = attempt[Cut(j)][try[j].n]
    BY DEF KeyKept
  <2>1. Cut(j) \in Cuts /\ try[j].n \in Attempts
    BY TryTyped, DispatchKey DEF IInv
  <2>2. ~(Cut(j) = c /\ try[j].n = n)
    <3>1. try[i].op # "DISPATCH"
      BY DispatchKey
    <3>. QED
      BY <3>1, PollKey
  <2>. QED
    BY <2>1, <2>2, <1>3
<1>. QED
  BY <1>3, <1>4, <1>5, <1>6, <1>7 DEF StoredFits

LEMMA JobFits ==
  ASSUME IInv, NEW i \in Slots, try[i].n \in Attempts, NEW s \in JobStatuses \ {"NONE"},
         job' = [job EXCEPT ![Cut(i)][try[i].n] = s],
         job[Cut(i)][try[i].n] \in Ended => s = job[Cut(i)][try[i].n],
         Prompt => \A m \in Attempts : m < try[i].n => job[Cut(i)][m] = "FAILED",
         UNCHANGED <<agent, attempt, ledger, rows>>
  PROVE  StoredFits(i) /\ job'[Cut(i)][try[i].n] = s
<1> DEFINE c == Cut(i)
           n == try[i].n
<1>1. c \in Cuts
  BY TryTyped DEF IInv
<1>2. job \in [Cuts -> [Attempts -> JobStatuses]]
  BY DEF IInv, TypesFit, StoredOK
<1>3. /\ job' \in [Cuts -> [Attempts -> JobStatuses]] /\ job'[c][n] = s
      /\ \A d \in Cuts : \A m \in Attempts : ~(d = c /\ m = n) => job'[d][m] = job[d][m]
  BY <1>1, <1>2
<1>4. /\ \A d \in Cuts : \A m \in Attempts : job[d][m] # "NONE" => job'[d][m] # "NONE"
      /\ \A d \in Cuts : \A m \in Attempts : job[d][m] \in Ended => job'[d][m] = job[d][m]
  BY <1>3
<1>5. StoredOK' /\ Grows
  BY <1>3, <1>4 DEF IInv, TypesFit, StoredOK, Grows
<1>6. \A d \in Cuts : \A m \in Attempts : Delivered(d, m) => Delivered(d, m)'
  BY <1>5, DeliveredStays
<1>7. JobsFit'
  <2>. SUFFICES ASSUME NEW d \in Cuts, NEW m \in Attempts
                PROVE  /\ Prompt /\ job'[d][m] # "NONE" =>
                            \A l \in Attempts : l < m => job'[d][l] = "FAILED"
                       /\ attempt[d][m] \notin Unsent => job'[d][m] # "NONE"
                       /\ Prompt /\ attempt[d][m] = "FAILED" => job'[d][m] = "FAILED"
                       /\ attempt[d][m] = "SUCCEEDED" => Delivered(d, m)'
    BY DEF JobsFit
  <2>1. /\ Prompt /\ job[d][m] # "NONE" =>
             \A l \in Attempts : l < m => job[d][l] = "FAILED"
        /\ attempt[d][m] \notin Unsent => job[d][m] # "NONE"
        /\ Prompt /\ attempt[d][m] = "FAILED" => job[d][m] = "FAILED"
        /\ attempt[d][m] = "SUCCEEDED" => Delivered(d, m)
    BY DEF IInv, JobsFit
  <2>2. \A l \in Attempts : job[d][l] = "FAILED" => job'[d][l] = "FAILED"
    BY <1>4 DEF Ended
  <2>. QED
    BY <2>1, <2>2, <1>3, <1>4, <1>6
<1>8. \A d \in Cuts : \A r \in DOMAIN rows[d] : rows[d][r].asset # 0 => rows[d][r].asset \in Attempts
  BY AssetIsAttempt
<1>9. \A d \in Cuts : Paid(d) => Paid(d)'
  BY <1>5, PaidStays
<1>10. RowsFit'
  BY <1>4, <1>6, <1>8, <1>9 DEF IInv, RowsFit, Ended
<1>. QED
  BY <1>3, <1>5, <1>7, <1>10 DEF StoredFits, KeyKept

\* What a row may show of its cut.
RowFits(c, row) ==
  /\ row.asset # 0 => job[c][row.asset] = "SUCCEEDED"
  /\ row.status = "READY" =>
       /\ row.asset # 0 /\ agent[c].qa = "PASS" /\ Paid(c)
       /\ Prompt => Delivered(c, row.asset)

LEMMA RowsWritten ==
  ASSUME IInv, NEW i \in Slots, NEW q \in Seq(RowRecords),
         rows' = [rows EXCEPT ![Cut(i)] = q], UNCHANGED <<agent, attempt, job, ledger>>,
         \A r \in DOMAIN rows[Cut(i)] :
           r \in DOMAIN q /\ (rows[Cut(i)][r].asset # 0 => q[r].asset # 0),
         \A r \in DOMAIN q : RowFits(Cut(i), q[r])
  PROVE  StoredFits(i) /\ rows'[Cut(i)] = q
<1>1. Cut(i) \in Cuts
  BY TryTyped DEF IInv
<1>2. rows \in [Cuts -> Seq(RowRecords)]
  BY DEF IInv, TypesFit, StoredOK
<1>3. /\ rows' \in [Cuts -> Seq(RowRecords)] /\ rows'[Cut(i)] = q
      /\ \A d \in Cuts : d # Cut(i) => rows'[d] = rows[d]
  BY <1>1, <1>2
<1>4. StoredOK'
  BY <1>3 DEF IInv, TypesFit, StoredOK
<1>5. Grows
  <2>1. \A d \in Cuts : \A r \in DOMAIN rows[d] :
          r \in DOMAIN rows'[d] /\ (rows[d][r].asset # 0 => rows'[d][r].asset # 0)
    BY <1>3
  <2>. QED
    BY <2>1 DEF Grows
<1>6. JobsFit' /\ KeyKept(i)
  BY DEF IInv, JobsFit, Delivered, KeyKept
<1>7. \A d \in Cuts : \A r \in DOMAIN rows[d] : RowFits(d, rows[d][r])
  BY DEF IInv, RowsFit, RowFits
<1>8. \A d \in Cuts : \A r \in DOMAIN rows'[d] : RowFits(d, rows'[d][r])
  BY <1>3, <1>7
<1>9. RowsFit'
  BY <1>8 DEF RowsFit, RowFits, Delivered, Paid
<1>. QED
  BY <1>3, <1>4, <1>5, <1>6, <1>9 DEF StoredFits

LEMMA RowType ==
  ASSUME IInv, NEW c \in Cuts, NEW r \in DOMAIN rows[c]
  PROVE  /\ rows[c] \in Seq(RowRecords) /\ rows[c][r] \in RowRecords
         /\ RowFits(c, rows[c][r])
         /\ rows[c][r].asset # 0 => rows[c][r].asset \in Attempts
<1>1. RowFits(c, rows[c][r])
  BY DEF IInv, RowsFit, RowFits
<1>. QED
  BY <1>1, AssetIsAttempt

LEMMA RowSet ==
  ASSUME IInv, NEW i \in Slots, NEW r \in DOMAIN rows[Cut(i)], NEW row \in RowRecords,
         rows' = [rows EXCEPT ![Cut(i)] = [rows[Cut(i)] EXCEPT ![r] = row]],
         rows[Cut(i)][r].asset # 0 => row.asset # 0,
         RowFits(Cut(i), row), UNCHANGED <<agent, attempt, job, ledger>>
  PROVE  /\ StoredFits(i) /\ DOMAIN rows'[Cut(i)] = DOMAIN rows[Cut(i)]
<1>1. Cut(i) \in Cuts
  BY TryTyped DEF IInv
<1> DEFINE q == [rows[Cut(i)] EXCEPT ![r] = row]
<1>2. rows[Cut(i)] \in Seq(RowRecords)
  BY <1>1 DEF IInv, TypesFit, StoredOK
<1>3. q \in Seq(RowRecords) /\ DOMAIN q = DOMAIN rows[Cut(i)]
  BY <1>2
<1>4. \A s \in DOMAIN rows[Cut(i)] : s \in DOMAIN q /\ (rows[Cut(i)][s].asset # 0 => q[s].asset # 0)
  BY <1>3
<1>5. \A s \in DOMAIN q : RowFits(Cut(i), q[s])
  BY <1>1, <1>3 DEF IInv, RowsFit, RowFits
<1> HIDE DEF q
<1>6. StoredFits(i) /\ rows'[Cut(i)] = q
  BY <1>3, <1>4, <1>5, RowsWritten DEF q
<1>. QED
  BY <1>3, <1>6

-----------------------------------------------------------------------------
(* What a step of a try leads to.                                          *)

LEMMA GoesKeeps ==
  ASSUME IInv, campaign' = campaign, NEW i \in Slots, StoredFits(i),
         NEW r \in Tries, Goes(i, r),
         r.op = try[i].op, r.op # "CUT" => r.cut = Cut(i) /\ r.n = try[i].n, Works(i)'
  PROVE  IInv'
<1>1. TypesFit'
  BY TryType DEF Goes, IInv, TypesFit, ChildOK, CampaignOK, StoredFits
<1>. QED
  BY <1>1, GoesFits DEF IInv, StoredFits

LEMMA AnswersKeeps ==
  ASSUME IInv, campaign' = campaign, NEW i \in Slots, StoredFits(i), NEW answer,
         Answers(i, answer), AnswerMeans(i, answer)
  PROVE  IInv'
<1>1. TypesFit'
  BY AnswersType DEF IInv, TypesFit, CampaignOK, StoredFits
<1>. QED
  BY <1>1, AnswersFits DEF IInv, StoredFits

LEMMA NoAnswerKeeps ==
  ASSUME IInv, campaign' = campaign, NEW i \in Slots, StoredFits(i), NoAnswer(i)
  PROVE  IInv'
BY NoAnswerFits DEF IInv, StoredFits

LEMMA NextPc ==
  ASSUME IInv, campaign' = campaign, NEW i \in Slots, StoredFits(i), try[i].op # "NONE",
         NEW pc \in Pcs, Goes(i, [try[i] EXCEPT !.pc = pc])
  PROVE  /\ try'[i].op = try[i].op /\ Cut(i)' = Cut(i) /\ try'[i].n = try[i].n
         /\ try'[i].pc = pc /\ try'[i].saw = try[i].saw /\ try'[i].row = try[i].row
         /\ Works(i)' => IInv'
<1> DEFINE r == [try[i] EXCEPT !.pc = pc]
<1>1. try[i] \in Tries
  BY TryTyped DEF IInv
<1>2. /\ r \in Tries /\ r.op = try[i].op /\ r.cut = Cut(i) /\ r.n = try[i].n
      /\ r.pc = pc /\ r.saw = try[i].saw /\ r.row = try[i].row
  BY <1>1 DEF Tries, Cut
<1>3. try'[i] = r
  BY <1>2, TryType DEF Goes, IInv
<1>4. Works(i)' => IInv'
  <2> HIDE DEF r
  <2>1. Goes(i, r)
    BY DEF r
  <2>. QED
    BY <2>1, <1>2, GoesKeeps
<1>. QED
  BY <1>2, <1>3, <1>4 DEF Cut

-----------------------------------------------------------------------------
(* Every step of a try keeps the invariant.                                *)

LEMMA CutGoes ==
  ASSUME IInv, campaign' = campaign, NEW i \in Slots, StoredFits(i), try[i].op = "CUT",
         NEW r \in Tries, Goes(i, r), r.op = "CUT"
  PROVE  IInv'
<1>1. try'[i].op = "CUT"
  BY TryType DEF Goes, IInv
<1>2. Works(i)'
  BY <1>1 DEF Works, DispatchWorks, PollWorks, QaWorks
<1>. QED
  BY <1>2, GoesKeeps

LEMMA CutSteps ==
  ASSUME IInv, campaign' = campaign, NEW i \in Slots, StoredFits(i), try[i].op = "CUT",
         NEW pc \in Pcs, Goes(i, [try[i] EXCEPT !.pc = pc])
  PROVE  IInv'
<1>1. try'[i].op = "CUT" /\ (Works(i)' => IInv')
  BY NextPc
<1>. QED
  BY <1>1 DEF Works, DispatchWorks, PollWorks, QaWorks

LEMMA CutDoneKeeps ==
  ASSUME IInv, campaign' = campaign, NEW i \in Slots, StoredFits(i), try[i].op = "CUT",
         CutDone(i)
  PROVE  IInv'
<1>1. CASE Cut(i)[1] = Last
  BY <1>1, AnswersKeeps DEF CutDone, AnswerMeans
<1>2. CASE Cut(i)[1] # Last
  <2> DEFINE r == [Idle EXCEPT !.op = "CUT", !.cut = <<Cut(i)[1] + 1, Cut(i)[2]>>, !.pc = "AGENT"]
  <2>1. Goes(i, r)
    BY <1>2 DEF CutDone
  <2>2. Cut(i)[1] \in 1 .. NumDurations /\ Cut(i)[2] \in 1 .. MaxVisits
    BY TryTyped, CutPairs DEF IInv
  <2>3. Cut(i)[1] + 1 \in 1 .. NumDurations
    BY <2>2, <1>2, Constants DEF Last
  <2>4. <<Cut(i)[1] + 1, Cut(i)[2]>> \in Cuts
    BY <2>2, <2>3, CutPairs
  <2>5. r \in Tries /\ r.op = "CUT"
    BY <2>4, IdleType DEF Tries, Ops, Pcs, Idle, NoRow
  <2>. QED
    BY <2>1, <2>5, CutGoes
<1>. QED
  BY <1>1, <1>2

LEMMA CutAgentKeeps ==
  ASSUME IInv, NEW i \in Slots, CutAgent(i)
  PROVE  IInv'
<1>0. try[i].op = "CUT" /\ campaign' = campaign /\ UNCHANGED <<attempt, job, ledger, rows>>
  BY DEF CutAgent, At
<1>1. ASSUME NEW answer \in {"CUT", "REFUSED"},
             agent' = [agent EXCEPT ![Cut(i)].generator = answer], UNCHANGED <<try, child>>
      PROVE  IInv'
  <2>1. agent \in [Cuts -> [generator : {"NONE", "CUT", "REFUSED"},
                            qa : {"NONE", "PASS", "FAIL", "NOT_RUN"}]]
    BY DEF IInv, TypesFit, StoredOK
  <2>2. /\ agent' \in [Cuts -> [generator : {"NONE", "CUT", "REFUSED"},
                                qa : {"NONE", "PASS", "FAIL", "NOT_RUN"}]]
        /\ \A c \in Cuts : agent'[c].qa = agent[c].qa
    BY <1>1, <2>1
  <2>3. StoredOK' /\ Grows
    BY <2>2, <1>0 DEF IInv, TypesFit, StoredOK, Grows
  <2>4. JobsFit' /\ RowsFit'
    BY <2>2, <1>0 DEF IInv, JobsFit, RowsFit, Delivered, Paid
  <2>5. TypesFit'
    BY <2>3, <1>0, <1>1 DEF IInv, TypesFit, CampaignOK, ChildOK, TryOK
  <2>6. ChildFits'
    <3>1. ChildStands'
      BY <2>3, <1>0, <1>1, StandsStill
    <3>. QED
      BY <3>1, <1>0, <1>1 DEF IInv, ChildFits, ChildCalls, Current
  <2>7. TriesFit'
    <3>. SUFFICES ASSUME NEW j \in Slots PROVE Called(j)' /\ Works(j)'
      BY DEF TriesFit
    <3>1. Called(j) /\ Works(j) /\ Cut(j) \in Cuts
      BY TryTyped DEF IInv, TriesFit
    <3>2. Called(j)'
      BY <3>1, <1>0, <1>1 DEF Called, Paid, Delivered, NotAhead, Current, Sending, Cut
    <3>3. DispatchWorks(j)' /\ PollWorks(j)'
      BY <3>1, <1>0, <1>1 DEF Works, DispatchWorks, PollWorks, Delivered, Cut, Status
    <3>4. QaWorks(j)'
      BY <3>1, <2>2, <1>0, <1>1 DEF Works, QaWorks, Cut
    <3>. QED
      BY <3>2, <3>3, <3>4 DEF Works
  <2>. QED
    BY <2>4, <2>5, <2>6, <2>7 DEF IInv
<1>2. CASE Answers(i, "REFUSED") /\ UNCHANGED agent
  BY <1>0, <1>2, NothingWritten, AnswersKeeps DEF AnswerMeans
<1>3. CASE Goes(i, [try[i] EXCEPT !.pc = "SIBLINGS"]) /\ UNCHANGED agent
  BY <1>0, <1>3, NothingWritten, CutSteps DEF Pcs
<1>. QED
  BY <1>1, <1>2, <1>3 DEF CutAgent

LEMMA ReadSiblingsKeeps ==
  ASSUME IInv, NEW i \in Slots, ReadSiblings(i)
  PROVE  IInv'
<1>1. try[i].op = "CUT" /\ campaign' = campaign /\ StoredFits(i)
  BY NothingWritten DEF ReadSiblings, At, stored
<1>2. CASE CutDone(i)
  BY <1>1, <1>2, CutDoneKeeps
<1>3. CASE NoAnswer(i)
  BY <1>1, <1>3, NoAnswerKeeps
<1>4. CASE Goes(i, [try[i] EXCEPT !.pc = "CREATE", !.live = Live(Cut(i))])
  <2>1. Live(Cut(i)) \subseteq Cuts
    BY DEF Live, Siblings
  <2>2. /\ [try[i] EXCEPT !.pc = "CREATE", !.live = Live(Cut(i))] \in Tries
        /\ [try[i] EXCEPT !.pc = "CREATE", !.live = Live(Cut(i))].op = "CUT"
    BY <1>1, <2>1, TryTyped DEF Tries, Pcs, IInv
  <2>. QED
    BY <1>1, <1>4, <2>2, CutGoes
<1>. QED
  BY <1>2, <1>3, <1>4 DEF ReadSiblings

LEMMA CreateCutKeeps ==
  ASSUME IInv, NEW i \in Slots, CreateCut(i)
  PROVE  IInv'
<1>1. try[i].op = "CUT" /\ campaign' = campaign /\ StoredFits(i)
  BY NothingWritten DEF CreateCut, At
<1>2. CASE NoAnswer(i)
  BY <1>1, <1>2, NoAnswerKeeps
<1>3. CASE Goes(i, [try[i] EXCEPT !.pc = "SUPERSEDE"])
  BY <1>1, <1>3, CutSteps DEF Pcs
<1>. QED
  BY <1>2, <1>3 DEF CreateCut

LEMMA SupersedeCutsKeeps ==
  ASSUME IInv, NEW i \in Slots, SupersedeCuts(i)
  PROVE  IInv'
<1>1. try[i].op = "CUT" /\ campaign' = campaign /\ StoredFits(i)
  BY NothingWritten DEF SupersedeCuts, At
<1>2. CASE CutDone(i)
  BY <1>1, <1>2, CutDoneKeeps
<1>3. ASSUME NEW s, Goes(i, [try[i] EXCEPT !.live = @ \ {s}])
      PROVE  IInv'
  <2>1. /\ [try[i] EXCEPT !.live = @ \ {s}] \in Tries
        /\ [try[i] EXCEPT !.live = @ \ {s}].op = "CUT"
    BY <1>1, TryTyped DEF Tries, IInv
  <2>. QED
    BY <1>1, <1>3, <2>1, CutGoes
<1>. QED
  BY <1>2, <1>3 DEF SupersedeCuts

\* A dispatch goes on to a step that finds the attempt unsent if dispatches are prompt,
\* and to noting the job only when there is one.
LEMMA DispatchGoes ==
  ASSUME IInv, campaign' = campaign, NEW i \in Slots, StoredFits(i), try[i].op = "DISPATCH",
         NEW pc \in Pcs, Goes(i, [try[i] EXCEPT !.pc = pc]),
         Prompt => attempt'[Cut(i)][try[i].n] \in {"QUEUED", "NOT_SENT"},
         pc = "NOTE" => job'[Cut(i)][try[i].n] # "NONE"
  PROVE  IInv'
<1>1. /\ try'[i].op = try[i].op /\ Cut(i)' = Cut(i) /\ try'[i].n = try[i].n
      /\ try'[i].pc = pc
      /\ Works(i)' => IInv'
  BY NextPc
<1>2. Works(i)'
  BY <1>1 DEF Works, DispatchWorks, PollWorks, QaWorks, Status
<1>. QED
  BY <1>1, <1>2

LEMMA TakeAttemptKeeps ==
  ASSUME IInv, NEW i \in Slots, TakeAttempt(i)
  PROVE  IInv'
<1>1. /\ try[i].op = "DISPATCH" /\ campaign' = campaign
      /\ UNCHANGED <<agent, job, ledger, rows>>
  BY DEF TakeAttempt, At
<1>2. Cut(i) \in Cuts /\ try[i].n \in Attempts
  BY <1>1, TryTyped, DispatchKey DEF IInv
<1>3. CASE Status(i) = "NONE" /\ Sets(i, "QUEUED") /\ Goes(i, [try[i] EXCEPT !.pc = "RESERVE"])
  <2>1. StoredFits(i) /\ attempt'[Cut(i)][try[i].n] = "QUEUED"
    BY <1>1, <1>3, SetsFits DEF Statuses, Unsent
  <2>. QED
    BY <1>1, <1>3, <2>1, DispatchGoes DEF Pcs
<1>4. CASE Status(i) \in {"QUEUED", "NOT_SENT"} /\ UNCHANGED attempt
           /\ Goes(i, [try[i] EXCEPT !.pc = "RESERVE"])
  <2>1. StoredFits(i) /\ attempt'[Cut(i)][try[i].n] \in {"QUEUED", "NOT_SENT"}
    BY <1>1, <1>4, NothingWritten DEF Status
  <2>. QED
    BY <1>1, <1>4, <2>1, DispatchGoes DEF Pcs
<1>5. CASE Status(i) \notin {"NONE", "QUEUED", "NOT_SENT"} /\ Answers(i, "SUBMITTED")
           /\ UNCHANGED attempt
  <2>1. job'[Cut(i)][try[i].n] # "NONE"
    BY <1>1, <1>2, <1>5 DEF IInv, JobsFit, Unsent, Status
  <2>2. AnswerMeans(i, "SUBMITTED")
    BY <1>1, <2>1 DEF AnswerMeans
  <2>. QED
    BY <1>1, <1>5, <2>2, NothingWritten, AnswersKeeps
<1>. QED
  BY <1>3, <1>4, <1>5 DEF TakeAttempt

\* What a dispatch past its first step finds.
LEMMA DispatchUnsent ==
  ASSUME IInv, NEW i \in Slots, try[i].op = "DISPATCH",
         try[i].pc \in {"RESERVE", "SUBMIT", "NOTE", "UNDO", "FAIL"}
  PROVE  /\ Cut(i) \in Cuts /\ try[i].n \in Attempts
         /\ Status(i) = attempt[Cut(i)][try[i].n]
         /\ try[i].pc = "NOTE" => job[Cut(i)][try[i].n] # "NONE"
         /\ Prompt =>
              /\ attempt[Cut(i)][try[i].n] \in {"QUEUED", "NOT_SENT"}
              /\ \A m \in Attempts : m < try[i].n => job[Cut(i)][m] = "FAILED"
<1>1. /\ Cut(i) \in Cuts /\ try[i].n \in Attempts
      /\ Prompt => Cut(i) = Current /\ try[i].n = child.n
  BY TryTyped, DispatchKey DEF IInv
<1>2. Works(i)
  BY DEF IInv, TriesFit
<1>. QED
  BY <1>1, <1>2 DEF Works, DispatchWorks, Status, IInv, ChildFits, ChildStands

LEMMA ReserveKeeps ==
  ASSUME IInv, NEW i \in Slots, Reserve(i)
  PROVE  IInv'
<1>1. /\ try[i].op = "DISPATCH" /\ try[i].pc = "RESERVE" /\ campaign' = campaign
      /\ UNCHANGED <<agent, attempt, job, rows>>
  BY DEF Reserve, At
<1>2. /\ try[i].n \in Attempts
      /\ Prompt => attempt'[Cut(i)][try[i].n] \in {"QUEUED", "NOT_SENT"}
  BY <1>1, DispatchUnsent
<1>3. CASE Enters(i, "RESERVED") /\ Goes(i, [try[i] EXCEPT !.pc = "SUBMIT"])
  <2>1. StoredFits(i)
    BY <1>1, <1>2, <1>3, EntersFits
  <2>. QED
    BY <1>1, <1>2, <1>3, <2>1, DispatchGoes DEF Pcs
<1>4. CASE UNCHANGED ledger /\ Goes(i, [try[i] EXCEPT !.pc = "FAIL"])
  BY <1>1, <1>2, <1>4, NothingWritten, DispatchGoes DEF Pcs
<1>. QED
  BY <1>3, <1>4 DEF Reserve

LEMMA SubmitRenderKeeps ==
  ASSUME IInv, NEW i \in Slots, SubmitRender(i)
  PROVE  IInv'
<1>1. /\ try[i].op = "DISPATCH" /\ try[i].pc = "SUBMIT" /\ campaign' = campaign
      /\ UNCHANGED <<agent, attempt, ledger, rows>>
  BY DEF SubmitRender, At
<1>2. /\ try[i].n \in Attempts
      /\ Prompt => attempt'[Cut(i)][try[i].n] \in {"QUEUED", "NOT_SENT"}
      /\ Prompt => \A m \in Attempts : m < try[i].n => job[Cut(i)][m] = "FAILED"
      /\ Cut(i) \in Cuts
  BY <1>1, DispatchUnsent
<1>3. CASE /\ job' = [job EXCEPT ![Cut(i)][try[i].n] = IF @ = "NONE" THEN "RUNNING" ELSE @]
           /\ Goes(i, [try[i] EXCEPT !.pc = "NOTE"])
  <2>1. PICK s : s = IF job[Cut(i)][try[i].n] = "NONE" THEN "RUNNING" ELSE job[Cut(i)][try[i].n]
    OBVIOUS
  <2>2. /\ s \in JobStatuses \ {"NONE"}
        /\ job[Cut(i)][try[i].n] \in Ended => s = job[Cut(i)][try[i].n]
    BY <1>2, <2>1 DEF IInv, TypesFit, StoredOK, JobStatuses, Ended
  <2>3. job' = [job EXCEPT ![Cut(i)][try[i].n] = s]
    BY <1>3, <2>1
  <2>4. StoredFits(i) /\ job'[Cut(i)][try[i].n] = s
    BY <1>1, <1>2, <2>2, <2>3, JobFits
  <2>. QED
    BY <1>1, <1>2, <1>3, <2>2, <2>4, DispatchGoes DEF Pcs
<1>4. CASE UNCHANGED job /\ Goes(i, [try[i] EXCEPT !.pc = "UNDO"])
  BY <1>1, <1>2, <1>4, NothingWritten, DispatchGoes DEF Pcs
<1>. QED
  BY <1>3, <1>4 DEF SubmitRender

LEMMA NoteJobKeeps ==
  ASSUME IInv, NEW i \in Slots, NoteJob(i)
  PROVE  IInv'
<1>1. /\ try[i].op = "DISPATCH" /\ try[i].pc = "NOTE" /\ campaign' = campaign
      /\ UNCHANGED <<agent, job, ledger, rows>>
  BY DEF NoteJob, At
<1>2. /\ try[i].n \in Attempts /\ job[Cut(i)][try[i].n] # "NONE"
      /\ Prompt => attempt[Cut(i)][try[i].n] \in {"QUEUED", "NOT_SENT"}
  BY <1>1, DispatchUnsent
<1>3. CASE Sets(i, "SUBMITTED") /\ Answers(i, "SUBMITTED")
  <2>1. StoredFits(i)
    BY <1>1, <1>2, <1>3, SetsFits DEF Statuses, Unsent
  <2>2. AnswerMeans(i, "SUBMITTED")
    BY <1>1, <1>2 DEF AnswerMeans
  <2>. QED
    BY <1>1, <1>3, <2>1, <2>2, AnswersKeeps
<1>4. CASE UNCHANGED attempt /\ Goes(i, [try[i] EXCEPT !.pc = "UNDO"])
  BY <1>1, <1>2, <1>4, NothingWritten, DispatchGoes DEF Pcs
<1>. QED
  BY <1>3, <1>4 DEF NoteJob

LEMMA ReleaseDispatchKeeps ==
  ASSUME IInv, NEW i \in Slots, ReleaseDispatch(i)
  PROVE  IInv'
<1>1. /\ try[i].op = "DISPATCH" /\ try[i].pc = "UNDO" /\ campaign' = campaign
      /\ UNCHANGED <<agent, attempt, job, rows>> /\ Enters(i, "RELEASED")
      /\ Goes(i, [try[i] EXCEPT !.pc = "FAIL"])
  BY DEF ReleaseDispatch, At
<1>2. /\ try[i].n \in Attempts
      /\ Prompt => attempt'[Cut(i)][try[i].n] \in {"QUEUED", "NOT_SENT"}
  BY <1>1, DispatchUnsent
<1>3. StoredFits(i)
  BY <1>1, <1>2, EntersFits
<1>. QED
  BY <1>1, <1>2, <1>3, DispatchGoes DEF Pcs

LEMMA FailDispatchKeeps ==
  ASSUME IInv, NEW i \in Slots, FailDispatch(i)
  PROVE  IInv'
<1>1. /\ try[i].op = "DISPATCH" /\ try[i].pc = "FAIL" /\ campaign' = campaign
      /\ UNCHANGED <<agent, job, ledger, rows>> /\ Answers(i, "FAILED")
  BY DEF FailDispatch, At
<1>2. PICK status : status = IF Status(i) \in Unsent THEN "NOT_SENT" ELSE "FAILED"
  OBVIOUS
<1>3. Sets(i, status) /\ status \in Statuses /\ status # "SUCCEEDED"
  BY <1>2 DEF FailDispatch, Unsent, Statuses, Ended
<1>4. Prompt => status = "NOT_SENT"
  BY <1>1, <1>2, DispatchUnsent DEF Unsent
<1>5. status \notin Unsent => job[Cut(i)][try[i].n] # "NONE"
  BY <1>1, <1>2, DispatchUnsent DEF IInv, JobsFit, Unsent
<1>6. StoredFits(i)
  BY <1>1, <1>3, <1>4, <1>5, SetsFits
<1>. QED
  BY <1>1, <1>6, AnswersKeeps DEF AnswerMeans

\* What a poll finds.
LEMMA PollFinds ==
  ASSUME IInv, NEW i \in Slots, try[i].op \in {"POLL", "CANCEL"}
  PROVE  /\ Cut(i) \in Cuts /\ try[i].n \in Attempts
         /\ job[Cut(i)][try[i].n] \in JobStatuses \ {"NONE"}
         /\ Prompt => \A m \in Attempts : m < try[i].n => job[Cut(i)][m] = "FAILED"
         /\ Status(i) = attempt[Cut(i)][try[i].n]
         /\ try[i].op = "POLL" => PollWorks(i)
<1>1. /\ Cut(i) \in Cuts /\ try[i].n \in Attempts /\ job[Cut(i)][try[i].n] # "NONE"
  BY TryTyped, PollKey DEF IInv
<1>2. job[Cut(i)][try[i].n] \in JobStatuses
  BY <1>1 DEF IInv, TypesFit, StoredOK
<1>3. Prompt => \A m \in Attempts : m < try[i].n => job[Cut(i)][m] = "FAILED"
  BY <1>1 DEF IInv, JobsFit
<1>. QED
  BY <1>1, <1>2, <1>3 DEF Status, IInv, TriesFit, Works

\* What a poll that goes on carries with it.
PollCarries(i, pc, saw, row) ==
  /\ pc = "AGAIN" =>
       /\ job'[Cut(i)][try[i].n] = "SUCCEEDED"
       /\ {"CHARGED", "RELEASED"} \subseteq ledger'[Cut(i)][try[i].n]
  /\ pc \in {"RELEASE", "END", "ROW", "CREATE_ROW", "MARK", "CHARGE"} =>
       saw \in Ended /\ job'[Cut(i)][try[i].n] = saw
  /\ pc \in {"RELEASE", "END"} /\ saw = "SUCCEEDED" => "CHARGED" \in ledger'[Cut(i)][try[i].n]
  /\ pc = "END" => "RELEASED" \in ledger'[Cut(i)][try[i].n]
  /\ pc = "CHARGE" => saw = "SUCCEEDED"
  /\ pc = "MARK" => row \in DOMAIN rows'[Cut(i)]

LEMMA PollGoes ==
  ASSUME IInv, campaign' = campaign, NEW i \in Slots, StoredFits(i), try[i].op = "POLL",
         NEW r \in Tries, Goes(i, r), r.op = "POLL", r.cut = Cut(i), r.n = try[i].n,
         PollCarries(i, r.pc, r.saw, r.row)
  PROVE  IInv'
<1>1. try'[i] = r /\ Cut(i)' = Cut(i)
  BY TryType DEF Goes, IInv, Cut
<1>2. Works(i)'
  BY <1>1 DEF Works, DispatchWorks, PollWorks, QaWorks, Delivered, PollCarries
<1>. QED
  BY <1>2, GoesKeeps

LEMMA PollSteps ==
  ASSUME IInv, campaign' = campaign, NEW i \in Slots, StoredFits(i), try[i].op = "POLL",
         NEW pc \in Pcs, Goes(i, [try[i] EXCEPT !.pc = pc]),
         PollCarries(i, pc, try[i].saw, try[i].row)
  PROVE  IInv'
<1>1. /\ try'[i].op = try[i].op /\ Cut(i)' = Cut(i) /\ try'[i].n = try[i].n
      /\ try'[i].pc = pc /\ try'[i].saw = try[i].saw /\ try'[i].row = try[i].row
      /\ Works(i)' => IInv'
  BY NextPc
<1>2. Works(i)'
  BY <1>1 DEF Works, DispatchWorks, PollWorks, QaWorks, Delivered, PollCarries
<1>. QED
  BY <1>1, <1>2

LEMMA ReadAttemptKeeps ==
  ASSUME IInv, NEW i \in Slots, ReadAttempt(i)
  PROVE  IInv'
<1>1. /\ try[i].op = "POLL" /\ campaign' = campaign /\ UNCHANGED stored
  BY DEF ReadAttempt, At
<1>2. StoredFits(i)
  BY <1>1, NothingWritten DEF stored
<1>3. Cut(i) \in Cuts /\ try[i].n \in Attempts /\ Status(i) = attempt[Cut(i)][try[i].n]
  BY <1>1, PollFinds
<1>4. CASE Status(i) = "SUCCEEDED" /\ Goes(i, [try[i] EXCEPT !.pc = "AGAIN"])
  <2>1. Delivered(Cut(i), try[i].n)
    BY <1>3, <1>4 DEF IInv, JobsFit
  <2>2. PollCarries(i, "AGAIN", try[i].saw, try[i].row)
    BY <2>1, <1>1 DEF PollCarries, Delivered, stored
  <2>. QED
    BY <1>1, <1>2, <1>4, <2>2, PollSteps DEF Pcs
<1>5. CASE Status(i) # "SUCCEEDED" /\ Answers(i, Status(i))
  <2>1. Prompt /\ Status(i) = "FAILED" => job'[Cut(i)][try[i].n] = "FAILED"
    BY <1>1, <1>3 DEF IInv, JobsFit, stored
  <2>2. AnswerMeans(i, Status(i))
    BY <2>1, <1>1, <1>5 DEF AnswerMeans
  <2>. QED
    BY <1>1, <1>2, <1>5, <2>2, AnswersKeeps
<1>6. CASE Goes(i, [try[i] EXCEPT !.pc = "STATUS"])
  BY <1>1, <1>2, <1>6, PollSteps DEF Pcs, PollCarries
<1>. QED
  BY <1>4, <1>5, <1>6 DEF ReadAttempt

LEMMA AnswerSucceededKeeps ==
  ASSUME IInv, NEW i \in Slots, AnswerSucceeded(i)
  PROVE  IInv'
<1>1. /\ try[i].op = "POLL" /\ try[i].pc = "AGAIN" /\ campaign' = campaign
      /\ UNCHANGED <<agent, attempt, job, ledger>> /\ Answers(i, "SUCCEEDED")
  BY DEF AnswerSucceeded, At
<1>2. PICK r \in DOMAIN rows[Cut(i)] :
        rows' = IF rows[Cut(i)][r].asset # 0 THEN rows
                ELSE [rows EXCEPT ![Cut(i)][r] = [status |-> "RENDERING", asset |-> try[i].n]]
  BY DEF AnswerSucceeded
<1>3. Cut(i) \in Cuts /\ try[i].n \in Attempts /\ Delivered(Cut(i), try[i].n)
  BY <1>1, PollFinds DEF PollWorks
<1>4. StoredFits(i)
  <2>1. CASE rows' = rows
    BY <2>1, <1>1, NothingWritten
  <2>2. CASE rows[Cut(i)][r].asset = 0
    <3> DEFINE row == [status |-> "RENDERING", asset |-> try[i].n]
    <3>1. row \in RowRecords
      BY <1>3, Constants DEF RowRecords, Attempts
    <3>2. rows' = [rows EXCEPT ![Cut(i)] = [rows[Cut(i)] EXCEPT ![r] = row]]
      BY <1>2, <2>2
    <3>3. RowFits(Cut(i), row)
      BY <1>3 DEF RowFits, Delivered
    <3>4. row.asset # 0
      BY <1>3, Constants DEF Attempts
    <3> HIDE DEF row
    <3>. QED
      BY <1>1, <3>1, <3>2, <3>3, <3>4, RowSet
  <2>. QED
    BY <2>1, <2>2, <1>2
<1>5. ASSUME NEW c, c = Cut(i) PROVE Paid(c)'
  <2>1. \E n \in Attempts : Delivered(c, n)'
    <3>1. PICK n : n = try[i].n
      OBVIOUS
    <3>2. job'[c][n] = "SUCCEEDED" /\ {"CHARGED", "RELEASED"} \subseteq ledger'[c][n]
      BY <1>1, <1>3, <1>5, <3>1 DEF Delivered
    <3>. QED
      BY <3>1, <3>2, <1>3 DEF Delivered
  <2>. QED
    BY <2>1 DEF Paid
<1>6. AnswerMeans(i, "SUCCEEDED")
  BY <1>1, <1>5 DEF AnswerMeans
<1>. QED
  BY <1>1, <1>4, <1>6, AnswersKeeps

LEMMA ShowsType ==
  ASSUME NEW s \in JobStatuses \ {"NONE"}, NEW t \in Shows(s)
  PROVE  t \in JobStatuses \ {"NONE"} /\ (s \in Ended => t = s)
BY Constants DEF Shows, JobStatuses, Ended

LEMMA AskProviderKeeps ==
  ASSUME IInv, NEW i \in Slots, AskProvider(i)
  PROVE  IInv'
<1>1. /\ try[i].op = "POLL" /\ campaign' = campaign
      /\ UNCHANGED <<agent, attempt, ledger, rows>>
  BY DEF AskProvider, At
<1>2. PICK status \in Shows(job[Cut(i)][try[i].n]) :
        /\ job' = [job EXCEPT ![Cut(i)][try[i].n] = status]
        /\ Goes(i, [try[i] EXCEPT !.saw = status,
                                  !.pc = CASE status = "RUNNING" -> "NOTE"
                                           [] status = "SUCCEEDED" -> "ROW"
                                           [] OTHER -> "RELEASE"])
  BY DEF AskProvider
<1>3. /\ try[i].n \in Attempts /\ job[Cut(i)][try[i].n] \in JobStatuses \ {"NONE"}
      /\ Prompt => \A m \in Attempts : m < try[i].n => job[Cut(i)][m] = "FAILED"
  BY <1>1, PollFinds
<1>4. /\ status \in JobStatuses \ {"NONE"}
      /\ job[Cut(i)][try[i].n] \in Ended => status = job[Cut(i)][try[i].n]
  BY <1>3, ShowsType
<1>5. StoredFits(i) /\ job'[Cut(i)][try[i].n] = status
  BY <1>1, <1>2, <1>3, <1>4, JobFits
<1>6. PICK pc : pc = CASE status = "RUNNING" -> "NOTE" [] status = "SUCCEEDED" -> "ROW"
                       [] OTHER -> "RELEASE"
  OBVIOUS
<1> DEFINE r == [try[i] EXCEPT !.saw = status, !.pc = pc]
<1>7. Goes(i, r)
  BY <1>2, <1>6
<1>8. pc \in Pcs /\ (status = "RUNNING" => pc = "NOTE") /\ (status = "SUCCEEDED" => pc = "ROW")
      /\ (status \notin {"RUNNING", "SUCCEEDED"} => pc = "RELEASE")
  BY <1>6 DEF Pcs
<1>9. /\ r \in Tries /\ r.op = "POLL" /\ r.cut = Cut(i) /\ r.n = try[i].n /\ r.pc = pc
      /\ r.saw = status
  BY <1>1, <1>4, <1>8, TryTyped DEF Tries, IInv, Cut
<1>10. PollCarries(i, r.pc, r.saw, r.row)
  <2>1. pc \in {"NOTE", "ROW", "RELEASE"} /\ (pc # "NOTE" => status \in Ended)
        /\ (pc = "RELEASE" => status # "SUCCEEDED")
    BY <1>4, <1>8 DEF JobStatuses, Ended
  <2>. QED
    BY <2>1, <1>5, <1>9 DEF PollCarries
<1> HIDE DEF r
<1>. QED
  BY <1>1, <1>5, <1>7, <1>9, <1>10, PollGoes

LEMMA NoteRunningKeeps ==
  ASSUME IInv, NEW i \in Slots, NoteRunning(i)
  PROVE  IInv'
<1>1. /\ try[i].op = "POLL" /\ campaign' = campaign /\ Sets(i, "SUBMITTED")
      /\ UNCHANGED <<agent, job, ledger, rows>> /\ Answers(i, "RUNNING")
  BY DEF NoteRunning, At
<1>2. StoredFits(i)
  BY <1>1, PollFinds, SetsFits DEF Statuses
<1>. QED
  BY <1>1, <1>2, AnswersKeeps DEF AnswerMeans

LEMMA FindRowKeeps ==
  ASSUME IInv, NEW i \in Slots, FindRow(i)
  PROVE  IInv'
<1>1. /\ try[i].op = "POLL" /\ try[i].pc = "ROW" /\ campaign' = campaign /\ UNCHANGED stored
  BY DEF FindRow, At
<1>2. StoredFits(i)
  BY <1>1, NothingWritten DEF stored
<1>3. try[i].saw \in Ended /\ job'[Cut(i)][try[i].n] = try[i].saw
  BY <1>1, PollFinds DEF PollWorks, stored
<1>4. CASE Goes(i, [try[i] EXCEPT !.pc = "CREATE_ROW"])
  BY <1>1, <1>2, <1>3, <1>4, PollSteps DEF Pcs, PollCarries
<1>5. ASSUME NEW r \in DOMAIN rows[Cut(i)], Goes(i, [try[i] EXCEPT !.row = r, !.pc = "MARK"])
      PROVE  IInv'
  <2> DEFINE t == [try[i] EXCEPT !.row = r, !.pc = "MARK"]
  <2>1. r \in Nat
    <3>1. rows[Cut(i)] \in Seq(RowRecords)
      BY TryTyped DEF IInv, TypesFit, StoredOK
    <3>. QED
      BY <3>1
  <2>2. /\ t \in Tries /\ t.op = "POLL" /\ t.cut = Cut(i) /\ t.n = try[i].n /\ t.pc = "MARK"
        /\ t.saw = try[i].saw /\ t.row = r
    BY <1>1, <2>1, TryTyped DEF Tries, IInv, Cut, Pcs
  <2>3. PollCarries(i, t.pc, t.saw, t.row)
    BY <1>1, <1>3, <1>5, <2>2 DEF PollCarries, stored
  <2>4. Goes(i, t)
    BY <1>5
  <2> HIDE DEF t
  <2>. QED
    BY <1>1, <1>2, <2>2, <2>3, <2>4, PollGoes
<1>. QED
  BY <1>4, <1>5 DEF FindRow

LEMMA CreateRowKeeps ==
  ASSUME IInv, NEW i \in Slots, CreateRow(i)
  PROVE  IInv'
<1> DEFINE c == Cut(i)
           row == [status |-> "PENDING", asset |-> 0]
           q == Append(rows[c], row)
           t == [try[i] EXCEPT !.row = Len(rows[c]) + 1, !.pc = "MARK"]
<1>1. /\ try[i].op = "POLL" /\ try[i].pc = "CREATE_ROW" /\ campaign' = campaign
      /\ UNCHANGED <<agent, attempt, job, ledger>> /\ Goes(i, t)
  BY DEF CreateRow, At
<1>2. try[i].saw \in Ended /\ job'[c][try[i].n] = try[i].saw /\ c \in Cuts
  BY <1>1, PollFinds DEF PollWorks
<1>3. rows[c] \in Seq(RowRecords) /\ row \in RowRecords
  <2>1. rows[c] \in Seq(RowRecords)
    BY <1>2 DEF IInv, TypesFit, StoredOK
  <2>2. row \in RowRecords
    BY Constants DEF RowRecords
  <2>. QED
    BY <2>1, <2>2
<1>4. /\ q \in Seq(RowRecords) /\ Len(q) = Len(rows[c]) + 1
      /\ \A r \in 1 .. Len(rows[c]) : q[r] = rows[c][r]
      /\ q[Len(rows[c]) + 1] = row
      /\ DOMAIN q = 1 .. Len(rows[c]) + 1 /\ DOMAIN rows[c] = 1 .. Len(rows[c])
      /\ Len(rows[c]) \in Nat
  BY <1>3
<1>5. rows' = [rows EXCEPT ![c] = q]
  BY DEF CreateRow
<1>6. \A r \in DOMAIN rows[c] : r \in DOMAIN q /\ (rows[c][r].asset # 0 => q[r].asset # 0)
  BY <1>4
<1>7. \A r \in DOMAIN q : RowFits(c, q[r])
  <2>1. RowFits(c, row)
    BY DEF RowFits
  <2>2. \A r \in DOMAIN rows[c] : RowFits(c, rows[c][r])
    BY <1>2, RowType
  <2>. QED
    BY <2>1, <2>2, <1>4
<1>8. /\ t \in Tries /\ t.op = "POLL" /\ t.cut = c /\ t.n = try[i].n /\ t.pc = "MARK"
      /\ t.saw = try[i].saw /\ t.row = Len(rows[c]) + 1
  <2>1. try[i] \in Tries /\ Len(rows[c]) + 1 \in Nat /\ "MARK" \in Pcs
    BY <1>4, TryTyped DEF IInv, Pcs
  <2>2. PICK k \in Nat : k = Len(rows[c]) + 1
    BY <2>1
  <2>. QED
    BY <1>1, <2>1, <2>2 DEF Tries, Cut
<1> HIDE DEF q, row
<1>9. StoredFits(i) /\ rows'[c] = q
  BY <1>1, <1>4, <1>5, <1>6, <1>7, RowsWritten
<1>10. PollCarries(i, t.pc, t.saw, t.row)
  BY <1>2, <1>4, <1>8, <1>9 DEF PollCarries
<1> HIDE DEF t
<1>. QED
  BY <1>1, <1>8, <1>9, <1>10, PollGoes

LEMMA MarkRowKeeps ==
  ASSUME IInv, NEW i \in Slots, MarkRow(i)
  PROVE  IInv'
<1> DEFINE c == Cut(i)
           r == try[i].row
<1>1. /\ try[i].op = "POLL" /\ try[i].pc = "MARK" /\ campaign' = campaign
      /\ UNCHANGED <<agent, attempt, job, ledger>>
  BY DEF MarkRow, At
<1>2. /\ try[i].saw \in Ended /\ job[c][try[i].n] = try[i].saw /\ c \in Cuts
      /\ r \in DOMAIN rows[c] /\ try[i].n \in Attempts
  BY <1>1, PollFinds DEF PollWorks
<1>3. CASE try[i].saw = "SUCCEEDED"
  <2> DEFINE row == [status |-> "RENDERING", asset |-> try[i].n]
  <2>1. /\ rows' = [rows EXCEPT ![c] = [rows[c] EXCEPT ![r] = row]]
        /\ Goes(i, [try[i] EXCEPT !.pc = "CHARGE"])
    BY <1>3 DEF MarkRow
  <2>2. row \in RowRecords /\ row.asset # 0
    BY <1>2, Constants DEF RowRecords, Attempts
  <2>3. RowFits(c, row)
    BY <1>2, <1>3 DEF RowFits
  <2> HIDE DEF row
  <2>4. StoredFits(i)
    BY <1>1, <1>2, <2>1, <2>2, <2>3, RowSet
  <2>. QED
    BY <1>1, <1>2, <1>3, <2>1, <2>4, PollSteps DEF Pcs, PollCarries
<1>4. CASE try[i].saw # "SUCCEEDED"
  <2> DEFINE row == [rows[c][r] EXCEPT !.status = "FAILED"]
  <2>1. rows' = [rows EXCEPT ![c][r].status = "FAILED"] /\ Answers(i, try[i].saw)
    BY <1>4 DEF MarkRow
  <2>2. rows' = [rows EXCEPT ![c] = [rows[c] EXCEPT ![r] = row]]
    BY <2>1
  <2>3. /\ rows[c][r] \in RowRecords /\ RowFits(c, rows[c][r])
    BY <1>2, RowType
  <2>4. row \in RowRecords /\ row.asset = rows[c][r].asset /\ row.status = "FAILED"
    BY <2>3 DEF RowRecords
  <2>5. RowFits(c, row)
    BY <2>3, <2>4 DEF RowFits
  <2> HIDE DEF row
  <2>6. StoredFits(i)
    BY <1>1, <1>2, <2>2, <2>4, <2>5, RowSet
  <2>7. AnswerMeans(i, try[i].saw)
    BY <1>1, <1>2, <1>4 DEF AnswerMeans
  <2>. QED
    BY <1>1, <2>1, <2>6, <2>7, AnswersKeeps
<1>. QED
  BY <1>3, <1>4

LEMMA ChargeRenderKeeps ==
  ASSUME IInv, NEW i \in Slots, ChargeRender(i)
  PROVE  IInv'
<1>1. /\ try[i].op = "POLL" /\ try[i].pc = "CHARGE" /\ campaign' = campaign
      /\ UNCHANGED <<agent, attempt, job, rows>> /\ Enters(i, "CHARGED")
      /\ Goes(i, [try[i] EXCEPT !.pc = "RELEASE"])
  BY DEF ChargeRender, At
<1>2. try[i].saw \in Ended /\ job'[Cut(i)][try[i].n] = try[i].saw /\ try[i].n \in Attempts
  BY <1>1, PollFinds DEF PollWorks
<1>3. StoredFits(i) /\ "CHARGED" \in ledger'[Cut(i)][try[i].n]
  BY <1>1, <1>2, EntersFits
<1>. QED
  BY <1>1, <1>2, <1>3, PollSteps DEF Pcs, PollCarries

LEMMA ReleaseRenderKeeps ==
  ASSUME IInv, NEW i \in Slots, ReleaseRender(i)
  PROVE  IInv'
<1>1. /\ try[i].op = "POLL" /\ try[i].pc = "RELEASE" /\ campaign' = campaign
      /\ UNCHANGED <<agent, attempt, job, rows>> /\ Enters(i, "RELEASED")
      /\ Goes(i, [try[i] EXCEPT !.pc = "END"])
  BY DEF ReleaseRender, At
<1>2. /\ try[i].saw \in Ended /\ job'[Cut(i)][try[i].n] = try[i].saw /\ try[i].n \in Attempts
      /\ try[i].saw = "SUCCEEDED" => "CHARGED" \in ledger[Cut(i)][try[i].n]
  BY <1>1, PollFinds DEF PollWorks
<1>3. /\ StoredFits(i) /\ "RELEASED" \in ledger'[Cut(i)][try[i].n]
      /\ try[i].saw = "SUCCEEDED" => "CHARGED" \in ledger'[Cut(i)][try[i].n]
  BY <1>1, <1>2, EntersFits
<1>. QED
  BY <1>1, <1>2, <1>3, PollSteps DEF Pcs, PollCarries

LEMMA EndAttemptKeeps ==
  ASSUME IInv, NEW i \in Slots, EndAttempt(i)
  PROVE  IInv'
<1>1. /\ try[i].op = "POLL" /\ try[i].pc = "END" /\ campaign' = campaign
      /\ UNCHANGED <<agent, job, ledger, rows>> /\ Sets(i, try[i].saw)
  BY DEF EndAttempt, At
<1>2. /\ try[i].saw \in Ended /\ job[Cut(i)][try[i].n] = try[i].saw /\ try[i].n \in Attempts
      /\ try[i].saw = "SUCCEEDED" => "CHARGED" \in ledger[Cut(i)][try[i].n]
      /\ "RELEASED" \in ledger[Cut(i)][try[i].n] /\ Cut(i) \in Cuts
  BY <1>1, PollFinds DEF PollWorks
<1>3. try[i].saw = "SUCCEEDED" => Delivered(Cut(i), try[i].n)
  BY <1>2 DEF Delivered
<1>4. try[i].saw \in Statuses /\ try[i].saw # "NONE"
  BY <1>2 DEF Statuses, Ended
<1>5. StoredFits(i)
  BY <1>1, <1>2, <1>3, <1>4, SetsFits DEF Ended
<1>6. CASE try[i].saw \in {"SUCCEEDED", "CANCELLED"} /\ Answers(i, try[i].saw)
  <2>1. ASSUME NEW d, d = Cut(i), try[i].saw = "SUCCEEDED" PROVE Paid(d)'
    <3>1. PICK n : n = try[i].n
      OBVIOUS
    <3>2. n \in Attempts /\ job'[d][n] = "SUCCEEDED" /\ {"CHARGED", "RELEASED"} \subseteq ledger'[d][n]
      BY <1>1, <1>2, <1>3, <2>1, <3>1 DEF Delivered
    <3>. QED
      BY <3>2 DEF Paid, Delivered
  <2>2. AnswerMeans(i, try[i].saw)
    BY <1>1, <1>2, <1>6, <2>1 DEF AnswerMeans
  <2>. QED
    BY <1>1, <1>5, <1>6, <2>2, AnswersKeeps
<1>7. CASE Goes(i, [try[i] EXCEPT !.pc = "ROW"])
  BY <1>1, <1>2, <1>5, <1>7, PollSteps DEF Pcs, PollCarries
<1>. QED
  BY <1>6, <1>7 DEF EndAttempt

LEMMA CancelSteps ==
  ASSUME IInv, campaign' = campaign, NEW i \in Slots, StoredFits(i), try[i].op = "CANCEL",
         NEW pc \in Pcs, Goes(i, [try[i] EXCEPT !.pc = pc])
  PROVE  IInv'
<1>1. /\ try'[i].op = try[i].op
      /\ Works(i)' => IInv'
  BY NextPc
<1>2. Works(i)'
  BY <1>1 DEF Works, DispatchWorks, PollWorks, QaWorks
<1>. QED
  BY <1>1, <1>2

LEMMA ReadForCancelKeeps ==
  ASSUME IInv, NEW i \in Slots, ReadForCancel(i)
  PROVE  IInv'
<1>1. try[i].op = "CANCEL" /\ campaign' = campaign /\ StoredFits(i)
  BY NothingWritten DEF ReadForCancel, At, stored
<1>2. CASE Answers(i, "NOT_CANCELLED")
  BY <1>1, <1>2, AnswersKeeps DEF AnswerMeans
<1>3. CASE Goes(i, [try[i] EXCEPT !.pc = "STOP"])
  BY <1>1, <1>3, CancelSteps DEF Pcs
<1>. QED
  BY <1>2, <1>3 DEF ReadForCancel

LEMMA StopJobKeeps ==
  ASSUME IInv, NEW i \in Slots, StopJob(i)
  PROVE  IInv'
<1>1. /\ try[i].op = "CANCEL" /\ campaign' = campaign /\ Goes(i, [try[i] EXCEPT !.pc = "UNDO"])
      /\ UNCHANGED <<agent, attempt, ledger, rows>>
  BY DEF StopJob, At
<1>2. PICK status \in Shows(job[Cut(i)][try[i].n]) :
        job' = [job EXCEPT ![Cut(i)][try[i].n] =
                  IF status = "RUNNING" THEN "CANCELLED" ELSE status]
  BY DEF StopJob
<1>3. /\ try[i].n \in Attempts /\ job[Cut(i)][try[i].n] \in JobStatuses \ {"NONE"}
      /\ Prompt => \A m \in Attempts : m < try[i].n => job[Cut(i)][m] = "FAILED"
  BY <1>1, PollFinds
<1>4. PICK s : s = IF status = "RUNNING" THEN "CANCELLED" ELSE status
  OBVIOUS
<1>5. /\ s \in JobStatuses \ {"NONE"}
      /\ job[Cut(i)][try[i].n] \in Ended => s = job[Cut(i)][try[i].n]
  <2>1. /\ status \in JobStatuses \ {"NONE"}
        /\ job[Cut(i)][try[i].n] \in Ended => status = job[Cut(i)][try[i].n]
    BY <1>3, ShowsType
  <2>. QED
    BY <2>1, <1>4 DEF JobStatuses, Ended
<1>6. job' = [job EXCEPT ![Cut(i)][try[i].n] = s]
  BY <1>2, <1>4
<1>7. StoredFits(i)
  BY <1>1, <1>3, <1>5, <1>6, JobFits
<1>. QED
  BY <1>1, <1>7, CancelSteps DEF Pcs

LEMMA ReleaseCancelledKeeps ==
  ASSUME IInv, NEW i \in Slots, ReleaseCancelled(i)
  PROVE  IInv'
<1>1. /\ try[i].op = "CANCEL" /\ campaign' = campaign /\ Goes(i, [try[i] EXCEPT !.pc = "END"])
      /\ UNCHANGED <<agent, attempt, job, rows>> /\ Enters(i, "RELEASED")
  BY DEF ReleaseCancelled, At
<1>2. StoredFits(i)
  BY <1>1, PollFinds, EntersFits
<1>. QED
  BY <1>1, <1>2, CancelSteps DEF Pcs

LEMMA CancelAttemptKeeps ==
  ASSUME IInv, NEW i \in Slots, CancelAttempt(i)
  PROVE  IInv'
<1>1. /\ try[i].op = "CANCEL" /\ campaign' = campaign /\ Answers(i, "CANCELLED")
      /\ UNCHANGED <<agent, job, ledger, rows>> /\ Sets(i, "CANCELLED")
  BY DEF CancelAttempt, At
<1>2. StoredFits(i)
  BY <1>1, PollFinds, SetsFits DEF Statuses, Ended
<1>. QED
  BY <1>1, <1>2, AnswersKeeps DEF AnswerMeans

\* What the QA re-run holds of its row and of the verdict.
QaCarries(i, pc, row) ==
  /\ pc \in {"JUDGE", "WRITE"} =>
       row \in DOMAIN rows'[Cut(i)] /\ rows'[Cut(i)][row].asset # 0
  /\ pc = "WRITE" => agent'[Cut(i)].qa \in {"PASS", "FAIL"}

LEMMA QaSteps ==
  ASSUME IInv, campaign' = campaign, NEW i \in Slots, StoredFits(i), try[i].op = "QA",
         NEW pc \in Pcs, Goes(i, [try[i] EXCEPT !.pc = pc]), QaCarries(i, pc, try[i].row)
  PROVE  IInv'
<1>1. /\ try'[i].op = try[i].op /\ Cut(i)' = Cut(i) /\ try'[i].pc = pc
      /\ try'[i].row = try[i].row
      /\ Works(i)' => IInv'
  BY NextPc
<1>2. Works(i)'
  BY <1>1 DEF Works, DispatchWorks, PollWorks, QaWorks, QaCarries
<1>. QED
  BY <1>1, <1>2

LEMMA QaFinds ==
  ASSUME IInv, NEW i \in Slots, try[i].op = "QA"
  PROVE  Cut(i) \in Cuts /\ Paid(Cut(i)) /\ QaWorks(i)
BY TryTyped DEF IInv, TriesFit, Called, Works

LEMMA ReadVariantKeeps ==
  ASSUME IInv, NEW i \in Slots, ReadVariant(i)
  PROVE  IInv'
<1>1. try[i].op = "QA" /\ campaign' = campaign /\ UNCHANGED stored /\ StoredFits(i)
  BY NothingWritten DEF ReadVariant, At, stored
<1>2. CASE Answers(i, "NOT_RUN")
  BY <1>1, <1>2, AnswersKeeps DEF AnswerMeans
<1>3. ASSUME NEW r \in DOMAIN rows[Cut(i)], rows[Cut(i)][r].asset # 0,
             Goes(i, [try[i] EXCEPT !.row = r, !.pc = "JUDGE"])
      PROVE  IInv'
  <2> DEFINE t == [try[i] EXCEPT !.row = r, !.pc = "JUDGE"]
  <2>1. rows[Cut(i)] \in Seq(RowRecords) /\ r \in Nat
    <3>1. rows[Cut(i)] \in Seq(RowRecords)
      BY TryTyped DEF IInv, TypesFit, StoredOK
    <3>. QED
      BY <3>1
  <2>2. /\ t \in Tries /\ t.op = "QA" /\ t.cut = Cut(i) /\ t.n = try[i].n /\ t.pc = "JUDGE"
        /\ t.row = r
    BY <1>1, <2>1, TryTyped DEF Tries, IInv, Cut, Pcs
  <2>3. Goes(i, t)
    BY <1>3
  <2> HIDE DEF t
  <2>4. try'[i] = t /\ Cut(i)' = Cut(i)
    BY <2>2, <2>3, TryType DEF Goes, IInv, Cut
  <2>5. Works(i)'
    BY <1>1, <1>3, <2>2, <2>4 DEF Works, DispatchWorks, PollWorks, QaWorks, stored
  <2>. QED
    BY <1>1, <2>2, <2>3, <2>5, GoesKeeps
<1>. QED
  BY <1>2, <1>3 DEF ReadVariant

LEMMA JudgeVariantKeeps ==
  ASSUME IInv, NEW i \in Slots, JudgeVariant(i)
  PROVE  IInv'
<1>1. /\ try[i].op = "QA" /\ try[i].pc = "JUDGE" /\ campaign' = campaign
      /\ UNCHANGED <<attempt, job, ledger, rows>>
  BY DEF JudgeVariant, At
<1>2. ASSUME NEW verdict \in {"PASS", "FAIL", "NOT_RUN"}, agent[Cut(i)].qa = "NONE",
             agent' = [agent EXCEPT ![Cut(i)].qa = verdict], UNCHANGED <<try, child>>
      PROVE  IInv'
  <2>0. Cut(i) \in Cuts
    BY <1>1, QaFinds
  <2>1. agent \in [Cuts -> [generator : {"NONE", "CUT", "REFUSED"},
                            qa : {"NONE", "PASS", "FAIL", "NOT_RUN"}]]
    BY DEF IInv, TypesFit, StoredOK
  <2>2. /\ agent' \in [Cuts -> [generator : {"NONE", "CUT", "REFUSED"},
                                qa : {"NONE", "PASS", "FAIL", "NOT_RUN"}]]
        /\ \A c \in Cuts : agent[c].qa \in {"PASS", "FAIL"} => agent'[c].qa = agent[c].qa
    BY <2>0, <1>2, <2>1
  <2>3. StoredOK' /\ Grows
    BY <2>2, <1>1 DEF IInv, TypesFit, StoredOK, Grows
  <2>4. JobsFit' /\ RowsFit'
    BY <2>2, <1>1 DEF IInv, JobsFit, RowsFit, Delivered, Paid
  <2>5. KeyKept(i)
    BY <1>1 DEF KeyKept
  <2>6. TypesFit'
    BY <2>3, <1>1, <1>2 DEF IInv, TypesFit, CampaignOK, ChildOK, TryOK
  <2>7. ChildFits'
    <3>1. ChildStands'
      BY <2>3, <1>1, <1>2, StandsStill
    <3>. QED
      BY <3>1, <1>1, <1>2 DEF IInv, ChildFits, ChildCalls, Current
  <2>8. TriesFit'
    <3>. SUFFICES ASSUME NEW j \in Slots PROVE Called(j)' /\ Works(j)'
      BY DEF TriesFit
    <3>1. Called(j) /\ Works(j) /\ Cut(j) \in Cuts
      BY TryTyped DEF IInv, TriesFit
    <3>2. Called(j)'
      BY <3>1, <1>1, <1>2 DEF Called, Paid, Delivered, NotAhead, Current, Sending, Cut
    <3>3. DispatchWorks(j)' /\ PollWorks(j)'
      BY <3>1, <1>1, <1>2 DEF Works, DispatchWorks, PollWorks, Delivered, Cut, Status
    <3>4. QaWorks(j)'
      BY <3>1, <2>2, <1>1, <1>2 DEF Works, QaWorks, Cut
    <3>. QED
      BY <3>2, <3>3, <3>4 DEF Works
  <2>. QED
    BY <2>4, <2>6, <2>7, <2>8 DEF IInv
<1>3. ASSUME NEW answer, Answers(i, answer), UNCHANGED agent PROVE IInv'
  BY <1>1, <1>3, NothingWritten, AnswersKeeps DEF AnswerMeans
<1>4. CASE agent[Cut(i)].qa \in {"PASS", "FAIL"} /\ Goes(i, [try[i] EXCEPT !.pc = "WRITE"])
           /\ UNCHANGED agent
  <2>1. QaWorks(i)
    BY <1>1, QaFinds
  <2>2. QaCarries(i, "WRITE", try[i].row)
    BY <1>1, <1>4, <2>1 DEF QaCarries, QaWorks
  <2>. QED
    BY <1>1, <1>4, <2>2, NothingWritten, QaSteps DEF Pcs
<1>. QED
  BY <1>2, <1>3, <1>4 DEF JudgeVariant

\* The asset a row shows is the render that was paid: if dispatches are prompt, no two
\* renders of a cut are delivered, for each wants all the earlier ones failed.
LEMMA OneDelivered ==
  ASSUME IInv, Prompt, NEW c \in Cuts, NEW n \in Attempts, job[c][n] = "SUCCEEDED", Paid(c)
  PROVE  Delivered(c, n)
<1>1. PICK m \in Attempts : Delivered(c, m)
  BY DEF Paid
<1>2. /\ \A l \in Attempts : l < n => job[c][l] = "FAILED"
      /\ \A l \in Attempts : l < m => job[c][l] = "FAILED"
  BY <1>1 DEF IInv, JobsFit, Delivered
<1>3. m = n
  <2>1. m \in Nat /\ n \in Nat
    BY DEF Attempts
  <2>2. ~(m < n) /\ ~(n < m)
    BY <1>1, <1>2 DEF Delivered
  <2>. QED
    BY <2>1, <2>2
<1>. QED
  BY <1>1, <1>3

LEMMA WriteVerdictKeeps ==
  ASSUME IInv, NEW i \in Slots, WriteVerdict(i)
  PROVE  IInv'
<1> DEFINE c == Cut(i)
           r == try[i].row
           status == IF agent[c].qa = "PASS" THEN "READY" ELSE "FAILED"
           row == [rows[c][r] EXCEPT !.status = status]
<1>1. /\ try[i].op = "QA" /\ try[i].pc = "WRITE" /\ campaign' = campaign
      /\ UNCHANGED <<agent, attempt, job, ledger>>
      /\ rows' = [rows EXCEPT ![c][r].status = status]
  BY DEF WriteVerdict, At
<1>2. c \in Cuts /\ Paid(c) /\ r \in DOMAIN rows[c] /\ rows[c][r].asset # 0
  BY <1>1, QaFinds DEF QaWorks
<1>3. /\ rows[c][r] \in RowRecords /\ RowFits(c, rows[c][r]) /\ rows[c][r].asset \in Attempts
  BY <1>2, RowType
<1>4. Prompt => Delivered(c, rows[c][r].asset)
  BY <1>2, <1>3, OneDelivered DEF RowFits
<1>5. /\ row \in RowRecords /\ row.asset = rows[c][r].asset /\ row.status = status
  BY <1>3 DEF RowRecords
<1>6. RowFits(c, row)
  BY <1>2, <1>3, <1>4, <1>5 DEF RowFits
<1>7. rows' = [rows EXCEPT ![c] = [rows[c] EXCEPT ![r] = row]]
  BY <1>1
<1> HIDE DEF row
<1>8. StoredFits(i)
  BY <1>1, <1>2, <1>5, <1>6, <1>7, RowSet
<1>9. CASE Goes(i, [try[i] EXCEPT !.pc = "FREEZE"])
  BY <1>1, <1>8, <1>9, QaSteps DEF Pcs, QaCarries
<1>10. CASE Answers(i, "FAIL")
  BY <1>1, <1>8, <1>10, AnswersKeeps DEF AnswerMeans
<1>. QED
  BY <1>9, <1>10 DEF WriteVerdict

LEMMA FreezeCutKeeps ==
  ASSUME IInv, NEW i \in Slots, FreezeCut(i)
  PROVE  IInv'
BY NothingWritten, AnswersKeeps DEF FreezeCut, At, AnswerMeans

LEMMA WorkKeeps ==
  ASSUME IInv, NEW i \in Slots, Work(i)
  PROVE  IInv'
BY CutAgentKeeps, ReadSiblingsKeeps, CreateCutKeeps, SupersedeCutsKeeps,
   TakeAttemptKeeps, ReserveKeeps, SubmitRenderKeeps, NoteJobKeeps,
   ReleaseDispatchKeeps, FailDispatchKeeps,
   ReadAttemptKeeps, AnswerSucceededKeeps, AskProviderKeeps, NoteRunningKeeps, FindRowKeeps,
   CreateRowKeeps, MarkRowKeeps, ChargeRenderKeeps, ReleaseRenderKeeps, EndAttemptKeeps,
   ReadForCancelKeeps, StopJobKeeps, ReleaseCancelledKeeps, CancelAttemptKeeps,
   ReadVariantKeeps, JudgeVariantKeeps, WriteVerdictKeeps, FreezeCutKeeps
   DEF Work

-----------------------------------------------------------------------------
(* The theorems.                                                           *)

LEMMA InitFits == Init => IInv
<1>. SUFFICES ASSUME Init PROVE IInv
  OBVIOUS
<1>1. /\ 1 \in Durations /\ 1 \in Visits /\ 0 \in 0 .. MaxAttempts
      /\ 0 \notin Attempts /\ \A m \in Attempts : m > 0 /\ m \in Nat
  BY Constants DEF Durations, Visits, Attempts
<1>2. CampaignOK
  BY <1>1 DEF Init, CampaignOK
<1>3. ChildOK
  BY <1>1 DEF Init, ChildOK, Children, NewChild, ChildPcs
<1>4. TryOK
  BY IdleType DEF Init, TryOK
<1>5. StoredOK
  BY DEF Init, StoredOK, Statuses, Unsent, JobStatuses
<1>6. ChildFits
  BY <1>1 DEF Init, NewChild, ChildFits, ChildCalls, ChildStands, Heard, Sending
<1>7. TriesFit
  BY DEF Init, Idle, TriesFit, Called, Works, DispatchWorks, PollWorks, QaWorks
<1>8. JobsFit /\ RowsFit
  BY DEF Init, JobsFit, RowsFit, Unsent
<1>. QED
  BY <1>2, <1>3, <1>4, <1>5, <1>6, <1>7, <1>8 DEF IInv, TypesFit

LEMMA NextKeeps ==
  ASSUME IInv, [Next]_vars
  PROVE  IInv'
<1>1. CASE UNCHANGED vars
  <2>1. UNCHANGED <<campaign, child, try, stored>>
    BY <1>1 DEF vars, stored
  <2>2. CampaignOK'
    BY <2>1 DEF IInv, TypesFit, CampaignOK
  <2>. QED
    BY <2>1, <2>2, CampaignMovesKeeps
<1>2. CASE Next
  BY <1>2, ChildActsKeeps, CancelSignalKeeps, ChildReturnsKeeps, JudgeVariantsKeeps,
     WorkKeeps, DieKeeps, TimeOutKeeps DEF Next
<1>. QED
  BY <1>1, <1>2

LEMMA EarnedWhenItFits ==
  ASSUME IInv, Prompt
  PROVE  ReadyIsEarned
<1>. SUFFICES ASSUME NEW x \in Rows, RowStatus(x) = "READY"
              PROVE  LET c == x[1]
                         n == rows[c][x[2]].asset
                     IN /\ n # 0 /\ agent[c].qa = "PASS"
                        /\ job[c][n] = "SUCCEEDED"
                        /\ {"CHARGED", "RELEASED"} \subseteq ledger[c][n]
  BY DEF ReadyIsEarned
<1>1. x[1] \in Cuts /\ x[2] \in DOMAIN rows[x[1]]
  BY DEF Rows
<1>2. rows[x[1]][x[2]].status = "READY"
  BY DEF RowStatus
<1>. QED
  BY <1>1, <1>2 DEF IInv, RowsFit, Delivered

\* The inductive invariant of the two stages.
THEOREM VariantsInductive == Spec => []IInv
<1>1. IInv /\ [Next]_vars => IInv'
  BY NextKeeps
<1>. QED
  BY <1>1, InitFits, PTL DEF Spec

\* A variant is READY only for an asset that was delivered, passed the QA re-run, and
\* is charged and its reservation given back, wherever the tries of the cuts, the
\* polls, the cancellations and the QA die or are overtaken.
THEOREM ReadyVariantsAreEarned ==
  ASSUME "DISPATCH" \notin SlowOps
  PROVE  Spec => []ReadyIsEarned
<1>1. IInv => ReadyIsEarned
  BY EarnedWhenItFits DEF Prompt
<1>. QED
  BY <1>1, VariantsInductive, PTL

\* A READY variant shows an asset the provider delivered and has passed the QA re-run, and
\* a render of its cut is charged and its reservation given back: another one than
\* the asset's, if a dispatch was overtaken.
ReadyIsPaid ==
  \A c \in Cuts : \A r \in DOMAIN rows[c] :
    rows[c][r].status = "READY" =>
      /\ rows[c][r].asset # 0 /\ job[c][rows[c][r].asset] = "SUCCEEDED"
      /\ agent[c].qa = "PASS" /\ Paid(c)

\* That holds wherever any try dies or is overtaken, those of the dispatch too.
THEOREM ReadyVariantsArePaid == Spec => []ReadyIsPaid
<1>1. IInv => ReadyIsPaid
  BY DEF IInv, RowsFit, ReadyIsPaid
<1>. QED
  BY <1>1, VariantsInductive, PTL

-----------------------------------------------------------------------------
(* What one visit leaves for the next: the cuts made, the QA's tries that  *)
(* are overtaken, and the row that keeps a repair from bringing a campaign *)
(* on.                                                                     *)

SpecOK == spec \in [Cuts -> [exists : BOOLEAN, superseded : BOOLEAN, approved : BOOLEAN]]
Made(c) == spec[c].exists
No(op, c) == \A i \in Slots : ~(try[i].op = op /\ Cut(i) = c)
Refused(c) == agent[c].qa \in {"FAIL", "NOT_RUN"}

\* The child has asked for the QA of the cut, or gone past it; and it waits for it still.
QaEnds == {"QA", "DONE", "FAILED"}
Past(c) ==
  \/ c[2] < campaign.visit
  \/ c[2] = campaign.visit /\ c[1] < child.at
  \/ c = Current /\ child.pc \in QaEnds
AtQa(c) == c = Current /\ child.pc \in {"QA", "FAILED"}

\* A row without an asset that will not get one.
Bare(c, r) == rows[c][r].asset = 0 /\ No("POLL", c)

\* What the QA of a cut has come to when the child goes on: refused, approved, or not
\* run for a row without an asset.
Settled(c) == Refused(c) \/ spec[c].approved \/ \E r \in DOMAIN rows[c] : Bare(c, r)

\* A try about to approve a cut has seen it pass, on a row with an asset.
FreezeFits(i) ==
  try[i].op = "QA" /\ try[i].pc = "FREEZE" =>
    agent[Cut(i)].qa = "PASS" /\ \E r \in DOMAIN rows[Cut(i)] : rows[Cut(i)][r].asset # 0

\* A try of the QA that still runs when the child has gone on finds the cut settled.
QaStands ==
  \A i \in Slots :
    /\ try[i].op = "QA" => Past(Cut(i)) /\ (AtQa(Cut(i)) \/ Settled(Cut(i)))
    /\ FreezeFits(i)

\* Cuts are made visit by visit, and superseded by those of a later one.
CutMade(c) ==
  /\ Made(c) => c[2] <= campaign.visit
  /\ c[2] < campaign.visit \/ (child.cut /\ c[2] = campaign.visit) => Made(c)
  /\ spec[c].superseded => c[2] < campaign.visit
  /\ rows[c] # <<>> => c[2] <= campaign.visit

\* A try that makes cuts makes them in turn, and found the ones it supersedes to be of
\* earlier visits and not approved: approved since, such a cut has two rows.
TryMade(i) ==
  /\ try[i].op = "CUT" =>
       /\ Cut(i)[2] <= campaign.visit
       /\ child.slot = i => Cut(i)[2] = campaign.visit
       /\ \A d \in Durations : d < Cut(i)[1] => Made(<<d, Cut(i)[2]>>)
       /\ try[i].pc = "SUPERSEDE" => Made(Cut(i))
  /\ \A c \in try[i].live :
       /\ try[i].op = "CUT" /\ try[i].pc \in {"CREATE", "SUPERSEDE"}
       /\ c[1] = Cut(i)[1] /\ c[2] < Cut(i)[2]
       /\ spec[c].approved /\ ~spec[c].superseded => Len(rows[c]) > 1

CutsMade ==
  /\ \A c \in Cuts : CutMade(c)
  /\ \A i \in Slots : TryMade(i)
  /\ campaign.stage # "VARIANT_GENERATION" => child.cut
  /\ child.pc = "CUT" => child.at = 1

\* A row that no step makes READY any more.
Lost(c, r) == rows[c][r].status # "READY" /\ (Refused(c) \/ No("QA", c) \/ Bare(c, r))

\* A duration whose approved cut keeps the visit from making its own.
Stuck(d) ==
  LET c == <<d, campaign.visit - 1>>
      n == <<d, campaign.visit>>
  IN /\ n \in Cuts /\ c \in Cuts
     /\ spec[c].approved /\ ~spec[c].superseded /\ ~Made(n)
     /\ \A i \in Slots : ~(try[i].op = "CUT" /\ try[i].pc = "CREATE" /\ Cut(i) = n)

\* After a repair, a row of an earlier visit is lost, or the visit makes no cuts.
Blocked ==
  campaign.visit > 1 =>
    \/ \E c \in Cuts : c[2] < campaign.visit /\ \E r \in DOMAIN rows[c] : Lost(c, r)
    \/ \E d \in Durations : Stuck(d)

XInv == IInv /\ SpecOK /\ QaStands /\ CutsMade /\ Blocked

\* What the variants' finding comes to: the export is reached on the first visit only.
ExportsOnFirstVisit == campaign.stage = "EXPORTING" => campaign.visit = 1

-----------------------------------------------------------------------------
(* How tries and the child move within a visit.                            *)

\* A try of the QA or of a poll goes on with its cut, or is one the child asks for.
Tracks ==
  \A j \in Slots : try'[j].op \in {"QA", "POLL"} =>
    \/ try[j].op = try'[j].op /\ Cut(j)' = Cut(j)
    \/ child'.pc = try'[j].op /\ Cut(j)' = Current'

NoFreeze == \A j \in Slots : try'[j].op = "QA" /\ try'[j].pc = "FREEZE" => try'[j] = try[j]

Onwards ==
  /\ child'.at >= child.at
  /\ child'.at = child.at /\ child.pc \in QaEnds => child'.pc \in QaEnds
  /\ child'.pc = "CUT" => child.pc = "CUT" /\ child'.at = child.at

QaHeld == child.pc \in {"QA", "FAILED"} => child'.pc \in {"QA", "FAILED"} /\ child'.at = child.at
CutHeld == child'.cut = child.cut

CutTryKept(j) ==
  \/ try'[j] = try[j]
  \/ try'[j].live = try[j].live /\ try[j].op # "CUT" /\ try'[j].op # "CUT"
  \/ try'[j].live = {} /\ (try'[j].op = "CUT" => Cut(j)' = <<1, campaign.visit>> /\ try'[j].pc = "AGENT")

SlotKept ==
  \A j \in Slots : child'.slot = j /\ try'[j].op = "CUT" =>
    \/ child.slot = j /\ try[j].op = "CUT" /\ Cut(j)'[2] = Cut(j)[2]
    \/ Cut(j)'[2] = campaign.visit

Steady == Tracks /\ Onwards /\ SlotKept

LEMMA StillMoves ==
  ASSUME IInv, UNCHANGED try, child'.pc = child.pc, child'.at = child.at, campaign' = campaign,
         child'.slot = child.slot
  PROVE  Steady /\ QaHeld /\ NoFreeze /\ \A j \in Slots : CutTryKept(j)
<1>1. child.at \in Nat
  BY DEF IInv, TypesFit, ChildOK, Children, Durations
<1>2. \A j \in Slots : Cut(j)' = Cut(j)
  BY DEF Cut
<1>. QED
  BY <1>1, <1>2 DEF Steady, Tracks, Onwards, SlotKept, QaHeld, NoFreeze, CutTryKept

LEMMA GoesMoves ==
  ASSUME IInv, campaign' = campaign, NEW i \in Slots, NEW r, Goes(i, r), r.op = try[i].op,
         IF r.op = "CUT" THEN r.cut[2] = Cut(i)[2] ELSE r.cut = Cut(i)
  PROVE  /\ Steady /\ QaHeld /\ CutHeld
         /\ r.op = "QA" /\ r.pc # "FREEZE" => NoFreeze
         /\ r.op # "QA" => NoFreeze
         /\ r.op # "CUT" /\ r.live = try[i].live => \A j \in Slots : CutTryKept(j)
         /\ \A j \in Slots \ {i} : CutTryKept(j)
         /\ try'[i] = r
<1>1. child' = child /\ try'[i] = r /\ Cut(i)' = r.cut
      /\ \A j \in Slots \ {i} : try'[j] = try[j] /\ Cut(j)' = Cut(j)
  BY DEF Goes, IInv, TypesFit, TryOK, Cut
<1>2. child.at \in Nat
  BY DEF IInv, TypesFit, ChildOK, Children, Durations
<1>3. Tracks
  BY <1>1 DEF Tracks
<1>4. Onwards /\ SlotKept /\ QaHeld /\ CutHeld
  BY <1>1, <1>2 DEF Onwards, SlotKept, QaHeld, CutHeld
<1>. QED
  BY <1>1, <1>3, <1>4 DEF Steady, NoFreeze, CutTryKept

LEMMA OnwardGoes ==
  ASSUME NEW ch \in Children
  PROVE  /\ Onward(ch).at >= ch.at /\ Onward(ch).cut = ch.cut /\ Onward(ch).slot = ch.slot
         /\ Onward(ch).at = ch.at => Onward(ch).pc = "DONE"
         /\ Onward(ch).pc # "CUT"
<1>0. ch.at \in Nat
  BY DEF Children, Durations
<1>1. CASE ch.at = Last
  BY <1>0, <1>1 DEF Onward, Children
<1>2. CASE ch.at # Last
  BY <1>0, <1>2 DEF Onward, Children
<1>. QED
  BY <1>1, <1>2

LEMMA AfterGoes ==
  ASSUME NEW ch \in Children, NEW op \in {"CUT", "DISPATCH", "POLL", "QA", "CANCEL"}, NEW answer,
         op = "QA" <=> ch.pc = "QA", ch.pc \notin {"DONE", "FAILED"},
         NEW new, new = After(ch, op, answer)
  PROVE  /\ new.at >= ch.at /\ new.slot = 0 /\ new.pc # "CUT"
         /\ new.at = ch.at /\ ch.pc = "QA" => new.pc = "DONE"
         /\ op # "CUT" \/ answer # "CUT" => new.cut = ch.cut
         /\ ch.cut => new.cut
<1> DEFINE heard == [ch EXCEPT !.slot = 0, !.tries = 0]
<1>0. ch.at \in Nat
  BY DEF Children, Durations
<1>1. heard \in Children /\ heard.at = ch.at /\ heard.pc = ch.pc /\ heard.cut = ch.cut
      /\ heard.slot = 0 /\ heard.n = ch.n /\ ch.at \in Nat
  BY <1>0 DEF Children
<1>2. PICK h \in Children : h = heard
  BY <1>1
<1>3. /\ Onward(h).at >= ch.at /\ Onward(h).cut = ch.cut /\ Onward(h).slot = 0
      /\ Onward(h).at = ch.at => Onward(h).pc = "DONE"
      /\ Onward(h).pc # "CUT"
  BY <1>1, <1>2, OnwardGoes
<1>4. h.at = ch.at /\ h.pc = ch.pc /\ h.cut = ch.cut /\ h.slot = 0 /\ h.n = ch.n
  BY <1>1, <1>2
<1>5. new = CASE op = "CUT" -> AfterCut(h, answer)
         [] op = "DISPATCH" -> AfterDispatch(h, answer)
         [] op = "POLL" -> AfterPoll(h, answer)
         [] op = "QA" -> Onward(h)
         [] op = "CANCEL" -> [h EXCEPT !.pc = "DONE", !.stopped = TRUE]
  BY <1>2 DEF After
<1> HIDE DEF heard
<1>6. CASE op = "CUT"
  <2>1. new = AfterCut(h, answer)
    BY <1>5, <1>6
  <2>2. CASE answer = "CUT"
    <3>1. new = [h EXCEPT !.cut = TRUE, !.pc = "RENDER"]
      BY <2>1, <2>2 DEF AfterCut
    <3>2. new.at = h.at /\ new.slot = h.slot /\ new.pc = "RENDER" /\ new.cut
      BY <3>1 DEF Children
    <3>. QED
      BY <1>1, <1>4, <3>2, <2>2, <1>6
  <2>3. CASE answer # "CUT"
    <3>1. new = [h EXCEPT !.pc = "DONE"]
      BY <2>1, <2>3 DEF AfterCut
    <3>2. new.at = h.at /\ new.slot = h.slot /\ new.pc = "DONE" /\ new.cut = h.cut
      BY <3>1 DEF Children
    <3>. QED
      BY <1>1, <1>4, <3>2
  <2>. QED
    BY <2>2, <2>3
<1>7. CASE op \in {"DISPATCH", "POLL", "QA", "CANCEL"}
  <2>1. \/ new = Onward(h)
        \/ \E pc \in {"POLL", "QA", "RENDER"} : new = [h EXCEPT !.pc = pc] /\ op # "QA"
        \/ new = [h EXCEPT !.pc = "DONE", !.stopped = TRUE]
    BY <1>5, <1>7 DEF AfterDispatch, AfterPoll
  <2>2. \/ new = Onward(h)
        \/ new.at = h.at /\ new.cut = h.cut /\ new.slot = h.slot
           /\ (new.pc = "DONE" \/ (op # "QA" /\ new.pc \in {"POLL", "QA", "RENDER"}))
    BY <2>1 DEF Children
  <2>. QED
    BY <2>2, <1>1, <1>3, <1>4, <1>7
<1>. QED
  BY <1>6, <1>7

LEMMA AnswersMoves ==
  ASSUME IInv, campaign' = campaign, NEW i \in Slots, NEW answer, Answers(i, answer)
  PROVE  /\ Steady /\ NoFreeze /\ \A j \in Slots : CutTryKept(j)
         /\ child.slot # i \/ try[i].op # "QA" => QaHeld
         /\ child.slot # i \/ try[i].op # "CUT" \/ answer # "CUT" => CutHeld
         /\ child.cut => child'.cut
         /\ try'[i] = Idle
<1>1. try'[i] = Idle /\ \A j \in Slots \ {i} : try'[j] = try[j] /\ Cut(j)' = Cut(j)
  BY DEF Answers, IInv, TypesFit, TryOK, Cut
<1>2. child.at \in Nat /\ child \in Children
  BY DEF IInv, TypesFit, ChildOK, Children, Durations
<1>3. Tracks /\ NoFreeze /\ \A j \in Slots : CutTryKept(j)
  BY <1>1 DEF Tracks, NoFreeze, CutTryKept, Idle
<1>4. CASE child.slot # i
  <2>1. child' = child
    BY <1>4 DEF Answers
  <2>. QED
    BY <1>1, <1>2, <1>3, <2>1 DEF Steady, Onwards, SlotKept, QaHeld, CutHeld, Idle
<1>5. CASE child.slot = i
  <2>1. child' = After(child, try[i].op, answer)
    BY <1>5 DEF Answers
  <2>2. /\ try[i].op \in {"CUT", "DISPATCH", "POLL", "QA", "CANCEL"}
        /\ try[i].op = "QA" <=> child.pc = "QA" /\ child.pc \notin {"DONE", "FAILED"}
        /\ child.pc \notin {"DONE", "FAILED"}
    BY <1>5, CallerKey DEF Slots
  <2>3. /\ child'.at >= child.at /\ child'.slot = 0 /\ child'.pc # "CUT"
        /\ child'.at = child.at /\ child.pc = "QA" => child'.pc = "DONE"
        /\ try[i].op # "CUT" \/ answer # "CUT" => child'.cut = child.cut
        /\ child.cut => child'.cut
    BY <1>2, <2>1, <2>2, AfterGoes
  <2>4. Onwards /\ SlotKept
    BY <2>2, <2>3 DEF Onwards, SlotKept, QaEnds, Slots
  <2>. QED
    BY <1>1, <1>3, <1>5, <2>2, <2>3, <2>4 DEF Steady, QaHeld, CutHeld
<1>. QED
  BY <1>4, <1>5

\* A try of what the child waits for begins.
LEMMA BeginsMoves ==
  ASSUME XInv, campaign' = campaign, NEW i \in Slots, NEW op \in Ops \ {"NONE"},
         NEW ch \in Children, ch.at = child.at,
         try' = [try EXCEPT ![i] = Fresh(op, ch)],
         child.pc \in {"CUT", "RENDER", "POLL", "QA"}, op \in OpOf[child.pc],
         child'.pc = child.pc, child'.at = child.at, child'.slot = i, child'.cut = child.cut
  PROVE  Steady /\ QaHeld /\ CutHeld /\ NoFreeze /\ \A j \in Slots : CutTryKept(j)
<1>1. /\ Fresh(op, ch).op = op /\ Fresh(op, ch).cut = Current
      /\ Fresh(op, ch).pc = CASE op = "CUT" -> "AGENT" [] op = "DISPATCH" -> "ATTEMPT" [] OTHER -> "READ"
  BY FreshType DEF XInv, IInv, Current
<1>2. Fresh(op, ch).live = {}
  BY DEF Fresh, Idle
<1>3. PICK f : f = Fresh(op, ch)
  OBVIOUS
<1>4. /\ try'[i] = f /\ Cut(i)' = Current /\ try'[i].op = op /\ try'[i].live = {}
      /\ try'[i].pc # "FREEZE" /\ (op = "CUT" => try'[i].pc = "AGENT")
      /\ \A j \in Slots \ {i} : try'[j] = try[j] /\ Cut(j)' = Cut(j)
  <2>1. try'[i] = f /\ \A j \in Slots \ {i} : try'[j] = try[j]
    BY <1>3 DEF XInv, IInv, TypesFit, TryOK
  <2>. QED
    BY <2>1, <1>1, <1>2, <1>3 DEF Cut, Ops
<1>5. child.at \in Nat /\ Current' = Current /\ Current[2] = campaign.visit
  BY DEF XInv, IInv, TypesFit, ChildOK, Children, Durations, Current
<1>6. op = "CUT" => Current = <<1, campaign.visit>>
  BY DEF XInv, CutsMade, OpOf, Current
<1>7. Tracks
  BY <1>4, <1>5 DEF Tracks, OpOf
<1>. QED
  BY <1>4, <1>5, <1>6, <1>7 DEF Steady, NoFreeze, CutTryKept, SlotKept, Onwards, QaHeld, CutHeld

LEMMA NoAnswerMoves ==
  ASSUME XInv, campaign' = campaign, NEW i \in Slots, NoAnswer(i)
  PROVE  Steady /\ QaHeld /\ CutHeld /\ NoFreeze /\ \A j \in Slots : CutTryKept(j)
<1>0. IInv /\ child \in Children /\ i # 0
  BY DEF XInv, IInv, TypesFit, ChildOK, Slots
<1>1. CASE child.slot # i
  <2>1. Answers(i, "NONE")
    BY <1>1 DEF NoAnswer, Goes, Answers
  <2>. QED
    BY <1>0, <1>1, <2>1, AnswersMoves
<1>2. CASE child.slot = i /\ try' = [try EXCEPT ![i] = Fresh(@.op, child)]
           /\ child' = [child EXCEPT !.tries = @ + 1]
  <2>1. /\ try[i].op \in Ops \ {"NONE"} /\ child.pc \in {"CUT", "RENDER", "POLL", "QA"}
        /\ try[i].op \in OpOf[child.pc]
    BY <1>0, <1>2, CallerKey DEF Ops, OpOf
  <2>2. /\ child'.pc = child.pc /\ child'.at = child.at /\ child'.slot = i /\ child'.cut = child.cut
    BY <1>0, <1>2 DEF Children
  <2>3. try' = [try EXCEPT ![i] = Fresh(try[i].op, child)]
    BY <1>2
  <2>. QED
    BY <1>0, <2>1, <2>2, <2>3, BeginsMoves
<1>3. CASE child.slot = i /\ try' = [try EXCEPT ![i] = Idle]
           /\ child' = [child EXCEPT !.pc = "FAILED", !.slot = 0]
  <2>1. /\ child'.pc = "FAILED" /\ child'.at = child.at /\ child'.slot = 0
        /\ child'.cut = child.cut /\ child.at \in Nat
    BY <1>0, <1>3 DEF Children, Durations
  <2>2. try'[i] = Idle /\ \A j \in Slots \ {i} : try'[j] = try[j] /\ Cut(j)' = Cut(j)
    BY <1>3, <1>0 DEF IInv, TypesFit, TryOK, Cut
  <2>3. Tracks /\ NoFreeze /\ \A j \in Slots : CutTryKept(j)
    BY <2>2 DEF Tracks, NoFreeze, CutTryKept, Idle
  <2>4. Onwards /\ SlotKept /\ QaHeld /\ CutHeld
    BY <2>1 DEF Onwards, SlotKept, QaHeld, CutHeld, QaEnds, Slots
  <2>. QED
    BY <2>3, <2>4 DEF Steady
<1>. QED
  BY <1>1, <1>2, <1>3 DEF NoAnswer

-----------------------------------------------------------------------------
(* What a step does to the records, and what it leaves standing.           *)

\* A verdict is for good.
VerdictsStay ==
  \A c \in Cuts : (Refused(c) => Refused(c)') /\ (agent[c].qa = "PASS" => agent'[c].qa = "PASS")

\* Rows stay; only polls give one its asset, only the QA makes one READY, and it
\* takes an asset and no refusal for that.
RowsGo ==
  \A c \in Cuts :
    /\ rows[c] = <<>> /\ rows'[c] # <<>> => c[2] <= campaign.visit
    /\ \A r \in DOMAIN rows[c] :
         /\ r \in DOMAIN rows'[c]
         /\ rows[c][r].asset # 0 => rows'[c][r].asset # 0
         /\ rows[c][r].asset = 0 /\ rows'[c][r].asset # 0 => ~No("POLL", c)
         /\ rows'[c][r].status = "READY" /\ rows[c][r].status # "READY" =>
              rows[c][r].asset # 0 /\ ~No("QA", c) /\ ~Refused(c)

\* Cuts, and what is said of them, stay; one of an earlier visit is approved late
\* only where it has two rows.
SpecGoes ==
  /\ SpecOK'
  /\ \A c \in Cuts :
       /\ Made(c) => Made(c)'
       /\ spec[c].superseded => spec'[c].superseded
       /\ spec[c].approved => spec'[c].approved
       /\ spec'[c].approved /\ ~spec[c].approved /\ c[2] < campaign.visit => Len(rows[c]) > 1

LEMMA SameRows ==
  ASSUME rows' = rows
  PROVE  RowsGo
BY DEF RowsGo

LEMMA SameAgent ==
  ASSUME agent' = agent
  PROVE  VerdictsStay
BY DEF VerdictsStay, Refused

LEMMA SameSpec ==
  ASSUME SpecOK, spec' = spec
  PROVE  SpecGoes
BY DEF SpecGoes, SpecOK, Made

LEMMA CutNumbers ==
  ASSUME IInv, NEW c \in Cuts
  PROVE  /\ c[1] \in Nat /\ c[2] \in Nat /\ c[1] \in Durations /\ c[2] \in Visits
         /\ c = <<c[1], c[2]>>
         /\ child.at \in Nat /\ campaign.visit \in Nat
         /\ c = Current <=> c[1] = child.at /\ c[2] = campaign.visit
BY CutPairs, CurrentIsCut DEF IInv, Current, Durations, Visits

LEMMA LenGrows ==
  ASSUME IInv, IInv', RowsGo, NEW c \in Cuts
  PROVE  Len(rows[c]) \in Nat /\ Len(rows'[c]) \in Nat /\ Len(rows[c]) <= Len(rows'[c])
<1>1. rows[c] \in Seq(RowRecords) /\ rows'[c] \in Seq(RowRecords)
  BY DEF IInv, TypesFit, StoredOK
<1>2. /\ DOMAIN rows[c] = 1 .. Len(rows[c]) /\ DOMAIN rows'[c] = 1 .. Len(rows'[c])
      /\ Len(rows[c]) \in Nat /\ Len(rows'[c]) \in Nat
  BY <1>1
<1>3. DOMAIN rows[c] \subseteq DOMAIN rows'[c]
  BY DEF RowsGo
<1>4. CASE Len(rows[c]) = 0
  BY <1>2, <1>4
<1>5. CASE Len(rows[c]) # 0
  <2>1. Len(rows[c]) \in DOMAIN rows[c]
    BY <1>2, <1>5
  <2>. QED
    BY <2>1, <1>2, <1>3
<1>. QED
  BY <1>2, <1>4, <1>5

LEMMA PastStays ==
  ASSUME IInv, IInv', Onwards, campaign' = campaign, NEW c \in Cuts, Past(c)
  PROVE  Past(c)'
<1>1. /\ c[1] \in Nat /\ c[2] \in Nat /\ child.at \in Nat /\ child'.at \in Nat
      /\ campaign.visit \in Nat /\ c = <<c[1], c[2]>>
      /\ c = Current <=> c[1] = child.at /\ c[2] = campaign.visit
      /\ c = Current' <=> c[1] = child'.at /\ c[2] = campaign.visit
  BY CutNumbers DEF IInv, TypesFit, ChildOK, Children, Durations, Current
<1>. QED
  BY <1>1 DEF Past, Onwards

LEMMA NoPollStays ==
  ASSUME IInv, IInv', Tracks, campaign' = campaign, NEW c \in Cuts, Past(c)', No("POLL", c)
  PROVE  No("POLL", c)'
<1>. SUFFICES ASSUME NEW j \in Slots, try'[j].op = "POLL", Cut(j)' = c PROVE FALSE
  BY DEF No
<1>1. child'.pc = "POLL" /\ c = Current'
  BY DEF Tracks, No
<1>2. /\ c[1] \in Nat /\ c[2] \in Nat /\ c[1] = child'.at /\ c[2] = campaign'.visit
  BY <1>1, CutNumbers DEF Current
<1>. QED
  BY <1>1, <1>2 DEF Past, QaEnds

LEMMA NoQaStays ==
  ASSUME IInv, Tracks, campaign' = campaign, NEW c \in Cuts, c[2] < campaign.visit, No("QA", c)
  PROVE  No("QA", c)'
<1>. SUFFICES ASSUME NEW j \in Slots, try'[j].op = "QA", Cut(j)' = c PROVE FALSE
  BY DEF No
<1>1. c = Current'
  BY DEF Tracks, No
<1>. QED
  BY <1>1, CutNumbers DEF Current

LEMMA BareStays ==
  ASSUME IInv, IInv', Steady, RowsGo, campaign' = campaign, NEW c \in Cuts, Past(c),
         NEW r \in DOMAIN rows[c], Bare(c, r)
  PROVE  r \in DOMAIN rows'[c] /\ Bare(c, r)'
<1>1. No("POLL", c)'
  BY PastStays, NoPollStays DEF Steady, Bare
<1>. QED
  BY <1>1 DEF Bare, RowsGo

LEMMA SettledStays ==
  ASSUME IInv, IInv', Steady, RowsGo, VerdictsStay, SpecGoes, campaign' = campaign,
         NEW c \in Cuts, Past(c), Settled(c)
  PROVE  Settled(c)'
BY BareStays DEF Settled, VerdictsStay, SpecGoes

LEMMA QaStandsStep ==
  ASSUME XInv, IInv', Steady, RowsGo, VerdictsStay, SpecGoes, campaign' = campaign,
         \A c \in Cuts : AtQa(c) /\ ~No("QA", c)' => AtQa(c)' \/ Settled(c)',
         \A j \in Slots : FreezeFits(j)'
  PROVE  QaStands'
<1>. SUFFICES ASSUME NEW j \in Slots, try'[j].op = "QA"
              PROVE  Past(Cut(j))' /\ (AtQa(Cut(j))' \/ Settled(Cut(j))')
  BY DEF QaStands
<1>0. IInv /\ Cut(j)' \in Cuts
  BY DEF XInv, IInv, TypesFit, TryOK, Tries, Cut
<1>1. PICK c \in Cuts : c = Cut(j)'
  BY <1>0
<1>2. CASE try[j].op = "QA" /\ Cut(j)' = Cut(j)
  <2>1. Past(c) /\ (AtQa(c) \/ Settled(c))
    BY <1>1, <1>2 DEF XInv, QaStands
  <2>2. Past(c)'
    BY <1>0, <2>1, PastStays DEF Steady
  <2>3. ~No("QA", c)'
    BY <1>1 DEF No
  <2>4. AtQa(c)' \/ Settled(c)'
    BY <1>0, <2>1, <2>3, SettledStays
  <2>. QED
    BY <1>1, <2>2, <2>4 DEF Past, AtQa, Settled, Refused, Bare, No
<1>3. CASE child'.pc = "QA" /\ Cut(j)' = Current'
  BY <1>3 DEF Past, AtQa, QaEnds
<1>. QED
  BY <1>2, <1>3 DEF Steady, Tracks

LEMMA AtQaHeld ==
  ASSUME QaHeld, campaign' = campaign, NEW c, AtQa(c)
  PROVE  AtQa(c)'
BY DEF QaHeld, AtQa, Current

LEMMA FreezeStays ==
  ASSUME XInv, NoFreeze, VerdictsStay, RowsGo, NEW j \in Slots
  PROVE  FreezeFits(j)'
<1>. SUFFICES ASSUME try'[j].op = "QA" /\ try'[j].pc = "FREEZE" PROVE FreezeFits(j)'
  BY DEF FreezeFits
<1>1. try'[j] = try[j]
  BY DEF NoFreeze
<1>2. Cut(j)' = Cut(j) /\ Cut(j) \in Cuts /\ FreezeFits(j)
  BY <1>1, TryTyped DEF XInv, IInv, Cut, QaStands
<1>3. agent'[Cut(j)].qa = "PASS" /\ \E r \in DOMAIN rows'[Cut(j)] : rows'[Cut(j)][r].asset # 0
  BY <1>1, <1>2 DEF FreezeFits, VerdictsStay, RowsGo
<1>. QED
  BY <1>2, <1>3 DEF FreezeFits

-----------------------------------------------------------------------------

LEMMA TryMadeStays ==
  ASSUME XInv, IInv', RowsGo, SpecGoes, campaign' = campaign, SlotKept,
         NEW j \in Slots, CutTryKept(j)
  PROVE  TryMade(j)'
<1>0. IInv /\ TryMade(j) /\ Cut(j) \in Cuts /\ try[j].live \subseteq Cuts /\ Constants
  BY TryTyped, Constants DEF XInv, CutsMade, IInv, TypesFit, TryOK, Tries, Cut
<1>1. /\ Cut(j)[1] \in Durations /\ Cut(j)[2] \in Nat /\ campaign.visit \in Nat
      /\ \A d \in Durations : <<d, Cut(j)[2]>> \in Cuts
  BY <1>0, CutNumbers, CutPairs DEF Durations, Visits, Cuts
<1>2. CASE try'[j] = try[j]
  <2>1. Cut(j)' = Cut(j)
    BY <1>2 DEF Cut
  <2>2. ASSUME try[j].op = "CUT"
        PROVE  /\ Cut(j)[2] <= campaign.visit
               /\ child'.slot = j => Cut(j)[2] = campaign.visit
               /\ \A d \in Durations : d < Cut(j)[1] => Made(<<d, Cut(j)[2]>>)'
               /\ try[j].pc = "SUPERSEDE" => Made(Cut(j))'
    BY <1>0, <1>1, <1>2, <2>1, <2>2 DEF TryMade, SlotKept, SpecGoes
  <2>3. ASSUME NEW c \in try[j].live
        PROVE  /\ try[j].op = "CUT" /\ try[j].pc \in {"CREATE", "SUPERSEDE"}
               /\ c[1] = Cut(j)[1] /\ c[2] < Cut(j)[2]
               /\ spec'[c].approved /\ ~spec'[c].superseded => Len(rows'[c]) > 1
    <3>1. /\ try[j].op = "CUT" /\ try[j].pc \in {"CREATE", "SUPERSEDE"}
          /\ c[1] = Cut(j)[1] /\ c[2] < Cut(j)[2]
          /\ spec[c].approved /\ ~spec[c].superseded => Len(rows[c]) > 1
          /\ Cut(j)[2] <= campaign.visit
      BY <1>0 DEF TryMade
    <3>2. c \in Cuts /\ c[2] \in Nat
      BY <1>0, CutNumbers
    <3>3. c[2] < campaign.visit
      BY <3>1, <3>2, <1>1
    <3>4. Len(rows[c]) <= Len(rows'[c]) /\ Len(rows[c]) \in Nat /\ Len(rows'[c]) \in Nat
      BY <1>0, <3>2, LenGrows
    <3>5. spec'[c].approved /\ ~spec'[c].superseded => Len(rows[c]) > 1
      BY <3>1, <3>2, <3>3 DEF SpecGoes
    <3>. QED
      BY <3>1, <3>4, <3>5
  <2>. QED
    BY <1>2, <2>1, <2>2, <2>3 DEF TryMade
<1>3. CASE try'[j].live = try[j].live /\ try[j].op # "CUT" /\ try'[j].op # "CUT"
  <2>1. try[j].live = {}
    BY <1>0, <1>3 DEF TryMade
  <2>. QED
    BY <2>1, <1>3 DEF TryMade
<1>4. CASE try'[j].live = {} /\ (try'[j].op = "CUT" => Cut(j)' = <<1, campaign.visit>> /\ try'[j].pc = "AGENT")
  <2>1. \A d \in Durations : ~(d < 1)
    BY DEF Durations
  <2>. QED
    BY <2>1, <1>1, <1>4 DEF TryMade
<1>. QED
  BY <1>2, <1>3, <1>4 DEF CutTryKept

LEMMA CutMadeStays ==
  ASSUME XInv, RowsGo, SpecGoes, campaign' = campaign, NEW c \in Cuts,
         child'.cut => child.cut \/ (c[2] = campaign.visit => Made(c)'),
         Made(c)' => Made(c) \/ c[2] <= campaign.visit,
         spec'[c].superseded => spec[c].superseded \/ c[2] < campaign.visit
  PROVE  CutMade(c)'
<1>1. CutMade(c)
  BY DEF XInv, CutsMade
<1>. QED
  BY <1>1 DEF CutMade, RowsGo, SpecGoes

LEMMA StuckStays ==
  ASSUME XInv, campaign' = campaign, NEW d, Stuck(d), NEW c, NEW n,
         c = <<d, campaign.visit - 1>>, n = <<d, campaign.visit>>,
         spec[c].approved => spec'[c].approved,
         spec'[c].superseded => spec[c].superseded,
         spec'[n].exists => spec[n].exists,
         \A j \in Slots :
           \/ CutTryKept(j)
           \/ ~(try'[j].op = "CUT" /\ try'[j].pc = "CREATE" /\ Cut(j)' = n)
  PROVE  Stuck(d)'
<1>1. /\ n \in Cuts /\ c \in Cuts /\ spec[c].approved /\ ~spec[c].superseded /\ ~spec[n].exists
      /\ \A i \in Slots : ~(try[i].op = "CUT" /\ try[i].pc = "CREATE" /\ Cut(i) = n)
  BY DEF Stuck, Made
<1>2. spec'[c].approved /\ ~spec'[c].superseded /\ ~spec'[n].exists
  BY <1>1
<1>3. ASSUME NEW i \in Slots, try'[i].op = "CUT", try'[i].pc = "CREATE", Cut(i)' = n PROVE FALSE
  <2>1. CutTryKept(i)
    BY <1>3
  <2>. QED
    BY <1>1, <1>3, <2>1 DEF CutTryKept, Cut
<1>. QED
  BY <1>1, <1>2, <1>3 DEF Stuck, Made

LEMMA BlockedStep ==
  ASSUME XInv, IInv', Steady, RowsGo, VerdictsStay, campaign' = campaign,
         \A d \in Durations : Stuck(d) => Stuck(d)'
  PROVE  Blocked'
<1>. SUFFICES ASSUME campaign.visit > 1 PROVE Blocked'
  BY DEF Blocked
<1>1. CASE \E d \in Durations : Stuck(d)
  BY <1>1 DEF Blocked
<1>2. ASSUME NEW c \in Cuts, c[2] < campaign.visit, NEW r \in DOMAIN rows[c], Lost(c, r)
      PROVE  r \in DOMAIN rows'[c] /\ Lost(c, r)'
  <2>1. IInv /\ Past(c)
    BY <1>2 DEF XInv, Past
  <2>2. r \in DOMAIN rows'[c]
    BY DEF RowsGo
  <2>3. rows[c][r].status # "READY" /\ (Refused(c) \/ No("QA", c) \/ Bare(c, r))
    BY <1>2 DEF Lost
  <2>4. rows'[c][r].status # "READY"
    BY <2>3 DEF RowsGo, Bare
  <2>5. Refused(c)' \/ No("QA", c)' \/ Bare(c, r)'
    BY <1>2, <2>1, <2>3, NoQaStays, BareStays DEF VerdictsStay, Steady
  <2>. QED
    BY <2>2, <2>4, <2>5 DEF Lost
<1>3. CASE \E c \in Cuts : c[2] < campaign.visit /\ \E r \in DOMAIN rows[c] : Lost(c, r)
  BY <1>2, <1>3 DEF Blocked
<1>. QED
  BY <1>1, <1>3 DEF XInv, Blocked

\* A step within a visit.
LEMMA StepKeeps ==
  ASSUME XInv, IInv', campaign' = campaign, Steady, RowsGo, VerdictsStay, SpecGoes,
         \A c \in Cuts : AtQa(c) /\ ~No("QA", c)' => AtQa(c)' \/ Settled(c)',
         \A j \in Slots : FreezeFits(j)',
         \A c \in Cuts : /\ child'.cut => child.cut \/ (c[2] = campaign.visit => Made(c)')
                         /\ Made(c)' => Made(c) \/ c[2] <= campaign.visit
                         /\ spec'[c].superseded => spec[c].superseded \/ c[2] < campaign.visit,
         child.cut => child'.cut,
         \A j \in Slots : TryMade(j)',
         \A d \in Durations : Stuck(d) => Stuck(d)'
  PROVE  XInv'
<1>1. QaStands'
  BY QaStandsStep
<1>2. \A c \in Cuts : CutMade(c)'
  BY CutMadeStays
<1>3. CutsMade'
  BY <1>2 DEF XInv, CutsMade, Steady, Onwards
<1>4. Blocked'
  BY BlockedStep
<1>. QED
  BY <1>1, <1>3, <1>4 DEF XInv, SpecGoes

\* One that makes and supersedes no cut.
LEMMA PlainStep ==
  ASSUME XInv, IInv', campaign' = campaign, Steady, CutHeld, RowsGo, VerdictsStay, SpecGoes,
         \A c \in Cuts : AtQa(c) /\ ~No("QA", c)' => AtQa(c)' \/ Settled(c)',
         \A j \in Slots : FreezeFits(j)', \A j \in Slots : CutTryKept(j),
         \A c \in Cuts : /\ Made(c)' => Made(c)
                         /\ spec'[c].superseded => spec[c].superseded
  PROVE  XInv'
<1>1. \A j \in Slots : TryMade(j)'
  BY TryMadeStays DEF Steady
<1>2. ASSUME NEW d \in Durations, Stuck(d) PROVE Stuck(d)'
  <2>1. <<d, campaign.visit - 1>> \in Cuts /\ <<d, campaign.visit>> \in Cuts
    BY <1>2 DEF Stuck
  <2>. QED
    BY <1>2, <2>1, StuckStays DEF SpecGoes, Made
<1>3. \A c \in Cuts : CutMade(c)
  BY DEF XInv, CutsMade
<1>4. \A c \in Cuts : /\ child'.cut => child.cut \/ (c[2] = campaign.visit => Made(c)')
                      /\ Made(c)' => Made(c) \/ c[2] <= campaign.visit
                      /\ spec'[c].superseded => spec[c].superseded \/ c[2] < campaign.visit
  BY DEF CutHeld
<1>. QED
  BY <1>1, <1>2, <1>4, StepKeeps DEF CutHeld

\* One that leaves the cuts alone, and the child at the QA.
LEMMA QuietStep ==
  ASSUME XInv, IInv', campaign' = campaign, spec' = spec, Steady, QaHeld, CutHeld,
         \A j \in Slots : CutTryKept(j), RowsGo, VerdictsStay,
         \A j \in Slots : FreezeFits(j)'
  PROVE  XInv'
<1>1. SpecGoes
  BY SameSpec DEF XInv
<1>. QED
  BY <1>1, AtQaHeld, PlainStep DEF Made

-----------------------------------------------------------------------------
(* The steps of the child, of the server, of dispatches, polls and cancels. *)

LEMMA FreezesStay ==
  ASSUME XInv, NoFreeze, VerdictsStay, RowsGo
  PROVE  \A j \in Slots : FreezeFits(j)'
BY FreezeStays

LEMMA ChildCallsX ==
  ASSUME XInv, IInv', campaign' = campaign, UNCHANGED stored, NEW i \in Slots,
         NEW op \in Ops \ {"NONE"}, NEW ch \in Children, Calls(i, op, ch),
         child.pc \in {"CUT", "RENDER", "POLL", "QA"}, op \in OpOf[child.pc],
         ch.pc = child.pc, ch.at = child.at, ch.cut = child.cut
  PROVE  XInv'
<1>1. /\ try' = [try EXCEPT ![i] = Fresh(op, ch)]
      /\ child' = [ch EXCEPT !.slot = i, !.tries = 1]
  BY DEF Calls
<1>2. /\ child'.pc = child.pc /\ child'.at = child.at /\ child'.slot = i /\ child'.cut = child.cut
  BY <1>1 DEF Children
<1>3. Steady /\ QaHeld /\ CutHeld /\ NoFreeze /\ \A j \in Slots : CutTryKept(j)
  BY <1>1, <1>2, BeginsMoves
<1>4. RowsGo /\ VerdictsStay /\ spec' = spec
  BY SameRows, SameAgent DEF stored
<1>. QED
  BY <1>3, <1>4, FreezesStay, QuietStep

LEMMA ChildAloneX ==
  ASSUME XInv, IInv', UNCHANGED <<campaign, try, stored>>, child'.cut = child.cut,
         child'.at = child.at, child'.slot = child.slot,
         child'.pc = child.pc \/ (child.pc = "RENDER" /\ child'.pc = "DONE")
  PROVE  XInv'
<1>1. RowsGo /\ VerdictsStay /\ spec' = spec
  BY SameRows, SameAgent DEF stored
<1>2. child.at \in Nat /\ \A j \in Slots : Cut(j)' = Cut(j)
  BY DEF XInv, IInv, TypesFit, ChildOK, Children, Durations, Cut
<1>3. Steady /\ QaHeld /\ CutHeld /\ NoFreeze /\ \A j \in Slots : CutTryKept(j)
  BY <1>2 DEF Steady, Tracks, Onwards, SlotKept, QaHeld, CutHeld, NoFreeze, CutTryKept, QaEnds
<1>. QED
  BY <1>1, <1>3, FreezesStay, QuietStep

LEMMA ChildActsX ==
  ASSUME XInv, IInv', ChildActs
  PROVE  XInv'
<1>1. campaign' = campaign /\ UNCHANGED stored /\ child \in Children
  BY DEF ChildActs, XInv, IInv, TypesFit, ChildOK
<1>2. CASE StopsBeforeRender
  <2>1. /\ child' = [child EXCEPT !.pc = "DONE", !.stopped = TRUE] /\ try' = try
        /\ child.pc = "RENDER"
    BY <1>2 DEF StopsBeforeRender
  <2>2. /\ child'.at = child.at /\ child'.slot = child.slot /\ child'.pc = "DONE"
        /\ child'.cut = child.cut
    BY <1>1, <2>1 DEF Children
  <2>. QED
    BY <1>1, <2>1, <2>2, ChildAloneX
<1>3. ASSUME NEW i \in Slots, AsksForCuts(i) PROVE XInv'
  <2>1. Calls(i, "CUT", child) /\ child.pc = "CUT"
    BY <1>3 DEF AsksForCuts
  <2>. QED
    BY <1>1, <2>1, ChildCallsX DEF Ops, OpOf
<1>4. ASSUME NEW i \in Slots, AsksForRender(i) PROVE XInv'
  <2>1. Calls(i, "DISPATCH", [child EXCEPT !.n = @ + 1]) /\ child.pc = "RENDER" /\ child.slot = 0
    BY <1>4 DEF AsksForRender, Waits
  <2>2. child.n < MaxAttempts /\ MaxAttempts \in Nat /\ child.n \in Nat
    BY <2>1, <1>1, Constants DEF Heard, XInv, IInv, ChildFits, ChildStands, Children
  <2>3. child.n + 1 \in 0 .. MaxAttempts
    BY <2>2
  <2>4. /\ [child EXCEPT !.n = @ + 1] \in Children /\ [child EXCEPT !.n = @ + 1].pc = child.pc
        /\ [child EXCEPT !.n = @ + 1].at = child.at
        /\ [child EXCEPT !.n = @ + 1].cut = child.cut
    BY <1>1, <2>3 DEF Children
  <2>5. PICK ch \in Children : ch = [child EXCEPT !.n = @ + 1]
    BY <2>4
  <2>6. ch.pc = child.pc /\ ch.at = child.at /\ ch.cut = child.cut /\ Calls(i, "DISPATCH", ch)
    BY <2>1, <2>4, <2>5
  <2>. QED
    BY <1>1, <2>1, <2>6, ChildCallsX DEF Ops, OpOf
<1>5. ASSUME NEW i \in Slots, AsksForPoll(i) PROVE XInv'
  <2>1. Calls(i, "POLL", child) /\ child.pc = "POLL"
    BY <1>5 DEF AsksForPoll
  <2>. QED
    BY <1>1, <2>1, ChildCallsX DEF Ops, OpOf
<1>6. ASSUME NEW i \in Slots, AsksForCancel(i) PROVE XInv'
  <2>1. Calls(i, "CANCEL", child) /\ child.pc = "POLL"
    BY <1>6 DEF AsksForCancel
  <2>. QED
    BY <1>1, <2>1, ChildCallsX DEF Ops, OpOf
<1>7. ASSUME NEW i \in Slots, AsksForQA(i) PROVE XInv'
  <2>1. Calls(i, "QA", child) /\ child.pc = "QA"
    BY <1>7 DEF AsksForQA
  <2>. QED
    BY <1>1, <2>1, ChildCallsX DEF Ops, OpOf
<1>. QED
  BY <1>2, <1>3, <1>4, <1>5, <1>6, <1>7 DEF ChildActs

LEMMA CancelSignalX ==
  ASSUME XInv, IInv', CancelSignal
  PROVE  XInv'
<1>1. /\ child' = [child EXCEPT !.cancelled = TRUE] /\ UNCHANGED <<campaign, try, stored>>
      /\ child \in Children
  BY DEF CancelSignal, XInv, IInv, TypesFit, ChildOK
<1>2. /\ child'.at = child.at /\ child'.slot = child.slot /\ child'.pc = child.pc
      /\ child'.cut = child.cut
  BY <1>1 DEF Children
<1>. QED
  BY <1>1, <1>2, ChildAloneX

LEMMA NoAnswerX ==
  ASSUME XInv, IInv', campaign' = campaign, UNCHANGED stored, NEW i \in Slots, NoAnswer(i)
  PROVE  XInv'
<1>1. Steady /\ QaHeld /\ CutHeld /\ NoFreeze /\ \A j \in Slots : CutTryKept(j)
  BY NoAnswerMoves
<1>2. RowsGo /\ VerdictsStay /\ spec' = spec
  BY SameRows, SameAgent DEF stored
<1>. QED
  BY <1>1, <1>2, FreezesStay, QuietStep

LEMMA TimeOutX ==
  ASSUME XInv, IInv', NEW i \in Slots, NEW j \in Slots, TimeOut(i, j)
  PROVE  XInv'
<1>1. /\ child.slot = i /\ try' = [try EXCEPT ![j] = Fresh(try[i].op, child)]
      /\ child' = [child EXCEPT !.slot = j, !.tries = @ + 1]
      /\ campaign' = campaign /\ UNCHANGED stored
  BY DEF TimeOut
<1>2. child \in Children /\ IInv /\ i # 0
  BY DEF XInv, IInv, TypesFit, ChildOK, Slots
<1>3. /\ try[i].op \in Ops \ {"NONE"} /\ child.pc \in {"CUT", "RENDER", "POLL", "QA"}
      /\ try[i].op \in OpOf[child.pc]
  BY <1>1, <1>2, CallerKey DEF Ops, OpOf
<1>4. /\ child'.pc = child.pc /\ child'.at = child.at /\ child'.slot = j /\ child'.cut = child.cut
  BY <1>1, <1>2 DEF Children
<1>5. Steady /\ QaHeld /\ CutHeld /\ NoFreeze /\ \A k \in Slots : CutTryKept(k)
  BY <1>1, <1>2, <1>3, <1>4, BeginsMoves
<1>6. RowsGo /\ VerdictsStay /\ spec' = spec
  BY <1>1, SameRows, SameAgent DEF stored
<1>. QED
  BY <1>1, <1>5, <1>6, FreezesStay, QuietStep

-----------------------------------------------------------------------------

\* The forms of what a try goes on to, all of its operation, its cut and its list of cuts.
On(w, pc) == [w EXCEPT !.pc = pc]
OnRow(w, row, pc) == [w EXCEPT !.row = row, !.pc = pc]
OnSight(w, saw, pc) == [w EXCEPT !.saw = saw, !.pc = pc]

LEMMA FormsKeep ==
  ASSUME NEW w \in Tries, NEW pc, NEW row, NEW saw
  PROVE  /\ On(w, pc).op = w.op /\ On(w, pc).cut = w.cut /\ On(w, pc).live = w.live
         /\ OnRow(w, row, pc).op = w.op /\ OnRow(w, row, pc).cut = w.cut
         /\ OnRow(w, row, pc).live = w.live
         /\ OnSight(w, saw, pc).op = w.op /\ OnSight(w, saw, pc).cut = w.cut
         /\ OnSight(w, saw, pc).live = w.live
<1>1. On(w, pc).op = w.op /\ On(w, pc).cut = w.cut /\ On(w, pc).live = w.live
  BY DEF Tries, On
<1>2. /\ OnRow(w, row, pc).op = w.op /\ OnRow(w, row, pc).cut = w.cut
      /\ OnRow(w, row, pc).live = w.live
  BY DEF Tries, OnRow
<1>3. /\ OnSight(w, saw, pc).op = w.op /\ OnSight(w, saw, pc).cut = w.cut
      /\ OnSight(w, saw, pc).live = w.live
  BY DEF Tries, OnSight
<1>. QED
  BY <1>1, <1>2, <1>3

\* What a try of a render's does: it goes on, answers, or ends without an answer.
Moves3(i) ==
  \/ \E pc : Goes(i, On(try[i], pc))
  \/ \E row, pc : Goes(i, OnRow(try[i], row, pc))
  \/ \E saw, pc : Goes(i, OnSight(try[i], saw, pc))
  \/ \E answer : Answers(i, answer)

LEMMA RenderStep ==
  ASSUME XInv, IInv', campaign' = campaign, NEW i \in Slots,
         try[i].op \in {"DISPATCH", "POLL", "CANCEL"}, Moves3(i),
         UNCHANGED <<agent, spec>>, RowsGo
  PROVE  XInv'
<1>0. IInv /\ try[i] \in Tries /\ Cut(i) = try[i].cut
  BY TryTyped DEF XInv, Cut, IInv
<1>1. ASSUME NEW r, Goes(i, r), r.op = try[i].op, r.cut = Cut(i), r.live = try[i].live
      PROVE  Steady /\ QaHeld /\ CutHeld /\ NoFreeze /\ \A j \in Slots : CutTryKept(j)
  <2>1. r.op \notin {"CUT", "QA"}
    BY <1>1
  <2>. QED
    BY <1>0, <1>1, <2>1, GoesMoves
<1>2. ASSUME NEW answer, Answers(i, answer)
      PROVE  Steady /\ QaHeld /\ CutHeld /\ NoFreeze /\ \A j \in Slots : CutTryKept(j)
  BY <1>0, <1>2, AnswersMoves
<1>3. Steady /\ QaHeld /\ CutHeld /\ NoFreeze /\ \A j \in Slots : CutTryKept(j)
  BY <1>0, <1>1, <1>2, FormsKeep DEF Moves3
<1>. QED
  BY <1>3, SameAgent, FreezesStay, QuietStep

LEMMA DispatchX ==
  ASSUME XInv, IInv', NEW i \in Slots,
         \/ TakeAttempt(i) \/ Reserve(i) \/ SubmitRender(i) \/ NoteJob(i)
         \/ ReleaseDispatch(i) \/ FailDispatch(i)
  PROVE  XInv'
<1>1. /\ campaign' = campaign /\ UNCHANGED <<agent, spec, rows>> /\ try[i].op = "DISPATCH"
  BY DEF TakeAttempt, Reserve, SubmitRender, NoteJob, ReleaseDispatch, FailDispatch, At
<1>2. Moves3(i)
  BY DEF Moves3, On, TakeAttempt, Reserve, SubmitRender, NoteJob, ReleaseDispatch, FailDispatch
<1>. QED
  BY <1>1, <1>2, SameRows, RenderStep

LEMMA CancelX ==
  ASSUME XInv, IInv', NEW i \in Slots,
         ReadForCancel(i) \/ StopJob(i) \/ ReleaseCancelled(i) \/ CancelAttempt(i)
  PROVE  XInv'
<1>1. /\ campaign' = campaign /\ UNCHANGED <<agent, spec, rows>> /\ try[i].op = "CANCEL"
  BY DEF ReadForCancel, StopJob, ReleaseCancelled, CancelAttempt, At, stored
<1>2. Moves3(i)
  BY DEF Moves3, On, ReadForCancel, StopJob, ReleaseCancelled, CancelAttempt
<1>. QED
  BY <1>1, <1>2, SameRows, RenderStep

LEMMA PollX ==
  ASSUME XInv, IInv', NEW i \in Slots,
         \/ ReadAttempt(i) \/ AskProvider(i) \/ NoteRunning(i) \/ FindRow(i)
         \/ ChargeRender(i) \/ ReleaseRender(i) \/ EndAttempt(i)
  PROVE  XInv'
<1>1. /\ campaign' = campaign /\ UNCHANGED <<agent, spec, rows>> /\ try[i].op = "POLL"
  BY DEF ReadAttempt, AskProvider, NoteRunning, FindRow, ChargeRender, ReleaseRender,
         EndAttempt, At, stored
<1>2. CASE ReadAttempt(i) \/ NoteRunning(i) \/ ChargeRender(i) \/ ReleaseRender(i) \/ EndAttempt(i)
  <2>1. Moves3(i)
    BY <1>2 DEF Moves3, On, ReadAttempt, NoteRunning, ChargeRender, ReleaseRender, EndAttempt
  <2>. QED
    BY <1>1, <2>1, SameRows, RenderStep
<1>3. CASE FindRow(i)
  <2>1. Moves3(i)
    BY <1>3 DEF Moves3, On, OnRow, FindRow
  <2>. QED
    BY <1>1, <2>1, SameRows, RenderStep
<1>4. CASE AskProvider(i)
  <2>1. Moves3(i)
    BY <1>4 DEF Moves3, OnSight, AskProvider
  <2>. QED
    BY <1>1, <2>1, SameRows, RenderStep
<1>. QED
  BY <1>2, <1>3, <1>4

-----------------------------------------------------------------------------
(* The polls that write a row.                                             *)

LEMMA PollIsOne ==
  ASSUME IInv, NEW i \in Slots, try[i].op = "POLL"
  PROVE  Cut(i) \in Cuts /\ ~No("POLL", Cut(i)) /\ Cut(i)[2] <= campaign.visit
<1>1. NotAhead(Cut(i)) /\ Cut(i) \in Cuts
  BY TryTyped DEF IInv, TriesFit, Called
<1>2. Cut(i)[2] \in Nat /\ campaign.visit \in Nat
  BY <1>1, CutNumbers
<1>. QED
  BY <1>1, <1>2 DEF No, NotAhead

LEMMA RowSetGoes ==
  ASSUME IInv, IInv', NEW c \in Cuts, NEW r \in DOMAIN rows[c], NEW row,
         rows' = [rows EXCEPT ![c] = [rows[c] EXCEPT ![r] = row]],
         rows[c][r].asset # 0 => row.asset # 0,
         rows[c][r].asset = 0 /\ row.asset # 0 => ~No("POLL", c),
         row.status = "READY" /\ rows[c][r].status # "READY" =>
           rows[c][r].asset # 0 /\ ~No("QA", c) /\ ~Refused(c)
  PROVE  RowsGo
<1>1. rows \in [Cuts -> Seq(RowRecords)] /\ rows[c] \in Seq(RowRecords)
  BY DEF IInv, TypesFit, StoredOK
<1>2. /\ \A d \in Cuts : d # c => rows'[d] = rows[d]
      /\ rows'[c] = [rows[c] EXCEPT ![r] = row]
  BY <1>1
<1>3. /\ DOMAIN rows'[c] = DOMAIN rows[c] /\ rows'[c][r] = row
      /\ \A s \in DOMAIN rows[c] : s # r => rows'[c][s] = rows[c][s]
  BY <1>1, <1>2
<1>4. rows[c] # <<>>
  BY <1>1
<1>. QED
  BY <1>2, <1>3, <1>4 DEF RowsGo

LEMMA AnswerSucceededX ==
  ASSUME XInv, IInv', NEW i \in Slots, AnswerSucceeded(i)
  PROVE  XInv'
<1>1. /\ try[i].op = "POLL" /\ campaign' = campaign
      /\ UNCHANGED <<agent, spec>> /\ Answers(i, "SUCCEEDED")
  BY DEF AnswerSucceeded, At
<1>2. PICK r \in DOMAIN rows[Cut(i)] :
        rows' = IF rows[Cut(i)][r].asset # 0 THEN rows
                ELSE [rows EXCEPT ![Cut(i)][r] = [status |-> "RENDERING", asset |-> try[i].n]]
  BY DEF AnswerSucceeded
<1>3. IInv /\ Cut(i) \in Cuts /\ ~No("POLL", Cut(i))
  BY <1>1, PollIsOne DEF XInv
<1>4. RowsGo
  <2>1. CASE rows' = rows
    BY <2>1, SameRows
  <2>2. CASE rows[Cut(i)][r].asset = 0
    <3> DEFINE row == [status |-> "RENDERING", asset |-> try[i].n]
    <3>1. rows' = [rows EXCEPT ![Cut(i)] = [rows[Cut(i)] EXCEPT ![r] = row]]
      BY <1>2, <2>2
    <3>2. row.status = "RENDERING"
      OBVIOUS
    <3> HIDE DEF row
    <3>. QED
      BY <1>3, <2>2, <3>1, <3>2, RowSetGoes
  <2>. QED
    BY <2>1, <2>2, <1>2
<1>. QED
  BY <1>1, <1>4, RenderStep DEF Moves3

LEMMA CreateRowX ==
  ASSUME XInv, IInv', NEW i \in Slots, CreateRow(i)
  PROVE  XInv'
<1> DEFINE c == Cut(i)
           row == [status |-> "PENDING", asset |-> 0]
           q == Append(rows[c], row)
<1>1. /\ try[i].op = "POLL" /\ campaign' = campaign /\ UNCHANGED <<agent, spec>>
      /\ rows' = [rows EXCEPT ![c] = q]
      /\ \E r, pc : Goes(i, OnRow(try[i], r, pc))
  BY DEF CreateRow, At, OnRow
<1>2. IInv /\ c \in Cuts /\ c[2] <= campaign.visit
  BY <1>1, PollIsOne DEF XInv
<1>3. rows \in [Cuts -> Seq(RowRecords)] /\ rows[c] \in Seq(RowRecords)
  BY <1>2 DEF IInv, TypesFit, StoredOK
<1>4. \A r \in DOMAIN rows[c] : r \in DOMAIN q /\ q[r] = rows[c][r]
  BY <1>3
<1>5. rows'[c] = q /\ \A d \in Cuts : d # c => rows'[d] = rows[d]
  BY <1>1, <1>2, <1>3
<1> HIDE DEF q
<1>6. RowsGo
  BY <1>2, <1>4, <1>5 DEF RowsGo
<1>. QED
  BY <1>1, <1>6, RenderStep DEF Moves3

LEMMA MarkRowX ==
  ASSUME XInv, IInv', NEW i \in Slots, MarkRow(i)
  PROVE  XInv'
<1> DEFINE c == Cut(i)
           r == try[i].row
<1>1. /\ try[i].op = "POLL" /\ try[i].pc = "MARK" /\ campaign' = campaign
      /\ UNCHANGED <<agent, spec>>
  BY DEF MarkRow, At
<1>2. IInv /\ c \in Cuts /\ ~No("POLL", c) /\ r \in DOMAIN rows[c] /\ try[i].n # 0
  <2>1. IInv /\ c \in Cuts /\ ~No("POLL", c)
    BY <1>1, PollIsOne DEF XInv
  <2>2. r \in DOMAIN rows[c] /\ try[i].n \in Attempts
    BY <1>1, <2>1, PollFinds DEF PollWorks
  <2>. QED
    BY <2>1, <2>2 DEF Attempts
<1>3. CASE try[i].saw = "SUCCEEDED"
  <2> DEFINE row == [status |-> "RENDERING", asset |-> try[i].n]
  <2>1. /\ rows' = [rows EXCEPT ![c] = [rows[c] EXCEPT ![r] = row]]
        /\ Goes(i, On(try[i], "CHARGE"))
    BY <1>3 DEF MarkRow, On
  <2>2. row.status = "RENDERING" /\ row.asset # 0
    BY <1>2
  <2> HIDE DEF row
  <2>3. RowsGo
    BY <1>2, <2>1, <2>2, RowSetGoes
  <2>. QED
    BY <1>1, <2>1, <2>3, RenderStep DEF Moves3
<1>4. CASE try[i].saw # "SUCCEEDED"
  <2> DEFINE row == [rows[c][r] EXCEPT !.status = "FAILED"]
  <2>1. rows' = [rows EXCEPT ![c][r].status = "FAILED"] /\ Answers(i, try[i].saw)
    BY <1>4 DEF MarkRow
  <2>2. rows' = [rows EXCEPT ![c] = [rows[c] EXCEPT ![r] = row]]
    BY <2>1
  <2>3. rows[c][r] \in RowRecords
    BY <1>2, RowType
  <2>4. row.asset = rows[c][r].asset /\ row.status = "FAILED"
    BY <2>3 DEF RowRecords
  <2> HIDE DEF row
  <2>5. RowsGo
    BY <1>2, <2>2, <2>4, RowSetGoes
  <2>. QED
    BY <1>1, <2>1, <2>5, RenderStep DEF Moves3
<1>. QED
  BY <1>3, <1>4

-----------------------------------------------------------------------------
(* The QA's steps.                                                         *)

\* An answer of the QA leaves the child's cut settled, where another try still judges it.
LEMMA QaAnswersX ==
  ASSUME XInv, IInv', campaign' = campaign, NEW i \in Slots, try[i].op = "QA",
         NEW answer, Answers(i, answer), RowsGo, VerdictsStay, SpecGoes,
         \A c \in Cuts : /\ Made(c)' => Made(c)
                         /\ spec'[c].superseded => spec[c].superseded,
         \A c \in Cuts : child.slot = i /\ c = Cut(i) /\ ~No("QA", c)' => Settled(c)'
  PROVE  XInv'
<1>1. /\ Steady /\ CutHeld /\ NoFreeze /\ \A j \in Slots : CutTryKept(j)
      /\ child.slot # i => QaHeld
  BY AnswersMoves DEF XInv
<1>2. ASSUME NEW c \in Cuts, AtQa(c), ~No("QA", c)'
      PROVE  AtQa(c)' \/ Settled(c)'
  <2>1. CASE child.slot # i
    BY <1>1, <1>2, <2>1, AtQaHeld
  <2>2. CASE child.slot = i
    <3>1. c = Current /\ IInv /\ i # 0
      BY <1>2 DEF AtQa, XInv, Slots
    <3>2. Cut(i) = Current
      BY <2>2, <3>1, CallerKey
    <3>. QED
      BY <1>2, <2>2, <3>1, <3>2
  <2>. QED
    BY <2>1, <2>2
<1>3. \A j \in Slots : FreezeFits(j)'
  BY <1>1, FreezesStay
<1>. QED
  BY <1>1, <1>2, <1>3, PlainStep

LEMMA ReadVariantX ==
  ASSUME XInv, IInv', NEW i \in Slots, ReadVariant(i)
  PROVE  XInv'
<1>1. /\ try[i].op = "QA" /\ campaign' = campaign /\ UNCHANGED stored
      /\ IInv /\ try[i] \in Tries /\ Cut(i) \in Cuts /\ Cut(i) = try[i].cut
  BY TryTyped DEF ReadVariant, At, XInv, IInv, Cut
<1>2. RowsGo /\ VerdictsStay /\ SpecGoes /\ spec' = spec
  BY <1>1, SameRows, SameAgent, SameSpec DEF stored, XInv
<1>3. ASSUME NEW r \in DOMAIN rows[Cut(i)], rows[Cut(i)][r].asset = 0, Answers(i, "NOT_RUN")
      PROVE  XInv'
  <2>1. try'[i] = Idle
    BY <1>1, <1>3, AnswersMoves
  <2>2. ASSUME NEW c \in Cuts, child.slot = i, c = Cut(i), ~No("QA", c)'
        PROVE  Settled(c)'
    <3>1. PICK j \in Slots : try'[j].op = "QA"
      BY <2>2 DEF No
    <3>2. No("POLL", c)'
      BY <2>1, <3>1 DEF No, Slots, Idle
    <3>3. r \in DOMAIN rows'[c] /\ rows'[c][r].asset = 0
      BY <1>1, <1>3, <2>2 DEF stored
    <3>. QED
      BY <3>2, <3>3 DEF Settled, Bare
  <2>. QED
    BY <1>1, <1>2, <1>3, <2>2, QaAnswersX DEF Made
<1>4. ASSUME NEW r, Goes(i, OnRow(try[i], r, "JUDGE"))
      PROVE  XInv'
  <2> DEFINE w == OnRow(try[i], r, "JUDGE")
  <2>1. w.op = "QA" /\ w.cut = Cut(i) /\ w.live = try[i].live /\ w.pc = "JUDGE"
    <3>1. w.op = try[i].op /\ w.cut = try[i].cut /\ w.live = try[i].live
      BY <1>1, FormsKeep
    <3>2. w.pc = "JUDGE"
      BY <1>1 DEF OnRow, Tries
    <3>. QED
      BY <1>1, <3>1, <3>2
  <2>2. Goes(i, w)
    BY <1>4
  <2> HIDE DEF w
  <2>3. Steady /\ QaHeld /\ CutHeld /\ NoFreeze /\ \A j \in Slots : CutTryKept(j)
    BY <1>1, <2>1, <2>2, GoesMoves
  <2>. QED
    BY <1>1, <1>2, <2>3, FreezesStay, QuietStep
<1>5. \/ \E r \in DOMAIN rows[Cut(i)] : rows[Cut(i)][r].asset = 0 /\ Answers(i, "NOT_RUN")
      \/ \E r : Goes(i, OnRow(try[i], r, "JUDGE"))
  BY DEF ReadVariant, OnRow
<1>. QED
  BY <1>3, <1>4, <1>5

LEMMA JudgeVariantX ==
  ASSUME XInv, IInv', NEW i \in Slots, JudgeVariant(i)
  PROVE  XInv'
<1>1. /\ try[i].op = "QA" /\ campaign' = campaign /\ UNCHANGED <<spec, rows>>
      /\ IInv /\ try[i] \in Tries /\ Cut(i) \in Cuts /\ Cut(i) = try[i].cut
  BY TryTyped DEF JudgeVariant, At, XInv, IInv, Cut
<1>2. RowsGo /\ SpecGoes
  BY <1>1, SameRows, SameSpec DEF XInv
<1>3. CASE /\ agent[Cut(i)].qa = "NONE" /\ UNCHANGED <<try, child>>
           /\ \E verdict : agent' = [agent EXCEPT ![Cut(i)].qa = verdict]
  <2>1. agent \in [Cuts -> [generator : {"NONE", "CUT", "REFUSED"},
                            qa : {"NONE", "PASS", "FAIL", "NOT_RUN"}]]
    BY <1>1 DEF IInv, TypesFit, StoredOK
  <2>2. \A c \in Cuts : agent[c].qa # "NONE" => agent'[c].qa = agent[c].qa
    BY <1>1, <1>3, <2>1
  <2>3. VerdictsStay
    BY <2>2 DEF VerdictsStay, Refused
  <2>4. Steady /\ QaHeld /\ NoFreeze /\ (\A j \in Slots : CutTryKept(j)) /\ CutHeld
    BY <1>1, <1>3, StillMoves DEF CutHeld
  <2>. QED
    BY <1>1, <1>2, <2>3, <2>4, FreezesStay, QuietStep
<1>4. CASE UNCHANGED agent /\ Answers(i, "NOT_RUN")
           /\ (campaign.stage # "VARIANT_GENERATION" \/ agent[Cut(i)].qa = "NOT_RUN")
  <2>1. VerdictsStay
    BY <1>4, SameAgent
  <2>2. ASSUME NEW c \in Cuts, child.slot = i, c = Cut(i)
        PROVE  Settled(c)'
    <3>1. campaign.stage = "VARIANT_GENERATION"
      BY <1>1, <2>2, CallerKey DEF Slots
    <3>2. Refused(c)'
      BY <1>4, <2>2, <3>1 DEF Refused
    <3>. QED
      BY <3>2 DEF Settled
  <2>. QED
    BY <1>1, <1>2, <1>4, <2>1, <2>2, QaAnswersX DEF Made
<1>5. CASE UNCHANGED agent /\ Goes(i, On(try[i], "WRITE"))
  <2> DEFINE w == On(try[i], "WRITE")
  <2>1. w.op = "QA" /\ w.cut = Cut(i) /\ w.live = try[i].live /\ w.pc = "WRITE"
    <3>1. w.op = try[i].op /\ w.cut = try[i].cut /\ w.live = try[i].live
      BY <1>1, FormsKeep
    <3>2. w.pc = "WRITE"
      BY <1>1 DEF On, Tries
    <3>. QED
      BY <1>1, <3>1, <3>2
  <2>2. Goes(i, w)
    BY <1>5
  <2> HIDE DEF w
  <2>3. Steady /\ QaHeld /\ CutHeld /\ NoFreeze /\ \A j \in Slots : CutTryKept(j)
    BY <1>1, <2>1, <2>2, GoesMoves
  <2>. QED
    BY <1>1, <1>2, <1>5, <2>3, SameAgent, FreezesStay, QuietStep
<1>. QED
  BY <1>3, <1>4, <1>5 DEF JudgeVariant, On

LEMMA WriteVerdictX ==
  ASSUME XInv, IInv', NEW i \in Slots, WriteVerdict(i)
  PROVE  XInv'
<1> DEFINE c == Cut(i)
           r == try[i].row
           status == IF agent[c].qa = "PASS" THEN "READY" ELSE "FAILED"
           row == [rows[c][r] EXCEPT !.status = status]
<1>1. /\ try[i].op = "QA" /\ try[i].pc = "WRITE" /\ campaign' = campaign
      /\ UNCHANGED <<agent, spec>>
      /\ rows' = [rows EXCEPT ![c][r].status = status]
      /\ IInv /\ try[i] \in Tries /\ c \in Cuts /\ c = try[i].cut
  BY TryTyped DEF WriteVerdict, At, XInv, IInv, Cut
<1>2. /\ r \in DOMAIN rows[c] /\ rows[c][r].asset # 0 /\ agent[c].qa \in {"PASS", "FAIL"}
  BY <1>1, QaFinds DEF QaWorks
<1>3. row.asset = rows[c][r].asset /\ row.status = status
  BY <1>1, <1>2, RowType DEF RowRecords
<1>4. rows' = [rows EXCEPT ![c] = [rows[c] EXCEPT ![r] = row]]
  BY <1>1
<1>5. ~No("QA", c)
  BY <1>1 DEF No
<1>6. row.status = "READY" => ~Refused(c)
  BY <1>3 DEF Refused
<1> HIDE DEF row
<1>7. RowsGo
  <2>1. /\ rows[c][r].asset # 0 => row.asset # 0
        /\ rows[c][r].asset = 0 /\ row.asset # 0 => ~No("POLL", c)
        /\ row.status = "READY" /\ rows[c][r].status # "READY" =>
             rows[c][r].asset # 0 /\ ~No("QA", c) /\ ~Refused(c)
    BY <1>2, <1>3, <1>5, <1>6
  <2>2. IInv /\ c \in Cuts /\ r \in DOMAIN rows[c]
    BY <1>1, <1>2
  <2> HIDE DEF c, r
  <2>. QED
    BY <1>4, <2>1, <2>2, RowSetGoes
<1>8. VerdictsStay /\ SpecGoes
  BY <1>1, SameAgent, SameSpec DEF XInv
<1>9. CASE agent[c].qa = "PASS" /\ Goes(i, On(try[i], "FREEZE"))
  <2> DEFINE w == On(try[i], "FREEZE")
  <2>1. w.op = "QA" /\ w.cut = Cut(i) /\ w.live = try[i].live
    <3>1. w.op = try[i].op /\ w.cut = try[i].cut /\ w.live = try[i].live
      BY <1>1, FormsKeep
    <3>. QED
      BY <1>1, <3>1
  <2>2. Goes(i, w)
    BY <1>9
  <2> HIDE DEF w
  <2>3. Steady /\ QaHeld /\ CutHeld /\ \A j \in Slots : CutTryKept(j)
    BY <1>1, <2>1, <2>2, GoesMoves
  <2>4. Cut(i)' = c /\ \A j \in Slots \ {i} : try'[j] = try[j]
    BY <1>1, <2>1, <2>2 DEF Goes, Cut, IInv, TypesFit, TryOK
  <2>5. FreezeFits(i)'
    <3>1. rows'[c][r].asset # 0 /\ r \in DOMAIN rows'[c] /\ agent'[c].qa = "PASS"
      BY <1>1, <1>2, <1>7, <1>9 DEF RowsGo
    <3>. QED
      BY <2>4, <3>1 DEF FreezeFits
  <2>6. ASSUME NEW j \in Slots \ {i} PROVE FreezeFits(j)'
    <3>1. try'[j] = try[j] /\ Cut(j)' = Cut(j) /\ Cut(j) \in Cuts /\ FreezeFits(j)
      BY <1>1, <2>4, TryTyped DEF Cut, XInv, QaStands, IInv
    <3>. QED
      BY <3>1, <1>7, <1>8 DEF FreezeFits, VerdictsStay, RowsGo
  <2>. QED
    BY <1>1, <1>7, <1>8, <2>3, <2>5, <2>6, QuietStep
<1>10. CASE agent[c].qa # "PASS" /\ Answers(i, "FAIL")
  <2>1. ASSUME NEW d \in Cuts, d = Cut(i) PROVE Settled(d)'
    BY <1>1, <1>2, <1>10, <2>1 DEF Settled, Refused
  <2>. QED
    BY <1>1, <1>7, <1>8, <1>10, <2>1, QaAnswersX DEF Made
<1>. QED
  BY <1>9, <1>10 DEF WriteVerdict, On

LEMMA FreezeCutX ==
  ASSUME XInv, IInv', NEW i \in Slots, FreezeCut(i)
  PROVE  XInv'
<1> DEFINE c == Cut(i)
<1>1. /\ try[i].op = "QA" /\ try[i].pc = "FREEZE" /\ campaign' = campaign
      /\ UNCHANGED <<agent, rows>> /\ Answers(i, "PASS")
      /\ spec' = [spec EXCEPT ![c].approved = TRUE]
      /\ IInv /\ c \in Cuts
  BY TryTyped DEF FreezeCut, At, XInv, IInv
<1>2. RowsGo /\ VerdictsStay
  BY <1>1, SameRows, SameAgent
<1>3. /\ SpecOK' /\ spec'[c].approved
      /\ \A d \in Cuts : /\ Made(d)' <=> Made(d)
                         /\ spec'[d].superseded <=> spec[d].superseded
                         /\ spec[d].approved => spec'[d].approved
                         /\ d # c => spec'[d].approved = spec[d].approved
  <2>1. spec \in [Cuts -> [exists : BOOLEAN, superseded : BOOLEAN, approved : BOOLEAN]]
    BY DEF XInv, SpecOK
  <2>2. spec' \in [Cuts -> [exists : BOOLEAN, superseded : BOOLEAN, approved : BOOLEAN]]
    BY <1>1, <2>1
  <2>. QED
    BY <1>1, <2>1, <2>2 DEF SpecOK, Made
<1>4. ASSUME ~spec[c].approved, c[2] < campaign.visit PROVE Len(rows[c]) > 1
  <2>1. Settled(c) /\ agent[c].qa = "PASS"
    <3>1. ~AtQa(c)
      BY <1>1, <1>4, CutNumbers DEF AtQa
    <3>. QED
      BY <1>1, <3>1 DEF XInv, QaStands, FreezeFits
  <2>2. PICK r \in DOMAIN rows[c] : rows[c][r].asset = 0
    BY <1>4, <2>1 DEF Settled, Refused, Bare
  <2>3. PICK s \in DOMAIN rows[c] : rows[c][s].asset # 0
    BY <1>1 DEF XInv, QaStands, FreezeFits
  <2>4. DOMAIN rows[c] = 1 .. Len(rows[c]) /\ Len(rows[c]) \in Nat
    BY <1>1 DEF IInv, TypesFit, StoredOK
  <2>5. r # s
    BY <2>2, <2>3
  <2>. QED
    BY <2>2, <2>3, <2>4, <2>5
<1>5. SpecGoes
  BY <1>3, <1>4 DEF SpecGoes
<1>6. ASSUME NEW d \in Cuts, d = Cut(i) PROVE Settled(d)'
  BY <1>3, <1>6 DEF Settled
<1>. QED
  BY <1>1, <1>2, <1>3, <1>5, <1>6, QaAnswersX

-----------------------------------------------------------------------------
(* The steps that make cuts.                                               *)

LEMMA CutStepX ==
  ASSUME XInv, IInv', campaign' = campaign, rows' = rows, NEW i \in Slots,
         Steady, QaHeld, NoFreeze, VerdictsStay, SpecGoes,
         \A j \in Slots \ {i} : CutTryKept(j), TryMade(i)',
         \A c \in Cuts : /\ child'.cut => child.cut \/ (c[2] = campaign.visit => Made(c)')
                         /\ Made(c)' => Made(c) \/ c[2] <= campaign.visit
                         /\ spec'[c].superseded => spec[c].superseded \/ c[2] < campaign.visit,
         child.cut => child'.cut,
         \A d \in Durations : Stuck(d) => Stuck(d)'
  PROVE  XInv'
<1>1. RowsGo
  BY SameRows
<1>2. \A j \in Slots : FreezeFits(j)'
  BY <1>1, FreezesStay
<1>3. \A j \in Slots : TryMade(j)'
  BY <1>1, TryMadeStays DEF Steady
<1>4. \A c \in Cuts : AtQa(c) /\ ~No("QA", c)' => AtQa(c)' \/ Settled(c)'
  BY AtQaHeld
<1>. QED
  BY <1>1, <1>2, <1>3, <1>4, StepKeeps

\* What a try that makes cuts knows.
LEMMA CutFacts ==
  ASSUME XInv, NEW i \in Slots, try[i].op = "CUT"
  PROVE  /\ IInv /\ try[i] \in Tries /\ Cut(i) = try[i].cut
         /\ Cut(i) \in Cuts /\ Cut(i)[1] \in Durations /\ Cut(i)[2] \in Nat /\ campaign.visit \in Nat
         /\ Cut(i)[1] \in Nat /\ Cut(i) = <<Cut(i)[1], Cut(i)[2]>>
         /\ Cut(i)[2] <= campaign.visit
         /\ child.slot = i => Cut(i)[2] = campaign.visit
         /\ \A d \in Durations : d < Cut(i)[1] => <<d, Cut(i)[2]>> \in Cuts /\ Made(<<d, Cut(i)[2]>>)
         /\ try[i].pc = "SUPERSEDE" => Made(Cut(i))
         /\ try[i].pc \notin {"CREATE", "SUPERSEDE"} => try[i].live = {}
<1>1. IInv /\ try[i] \in Tries /\ Cut(i) = try[i].cut /\ Cut(i) \in Cuts
  BY TryTyped DEF XInv, IInv, Cut
<1>2. TryMade(i)
  BY DEF XInv, CutsMade
<1>3. \A d \in Durations : <<d, Cut(i)[2]>> \in Cuts
  BY <1>1, CutPairs DEF Durations
<1>4. Cut(i)[1] \in Nat /\ Cut(i)[1] \in Durations /\ Cut(i)[2] \in Nat /\ campaign.visit \in Nat
      /\ Cut(i) = <<Cut(i)[1], Cut(i)[2]>>
  BY <1>1, CutNumbers
<1>. QED
  BY <1>1, <1>2, <1>3, <1>4 DEF TryMade

\* The next cut of the visit, or the answer when the last is made.
LEMMA CutDoneX ==
  ASSUME XInv, IInv', campaign' = campaign, UNCHANGED stored, NEW i \in Slots,
         try[i].op = "CUT", Made(Cut(i)), CutDone(i)
  PROVE  XInv'
<1>1. RowsGo /\ VerdictsStay /\ SpecGoes /\ UNCHANGED <<spec, rows>>
  BY SameRows, SameAgent, SameSpec DEF stored, XInv
<1>2. /\ IInv /\ Cut(i) \in Cuts /\ Cut(i)[1] \in Durations /\ Cut(i)[2] \in Nat
      /\ campaign.visit \in Nat /\ Cut(i)[1] \in Nat /\ Cut(i) = <<Cut(i)[1], Cut(i)[2]>>
      /\ Cut(i)[2] <= campaign.visit
      /\ child.slot = i => Cut(i)[2] = campaign.visit
      /\ \A d \in Durations : d < Cut(i)[1] => Made(<<d, Cut(i)[2]>>)
  BY CutFacts
<1>3. \A c \in Cuts : Made(c)' = Made(c) /\ spec'[c].superseded = spec[c].superseded
  BY <1>1 DEF Made
<1>4. CASE Cut(i)[1] = Last /\ Answers(i, "CUT")
  <2>1. /\ Steady /\ NoFreeze /\ (\A j \in Slots : CutTryKept(j)) /\ QaHeld
        /\ child.slot # i => CutHeld
        /\ child.cut => child'.cut
    <3>1. child.slot # i => child' = child
      BY <1>4 DEF Answers
    <3>. QED
      BY <1>2, <1>4, <3>1, AnswersMoves DEF CutHeld
  <2>2. TryMade(i)'
    BY <1>1, <2>1, TryMadeStays DEF Steady
  <2>3. ASSUME NEW c \in Cuts, child'.cut, ~child.cut, c[2] = campaign.visit
        PROVE  Made(c)
    <3>1. child.slot = i
      BY <2>1, <2>3 DEF CutHeld
    <3>2. c[1] \in Nat /\ c = <<c[1], c[2]>> /\ c[1] \in Durations /\ c[1] <= Last
      BY CutPairs, Constants DEF Durations, Last
    <3>3. CASE c[1] < Last
      BY <1>2, <1>4, <2>3, <3>1, <3>2, <3>3
    <3>4. CASE c[1] = Last
      BY <1>2, <1>4, <2>3, <3>1, <3>2, <3>4
    <3>. QED
      BY <3>2, <3>3, <3>4, <1>2, <1>4
  <2>4. ASSUME NEW d \in Durations, Stuck(d) PROVE Stuck(d)'
    BY <1>1, <2>1, <2>4, StuckStays
  <2>. QED
    BY <1>1, <1>3, <2>1, <2>2, <2>3, <2>4, CutStepX
<1>5. CASE Cut(i)[1] # Last
  <2>0. PICK v \in Nat, e \in Nat : v = Cut(i)[2] /\ e = Cut(i)[1]
    BY <1>2
  <2> DEFINE n == <<e + 1, v>>
             r == [Idle EXCEPT !.op = "CUT", !.cut = n, !.pc = "AGENT"]
  <2>1. Goes(i, r)
    BY <1>5, <2>0 DEF CutDone
  <2>2. r.op = "CUT" /\ r.cut = n /\ r.pc = "AGENT" /\ r.live = {} /\ r.cut[2] = v
        /\ r.cut[1] = e + 1
    BY DEF Idle
  <2> HIDE DEF r, n
  <2>3. /\ Steady /\ QaHeld /\ CutHeld /\ NoFreeze /\ \A j \in Slots \ {i} : CutTryKept(j)
        /\ try'[i] = r
    BY <1>2, <2>0, <2>1, <2>2, GoesMoves
  <2>4. child' = child /\ Cut(i)' = r.cut
    BY <2>1, <2>3 DEF Goes, Cut
  <2>5. \A d \in Durations : d < e + 1 => Made(<<d, v>>)'
    <3>. SUFFICES ASSUME NEW d \in Durations, d < e + 1 PROVE Made(<<d, v>>)
      BY <1>1 DEF Made
    <3>1. d \in Nat
      BY DEF Durations
    <3>2. d < e \/ d = e
      BY <2>0, <3>1
    <3>. QED
      BY <1>2, <2>0, <3>2
  <2>6. TryMade(i)'
    BY <1>2, <2>0, <2>2, <2>3, <2>4, <2>5 DEF TryMade
  <2>7. ASSUME NEW d \in Durations, Stuck(d) PROVE Stuck(d)'
    BY <1>1, <2>2, <2>3, <2>7, StuckStays
  <2>. QED
    BY <1>1, <1>3, <2>3, <2>6, <2>7, CutStepX DEF CutHeld
<1>. QED
  BY <1>4, <1>5 DEF CutDone

LEMMA CutAgentX ==
  ASSUME XInv, IInv', NEW i \in Slots, CutAgent(i)
  PROVE  XInv'
<1>1. try[i].op = "CUT" /\ try[i].pc = "AGENT" /\ campaign' = campaign /\ UNCHANGED <<spec, rows>>
  BY DEF CutAgent, At
<1>2. IInv /\ try[i] \in Tries /\ Cut(i) = try[i].cut /\ Cut(i) \in Cuts /\ try[i].live = {}
  BY <1>1, CutFacts
<1>3. RowsGo /\ SpecGoes
  BY <1>1, SameRows, SameSpec DEF XInv
<1>4. VerdictsStay
  <2>1. agent \in [Cuts -> [generator : {"NONE", "CUT", "REFUSED"},
                            qa : {"NONE", "PASS", "FAIL", "NOT_RUN"}]]
    BY <1>2 DEF IInv, TypesFit, StoredOK
  <2>2. ASSUME NEW answer, agent' = [agent EXCEPT ![Cut(i)].generator = answer]
        PROVE  \A c \in Cuts : agent'[c].qa = agent[c].qa
    BY <1>2, <2>1, <2>2
  <2>3. \A c \in Cuts : agent'[c].qa = agent[c].qa
    BY <2>2 DEF CutAgent
  <2>. QED
    BY <2>3 DEF VerdictsStay, Refused
<1>5. CASE UNCHANGED <<try, child>>
  <2>1. Steady /\ QaHeld /\ CutHeld /\ NoFreeze /\ \A j \in Slots : CutTryKept(j)
    BY <1>1, <1>2, <1>5, StillMoves DEF CutHeld
  <2>. QED
    BY <1>1, <1>3, <1>4, <2>1, FreezesStay, QuietStep
<1>6. CASE Answers(i, "REFUSED")
  <2>1. Steady /\ QaHeld /\ CutHeld /\ NoFreeze /\ \A j \in Slots : CutTryKept(j)
    BY <1>1, <1>2, <1>6, AnswersMoves
  <2>. QED
    BY <1>1, <1>3, <1>4, <2>1, FreezesStay, QuietStep
<1>7. CASE Goes(i, On(try[i], "SIBLINGS"))
  <2> DEFINE w == On(try[i], "SIBLINGS")
  <2>1. w.op = "CUT" /\ w.cut = Cut(i) /\ w.live = {} /\ w.pc = "SIBLINGS"
    <3>1. w.op = try[i].op /\ w.cut = try[i].cut /\ w.live = try[i].live
      BY <1>2, FormsKeep
    <3>2. w.pc = "SIBLINGS"
      BY <1>2 DEF On, Tries
    <3>. QED
      BY <1>1, <1>2, <3>1, <3>2
  <2>2. Goes(i, w)
    BY <1>7
  <2> HIDE DEF w
  <2>3. /\ Steady /\ QaHeld /\ CutHeld /\ NoFreeze /\ \A j \in Slots \ {i} : CutTryKept(j)
        /\ try'[i] = w
    BY <1>1, <1>2, <2>1, <2>2, GoesMoves
  <2>4. child' = child /\ Cut(i)' = Cut(i)
    BY <2>1, <2>2, <2>3 DEF Goes, Cut
  <2>5. \A c : Made(c)' = Made(c) /\ spec' = spec
    BY <1>1 DEF Made
  <2>6. TryMade(i)'
    <3>1. TryMade(i)
      BY DEF XInv, CutsMade
    <3>. QED
      BY <1>1, <2>1, <2>3, <2>4, <2>5, <3>1 DEF TryMade
  <2>7. ASSUME NEW d \in Durations, Stuck(d) PROVE Stuck(d)'
    BY <1>1, <2>1, <2>3, <2>7, StuckStays
  <2>. QED
    BY <1>1, <1>3, <1>4, <2>3, <2>5, <2>6, <2>7, CutStepX DEF CutHeld
<1>. QED
  BY <1>5, <1>6, <1>7 DEF CutAgent, On

LEMMA ReadSiblingsX ==
  ASSUME XInv, IInv', NEW i \in Slots, ReadSiblings(i)
  PROVE  XInv'
<1>1. try[i].op = "CUT" /\ try[i].pc = "SIBLINGS" /\ campaign' = campaign /\ UNCHANGED stored
  BY DEF ReadSiblings, At
<1>2. /\ IInv /\ try[i] \in Tries /\ Cut(i) = try[i].cut /\ Cut(i) \in Cuts
      /\ Cut(i)[2] \in Nat /\ campaign.visit \in Nat /\ Cut(i)[2] <= campaign.visit
      /\ Cut(i) = <<Cut(i)[1], Cut(i)[2]>>
      /\ child.slot = i => Cut(i)[2] = campaign.visit
      /\ \A d \in Durations : d < Cut(i)[1] => Made(<<d, Cut(i)[2]>>)
  BY <1>1, CutFacts
<1>3. RowsGo /\ VerdictsStay /\ SpecGoes /\ UNCHANGED <<spec, rows>>
  BY <1>1, SameRows, SameAgent, SameSpec DEF stored, XInv
<1>4. CASE spec[Cut(i)].exists /\ CutDone(i)
  BY <1>1, <1>4, CutDoneX DEF Made
<1>5. CASE NoAnswer(i)
  BY <1>1, <1>5, NoAnswerX
<1>6. CASE /\ ~spec[Cut(i)].exists /\ ~\E s \in Live(Cut(i)) : spec[s].approved
           /\ Goes(i, [try[i] EXCEPT !.pc = "CREATE", !.live = Live(Cut(i))])
  <2> DEFINE w == [try[i] EXCEPT !.pc = "CREATE", !.live = Live(Cut(i))]
  <2>1. w.op = "CUT" /\ w.cut = Cut(i) /\ w.live = Live(Cut(i)) /\ w.pc = "CREATE"
    BY <1>1, <1>2 DEF Tries
  <2>2. Goes(i, w)
    BY <1>6
  <2> HIDE DEF w
  <2>3. /\ Steady /\ QaHeld /\ CutHeld /\ NoFreeze /\ \A j \in Slots \ {i} : CutTryKept(j)
        /\ try'[i] = w
    BY <1>1, <1>2, <2>1, <2>2, GoesMoves
  <2>4. child' = child /\ Cut(i)' = Cut(i)
    BY <2>1, <2>2, <2>3 DEF Goes, Cut
  <2>5. \A c : Made(c)' = Made(c) /\ spec' = spec
    BY <1>3 DEF Made
  <2>6. Cut(i)[2] = campaign.visit
    <3>1. ~(Cut(i)[2] < campaign.visit)
      BY <1>2, <1>6 DEF XInv, CutsMade, CutMade, Made
    <3>. QED
      BY <1>2, <3>1
  <2>7. ASSUME NEW s \in Live(Cut(i))
        PROVE  s[1] = Cut(i)[1] /\ s[2] < Cut(i)[2] /\ ~spec[s].approved
    <3>1. s \in Cuts /\ s[1] = Cut(i)[1] /\ spec[s].exists /\ ~spec[s].approved
      BY <1>6, <2>7 DEF Live, Siblings
    <3>2. s[2] \in Nat /\ s = <<s[1], s[2]>> /\ s[2] <= campaign.visit
      BY <1>2, <3>1, CutNumbers DEF XInv, CutsMade, CutMade, Made
    <3>3. s # Cut(i)
      BY <1>6, <3>1
    <3>. QED
      BY <1>2, <2>6, <3>1, <3>2, <3>3
  <2>8. TryMade(i)'
    <3>1. \A s \in try'[i].live : s[1] = Cut(i)[1] /\ s[2] < Cut(i)[2] /\ ~spec'[s].approved
      BY <2>1, <2>3, <2>5, <2>7
    <3>2. \A d \in Durations : d < Cut(i)[1] => spec'[<<d, Cut(i)[2]>>].exists
      BY <1>2, <2>5 DEF Made
    <3>. QED
      BY <1>1, <1>2, <2>1, <2>3, <2>4, <3>1, <3>2 DEF TryMade, Made
  <2>9. ASSUME NEW d \in Durations, Stuck(d) PROVE Stuck(d)'
    <3>0. PICK c, n : c = <<d, campaign.visit - 1>> /\ n = <<d, campaign.visit>>
      OBVIOUS
    <3>1. c \in Cuts /\ n \in Cuts /\ spec[c].approved /\ ~spec[c].superseded
      BY <2>9, <3>0 DEF Stuck
    <3>2. spec[c].exists
      BY <1>2, <3>0, <3>1 DEF XInv, CutsMade, CutMade, Made
    <3>3. Cut(i) # n
      BY <1>6, <3>0, <3>1, <3>2 DEF Live, Siblings
    <3>4. \A j \in Slots :
            \/ CutTryKept(j)
            \/ ~(try'[j].op = "CUT" /\ try'[j].pc = "CREATE" /\ Cut(j)' = n)
      BY <2>3, <2>4, <3>3
    <3>. QED
      BY <1>1, <1>3, <2>9, <3>0, <3>4, StuckStays
  <2>. QED
    BY <1>1, <1>3, <2>3, <2>5, <2>8, <2>9, CutStepX DEF CutHeld
<1>. QED
  BY <1>4, <1>5, <1>6 DEF ReadSiblings

LEMMA CreateCutX ==
  ASSUME XInv, IInv', NEW i \in Slots, CreateCut(i)
  PROVE  XInv'
<1>1. /\ try[i].op = "CUT" /\ try[i].pc = "CREATE" /\ campaign' = campaign
      /\ UNCHANGED <<agent, rows>>
  BY DEF CreateCut, At
<1>2. /\ IInv /\ try[i] \in Tries /\ Cut(i) = try[i].cut /\ Cut(i) \in Cuts
      /\ Cut(i)[2] \in Nat /\ campaign.visit \in Nat /\ Cut(i)[2] <= campaign.visit
  BY <1>1, CutFacts
<1>3. RowsGo /\ VerdictsStay
  BY <1>1, SameRows, SameAgent
<1>4. CASE NoAnswer(i) /\ UNCHANGED spec
  <2>1. UNCHANGED stored
    BY <1>4 DEF CreateCut, stored
  <2>. QED
    BY <1>1, <1>4, <2>1, NoAnswerX
<1>5. CASE spec' = [spec EXCEPT ![Cut(i)].exists = TRUE] /\ Goes(i, On(try[i], "SUPERSEDE"))
  <2> DEFINE w == On(try[i], "SUPERSEDE")
  <2>1. w.op = "CUT" /\ w.cut = Cut(i) /\ w.live = try[i].live /\ w.pc = "SUPERSEDE"
    <3>1. w.op = try[i].op /\ w.cut = try[i].cut /\ w.live = try[i].live
      BY <1>2, FormsKeep
    <3>2. w.pc = "SUPERSEDE"
      BY <1>2 DEF On, Tries
    <3>. QED
      BY <1>1, <1>2, <3>1, <3>2
  <2>2. Goes(i, w)
    BY <1>5
  <2> HIDE DEF w
  <2>3. /\ Steady /\ QaHeld /\ CutHeld /\ NoFreeze /\ \A j \in Slots \ {i} : CutTryKept(j)
        /\ try'[i] = w
    BY <1>1, <1>2, <2>1, <2>2, GoesMoves
  <2>4. child' = child /\ Cut(i)' = Cut(i)
    BY <2>1, <2>2, <2>3 DEF Goes, Cut
  <2>5. /\ SpecOK' /\ spec'[Cut(i)].exists
        /\ \A d \in Cuts : /\ spec'[d].superseded = spec[d].superseded
                           /\ spec'[d].approved = spec[d].approved
                           /\ spec[d].exists => spec'[d].exists
                           /\ d # Cut(i) => spec'[d].exists = spec[d].exists
    <3>1. spec \in [Cuts -> [exists : BOOLEAN, superseded : BOOLEAN, approved : BOOLEAN]]
      BY DEF XInv, SpecOK
    <3>2. spec' \in [Cuts -> [exists : BOOLEAN, superseded : BOOLEAN, approved : BOOLEAN]]
      BY <1>5, <3>1
    <3>. QED
      BY <1>2, <1>5, <3>1, <3>2 DEF SpecOK
  <2>6. SpecGoes
    BY <2>5 DEF SpecGoes, Made
  <2>7. TryMade(i)'
    <3>1. /\ TryMade(i) /\ try[i].live \subseteq Cuts
          /\ \A d \in Durations : d < Cut(i)[1] => <<d, Cut(i)[2]>> \in Cuts
      BY <1>1, <1>2, CutFacts DEF XInv, CutsMade, Tries
    <3>2. \A d \in Durations : d < Cut(i)[1] => spec'[<<d, Cut(i)[2]>>].exists
      BY <1>1, <2>5, <3>1 DEF TryMade, Made
    <3>3. \A c \in try[i].live :
            /\ c[1] = Cut(i)[1] /\ c[2] < Cut(i)[2]
            /\ spec'[c].approved /\ ~spec'[c].superseded => Len(rows'[c]) > 1
      BY <1>1, <2>5, <3>1 DEF TryMade
    <3>. QED
      BY <1>1, <2>1, <2>3, <2>4, <2>5, <3>1, <3>2, <3>3 DEF TryMade, Made
  <2>8. ASSUME NEW d \in Durations, Stuck(d) PROVE Stuck(d)'
    <3>0. PICK c, n : c = <<d, campaign.visit - 1>> /\ n = <<d, campaign.visit>>
      OBVIOUS
    <3>1. c \in Cuts /\ n \in Cuts /\ n # Cut(i)
      BY <1>1, <2>8, <3>0 DEF Stuck
    <3>2. \A j \in Slots :
            \/ CutTryKept(j)
            \/ ~(try'[j].op = "CUT" /\ try'[j].pc = "CREATE" /\ Cut(j)' = n)
      BY <2>1, <2>3
    <3>. QED
      BY <1>1, <2>5, <2>8, <3>0, <3>1, <3>2, StuckStays
  <2>. QED
    BY <1>1, <1>2, <1>3, <2>3, <2>5, <2>6, <2>7, <2>8, CutStepX DEF CutHeld, Made
<1>. QED
  BY <1>4, <1>5 DEF CreateCut, On

\* A cut that is superseded is of an earlier visit, and either not approved or one of
\* two rows.
LEMMA Supersedes ==
  ASSUME XInv, NEW i \in Slots, try[i].op = "CUT", try[i].pc = "SUPERSEDE", NEW s \in try[i].live
  PROVE  /\ s \in Cuts /\ s[1] = Cut(i)[1] /\ s[2] < Cut(i)[2] /\ s[2] < campaign.visit
         /\ spec[s].approved /\ ~spec[s].superseded => Len(rows[s]) > 1
<1>1. /\ try[i] \in Tries /\ Cut(i)[2] \in Nat /\ campaign.visit \in Nat
      /\ Cut(i)[2] <= campaign.visit /\ IInv
  BY CutFacts
<1>2. s \in Cuts
  BY <1>1 DEF Tries
<1>3. s[2] \in Nat
  BY <1>1, <1>2, CutNumbers
<1>4. TryMade(i)
  BY DEF XInv, CutsMade
<1>. QED
  BY <1>1, <1>2, <1>3, <1>4 DEF TryMade

LEMMA SupersedeCutsX ==
  ASSUME XInv, IInv', NEW i \in Slots, SupersedeCuts(i)
  PROVE  XInv'
<1>1. /\ try[i].op = "CUT" /\ try[i].pc = "SUPERSEDE" /\ campaign' = campaign
      /\ UNCHANGED <<agent, rows>>
  BY DEF SupersedeCuts, At
<1>2. /\ IInv /\ try[i] \in Tries /\ Cut(i) = try[i].cut /\ Cut(i) \in Cuts /\ Made(Cut(i))
      /\ Cut(i)[2] \in Nat /\ campaign.visit \in Nat /\ Cut(i)[2] <= campaign.visit
      /\ Cut(i) = <<Cut(i)[1], Cut(i)[2]>>
  BY <1>1, CutFacts
<1>3. RowsGo /\ VerdictsStay
  BY <1>1, SameRows, SameAgent
<1>4. CASE CutDone(i) /\ UNCHANGED spec
  <2>1. UNCHANGED stored
    BY <1>4 DEF SupersedeCuts, stored
  <2>. QED
    BY <1>1, <1>2, <1>4, <2>1, CutDoneX
<1>5. ASSUME NEW s \in try[i].live, spec' = [spec EXCEPT ![s].superseded = TRUE],
             Goes(i, [try[i] EXCEPT !.live = @ \ {s}])
      PROVE  XInv'
  <2> DEFINE w == [try[i] EXCEPT !.live = @ \ {s}]
  <2>1. w.op = "CUT" /\ w.cut = Cut(i) /\ w.live = try[i].live \ {s} /\ w.pc = "SUPERSEDE"
    BY <1>1, <1>2 DEF Tries
  <2>2. Goes(i, w)
    BY <1>5
  <2> HIDE DEF w
  <2>3. /\ Steady /\ QaHeld /\ CutHeld /\ NoFreeze /\ \A j \in Slots \ {i} : CutTryKept(j)
        /\ try'[i] = w
    BY <1>1, <1>2, <2>1, <2>2, GoesMoves
  <2>4. child' = child /\ Cut(i)' = Cut(i)
    BY <2>1, <2>2, <2>3 DEF Goes, Cut
  <2>5. s \in Cuts /\ s[1] = Cut(i)[1] /\ s[2] < Cut(i)[2] /\ s[2] < campaign.visit
    BY <1>1, <1>5, Supersedes
  <2>6. /\ SpecOK' /\ spec'[s].superseded
        /\ \A d \in Cuts : /\ spec'[d].exists = spec[d].exists
                           /\ spec'[d].approved = spec[d].approved
                           /\ spec[d].superseded => spec'[d].superseded
                           /\ d # s => spec'[d].superseded = spec[d].superseded
    <3>1. spec \in [Cuts -> [exists : BOOLEAN, superseded : BOOLEAN, approved : BOOLEAN]]
      BY DEF XInv, SpecOK
    <3>2. spec' \in [Cuts -> [exists : BOOLEAN, superseded : BOOLEAN, approved : BOOLEAN]]
      BY <1>5, <3>1
    <3>. QED
      BY <2>5, <1>5, <3>1, <3>2 DEF SpecOK
  <2>7. SpecGoes
    BY <2>6 DEF SpecGoes, Made
  <2>8. TryMade(i)'
    <3>1. /\ TryMade(i) /\ try[i].live \subseteq Cuts
          /\ \A d \in Durations : d < Cut(i)[1] => <<d, Cut(i)[2]>> \in Cuts
      BY <1>1, <1>2, CutFacts DEF XInv, CutsMade, Tries
    <3>2. \A d \in Durations : d < Cut(i)[1] => spec'[<<d, Cut(i)[2]>>].exists
      BY <1>1, <2>6, <3>1 DEF TryMade, Made
    <3>3. spec'[Cut(i)].exists
      BY <1>2, <2>6 DEF Made
    <3>4. \A c \in try[i].live \ {s} :
            /\ c[1] = Cut(i)[1] /\ c[2] < Cut(i)[2]
            /\ spec'[c].approved /\ ~spec'[c].superseded => Len(rows'[c]) > 1
      BY <1>1, <2>6, <3>1 DEF TryMade
    <3>. QED
      BY <1>1, <2>1, <2>3, <2>4, <3>1, <3>2, <3>3, <3>4 DEF TryMade, Made
  <2>9. ASSUME NEW d \in Durations, Stuck(d) PROVE Stuck(d)'
    <3>0. PICK c, n : c = <<d, campaign.visit - 1>> /\ n = <<d, campaign.visit>>
      OBVIOUS
    <3>1. c \in Cuts /\ n \in Cuts /\ ~Made(n)
      BY <2>9, <3>0 DEF Stuck
    <3>2. s # c
      <4>. SUFFICES ASSUME s = c PROVE FALSE
        OBVIOUS
      <4>1. s[1] = d /\ s[2] = campaign.visit - 1
        BY <3>0
      <4>2. Cut(i)[2] = campaign.visit
        BY <1>2, <2>5, <4>1
      <4>3. Cut(i) = n
        BY <1>2, <2>5, <3>0, <4>1, <4>2
      <4>. QED
        BY <1>2, <3>1, <4>3
    <3>3. \A j \in Slots :
            \/ CutTryKept(j)
            \/ ~(try'[j].op = "CUT" /\ try'[j].pc = "CREATE" /\ Cut(j)' = n)
      BY <2>1, <2>3
    <3>. QED
      BY <1>1, <2>6, <2>9, <3>0, <3>1, <3>2, <3>3, StuckStays
  <2>. QED
    BY <1>1, <1>2, <1>3, <2>3, <2>5, <2>6, <2>7, <2>8, <2>9, CutStepX DEF CutHeld, Made
<1>. QED
  BY <1>4, <1>5 DEF SupersedeCuts

-----------------------------------------------------------------------------
(* The campaign's moves.                                                   *)

\* Within the visit.
LEMMA CampaignMovesX ==
  ASSUME XInv, IInv', UNCHANGED <<child, try, stored>>, campaign'.visit = campaign.visit,
         campaign'.stage = campaign.stage \/ child.cut
  PROVE  XInv'
<1>1. UNCHANGED <<agent, spec, rows>> /\ Current' = Current /\ \A i \in Slots : Cut(i)' = Cut(i)
  BY DEF stored, Current, Cut
<1>2. SpecOK'
  BY <1>1 DEF XInv, SpecOK
<1>3. QaStands'
  BY <1>1 DEF XInv, QaStands, Past, AtQa, Settled, Refused, Bare, No, FreezeFits
<1>4. CutsMade'
  BY <1>1 DEF XInv, CutsMade, CutMade, TryMade, Made
<1>5. Blocked'
  <2>1. \A c, r : Lost(c, r)' <=> Lost(c, r)
    BY <1>1 DEF Lost, Refused, No, Bare
  <2>2. \A d : Stuck(d)' <=> Stuck(d)
    BY <1>1 DEF Stuck, Made
  <2>. QED
    BY <1>1, <2>1, <2>2 DEF XInv, Blocked
<1>. QED
  BY <1>2, <1>3, <1>4, <1>5 DEF XInv

LEMMA ChildReturnsX ==
  ASSUME XInv, IInv', ChildReturns
  PROVE  XInv' /\ (campaign'.stage = "EXPORTING" => campaign.stage = "EXPORTING")
<1>1. /\ UNCHANGED <<child, try, stored>> /\ campaign'.visit = campaign.visit
      /\ campaign'.stage = campaign.stage \/ (child.cut /\ campaign'.stage = "VARIANT_QA")
  BY DEF ChildReturns, Ends, Moves, XInv, IInv, TypesFit, CampaignOK
<1>. QED
  BY <1>1, CampaignMovesX

\* Once the child has made its cuts, no duration is stuck: a repaired campaign keeps a
\* lost row.
LEMMA LostRow ==
  ASSUME XInv, child.cut, campaign.visit > 1
  PROVE  \E c \in Cuts : c[2] < campaign.visit /\ \E r \in DOMAIN rows[c] : Lost(c, r)
<1>1. ASSUME NEW d \in Durations, Stuck(d) PROVE FALSE
  <2>1. <<d, campaign.visit>> \in Cuts /\ ~Made(<<d, campaign.visit>>)
    BY <1>1 DEF Stuck
  <2>2. CutMade(<<d, campaign.visit>>)
    BY <2>1 DEF XInv, CutsMade
  <2>. QED
    BY <2>1, <2>2 DEF CutMade
<1>. QED
  BY <1>1 DEF XInv, Blocked

\* The workflow goes back for a repair because of a row that FAILED: where nothing can
\* make it READY any more it is lost, and an approved cut is stuck.
LEMMA RepairX ==
  ASSUME XInv, IInv', campaign.stage = "VARIANT_QA", variantQAFailed,
         campaign.visit < MaxVisits,
         campaign' = [campaign EXCEPT !.stage = "VARIANT_GENERATION", !.visit = @ + 1],
         child' = NewChild, UNCHANGED <<try, stored>>
  PROVE  XInv'
<1>1. /\ UNCHANGED <<agent, spec, rows>> /\ \A i \in Slots : Cut(i)' = Cut(i)
      /\ IInv /\ child.pc = "DONE" /\ child.cut
      /\ campaign.visit \in 1 .. MaxVisits /\ MaxVisits \in Nat
  BY CurrentIsCut, Constants
     DEF stored, Cut, XInv, CutsMade, IInv, ChildFits, ChildStands
<1>2. /\ campaign'.visit = campaign.visit + 1 /\ campaign'.stage = "VARIANT_GENERATION"
      /\ child'.pc = "CUT" /\ child'.at = 1 /\ child'.slot = 0 /\ child'.cut = FALSE
  BY <1>1 DEF IInv, TypesFit, CampaignOK, NewChild
<1>3. \A c \in Cuts : c[2] \in Nat /\ c[2] >= 1 /\ (c[2] <= campaign.visit <=> c[2] < campaign'.visit)
  BY <1>1, <1>2, CutPairs
<1>4. \A c \in Cuts : CutMade(c)
  BY DEF XInv, CutsMade
<1>5. QaStands'
  <2>. SUFFICES ASSUME NEW j \in Slots
                PROVE  /\ try[j].op = "QA" => Past(Cut(j))' /\ Settled(Cut(j))'
                       /\ FreezeFits(j)'
    BY DEF QaStands
  <2>1. Cut(j) \in Cuts /\ FreezeFits(j) /\ (try[j].op = "QA" => Past(Cut(j)) /\ Settled(Cut(j)))
    BY <1>1, TryTyped DEF XInv, QaStands, IInv, AtQa
  <2>2. FreezeFits(j)'
    BY <1>1, <2>1 DEF FreezeFits
  <2>3. try[j].op = "QA" => Settled(Cut(j))'
    BY <1>1, <2>1 DEF Settled, Refused, Bare, No
  <2>4. Past(Cut(j)) => Past(Cut(j))'
    BY <1>1, <1>2, <1>3, <2>1, CutNumbers DEF Past, Current
  <2>. QED
    BY <2>1, <2>2, <2>3, <2>4
<1>6. CutsMade'
  <2>1. ASSUME NEW c \in Cuts PROVE CutMade(c)'
    BY <1>1, <1>2, <1>3, <1>4 DEF CutMade, Made
  <2>2. ASSUME NEW j \in Slots PROVE TryMade(j)'
    <3>1. TryMade(j) /\ Cut(j) \in Cuts /\ j # 0
      BY <1>1, TryTyped DEF XInv, CutsMade, IInv, Slots
    <3>2. Cut(j)[2] <= campaign.visit => Cut(j)[2] <= campaign'.visit
      BY <1>1, <1>2, <1>3, <3>1
    <3>. QED
      BY <1>1, <1>2, <3>1, <3>2 DEF TryMade, Made
  <2>. QED
    BY <1>2, <2>1, <2>2 DEF CutsMade
<1>7. \A c, r : Lost(c, r) => Lost(c, r)'
  BY <1>1 DEF Lost, Refused, No, Bare
<1>8. CASE campaign.visit > 1
  <2>1. PICK c \in Cuts : c[2] < campaign.visit /\ \E r \in DOMAIN rows[c] : Lost(c, r)
    BY <1>1, <1>8, LostRow
  <2>2. c[2] < campaign'.visit /\ \E r \in DOMAIN rows'[c] : Lost(c, r)'
    BY <1>1, <1>3, <1>7, <2>1
  <2>3. Blocked'
    BY <2>2 DEF Blocked
  <2>. QED
    BY <1>1, <1>5, <1>6, <2>3 DEF XInv, SpecOK
<1>9. CASE campaign.visit = 1
  <2>1. PICK x \in Rows : RowStatus(x) = "FAILED"
    BY DEF variantQAFailed
  <2>2. PICK c \in Cuts : \E r \in DOMAIN rows[c] : rows[c][r].status = "FAILED"
    BY <2>1 DEF Rows, RowStatus
  <2>6. PICK r \in DOMAIN rows[c] : rows[c][r].status = "FAILED"
    BY <2>2
  <2>3. c[2] <= campaign.visit /\ c[2] < campaign'.visit /\ c[2] = campaign.visit
    <3>1. rows[c] # <<>>
      BY <2>2
    <3>. QED
      BY <1>3, <1>4, <1>9, <3>1 DEF CutMade
  <2>4. CASE \E s \in DOMAIN rows[c] : Lost(c, s)
    <3>1. \E s \in DOMAIN rows'[c] : Lost(c, s)'
      BY <1>1, <1>7, <2>4
    <3>2. Blocked'
      BY <2>3, <3>1 DEF Blocked
    <3>. QED
      BY <1>1, <1>5, <1>6, <3>2 DEF XInv, SpecOK
  <2>5. CASE ~\E s \in DOMAIN rows[c] : Lost(c, s)
    <3>1. ~Refused(c) /\ ~No("QA", c)
      BY <2>6, <2>5 DEF Lost
    <3>2. Settled(c)
      BY <1>1, <3>1 DEF No, XInv, QaStands, AtQa
    <3>3. \A s \in DOMAIN rows[c] : ~Bare(c, s)
      <4>. SUFFICES ASSUME NEW s \in DOMAIN rows[c], Bare(c, s) PROVE FALSE
        OBVIOUS
      <4>1. rows[c][s].status # "READY"
        BY <1>1 DEF Bare, IInv, RowsFit
      <4>. QED
        BY <2>5, <4>1 DEF Lost
    <3>4. spec[c].approved
      BY <3>1, <3>2, <3>3 DEF Settled
    <3>5. PICK d \in Durations, n \in Cuts :
            d = c[1] /\ n = <<d, campaign'.visit>> /\ c = <<d, campaign'.visit - 1>>
            /\ n[2] = campaign'.visit
      <4>1. c[1] \in 1 .. NumDurations /\ c = <<c[1], c[2]>>
        BY CutPairs
      <4>2. c[2] = campaign'.visit - 1 /\ campaign'.visit \in 1 .. MaxVisits
        BY <1>1, <1>2, <2>3
      <4>3. <<c[1], campaign'.visit>> \in Cuts
        BY <4>1, <4>2, CutPairs
      <4>. QED
        BY <4>1, <4>2, <4>3 DEF Durations
    <3>6. ~spec[c].superseded /\ ~Made(n)
      BY <1>1, <1>2, <1>4, <2>3, <3>5 DEF CutMade
    <3>7. ASSUME NEW j \in Slots, try[j].op = "CUT", Cut(j) = n PROVE FALSE
      <4>1. n[2] <= campaign.visit
        BY <3>7 DEF XInv, CutsMade, TryMade
      <4>. QED
        BY <1>1, <1>2, <3>5, <4>1
    <3>8. Stuck(d)'
      BY <1>1, <3>4, <3>5, <3>6, <3>7 DEF Stuck, Made
    <3>9. Blocked'
      BY <3>8 DEF Blocked
    <3>. QED
      BY <1>1, <1>5, <1>6, <3>9 DEF XInv, SpecOK
  <2>. QED
    BY <2>4, <2>5
<1>. QED
  BY <1>1, <1>8, <1>9

LEMMA JudgeVariantsX ==
  ASSUME XInv, IInv', JudgeVariants, ExportsOnFirstVisit
  PROVE  XInv' /\ ExportsOnFirstVisit'
<1>1. campaign.stage = "VARIANT_QA" /\ child.cut /\ UNCHANGED <<try, stored>>
      /\ campaign.visit \in Nat /\ campaign.visit >= 1
  BY CurrentIsCut DEF JudgeVariants, XInv, CutsMade, IInv
<1>2. CASE variantQAPassed /\ Moves("EXPORTING") /\ UNCHANGED child
  <2>1. campaign'.visit = campaign.visit
    BY <1>2 DEF Moves, XInv, IInv, TypesFit, CampaignOK
  <2>2. XInv'
    BY <1>1, <1>2, <2>1, CampaignMovesX
  <2>3. campaign.visit = 1
    <3>. SUFFICES ASSUME campaign.visit > 1 PROVE FALSE
      BY <1>1
    <3>1. PICK c \in Cuts : \E r \in DOMAIN rows[c] : Lost(c, r)
      BY <1>1, LostRow
    <3>2. PICK r \in DOMAIN rows[c] : Lost(c, r)
      BY <3>1
    <3>3. <<c, r>> \in Rows
      BY <3>2 DEF Rows
    <3>4. RowStatus(<<c, r>>) = "READY"
      BY <1>2, <3>3 DEF variantQAPassed
    <3>. QED
      BY <3>2, <3>4 DEF RowStatus, Lost
  <2>. QED
    BY <2>1, <2>2, <2>3 DEF ExportsOnFirstVisit
<1>3. CASE /\ variantQAFailed /\ campaign.visit < MaxVisits
           /\ campaign' = [campaign EXCEPT !.stage = "VARIANT_GENERATION", !.visit = @ + 1]
           /\ child' = NewChild
  <2>1. campaign'.stage = "VARIANT_GENERATION"
    BY <1>3 DEF XInv, IInv, TypesFit, CampaignOK
  <2>. QED
    BY <1>1, <1>3, <2>1, RepairX DEF ExportsOnFirstVisit
<1>4. CASE Ends("BLOCKED") /\ UNCHANGED child
  <2>1. campaign'.visit = campaign.visit /\ campaign'.stage = campaign.stage
    BY <1>4 DEF Ends, XInv, IInv, TypesFit, CampaignOK
  <2>. QED
    BY <1>1, <1>4, <2>1, CampaignMovesX DEF ExportsOnFirstVisit
<1>. QED
  BY <1>2, <1>3, <1>4 DEF JudgeVariants

-----------------------------------------------------------------------------

LEMMA WorkX ==
  ASSUME XInv, IInv', NEW i \in Slots, Work(i)
  PROVE  XInv'
BY CutAgentX, ReadSiblingsX, CreateCutX, SupersedeCutsX, DispatchX, PollX, AnswerSucceededX,
   CreateRowX, MarkRowX, CancelX, ReadVariantX, JudgeVariantX, WriteVerdictX, FreezeCutX
   DEF Work

LEMMA WorkIsOfTries ==
  ASSUME NEW i \in Slots, Work(i)
  PROVE  campaign' = campaign
<1>1. CASE CutAgent(i) \/ ReadSiblings(i) \/ CreateCut(i) \/ SupersedeCuts(i)
  BY <1>1 DEF CutAgent, ReadSiblings, CreateCut, SupersedeCuts
<1>2. CASE \/ TakeAttempt(i) \/ Reserve(i) \/ SubmitRender(i) \/ NoteJob(i)
           \/ ReleaseDispatch(i) \/ FailDispatch(i)
  BY <1>2 DEF TakeAttempt, Reserve, SubmitRender, NoteJob, ReleaseDispatch, FailDispatch
<1>3. CASE \/ ReadAttempt(i) \/ AnswerSucceeded(i) \/ AskProvider(i) \/ NoteRunning(i)
           \/ FindRow(i) \/ CreateRow(i) \/ MarkRow(i) \/ ChargeRender(i) \/ ReleaseRender(i)
           \/ EndAttempt(i)
  BY <1>3 DEF ReadAttempt, AnswerSucceeded, AskProvider, NoteRunning, FindRow, CreateRow,
              MarkRow, ChargeRender, ReleaseRender, EndAttempt
<1>4. CASE \/ ReadForCancel(i) \/ StopJob(i) \/ ReleaseCancelled(i) \/ CancelAttempt(i)
           \/ ReadVariant(i) \/ JudgeVariant(i) \/ WriteVerdict(i) \/ FreezeCut(i)
  BY <1>4 DEF ReadForCancel, StopJob, ReleaseCancelled, CancelAttempt, ReadVariant,
              JudgeVariant, WriteVerdict, FreezeCut
<1>. QED
  BY <1>1, <1>2, <1>3, <1>4 DEF Work

LEMMA VisitsInit == Init => XInv /\ ExportsOnFirstVisit
<1>. SUFFICES ASSUME Init PROVE XInv /\ ExportsOnFirstVisit
  OBVIOUS
<1>1. IInv
  BY InitFits
<1>2. SpecOK
  BY DEF Init, SpecOK
<1>3. QaStands
  BY DEF Init, QaStands, FreezeFits, Idle
<1>4. CutsMade
  <2>1. \A c \in Cuts : c[2] \in Nat /\ ~(c[2] < 1)
    BY CutPairs
  <2>2. \A c \in Cuts : CutMade(c)
    BY <2>1 DEF Init, CutMade, Made, NewChild
  <2>3. \A i \in Slots : TryMade(i)
    BY DEF Init, TryMade, Idle
  <2>. QED
    BY <2>2, <2>3 DEF CutsMade, Init, NewChild
<1>5. Blocked /\ ExportsOnFirstVisit
  BY DEF Init, Blocked, ExportsOnFirstVisit
<1>. QED
  BY <1>1, <1>2, <1>3, <1>4, <1>5 DEF XInv

LEMMA VisitsNext ==
  ASSUME XInv, ExportsOnFirstVisit, [Next]_vars
  PROVE  XInv' /\ ExportsOnFirstVisit'
<1>1. IInv'
  BY NextKeeps DEF XInv
<1>2. CASE UNCHANGED vars
  <2>1. UNCHANGED <<campaign, child, try, stored>>
    BY <1>2 DEF vars, stored
  <2>. QED
    BY <1>1, <2>1, CampaignMovesX DEF ExportsOnFirstVisit
<1>3. CASE ChildActs \/ CancelSignal
  <2>1. campaign' = campaign
    BY <1>3 DEF ChildActs, CancelSignal
  <2>. QED
    BY <1>1, <1>3, <2>1, ChildActsX, CancelSignalX DEF ExportsOnFirstVisit
<1>4. CASE ChildReturns
  <2>1. campaign'.visit = campaign.visit
    BY <1>4 DEF ChildReturns, Ends, Moves, XInv, IInv, TypesFit, CampaignOK
  <2>. QED
    BY <1>1, <1>4, <2>1, ChildReturnsX DEF ExportsOnFirstVisit
<1>5. CASE JudgeVariants
  BY <1>1, <1>5, JudgeVariantsX
<1>6. ASSUME NEW i \in Slots, Work(i)
      PROVE  XInv' /\ ExportsOnFirstVisit'
  BY <1>1, <1>6, WorkX, WorkIsOfTries DEF ExportsOnFirstVisit
<1>7. ASSUME NEW i \in Slots, Die(i)
      PROVE  XInv' /\ ExportsOnFirstVisit'
  BY <1>1, <1>7, NoAnswerX DEF ExportsOnFirstVisit, Die
<1>8. ASSUME NEW i \in Slots, NEW j \in Slots, TimeOut(i, j)
      PROVE  XInv' /\ ExportsOnFirstVisit'
  <2>1. campaign' = campaign
    BY <1>8 DEF TimeOut
  <2>. QED
    BY <1>1, <1>8, <2>1, TimeOutX DEF ExportsOnFirstVisit
<1>. QED
  BY <1>2, <1>3, <1>4, <1>5, <1>6, <1>7, <1>8 DEF Next

\* Only one step supersedes a cut.
LEMMA SupersededBy ==
  ASSUME XInv, Next, NEW c \in Cuts, spec'[c].superseded, ~spec[c].superseded
  PROVE  \E i \in Slots : try[i].op = "CUT" /\ try[i].pc = "SUPERSEDE" /\ c \in try[i].live
<1>0. /\ spec' # spec
      /\ spec \in [Cuts -> [exists : BOOLEAN, superseded : BOOLEAN, approved : BOOLEAN]]
  BY DEF XInv, SpecOK
<1>1. PICK i \in Slots : CreateCut(i) \/ SupersedeCuts(i) \/ FreezeCut(i)
  <2>1. ~ChildActs /\ ~CancelSignal /\ ~ChildReturns /\ ~JudgeVariants
    BY <1>0 DEF ChildActs, CancelSignal, ChildReturns, JudgeVariants, stored
  <2>2. \A i, j \in Slots : ~Die(i) /\ ~TimeOut(i, j)
    BY <1>0 DEF Die, TimeOut, stored
  <2>3. PICK i \in Slots : Work(i)
    BY <2>1, <2>2 DEF Next
  <2>4. ~(CutAgent(i) \/ ReadSiblings(i))
    BY <1>0 DEF CutAgent, ReadSiblings, stored
  <2>5. ~(\/ TakeAttempt(i) \/ Reserve(i) \/ SubmitRender(i) \/ NoteJob(i)
          \/ ReleaseDispatch(i) \/ FailDispatch(i))
    BY <1>0 DEF TakeAttempt, Reserve, SubmitRender, NoteJob, ReleaseDispatch, FailDispatch
  <2>6. ~(\/ ReadAttempt(i) \/ AnswerSucceeded(i) \/ AskProvider(i) \/ NoteRunning(i)
          \/ FindRow(i) \/ CreateRow(i) \/ MarkRow(i) \/ ChargeRender(i) \/ ReleaseRender(i)
          \/ EndAttempt(i))
    BY <1>0 DEF ReadAttempt, AnswerSucceeded, AskProvider, NoteRunning, FindRow, CreateRow,
                MarkRow, ChargeRender, ReleaseRender, EndAttempt, stored
  <2>7. ~(\/ ReadForCancel(i) \/ StopJob(i) \/ ReleaseCancelled(i) \/ CancelAttempt(i)
          \/ ReadVariant(i) \/ JudgeVariant(i) \/ WriteVerdict(i))
    BY <1>0 DEF ReadForCancel, StopJob, ReleaseCancelled, CancelAttempt, ReadVariant,
                JudgeVariant, WriteVerdict, stored
  <2>. QED
    BY <2>3, <2>4, <2>5, <2>6, <2>7 DEF Work
<1>2. ~FreezeCut(i)
  <2>. SUFFICES ASSUME spec' = [spec EXCEPT ![Cut(i)].approved = TRUE] PROVE FALSE
    BY DEF FreezeCut
  <2>. QED
    BY <1>0
<1>3. ~CreateCut(i)
  <2>. SUFFICES ASSUME spec' = [spec EXCEPT ![Cut(i)].exists = TRUE] PROVE FALSE
    BY <1>0 DEF CreateCut
  <2>. QED
    BY <1>0
<1>4. /\ try[i].op = "CUT" /\ try[i].pc = "SUPERSEDE"
      /\ \E s \in try[i].live : spec' = [spec EXCEPT ![s].superseded = TRUE]
  BY <1>0, <1>1, <1>2, <1>3 DEF SupersedeCuts, At
<1>5. PICK s \in try[i].live : spec' = [spec EXCEPT ![s].superseded = TRUE]
  BY <1>4
<1>6. s = c
  BY <1>0, <1>5
<1>. QED
  BY <1>4, <1>5, <1>6

LEMMA FrozenStep ==
  ASSUME XInv, [Next]_vars
  PROVE  [\A c \in Cuts : spec[c].approved /\ ~spec[c].superseded /\ Len(rows[c]) <= 1
                            => ~spec'[c].superseded]_vars
<1>. SUFFICES ASSUME Next, NEW c \in Cuts, spec[c].approved, ~spec[c].superseded,
                     Len(rows[c]) <= 1, spec'[c].superseded
              PROVE  FALSE
  OBVIOUS
<1>1. PICK i \in Slots : try[i].op = "CUT" /\ try[i].pc = "SUPERSEDE" /\ c \in try[i].live
  BY SupersededBy
<1>2. Len(rows[c]) > 1
  BY <1>1, Supersedes
<1>3. Len(rows[c]) \in Nat
  BY DEF XInv, IInv, TypesFit, StoredOK
<1>. QED
  BY <1>2, <1>3

\* The invariant of the visits, and how far RepairedGoesOn is from holding: after a repair
\* the row it came for, or an approved cut in the way of the next, keeps variantQAPassed
\* false, so that no repair of any length brings the campaign to EXPORTING.
THEOREM RepairsNeverExport == Spec => [](XInv /\ ExportsOnFirstVisit)
<1>1. XInv /\ ExportsOnFirstVisit /\ [Next]_vars => XInv' /\ ExportsOnFirstVisit'
  BY VisitsNext
<1>. QED
  BY <1>1, VisitsInit, PTL DEF Spec

\* An approved cut of one row is never superseded.
THEOREM FrozenCutsStay == Spec => FrozenStays
<1>1. XInv /\ [Next]_vars =>
        [\A c \in Cuts : spec[c].approved /\ ~spec[c].superseded /\ Len(rows[c]) <= 1
                           => ~spec'[c].superseded]_vars
  BY FrozenStep
<1>2. Spec => [](XInv /\ ExportsOnFirstVisit)
  BY RepairsNeverExport
<1>. QED
  BY <1>1, <1>2, PTL DEF Spec, FrozenStays
=============================================================================
