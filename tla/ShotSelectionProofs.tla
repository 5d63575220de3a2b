------------------------ MODULE ShotSelectionProofs ------------------------
(***************************************************************************)
(* What a reviewer freezes is what he saw, no two edits take one revision, *)
(* and the campaign crosses with passed candidates only: for any number of *)
(* reviewers, shots, sets and revisions.                                   *)
(*                                                                         *)
(* A handler writes rows outside any transaction, some while after it took *)
(* its revision.  So a view is worth something only if nobody was writing  *)
(* when it was taken: whoever writes to the set later has to take another  *)
(* revision first, and the view's own revision no longer matches.          *)
(***************************************************************************)
EXTENDS ShotSelection, WellFoundedInduction, TLAPS

Row == [status : {"NO_ROW", "PENDING", "SELECTED", "REJECTED"}, candidate : Nat]

Sets == [status : {"ABSENT", "DRAFT", "APPROVED"}, script : Nat, revision : Nat,
         rows : [Positions -> Row], seen : [Positions -> Row]]

Steps == {"IDLE", "DRAFT", "CREATE", "ROWS", "LOOK", "SEEN", "EDIT", "SWAP", "WRITE",
          "HISTORY", "APPROVE", "CHECK", "FREEZE"}

Requests == [pc : Steps, op : {"NONE", "DRAFT", "SELECT", "REJECT", "APPROVE"},
             set : 0..MaxSets, script : Nat, position : Nat, candidate : Nat,
             revision : Nat, eligible : SUBSET (Positions \X Candidates), previous : Nat,
             seen : [Positions -> Row]]

Typed ==
  /\ script \in Scripts
  /\ passed \in [Shots -> SUBSET Candidates]
  /\ set \in [Versions -> Sets]
  /\ request \in [Reviewers -> Requests]
  /\ crossing \in [pc : {"IDLE", "SCRIPT", "ROWS"}, set : 0..MaxSets]
  /\ crossed \subseteq Versions

\* Candidate c has passed as one of the shot at p of that script.
HasPassed(s, p, c, ok) == <<s, p>> \in Shots /\ c \in ok[<<s, p>>]

\* Steps at which a request names a set that exists, and those at which it
\* still goes by the revision it looked at.
Named == Steps \ {"IDLE", "DRAFT", "CREATE"}
Looked == Named \ {"ROWS", "WRITE", "HISTORY"}
Viewed == {"SEEN", "APPROVE", "CHECK", "FREEZE"}

\* What a request holds of the sets and of the candidates that have passed.
Fits(q, sets, ok) ==
  /\ q.pc \in {"DRAFT", "CREATE"} => q.script \in Scripts
  /\ q.pc = "CREATE" => q.set \in Versions
  /\ q.pc \in Named => q.set \in Versions /\ sets[q.set].status # "ABSENT"
  /\ q.pc \in Looked => q.revision <= sets[q.set].revision
  /\ q.pc = "WRITE" => q.revision < sets[q.set].revision
  /\ q.pc \in {"EDIT", "SWAP", "WRITE", "HISTORY"} => q.position \in Positions
  /\ q.pc \in {"EDIT", "SWAP", "WRITE"} /\ q.op = "SELECT" =>
       q.candidate # None /\ HasPassed(sets[q.set].script, q.position, q.candidate, ok)
  /\ q.pc \in {"SWAP", "WRITE", "HISTORY"} /\ q.previous # None =>
       HasPassed(sets[q.set].script, q.position, q.previous, ok)
  /\ q.pc = "HISTORY" => q.previous # None

RequestsFit == \A r \in Reviewers : Fits(request[r], set, passed)

\* What the rows of a set hold, and when it is not there.
RowsFit(x, ok) ==
  /\ x.status # "ABSENT" => x.script \in Scripts
  /\ \A p \in Positions :
       /\ x.rows[p].candidate # None => HasPassed(x.script, p, x.rows[p].candidate, ok)
       /\ x.rows[p].status = "SELECTED" => x.rows[p].candidate # None

SetsFit == \A v \in Versions : RowsFit(set[v], passed)

HistoryFits ==
  \A h \in history :
    /\ h.set \in Versions /\ Exists(h.set)
    /\ HasPassed(set[h.set].script, h.position, h.previous, passed)

\* A view q of a set at rest that nobody has taken another revision of.
Current(q, sets) ==
  q.pc \in Viewed /\ q.seen # NoRows /\ q.revision = sets[q.set].revision

ViewsStand ==
  \A r \in Reviewers, v \in Versions :
    request[r].set = v /\ Current(request[r], set) => Quiet(v) /\ set[v].rows = request[r].seen

\* A set frozen as it was seen is written to no more.
FrozenStands ==
  \A v \in Versions :
    set[v].status = "APPROVED" /\ set[v].seen # NoRows => Quiet(v) /\ set[v].rows = set[v].seen

Crossing ==
  /\ crossing.pc # "IDLE" => crossing.set \in Versions /\ set[crossing.set].status = "APPROVED"
  /\ \A v \in crossed :
       /\ set[v].status = "APPROVED"
       /\ set[v].seen # NoRows => \A p \in RowsOf(v) : set[v].rows[p].status = "SELECTED"

IInv ==
  /\ Typed /\ RequestsFit /\ SetsFit /\ HistoryFits /\ ViewsStand /\ FrozenStands
  /\ Crossing /\ OneEditPerRevision

-----------------------------------------------------------------------------
(* The constants and the latest set.                                       *)

\* The constants, as the proofs use them.
LEMMA Constants ==
  /\ Positions \subseteq Nat
  /\ MaxSets \in Nat \ {0} /\ MaxScripts \in Nat \ {0} /\ MaxCandidates \in Nat \ {0}
  /\ \A g \in Generations : g[1] \in Shots /\ g[2] \in Candidates /\ g[3] \in BOOLEAN
  BY SelectionAssumption DEF SelectionAssumption, Shots, Scripts, Candidates

\* Less-than on the naturals, as a relation.
LEMMA LessThan ==
  \A p, q \in Nat : <<q, p>> \in OpToRel(<, Nat) <=> q < p
  BY DEF OpToRel

\* The latest set exists, if any does.
LEMMA LatestExists ==
  /\ Latest \in 0..MaxSets
  /\ Latest # None => Latest \in Versions /\ Exists(Latest)
<1>1. CASE ~\E v \in Versions : Exists(v)
  BY <1>1, Constants DEF Latest, None
<1>2. CASE \E v \in Versions : Exists(v)
  <2> DEFINE below == {n \in Nat : \E v \in Versions : Exists(v) /\ n = MaxSets - v}
  <2>1. \E R : IsWellFoundedOn(R, Nat) /\ \A p, q \in Nat : <<q, p>> \in R <=> q < p
    BY LessThan, NatLessThanWellFounded, Zenon
  <2>2. PICK R : IsWellFoundedOn(R, Nat) /\ \A p, q \in Nat : <<q, p>> \in R <=> q < p
    BY <2>1
  <2>3. below \subseteq Nat /\ below # {}
    <3>1. PICK v \in Versions : Exists(v)
      BY <1>2
    <3>2. MaxSets - v \in Nat
      BY Constants DEF Versions
    <3>3. MaxSets - v \in below
      BY <3>1, <3>2
    <3> QED BY <3>3
  <2>4. \E m \in below : \A n \in below : ~(<<n, m>> \in R)
    BY <2>2, <2>3, WFMin
  <2>5. PICK m \in below : \A n \in below : ~(<<n, m>> \in R)
    BY <2>4
  <2>6. PICK v \in Versions : Exists(v) /\ m = MaxSets - v
    BY <2>5
  <2>7. ASSUME NEW u \in Versions, Exists(u)
        PROVE  u <= v
    <3>1. MaxSets - u \in below
      BY <2>7, Constants DEF Versions
    <3>2. ~(MaxSets - u < m)
      BY <3>1, <2>2, <2>3, <2>5
    <3> QED BY <3>2, <2>6, Constants DEF Versions
  <2>8. Latest \in Versions /\ Exists(Latest)
    BY <1>2, <2>6, <2>7 DEF Latest
  <2> QED BY <2>8, Constants DEF Versions
<1> QED BY <1>1, <1>2

-----------------------------------------------------------------------------
(* The sets advance, and what requests hold of them stays true.            *)

\* A set that exists stays, for its script; its revision grows; once approved it
\* stays approved.  What has passed has passed for good.
Advances ==
  /\ \A v \in Versions :
       /\ set'[v] \in Sets
       /\ Exists(v) => /\ Exists(v)' /\ set'[v].script = set[v].script
                        /\ set[v].revision <= set'[v].revision
       /\ set[v].status = "APPROVED" => set'[v].status = "APPROVED"
  /\ \A s \in Shots : passed[s] \subseteq passed'[s]

\* Sets that stay advance.
LEMMA StayingAdvances ==
  ASSUME Typed, UNCHANGED <<set, passed>>
  PROVE  Advances
  BY DEF Advances, Typed, Exists, Sets

\* A candidate that has passed stays passed.
LEMMA PassedStays ==
  ASSUME Advances, NEW s, NEW p, NEW c, HasPassed(s, p, c, passed)
  PROVE  HasPassed(s, p, c, passed')
  BY DEF Advances, HasPassed

\* So what a request holds fits the advanced sets.
LEMMA FitsStays ==
  ASSUME Typed, Advances, NEW q \in Requests, Fits(q, set, passed)
  PROVE  Fits(q, set', passed')
<1>1. CASE q.pc \notin Named
  BY <1>1 DEF Fits, Named, Looked, Steps
<1>2. CASE q.pc \in Named
  <2>1. q.set \in Versions /\ set[q.set].status # "ABSENT"
    BY <1>2 DEF Fits
  <2>2. /\ set'[q.set].status # "ABSENT" /\ set'[q.set].script = set[q.set].script
        /\ set[q.set].revision <= set'[q.set].revision
    BY <2>1 DEF Advances, Exists
  <2>3. q.revision \in Nat /\ set[q.set].revision \in Nat /\ set'[q.set].revision \in Nat
    BY <2>1 DEF Requests, Typed, Sets, Advances
  <2>4. \A p, c : HasPassed(set[q.set].script, p, c, passed)
                    => HasPassed(set'[q.set].script, p, c, passed')
    BY <2>2, PassedStays
  <2>5. q.pc \notin {"DRAFT", "CREATE"}
    BY <1>2 DEF Named
  <2>6. /\ q.pc \in Looked => q.revision <= set'[q.set].revision
        /\ q.pc = "WRITE" => q.revision < set'[q.set].revision
    BY <2>2, <2>3 DEF Fits
  <2> QED BY <2>1, <2>2, <2>4, <2>5, <2>6 DEF Fits
<1> QED BY <1>1, <1>2

\* And the history names what has passed.
LEMMA HistoryStays ==
  ASSUME IInv, Advances, UNCHANGED history
  PROVE  HistoryFits'
<1> SUFFICES ASSUME NEW h \in history
             PROVE  /\ h.set \in Versions /\ Exists(h.set)'
                    /\ HasPassed(set'[h.set].script, h.position, h.previous, passed')
  BY DEF HistoryFits
<1>1. /\ h.set \in Versions /\ Exists(h.set)
      /\ HasPassed(set[h.set].script, h.position, h.previous, passed)
  BY DEF IInv, HistoryFits
<1>2. Exists(h.set)' /\ set'[h.set].script = set[h.set].script
  BY <1>1 DEF Advances
<1> QED BY <1>1, <1>2, PassedStays

\* One request goes on to q, which fits; the others keep what fits them.
LEMMA RequestsStay ==
  ASSUME IInv, Advances, NEW r \in Reviewers, NEW q \in Requests, Goes(r, q),
         Fits(q, set', passed')
  PROVE  /\ RequestsFit' /\ request' \in [Reviewers -> Requests]
         /\ request'[r] = q
         /\ \A w \in Reviewers : w # r => request'[w] = request[w]
<1>1. /\ request' \in [Reviewers -> Requests] /\ request'[r] = q
      /\ \A w \in Reviewers : w # r => request'[w] = request[w]
  BY DEF Goes, IInv, Typed
<1>2. ASSUME NEW w \in Reviewers
      PROVE  Fits(request'[w], set', passed')
  <2>1. CASE w = r
    BY <2>1, <1>1
  <2>2. CASE w # r
    <3>1. request[w] \in Requests /\ Fits(request[w], set, passed)
      BY DEF IInv, Typed, RequestsFit
    <3>2. Fits(request[w], set', passed')
      BY <3>1, FitsStays DEF IInv
    <3> QED BY <3>2, <2>2, <1>1
  <2> QED BY <2>1, <2>2
<1> QED BY <1>1, <1>2 DEF RequestsFit

\* What a request is.
LEMMA RequestTyped ==
  ASSUME IInv, NEW r \in Reviewers
  PROVE  request[r] \in Requests /\ Fits(request[r], set, passed)
  BY DEF IInv, Typed, RequestsFit

\* No request at all fits.
LEMMA IdleFits == Idle \in Requests /\ \A sets, ok : Fits(Idle, sets, ok)
<1>1. NoRows \in [Positions -> Row]
  BY DEF NoRows, NoRow, Row, None
<1>2. 0 \in 0..MaxSets
  BY Constants
<1>3. Idle \in Requests
  BY <1>1, <1>2 DEF Idle, Requests, Steps, None
<1> QED BY <1>3 DEF Fits, Idle, Named, Looked, Steps

-----------------------------------------------------------------------------
(* Steps that write to no set.                                             *)

\* A request that goes on without writing, and with no view but one that stands.
LEMMA GoesOn ==
  ASSUME IInv, NEW r \in Reviewers, NEW q \in Requests, Goes(r, q), Elsewhere, UNCHANGED set,
         HistoryFits',
         Fits(q, set, passed),
         q.pc \in {"ROWS", "WRITE"} => q = request[r],
         Current(q, set) => Quiet(q.set) /\ set[q.set].rows = q.seen
  PROVE  IInv'
<1>1. UNCHANGED <<script, passed, crossing, crossed>>
  BY DEF Elsewhere
<1>2. Advances
  BY <1>1, StayingAdvances DEF IInv
<1>3. /\ RequestsFit' /\ request' \in [Reviewers -> Requests] /\ request'[r] = q
      /\ \A w \in Reviewers : w # r => request'[w] = request[w]
  BY <1>1, <1>2, RequestsStay
<1>4. Typed'
  BY <1>1, <1>3 DEF IInv, Typed
<1>5. SetsFit' /\ Crossing'
  BY <1>1 DEF IInv, SetsFit, Crossing, RowsOf
<1>6. \A v : Quiet(v) => Quiet(v)'
  BY <1>3 DEF Quiet, Writing
<1>7. ViewsStand'
  <2> SUFFICES ASSUME NEW w \in Reviewers, NEW v \in Versions, request'[w].set = v,
                      Current(request'[w], set)
               PROVE  Quiet(v)' /\ set[v].rows = request'[w].seen
    BY DEF ViewsStand, Current
  <2>1. CASE w = r
    BY <2>1, <1>3, <1>6
  <2>2. CASE w # r
    <3>1. request'[w] = request[w]
      BY <2>2, <1>3
    <3> QED BY <3>1, <1>6 DEF IInv, ViewsStand
  <2> QED BY <2>1, <2>2
<1>8. FrozenStands'
  BY <1>6 DEF IInv, FrozenStands
<1>9. OneEditPerRevision'
  BY <1>3 DEF IInv, OneEditPerRevision, At
<1> QED BY <1>3, <1>4, <1>5, <1>7, <1>8, <1>9 DEF IInv

\* The history stays what it is when it is not written to.
LEMMA SameHistory ==
  ASSUME IInv, Elsewhere, UNCHANGED <<set, history>>
  PROVE  HistoryFits'
  BY DEF IInv, HistoryFits, Elsewhere, Exists

\* A request ends.
LEMMA EndKeeps ==
  ASSUME IInv, NEW r \in Reviewers, Ends(r), UNCHANGED <<set, history>>, Elsewhere
  PROVE  IInv'
<1>1. ~Current(Idle, set) /\ Idle.pc \notin {"ROWS", "WRITE"}
  BY DEF Current, Idle, Viewed
<1> QED BY <1>1, IdleFits, SameHistory, GoesOn DEF Ends

\* POST draft is asked for, and finds the version it is to create.
LEMMA DraftKeeps ==
  ASSUME IInv, NEW r \in Reviewers, AskDraft(r) \/ DraftVersion(r)
  PROVE  IInv'
<1>1. CASE AskDraft(r)
  <2> DEFINE q == [Idle EXCEPT !.pc = "DRAFT", !.op = "DRAFT", !.script = script]
  <2>1. script \in Scripts /\ script \in Nat
    BY Constants DEF IInv, Typed, Scripts
  <2>2. q \in Requests /\ q.pc = "DRAFT" /\ q.script = script
    BY <2>1, IdleFits DEF Requests, Steps, Idle
  <2> HIDE DEF q
  <2>3. Fits(q, set, passed) /\ ~Current(q, set)
    BY <2>1, <2>2 DEF Fits, Named, Looked, Current, Viewed
  <2>4. Goes(r, q) /\ UNCHANGED <<set, history>> /\ Elsewhere
    BY <1>1 DEF AskDraft, q
  <2> QED BY <2>2, <2>3, <2>4, SameHistory, GoesOn
<1>2. CASE DraftVersion(r)
  <2> DEFINE q == [request[r] EXCEPT !.pc = "CREATE", !.set = Latest + 1]
  <2>1. Ends(r) \/ (Latest < MaxSets /\ Goes(r, q))
    BY <1>2 DEF DraftVersion
  <2>2. UNCHANGED <<set, history>> /\ Elsewhere
    BY <1>2 DEF DraftVersion
  <2>3. CASE Ends(r)
    BY <2>2, <2>3, EndKeeps
  <2>4. CASE Latest < MaxSets /\ Goes(r, q)
    <3>1. request[r] \in Requests /\ request[r].script \in Scripts
      BY <1>2, RequestTyped DEF DraftVersion, At, Fits
    <3>2. Latest + 1 \in Versions /\ Latest + 1 \in 0..MaxSets
      BY <2>4, LatestExists, Constants DEF Versions
    <3>3. q \in Requests /\ q.pc = "CREATE" /\ q.set \in Versions /\ q.script \in Scripts
      BY <3>1, <3>2 DEF Requests, Steps
    <3>4. Goes(r, q)
      BY <2>4
    <3> HIDE DEF q
    <3>5. Fits(q, set, passed) /\ ~Current(q, set)
      BY <3>3 DEF Fits, Named, Looked, Current, Viewed
    <3> QED BY <2>2, <3>3, <3>4, <3>5, SameHistory, GoesOn
  <2> QED BY <2>1, <2>3, <2>4
<1> QED BY <1>1, <1>2

\* A reviewer looks at the latest set, and then at its rows: what he saw of a set
\* at rest is what it holds.
LEMMA LookKeeps ==
  ASSUME IInv, NEW r \in Reviewers, LookAtSet(r) \/ LookAtRows(r)
  PROVE  IInv'
<1>1. CASE LookAtSet(r)
  <2> DEFINE q == [Idle EXCEPT !.pc = "LOOK", !.set = Latest, !.revision = set[Latest].revision]
  <2>1. Latest \in 0..MaxSets /\ Latest \in Versions /\ Exists(Latest)
    BY <1>1, LatestExists DEF LookAtSet
  <2>2. set[Latest].revision \in Nat
    BY <2>1 DEF IInv, Typed, Sets
  <2>3. q \in Requests /\ q.pc = "LOOK" /\ q.set = Latest /\ q.revision = set[Latest].revision
    BY <2>1, <2>2, IdleFits DEF Requests, Steps, Idle
  <2>4. Goes(r, q) /\ UNCHANGED <<set, history>> /\ Elsewhere
    BY <1>1 DEF LookAtSet
  <2> HIDE DEF q
  <2>5. Fits(q, set, passed) /\ ~Current(q, set)
    BY <2>1, <2>2, <2>3 DEF Fits, Named, Looked, Current, Viewed, Exists, Steps
  <2> QED BY <2>3, <2>4, <2>5, SameHistory, GoesOn
<1>2. CASE LookAtRows(r)
  <2> DEFINE v == request[r].set
             seen == IF Quiet(v) THEN set[v].rows ELSE NoRows
             q == [request[r] EXCEPT !.pc = "SEEN", !.seen = seen]
  <2>1. request[r] \in Requests /\ Fits(request[r], set, passed) /\ request[r].pc = "LOOK"
    BY <1>2, RequestTyped DEF LookAtRows, At
  <2>2. /\ v \in Versions /\ set[v].status # "ABSENT" /\ request[r].revision <= set[v].revision
    BY <2>1 DEF Fits, Named, Looked, Steps
  <2>3. seen \in [Positions -> Row]
    BY <2>2, IdleFits DEF IInv, Typed, Sets, Idle, Requests
  <2>4. /\ q \in Requests /\ q.pc = "SEEN" /\ q.set = v /\ q.seen = seen
        /\ q.revision = request[r].revision
    BY <2>1, <2>3 DEF Requests, Steps
  <2>5. Goes(r, q) /\ UNCHANGED <<set, history>> /\ Elsewhere
    BY <1>2 DEF LookAtRows
  <2>6. q.seen # NoRows => Quiet(q.set) /\ set[q.set].rows = q.seen
    BY <2>4
  <2> HIDE DEF q
  <2>7. Fits(q, set, passed)
    BY <2>2, <2>4 DEF Fits, Named, Looked, Steps
  <2>8. Current(q, set) => Quiet(q.set) /\ set[q.set].rows = q.seen
    BY <2>6 DEF Current
  <2> QED BY <2>4, <2>5, <2>7, <2>8, SameHistory, GoesOn
<1> QED BY <1>1, <1>2

\* An edit is asked for: an eligible candidate has passed for the shot.
LEMMA AskEditKeeps ==
  ASSUME IInv, NEW r \in Reviewers, AskSelect(r) \/ AskReject(r)
  PROVE  IInv'
<1> DEFINE v == request[r].set
<1>1. /\ request[r] \in Requests /\ v \in Versions /\ set[v].status # "ABSENT"
      /\ request[r].revision <= set[v].revision
  BY RequestTyped DEF AskSelect, AskReject, At, Fits, Named, Looked, Steps
<1>2. UNCHANGED <<set, history>> /\ Elsewhere
  BY DEF AskSelect, AskReject
<1>3. NoRows \in [Positions -> Row]
  BY IdleFits DEF Requests, Idle
<1>4. CASE AskSelect(r)
  <2>1. PICK p \in Positions, c \in Candidates :
          /\ Eligible(<<set[v].script, p>>, c)
          /\ Goes(r, [request[r] EXCEPT !.pc = "EDIT", !.op = "SELECT", !.position = p,
                                        !.candidate = c, !.seen = NoRows])
    BY <1>4 DEF AskSelect
  <2> DEFINE q == [request[r] EXCEPT !.pc = "EDIT", !.op = "SELECT", !.position = p,
                                     !.candidate = c, !.seen = NoRows]
  <2>2. p \in Nat /\ c \in Nat /\ c # None
    BY Constants DEF Candidates, None
  <2>3. HasPassed(set[v].script, p, c, passed)
    BY <2>1 DEF Eligible, HasPassed, Shots, IInv, Typed
  <2>4. /\ q \in Requests /\ q.pc = "EDIT" /\ q.set = v /\ q.position = p
        /\ q.candidate = c /\ q.revision = request[r].revision
    BY <1>1, <1>3, <2>2 DEF Requests, Steps
  <2>5. Goes(r, q)
    BY <2>1
  <2> HIDE DEF q
  <2>6. Fits(q, set, passed) /\ ~Current(q, set)
    BY <1>1, <2>2, <2>3, <2>4 DEF Fits, Named, Looked, Steps, Current, Viewed
  <2> QED BY <1>2, <2>4, <2>5, <2>6, SameHistory, GoesOn
<1>5. CASE AskReject(r)
  <2>1. PICK p \in Positions :
          Goes(r, [request[r] EXCEPT !.pc = "EDIT", !.op = "REJECT", !.position = p,
                                     !.seen = NoRows])
    BY <1>5 DEF AskReject
  <2> DEFINE q == [request[r] EXCEPT !.pc = "EDIT", !.op = "REJECT", !.position = p,
                                     !.seen = NoRows]
  <2>2. p \in Nat
    BY Constants
  <2>3. /\ q \in Requests /\ q.pc = "EDIT" /\ q.op = "REJECT" /\ q.set = v /\ q.position = p
        /\ q.revision = request[r].revision
    BY <1>1, <1>3, <2>2 DEF Requests, Steps
  <2>4. Goes(r, q)
    BY <2>1
  <2> HIDE DEF q
  <2>5. Fits(q, set, passed) /\ ~Current(q, set)
    BY <1>1, <2>3 DEF Fits, Named, Looked, Steps, Current, Viewed
  <2> QED BY <1>2, <2>3, <2>4, <2>5, SameHistory, GoesOn
<1> QED BY <1>4, <1>5

\* The row is read before the edit: what it names has passed.
LEMMA ReadKeeps ==
  ASSUME IInv, NEW r \in Reviewers, ReadForEdit(r)
  PROVE  IInv'
<1> DEFINE v == request[r].set
           p == request[r].position
           q == [request[r] EXCEPT !.pc = "SWAP", !.previous = set[v].rows[p].candidate]
<1>1. UNCHANGED <<set, history>> /\ Elsewhere
  BY DEF ReadForEdit
<1>2. Ends(r) \/ Goes(r, q)
  BY DEF ReadForEdit
<1>3. CASE Ends(r)
  BY <1>1, <1>3, EndKeeps
<1>4. CASE Goes(r, q)
  <2>1. /\ request[r] \in Requests /\ Fits(request[r], set, passed) /\ request[r].pc = "EDIT"
    BY RequestTyped DEF ReadForEdit, At
  <2>2. /\ v \in Versions /\ p \in Positions /\ set[v].status # "ABSENT"
        /\ request[r].revision <= set[v].revision
    BY <2>1 DEF Fits, Named, Looked, Steps
  <2>3. set[v].rows[p].candidate \in Nat
    BY <2>2 DEF IInv, Typed, Sets, Row
  <2>4. set[v].rows[p].candidate # None =>
          HasPassed(set[v].script, p, set[v].rows[p].candidate, passed)
    BY <2>2 DEF IInv, SetsFit, RowsFit
  <2>5. /\ q \in Requests /\ q.pc = "SWAP" /\ q.set = v /\ q.position = p /\ q.op = request[r].op
        /\ q.candidate = request[r].candidate /\ q.revision = request[r].revision
        /\ q.previous = set[v].rows[p].candidate
    BY <2>1, <2>3 DEF Requests, Steps
  <2>6. request[r].op = "SELECT" =>
          request[r].candidate # None
          /\ HasPassed(set[v].script, p, request[r].candidate, passed)
    BY <2>1 DEF Fits
  <2> HIDE DEF q
  <2>7. Fits(q, set, passed) /\ ~Current(q, set)
    BY <2>2, <2>4, <2>5, <2>6 DEF Fits, Named, Looked, Steps, Current, Viewed
  <2> QED BY <1>1, <1>4, <2>5, <2>7, SameHistory, GoesOn
<1> QED BY <1>2, <1>3, <1>4

\* An approval reads on, and its view stands as long as the revision does.
LEMMA ApproveKeeps ==
  ASSUME IInv, NEW r \in Reviewers, AskApprove(r) \/ ReadForApproval(r) \/ CheckRows(r)
  PROVE  IInv'
<1> DEFINE v == request[r].set
<1>1. /\ request[r] \in Requests /\ v \in Versions /\ set[v].status # "ABSENT"
      /\ request[r].revision <= set[v].revision /\ request[r].pc \in Viewed
  BY RequestTyped DEF AskApprove, ReadForApproval, CheckRows, At, Fits, Named, Looked, Steps, Viewed
<1>2. UNCHANGED <<set, history>> /\ Elsewhere
  BY DEF AskApprove, ReadForApproval, CheckRows
<1>3. CASE Ends(r)
  BY <1>2, <1>3, EndKeeps
<1>4. ASSUME NEW q \in Requests, Goes(r, q), q.pc \in {"APPROVE", "CHECK", "FREEZE"},
             q.set = v, q.revision = request[r].revision, q.seen = request[r].seen
      PROVE  IInv'
  <2>1. Fits(q, set, passed)
    BY <1>1, <1>4 DEF Fits, Named, Looked, Steps
  <2>2. Current(q, set) => Quiet(q.set) /\ set[q.set].rows = q.seen
    BY <1>1, <1>4 DEF Current, IInv, ViewsStand
  <2> QED BY <1>2, <1>4, <2>1, <2>2, SameHistory, GoesOn
<1>5. \A pc \in {"APPROVE", "CHECK", "FREEZE"} : [request[r] EXCEPT !.pc = pc] \in Requests
  BY <1>1 DEF Requests, Steps
<1>6. CASE AskApprove(r)
  <2> DEFINE eligible == {x \in Positions \X Candidates :
                            /\ set[v].rows[x[1]] = [status |-> "SELECTED", candidate |-> x[2]]
                            /\ Eligible(<<set[v].script, x[1]>>, x[2])}
             q == [request[r] EXCEPT !.pc = "APPROVE", !.op = "APPROVE", !.eligible = eligible]
  <2>1. eligible \in SUBSET (Positions \X Candidates)
    OBVIOUS
  <2>2. Goes(r, q)
    BY <1>6 DEF AskApprove
  <2> HIDE DEF eligible
  <2>3. /\ q \in Requests /\ q.pc = "APPROVE" /\ q.set = v
        /\ q.revision = request[r].revision /\ q.seen = request[r].seen
    BY <1>1, <2>1 DEF Requests, Steps
  <2> HIDE DEF q
  <2> QED BY <1>4, <2>2, <2>3
<1>7. CASE ReadForApproval(r)
  <2> DEFINE q == [request[r] EXCEPT !.pc = "CHECK"]
  <2>1. Ends(r) \/ Goes(r, q)
    BY <1>7 DEF ReadForApproval, Step
  <2>2. /\ q \in Requests /\ q.pc = "CHECK" /\ q.set = v
        /\ q.revision = request[r].revision /\ q.seen = request[r].seen
    BY <1>1, <1>5 DEF Requests
  <2> HIDE DEF q
  <2> QED BY <1>3, <1>4, <2>1, <2>2
<1>8. CASE CheckRows(r)
  <2> DEFINE q == [request[r] EXCEPT !.pc = "FREEZE", !.eligible = {}]
  <2>1. Ends(r) \/ Goes(r, q)
    BY <1>8 DEF CheckRows
  <2>2. /\ q \in Requests /\ q.pc = "FREEZE" /\ q.set = v
        /\ q.revision = request[r].revision /\ q.seen = request[r].seen
    BY <1>1 DEF Requests, Steps
  <2> HIDE DEF q
  <2> QED BY <1>3, <1>4, <2>1, <2>2
<1> QED BY <1>6, <1>7, <1>8

\* The history is written: it names a candidate that has passed.
LEMMA HistoryKeeps ==
  ASSUME IInv, NEW r \in Reviewers, WriteHistory(r)
  PROVE  IInv'
<1> DEFINE q == request[r]
           h == [set |-> q.set, position |-> q.position, previous |-> q.previous,
                 new |-> q.candidate]
<1>1. Fits(q, set, passed) /\ q.pc = "HISTORY"
  BY RequestTyped DEF WriteHistory, At
<1>2. /\ h.set \in Versions /\ Exists(h.set)
      /\ HasPassed(set[h.set].script, h.position, h.previous, passed)
  BY <1>1 DEF Fits, Named, Steps, Exists
<1>3. history' = history \cup {h} /\ UNCHANGED set /\ Elsewhere /\ Goes(r, Idle)
  BY DEF WriteHistory, Ends
<1>4. HistoryFits'
  <2>1. UNCHANGED <<set, passed>>
    BY <1>3 DEF Elsewhere
  <2> HIDE DEF h
  <2> QED BY <1>2, <1>3, <2>1 DEF IInv, HistoryFits, Exists
<1>5. ~Current(Idle, set) /\ Idle.pc \notin {"ROWS", "WRITE"}
  BY DEF Current, Idle, Viewed
<1> QED BY <1>3, <1>4, <1>5, IdleFits, GoesOn

-----------------------------------------------------------------------------
(* Steps that write to a set.                                              *)

\* Set v becomes x as request r goes on to q, and no view of v that somebody has
\* matches its revision afterwards.
LEMMA SetWritten ==
  ASSUME IInv, NEW r \in Reviewers, NEW q \in Requests, NEW v \in Versions, NEW x \in Sets,
         Goes(r, q), set' = [set EXCEPT ![v] = x], UNCHANGED history, Elsewhere,
         x.status # "ABSENT",
         Exists(v) => x.script = set[v].script /\ set[v].revision <= x.revision,
         set[v].status = "APPROVED" => x.status = "APPROVED",
         RowsFit(x, passed),
         Fits(q, set', passed), q.pc \notin Viewed,
         q.pc \in {"ROWS", "WRITE"} => q.set = v,
         \A w \in Reviewers : w # r /\ request[w].set = v => ~Current(request[w], set'),
         x.status = "APPROVED" /\ x.seen # NoRows => Quiet(v)' /\ x.rows = x.seen,
         v \in crossed => x.seen = NoRows,
         q.pc = "WRITE" =>
           \A w \in Reviewers : w # r /\ At(w, "WRITE") /\ request[w].set = v =>
             request[w].revision # q.revision
  PROVE  IInv'
<1>1. UNCHANGED <<script, passed, crossing, crossed>>
  BY DEF Elsewhere
<1>2. /\ set' \in [Versions -> Sets] /\ set'[v] = x
      /\ \A u \in Versions : u # v => set'[u] = set[u]
  BY DEF IInv, Typed
<1>3. Advances
  <2> SUFFICES ASSUME NEW u \in Versions
               PROVE  /\ Exists(u) => /\ Exists(u)' /\ set'[u].script = set[u].script
                                       /\ set[u].revision <= set'[u].revision
                      /\ set[u].status = "APPROVED" => set'[u].status = "APPROVED"
    BY <1>1, <1>2 DEF Advances
  <2>1. CASE u = v
    BY <2>1, <1>2 DEF Exists
  <2>2. CASE u # v
    BY <2>2, <1>2 DEF Exists, IInv, Typed, Sets
  <2> QED BY <2>1, <2>2
<1>4. /\ RequestsFit' /\ request' \in [Reviewers -> Requests] /\ request'[r] = q
      /\ \A w \in Reviewers : w # r => request'[w] = request[w]
  BY <1>1, <1>3, RequestsStay
<1>5. Typed'
  BY <1>1, <1>2, <1>4 DEF IInv, Typed
<1>6. SetsFit'
  BY <1>1, <1>2 DEF IInv, SetsFit
<1>7. HistoryFits'
  BY <1>3, HistoryStays
<1>8. \A u : u # v /\ Quiet(u) => Quiet(u)'
  BY <1>4 DEF Quiet, Writing
<1>9. ViewsStand'
  <2> SUFFICES ASSUME NEW w \in Reviewers, NEW u \in Versions, request'[w].set = u,
                      Current(request'[w], set')
               PROVE  Quiet(u)' /\ set'[u].rows = request'[w].seen
    BY DEF ViewsStand, Current
  <2>1. w # r
    BY <1>4 DEF Current
  <2>2. request'[w] = request[w]
    BY <2>1, <1>4
  <2>3. u # v
    BY <2>1, <2>2
  <2>4. Current(request[w], set)
    BY <2>2, <2>3, <1>2 DEF Current
  <2>5. Quiet(u) /\ set[u].rows = request[w].seen
    BY <2>2, <2>4 DEF IInv, ViewsStand
  <2> QED BY <2>2, <2>3, <2>5, <1>2, <1>8
<1>10. FrozenStands'
  <2> SUFFICES ASSUME NEW u \in Versions, set'[u].status = "APPROVED", set'[u].seen # NoRows
               PROVE  Quiet(u)' /\ set'[u].rows = set'[u].seen
    BY DEF FrozenStands
  <2>1. CASE u = v
    BY <2>1, <1>2
  <2>2. CASE u # v
    BY <2>2, <1>2, <1>8 DEF IInv, FrozenStands
  <2> QED BY <2>1, <2>2
<1>11. Crossing'
  <2>1. crossing.pc # "IDLE" =>
          crossing.set \in Versions /\ set'[crossing.set].status = "APPROVED"
    BY <1>3 DEF IInv, Crossing, Advances
  <2>2. ASSUME NEW u \in crossed
        PROVE  /\ set'[u].status = "APPROVED"
               /\ set'[u].seen # NoRows =>
                    \A p \in Positions : set'[u].rows[p] # NoRow => set'[u].rows[p].status = "SELECTED"
    <3>1. u \in Versions /\ set[u].status = "APPROVED"
      BY DEF IInv, Typed, Crossing
    <3>2. CASE u = v
      BY <3>1, <3>2, <1>2, <1>3 DEF Advances
    <3>3. CASE u # v
      BY <3>1, <3>3, <1>2 DEF IInv, Crossing, RowsOf
    <3> QED BY <3>2, <3>3
  <2> QED BY <2>1, <2>2, <1>1 DEF Crossing, RowsOf
<1>12. OneEditPerRevision'
  <2> SUFFICES ASSUME NEW w \in Reviewers, NEW y \in Reviewers, w # y,
                      request'[w].pc = "WRITE", request'[y].pc = "WRITE",
                      request'[w].set = request'[y].set
               PROVE  request'[w].revision # request'[y].revision
    BY DEF OneEditPerRevision, At
  <2>1. CASE w # r /\ y # r
    BY <2>1, <1>4 DEF IInv, OneEditPerRevision, At
  <2>2. CASE w = r
    BY <2>2, <1>4 DEF At
  <2>3. CASE y = r
    BY <2>3, <1>4 DEF At
  <2> QED BY <2>1, <2>2, <2>3
<1> QED BY <1>4, <1>5, <1>6, <1>7, <1>9, <1>10, <1>11, <1>12 DEF IInv

\* The campaign has crossed with approved sets.
LEMMA CrossedApproved ==
  ASSUME IInv
  PROVE  \A v \in crossed : set[v].status = "APPROVED"
<1>1. Crossing
  BY DEF IInv
<1> QED BY <1>1 DEF Crossing

\* Somebody at work on a set leaves no view of it current, and it was not seen at
\* rest if it is frozen.
LEMMA NotAtRest ==
  ASSUME IInv, NEW r \in Reviewers, NEW v \in Versions, Writing(r, v)
  PROVE  /\ \A w \in Reviewers : request[w].set = v => ~Current(request[w], set)
         /\ set[v].status = "APPROVED" => set[v].seen = NoRows
  BY DEF IInv, ViewsStand, FrozenStands, Quiet

\* Of a set that was not seen at rest, the rows alone are written.
LEMMA RowsWritten ==
  ASSUME IInv, NEW r \in Reviewers, NEW q \in Requests, NEW v \in Versions,
         NEW rows \in [Positions -> Row],
         Writing(r, v), Goes(r, q), set' = [set EXCEPT ![v].rows = rows],
         UNCHANGED history, Elsewhere, set[v].status # "ABSENT",
         \A p \in Positions :
           /\ rows[p].candidate # None =>
                HasPassed(set[v].script, p, rows[p].candidate, passed)
           /\ rows[p].status = "SELECTED" => rows[p].candidate # None,
         Fits(q, set, passed), q.pc \notin Viewed \cup {"WRITE"},
         q.pc = "ROWS" => q.set = v
  PROVE  IInv'
<1> DEFINE x == [set[v] EXCEPT !.rows = rows]
<1>1. set \in [Versions -> Sets] /\ set[v] \in Sets
  BY DEF IInv, Typed
<1>2. /\ x \in Sets /\ x.status = set[v].status /\ x.script = set[v].script
      /\ x.revision = set[v].revision /\ x.seen = set[v].seen /\ x.rows = rows
  BY <1>1 DEF Sets
<1>3. set' = [set EXCEPT ![v] = x]
  BY <1>1
<1> HIDE DEF x
<1>4. set[v].revision <= x.revision
  BY <1>1, <1>2 DEF Sets
<1>5. RowsFit(x, passed)
  BY <1>2 DEF IInv, SetsFit, RowsFit
<1>6. Advances
  BY <1>1, <1>2, <1>3 DEF Advances, Exists, Elsewhere, Sets
<1>7. Fits(q, set', passed)
  BY <1>6, FitsStays DEF IInv, Elsewhere
<1>8. \A w \in Reviewers : request[w].set = v => ~Current(request[w], set')
  BY <1>1, <1>2, <1>3, NotAtRest DEF Current
<1>9. x.status = "APPROVED" => x.seen = NoRows
  BY <1>2, NotAtRest
<1>10. v \in crossed => x.seen = NoRows
  <2> SUFFICES ASSUME v \in crossed PROVE x.seen = NoRows
    OBVIOUS
  <2>1. set[v].status = "APPROVED"
    BY CrossedApproved
  <2> QED BY <1>2, <1>9, <2>1
<1>11. /\ x.status # "ABSENT" /\ (set[v].status = "APPROVED" => x.status = "APPROVED")
       /\ Exists(v) => x.script = set[v].script /\ set[v].revision <= x.revision
  BY <1>2, <1>4
<1>12. /\ q.pc \notin Viewed /\ q.pc # "WRITE"
       /\ q.pc \in {"ROWS", "WRITE"} => q.set = v
  OBVIOUS
<1>13. \A w \in Reviewers : w # r /\ request[w].set = v => ~Current(request[w], set')
  BY <1>8
<1>14. ~(x.status = "APPROVED" /\ x.seen # NoRows)
  BY <1>9
<1>15. x \in Sets
  BY <1>2
<1> QED BY <1>3, <1>5, <1>7, <1>10, <1>11, <1>12, <1>13, <1>14, <1>15, SetWritten

\* The draft is created and its rows are, one by one.
LEMMA CreateSetKeeps ==
  ASSUME IInv, NEW r \in Reviewers, CreateSet(r)
  PROVE  IInv'
<1> DEFINE v == request[r].set
           x == [Absent EXCEPT !.status = "DRAFT", !.script = request[r].script]
           q == [Idle EXCEPT !.pc = "ROWS", !.set = v]
<1>1. /\ request[r] \in Requests /\ v \in Versions /\ request[r].script \in Scripts
      /\ v \in 0..MaxSets
  BY RequestTyped DEF CreateSet, At, Fits, Requests
<1>2. UNCHANGED history /\ Elsewhere
  BY DEF CreateSet
<1>3. CASE Exists(v)
  BY <1>2, <1>3, EndKeeps DEF CreateSet
<1>4. CASE ~Exists(v)
  <2>1. set' = [set EXCEPT ![v] = x] /\ Goes(r, q)
    BY <1>4 DEF CreateSet
  <2>2. set[v].status = "ABSENT" /\ set[v] \in Sets /\ set \in [Versions -> Sets]
    BY <1>1, <1>4 DEF Exists, IInv, Typed
  <2>3. /\ x \in Sets /\ x.status = "DRAFT" /\ x.script \in Scripts /\ x.rows = NoRows
        /\ x.seen = NoRows
    BY <1>1, Constants, IdleFits DEF Sets, Absent, Idle, Requests, Scripts, None
  <2>4. RowsFit(x, passed)
    BY <2>3 DEF RowsFit, NoRows, NoRow, None
  <2>5. q \in Requests /\ q.pc = "ROWS" /\ q.set = v
    BY <1>1, IdleFits DEF Requests, Steps, Idle
  <2>6. set'[v] = x
    BY <1>1, <2>1, <2>2
  <2> HIDE DEF q, x
  <2>7. Fits(q, set', passed)
    BY <1>1, <2>3, <2>5, <2>6 DEF Fits, Named, Looked
  <2>8. \A w \in Reviewers : request[w].set = v => ~Current(request[w], set')
    <3> SUFFICES ASSUME NEW w \in Reviewers, request[w].set = v, request[w].pc \in Viewed
                 PROVE  FALSE
      BY DEF Current
    <3>1. request[w].pc \in Named
      BY DEF Viewed, Named, Steps
    <3>2. set[v].status # "ABSENT"
      BY <3>1, RequestTyped DEF Fits
    <3> QED BY <3>2, <2>2
  <2>9. q.pc \notin Viewed /\ q.pc # "WRITE"
    BY <2>5 DEF Viewed
  <2>10. ~Exists(v) /\ x.status # "ABSENT" /\ x.status # "APPROVED" /\ set[v].status # "APPROVED"
    BY <1>4, <2>2, <2>3
  <2> QED BY <1>1, <1>2, <2>1, <2>3, <2>4, <2>5, <2>7, <2>8, <2>9, <2>10, SetWritten
<1> QED BY <1>3, <1>4

\* A row is created as PENDING, wherever none was.
LEMMA CreateRowKeeps ==
  ASSUME IInv, NEW r \in Reviewers, CreateRow(r)
  PROVE  IInv'
<1> DEFINE v == request[r].set
           left == Positions \ RowsOf(v)
           rows == [set[v].rows EXCEPT ![Min(left)] = Pending]
<1>1. /\ request[r] \in Requests /\ Fits(request[r], set, passed) /\ request[r].pc = "ROWS"
  BY RequestTyped DEF CreateRow, At
<1>2. v \in Versions /\ set[v].status # "ABSENT" /\ Writing(r, v)
  BY <1>1 DEF Fits, Named, Steps, Writing
<1>3. UNCHANGED history /\ Elsewhere
  BY DEF CreateRow
<1>4. CASE left = {}
  BY <1>3, <1>4, EndKeeps DEF CreateRow
<1>5. CASE left # {}
  <2>1. set' = [set EXCEPT ![v].rows[Min(left)] = Pending] /\ UNCHANGED request
    BY <1>5 DEF CreateRow
  <2>2. set \in [Versions -> Sets] /\ set[v] \in Sets /\ set[v].rows \in [Positions -> Row]
    BY <1>2 DEF IInv, Typed, Sets
  <2>3. set' = [set EXCEPT ![v].rows = rows]
    BY <2>1
  <2>4. Pending \in Row
    BY DEF Pending, Row, None
  <2> HIDE DEF left
  <2>5. /\ rows \in [Positions -> Row]
        /\ \A p \in Positions : rows[p] = set[v].rows[p] \/ rows[p] = Pending
    BY <2>2, <2>4
  <2>6. \A p \in Positions :
          /\ rows[p].candidate # None => HasPassed(set[v].script, p, rows[p].candidate, passed)
          /\ rows[p].status = "SELECTED" => rows[p].candidate # None
    BY <1>2, <2>5 DEF IInv, SetsFit, RowsFit, Pending
  <2>7. Goes(r, request[r])
    BY <2>1 DEF Goes, IInv, Typed
  <2> HIDE DEF rows
  <2>8. request[r].pc \notin Viewed \cup {"WRITE"}
    BY <1>1 DEF Viewed
  <2> QED BY <1>1, <1>2, <1>3, <2>3, <2>5, <2>6, <2>7, <2>8, RowsWritten
<1> QED BY <1>4, <1>5

\* An edit takes a revision: every view and every edit of the set is of another.
LEMMA SwapKeeps ==
  ASSUME IInv, NEW r \in Reviewers, SwapForEdit(r)
  PROVE  IInv'
<1> DEFINE v == request[r].set
           x == [set[v] EXCEPT !.revision = @ + 1]
           q == [request[r] EXCEPT !.pc = "WRITE"]
<1>1. /\ request[r] \in Requests /\ Fits(request[r], set, passed) /\ request[r].pc = "SWAP"
  BY RequestTyped DEF SwapForEdit, At
<1>2. v \in Versions /\ set[v].status # "ABSENT"
  BY <1>1 DEF Fits, Named, Steps
<1>3. UNCHANGED history /\ Elsewhere
  BY DEF SwapForEdit
<1>4. CASE ~Matches(v, request[r].revision)
  BY <1>3, <1>4, EndKeeps DEF SwapForEdit
<1>5. CASE Matches(v, request[r].revision)
  <2>1. set' = [set EXCEPT ![v].revision = @ + 1] /\ Goes(r, q)
    BY <1>5 DEF SwapForEdit, Step
  <2>2. set \in [Versions -> Sets] /\ set[v] \in Sets /\ set[v].revision \in Nat
    BY <1>2 DEF IInv, Typed, Sets
  <2>3. /\ x \in Sets /\ x.status = "DRAFT" /\ x.script = set[v].script /\ x.rows = set[v].rows
        /\ x.revision = set[v].revision + 1 /\ x.seen = set[v].seen
        /\ set[v].status = "DRAFT" /\ request[r].revision = set[v].revision
    BY <1>5, <2>2 DEF Sets, Matches
  <2>4. set' = [set EXCEPT ![v] = x] /\ set'[v] = x
    BY <1>2, <2>1, <2>2
  <2>5. /\ q \in Requests /\ q.pc = "WRITE" /\ q.set = v /\ q.op = request[r].op
        /\ q.position = request[r].position /\ q.candidate = request[r].candidate
        /\ q.previous = request[r].previous /\ q.revision = set[v].revision
    BY <1>1, <2>3 DEF Requests, Steps
  <2>6. RowsFit(x, passed)
    BY <1>2, <2>3 DEF IInv, SetsFit, RowsFit
  <2> HIDE DEF q, x
  <2>7. Fits(q, set', passed)
    BY <1>1, <1>2, <2>2, <2>3, <2>4, <2>5 DEF Fits, Named, Looked, Steps
  <2>8. \A w \in Reviewers : request[w].set = v => ~Current(request[w], set')
    <3> SUFFICES ASSUME NEW w \in Reviewers, request[w].set = v, request[w].pc \in Viewed,
                        request[w].revision = set[v].revision + 1
                 PROVE  FALSE
      BY <2>3, <2>4 DEF Current
    <3>1. request[w].pc \in Looked
      BY DEF Viewed, Looked, Named, Steps
    <3>2. request[w].revision <= set[v].revision
      BY <3>1, RequestTyped DEF Fits
    <3> QED BY <3>2, <2>2
  <2>9. \A w \in Reviewers : At(w, "WRITE") /\ request[w].set = v =>
          request[w].revision # q.revision
    <3> SUFFICES ASSUME NEW w \in Reviewers, At(w, "WRITE"), request[w].set = v
                 PROVE  request[w].revision # q.revision
      OBVIOUS
    <3>1. request[w].revision < set[v].revision /\ request[w].revision \in Nat
      BY RequestTyped DEF Fits, At, Requests
    <3> QED BY <3>1, <2>2, <2>5
  <2>10. q.pc \notin Viewed /\ x.status # "ABSENT" /\ x.status # "APPROVED"
         /\ set[v].status # "APPROVED" /\ set[v].revision <= x.revision
    BY <2>2, <2>3, <2>5 DEF Viewed
  <2>11. v \notin crossed
    BY <2>10, CrossedApproved
  <2>12. /\ x.status # "ABSENT" /\ (set[v].status = "APPROVED" => x.status = "APPROVED")
         /\ Exists(v) => x.script = set[v].script /\ set[v].revision <= x.revision
    BY <2>3, <2>10
  <2>13. /\ q.pc \notin Viewed /\ q.set = v /\ q \in Requests /\ x \in Sets
         /\ ~(x.status = "APPROVED" /\ x.seen # NoRows)
    BY <2>3, <2>5, <2>10
  <2>14. /\ \A w \in Reviewers : w # r /\ request[w].set = v => ~Current(request[w], set')
         /\ \A w \in Reviewers : w # r /\ At(w, "WRITE") /\ request[w].set = v =>
              request[w].revision # q.revision
    BY <2>8, <2>9
  <2>15. Goes(r, q) /\ set' = [set EXCEPT ![v] = x]
    BY <2>1, <2>4
  <2> QED BY <1>2, <1>3, <2>6, <2>7, <2>11, <2>12, <2>13, <2>14, <2>15, SetWritten
<1> QED BY <1>4, <1>5

\* A row is written: a selected candidate has passed, a rejected row keeps its own.
LEMMA WriteRowKeeps ==
  ASSUME IInv, NEW r \in Reviewers, WriteRow(r)
  PROVE  IInv'
<1> DEFINE o == request[r]
           v == o.set
           row == IF o.op = "SELECT" THEN [status |-> "SELECTED", candidate |-> o.candidate]
                                     ELSE [set[v].rows[o.position] EXCEPT !.status = "REJECTED"]
           rows == [set[v].rows EXCEPT ![o.position] = row]
           q == [o EXCEPT !.pc = "HISTORY", !.revision = 0]
<1>1. o \in Requests /\ Fits(o, set, passed) /\ o.pc = "WRITE"
  BY RequestTyped DEF WriteRow, At
<1>2. /\ v \in Versions /\ set[v].status # "ABSENT" /\ Writing(r, v) /\ o.position \in Positions
  BY <1>1 DEF Fits, Named, Steps, Writing
<1>3. UNCHANGED history /\ Elsewhere
  BY DEF WriteRow
<1>4. set \in [Versions -> Sets] /\ set[v] \in Sets /\ set[v].rows \in [Positions -> Row]
  BY <1>2 DEF IInv, Typed, Sets
<1>5. set' = [set EXCEPT ![v].rows = rows]
  BY <1>2, <1>4 DEF WriteRow
<1>6. /\ row \in Row
      /\ row.candidate # None => HasPassed(set[v].script, o.position, row.candidate, passed)
      /\ row.status = "SELECTED" => row.candidate # None
  <2>1. CASE o.op = "SELECT"
    <3>1. o.candidate # None /\ HasPassed(set[v].script, o.position, o.candidate, passed)
      BY <1>1, <2>1 DEF Fits
    <3>2. o.candidate \in Nat
      BY <1>1 DEF Requests
    <3>3. row = [status |-> "SELECTED", candidate |-> o.candidate]
      BY <2>1
    <3> HIDE DEF row
    <3> QED BY <3>1, <3>2, <3>3 DEF Row
  <2>2. CASE o.op # "SELECT"
    <3>1. set[v].rows[o.position] \in Row
      BY <1>2, <1>4
    <3>2. /\ row \in Row /\ row.status = "REJECTED"
          /\ row.candidate = set[v].rows[o.position].candidate
      BY <2>2, <3>1 DEF Row
    <3> HIDE DEF row
    <3> QED BY <1>2, <3>2 DEF IInv, SetsFit, RowsFit
  <2> QED BY <2>1, <2>2
<1> HIDE DEF row
<1>7. /\ rows \in [Positions -> Row]
      /\ \A p \in Positions : rows[p] = IF p = o.position THEN row ELSE set[v].rows[p]
  BY <1>4, <1>6
<1> HIDE DEF rows
<1>8. \A p \in Positions :
        /\ rows[p].candidate # None => HasPassed(set[v].script, p, rows[p].candidate, passed)
        /\ rows[p].status = "SELECTED" => rows[p].candidate # None
  <2> SUFFICES ASSUME NEW p \in Positions
               PROVE  /\ rows[p].candidate # None =>
                           HasPassed(set[v].script, p, rows[p].candidate, passed)
                      /\ rows[p].status = "SELECTED" => rows[p].candidate # None
    OBVIOUS
  <2>1. CASE p = o.position
    BY <2>1, <1>6, <1>7
  <2>2. CASE p # o.position
    <3>1. rows[p] = set[v].rows[p]
      BY <2>2, <1>7
    <3> QED BY <3>1, <1>2 DEF IInv, SetsFit, RowsFit
  <2> QED BY <2>1, <2>2
<1>9. (Goes(r, q) /\ o.previous # None) \/ Goes(r, Idle)
  BY DEF WriteRow, Ends
<1>10. CASE Goes(r, Idle)
  <2>1. Idle.pc \notin Viewed \cup {"WRITE"} /\ Idle.pc # "ROWS"
    BY DEF Idle, Viewed
  <2> QED BY <1>2, <1>3, <1>5, <1>7, <1>8, <1>10, <2>1, IdleFits, RowsWritten
<1>11. CASE Goes(r, q) /\ o.previous # None
  <2>1. /\ q \in Requests /\ q.pc = "HISTORY" /\ q.set = v /\ q.position = o.position
        /\ q.previous = o.previous
    BY <1>1 DEF Requests, Steps
  <2>2. HasPassed(set[v].script, o.position, o.previous, passed)
    BY <1>1, <1>11 DEF Fits
  <2>3. Goes(r, q) /\ o.previous # None
    BY <1>11
  <2> HIDE DEF q
  <2>4. Fits(q, set, passed) /\ q.pc \notin Viewed \cup {"WRITE"} /\ q.pc # "ROWS"
    BY <1>2, <2>1, <2>2, <2>3 DEF Fits, Named, Looked, Steps, Viewed
  <2> QED BY <1>2, <1>3, <1>5, <1>7, <1>8, <2>1, <2>3, <2>4, RowsWritten
<1> QED BY <1>9, <1>10, <1>11

\* A set is frozen at the revision it was seen at, and so with the rows seen.
LEMMA FreezeKeeps ==
  ASSUME IInv, NEW r \in Reviewers, Freeze(r)
  PROVE  IInv'
<1> DEFINE o == request[r]
<1>1. o \in Requests /\ Fits(o, set, passed) /\ o.pc = "FREEZE"
  BY RequestTyped DEF Freeze, At
<1>2. PICK v \in Versions : v = o.set /\ set[v].status # "ABSENT"
  BY <1>1 DEF Fits, Named, Steps
<1> DEFINE x == [set[v] EXCEPT !.status = "APPROVED", !.revision = @ + 1, !.seen = o.seen]
<1>3. UNCHANGED history /\ Elsewhere /\ Ends(r) /\ Goes(r, Idle)
  BY DEF Freeze, Ends
<1>4. CASE ~Matches(v, o.revision)
  <2>1. UNCHANGED set
    BY <1>2, <1>4 DEF Freeze
  <2> QED BY <1>3, <2>1, EndKeeps
<1>5. CASE Matches(v, o.revision)
  <2>1. set' = [set EXCEPT ![v].status = "APPROVED", ![v].revision = @ + 1, ![v].seen = o.seen]
    BY <1>2, <1>5 DEF Freeze
  <2>2. set \in [Versions -> Sets] /\ set[v] \in Sets /\ set[v].revision \in Nat
        /\ o.seen \in [Positions -> Row]
    BY <1>1, <1>2 DEF IInv, Typed, Sets, Requests
  <2>3. /\ x \in Sets /\ x.status = "APPROVED" /\ x.script = set[v].script
        /\ x.rows = set[v].rows /\ x.revision = set[v].revision + 1 /\ x.seen = o.seen
        /\ set[v].status = "DRAFT" /\ o.revision = set[v].revision
    <3>1. set[v].status = "DRAFT" /\ o.revision = set[v].revision
      BY <1>5 DEF Matches
    <3>2. set[v].revision + 1 \in Nat
      BY <2>2
    <3> QED BY <2>2, <3>1, <3>2 DEF Sets
  <2>4. set' = [set EXCEPT ![v] = x]
    BY <1>2, <2>1, <2>2
  <2>5. set'[v] = x
    BY <1>2, <2>2, <2>4
  <2> HIDE DEF x
  <2>6. RowsFit(x, passed)
    BY <1>2, <2>3 DEF IInv, SetsFit, RowsFit
  <2>7. \A w \in Reviewers : request[w].set = v => ~Current(request[w], set')
    <3> SUFFICES ASSUME NEW w \in Reviewers, request[w].set = v, request[w].pc \in Viewed,
                        request[w].revision = set[v].revision + 1
                 PROVE  FALSE
      BY <2>3, <2>5 DEF Current
    <3>1. request[w].pc \in Looked
      BY DEF Viewed, Looked, Named, Steps
    <3>2. request[w].revision <= set[v].revision
      BY <3>1, RequestTyped DEF Fits
    <3> QED BY <3>2, <2>2
  <2>8. ASSUME o.seen # NoRows
        PROVE  Quiet(v)' /\ set[v].rows = o.seen
    <3>1. Current(o, set)
      BY <1>1, <1>2, <2>3, <2>8 DEF Current, Viewed
    <3>2. Quiet(v) /\ set[v].rows = o.seen
      BY <1>2, <3>1 DEF IInv, ViewsStand
    <3>3. Idle.pc \notin {"ROWS", "WRITE"}
      BY DEF Idle
    <3>4. Quiet(v)'
      <4> SUFFICES ASSUME NEW w \in Reviewers, request'[w].set = v,
                          request'[w].pc \in {"ROWS", "WRITE"}
                   PROVE  FALSE
        BY DEF Quiet, Writing
      <4>1. request' = [request EXCEPT ![r] = Idle] /\ request \in [Reviewers -> Requests]
        BY <1>3 DEF Goes, IInv, Typed
      <4>2. request'[w] = request[w]
        BY <4>1, <3>3
      <4> QED BY <4>2, <3>2 DEF Quiet, Writing
    <3> QED BY <3>2, <3>4
  <2>9. x.status = "APPROVED" /\ x.seen # NoRows => Quiet(v)' /\ x.rows = x.seen
    BY <2>3, <2>8
  <2>10. v \notin crossed
    BY <2>3, CrossedApproved
  <2>11. Idle.pc \notin Viewed \cup {"ROWS", "WRITE"} /\ set[v].revision <= x.revision
    BY <2>2, <2>3 DEF Idle, Viewed
  <2>12. x.status # "ABSENT" /\ set[v].status # "APPROVED"
    BY <2>3
  <2>13. /\ x \in Sets /\ (set[v].status = "APPROVED" => x.status = "APPROVED")
         /\ Exists(v) => x.script = set[v].script /\ set[v].revision <= x.revision
    BY <2>3, <2>11, <2>12
  <2>14. \A w \in Reviewers : w # r /\ request[w].set = v => ~Current(request[w], set')
    BY <2>7
  <2>15. PICK q \in Requests : q = Idle
    BY IdleFits
  <2>16. /\ Goes(r, q) /\ Fits(q, set', passed)
         /\ q.pc \notin Viewed /\ q.pc # "WRITE" /\ q.pc \notin {"ROWS", "WRITE"}
    BY <1>3, <2>11, <2>15, IdleFits
  <2> QED BY <1>3, <2>4, <2>6, <2>9, <2>10, <2>12, <2>13, <2>14, <2>16, SetWritten
<1> QED BY <1>4, <1>5

-----------------------------------------------------------------------------
(* Generation, scripts and the crossing.                                   *)

\* Generation and a new script leave the sets and the requests alone.
LEMMA AroundKeeps ==
  ASSUME IInv, script' \in Scripts, passed' \in [Shots -> SUBSET Candidates],
         \A s \in Shots : passed[s] \subseteq passed'[s],
         UNCHANGED <<set, history, request, crossing, crossed>>
  PROVE  IInv'
<1>1. Advances
  BY DEF Advances, IInv, Typed, Exists, Sets
<1>2. Typed'
  BY DEF IInv, Typed
<1>3. RequestsFit'
  <2>1. \A r \in Reviewers : Fits(request[r], set', passed')
    BY <1>1, RequestTyped, FitsStays DEF IInv
  <2> QED BY <2>1 DEF RequestsFit
<1>4. SetsFit'
  <2>1. \A v \in Versions : RowsFit(set[v], passed')
    BY <1>1, PassedStays DEF IInv, SetsFit, RowsFit
  <2> QED BY <2>1 DEF SetsFit
<1>5. HistoryFits'
  BY <1>1, HistoryStays
<1>6. ViewsStand' /\ FrozenStands' /\ OneEditPerRevision'
  BY DEF IInv, ViewsStand, FrozenStands, OneEditPerRevision, Quiet, Writing, Current, At
<1>7. Crossing'
  BY DEF IInv, Crossing, RowsOf
<1> QED BY <1>2, <1>3, <1>4, <1>5, <1>6, <1>7 DEF IInv

\* A candidate is generated, and may pass.
LEMMA SucceedKeeps ==
  ASSUME IInv, NEW g \in Generations, Succeed(g[1], g[2], g[3])
  PROVE  IInv'
<1>1. g[1] \in Shots /\ g[2] \in Candidates
  BY Constants
<1>2. passed \in [Shots -> SUBSET Candidates] /\ script \in Scripts
  BY DEF IInv, Typed
<1>3. /\ passed' \in [Shots -> SUBSET Candidates]
      /\ \A s \in Shots : passed[s] \subseteq passed'[s]
  BY <1>1, <1>2 DEF Succeed
<1> QED BY <1>2, <1>3, AroundKeeps DEF Succeed

\* The script is revised.
LEMMA ReviseKeeps == IInv /\ ReviseScript => IInv'
<1> SUFFICES ASSUME IInv, ReviseScript PROVE IInv'
  OBVIOUS
<1>1. script' \in Scripts
  BY Constants DEF ReviseScript, IInv, Typed, Scripts
<1>2. passed' = passed /\ passed \in [Shots -> SUBSET Candidates]
  BY DEF ReviseScript, IInv, Typed
<1> QED BY <1>1, <1>2, AroundKeeps DEF ReviseScript

\* The workflow verifies: an approved set stays approved, and one seen at rest
\* keeps the rows it was found complete with.
LEMMA VerifyKeeps == IInv /\ (VerifySet \/ VerifyScript \/ VerifyRows) => IInv'
<1> SUFFICES ASSUME IInv, VerifySet \/ VerifyScript \/ VerifyRows PROVE IInv'
  OBVIOUS
<1>1. UNCHANGED <<script, passed, set, history, request>>
  BY DEF VerifySet, VerifyScript, VerifyRows, VerifyUnchanged
<1>2. /\ crossing \in [pc : {"IDLE", "SCRIPT", "ROWS"}, set : 0..MaxSets]
      /\ crossed \subseteq Versions
  BY DEF IInv, Typed
<1>3. Crossing
  BY DEF IInv
<1>4. [pc |-> "IDLE", set |-> None] \in [pc : {"IDLE", "SCRIPT", "ROWS"}, set : 0..MaxSets]
  BY Constants DEF None
<1>5. /\ crossing' \in [pc : {"IDLE", "SCRIPT", "ROWS"}, set : 0..MaxSets]
      /\ crossed' \subseteq Versions /\ Crossing'
  <2>1. CASE VerifySet
    <3>1. Latest \in 0..MaxSets /\ Latest \in Versions /\ set[Latest].status = "APPROVED"
      BY <2>1, LatestExists DEF VerifySet
    <3>2. crossing' = [pc |-> "SCRIPT", set |-> Latest] /\ crossed' = crossed
      BY <2>1 DEF VerifySet
    <3> QED BY <1>1, <1>2, <1>3, <3>1, <3>2 DEF Crossing, RowsOf
  <2>2. CASE VerifyScript
    <3>1. /\ crossing.set \in Versions /\ set[crossing.set].status = "APPROVED"
          /\ crossed' = crossed
      BY <1>3, <2>2 DEF VerifyScript, Crossing
    <3>2. crossing' \in {[crossing EXCEPT !.pc = "ROWS"], [pc |-> "IDLE", set |-> None]}
      BY <2>2 DEF VerifyScript
    <3>3. CASE crossing' = [crossing EXCEPT !.pc = "ROWS"]
      <4>1. crossing' \in [pc : {"IDLE", "SCRIPT", "ROWS"}, set : 0..MaxSets]
            /\ crossing'.set = crossing.set
        BY <1>2, <3>3
      <4> QED BY <1>1, <1>2, <1>3, <3>1, <4>1 DEF Crossing, RowsOf
    <3>4. CASE crossing' = [pc |-> "IDLE", set |-> None]
      BY <1>1, <1>2, <1>3, <1>4, <3>1, <3>4 DEF Crossing, RowsOf
    <3> QED BY <3>2, <3>3, <3>4
  <2>3. CASE VerifyRows
    <3>1. crossing.set \in Versions /\ set[crossing.set].status = "APPROVED"
      BY <1>3, <2>3 DEF VerifyRows, Crossing
    <3>2. crossing' = [pc |-> "IDLE", set |-> None]
      BY <2>3 DEF VerifyRows
    <3>3. crossed' = crossed \/ (Complete(crossing.set) /\ crossed' = crossed \cup {crossing.set})
      BY <2>3 DEF VerifyRows
    <3>4. \A v \in crossed' :
            /\ set[v].status = "APPROVED"
            /\ set[v].seen # NoRows => \A p \in RowsOf(v) : set[v].rows[p].status = "SELECTED"
      BY <1>3, <3>1, <3>3 DEF Crossing, Complete
    <3> QED BY <1>1, <1>2, <1>4, <3>1, <3>2, <3>3, <3>4 DEF Crossing, RowsOf
  <2> QED BY <2>1, <2>2, <2>3
<1>6. Typed' /\ RequestsFit' /\ SetsFit' /\ HistoryFits'
  BY <1>1, <1>5 DEF IInv, Typed, RequestsFit, SetsFit, HistoryFits, Exists
<1>7. ViewsStand' /\ FrozenStands' /\ OneEditPerRevision'
  BY <1>1 DEF IInv, ViewsStand, FrozenStands, OneEditPerRevision, Quiet, Writing, Current, At
<1> QED BY <1>5, <1>6, <1>7 DEF IInv

-----------------------------------------------------------------------------
(* The theorems.                                                           *)

\* Nothing is selected, asked for or generated at first.
LEMMA InitIInv == Init => IInv
<1> SUFFICES ASSUME Init PROVE IInv
  OBVIOUS
<1>1. /\ \A v \in Versions : set[v] = Absent
      /\ \A r \in Reviewers : request[r] = Idle
  BY DEF Init
<1>2. Absent \in Sets /\ Absent.status = "ABSENT" /\ Absent.rows = NoRows
  BY IdleFits DEF Absent, Sets, Idle, Requests, None
<1>3. Typed
  <2>1. Idle \in Requests
    BY IdleFits
  <2>2. script \in Scripts
    BY Constants DEF Init, Scripts
  <2>3. crossing \in [pc : {"IDLE", "SCRIPT", "ROWS"}, set : 0..MaxSets]
    BY Constants DEF Init, None
  <2> QED BY <1>2, <2>1, <2>2, <2>3 DEF Init, Typed
<1>4. RequestsFit
  BY <1>1, IdleFits DEF RequestsFit
<1>5. SetsFit
  <2>1. RowsFit(Absent, passed)
    BY <1>2 DEF RowsFit, NoRows, NoRow, None
  <2> QED BY <1>1, <2>1 DEF SetsFit
<1>6. ViewsStand
  BY <1>1 DEF ViewsStand, Current, Idle, Viewed
<1>7. HistoryFits /\ FrozenStands /\ Crossing
  BY <1>1, <1>2 DEF Init, HistoryFits, FrozenStands, Crossing
<1>8. OneEditPerRevision
  BY <1>1 DEF OneEditPerRevision, At, Idle
<1> QED BY <1>3, <1>4, <1>5, <1>6, <1>7, <1>8 DEF IInv

\* Every step of every handler keeps it.
LEMMA NextIInv == IInv /\ [Next]_vars => IInv'
<1> SUFFICES ASSUME IInv, [Next]_vars PROVE IInv'
  OBVIOUS
<1>1. CASE UNCHANGED vars
  <2>1. UNCHANGED <<script, passed, set, history, request, crossing, crossed>>
    BY <1>1 DEF vars
  <2>2. script \in Scripts /\ passed \in [Shots -> SUBSET Candidates]
    BY DEF IInv, Typed
  <2> QED BY <2>1, <2>2, AroundKeeps
<1>2. ASSUME NEW r \in Reviewers, AskDraft(r) \/ LookAtSet(r) \/ Handle(r)
      PROVE  IInv'
  BY <1>2, DraftKeeps, LookKeeps, AskEditKeeps, ReadKeeps, ApproveKeeps, HistoryKeeps,
     CreateSetKeeps, CreateRowKeeps, SwapKeeps, WriteRowKeeps, FreezeKeeps DEF Handle
<1>3. ASSUME NEW r \in Reviewers, Die(r)
      PROVE  IInv'
  BY <1>3, EndKeeps DEF Die
<1>4. ASSUME NEW g \in Generations, Succeed(g[1], g[2], g[3])
      PROVE  IInv'
  BY <1>4, SucceedKeeps
<1>5. CASE ReviseScript \/ VerifySet \/ VerifyScript \/ VerifyRows
  BY <1>5, ReviseKeeps, VerifyKeeps
<1> QED BY <1>1, <1>2, <1>3, <1>4, <1>5 DEF Next

\* What every request holds of a set is still so, or its revision is gone.
THEOREM ViewsAreKept == Spec => []IInv
<1>1. Init => IInv
  BY InitIInv
<1>2. IInv /\ [Next]_vars => IInv'
  BY NextIInv
<1> QED BY <1>1, <1>2, PTL DEF Spec

\* A set frozen after it was seen at rest holds the rows that were seen, ever after
\* (approveShotSelectionSet in shot-selection-repository.ts).
THEOREM FrozenIsAsSeen == Spec => []FrozenAsSeen
<1>1. IInv => FrozenAsSeen
  BY DEF IInv, FrozenStands, FrozenAsSeen
<1> QED BY <1>1, ViewsAreKept, PTL

\* No two edits that may still write a row took the same revision of a set
\* (casSetRevision in shot-selection-repository.ts).
THEOREM EditsTakeRevisions == Spec => []OneEditPerRevision
<1>1. IInv => OneEditPerRevision
  BY DEF IInv
<1> QED BY <1>1, ViewsAreKept, PTL

\* Sets and their history name candidates that have passed, of the very shot
\* (shot-review-routes.ts).
THEOREM NamedHavePassed == Spec => []OnlyPassedAreNamed
<1>1. IInv => OnlyPassedAreNamed
  BY DEF IInv, SetsFit, RowsFit, HistoryFits, HasPassed, OnlyPassedAreNamed
<1> QED BY <1>1, ViewsAreKept, PTL

\* The campaign crosses with approved sets only, and with a passed candidate for
\* every row the approving reviewer saw (verify-shot-selection-activity.ts).
THEOREM CrossingIsFrozen == Spec => []CrossesAsFrozen
<1>1. IInv => CrossesAsFrozen
  <2> SUFFICES ASSUME IInv, NEW v \in crossed
               PROVE  /\ set[v].status = "APPROVED"
                      /\ set[v].seen # NoRows => \A p \in Positions :
                           set[v].seen[p] # NoRow =>
                             /\ set[v].rows[p].status = "SELECTED"
                             /\ set[v].rows[p].candidate \in passed[<<set[v].script, p>>]
    BY DEF CrossesAsFrozen
  <2>1. v \in Versions /\ Crossing /\ FrozenStands /\ SetsFit
    BY DEF IInv, Typed
  <2>2. set[v].status = "APPROVED"
    BY <2>1 DEF Crossing
  <2>3. ASSUME set[v].seen # NoRows, NEW p \in Positions, set[v].seen[p] # NoRow
        PROVE  /\ set[v].rows[p].status = "SELECTED"
               /\ set[v].rows[p].candidate \in passed[<<set[v].script, p>>]
    <3>1. set[v].rows = set[v].seen
      BY <2>1, <2>2, <2>3 DEF FrozenStands
    <3>2. p \in RowsOf(v)
      BY <2>3, <3>1 DEF RowsOf
    <3>3. set[v].rows[p].status = "SELECTED"
      BY <2>1, <2>3, <3>2 DEF Crossing
    <3> QED BY <2>1, <3>3 DEF SetsFit, RowsFit, HasPassed
  <2> QED BY <2>2, <2>3
<1> QED BY <1>1, ViewsAreKept, PTL
=============================================================================
