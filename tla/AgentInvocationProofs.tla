----------------------- MODULE AgentInvocationProofs -----------------------
(***************************************************************************)
(* An invocation is reserved at all its policies or at none, no result is  *)
(* recorded before it is settled at every one of them, and no policy has   *)
(* more bound than its limit: for any number of invocations, policies,     *)
(* tries and retried transactions, with tries that overlap and die         *)
(* anywhere.                                                               *)
(*                                                                         *)
(* A row is never taken back, so what a try has found and written stays    *)
(* there whatever the other tries do, and each try can be looked at by     *)
(* itself: its snapshot is part of the ledger, what it works on is         *)
(* reserved, and what it has no longer to do is written. For the limits,   *)
(* what a snapshot shows spent of a policy nobody has reserved of since is *)
(* no less than what is bound of it when the transaction commits.          *)
(***************************************************************************)
EXTENDS AgentInvocation, FiniteSetTheorems, WellFoundedInduction, TLAPS

Rows == [policy : Policies, key : Invocations, type : EntryTypes, amount : Int]

Places == {"IDLE", "FIND", "BEGIN", "COMMIT", "CALL", "CHARGE", "REMAINDER", "GIVE_BACK", "RECORD"}

Try == [pc : Places, snapshot : SUBSET Rows, attempt : Nat,
        outcome : Outcomes \cup {NoRecord}, todo : SUBSET Policies, cost : Nat]

\* Each invocation is reserved at every policy of its scopes or at none.
Whole(rows) ==
  \A k \in Invocations :
    \/ \A p \in Policies : ~HasReserved(rows, p, k)
    \/ \A p \in Policies : HasReserved(rows, p, k) <=> p \in Scopes[k]

ReservedFor(rows, k) == \A p \in Scopes[k] : HasReserved(rows, p, k)

\* The policies of k but those in todo have an entry of that type.
Done(rows, k, type, todo) ==
  \A p \in Scopes[k] \ todo : Written(rows, p, k, type) # {}

\* Reservations are of the whole estimate, and so is what is given back for an
\* agent that never runs.
Priced(rows) ==
  \A e \in rows :
    /\ e.type = "RESERVATION" => e.amount = Estimate
    /\ e.type = "RELEASE" /\ e.key \notin Implemented => e.amount = Estimate

\* What a try t of k has found and done so far, and the ledger's rows show.
Fits(k, t, rows) ==
  /\ t \in Try
  /\ t.todo \subseteq Scopes[k]
  /\ t.pc = "COMMIT" => t.snapshot \subseteq rows
  /\ t.pc = "CALL" => t.todo = Scopes[k]
  /\ t.pc \in {"CALL", "CHARGE", "REMAINDER", "GIVE_BACK"} => ReservedFor(rows, k)
  /\ t.pc \in {"CHARGE", "REMAINDER"} =>
       /\ k \in Implemented /\ t.outcome \in {"SUCCEEDED", "FAILED"}
       /\ Done(rows, k, "CHARGE", t.todo)
  /\ t.pc = "REMAINDER" =>
       t.todo # {} /\ Written(rows, Next1(t.todo), k, "CHARGE") # {}
  /\ t.pc = "GIVE_BACK" =>
       /\ k \notin Implemented /\ t.outcome = "NOT_RUN"
       /\ Done(rows, k, "RELEASE", t.todo)
  /\ t.pc = "RECORD" => t.outcome = "BUDGET_EXCEEDED"

\* What a recorded result of k says has been written.
Settled(k, outcome, rows) ==
  /\ outcome \in {"SUCCEEDED", "FAILED"} => Done(rows, k, "CHARGE", {})
  /\ outcome = "NOT_RUN" =>
       k \notin Implemented /\ ReservedFor(rows, k) /\ Done(rows, k, "RELEASE", {})

Shaped ==
  /\ try = [k \in Invocations |-> [n \in Tries(k) |-> try[k][n]]]
  /\ record \in [Invocations -> Outcomes \cup {NoRecord}]
  /\ ledger \subseteq Rows

TriesFit == \A k \in Invocations : \A n \in Tries(k) : Fits(k, try[k][n], ledger)
RecordsSettled == \A k \in Invocations : Settled(k, record[k], ledger)

IInv == Shaped /\ Whole(ledger) /\ Priced(ledger) /\ TriesFit /\ RecordsSettled

-----------------------------------------------------------------------------
(* Rows are never taken back.                                              *)

\* The constants, as the proofs use them.
LEMMA Constants ==
  /\ Policies \subseteq Nat /\ Estimate \in Nat /\ Costs \subseteq Nat
  /\ \A k \in Invocations : Scopes[k] \subseteq Policies
  BY InvocationAssumption DEF InvocationAssumption

\* What is written stays written.
LEMMA WrittenStays ==
  ASSUME NEW rows, NEW more, rows \subseteq more, NEW p, NEW k, NEW type,
         Written(rows, p, k, type) # {}
  PROVE  Written(more, p, k, type) # {}
  BY DEF Written

\* So what a try has found and done fits a longer ledger too.
LEMMA FitsStays ==
  ASSUME NEW rows, NEW more, rows \subseteq more, NEW k, NEW t, Fits(k, t, rows)
  PROVE  Fits(k, t, more)
<1>1. ReservedFor(rows, k) => ReservedFor(more, k)
  BY WrittenStays DEF ReservedFor, HasReserved
<1>2. \A type, todo : Done(rows, k, type, todo) => Done(more, k, type, todo)
  BY WrittenStays DEF Done
<1>3. \A p : Written(rows, p, k, "CHARGE") # {} => Written(more, p, k, "CHARGE") # {}
  BY WrittenStays
<1>4. t.pc = "COMMIT" => t.snapshot \subseteq more
  BY DEF Fits
<1> QED BY <1>1, <1>2, <1>3, <1>4 DEF Fits

\* And so does what a record says.
LEMMA SettledStays ==
  ASSUME NEW rows, NEW more, rows \subseteq more, NEW k, NEW outcome,
         Settled(k, outcome, rows)
  PROVE  Settled(k, outcome, more)
<1>1. ReservedFor(rows, k) => ReservedFor(more, k)
  BY WrittenStays DEF ReservedFor, HasReserved
<1>2. \A type : Done(rows, k, type, {}) => Done(more, k, type, {})
  BY WrittenStays DEF Done
<1> QED BY <1>1, <1>2 DEF Settled

\* Entries that reserve nothing leave reservations as they are.
LEMMA NothingReserved ==
  ASSUME NEW rows, NEW e, e.type # "RESERVATION", Whole(rows)
  PROVE  Whole(rows \cup {e})
<1>1. \A p, k : HasReserved(rows \cup {e}, p, k) <=> HasReserved(rows, p, k)
  BY DEF HasReserved, Written
<1> QED BY <1>1 DEF Whole

\* Writing an entry once, which is no reservation, keeps what the ledger is.
LEMMA OnceWritten ==
  ASSUME IInv, NEW k \in Invocations, NEW p \in Policies, NEW type \in {"CHARGE", "RELEASE"},
         NEW amount \in Int, WriteOnce(p, k, type, amount),
         type = "RELEASE" /\ k \notin Implemented => amount = Estimate
  PROVE  /\ ledger \subseteq ledger' /\ ledger' \subseteq Rows
         /\ Whole(ledger') /\ Priced(ledger')
         /\ Written(ledger', p, k, type) # {}
<1> DEFINE e == Entry(p, k, type, amount)
<1>1. e \in Rows /\ e.policy = p /\ e.key = k /\ e.type = type /\ e.amount = amount
  BY DEF Entry, Rows, EntryTypes
<1>2. CASE Written(ledger, p, k, type) # {}
  BY <1>2 DEF WriteOnce, IInv, Shaped
<1>3. CASE Written(ledger, p, k, type) = {}
  <2>1. ledger' = ledger \cup {e}
    BY <1>3 DEF WriteOnce
  <2>2. Whole(ledger')
    BY <2>1, <1>1, NothingReserved DEF IInv
  <2>3. Priced(ledger')
    BY <2>1, <1>1 DEF IInv, Priced
  <2>4. e \in Written(ledger', p, k, type)
    BY <2>1, <1>1 DEF Written
  <2>5. ledger \subseteq ledger' /\ ledger' \subseteq Rows
    BY <2>1, <1>1 DEF IInv, Shaped
  <2> QED BY <2>2, <2>3, <2>4, <2>5
<1> QED BY <1>2, <1>3

\* Less-than on the naturals, as a relation.
LEMMA LessThan ==
  \A p, q \in Nat : <<q, p>> \in OpToRel(<, Nat) <=> q < p
  BY DEF OpToRel

\* The first of the policies still to do is one of them.
LEMMA NextIsOfThem ==
  ASSUME NEW todo, todo \subseteq Policies, todo # {}
  PROVE  Next1(todo) \in todo
<1>1. \E R : IsWellFoundedOn(R, Nat) /\ \A p, q \in Nat : <<q, p>> \in R <=> q < p
  BY LessThan, NatLessThanWellFounded, Zenon
<1>2. PICK R : IsWellFoundedOn(R, Nat) /\ \A p, q \in Nat : <<q, p>> \in R <=> q < p
  BY <1>1
<1>3. \E p \in todo : \A q \in todo : ~(<<q, p>> \in R)
  BY <1>2, Constants, WFMin
<1>4. PICK p \in todo : \A q \in todo : ~(<<q, p>> \in R)
  BY <1>3
<1>5. \A q \in todo : ~(q < p)
  BY <1>2, <1>4, Constants
<1>6. \A q \in todo : p <= q
  BY <1>5, Constants
<1> QED BY <1>6 DEF Next1

-----------------------------------------------------------------------------
(* One try moves, and the others keep what fits them.                      *)

\* The idle try fits any ledger.
LEMMA IdleFits == ASSUME NEW k, NEW rows PROVE Fits(k, Idle, rows)
  BY DEF Fits, Idle, Try, Places

\* Try n of k becomes t; the others stay.
LEMMA Gone ==
  ASSUME Shaped, NEW k \in Invocations, NEW n \in Tries(k), NEW t, Goes(k, n, t)
  PROVE  /\ try' = [l \in Invocations |-> [m \in Tries(l) |-> try'[l][m]]]
         /\ \A l \in Invocations : \A m \in Tries(l) :
              try'[l][m] = IF l = k /\ m = n THEN t ELSE try[l][m]
<1>1. try' = [try EXCEPT ![k][n] = t]
  BY DEF Goes
<1>2. \A l \in Invocations : try[l] = [m \in Tries(l) |-> try[l][m]]
  BY DEF Shaped
<1>3. DOMAIN try = Invocations
  BY DEF Shaped
<1>4. \A l \in Invocations : try'[l] = [m \in Tries(l) |-> IF l = k /\ m = n THEN t ELSE try[l][m]]
  BY <1>1, <1>2, <1>3
<1>5. try' = [l \in Invocations |-> try'[l]]
  BY <1>1, <1>3
<1> QED BY <1>4, <1>5

\* A step in which one try moves on to where it fits, and the ledger at most grows.
LEMMA Moved ==
  ASSUME IInv, NEW k \in Invocations, NEW n \in Tries(k), NEW t, Goes(k, n, t),
         ledger \subseteq ledger', ledger' \subseteq Rows, Whole(ledger'), Priced(ledger'),
         Fits(k, t, ledger'), UNCHANGED record
  PROVE  IInv'
<1>1. Shaped'
  BY Gone DEF IInv, Shaped
<1>2. TriesFit'
  <2> SUFFICES ASSUME NEW l \in Invocations, NEW m \in Tries(l)
               PROVE  Fits(l, try'[l][m], ledger')
    BY DEF TriesFit
  <2>1. CASE l = k /\ m = n
    BY <2>1, Gone DEF IInv
  <2>2. CASE ~(l = k /\ m = n)
    <3>1. try'[l][m] = try[l][m]
      BY <2>2, Gone DEF IInv
    <3>2. Fits(l, try[l][m], ledger)
      BY DEF IInv, TriesFit
    <3> QED BY <3>1, <3>2, FitsStays
  <2> QED BY <2>1, <2>2
<1>3. RecordsSettled'
  BY SettledStays DEF IInv, RecordsSettled
<1> QED BY <1>1, <1>2, <1>3 DEF IInv

\* One that leaves the ledger alone.
LEMMA MovedOnly ==
  ASSUME IInv, NEW k \in Invocations, NEW n \in Tries(k), NEW t, Goes(k, n, t),
         Fits(k, t, ledger), UNCHANGED <<ledger, record>>
  PROVE  IInv'
  BY Moved DEF IInv, Shaped

\* What a try is.
LEMMA TryTyped ==
  ASSUME IInv, NEW k \in Invocations, NEW n \in Tries(k)
  PROVE  Fits(k, try[k][n], ledger) /\ try[k][n] \in Try
  BY DEF IInv, TriesFit, Fits

-----------------------------------------------------------------------------
(* The transaction.                                                        *)

\* A try starts, and ends wherever it dies.
LEMMA StartKeeps ==
  ASSUME IInv, NEW k \in Invocations, NEW n \in Tries(k), Start(k, n) \/ Die(k, n)
  PROVE  IInv'
<1>1. CASE Start(k, n)
  <2>1. Fits(k, [Idle EXCEPT !.pc = "FIND"], ledger)
    BY DEF Fits, Idle, Try, Places
  <2> QED BY <1>1, <2>1, MovedOnly DEF Start
<1>2. CASE Die(k, n)
  BY <1>2, IdleFits, MovedOnly DEF Die
<1> QED BY <1>1, <1>2

\* It looks for the record, and begins a transaction with the rows there are.
LEMMA BeginKeeps ==
  ASSUME IInv, NEW k \in Invocations, NEW n \in Tries(k),
         Find(k, n) \/ BeginTransaction(k, n)
  PROVE  IInv'
<1>1. Fits(k, try[k][n], ledger) /\ try[k][n] \in Try
  BY TryTyped
<1>2. CASE Find(k, n)
  <2>1. Fits(k, [try[k][n] EXCEPT !.pc = "BEGIN", !.attempt = 1], ledger)
    BY <1>1 DEF Fits, Try, Places
  <2>2. Fits(k, Idle, ledger)
    BY IdleFits
  <2> QED BY <1>2, <2>1, <2>2, MovedOnly DEF Find
<1>3. CASE BeginTransaction(k, n)
  <2>1. ledger \subseteq Rows
    BY DEF IInv, Shaped
  <2>2. Fits(k, [try[k][n] EXCEPT !.pc = "COMMIT", !.snapshot = ledger], ledger)
    BY <1>1, <2>1 DEF Fits, Try, Places
  <2> QED BY <1>3, <2>2, MovedOnly DEF BeginTransaction
<1> QED BY <1>2, <1>3

\* It ends without a row written.
LEMMA AbortKeeps ==
  ASSUME IInv, NEW k \in Invocations, NEW n \in Tries(k),
         Refuse(k, n) \/ AbortTransaction(k, n)
  PROVE  IInv'
<1>1. Fits(k, try[k][n], ledger) /\ try[k][n] \in Try
  BY TryTyped
<1>2. CASE Refuse(k, n)
  <2>1. Fits(k, [try[k][n] EXCEPT !.pc = "RECORD", !.outcome = "BUDGET_EXCEEDED",
                                  !.snapshot = {}], ledger)
    BY <1>1 DEF Fits, Try, Places, Outcomes
  <2> QED BY <1>2, <2>1, MovedOnly DEF Refuse
<1>3. CASE AbortTransaction(k, n)
  <2> DEFINE t == [try[k][n] EXCEPT !.pc = "BEGIN", !.attempt = @ + 1, !.snapshot = {}]
  <2>3. try[k][n].attempt + 1 \in Nat
    BY <1>1 DEF Try
  <2>4. t \in Try /\ t.pc = "BEGIN" /\ t.todo = try[k][n].todo
    BY <1>1, <2>3 DEF Try, Places
  <2>1. Fits(k, t, ledger)
    BY <1>1, <2>4 DEF Fits
  <2>2. Fits(k, Idle, ledger)
    BY IdleFits
  <2> QED BY <1>3, <2>1, <2>2, MovedOnly DEF AbortTransaction
<1> QED BY <1>2, <1>3

\* It writes the reservations its snapshot misses, all of them or none.
LEMMA CommitKeeps ==
  ASSUME IInv, NEW k \in Invocations, NEW n \in Tries(k), CommitReservations(k, n)
  PROVE  IInv'
<1> DEFINE rows == try[k][n].snapshot
           missing == ToReserve(rows, k)
           added == {Entry(p, k, "RESERVATION", Estimate) : p \in missing}
           t == [try[k][n] EXCEPT !.pc = "CALL", !.snapshot = {}, !.todo = Scopes[k]]
<1>1. Fits(k, try[k][n], ledger) /\ try[k][n] \in Try
  BY TryTyped
<1>2. rows \subseteq ledger
  BY <1>1 DEF CommitReservations, At, Fits
<1>3. ledger' = ledger \cup added
  BY DEF CommitReservations
<1>4. missing \subseteq Scopes[k] /\ Scopes[k] \subseteq Policies /\ Estimate \in Nat
  BY Constants DEF ToReserve
<1>5. \A e \in added : e \in Rows /\ e.key = k /\ e.type = "RESERVATION" /\ e.amount = Estimate
                       /\ e.policy \in missing
  BY <1>4 DEF Entry, Rows, EntryTypes
<1>6. ledger \subseteq ledger' /\ ledger' \subseteq Rows
  BY <1>3, <1>5 DEF IInv, Shaped
<1>7. Priced(ledger')
  BY <1>3, <1>5 DEF IInv, Priced
<1>8. \A l \in Invocations : \A p : l # k => (HasReserved(ledger', p, l) <=> HasReserved(ledger, p, l))
  BY <1>3, <1>5 DEF HasReserved, Written
<1>9. \A p \in missing : HasReserved(ledger', p, k)
  <2> SUFFICES ASSUME NEW p \in missing PROVE HasReserved(ledger', p, k)
    OBVIOUS
  <2>1. Entry(p, k, "RESERVATION", Estimate) \in Written(ledger', p, k, "RESERVATION")
    BY <1>3 DEF Entry, Written
  <2> QED BY <2>1 DEF HasReserved
<1>10. \A p \in Scopes[k] : HasReserved(ledger', p, k)
  <2> SUFFICES ASSUME NEW p \in Scopes[k], p \notin missing PROVE HasReserved(ledger', p, k)
    BY <1>9
  <2>1. HasReserved(rows, p, k)
    BY DEF ToReserve
  <2> QED BY <2>1, <1>2, <1>6, WrittenStays DEF HasReserved
<1>11. \A p \in Policies : HasReserved(ledger', p, k) => p \in Scopes[k]
  <2> SUFFICES ASSUME NEW p \in Policies, HasReserved(ledger', p, k), p \notin Scopes[k]
               PROVE  FALSE
    OBVIOUS
  <2>1. HasReserved(ledger, p, k)
    BY <1>3, <1>4, <1>5 DEF HasReserved, Written
  <2> QED BY <2>1 DEF IInv, Whole
<1>12. Whole(ledger')
  <2> SUFFICES ASSUME NEW l \in Invocations
               PROVE  \/ \A p \in Policies : ~HasReserved(ledger', p, l)
                      \/ \A p \in Policies : HasReserved(ledger', p, l) <=> p \in Scopes[l]
    BY DEF Whole
  <2>1. CASE l = k
    BY <2>1, <1>10, <1>11
  <2>2. CASE l # k
    BY <2>2, <1>8 DEF IInv, Whole
  <2> QED BY <2>1, <2>2
<1>13. t.pc = "CALL" /\ t.todo = Scopes[k] /\ t \in Try
  BY <1>1, <1>4 DEF Try, Places
<1>14. Fits(k, t, ledger')
  BY <1>10, <1>13 DEF Fits, ReservedFor
<1> QED BY <1>6, <1>7, <1>12, <1>14, Moved DEF CommitReservations

-----------------------------------------------------------------------------
(* The call and its settlement.                                            *)

\* An agent that runs succeeds or fails; one that does not run has no charge.
LEMMA CallKeeps ==
  ASSUME IInv, NEW k \in Invocations, NEW n \in Tries(k), CallAgent(k, n)
  PROVE  IInv'
<1>1. Fits(k, try[k][n], ledger) /\ try[k][n] \in Try /\ try[k][n].pc = "CALL"
  BY TryTyped DEF CallAgent, At
<1>2. ReservedFor(ledger, k)
  BY <1>1 DEF Fits
<1>3. try[k][n].todo = Scopes[k]
  BY <1>1 DEF Fits
<1>4. \A type : Done(ledger, k, type, try[k][n].todo)
  BY <1>3 DEF Done
<1>5. CASE k \notin Implemented
  <2>1. Fits(k, [try[k][n] EXCEPT !.pc = "GIVE_BACK", !.outcome = "NOT_RUN"], ledger)
    BY <1>1, <1>2, <1>4, <1>5 DEF Fits, Try, Places, Outcomes
  <2> QED BY <1>5, <2>1, MovedOnly DEF CallAgent
<1>6. CASE k \in Implemented
  <2>1. ASSUME NEW c \in Nat, NEW o \in {"SUCCEEDED", "FAILED"}
        PROVE  Fits(k, [try[k][n] EXCEPT !.pc = "CHARGE", !.cost = c, !.outcome = o], ledger)
    <3> DEFINE t == [try[k][n] EXCEPT !.pc = "CHARGE", !.cost = c, !.outcome = o]
    <3>1. t \in Try /\ t.pc = "CHARGE" /\ t.todo = try[k][n].todo /\ t.outcome = o
      BY <1>1 DEF Try, Places, Outcomes
    <3>2. t.todo \subseteq Scopes[k] /\ Done(ledger, k, "CHARGE", t.todo)
      BY <1>3, <1>4, <3>1
    <3> HIDE DEF t
    <3>3. Fits(k, t, ledger)
      BY <1>2, <1>6, <3>1, <3>2 DEF Fits
    <3> QED BY <3>3 DEF t
  <2>2. \E c \in Nat, o \in {"SUCCEEDED", "FAILED"} :
          Goes(k, n, [try[k][n] EXCEPT !.pc = "CHARGE", !.cost = c, !.outcome = o])
    BY <1>6, Constants DEF CallAgent
  <2>3. UNCHANGED <<ledger, record>>
    BY DEF CallAgent
  <2> QED BY <2>1, <2>2, <2>3, MovedOnly
<1> QED BY <1>5, <1>6

\* The next policy is charged, once for all the tries.
LEMMA ChargeKeeps ==
  ASSUME IInv, NEW k \in Invocations, NEW n \in Tries(k), Charge(k, n)
  PROVE  IInv'
<1> DEFINE p == Next1(try[k][n].todo)
           t == [try[k][n] EXCEPT !.pc = "REMAINDER"]
<1>1. Fits(k, try[k][n], ledger) /\ try[k][n] \in Try /\ try[k][n].pc = "CHARGE"
  BY TryTyped DEF Charge, At
<1>2. p \in try[k][n].todo /\ try[k][n].todo \subseteq Policies
  BY <1>1, NextIsOfThem DEF Charge, Try
<1>3. /\ ledger \subseteq ledger' /\ ledger' \subseteq Rows /\ Whole(ledger') /\ Priced(ledger')
      /\ Written(ledger', p, k, "CHARGE") # {}
  <2>1. try[k][n].cost \in Int
    BY <1>1 DEF Try
  <2> QED BY <1>2, <2>1, OnceWritten DEF Charge
<1>4. Fits(k, try[k][n], ledger')
  BY <1>1, <1>3, FitsStays
<1>5. t \in Try /\ t.pc = "REMAINDER" /\ t.todo = try[k][n].todo /\ t.outcome = try[k][n].outcome
  BY <1>1 DEF Try, Places
<1>6. Fits(k, t, ledger')
  BY <1>1, <1>2, <1>3, <1>4, <1>5 DEF Fits
<1> QED BY <1>3, <1>6, Moved DEF Charge

\* What is left of its reservation is released, and the policy is done.
LEMMA RemainderKeeps ==
  ASSUME IInv, NEW k \in Invocations, NEW n \in Tries(k), ReleaseRemainder(k, n)
  PROVE  IInv'
<1> DEFINE p == Next1(try[k][n].todo)
           t == [try[k][n] EXCEPT !.pc = "CHARGE", !.todo = @ \ {p}]
           remainder == Estimate - try[k][n].cost
<1>1. Fits(k, try[k][n], ledger) /\ try[k][n] \in Try /\ try[k][n].pc = "REMAINDER"
  BY TryTyped DEF ReleaseRemainder, At
<1>2. /\ k \in Implemented /\ Done(ledger, k, "CHARGE", try[k][n].todo)
      /\ Written(ledger, p, k, "CHARGE") # {} /\ try[k][n].todo # {}
  BY <1>1 DEF Fits
<1>3. p \in Policies
  BY <1>1, <1>2, NextIsOfThem DEF Try
<1>4. ledger \subseteq ledger' /\ ledger' \subseteq Rows /\ Whole(ledger') /\ Priced(ledger')
  <2>1. remainder \in Int
    BY <1>1, Constants DEF Try
  <2>2. CASE remainder > 0
    BY <1>2, <1>3, <2>1, <2>2, OnceWritten DEF ReleaseRemainder
  <2>3. CASE ~(remainder > 0)
    BY <2>3 DEF ReleaseRemainder, IInv, Shaped
  <2> QED BY <2>2, <2>3
<1>5. Done(ledger, k, "CHARGE", try[k][n].todo \ {p})
  BY <1>2 DEF Done
<1>6. /\ t \in Try /\ t.pc = "CHARGE" /\ t.todo = try[k][n].todo \ {p}
      /\ t.outcome = try[k][n].outcome
  BY <1>1 DEF Try, Places
<1>7. Fits(k, t, ledger)
  BY <1>1, <1>5, <1>6 DEF Fits
<1>8. Fits(k, t, ledger')
  BY <1>4, <1>7, FitsStays
<1> QED BY <1>4, <1>8, Moved DEF ReleaseRemainder

\* The reservation of an agent that was not run is given back.
LEMMA GiveBackKeeps ==
  ASSUME IInv, NEW k \in Invocations, NEW n \in Tries(k), GiveBack(k, n)
  PROVE  IInv'
<1> DEFINE p == Next1(try[k][n].todo)
           t == [try[k][n] EXCEPT !.todo = @ \ {p}]
<1>1. Fits(k, try[k][n], ledger) /\ try[k][n] \in Try /\ try[k][n].pc = "GIVE_BACK"
  BY TryTyped DEF GiveBack, At
<1>2. p \in try[k][n].todo /\ try[k][n].todo \subseteq Policies
  BY <1>1, NextIsOfThem DEF GiveBack, Try
<1>3. /\ ledger \subseteq ledger' /\ ledger' \subseteq Rows /\ Whole(ledger') /\ Priced(ledger')
      /\ Written(ledger', p, k, "RELEASE") # {}
  BY <1>2, Constants, OnceWritten DEF GiveBack
<1>4. Fits(k, try[k][n], ledger')
  BY <1>1, <1>3, FitsStays
<1>5. Done(ledger', k, "RELEASE", try[k][n].todo \ {p})
  BY <1>1, <1>3, <1>4 DEF Done, Fits
<1>6. /\ t \in Try /\ t.pc = "GIVE_BACK" /\ t.todo = try[k][n].todo \ {p}
      /\ t.outcome = try[k][n].outcome
  BY <1>1 DEF Try, Places
<1>7. Fits(k, t, ledger')
  BY <1>1, <1>4, <1>5, <1>6 DEF Fits
<1> QED BY <1>3, <1>7, Moved DEF GiveBack

\* A result is recorded when nothing is left to do, if none is recorded yet.
LEMMA RecordKeeps ==
  ASSUME IInv, NEW k \in Invocations, NEW n \in Tries(k), Record(k, n)
  PROVE  IInv'
<1> DEFINE t == try[k][n]
<1>1. Fits(k, t, ledger) /\ t \in Try /\ Scopes[k] \ {} = Scopes[k]
  BY TryTyped
<1>2. Settled(k, t.outcome, ledger)
  BY <1>1 DEF Record, At, Fits, Settled
<1>3. /\ record' \in [Invocations -> Outcomes \cup {NoRecord}]
      /\ \A l \in Invocations : record'[l] = record[l] \/ (l = k /\ record'[l] = t.outcome)
  BY <1>1 DEF Record, IInv, Shaped, Try
<1>4. ledger' = ledger /\ Goes(k, n, Idle)
  BY DEF Record
<1>5. Shaped'
  BY <1>3, <1>4, Gone DEF IInv, Shaped
<1>6. TriesFit'
  <2>1. \A l \in Invocations : \A m \in Tries(l) :
          try'[l][m] = IF l = k /\ m = n THEN Idle ELSE try[l][m]
    BY <1>4, Gone DEF IInv
  <2> QED BY <2>1, <1>4, IdleFits DEF IInv, TriesFit
<1>7. RecordsSettled'
  BY <1>2, <1>3, <1>4 DEF IInv, RecordsSettled
<1> QED BY <1>4, <1>5, <1>6, <1>7 DEF IInv

-----------------------------------------------------------------------------
(* The theorems.                                                           *)

\* Nothing is reserved, recorded or under way at first.
LEMMA InitIInv == Init => IInv
<1> SUFFICES ASSUME Init PROVE IInv
  OBVIOUS
<1>1. Shaped
  BY DEF Init, Shaped
<1>2. Whole(ledger) /\ Priced(ledger)
  BY DEF Init, Whole, Priced, HasReserved, Written
<1>3. TriesFit
  <2>1. \A k \in Invocations : \A n \in Tries(k) : try[k][n] = Idle
    BY DEF Init
  <2> QED BY <2>1, IdleFits DEF TriesFit
<1>4. RecordsSettled
  BY DEF Init, RecordsSettled, Settled, NoRecord
<1> QED BY <1>1, <1>2, <1>3, <1>4 DEF IInv

\* Every step of every try keeps it.
LEMMA NextIInv == IInv /\ [Next]_vars => IInv'
<1> SUFFICES ASSUME IInv, [Next]_vars PROVE IInv'
  OBVIOUS
<1>1. CASE UNCHANGED vars
  BY <1>1 DEF vars, IInv, Shaped, TriesFit, RecordsSettled
<1>2. ASSUME NEW k \in Invocations, NEW n \in Tries(k), Start(k, n) \/ Die(k, n)
      PROVE  IInv'
  BY <1>2, StartKeeps
<1>3. ASSUME NEW k \in Invocations, NEW n \in Tries(k), Work(k, n)
      PROVE  IInv'
  BY <1>3, BeginKeeps, AbortKeeps, CommitKeeps, CallKeeps, ChargeKeeps, RemainderKeeps,
     GiveBackKeeps, RecordKeeps DEF Work
<1> QED BY <1>1, <1>2, <1>3 DEF Next

\* What every try has found and done is in the ledger, and so is what every
\* recorded result says, in every state.
THEOREM InvocationsFit == Spec => []IInv
<1>1. Init => IInv
  BY InitIInv
<1>2. IInv /\ [Next]_vars => IInv'
  BY NextIInv
<1> QED BY <1>1, <1>2, PTL DEF Spec

\* An invocation is reserved at every policy of its scopes or at none
\* (reserveBudgetAcrossScopes in budget-repository.ts).
THEOREM ReservedAllOrNothing == Spec => []AllOrNothing
<1>1. IInv => AllOrNothing
  <2> SUFFICES ASSUME IInv, NEW k \in Invocations,
                      {p \in Policies : HasReserved(ledger, p, k)} # {}
               PROVE  {p \in Policies : HasReserved(ledger, p, k)} = Scopes[k]
    BY DEF AllOrNothing
  <2>1. \A p \in Policies : HasReserved(ledger, p, k) <=> p \in Scopes[k]
    BY DEF IInv, Whole
  <2> QED BY <2>1, Constants
<1> QED BY <1>1, InvocationsFit, PTL

\* A recorded result is settled at every policy of its scopes: charged, or given
\* back in full (execute-specialist-agent-activity.ts).
THEOREM RecordedIsSettled == Spec => []SettledBeforeRecorded
<1>1. IInv => SettledBeforeRecorded
  <2> SUFFICES ASSUME IInv, NEW k \in Invocations, NEW p \in Policies, p \in Scopes[k]
               PROVE  /\ record[k] \in {"SUCCEEDED", "FAILED"} =>
                           Written(ledger, p, k, "CHARGE") # {}
                      /\ record[k] = "NOT_RUN" =>
                           AmountOf(p, k, "RELEASE") = AmountOf(p, k, "RESERVATION")
    BY DEF SettledBeforeRecorded
  <2>1. Settled(k, record[k], ledger)
    BY DEF IInv, RecordsSettled
  <2>2. record[k] \in {"SUCCEEDED", "FAILED"} => Written(ledger, p, k, "CHARGE") # {}
    BY <2>1 DEF Settled, Done
  <2>3. ASSUME record[k] = "NOT_RUN"
        PROVE  AmountOf(p, k, "RELEASE") = AmountOf(p, k, "RESERVATION")
    <3>1. /\ Written(ledger, p, k, "RELEASE") # {} /\ Written(ledger, p, k, "RESERVATION") # {}
          /\ k \notin Implemented
      BY <2>1, <2>3 DEF Settled, Done, ReservedFor, HasReserved
    <3>2. /\ \A e \in Written(ledger, p, k, "RELEASE") : e.amount = Estimate
          /\ \A e \in Written(ledger, p, k, "RESERVATION") : e.amount = Estimate
      BY <3>1 DEF IInv, Priced, Written
    <3>3. AmountOf(p, k, "RELEASE") = Estimate
      BY <3>1, <3>2 DEF AmountOf
    <3>4. AmountOf(p, k, "RESERVATION") = Estimate
      BY <3>1, <3>2 DEF AmountOf
    <3> QED BY <3>3, <3>4
  <2> QED BY <2>2, <2>3
<1> QED BY <1>1, InvocationsFit, PTL
-----------------------------------------------------------------------------
(* Sums over finite sets.                                                  *)

\* The sum of g over S, the element that is taken first, and the function the sum is
\* computed by.
Total(g, S) == MapThenSumSet(LAMBDA x : g[x], S)
First(s) == CHOOSE x \in s : TRUE
Summing(g, S, f) ==
  f = [s \in SUBSET S |-> IF s = {} THEN 0 ELSE g[First(s)] + f[s \ {First(s)}]]
IsInt(g, S) == \A x \in S : g[x] \in Int

LEMMA HasALeast ==
  ASSUME NEW S, S \subseteq Nat, S # {}
  PROVE  \E x \in S : \A y \in S : x <= y
<1>1. \E R : IsWellFoundedOn(R, Nat) /\ \A p, q \in Nat : <<q, p>> \in R <=> q < p
  BY LessThan, NatLessThanWellFounded, Zenon
<1>2. PICK R : IsWellFoundedOn(R, Nat) /\ \A p, q \in Nat : <<q, p>> \in R <=> q < p
  BY <1>1
<1>3. PICK p \in S : \A q \in S : ~(<<q, p>> \in R)
  BY <1>2, WFMin
<1>4. \A q \in S : ~(q < p)
  BY <1>2, <1>3
<1> QED BY <1>4

LEMMA FirstIsOfThem ==
  ASSUME NEW s, s # {}
  PROVE  First(s) \in s
BY DEF First

LEMMA Removed ==
  ASSUME NEW s, IsFiniteSet(s), NEW x \in s
  PROVE  /\ IsFiniteSet(s \ {x}) /\ Cardinality(s) \in Nat /\ Cardinality(s \ {x}) \in Nat
         /\ Cardinality(s \ {x}) = Cardinality(s) - 1
BY FS_RemoveElement, FS_CardinalityType

\* There is such a function: for ever larger subsets.
LEMMA SummingExists ==
  ASSUME NEW S, IsFiniteSet(S), NEW g, IsInt(g, S)
  PROVE  \E f \in [SUBSET S -> Int] : Summing(g, S, f)
<1> DEFINE Small(n) == {s \in SUBSET S : Cardinality(s) <= n}
           Value(f, s) == IF s = {} THEN 0 ELSE g[First(s)] + f[s \ {First(s)}]
           Good(n) == \E f \in [Small(n) -> Int] : \A s \in Small(n) : f[s] = Value(f, s)
           Bad == {n \in Nat : ~Good(n)}
<1>0. \A s \in SUBSET S : IsFiniteSet(s) /\ Cardinality(s) \in Nat
  BY FS_Subset, FS_CardinalityType
<1>1. Bad = {}
  <2>. SUFFICES ASSUME Bad # {} PROVE FALSE
    OBVIOUS
  <2>1. PICK n \in Bad : \A m \in Bad : n <= m
    BY HasALeast
  <2>2. CASE n = 0
    <3>1. \A s \in Small(0) : s = {}
      BY <1>0, FS_EmptySet
    <3> DEFINE f == [s \in Small(0) |-> 0]
    <3>2. f \in [Small(0) -> Int] /\ \A s \in Small(0) : f[s] = Value(f, s)
      BY <3>1
    <3>3. Good(0)
      BY <3>2
    <3> QED BY <3>3, <2>1, <2>2
  <2>3. CASE n # 0
    <3>1. n \in Nat /\ n - 1 \in Nat /\ Good(n - 1)
      <4>1. n \in Nat /\ n - 1 \in Nat /\ ~(n <= n - 1)
        BY <2>1, <2>3
      <4> HIDE DEF Good
      <4>2. n - 1 \notin Bad
        BY <4>1, <2>1
      <4> QED BY <4>1, <4>2
    <3>2. PICK f \in [Small(n - 1) -> Int] : \A s \in Small(n - 1) : f[s] = Value(f, s)
      BY <3>1
    <3> DEFINE h == [s \in Small(n) |-> Value(f, s)]
    <3>3. \A s \in Small(n - 1) : s \in Small(n) /\ h[s] = f[s]
      BY <3>1, <3>2, <1>0
    <3>4. \A s \in Small(n) : s # {} =>
            First(s) \in S /\ s \ {First(s)} \in Small(n - 1)
      <4> SUFFICES ASSUME NEW s \in Small(n), s # {}
                   PROVE  First(s) \in S /\ s \ {First(s)} \in Small(n - 1)
        OBVIOUS
      <4>1. First(s) \in s /\ IsFiniteSet(s)
        BY FirstIsOfThem, <1>0
      <4>2. Cardinality(s \ {First(s)}) = Cardinality(s) - 1 /\ Cardinality(s) \in Nat
        BY <4>1, Removed
      <4> QED BY <4>1, <4>2, <2>1
    <3>5. h \in [Small(n) -> Int]
      <4> SUFFICES ASSUME NEW s \in Small(n) PROVE Value(f, s) \in Int
        OBVIOUS
      <4>1. CASE s = {}
        BY <4>1
      <4>2. CASE s # {}
        <5>1. g[First(s)] \in Int /\ f[s \ {First(s)}] \in Int
          BY <3>4, <4>2 DEF IsInt
        <5> QED BY <4>2, <5>1
      <4> QED BY <4>1, <4>2
    <3>6. \A s \in Small(n) : h[s] = Value(h, s)
      BY <3>3, <3>4
    <3> HIDE DEF h
    <3>7. Good(n)
      BY <3>5, <3>6
    <3> QED BY <3>7, <2>1
  <2> QED BY <2>2, <2>3
<1> DEFINE N == Cardinality(S)
<1>2. N \in Nat /\ Small(N) = SUBSET S
  BY FS_CardinalityType, FS_Subset
<1>3. Good(N)
  BY <1>1, <1>2
<1>4. PICK f \in [SUBSET S -> Int] : \A s \in SUBSET S : f[s] = Value(f, s)
  BY <1>2, <1>3
<1>5. Summing(g, S, f)
  BY <1>4 DEF Summing
<1> QED BY <1>5

\* And it says the same of a set, of whichever larger set it is computed and from
\* whichever values that agree there.
LEMMA SummingAgrees ==
  ASSUME NEW S, IsFiniteSet(S), NEW T, S \subseteq T, NEW g, NEW f, NEW d, NEW h,
         \A x \in S : g[x] = d[x],
         Summing(g, S, f), Summing(d, T, h)
  PROVE  \A s \in SUBSET S : f[s] = h[s]
<1> DEFINE Bad == {Cardinality(s) : s \in {r \in SUBSET S : f[r] # h[r]}}
<1>0. \A s \in SUBSET S : IsFiniteSet(s) /\ Cardinality(s) \in Nat
  BY FS_Subset, FS_CardinalityType
<1> SUFFICES ASSUME NEW r \in SUBSET S, f[r] # h[r] PROVE FALSE
  OBVIOUS
<1>1. Bad \subseteq Nat /\ Bad # {}
  BY <1>0
<1>2. PICK n \in Bad : \A m \in Bad : n <= m
  BY <1>1, HasALeast
<1>3. PICK s \in SUBSET S : f[s] # h[s] /\ Cardinality(s) = n
  BY <1>2
<1>4. /\ f[s] = IF s = {} THEN 0 ELSE g[First(s)] + f[s \ {First(s)}]
      /\ h[s] = IF s = {} THEN 0 ELSE d[First(s)] + h[s \ {First(s)}]
  BY <1>3 DEF Summing
<1>5. s # {}
  BY <1>3, <1>4
<1>6. First(s) \in s /\ s \ {First(s)} \in SUBSET S
  BY <1>5, FirstIsOfThem
<1>7. f[s \ {First(s)}] = h[s \ {First(s)}]
  <2> SUFFICES ASSUME f[s \ {First(s)}] # h[s \ {First(s)}] PROVE FALSE
    OBVIOUS
  <2>1. Cardinality(s \ {First(s)}) \in Bad
    BY <1>6
  <2>2. Cardinality(s \ {First(s)}) = n - 1 /\ n \in Nat
    BY <1>0, <1>3, <1>6, Removed
  <2> QED BY <2>1, <2>2, <1>2
<1> QED BY <1>3, <1>4, <1>5, <1>6, <1>7

LEMMA TotalSums ==
  ASSUME NEW S, NEW g
  PROVE  Total(g, S) = (CHOOSE f : Summing(g, S, f))[S]
BY DEF Total, MapThenSumSet, MapThenFoldSet, Summing, First

LEMMA TotalIs ==
  ASSUME NEW S, IsFiniteSet(S), NEW g, IsInt(g, S), NEW f, Summing(g, S, f), NEW s \in SUBSET S
  PROVE  Total(g, s) = f[s] /\ f[s] \in Int
<1>1. IsFiniteSet(s) /\ IsInt(g, s)
  BY FS_Subset DEF IsInt
<1> DEFINE h == CHOOSE h : Summing(g, s, h)
<1>2. Summing(g, s, h)
  BY <1>1, SummingExists
<1>3. PICK k \in [SUBSET S -> Int] : Summing(g, S, k)
  BY SummingExists
<1>4. f[s] = k[s]
  BY <1>3, SummingAgrees
<1>5. Total(g, s) = h[s]
  BY TotalSums
<1> HIDE DEF h
<1>6. h[s] = f[s]
  BY <1>1, <1>2, SummingAgrees
<1> QED BY <1>3, <1>4, <1>5, <1>6

LEMMA TotalUnfolds ==
  ASSUME NEW S, IsFiniteSet(S), NEW g, IsInt(g, S)
  PROVE  /\ Total(g, S) \in Int
         /\ S = {} => Total(g, S) = 0
         /\ S # {} => Total(g, S) = g[First(S)] + Total(g, S \ {First(S)})
<1>1. PICK f \in [SUBSET S -> Int] : Summing(g, S, f)
  BY SummingExists
<1>2. Total(g, S) = f[S] /\ Total(g, S \ {First(S)}) = f[S \ {First(S)}] /\ f[S] \in Int
  BY <1>1, TotalIs
<1> QED BY <1>1, <1>2 DEF Summing

LEMMA TotalOfNone ==
  ASSUME NEW g
  PROVE  Total(g, {}) = 0
BY TotalUnfolds, FS_EmptySet DEF IsInt

\* It does not matter which element is taken first.
LEMMA TotalRemove ==
  ASSUME NEW S, IsFiniteSet(S), NEW g, IsInt(g, S), NEW x \in S
  PROVE  Total(g, S) = g[x] + Total(g, S \ {x})
<1> DEFINE Differs == {s \in SUBSET S : \E y \in s : Total(g, s) # g[y] + Total(g, s \ {y})}
           Bad == {Cardinality(s) : s \in Differs}
<1>0. \A s \in SUBSET S : IsFiniteSet(s) /\ Cardinality(s) \in Nat /\ IsInt(g, s) /\ Total(g, s) \in Int
  BY FS_Subset, FS_CardinalityType, TotalUnfolds DEF IsInt
<1> SUFFICES ASSUME Differs # {} PROVE FALSE
  OBVIOUS
<1>1. Bad \subseteq Nat /\ Bad # {}
  BY <1>0
<1>2. PICK n \in Bad : \A m \in Bad : n <= m
  BY <1>1, HasALeast
<1>3. PICK s \in Differs : Cardinality(s) = n
  BY <1>2
<1>4. PICK y \in s : Total(g, s) # g[y] + Total(g, s \ {y})
  BY <1>3
<1> DEFINE z == First(s)
<1>5. s \in SUBSET S /\ z \in s /\ Total(g, s) = g[z] + Total(g, s \ {z})
  BY <1>0, <1>3, <1>4, FirstIsOfThem, TotalUnfolds
<1>6. y # z
  BY <1>4, <1>5
<1> HIDE DEF z
<1>7. \A r \in SUBSET s : Cardinality(r) < n => r \notin Differs
  BY <1>0, <1>2, <1>5
<1>8. Cardinality(s \ {z}) < n /\ Cardinality(s \ {y}) < n
  BY <1>0, <1>3, <1>4, <1>5, Removed
<1>9. Total(g, s \ {z}) = g[y] + Total(g, (s \ {z}) \ {y})
  BY <1>4, <1>5, <1>6, <1>7, <1>8
<1>10. Total(g, s \ {y}) = g[z] + Total(g, (s \ {y}) \ {z})
  BY <1>4, <1>5, <1>6, <1>7, <1>8
<1>11. (s \ {z}) \ {y} = (s \ {y}) \ {z}
  OBVIOUS
<1>12. g[y] \in Int /\ g[z] \in Int /\ Total(g, (s \ {z}) \ {y}) \in Int
  BY <1>0, <1>4, <1>5 DEF IsInt
<1>13. \A a, b, c \in Int : a + (b + c) = b + (a + c)
  OBVIOUS
<1>14. g[z] + (g[y] + Total(g, (s \ {z}) \ {y})) = g[y] + (g[z] + Total(g, (s \ {y}) \ {z}))
  <2>1. PICK t \in Int : t = Total(g, (s \ {z}) \ {y})
    BY <1>12
  <2>2. t = Total(g, (s \ {y}) \ {z})
    BY <2>1, <1>11
  <2>3. g[z] + (g[y] + t) = g[y] + (g[z] + t)
    BY <1>12, <1>13
  <2> QED BY <2>1, <2>2, <2>3
<1> QED BY <1>4, <1>5, <1>9, <1>10, <1>14

\* A sum of no larger values is no larger.
LEMMA TotalGrows ==
  ASSUME NEW S, IsFiniteSet(S), NEW g, IsInt(g, S), NEW d, IsInt(d, S),
         \A x \in S : g[x] <= d[x]
  PROVE  Total(g, S) <= Total(d, S)
<1> DEFINE Differs == {s \in SUBSET S : ~(Total(g, s) <= Total(d, s))}
           Bad == {Cardinality(s) : s \in Differs}
<1>0. \A s \in SUBSET S : IsFiniteSet(s) /\ Cardinality(s) \in Nat /\ IsInt(g, s) /\ IsInt(d, s)
                          /\ Total(g, s) \in Int /\ Total(d, s) \in Int
  BY FS_Subset, FS_CardinalityType, TotalUnfolds DEF IsInt
<1> SUFFICES ASSUME Differs # {} PROVE FALSE
  OBVIOUS
<1>1. Bad \subseteq Nat /\ Bad # {}
  BY <1>0
<1>2. PICK n \in Bad : \A m \in Bad : n <= m
  BY <1>1, HasALeast
<1>3. PICK s \in Differs : Cardinality(s) = n
  BY <1>2
<1>4. s # {}
  BY <1>3, TotalOfNone
<1>5. PICK y : y \in s
  BY <1>4
<1>6. Total(g, s) = g[y] + Total(g, s \ {y}) /\ Total(d, s) = d[y] + Total(d, s \ {y})
  BY <1>0, <1>3, <1>5, TotalRemove
<1>7. Cardinality(s \ {y}) < n
  BY <1>0, <1>3, <1>5, Removed
<1>8. s \ {y} \notin Differs
  BY <1>0, <1>2, <1>3, <1>7
<1>9. g[y] \in Int /\ d[y] \in Int /\ g[y] <= d[y] /\ Total(g, s \ {y}) \in Int
      /\ Total(d, s \ {y}) \in Int
  BY <1>0, <1>3, <1>5 DEF IsInt
<1> QED BY <1>3, <1>6, <1>8, <1>9

LEMMA TotalSame ==
  ASSUME NEW S, IsFiniteSet(S), NEW g, IsInt(g, S), NEW d, \A x \in S : g[x] = d[x]
  PROVE  Total(g, S) = Total(d, S)
<1>1. IsInt(d, S)
  BY DEF IsInt
<1>2. Total(g, S) <= Total(d, S) /\ Total(d, S) <= Total(g, S)
  BY <1>1, TotalGrows DEF IsInt
<1>3. Total(g, S) \in Int /\ Total(d, S) \in Int
  BY <1>1, TotalUnfolds
<1>4. \A a, b \in Int : a <= b /\ b <= a => a = b
  OBVIOUS
<1> QED BY <1>2, <1>3, <1>4

\* What one value changes by the sum does.
LEMMA TotalChange ==
  ASSUME NEW S, IsFiniteSet(S), NEW g, IsInt(g, S), NEW d, IsInt(d, S), NEW x \in S,
         \A y \in S : y # x => g[y] = d[y]
  PROVE  Total(d, S) = Total(g, S) - g[x] + d[x]
<1>1. IsFiniteSet(S \ {x}) /\ IsInt(g, S \ {x}) /\ \A y \in S \ {x} : g[y] = d[y]
  BY Removed DEF IsInt
<1>2. Total(g, S \ {x}) = Total(d, S \ {x}) /\ Total(g, S \ {x}) \in Int
  BY <1>1, TotalSame, TotalUnfolds
<1>3. Total(g, S) = g[x] + Total(g, S \ {x}) /\ Total(d, S) = d[x] + Total(d, S \ {x})
  BY TotalRemove
<1> QED BY <1>2, <1>3 DEF IsInt

\* A sum can be taken group by group.
LEMMA TotalByGroup ==
  ASSUME NEW S, IsFiniteSet(S), NEW g, IsInt(g, S), NEW K, IsFiniteSet(K),
         NEW group, \A x \in S : group[x] \in K
  PROVE  Total(g, S) = Total([k \in K |-> Total(g, {x \in S : group[x] = k})], K)
<1> DEFINE Part(s, k) == {x \in s : group[x] = k}
           ByGroup(s) == [k \in K |-> Total(g, Part(s, k))]
           Differs == {s \in SUBSET S : Total(g, s) # Total(ByGroup(s), K)}
           Bad == {Cardinality(s) : s \in Differs}
<1>0. \A s \in SUBSET S : IsFiniteSet(s) /\ Cardinality(s) \in Nat /\ IsInt(g, s) /\ Total(g, s) \in Int
  BY FS_Subset, FS_CardinalityType, TotalUnfolds DEF IsInt
<1>1. \A s \in SUBSET S : IsInt(ByGroup(s), K) /\ Total(ByGroup(s), K) \in Int
  <2> SUFFICES ASSUME NEW s \in SUBSET S PROVE IsInt(ByGroup(s), K) /\ Total(ByGroup(s), K) \in Int
    OBVIOUS
  <2>1. \A k \in K : Total(g, Part(s, k)) \in Int
    BY <1>0
  <2>2. IsInt(ByGroup(s), K)
    BY <2>1 DEF IsInt
  <2> HIDE DEF ByGroup
  <2> QED BY <2>2, TotalUnfolds
<1> SUFFICES ASSUME Differs # {} PROVE FALSE
  OBVIOUS
<1>2. Bad \subseteq Nat /\ Bad # {}
  BY <1>0
<1>3. PICK n \in Bad : \A m \in Bad : n <= m
  BY <1>2, HasALeast
<1>4. PICK s \in Differs : Cardinality(s) = n
  BY <1>3
<1>5. CASE s = {}
  <2>1. \A k \in K : ByGroup(s)[k] = 0
    <3>1. \A k \in K : Part(s, k) = {}
      BY <1>5
    <3> QED BY <3>1, TotalOfNone
  <2> DEFINE zero == [k \in K |-> 0]
  <2>2. Total(zero, K) = Total(ByGroup(s), K)
    <3>1. IsInt(zero, K)
      BY DEF IsInt
    <3>2. \A k \in K : zero[k] = ByGroup(s)[k]
      BY <2>1
    <3> HIDE DEF zero, ByGroup
    <3> QED BY <3>1, <3>2, TotalSame
  <2>3. Total(zero, K) = 0
    <3> DEFINE f == [t \in SUBSET K |-> 0]
    <3>1. Summing(zero, K, f)
      <4>1. \A t \in SUBSET K : t # {} => First(t) \in K /\ t \ {First(t)} \in SUBSET K
        BY FirstIsOfThem
      <4> QED BY <4>1 DEF Summing
    <3>2. IsInt(zero, K) /\ f[K] = 0
      BY DEF IsInt
    <3> HIDE DEF zero, f
    <3> QED BY <3>1, <3>2, TotalIs
  <2> QED BY <1>4, <1>5, <2>2, <2>3, TotalOfNone
<1>6. CASE s # {}
  <2>1. PICK y : y \in s
    BY <1>6
  <2> DEFINE r == s \ {y}
             c == group[y]
  <2>2. r \in SUBSET S /\ c \in K /\ r \notin Differs
    <3>1. r \in SUBSET S /\ c \in K
      BY <1>4, <2>1
    <3>2. /\ Cardinality(s) \in Nat /\ Cardinality(r) \in Nat
          /\ Cardinality(r) = Cardinality(s) - 1
      BY <1>0, <1>4, <2>1, Removed
    <3>3. ~(n <= Cardinality(r))
      BY <1>4, <3>2
    <3> HIDE DEF Differs, r
    <3>4. r \notin Differs
      BY <1>3, <3>3
    <3> QED BY <3>1, <3>4
  <2>3. Total(g, s) = g[y] + Total(g, r)
    BY <1>0, <1>4, <2>1, TotalRemove
  <2>4. \A k \in K : k # c => ByGroup(r)[k] = ByGroup(s)[k]
    <3> SUFFICES ASSUME NEW k \in K, k # c PROVE ByGroup(r)[k] = ByGroup(s)[k]
      OBVIOUS
    <3>1. Part(r, k) = Part(s, k)
      OBVIOUS
    <3> QED BY <3>1
  <2>5. ByGroup(s)[c] = g[y] + ByGroup(r)[c]
    <3>1. Part(r, c) = Part(s, c) \ {y} /\ y \in Part(s, c) /\ Part(s, c) \in SUBSET S
      BY <1>4, <2>1
    <3>2. Total(g, Part(s, c)) = g[y] + Total(g, Part(s, c) \ {y})
      BY <3>1, <1>0, TotalRemove
    <3> QED BY <3>1, <3>2, <2>2
  <2>6. /\ IsInt(ByGroup(s), K) /\ IsInt(ByGroup(r), K) /\ Total(ByGroup(r), K) \in Int
        /\ Total(g, r) \in Int
    BY <1>0, <1>1, <1>4, <2>2
  <2>7. Total(ByGroup(r), K) = Total(g, r)
    BY <2>2
  <2> HIDE DEF ByGroup
  <2>8. Total(ByGroup(s), K) = Total(ByGroup(r), K) - ByGroup(r)[c] + ByGroup(s)[c]
    <3> DEFINE d == ByGroup(s)
               e == ByGroup(r)
    <3>1. IsInt(d, K) /\ IsInt(e, K) /\ (\A k \in K : k # c => e[k] = d[k]) /\ c \in K
      BY <2>2, <2>4, <2>6
    <3> HIDE DEF d, e, c
    <3>2. Total(d, K) = Total(e, K) - e[c] + d[c]
      BY <3>1, TotalChange
    <3> QED BY <3>2 DEF d, e
  <2>9. ByGroup(r)[c] \in Int /\ g[y] \in Int
    BY <2>1, <2>2, <2>6, <1>4 DEF IsInt
  <2>10. Total(ByGroup(s), K) = Total(g, s)
    BY <2>3, <2>5, <2>6, <2>7, <2>8, <2>9
  <2> QED BY <2>10, <1>4
<1> QED BY <1>5, <1>6
-----------------------------------------------------------------------------
(* What a policy has bound.                                                *)

\* What the entries of one type of k at p come to, and what k binds of p, as
\* AmountOf and Bound say of the ledger.
TheAmount(written) == IF written = {} THEN 0 ELSE (CHOOSE e \in written : TRUE).amount
AmountIn(rows, p, k, type) == TheAmount(Written(rows, p, k, type))

BoundIn(rows, p, k) ==
  IF Written(rows, p, k, "CHARGE") # {}
    THEN IF AmountIn(rows, p, k, "CHARGE") < Estimate THEN AmountIn(rows, p, k, "CHARGE")
                                                      ELSE Estimate
    ELSE AmountIn(rows, p, k, "RESERVATION") - AmountIn(rows, p, k, "RELEASE")

Bounds(rows, p) == [k \in Invocations |-> BoundIn(rows, p, k)]

\* What k adds to what computeSpentCents finds of p.
Net(rows, p, k) ==
  AmountIn(rows, p, k, "RESERVATION") + AmountIn(rows, p, k, "CHARGE")
    - AmountIn(rows, p, k, "RELEASE")

Nets(rows, p) == [k \in Invocations |-> Net(rows, p, k)]

\* An entry is there once; nothing is charged or released that was not reserved;
\* an agent that runs is charged before it is released, and one that does not run
\* is never charged.
Sound(rows) ==
  /\ IsFiniteSet(rows) /\ rows \subseteq Rows
  /\ \A d, e \in rows : d.policy = e.policy /\ d.key = e.key /\ d.type = e.type => d = e
  /\ \A e \in rows :
       /\ e.amount \in Nat
       /\ e.type = "RESERVATION" => e.amount = Estimate
       /\ e.type # "RESERVATION" => HasReserved(rows, e.policy, e.key)
       /\ e.type = "CHARGE" => e.key \in Implemented
       /\ e.type = "RELEASE" =>
            /\ e.amount <= Estimate
            /\ e.key \in Implemented => Written(rows, e.policy, e.key, "CHARGE") # {}

SnapshotsSound ==
  \A k \in Invocations : \A n \in Tries(k) :
    try[k][n].pc = "COMMIT" => Sound(try[k][n].snapshot)

Capped(rows) == \A p \in Policies : Total(Bounds(rows, p), Invocations) <= Limit[p]

CapInv == Sound(ledger) /\ SnapshotsSound /\ Capped(ledger)

\* The constants, as the sums use them.
LEMMA Capacities ==
  /\ IsFiniteSet(Invocations) /\ \A p \in Policies : Limit[p] \in Nat
  /\ IsFiniteSet(Policies) /\ Estimate \in Nat
  BY InvocationAssumption DEF InvocationAssumption

\* There is at most one entry of a type, and it has the amount.
LEMMA TheEntry ==
  ASSUME NEW rows, Sound(rows), NEW p, NEW k, NEW type, NEW e \in Written(rows, p, k, type)
  PROVE  /\ Written(rows, p, k, type) = {e}
         /\ AmountIn(rows, p, k, type) = e.amount /\ e.amount \in Nat
         /\ e \in rows /\ e.policy = p /\ e.key = k /\ e.type = type
<1>1. e \in rows /\ e.policy = p /\ e.key = k /\ e.type = type /\ e.amount \in Nat
  BY DEF Written, Sound
<1>2. \A d \in Written(rows, p, k, type) : d = e
  BY <1>1 DEF Written, Sound
<1>3. Written(rows, p, k, type) = {e}
  BY <1>2
<1>4. (CHOOSE d \in Written(rows, p, k, type) : TRUE) = e
  BY <1>3
<1> QED BY <1>1, <1>3, <1>4 DEF AmountIn, TheAmount

\* What the entries of k at p can be.
LEMMA Amounts ==
  ASSUME NEW rows, Sound(rows), NEW p, NEW k
  PROVE  /\ \A type : AmountIn(rows, p, k, type) \in Nat
         /\ \A type : Written(rows, p, k, type) = {} => AmountIn(rows, p, k, type) = 0
         /\ HasReserved(rows, p, k) => AmountIn(rows, p, k, "RESERVATION") = Estimate
         /\ ~HasReserved(rows, p, k) =>
              \A type \in EntryTypes : AmountIn(rows, p, k, type) = 0 /\ Written(rows, p, k, type) = {}
         /\ AmountIn(rows, p, k, "RELEASE") <= Estimate
         /\ Written(rows, p, k, "CHARGE") # {} => HasReserved(rows, p, k) /\ k \in Implemented
         /\ Written(rows, p, k, "RELEASE") # {} /\ k \in Implemented =>
              Written(rows, p, k, "CHARGE") # {}
<1>1. \A type : Written(rows, p, k, type) = {} => AmountIn(rows, p, k, type) = 0
  BY DEF AmountIn, TheAmount
<1>2. \A type : AmountIn(rows, p, k, type) \in Nat
  <2> SUFFICES ASSUME NEW type PROVE AmountIn(rows, p, k, type) \in Nat
    OBVIOUS
  <2>1. CASE Written(rows, p, k, type) = {}
    BY <2>1, <1>1
  <2>2. CASE Written(rows, p, k, type) # {}
    <3>1. PICK e : e \in Written(rows, p, k, type)
      BY <2>2
    <3> QED BY <3>1, TheEntry
  <2> QED BY <2>1, <2>2
<1>3. ASSUME HasReserved(rows, p, k) PROVE AmountIn(rows, p, k, "RESERVATION") = Estimate
  <2>1. PICK e : e \in Written(rows, p, k, "RESERVATION")
    BY <1>3 DEF HasReserved
  <2>2. AmountIn(rows, p, k, "RESERVATION") = e.amount /\ e \in rows /\ e.type = "RESERVATION"
    BY <2>1, TheEntry
  <2> QED BY <2>2 DEF Sound
<1>4. \A type \in EntryTypes : Written(rows, p, k, type) # {} => HasReserved(rows, p, k)
  <2> SUFFICES ASSUME NEW type \in EntryTypes, NEW e \in Written(rows, p, k, type)
               PROVE  HasReserved(rows, p, k)
    OBVIOUS
  <2>1. e \in rows /\ e.policy = p /\ e.key = k /\ e.type = type
    BY DEF Written
  <2>2. CASE type = "RESERVATION"
    BY <2>2 DEF HasReserved
  <2>3. CASE type # "RESERVATION"
    BY <2>1, <2>3 DEF Sound
  <2> QED BY <2>2, <2>3
<1>5. AmountIn(rows, p, k, "RELEASE") <= Estimate
  <2>1. CASE Written(rows, p, k, "RELEASE") = {}
    BY <2>1, <1>1, Capacities
  <2>2. CASE Written(rows, p, k, "RELEASE") # {}
    <3>1. PICK e : e \in Written(rows, p, k, "RELEASE")
      BY <2>2
    <3>2. AmountIn(rows, p, k, "RELEASE") = e.amount /\ e \in rows /\ e.type = "RELEASE"
      BY <3>1, TheEntry
    <3> QED BY <3>2 DEF Sound
  <2> QED BY <2>1, <2>2
<1>6. Written(rows, p, k, "CHARGE") # {} => k \in Implemented
  BY DEF Written, Sound
<1>7. Written(rows, p, k, "RELEASE") # {} /\ k \in Implemented => Written(rows, p, k, "CHARGE") # {}
  BY DEF Written, Sound
<1> QED BY <1>1, <1>2, <1>3, <1>4, <1>5, <1>6, <1>7 DEF EntryTypes

\* What they come to is a number.
LEMMA BoundsAreInts ==
  ASSUME NEW rows, Sound(rows), NEW p
  PROVE  /\ \A k : BoundIn(rows, p, k) \in Int /\ Net(rows, p, k) \in Int
         /\ IsInt(Bounds(rows, p), Invocations) /\ IsInt(Nets(rows, p), Invocations)
<1>1. ASSUME NEW k PROVE BoundIn(rows, p, k) \in Int /\ Net(rows, p, k) \in Int
  <2>1. \A type : AmountIn(rows, p, k, type) \in Int
    BY Amounts
  <2>2. Net(rows, p, k) \in Int
    BY <2>1 DEF Net
  <2>3. BoundIn(rows, p, k) \in Int
    BY <2>1, Capacities DEF BoundIn
  <2> QED BY <2>2, <2>3
<1> QED BY <1>1 DEF IsInt, Bounds, Nets

-----------------------------------------------------------------------------
(* What is spent of a policy, invocation by invocation.                    *)

Signed(rows) == [e \in rows |-> IF e.type = "RELEASE" THEN -e.amount ELSE e.amount]
Of(rows, p) == {e \in rows : e.policy = p}

LEMMA SpentIsTotal ==
  ASSUME NEW rows, Sound(rows), NEW p
  PROVE  computeSpentCents(rows, p) = Total(Signed(rows), Of(rows, p))
<1> DEFINE S == Of(rows, p)
           g == Signed(rows)
           Spending(f) == f = [s \in SUBSET S |-> IF s = {} THEN 0
                                 ELSE (IF First(s).type = "RELEASE" THEN -First(s).amount
                                                                    ELSE First(s).amount)
                                      + f[s \ {First(s)}]]
<1>1. IsFiniteSet(S) /\ S \subseteq rows /\ IsInt(g, S)
  <2>1. S \subseteq rows /\ IsFiniteSet(S)
    BY FS_Subset DEF Of, Sound
  <2>2. \A e \in rows : g[e] \in Int
    BY DEF Signed, Sound
  <2> QED BY <2>1, <2>2 DEF IsInt
<1>2. computeSpentCents(rows, p) = (CHOOSE f : Spending(f))[S]
  BY DEF computeSpentCents, MapThenSumSet, MapThenFoldSet, First, Of
<1>3. \A s \in SUBSET S : s # {} =>
        g[First(s)] = IF First(s).type = "RELEASE" THEN -First(s).amount ELSE First(s).amount
  BY <1>1, FirstIsOfThem DEF Signed
<1>4. \A f : Spending(f) <=> Summing(g, S, f)
  <2> SUFFICES ASSUME NEW f PROVE Spending(f) <=> Summing(g, S, f)
    OBVIOUS
  <2> DEFINE A == [s \in SUBSET S |-> IF s = {} THEN 0
                                 ELSE (IF First(s).type = "RELEASE" THEN -First(s).amount
                                                                    ELSE First(s).amount)
                                      + f[s \ {First(s)}]]
             B == [s \in SUBSET S |-> IF s = {} THEN 0 ELSE g[First(s)] + f[s \ {First(s)}]]
  <2>1. \A s \in SUBSET S : A[s] = B[s]
    BY <1>3
  <2>2. A = B
    BY <2>1
  <2> QED BY <2>2 DEF Summing
<1> HIDE DEF Spending, g, S
<1>5. \E f : Spending(f)
  BY <1>1, <1>4, SummingExists
<1> DEFINE h == CHOOSE f : Spending(f)
<1>6. Summing(g, S, h)
  BY <1>4, <1>5
<1> HIDE DEF h
<1>7. Total(g, S) = h[S]
  BY <1>1, <1>6, TotalIs
<1> QED BY <1>2, <1>7 DEF h, g, S

\* A sum without what at most one element of the set is.
Worth(g, w) == IF w = {} THEN 0 ELSE g[CHOOSE e \in w : TRUE]

LEMMA TotalWithout ==
  ASSUME NEW S, IsFiniteSet(S), NEW g, IsInt(g, S), NEW w \in SUBSET S,
         \A d, e \in w : d = e
  PROVE  Total(g, S) = Worth(g, w) + Total(g, S \ w)
<1>1. CASE w = {}
  <2>1. Total(g, S) \in Int /\ S \ w = S /\ Worth(g, w) = 0
    BY <1>1, TotalUnfolds DEF Worth
  <2> QED BY <2>1
<1>2. CASE w # {}
  <2>1. PICK e : e \in w
    BY <1>2
  <2>2. w = {e} /\ e \in S
    BY <2>1
  <2>3. Worth(g, w) = g[e]
    BY <2>2 DEF Worth
  <2> QED BY <2>2, <2>3, TotalRemove
<1> QED BY <1>1, <1>2

\* What one invocation's entries at a policy sum to.
LEMMA NetIsTotal ==
  ASSUME NEW rows, Sound(rows), NEW p, NEW k
  PROVE  Total(Signed(rows), {e \in Of(rows, p) : e.key = k}) = Net(rows, p, k)
<1> DEFINE S == {e \in Of(rows, p) : e.key = k}
           g == Signed(rows)
           R == Written(rows, p, k, "RESERVATION")
           C == Written(rows, p, k, "CHARGE")
           L == Written(rows, p, k, "RELEASE")
<1>1. S \subseteq rows /\ IsFiniteSet(S) /\ IsFiniteSet(S \ R) /\ IsFiniteSet((S \ R) \ C)
  <2>1. S \subseteq rows
    BY DEF Of
  <2>2. IsFiniteSet(rows)
    BY DEF Sound
  <2> QED BY <2>1, <2>2, FS_Subset
<1>2. \A e \in rows : g[e] = IF e.type = "RELEASE" THEN -e.amount ELSE e.amount
  BY DEF Signed
<1>3. \A T \in SUBSET S : IsInt(g, T)
  <2>1. \A e \in rows : e.amount \in Nat
    BY DEF Sound
  <2>2. \A e \in S : g[e] \in Int
    BY <1>1, <1>2, <2>1
  <2> QED BY <2>2 DEF IsInt
<1>4. /\ R \in SUBSET S /\ C \in SUBSET (S \ R) /\ L \in SUBSET ((S \ R) \ C)
      /\ ((S \ R) \ C) \ L = {}
  <2>1. \A e \in S : e \in R \/ e \in C \/ e \in L
    BY DEF Of, Sound, Written, Rows, EntryTypes
  <2>2. R \subseteq S /\ C \subseteq S /\ L \subseteq S
    BY DEF Of, Written
  <2>3. R \cap C = {} /\ R \cap L = {} /\ C \cap L = {}
    BY DEF Written
  <2> QED BY <2>1, <2>2, <2>3
<1>5. ASSUME NEW type
      PROVE  /\ \A d, e \in Written(rows, p, k, type) : d = e
             /\ Worth(g, Written(rows, p, k, type)) =
                  IF type = "RELEASE" THEN -AmountIn(rows, p, k, type)
                                      ELSE AmountIn(rows, p, k, type)
  <2>1. \A d, e \in Written(rows, p, k, type) : d = e
    BY TheEntry
  <2>2. CASE Written(rows, p, k, type) = {}
    <3>1. Worth(g, Written(rows, p, k, type)) = 0 /\ AmountIn(rows, p, k, type) = 0
      BY <2>2 DEF Worth, AmountIn, TheAmount
    <3>2. \A x \in Int : -x = 0 - x
      OBVIOUS
    <3>3. AmountIn(rows, p, k, type) \in Int
      BY Amounts
    <3>4. -AmountIn(rows, p, k, type) = 0 - AmountIn(rows, p, k, type)
      BY <3>2, <3>3
    <3>5. -AmountIn(rows, p, k, type) = 0
      BY <3>1, <3>3, <3>4
    <3> QED BY <2>1, <3>1, <3>5
  <2>3. CASE Written(rows, p, k, type) # {}
    <3>1. PICK e : e \in Written(rows, p, k, type)
      BY <2>3
    <3>2. /\ Written(rows, p, k, type) = {e} /\ e \in rows /\ e.type = type
          /\ AmountIn(rows, p, k, type) = e.amount
      BY <3>1, TheEntry
    <3>3. Worth(g, Written(rows, p, k, type)) = g[e]
      BY <3>2 DEF Worth
    <3> QED BY <2>1, <3>2, <3>3, <1>2
  <2> QED BY <2>1, <2>2, <2>3
<1>6. /\ Worth(g, R) = AmountIn(rows, p, k, "RESERVATION")
      /\ Worth(g, C) = AmountIn(rows, p, k, "CHARGE")
      /\ Worth(g, L) = -AmountIn(rows, p, k, "RELEASE")
  BY <1>5
<1>7. /\ IsInt(g, S) /\ IsInt(g, S \ R) /\ IsInt(g, (S \ R) \ C)
      /\ (\A d, e \in R : d = e) /\ (\A d, e \in C : d = e) /\ (\A d, e \in L : d = e)
  BY <1>3, <1>5
<1> HIDE DEF S, g, R, C, L
<1>8. Total(g, S) = Worth(g, R) + Total(g, S \ R)
  BY <1>1, <1>4, <1>7, TotalWithout
<1>9. Total(g, S \ R) = Worth(g, C) + Total(g, (S \ R) \ C)
  BY <1>1, <1>4, <1>7, TotalWithout
<1>10. Total(g, (S \ R) \ C) = Worth(g, L) + Total(g, {})
  BY <1>1, <1>4, <1>7, TotalWithout
<1>11. \A type : AmountIn(rows, p, k, type) \in Nat
  BY Amounts
<1>12. Total(g, S) = AmountIn(rows, p, k, "RESERVATION") + AmountIn(rows, p, k, "CHARGE")
                       - AmountIn(rows, p, k, "RELEASE")
  BY <1>6, <1>8, <1>9, <1>10, <1>11, TotalOfNone
<1> QED BY <1>12 DEF Net, S, g

\* So what is spent of a policy is what its invocations add to it.
LEMMA SpentByInvocation ==
  ASSUME NEW rows, Sound(rows), NEW p
  PROVE  computeSpentCents(rows, p) = Total(Nets(rows, p), Invocations)
<1> DEFINE S == Of(rows, p)
           g == Signed(rows)
           group == [e \in rows |-> e.key]
           Part == [k \in Invocations |-> Total(g, {e \in S : group[e] = k})]
<1>1. S \subseteq rows /\ IsFiniteSet(S) /\ IsInt(g, S)
  <2>1. S \subseteq rows /\ IsFiniteSet(S)
    BY FS_Subset DEF Of, Sound
  <2>2. \A e \in rows : g[e] \in Int
    BY DEF Signed, Sound
  <2> QED BY <2>1, <2>2 DEF IsInt
<1>2. \A e \in S : group[e] = e.key /\ group[e] \in Invocations
  BY <1>1 DEF Sound, Rows
<1>3. \A k \in Invocations : Part[k] = Net(rows, p, k)
  <2> SUFFICES ASSUME NEW k \in Invocations PROVE Total(g, {e \in S : group[e] = k}) = Net(rows, p, k)
    OBVIOUS
  <2>1. {e \in S : group[e] = k} = {e \in Of(rows, p) : e.key = k}
    BY <1>2
  <2> QED BY <2>1, NetIsTotal
<1>4. Part = Nets(rows, p)
  BY <1>3 DEF Nets
<1> HIDE DEF S, g, group
<1>5. Total(g, S) = Total(Part, Invocations)
  BY <1>1, <1>2, Capacities, TotalByGroup
<1>6. Total(g, S) = computeSpentCents(rows, p)
  BY SpentIsTotal DEF S, g
<1> QED BY <1>4, <1>5, <1>6
-----------------------------------------------------------------------------
(* The caps.                                                               *)

\* What a snapshot shows of a policy nobody has reserved of since is no less than
\* what is bound of it now.
LEMMA BoundWithinNet ==
  ASSUME NEW rows, Sound(rows), NEW now, Sound(now), rows \subseteq now, NEW p, NEW k,
         \A e \in now \ rows : ~(e.type = "RESERVATION" /\ e.policy = p)
  PROVE  BoundIn(now, p, k) <= Net(rows, p, k)
<1>1. /\ \A type : AmountIn(rows, p, k, type) \in Nat /\ AmountIn(now, p, k, type) \in Nat
      /\ AmountIn(rows, p, k, "RELEASE") <= Estimate /\ Estimate \in Nat
  BY Amounts, Capacities
<1>2. \A type : Written(rows, p, k, type) # {} =>
                  Written(now, p, k, type) # {} /\ AmountIn(now, p, k, type) = AmountIn(rows, p, k, type)
  <2> SUFFICES ASSUME NEW type, NEW e \in Written(rows, p, k, type)
               PROVE  Written(now, p, k, type) # {} /\ AmountIn(now, p, k, type) = AmountIn(rows, p, k, type)
    OBVIOUS
  <2>1. e \in Written(now, p, k, type)
    BY DEF Written
  <2> QED BY <2>1, TheEntry
<1>3. HasReserved(now, p, k) <=> HasReserved(rows, p, k)
  BY DEF HasReserved, Written
<1>4. CASE ~HasReserved(rows, p, k)
  <2>1. \A type \in EntryTypes : /\ AmountIn(rows, p, k, type) = 0 /\ AmountIn(now, p, k, type) = 0
                                 /\ Written(now, p, k, type) = {}
    BY <1>3, <1>4, Amounts
  <2>2. Net(rows, p, k) = 0 /\ BoundIn(now, p, k) = 0
    BY <2>1 DEF Net, BoundIn, EntryTypes
  <2> QED BY <2>2
<1>5. CASE HasReserved(rows, p, k)
  <2>1. AmountIn(rows, p, k, "RESERVATION") = Estimate /\ AmountIn(now, p, k, "RESERVATION") = Estimate
    BY <1>3, <1>5, Amounts
  <2>2. Net(rows, p, k) = Estimate + AmountIn(rows, p, k, "CHARGE") - AmountIn(rows, p, k, "RELEASE")
    BY <2>1 DEF Net
  <2>3. CASE Written(rows, p, k, "CHARGE") # {}
    <3>1. Written(now, p, k, "CHARGE") # {}
          /\ AmountIn(now, p, k, "CHARGE") = AmountIn(rows, p, k, "CHARGE")
      BY <2>3, <1>2
    <3>2. BoundIn(now, p, k) <= AmountIn(rows, p, k, "CHARGE")
      BY <3>1, <1>1 DEF BoundIn
    <3>3. BoundIn(now, p, k) \in Int
      BY BoundsAreInts
    <3> QED BY <3>2, <3>3, <2>2, <1>1
  <2>4. CASE Written(rows, p, k, "CHARGE") = {} /\ Written(rows, p, k, "RELEASE") # {}
    <3>1. k \notin Implemented /\ AmountIn(rows, p, k, "CHARGE") = 0
      BY <2>4, Amounts
    <3>2. Written(now, p, k, "CHARGE") = {}
      BY <3>1, Amounts
    <3>3. AmountIn(now, p, k, "RELEASE") = AmountIn(rows, p, k, "RELEASE")
      BY <2>4, <1>2
    <3>4. BoundIn(now, p, k) = Estimate - AmountIn(rows, p, k, "RELEASE")
      BY <3>2, <3>3, <2>1 DEF BoundIn
    <3> QED BY <3>1, <3>4, <2>2, <1>1
  <2>5. CASE Written(rows, p, k, "CHARGE") = {} /\ Written(rows, p, k, "RELEASE") = {}
    <3>1. AmountIn(rows, p, k, "CHARGE") = 0 /\ AmountIn(rows, p, k, "RELEASE") = 0
      BY <2>5, Amounts
    <3>2. BoundIn(now, p, k) <= Estimate
      BY <2>1, <1>1 DEF BoundIn
    <3> QED BY <3>1, <3>2, <2>2, <1>1
  <2> QED BY <2>3, <2>4, <2>5
<1> QED BY <1>4, <1>5

\* What is bound of a policy depends on its rows alone.
LEMMA SameRows ==
  ASSUME NEW rows, NEW more, NEW p, Of(more, p) = Of(rows, p)
  PROVE  Bounds(more, p) = Bounds(rows, p)
<1>1. \A k, type : Written(more, p, k, type) = Written(rows, p, k, type)
  BY DEF Written, Of
<1> QED BY <1>1 DEF Bounds, BoundIn, AmountIn

\* The reservations of a transaction nobody has reserved against since its snapshot
\* leave every policy within its limit.
LEMMA CommitCaps ==
  ASSUME IInv, CapInv, NEW k \in Invocations, NEW n \in Tries(k), CommitReservations(k, n)
  PROVE  Sound(ledger') /\ Capped(ledger')
<1> DEFINE rows == try[k][n].snapshot
           missing == ToReserve(rows, k)
           added == {Entry(p, k, "RESERVATION", Estimate) : p \in missing}
<1>1. Fits(k, try[k][n], ledger) /\ try[k][n].pc = "COMMIT"
  BY TryTyped DEF CommitReservations, At
<1>2. rows \subseteq ledger /\ Sound(rows) /\ Sound(ledger)
  BY <1>1 DEF Fits, CapInv, SnapshotsSound
<1>3. ledger' = ledger \cup added
  BY DEF CommitReservations
<1>4. missing \subseteq Scopes[k] /\ Scopes[k] \subseteq Policies /\ Estimate \in Nat
  BY Constants DEF ToReserve
<1>5. \A e \in added : e \in Rows /\ e.key = k /\ e.type = "RESERVATION" /\ e.amount = Estimate
                       /\ e.policy \in missing
  BY <1>4 DEF Entry, Rows, EntryTypes
<1>6. missing # {} => \A e \in ledger \ rows : ~(e.type = "RESERVATION" /\ e.policy \in Scopes[k])
  BY DEF CommitReservations, Conflicts
<1>7. \A p \in missing : ~HasReserved(ledger, p, k)
  <2> SUFFICES ASSUME NEW p \in missing, NEW e \in Written(ledger, p, k, "RESERVATION") PROVE FALSE
    BY DEF HasReserved
  <2>1. e \in ledger /\ e.type = "RESERVATION" /\ e.policy = p /\ e.key = k
    BY DEF Written
  <2>2. e \in rows
    BY <2>1, <1>4, <1>6
  <2>3. HasReserved(rows, p, k)
    BY <2>1, <2>2 DEF HasReserved, Written
  <2> QED BY <2>3 DEF ToReserve
<1>8. Sound(ledger')
  <2>1. IsFiniteSet(ledger') /\ ledger' \subseteq Rows
    <3>1. IsFiniteSet(missing)
      BY <1>4, Capacities, FS_Subset
    <3>2. IsFiniteSet(added)
      <4> DEFINE f == [p \in missing |-> Entry(p, k, "RESERVATION", Estimate)]
      <4>1. f \in Surjection(missing, added)
        BY DEF Surjection
      <4> QED BY <3>1, <4>1, FS_Surjection
    <3> QED BY <3>2, <1>2, <1>3, <1>5, FS_Union DEF Sound
  <2>2. \A d, e \in ledger' : d.policy = e.policy /\ d.key = e.key /\ d.type = e.type => d = e
    <3> SUFFICES ASSUME NEW d \in ledger', NEW e \in ledger',
                        d.policy = e.policy, d.key = e.key, d.type = e.type
                 PROVE  d = e
      OBVIOUS
    <3>1. ASSUME NEW a \in added, NEW b \in ledger, a.policy = b.policy, a.key = b.key, a.type = b.type
          PROVE  FALSE
      <4>1. b \in Written(ledger, a.policy, k, "RESERVATION") /\ a.policy \in missing
        BY <3>1, <1>5 DEF Written
      <4> QED BY <4>1, <1>7 DEF HasReserved
    <3>2. CASE d \in ledger /\ e \in ledger
      BY <3>2, <1>2 DEF Sound
    <3>3. CASE d \in added /\ e \in added
      BY <3>3, <1>5 DEF Rows
    <3> QED BY <3>1, <3>2, <3>3, <1>3
  <2>3. \A p, l, type : Written(ledger, p, l, type) # {} => Written(ledger', p, l, type) # {}
    BY <1>3 DEF Written
  <2>4. \A e \in ledger' :
          /\ e.amount \in Nat
          /\ e.type = "RESERVATION" => e.amount = Estimate
          /\ e.type # "RESERVATION" => HasReserved(ledger', e.policy, e.key)
          /\ e.type = "CHARGE" => e.key \in Implemented
          /\ e.type = "RELEASE" =>
               /\ e.amount <= Estimate
               /\ e.key \in Implemented => Written(ledger', e.policy, e.key, "CHARGE") # {}
    <3> SUFFICES ASSUME NEW e \in ledger'
                 PROVE  /\ e.amount \in Nat
                        /\ e.type = "RESERVATION" => e.amount = Estimate
                        /\ e.type # "RESERVATION" => HasReserved(ledger', e.policy, e.key)
                        /\ e.type = "CHARGE" => e.key \in Implemented
                        /\ e.type = "RELEASE" =>
                             /\ e.amount <= Estimate
                             /\ e.key \in Implemented => Written(ledger', e.policy, e.key, "CHARGE") # {}
      OBVIOUS
    <3>1. CASE e \in added
      BY <3>1, <1>4, <1>5
    <3>2. CASE e \in ledger
      BY <3>2, <1>2, <2>3 DEF Sound, HasReserved
    <3> QED BY <3>1, <3>2, <1>3
  <2> QED BY <2>1, <2>2, <2>4 DEF Sound
<1>9. Capped(ledger')
  <2> SUFFICES ASSUME NEW p \in Policies PROVE Total(Bounds(ledger', p), Invocations) <= Limit[p]
    BY DEF Capped
  <2>1. CASE p \notin missing
    <3>1. Of(ledger', p) = Of(ledger, p)
      BY <2>1, <1>3, <1>5 DEF Of
    <3>2. Bounds(ledger', p) = Bounds(ledger, p)
      BY <3>1, SameRows
    <3> QED BY <3>2 DEF CapInv, Capped
  <2>2. CASE p \in missing
    <3> DEFINE spent == computeSpentCents(rows, p)
               N == Nets(rows, p)
               D == [j \in Invocations |-> IF j = k THEN Estimate ELSE Net(rows, p, j)]
               B == Bounds(ledger', p)
    <3>1. Limit[p] - spent >= Estimate
      BY <2>2 DEF CommitReservations, Refused, HasRoom
    <3>2. spent = Total(N, Invocations) /\ IsInt(N, Invocations) /\ N[k] = Net(rows, p, k)
      BY <1>2, SpentByInvocation, BoundsAreInts DEF Nets
    <3>3. \A e \in ledger \ rows : ~(e.type = "RESERVATION" /\ e.policy = p)
      BY <2>2, <1>4, <1>6
    <3>4. \A j : BoundIn(ledger, p, j) <= Net(rows, p, j)
      BY <1>2, <3>3, BoundWithinNet
    <3>5. ~HasReserved(rows, p, k)
      BY <2>2 DEF ToReserve
    <3>6. Net(rows, p, k) = 0
      BY <3>5, <1>2, Amounts DEF Net, EntryTypes
    <3>7. \A j \in Invocations : j # k => BoundIn(ledger', p, j) = BoundIn(ledger, p, j)
      <4>1. \A j, type : j # k => Written(ledger', p, j, type) = Written(ledger, p, j, type)
        BY <1>3, <1>5 DEF Written
      <4> QED BY <4>1 DEF BoundIn, AmountIn
    <3>8. BoundIn(ledger', p, k) <= Estimate
      <4>1. Written(ledger, p, k, "CHARGE") = {} /\ Written(ledger, p, k, "RELEASE") = {}
        BY <2>2, <1>2, <1>7, Amounts DEF EntryTypes
      <4>2. Written(ledger', p, k, "CHARGE") = {} /\ Written(ledger', p, k, "RELEASE") = {}
        BY <4>1, <1>3, <1>5 DEF Written
      <4>3. HasReserved(ledger', p, k)
        <5>1. Entry(p, k, "RESERVATION", Estimate) \in Written(ledger', p, k, "RESERVATION")
          BY <2>2, <1>3 DEF Entry, Written
        <5> QED BY <5>1 DEF HasReserved
      <4>4. AmountIn(ledger', p, k, "RESERVATION") = Estimate /\ AmountIn(ledger', p, k, "RELEASE") = 0
        BY <4>2, <4>3, <1>8, Amounts
      <4> QED BY <4>2, <4>4, <1>4 DEF BoundIn
    <3>9. IsInt(B, Invocations) /\ IsInt(D, Invocations)
      <4>1. IsInt(B, Invocations)
        BY <1>8, BoundsAreInts
      <4>2. \A j : Net(rows, p, j) \in Int
        BY <1>2, BoundsAreInts
      <4> QED BY <4>1, <4>2, <1>4 DEF IsInt
    <3>10. \A j \in Invocations : B[j] <= D[j]
      BY <3>4, <3>7, <3>8 DEF Bounds
    <3>11. (\A j \in Invocations : j # k => N[j] = D[j]) /\ D[k] = Estimate
      BY DEF Nets
    <3> HIDE DEF B, D, N, spent
    <3>12. Total(B, Invocations) <= Total(D, Invocations)
      BY <3>9, <3>10, Capacities, TotalGrows
    <3>13. Total(D, Invocations) = Total(N, Invocations) - N[k] + D[k]
      BY <3>2, <3>9, <3>11, Capacities, TotalChange
    <3>14. Total(B, Invocations) \in Int /\ Total(N, Invocations) \in Int /\ Limit[p] \in Int
      <4>1. IsFiniteSet(Invocations) /\ Limit[p] \in Int
        BY Capacities
      <4> QED BY <3>2, <3>9, <4>1, TotalUnfolds
    <3>15. Total(D, Invocations) = spent + Estimate /\ spent \in Int
      BY <3>2, <3>6, <3>11, <3>13, <3>14, <1>4
    <3>16. Total(B, Invocations) <= Limit[p]
      BY <3>1, <3>12, <3>14, <3>15, <1>4
    <3> QED BY <3>16 DEF B
  <2> QED BY <2>1, <2>2
<1> QED BY <1>8, <1>9
\* A charge or release written once lowers what is bound, if it changes it at all.
LEMMA OnceCaps ==
  ASSUME IInv, CapInv, NEW k \in Invocations, NEW p \in Policies, NEW type \in {"CHARGE", "RELEASE"},
         NEW amount \in Nat, WriteOnce(p, k, type, amount), HasReserved(ledger, p, k),
         type = "CHARGE" => k \in Implemented,
         type = "RELEASE" =>
           amount <= Estimate /\ (k \in Implemented => Written(ledger, p, k, "CHARGE") # {})
  PROVE  Sound(ledger') /\ Capped(ledger')
<1> DEFINE e == Entry(p, k, type, amount)
<1>1. e \in Rows /\ e.policy = p /\ e.key = k /\ e.type = type /\ e.amount = amount
  BY DEF Entry, Rows, EntryTypes
<1>2. CASE Written(ledger, p, k, type) # {}
  BY <1>2 DEF WriteOnce, CapInv
<1>3. CASE Written(ledger, p, k, type) = {}
  <2>1. ledger' = ledger \cup {e} /\ Sound(ledger)
    BY <1>3 DEF WriteOnce, CapInv
  <2>2. \A q, l, t : Written(ledger, q, l, t) # {} => Written(ledger', q, l, t) # {}
    BY <2>1 DEF Written
  <2>3. \A q, l, t : ~(q = p /\ l = k /\ t = type) => Written(ledger', q, l, t) = Written(ledger, q, l, t)
    BY <2>1, <1>1 DEF Written
  <2>4. IsFiniteSet(ledger') /\ ledger' \subseteq Rows
    BY <2>1, <1>1, FS_AddElement DEF Sound
  <2>5. \A c, d \in ledger' : c.policy = d.policy /\ c.key = d.key /\ c.type = d.type => c = d
    <3>1. \A d \in ledger : ~(d.policy = p /\ d.key = k /\ d.type = type)
      BY <1>3 DEF Written
    <3> QED BY <3>1, <2>1, <1>1 DEF Sound
  <2>6. \A d \in ledger' :
          /\ d.amount \in Nat
          /\ d.type = "RESERVATION" => d.amount = Estimate
          /\ d.type # "RESERVATION" => HasReserved(ledger', d.policy, d.key)
          /\ d.type = "CHARGE" => d.key \in Implemented
          /\ d.type = "RELEASE" =>
               /\ d.amount <= Estimate
               /\ d.key \in Implemented => Written(ledger', d.policy, d.key, "CHARGE") # {}
    <3> SUFFICES ASSUME NEW d \in ledger'
                 PROVE  /\ d.amount \in Nat
                        /\ d.type = "RESERVATION" => d.amount = Estimate
                        /\ d.type # "RESERVATION" => HasReserved(ledger', d.policy, d.key)
                        /\ d.type = "CHARGE" => d.key \in Implemented
                        /\ d.type = "RELEASE" =>
                             /\ d.amount <= Estimate
                             /\ d.key \in Implemented => Written(ledger', d.policy, d.key, "CHARGE") # {}
      OBVIOUS
    <3>1. CASE d = e
      BY <3>1, <1>1, <2>2 DEF HasReserved
    <3>2. CASE d \in ledger
      BY <3>2, <2>1, <2>2 DEF Sound, HasReserved
    <3> QED BY <3>1, <3>2, <2>1
  <2>7. Sound(ledger')
    BY <2>4, <2>5, <2>6 DEF Sound
  <2>8. \A q \in Policies : \A l \in Invocations : BoundIn(ledger', q, l) <= BoundIn(ledger, q, l)
    <3> SUFFICES ASSUME NEW q \in Policies, NEW l \in Invocations
                 PROVE  BoundIn(ledger', q, l) <= BoundIn(ledger, q, l)
      OBVIOUS
    <3>1. BoundIn(ledger, q, l) \in Int
      BY <2>1, BoundsAreInts
    <3>2. CASE ~(q = p /\ l = k)
      <4>1. \A t : Written(ledger', q, l, t) = Written(ledger, q, l, t)
        BY <2>3, <3>2
      <4>2. BoundIn(ledger', q, l) = BoundIn(ledger, q, l)
        BY <4>1 DEF BoundIn, AmountIn
      <4> QED BY <4>2, <3>1
    <3>3. CASE q = p /\ l = k
      <4>1. /\ AmountIn(ledger, p, k, "RESERVATION") = Estimate /\ Estimate \in Nat
            /\ \A t : AmountIn(ledger', p, k, t) \in Nat
            /\ \A t : Written(ledger, p, k, t) = {} => AmountIn(ledger, p, k, t) = 0
        BY <2>1, <2>7, Amounts, Capacities
      <4>2. CASE type = "CHARGE"
        <5>1. Written(ledger, p, k, "CHARGE") = {} /\ k \in Implemented
          BY <1>3, <4>2
        <5>2. Written(ledger, p, k, "RELEASE") = {}
          BY <5>1, <2>1, Amounts
        <5>3. BoundIn(ledger, p, k) = Estimate
          BY <5>1, <5>2, <4>1 DEF BoundIn
        <5>4. Written(ledger', p, k, "CHARGE") # {}
          BY <2>1, <1>1, <4>2 DEF Written
        <5>5. BoundIn(ledger', p, k) <= Estimate
          BY <5>4, <4>1 DEF BoundIn
        <5> QED BY <5>3, <5>5, <3>3
      <4>3. CASE type = "RELEASE"
        <5>1. /\ Written(ledger', p, k, "CHARGE") = Written(ledger, p, k, "CHARGE")
              /\ Written(ledger', p, k, "RESERVATION") = Written(ledger, p, k, "RESERVATION")
          BY <2>3, <4>3
        <5>2. CASE Written(ledger, p, k, "CHARGE") # {}
          <6>1. BoundIn(ledger', p, k) = BoundIn(ledger, p, k)
            BY <5>1, <5>2 DEF BoundIn, AmountIn
          <6> QED BY <6>1, <3>1, <3>3
        <5>3. CASE Written(ledger, p, k, "CHARGE") = {}
          <6>1. AmountIn(ledger', p, k, "RESERVATION") = Estimate
            BY <5>1, <4>1 DEF AmountIn
          <6>2. AmountIn(ledger, p, k, "RELEASE") = 0
            BY <1>3, <4>1, <4>3
          <6>3. BoundIn(ledger, p, k) = Estimate
            BY <5>3, <6>2, <4>1 DEF BoundIn
          <6>4. BoundIn(ledger', p, k) = Estimate - AmountIn(ledger', p, k, "RELEASE")
            BY <5>1, <5>3, <6>1 DEF BoundIn
          <6>5. AmountIn(ledger', p, k, "RELEASE") \in Nat
            BY <4>1
          <6> QED BY <6>3, <6>4, <6>5, <4>1, <3>3
        <5> QED BY <5>2, <5>3
      <4> QED BY <4>2, <4>3
    <3> QED BY <3>2, <3>3
  <2>9. Capped(ledger')
    <3> SUFFICES ASSUME NEW q \in Policies PROVE Total(Bounds(ledger', q), Invocations) <= Limit[q]
      BY DEF Capped
    <3> DEFINE g == Bounds(ledger', q)
               d == Bounds(ledger, q)
    <3>1. IsInt(g, Invocations) /\ IsInt(d, Invocations)
      BY <2>1, <2>7, BoundsAreInts
    <3>2. \A l \in Invocations : g[l] <= d[l]
      BY <2>8 DEF Bounds
    <3>3. Total(d, Invocations) <= Limit[q]
      BY DEF CapInv, Capped
    <3> HIDE DEF g, d
    <3>4. Total(g, Invocations) <= Total(d, Invocations)
      BY <3>1, <3>2, Capacities, TotalGrows
    <3>5. Total(g, Invocations) \in Int /\ Total(d, Invocations) \in Int
      <4>1. IsFiniteSet(Invocations)
        BY Capacities
      <4> QED BY <3>1, <4>1, TotalUnfolds
    <3>6. Limit[q] \in Int
      BY Capacities
    <3>7. Total(g, Invocations) <= Limit[q]
      BY <3>3, <3>4, <3>5, <3>6
    <3> QED BY <3>7 DEF g
  <2> QED BY <2>7, <2>9
<1> QED BY <1>2, <1>3

\* A try moves on, with the snapshot it had, without one, or with the ledger's rows.
LEMMA SnapshotsKept ==
  ASSUME IInv, CapInv, NEW k \in Invocations, NEW n \in Tries(k), NEW t, Goes(k, n, t),
         t.pc = "COMMIT" => Sound(t.snapshot)
  PROVE  SnapshotsSound'
<1> SUFFICES ASSUME NEW l \in Invocations, NEW m \in Tries(l), try'[l][m].pc = "COMMIT"
             PROVE  Sound(try'[l][m].snapshot)
  BY DEF SnapshotsSound
<1>1. CASE l = k /\ m = n
  BY <1>1, Gone DEF IInv
<1>2. CASE ~(l = k /\ m = n)
  <2>1. try'[l][m] = try[l][m]
    BY <1>2, Gone DEF IInv
  <2> QED BY <2>1 DEF CapInv, SnapshotsSound
<1> QED BY <1>1, <1>2

\* The steps of a try that write no row.
LEMMA QuietCaps ==
  ASSUME IInv, CapInv, NEW k \in Invocations, NEW n \in Tries(k),
         \/ Start(k, n) \/ Die(k, n) \/ Find(k, n) \/ BeginTransaction(k, n) \/ Refuse(k, n)
         \/ AbortTransaction(k, n) \/ CallAgent(k, n) \/ Record(k, n)
  PROVE  CapInv'
<1>1. UNCHANGED ledger
  BY DEF Start, Die, Find, BeginTransaction, Refuse, AbortTransaction, CallAgent, Record
<1>2. try[k][n] \in Try /\ Sound(ledger)
  BY TryTyped DEF CapInv
<1>3. SnapshotsSound'
  <2>1. CASE Start(k, n)
    <3>1. [Idle EXCEPT !.pc = "FIND"].pc # "COMMIT"
      BY DEF Idle
    <3> QED BY <2>1, <3>1, SnapshotsKept DEF Start
  <2>2. CASE Die(k, n) \/ Record(k, n)
    <3>1. Idle.pc # "COMMIT"
      BY DEF Idle
    <3> QED BY <2>2, <3>1, SnapshotsKept DEF Die, Record
  <2>3. CASE Find(k, n)
    <3>1. Idle.pc # "COMMIT" /\ [try[k][n] EXCEPT !.pc = "BEGIN", !.attempt = 1].pc # "COMMIT"
      BY <1>2 DEF Idle, Try
    <3> QED BY <2>3, <3>1, SnapshotsKept DEF Find
  <2>4. CASE BeginTransaction(k, n)
    <3>1. Sound([try[k][n] EXCEPT !.pc = "COMMIT", !.snapshot = ledger].snapshot)
      BY <1>2 DEF Try
    <3> QED BY <2>4, <3>1, SnapshotsKept DEF BeginTransaction
  <2>5. CASE Refuse(k, n)
    <3>1. [try[k][n] EXCEPT !.pc = "RECORD", !.outcome = "BUDGET_EXCEEDED",
                            !.snapshot = {}].pc # "COMMIT"
      BY <1>2 DEF Try
    <3> QED BY <2>5, <3>1, SnapshotsKept DEF Refuse
  <2>6. CASE AbortTransaction(k, n)
    <3>1. Idle.pc # "COMMIT"
          /\ [try[k][n] EXCEPT !.pc = "BEGIN", !.attempt = @ + 1, !.snapshot = {}].pc # "COMMIT"
      BY <1>2 DEF Idle, Try
    <3> QED BY <2>6, <3>1, SnapshotsKept DEF AbortTransaction
  <2>7. CASE CallAgent(k, n)
    <3>1. PICK t : Goes(k, n, t) /\ t.pc # "COMMIT"
      <4>1. [try[k][n] EXCEPT !.pc = "GIVE_BACK", !.outcome = "NOT_RUN"].pc # "COMMIT"
        BY <1>2 DEF Try
      <4>2. \A c, o : [try[k][n] EXCEPT !.pc = "CHARGE", !.cost = c, !.outcome = o].pc # "COMMIT"
        BY <1>2 DEF Try
      <4> QED BY <2>7, <4>1, <4>2 DEF CallAgent
    <3> QED BY <3>1, SnapshotsKept
  <2> QED BY <2>1, <2>2, <2>3, <2>4, <2>5, <2>6, <2>7
<1>4. Capped(ledger') /\ Sound(ledger')
  BY <1>1 DEF CapInv
<1> QED BY <1>3, <1>4 DEF CapInv

\* Those that write rows.
LEMMA WritingCaps ==
  ASSUME IInv, CapInv, NEW k \in Invocations, NEW n \in Tries(k),
         \/ CommitReservations(k, n) \/ Charge(k, n) \/ ReleaseRemainder(k, n) \/ GiveBack(k, n)
  PROVE  CapInv'
<1> DEFINE p == Next1(try[k][n].todo)
<1>1. Fits(k, try[k][n], ledger) /\ try[k][n] \in Try
  BY TryTyped
<1>2. CASE CommitReservations(k, n)
  <2>1. [try[k][n] EXCEPT !.pc = "CALL", !.snapshot = {}, !.todo = Scopes[k]].pc # "COMMIT"
    BY <1>1 DEF Try
  <2>2. SnapshotsSound'
    BY <1>2, <2>1, SnapshotsKept DEF CommitReservations
  <2> QED BY <1>2, <2>2, CommitCaps DEF CapInv
<1>3. ASSUME try[k][n].todo # {}, try[k][n].pc \in {"CHARGE", "REMAINDER", "GIVE_BACK"}
      PROVE  p \in Policies /\ HasReserved(ledger, p, k)
  <2>1. p \in try[k][n].todo /\ try[k][n].todo \subseteq Scopes[k]
    BY <1>1, <1>3, NextIsOfThem DEF Try, Fits
  <2> QED BY <1>1, <1>3, <2>1, Constants DEF Fits, ReservedFor
<1>4. CASE Charge(k, n)
  <2>1. [try[k][n] EXCEPT !.pc = "REMAINDER"].pc # "COMMIT"
    BY <1>1 DEF Try
  <2>2. SnapshotsSound'
    BY <1>4, <2>1, SnapshotsKept DEF Charge
  <2>3. try[k][n].cost \in Nat /\ k \in Implemented
    BY <1>1, <1>4 DEF Try, Fits, Charge, At
  <2>4. p \in Policies /\ HasReserved(ledger, p, k)
    BY <1>3, <1>4 DEF Charge, At
  <2>5. Sound(ledger') /\ Capped(ledger')
    BY <1>4, <2>3, <2>4, OnceCaps DEF Charge
  <2> QED BY <2>2, <2>5 DEF CapInv
<1>5. CASE ReleaseRemainder(k, n)
  <2> DEFINE remainder == Estimate - try[k][n].cost
  <2>1. [try[k][n] EXCEPT !.pc = "CHARGE", !.todo = @ \ {p}].pc # "COMMIT"
    BY <1>1 DEF Try
  <2>2. SnapshotsSound'
    BY <1>5, <2>1, SnapshotsKept DEF ReleaseRemainder
  <2>3. try[k][n].pc = "REMAINDER"
    BY <1>5 DEF ReleaseRemainder, At
  <2>4. try[k][n].todo # {} /\ Written(ledger, p, k, "CHARGE") # {}
    BY <1>1, <2>3 DEF Fits
  <2>5. p \in Policies /\ HasReserved(ledger, p, k)
    BY <1>3, <2>3, <2>4
  <2>6. CASE remainder > 0
    <3>1. remainder \in Nat /\ remainder <= Estimate
      BY <1>1, <2>6, Constants DEF Try
    <3>2. WriteOnce(p, k, "RELEASE", remainder)
      BY <1>5, <2>6 DEF ReleaseRemainder
    <3>3. Sound(ledger') /\ Capped(ledger')
      BY <3>1, <3>2, <2>4, <2>5, OnceCaps
    <3> QED BY <2>2, <3>3 DEF CapInv
  <2>7. CASE ~(remainder > 0)
    <3>1. UNCHANGED ledger
      BY <1>5, <2>7 DEF ReleaseRemainder
    <3> QED BY <2>2, <3>1 DEF CapInv
  <2> QED BY <2>6, <2>7
<1>6. CASE GiveBack(k, n)
  <2>1. [try[k][n] EXCEPT !.todo = @ \ {p}].pc = try[k][n].pc /\ try[k][n].pc # "COMMIT"
    BY <1>1, <1>6 DEF Try, GiveBack, At
  <2>2. SnapshotsSound'
    BY <1>6, <2>1, SnapshotsKept DEF GiveBack
  <2>3. k \notin Implemented
    BY <1>1, <1>6 DEF Fits, GiveBack, At
  <2>4. p \in Policies /\ HasReserved(ledger, p, k)
    BY <1>3, <1>6 DEF GiveBack, At
  <2>5. WriteOnce(p, k, "RELEASE", Estimate) /\ Estimate \in Nat /\ Estimate <= Estimate
    BY <1>6, Constants DEF GiveBack
  <2>6. Sound(ledger') /\ Capped(ledger')
    BY <2>3, <2>4, <2>5, OnceCaps
  <2> QED BY <2>2, <2>6 DEF CapInv
<1> QED BY <1>2, <1>4, <1>5, <1>6

LEMMA InitCaps == Init => CapInv
<1> SUFFICES ASSUME Init PROVE CapInv
  OBVIOUS
<1>1. Sound({})
  BY FS_EmptySet DEF Sound
<1>2. SnapshotsSound
  BY DEF Init, SnapshotsSound, Idle
<1>3. Capped({})
  <2> SUFFICES ASSUME NEW p \in Policies PROVE Total(Bounds({}, p), Invocations) <= Limit[p]
    BY DEF Capped
  <2>1. computeSpentCents({}, p) = Total(Nets({}, p), Invocations)
    BY <1>1, SpentByInvocation
  <2>2. computeSpentCents({}, p) = Total(Signed({}), Of({}, p)) /\ Of({}, p) = {}
    BY <1>1, SpentIsTotal DEF Of
  <2>3. Bounds({}, p) = Nets({}, p)
    <3>1. \A k : BoundIn({}, p, k) = Net({}, p, k)
      <4> SUFFICES ASSUME NEW k PROVE BoundIn({}, p, k) = Net({}, p, k)
        OBVIOUS
      <4>1. \A type : Written({}, p, k, type) = {} /\ AmountIn({}, p, k, type) = 0
        BY DEF Written, AmountIn, TheAmount
      <4> QED BY <4>1 DEF BoundIn, Net
    <3> QED BY <3>1 DEF Bounds, Nets
  <2>4. Total(Bounds({}, p), Invocations) = 0
    BY <2>1, <2>2, <2>3, TotalOfNone
  <2> QED BY <2>4, Capacities
<1> QED BY <1>1, <1>2, <1>3 DEF Init, CapInv

LEMMA NextCaps == IInv /\ CapInv /\ [Next]_vars => CapInv'
<1> SUFFICES ASSUME IInv, CapInv, [Next]_vars PROVE CapInv'
  OBVIOUS
<1>1. CASE UNCHANGED vars
  BY <1>1 DEF vars, CapInv, SnapshotsSound
<1>2. ASSUME NEW k \in Invocations, NEW n \in Tries(k), Start(k, n) \/ Work(k, n) \/ Die(k, n)
      PROVE  CapInv'
  BY <1>2, QuietCaps, WritingCaps DEF Work
<1> QED BY <1>1, <1>2 DEF Next

\* What is bound of a policy is the sum the property names.
LEMMA CapsAsStated == CapInv => WithinCaps
<1> SUFFICES ASSUME CapInv, NEW p \in Policies
             PROVE  MapThenSumSet(LAMBDA k : Bound(p, k), Invocations) <= Limit[p]
  BY DEF WithinCaps
<1> DEFINE g == Bounds(ledger, p)
           Binding(f) == f = [s \in SUBSET Invocations |-> IF s = {} THEN 0
                                ELSE Bound(p, First(s)) + f[s \ {First(s)}]]
<1>1. MapThenSumSet(LAMBDA k : Bound(p, k), Invocations) = (CHOOSE f : Binding(f))[Invocations]
  BY DEF MapThenSumSet, MapThenFoldSet, First
<1>2. \A k \in Invocations : g[k] = Bound(p, k)
  <2>1. \A k, type : AmountIn(ledger, p, k, type) = AmountOf(p, k, type)
    BY DEF AmountIn, AmountOf, TheAmount
  <2> QED BY <2>1 DEF Bounds, BoundIn, Bound
<1>3. \A f : Binding(f) <=> Summing(g, Invocations, f)
  <2> SUFFICES ASSUME NEW f PROVE Binding(f) <=> Summing(g, Invocations, f)
    OBVIOUS
  <2> DEFINE A == [s \in SUBSET Invocations |-> IF s = {} THEN 0
                                ELSE Bound(p, First(s)) + f[s \ {First(s)}]]
             B == [s \in SUBSET Invocations |-> IF s = {} THEN 0 ELSE g[First(s)] + f[s \ {First(s)}]]
  <2>1. \A s \in SUBSET Invocations : A[s] = B[s]
    <3> SUFFICES ASSUME NEW s \in SUBSET Invocations PROVE A[s] = B[s]
      OBVIOUS
    <3>1. CASE s = {}
      BY <3>1
    <3>2. CASE s # {}
      <4>1. First(s) \in Invocations
        BY <3>2, FirstIsOfThem
      <4>2. g[First(s)] = Bound(p, First(s))
        BY <4>1, <1>2
      <4> QED BY <3>2, <4>2
    <3> QED BY <3>1, <3>2
  <2>2. A = B
    BY <2>1
  <2> QED BY <2>2 DEF Summing
<1>4. IsInt(g, Invocations) /\ IsFiniteSet(Invocations) /\ Total(g, Invocations) <= Limit[p]
  BY BoundsAreInts, Capacities DEF CapInv, Capped
<1> HIDE DEF Binding, g
<1>5. \E f : Binding(f)
  BY <1>3, <1>4, SummingExists
<1> DEFINE h == CHOOSE f : Binding(f)
<1>6. Summing(g, Invocations, h)
  BY <1>3, <1>5
<1> HIDE DEF h
<1>7. Total(g, Invocations) = h[Invocations]
  BY <1>4, <1>6, TotalIs
<1> QED BY <1>1, <1>4, <1>7 DEF h

\* No policy ever has more bound than its limit, whichever invocations read, reserve
\* and settle at the same time (reserveBudgetAcrossScopes in budget-repository.ts).
THEOREM CapsHold == Spec => []WithinCaps
<1>1. Init => IInv /\ CapInv
  BY InitIInv, InitCaps
<1>2. IInv /\ CapInv /\ [Next]_vars => (IInv /\ CapInv)'
  BY NextIInv, NextCaps
<1>3. IInv /\ CapInv => WithinCaps
  BY CapsAsStated
<1> QED BY <1>1, <1>2, <1>3, PTL DEF Spec
=============================================================================
