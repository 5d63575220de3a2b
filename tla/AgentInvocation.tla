--------------------------- MODULE AgentInvocation ---------------------------
(***************************************************************************)
(* executeSpecialistAgentActivity: one invocation of a specialist agent is *)
(* looked up by its key, reserved at every budget scope in one             *)
(* SERIALIZABLE transaction, run, trued up policy by policy and recorded.  *)
(* Its tries may overlap, since the server retries a try it timed out      *)
(* while the try still runs, and invocations of several campaigns share    *)
(* the policies.                                                           *)
(***************************************************************************)
EXTENDS Naturals, Integers, FiniteSets, FiniteSetsExt

CONSTANTS
  Invocations,   \* idempotency keys
  Policies,      \* the ids of the configured policies, in the order of their locks
  Scopes,        \* for each invocation, the policies configured for its scopes
  Limit,         \* limitCents of each policy
  Estimate,      \* what an invocation reserves
  Costs,         \* what a provider call may turn out to cost
  Implemented,   \* the invocations whose agent executeAgent does run
  MaxTries,      \* maximumAttempts of the activity each invocation is part of
  MaxTransactions  \* BUDGET_TRANSACTION_MAX_ATTEMPTS

\* A call may cost more than its estimate: the agent's budget of input tokens is
\* only estimated from, and nothing holds the prompt to it.
ASSUME InvocationAssumption ==
  /\ Policies \subseteq Nat /\ IsFiniteSet(Policies) /\ IsFiniteSet(Invocations)
  /\ Scopes \in [Invocations -> SUBSET Policies]
  /\ Limit \in [Policies -> Nat]
  /\ Estimate \in Nat /\ Costs \subseteq Nat
  /\ MaxTries \in [Invocations -> Nat] /\ MaxTransactions \in Nat \ {0}

VARIABLES
  ledger,     \* budget_ledger_entries
  record,     \* agent_invocations, by key
  try,        \* the tries of each invocation
  started     \* tries begun

vars == <<ledger, record, try, started>>

EntryTypes == {"RESERVATION", "CHARGE", "RELEASE"}
Entry(p, k, type, amount) == [policy |-> p, key |-> k, type |-> type, amount |-> amount]

Outcomes == {"SUCCEEDED", "FAILED", "BUDGET_EXCEEDED", "NOT_RUN"}
NoRecord == "NO_RECORD"

\* A try: its transaction's snapshot and attempt, the result it has to record,
\* the policies it still has to true up, and what the call cost.
Idle == [pc |-> "IDLE", snapshot |-> {}, attempt |-> 0, outcome |-> NoRecord,
         todo |-> {}, cost |-> 0]

Tries(k) == 1 .. MaxTries[k]

Init ==
  /\ ledger = {}
  /\ record = [k \in Invocations |-> NoRecord]
  /\ try = [k \in Invocations |-> [n \in Tries(k) |-> Idle]]
  /\ started = [k \in Invocations |-> 0]

At(k, n, pc) == try[k][n].pc = pc
Goes(k, n, r) == try' = [try EXCEPT ![k][n] = r]

-----------------------------------------------------------------------------
(* The ledger.                                                             *)

Written(rows, p, k, type) == {e \in rows : e.policy = p /\ e.key = k /\ e.type = type}

computeSpentCents(rows, p) ==
  MapThenSumSet(LAMBDA e : IF e.type = "RELEASE" THEN -e.amount ELSE e.amount,
                {e \in rows : e.policy = p})

\* The reservation an earlier transaction of the same key left.
HasReserved(rows, p, k) == Written(rows, p, k, "RESERVATION") # {}

HasRoom(rows, p) == Limit[p] - computeSpentCents(rows, p) >= Estimate

\* Decided for every policy before any row is written.
ToReserve(rows, k) == {p \in Scopes[k] : ~HasReserved(rows, p, k)}
Refused(rows, k) == \E p \in ToReserve(rows, k) : ~HasRoom(rows, p)

\* Mutant: a transaction at a weaker isolation level, aborted by nothing but the
\* unique key of its own reservation.
OnlyDuplicatesConflict(k, rows) ==
  \E e \in ledger \ rows : e.type = "RESERVATION" /\ e.key = k

\* PostgreSQL aborts one of two transactions that read one policy's entries and
\* both write to them; a charge or release is written outside any transaction
\* and conflicts with none.
Conflicts(k, rows) ==
  \E e \in ledger \ rows : e.type = "RESERVATION" /\ e.policy \in Scopes[k]

\* A row is written once for a key: a later writer gets the first one's row.
WriteOnce(p, k, type, amount) ==
  ledger' = IF Written(ledger, p, k, type) = {} THEN ledger \cup {Entry(p, k, type, amount)}
                                                ELSE ledger

-----------------------------------------------------------------------------
(* A try.                                                                  *)

\* The server starts a try, and another when the last has failed, has timed out or
\* has ended without its answer being heard; whether it still runs it cannot tell.
Start(k, n) ==
  /\ n = started[k] + 1
  /\ started' = [started EXCEPT ![k] = n]
  /\ Goes(k, n, [Idle EXCEPT !.pc = "FIND"])
  /\ UNCHANGED <<ledger, record>>

\* The recorded result answers a retry.  Left out: an agent the registry does not
\* know is recorded as failed here, before anything is reserved.
Find(k, n) ==
  /\ At(k, n, "FIND")
  /\ \/ /\ record[k] # NoRecord
        /\ Goes(k, n, Idle)
     \/ /\ record[k] = NoRecord
        /\ Goes(k, n, [try[k][n] EXCEPT !.pc = "BEGIN", !.attempt = 1])
  /\ UNCHANGED <<ledger, record, started>>

BeginTransaction(k, n) ==
  /\ At(k, n, "BEGIN")
  /\ Goes(k, n, [try[k][n] EXCEPT !.pc = "COMMIT", !.snapshot = ledger])
  /\ UNCHANGED <<ledger, record, started>>

\* Mutant: the policies with room are written before the refusal is found.
RefuseMidway(k, n) ==
  /\ At(k, n, "COMMIT") /\ Refused(try[k][n].snapshot, k)
  /\ ledger' = ledger \cup {Entry(p, k, "RESERVATION", Estimate) :
                            p \in {q \in ToReserve(ledger, k) : HasRoom(ledger, q)}}
  /\ Goes(k, n, [try[k][n] EXCEPT !.pc = "RECORD", !.outcome = "BUDGET_EXCEEDED",
                                  !.snapshot = {}])
  /\ UNCHANGED <<record, started>>

\* The snapshot shows a policy without room: nothing is written.
Refuse(k, n) ==
  /\ At(k, n, "COMMIT") /\ Refused(try[k][n].snapshot, k)
  /\ Goes(k, n, [try[k][n] EXCEPT !.pc = "RECORD", !.outcome = "BUDGET_EXCEEDED",
                                  !.snapshot = {}])
  /\ UNCHANGED <<ledger, record, started>>

CommitReservations(k, n) ==
  /\ At(k, n, "COMMIT")
  /\ LET rows == try[k][n].snapshot
     IN /\ ~Refused(rows, k)
        /\ ToReserve(rows, k) = {} \/ ~Conflicts(k, rows)
        /\ ledger' = ledger \cup {Entry(p, k, "RESERVATION", Estimate) : p \in ToReserve(rows, k)}
  /\ Goes(k, n, [try[k][n] EXCEPT !.pc = "CALL", !.snapshot = {}, !.todo = Scopes[k]])
  /\ UNCHANGED <<record, started>>

\* A serialization failure, or the unique key of a reservation another try has
\* just written: a new transaction, up to the bound, and then the try fails.
AbortTransaction(k, n) ==
  /\ At(k, n, "COMMIT")
  /\ LET rows == try[k][n].snapshot
     IN ~Refused(rows, k) /\ ToReserve(rows, k) # {} /\ Conflicts(k, rows)
  /\ IF try[k][n].attempt < MaxTransactions
       THEN Goes(k, n, [try[k][n] EXCEPT !.pc = "BEGIN", !.attempt = @ + 1, !.snapshot = {}])
       ELSE Goes(k, n, Idle)
  /\ UNCHANGED <<ledger, record, started>>

\* executeAgent: an agent that is not implemented or disabled throws before any
\* call; otherwise one call, or a corrective second one whose cost alone is
\* reported, whether its answer is valid or not; or an input or a provider error,
\* which report no cost.
CallAgent(k, n) ==
  /\ At(k, n, "CALL")
  /\ \/ /\ k \notin Implemented
        /\ Goes(k, n, [try[k][n] EXCEPT !.pc = "GIVE_BACK", !.outcome = "NOT_RUN"])
     \/ /\ k \in Implemented
        /\ \/ \E c \in Costs, outcome \in {"SUCCEEDED", "FAILED"} :
                Goes(k, n, [try[k][n] EXCEPT !.pc = "CHARGE", !.cost = c, !.outcome = outcome])
           \/ Goes(k, n, [try[k][n] EXCEPT !.pc = "CHARGE", !.cost = 0, !.outcome = "FAILED"])
  /\ UNCHANGED <<ledger, record, started>>

Next1(todo) == CHOOSE p \in todo : \A q \in todo : p <= q

\* The policies are done one after the other, in their order.
Charge(k, n) ==
  /\ At(k, n, "CHARGE") /\ try[k][n].todo # {}
  /\ WriteOnce(Next1(try[k][n].todo), k, "CHARGE", try[k][n].cost)
  /\ Goes(k, n, [try[k][n] EXCEPT !.pc = "REMAINDER"])
  /\ UNCHANGED <<record, started>>

\* What the reservation exceeds the cost by is released, if it does.
ReleaseRemainder(k, n) ==
  /\ At(k, n, "REMAINDER")
  /\ LET p == Next1(try[k][n].todo)
         remainder == Estimate - try[k][n].cost
     IN /\ IF remainder > 0 THEN WriteOnce(p, k, "RELEASE", remainder) ELSE UNCHANGED ledger
        /\ Goes(k, n, [try[k][n] EXCEPT !.pc = "CHARGE", !.todo = @ \ {p}])
  /\ UNCHANGED <<record, started>>

\* An agent that was not run gives every reservation back in full.
GiveBack(k, n) ==
  /\ At(k, n, "GIVE_BACK") /\ try[k][n].todo # {}
  /\ LET p == Next1(try[k][n].todo)
     IN /\ WriteOnce(p, k, "RELEASE", Estimate)
        /\ Goes(k, n, [try[k][n] EXCEPT !.todo = @ \ {p}])
  /\ UNCHANGED <<record, started>>

\* Mutant: the result is recorded before its reservations are settled.
RecordFirst(k, n) ==
  /\ At(k, n, "RECORD") \/ At(k, n, "CHARGE") \/ At(k, n, "GIVE_BACK")
  /\ record[k] = NoRecord
  /\ record' = [record EXCEPT ![k] = try[k][n].outcome]
  /\ UNCHANGED <<ledger, try, started>>

\* (campaignId, idempotencyKey) is unique: a second record throws.
Record(k, n) ==
  /\ \/ At(k, n, "RECORD")
     \/ At(k, n, "CHARGE") /\ try[k][n].todo = {}
     \/ At(k, n, "GIVE_BACK") /\ try[k][n].todo = {}
  /\ \/ /\ record[k] = NoRecord
        /\ record' = [record EXCEPT ![k] = try[k][n].outcome]
     \/ /\ record[k] # NoRecord
        /\ UNCHANGED record
  /\ Goes(k, n, Idle)
  /\ UNCHANGED <<ledger, started>>

\* A query throws, or the worker dies.
Die(k, n) ==
  /\ try[k][n] # Idle
  /\ Goes(k, n, Idle)
  /\ UNCHANGED <<ledger, record, started>>

Work(k, n) ==
  \/ Find(k, n) \/ BeginTransaction(k, n) \/ Refuse(k, n) \/ CommitReservations(k, n)
  \/ AbortTransaction(k, n) \/ CallAgent(k, n) \/ Charge(k, n) \/ ReleaseRemainder(k, n)
  \/ GiveBack(k, n) \/ Record(k, n)

Next == \E k \in Invocations : \E n \in Tries(k) : Start(k, n) \/ Work(k, n) \/ Die(k, n)

Spec == Init /\ [][Next]_vars

-----------------------------------------------------------------------------
(* What must hold.                                                         *)

\* What an invocation still binds of a policy: its charge once charged, held to
\* the estimate, and what it has not given back of its reservation before.
AmountOf(p, k, type) ==
  LET rows == Written(ledger, p, k, type)
  IN IF rows = {} THEN 0 ELSE (CHOOSE e \in rows : TRUE).amount

Bound(p, k) ==
  IF Written(ledger, p, k, "CHARGE") # {}
    THEN IF AmountOf(p, k, "CHARGE") < Estimate THEN AmountOf(p, k, "CHARGE") ELSE Estimate
    ELSE AmountOf(p, k, "RESERVATION") - AmountOf(p, k, "RELEASE")

\* However the transactions of several invocations interleave, and whatever is
\* charged, released and retried between them, a policy never has more bound
\* than its limit: two reservations read from the same rows never both commit.
WithinCaps ==
  \A p \in Policies : MapThenSumSet(LAMBDA k : Bound(p, k), Invocations) <= Limit[p]

\* An invocation is reserved at every policy of its scopes or at none, also when
\* the worker dies in between or the last policy refuses.
AllOrNothing ==
  \A k \in Invocations :
    LET reserved == {p \in Policies : HasReserved(ledger, p, k)}
    IN reserved = {} \/ reserved = Scopes[k]

\* A recorded result is settled at every policy, whichever tries worked on it and
\* wherever they died: once recorded no retry would settle it any more.
SettledBeforeRecorded ==
  \A k \in Invocations, p \in Policies :
    /\ record[k] \in {"SUCCEEDED", "FAILED"} /\ p \in Scopes[k] =>
         Written(ledger, p, k, "CHARGE") # {}
    /\ record[k] = "NOT_RUN" /\ p \in Scopes[k] =>
         AmountOf(p, k, "RELEASE") = AmountOf(p, k, "RESERVATION")

\* What computeSpentCents' comment says of every settlement path: a finished job
\* costs its policies its charge, and nothing of its reservation stays standing.
SettledAtCost ==
  \A k \in Invocations, p \in Policies :
    record[k] = "SUCCEEDED" =>
      computeSpentCents({e \in ledger : e.key = k}, p) = AmountOf(p, k, "CHARGE")
=============================================================================
