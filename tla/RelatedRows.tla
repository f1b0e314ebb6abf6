---------------------------- MODULE RelatedRows ----------------------------
(***************************************************************************)
(* DataService.UpdateRelatedRows (core/data_service.go): the statements of *)
(* one update run in a transaction on a pooled connection, at PostgreSQL's *)
(* default isolation level (READ COMMITTED).  Each statement sees what is  *)
(* committed when it runs; a transaction holds the pairs it inserted or    *)
(* deleted until it ends, and others wait for them.                        *)
(***************************************************************************)
EXTENDS Integers, Sequences, FiniteSets

CONSTANTS
    Rows,         \* the ids of the rows that may be linked
    Updates,      \* the updates of a behaviour, each submitted once
    Requests,     \* the bodies an update may have
    InitialLinks, \* the pairs linked at the start
    Connections,  \* connections of the pool (pgxpool MaxConns)
    MaxFaults     \* bound: statements that fail, commits whose answer is lost

Pairs == Rows \X Rows
\* mainTableRowId, RelationsConfig.Bidirectional and UpdateRelatedRowsActions.
RequestType ==
    [main : Rows, bidirectional : BOOLEAN, deleteIds : Seq(Rows), addIds : Seq(Rows)]

ASSUME RequestsAssumption == Requests \subseteq RequestType
ASSUME LinksAssumption == InitialLinks \subseteq Pairs
ASSUME BoundsAssumption == Connections \in Nat \ {0} /\ MaxFaults \in Nat

VARIABLES
    links,    \* the committed rows of the join table
    pc,       \* where each update is: "idle", "acquire", "running",
              \* "committed", "aborted", "rejected" or "done"
    request,  \* the body of each update
    next,     \* the statement the transaction runs next
    inserted, \* the pairs it inserted and has not committed
    deleted,  \* the pairs it deleted and has not committed
    answer,   \* the reply: "none", "ok" or "error"
    faults,   \* counter of the bound
    present,  \* auxiliary: pairs committed at some moment since the submission
    absent,   \* auxiliary: pairs not committed at some moment since
    crossed   \* auxiliary: whether an addition and a deletion of one pair
              \* were ever under way together

transaction == <<next, inserted, deleted>>
history     == <<present, absent, crossed>>
vars == <<links, pc, request, transaction, answer, faults, history>>

-----------------------------------------------------------------------------
(* The statements of an update, in the order of the two loops.             *)

\* Two statements per id when the relation is bidirectional, else one.
Width(r) == IF r.bidirectional THEN 2 ELSE 1
DeleteCount(r) == Width(r) * Len(r.deleteIds)
AddCount(r)    == Width(r) * Len(r.addIds)

PairAtMain(r, ids, k) == \* mutant: the reverse direction is forgotten
    IF r.bidirectional THEN <<r.main, ids[(k + 1) \div 2]>> ELSE <<r.main, ids[k]>>

\* The pair the k-th statement of a loop over ids is about: main direction,
\* then the reverse one.
PairAt(r, ids, k) ==
    IF ~r.bidirectional THEN <<r.main, ids[k]>>
    ELSE IF k % 2 = 1 THEN <<r.main, ids[(k + 1) \div 2]>> ELSE <<ids[k \div 2], r.main>>

Deletes(r) == {PairAt(r, r.deleteIds, k) : k \in 1..DeleteCount(r)}
Adds(r)    == {PairAt(r, r.addIds, k) : k \in 1..AddCount(r)}

\* The transaction of u is in its first loop, in its second, or past both.
Deleting(u)  == pc[u] = "running" /\ next[u] <= DeleteCount(request[u])
Inserting(u) == pc[u] = "running" /\ next[u] > DeleteCount(request[u])
                /\ next[u] <= DeleteCount(request[u]) + AddCount(request[u])
Finished(u)  == pc[u] = "running" /\ next[u] > DeleteCount(request[u]) + AddCount(request[u])

DeletePair(u) == PairAt(request[u], request[u].deleteIds, next[u])
AddPair(u)    == PairAt(request[u], request[u].addIds, next[u] - DeleteCount(request[u]))

-----------------------------------------------------------------------------
(* PostgreSQL: what a statement sees and whom it waits for.                *)

Held(u) == inserted[u] \union deleted[u]

\* A DELETE waits for another transaction that is deleting the same row; an
\* uncommitted row of another is invisible to it.  An INSERT waits for the
\* outcome of any other transaction that holds the same key.
Blockers(u) ==
    {v \in Updates \ {u} :
        \/ Deleting(u) /\ DeletePair(u) \in deleted[v]
        \/ Inserting(u) /\ AddPair(u) \in Held(v)}

Visible(u) == (links \ deleted[u]) \union inserted[u]

\* A connection is taken by db.Begin and returned by Commit or Rollback.
InUse == {u \in Updates : pc[u] \in {"running", "aborted"}}

-----------------------------------------------------------------------------
Crosses(r, s) == Adds(r) \intersect Deletes(s) # {} \/ Deletes(r) \intersect Adds(s) # {}

Moves(u, from, to) == pc[u] = from /\ pc' = [pc EXCEPT ![u] = to]
Faulty   == faults < MaxFaults /\ faults' = faults + 1
Advances(u) == next' = [next EXCEPT ![u] = @ + 1]

\* An auxiliary step: what the committed links are now, for those under way.
Observes(now) ==
    LET underWay == {u \in Updates : pc[u] \in {"acquire", "running"}} IN
    /\ present' = [u \in Updates |-> IF u \in underWay THEN present[u] \union now ELSE present[u]]
    /\ absent'  = [u \in Updates |-> IF u \in underWay THEN absent[u] \union (Pairs \ now) ELSE absent[u]]

\* The request arrives.
Submit(u) ==
    /\ Moves(u, "idle", "acquire")
    /\ present' = [present EXCEPT ![u] = links]
    /\ absent' = [absent EXCEPT ![u] = Pairs \ links]
    /\ UNCHANGED <<links, request, transaction, answer, faults, crossed>>

\* getRelationData finds no table or join column, or db.Begin fails.
Reject(u) ==
    /\ Moves(u, "acquire", "rejected") /\ Faulty
    /\ UNCHANGED <<links, request, transaction, answer, history>>

\* db.Begin: waits for a connection of the pool.
Begin(u) ==
    /\ Moves(u, "acquire", "running")
    /\ Cardinality(InUse) < Connections
    /\ crossed' = (crossed \/ \E v \in Updates : pc[v] = "running" /\ Crosses(request[u], request[v]))
    /\ UNCHANGED <<links, request, transaction, answer, faults, present, absent>>

DeleteRow(u) ==
    /\ Deleting(u) /\ Blockers(u) = {}
    /\ deleted' = [deleted EXCEPT ![u] = @ \union ({DeletePair(u)} \intersect links)]
    /\ Advances(u)
    /\ UNCHANGED <<links, pc, request, inserted, answer, faults, history>>

InsertRowAutocommit(u) == \* mutant: s.db.Exec where the code has tx.Exec
    /\ Inserting(u) /\ Blockers(u) = {}
    /\ links' = links \union {AddPair(u)}
    /\ Observes(links')
    /\ Advances(u)
    /\ UNCHANGED <<pc, request, inserted, deleted, answer, faults, crossed>>

InsertRowSkips(u) == \* mutant: the second direction is skipped
    /\ Inserting(u) /\ Blockers(u) = {}
    /\ inserted' = [inserted EXCEPT ![u] = @ \union ({AddPair(u)} \ Visible(u))]
    /\ next' = [next EXCEPT ![u] = @ + Width(request[u])]
    /\ UNCHANGED <<links, pc, request, deleted, answer, faults, history>>

\* ON CONFLICT DO NOTHING
InsertRow(u) ==
    /\ Inserting(u) /\ Blockers(u) = {}
    /\ inserted' = [inserted EXCEPT ![u] = @ \union ({AddPair(u)} \ Visible(u))]
    /\ Advances(u)
    /\ UNCHANGED <<links, pc, request, deleted, answer, faults, history>>

Releases(u) ==
    inserted' = [inserted EXCEPT ![u] = {}] /\ deleted' = [deleted EXCEPT ![u] = {}]

Commit(u) ==
    /\ Finished(u) /\ Moves(u, "running", "committed")
    /\ links' = (links \ deleted[u]) \union inserted[u]
    /\ Releases(u)
    /\ Observes(links')
    /\ UNCHANGED <<request, next, answer, faults, crossed>>

\* A statement or the commit fails and PostgreSQL aborts the transaction.
StatementFails(u) ==
    /\ Moves(u, "running", "aborted") /\ Faulty
    /\ Releases(u)
    /\ UNCHANGED <<links, request, next, answer, history>>

\* The deadlock detector: u is one of a set of transactions each of which
\* waits, and only for others of the set.
Deadlocked(u) ==
    \E cycle \in SUBSET Updates :
        u \in cycle /\ \A v \in cycle : Blockers(v) # {} /\ Blockers(v) \subseteq cycle
DeadlockAbort(u) ==
    /\ Deadlocked(u)
    /\ Moves(u, "running", "aborted")
    /\ Releases(u)
    /\ UNCHANGED <<links, request, next, answer, faults, history>>

Reply(u, how) == answer' = [answer EXCEPT ![u] = how]

RollbackForgotten(u) == \* mutant: no deferred Rollback, the connection is kept
    /\ pc[u] = "aborted" /\ answer[u] = "none" /\ Reply(u, "error")
    /\ UNCHANGED <<links, pc, request, transaction, faults, history>>

\* return err: the deferred Rollback returns the connection.
Rollback(u) ==
    /\ Moves(u, "aborted", "done") /\ Reply(u, "error")
    /\ UNCHANGED <<links, request, transaction, faults, history>>

ReplyRejected(u) ==
    /\ Moves(u, "rejected", "done") /\ Reply(u, "error")
    /\ UNCHANGED <<links, request, transaction, faults, history>>

\* The deferred Rollback of a committed transaction does nothing.
ReplyCommitted(u) ==
    /\ Moves(u, "committed", "done") /\ Reply(u, "ok")
    /\ UNCHANGED <<links, request, transaction, faults, history>>

\* The answer of COMMIT is lost: the code reports an error for it.
CommitLost(u) ==
    /\ Moves(u, "committed", "done") /\ Reply(u, "error") /\ Faulty
    /\ UNCHANGED <<links, request, transaction, history>>

Init ==
    /\ links = InitialLinks
    /\ pc = [u \in Updates |-> "idle"]
    /\ request \in [Updates -> Requests]
    /\ next = [u \in Updates |-> 1]
    /\ inserted = [u \in Updates |-> {}] /\ deleted = [u \in Updates |-> {}]
    /\ answer = [u \in Updates |-> "none"]
    /\ faults = 0
    /\ present = [u \in Updates |-> {}] /\ absent = [u \in Updates |-> {}]
    /\ crossed = FALSE

\* The steps the server and the database go on to take.
Progress(u) ==
    \/ Begin(u) \/ DeleteRow(u) \/ InsertRow(u) \/ Commit(u) \/ DeadlockAbort(u)
    \/ Rollback(u) \/ ReplyRejected(u) \/ ReplyCommitted(u)

Next ==
    \E u \in Updates :
        Submit(u) \/ Progress(u) \/ Reject(u) \/ StatementFails(u) \/ CommitLost(u)

Spec == Init /\ [][Next]_vars

\* While some goroutine or some statement can go on, one does: the database
\* runs statements that wait for nothing and finds every deadlock.  Nothing
\* forces a request to arrive.
FairSpec == Spec /\ WF_vars(\E u \in Updates : Progress(u))

-----------------------------------------------------------------------------
\* Every variable has its type; a transaction that is not running holds
\* nothing, and an update is answered when it ends and not before.
TypeOK ==
    /\ links \subseteq Pairs
    /\ pc \in [Updates -> {"idle", "acquire", "running", "committed", "aborted", "rejected", "done"}]
    /\ request \in [Updates -> Requests]
    /\ \A u \in Updates : next[u] \in 1..(DeleteCount(request[u]) + AddCount(request[u]) + 1)
    /\ DOMAIN next = Updates
    /\ inserted \in [Updates -> SUBSET Pairs]
    /\ deleted \in [Updates -> SUBSET Pairs]
    /\ answer \in [Updates -> {"none", "ok", "error"}]
    /\ \A u \in Updates : pc[u] # "running" => inserted[u] = {} /\ deleted[u] = {}
    /\ \A u \in Updates : answer[u] # "none" <=> pc[u] = "done"
    /\ faults \in 0..MaxFaults
    /\ present \in [Updates -> SUBSET Pairs]
    /\ absent \in [Updates -> SUBSET Pairs]
    /\ crossed \in BOOLEAN

\* No statement of a running transaction has gone by without effect: the pair
\* of each is held, or it was in the wanted state at some moment of the update
\* (data_service.go:352-382).  With it, every pair held is one the request
\* names, and nothing has run before the transaction began.
Runs(u) == pc[u] \in {"acquire", "running"}
PendingOrSeen ==
    \A u \in Updates : Runs(u) =>
        /\ links \subseteq present[u] /\ Pairs \ links \subseteq absent[u]
        /\ pc[u] = "acquire" => next[u] = 1
        /\ inserted[u] \subseteq Adds(request[u])
        /\ deleted[u] \subseteq Deletes(request[u])
        /\ \A k \in 1..DeleteCount(request[u]) : k < next[u] =>
              PairAt(request[u], request[u].deleteIds, k) \in deleted[u] \union absent[u]
        /\ \A k \in 1..AddCount(request[u]) : DeleteCount(request[u]) + k < next[u] =>
              PairAt(request[u], request[u].addIds, k) \in inserted[u] \union present[u]

\* The abstract specification this one implements.
status == [u \in Updates |->
    CASE pc[u] \in {"acquire", "running"} -> "running"
      [] pc[u] = "committed"              -> "applied"
      [] pc[u] \in {"aborted", "rejected"} -> "dropped"
      [] OTHER -> pc[u]]
Store == INSTANCE RelationStore WITH
    Rows <- Rows, Updates <- Updates, Requests <- Requests, Adds <- Adds, Deletes <- Deletes,
    links <- links, status <- status, request <- request, answer <- answer,
    present <- present, absent <- absent

\* An update changes the links in one step or not at all, and what it was
\* asked to change holds after that step or was found done while it ran:
\* whatever the interleaving of statements, the waits, the statements that
\* fail and the commits whose answer is lost (data_service.go:331-390).
AtomicUpdates == Store!Spec

\* Nobody is linked one way only while every relation is bidirectional, as
\* long as no addition and deletion of one pair were under way together
\* ("If bidirectional, delete reverse direction", data_service.go:360, 376).
Symmetric(pairs) == \A p \in pairs : <<p[2], p[1]>> \in pairs
Bidirectional == \A u \in Updates : request[u].bidirectional
SymmetricUnlessCrossed ==
    Bidirectional /\ Symmetric(InitialLinks) /\ ~crossed => Symmetric(links)

\* The same with additions and deletions of one pair running together.
SymmetricAlways ==
    Bidirectional /\ Symmetric(InitialLinks) => Symmetric(links)

\* Every update is answered: transactions that wait for each other are
\* resolved, and a failed one gives its connection back to those that wait
\* for one (data_service.go:346-350).
EveryUpdateAnswered == []<>(\A u \in Updates : pc[u] # "idle" => answer[u] # "none")
=============================================================================
