------------------------- MODULE RelatedRowsProofs -------------------------
(***************************************************************************)
(* Proofs about RelatedRows, for every set of rows, updates and requests   *)
(* and every number of connections.                                        *)
(***************************************************************************)
EXTENDS RelatedRows, TLAPS

\* A loop over ids runs Width(r) statements per id, and the pair of each
\* statement is a pair of rows (data_service.go:354-382).
LEMMA PairAtType ==
    ASSUME NEW r \in RequestType, NEW ids \in Seq(Rows), NEW k \in 1..(Width(r) * Len(ids))
    PROVE  PairAt(r, ids, k) \in Pairs
<1>1. r.main \in Rows /\ r.bidirectional \in BOOLEAN
  BY DEF RequestType
<1>2. Len(ids) \in Nat /\ \A i \in 1..Len(ids) : ids[i] \in Rows
  OBVIOUS
<1>3. CASE ~r.bidirectional
  BY <1>1, <1>2, <1>3 DEF PairAt, Width, Pairs
<1>4. CASE r.bidirectional
  <2>1. k \in 1..(2 * Len(ids))
    BY <1>4 DEF Width
  <2>2. k % 2 = 1 => (k + 1) \div 2 \in 1..Len(ids)
    BY <1>2, <2>1
  <2>3. k % 2 # 1 => k \div 2 \in 1..Len(ids)
    BY <1>2, <2>1
  <2> QED
    BY <1>1, <1>2, <1>4, <2>2, <2>3 DEF PairAt, Pairs
<1> QED
  BY <1>1, <1>3, <1>4

\* The numbers of statements are natural numbers.
LEMMA CountsType ==
    ASSUME NEW r \in RequestType
    PROVE  /\ DeleteCount(r) \in Nat /\ AddCount(r) \in Nat
           /\ r.deleteIds \in Seq(Rows) /\ r.addIds \in Seq(Rows)
  BY DEF RequestType, DeleteCount, AddCount, Width

\* The pairs a request adds and deletes are pairs of rows.
LEMMA AddsType ==
    ASSUME NEW r \in RequestType
    PROVE  Adds(r) \subseteq Pairs /\ Deletes(r) \subseteq Pairs
  BY CountsType, PairAtType DEF Adds, Deletes, AddCount, DeleteCount

\* The pair of the statement an update runs next is one its request names.
LEMMA NextPair ==
    ASSUME TypeOK, NEW u \in Updates
    PROVE  /\ Deleting(u) => DeletePair(u) \in Deletes(request[u]) /\ DeletePair(u) \in Pairs
           /\ Inserting(u) => AddPair(u) \in Adds(request[u]) /\ AddPair(u) \in Pairs
<1>1. request[u] \in RequestType /\ next[u] \in Nat \ {0}
  BY RequestsAssumption, CountsType DEF TypeOK
<1>2. Deleting(u) => DeletePair(u) \in Deletes(request[u])
  BY <1>1, CountsType DEF Deleting, DeletePair, Deletes
<1>3. Inserting(u) => AddPair(u) \in Adds(request[u])
  BY <1>1, CountsType, SMTT(30) DEF Inserting, AddPair, Adds
<1> QED
  BY <1>1, <1>2, <1>3, AddsType

\* Every variable of UpdateRelatedRows keeps its type, a transaction that is
\* not running holds no pair, and an update is answered exactly when it ends.
THEOREM TypeCorrect == Spec => []TypeOK
<1>1. Init => TypeOK
  <2> SUFFICES ASSUME Init PROVE TypeOK
    OBVIOUS
  <2>1. \A u \in Updates : request[u] \in RequestType
    BY RequestsAssumption DEF Init
  <2>2. \A u \in Updates : 1 \in 1..(DeleteCount(request[u]) + AddCount(request[u]) + 1)
    BY <2>1, CountsType
  <2>3. \A u \in Updates : next[u] \in 1..(DeleteCount(request[u]) + AddCount(request[u]) + 1)
    BY <2>2 DEF Init
  <2>4. \A u \in Updates : inserted[u] = {} /\ deleted[u] = {} /\ answer[u] = "none" /\ pc[u] = "idle"
    BY DEF Init
  <2>5. faults \in 0..MaxFaults
    BY BoundsAssumption DEF Init
  <2> QED
    BY <2>3, <2>4, <2>5, LinksAssumption DEF Init, TypeOK
<1>2. TypeOK /\ [Next]_vars => TypeOK'
  <2> SUFFICES ASSUME TypeOK, [Next]_vars PROVE TypeOK'
    OBVIOUS
  <2> USE BoundsAssumption
  <2>1. ASSUME NEW u \in Updates, Submit(u) PROVE TypeOK'
    BY <2>1 DEF TypeOK, Submit, Moves, transaction, Pairs
  <2>2. ASSUME NEW u \in Updates, Reject(u) PROVE TypeOK'
    BY <2>2 DEF TypeOK, Reject, Moves, Faulty, transaction, history
  <2>3. ASSUME NEW u \in Updates, Begin(u) PROVE TypeOK'
    BY <2>3 DEF TypeOK, Begin, Moves, transaction
  <2>4. ASSUME NEW u \in Updates, DeleteRow(u) PROVE TypeOK'
    <3>1. DeletePair(u) \in Pairs
      BY <2>4, NextPair DEF DeleteRow
    <3>2. next[u] + 1 \in 1..(DeleteCount(request[u]) + AddCount(request[u]) + 1)
      BY <2>4, RequestsAssumption, CountsType DEF TypeOK, DeleteRow, Deleting
    <3> QED
      BY <2>4, <3>1, <3>2 DEF TypeOK, DeleteRow, Deleting, Advances, history
  <2>5. ASSUME NEW u \in Updates, InsertRow(u) PROVE TypeOK'
    <3>1. AddPair(u) \in Pairs
      BY <2>5, NextPair DEF InsertRow
    <3>2. next[u] + 1 \in 1..(DeleteCount(request[u]) + AddCount(request[u]) + 1)
      BY <2>5, RequestsAssumption, CountsType DEF TypeOK, InsertRow, Inserting
    <3> QED
      BY <2>5, <3>1, <3>2 DEF TypeOK, InsertRow, Inserting, Advances, history
  <2>6. ASSUME NEW u \in Updates, Commit(u) PROVE TypeOK'
    BY <2>6 DEF TypeOK, Commit, Finished, Moves, Releases, Observes, Pairs
  <2>7. ASSUME NEW u \in Updates, StatementFails(u) PROVE TypeOK'
    BY <2>7 DEF TypeOK, StatementFails, Moves, Faulty, Releases, history
  <2>8. ASSUME NEW u \in Updates, DeadlockAbort(u) PROVE TypeOK'
    BY <2>8 DEF TypeOK, DeadlockAbort, Moves, Releases, history
  <2>9. ASSUME NEW u \in Updates, Rollback(u) PROVE TypeOK'
    BY <2>9 DEF TypeOK, Rollback, Moves, Reply, transaction, history
  <2>10. ASSUME NEW u \in Updates, ReplyRejected(u) PROVE TypeOK'
    BY <2>10 DEF TypeOK, ReplyRejected, Moves, Reply, transaction, history
  <2>11. ASSUME NEW u \in Updates, ReplyCommitted(u) PROVE TypeOK'
    BY <2>11 DEF TypeOK, ReplyCommitted, Moves, Reply, transaction, history
  <2>12. ASSUME NEW u \in Updates, CommitLost(u) PROVE TypeOK'
    BY <2>12 DEF TypeOK, CommitLost, Moves, Reply, Faulty, transaction, history
  <2>13. CASE UNCHANGED vars
    BY <2>13 DEF TypeOK, vars, transaction, history
  <2> QED
    BY <2>1, <2>2, <2>3, <2>4, <2>5, <2>6, <2>7, <2>8, <2>9, <2>10, <2>11, <2>12, <2>13
    DEF Next, Progress
<1> QED
  BY <1>1, <1>2, PTL DEF Spec

-----------------------------------------------------------------------------
(* Every update is atomic.                                                 *)

\* The inductive invariant: a transaction is not committed in part, because
\* what its statements did is either held or needed no doing.  next is 1
\* until the transaction begins, so nothing of it is older than that.
IInv ==
    /\ TypeOK
    /\ PendingOrSeen
    /\ \A u \in Updates : pc[u] = "idle" => next[u] = 1

\* Each statement's effect is held by its transaction or was already there.
LEMMA Inductive == IInv /\ [Next]_vars /\ TypeOK' => IInv'
<1> SUFFICES ASSUME IInv, [Next]_vars, TypeOK' PROVE IInv'
  OBVIOUS
<1>a. \A v \in Updates : /\ DeleteCount(request[v]) \in Nat /\ AddCount(request[v]) \in Nat
                         /\ next[v] \in Nat \ {0}
  BY RequestsAssumption, CountsType DEF IInv, TypeOK
<1>1. ASSUME NEW u \in Updates, Submit(u) PROVE IInv'
  BY <1>1, <1>a DEF IInv, PendingOrSeen, TypeOK, Submit, Moves, transaction, Runs
<1>2. ASSUME NEW u \in Updates, Reject(u) PROVE IInv'
  BY <1>2 DEF IInv, PendingOrSeen, TypeOK, Reject, Moves, transaction, history, Runs
<1>3. ASSUME NEW u \in Updates, Begin(u) PROVE IInv'
  BY <1>3 DEF IInv, PendingOrSeen, TypeOK, Begin, Moves, transaction, Runs
<1>4. ASSUME NEW u \in Updates, DeleteRow(u) PROVE IInv'
  <2> DEFINE p == DeletePair(u)
  <2>1. p \in Deletes(request[u]) /\ p \in Pairs
    BY <1>4, NextPair DEF IInv, DeleteRow
  <2>2. p \in deleted'[u] \union absent[u]
    BY <1>4, <2>1 DEF IInv, PendingOrSeen, TypeOK, DeleteRow, Deleting, Runs
  <2>3. \A k \in 1..DeleteCount(request[u]) : k < next'[u] =>
           PairAt(request[u], request[u].deleteIds, k) \in deleted'[u] \union absent[u]
    <3> SUFFICES ASSUME NEW k \in 1..DeleteCount(request[u]), k < next'[u]
                 PROVE  PairAt(request[u], request[u].deleteIds, k) \in deleted'[u] \union absent[u]
      OBVIOUS
    <3>1. next'[u] = next[u] + 1 /\ deleted[u] \subseteq deleted'[u] /\ Runs(u)
      BY <1>4 DEF IInv, TypeOK, DeleteRow, Deleting, Advances, Runs
    <3>2. CASE k = next[u]
      BY <2>2, <3>2 DEF DeletePair
    <3>3. CASE k < next[u]
      BY <3>1, <3>3 DEF IInv, PendingOrSeen
    <3> QED
      BY <1>a, <3>1, <3>2, <3>3
  <2>4. \A k \in 1..AddCount(request[u]) : ~(DeleteCount(request[u]) + k < next'[u])
    BY <1>4, <1>a DEF IInv, TypeOK, DeleteRow, Deleting, Advances
  <2>5. deleted'[u] \subseteq Deletes(request[u])
    BY <1>4, <2>1 DEF IInv, PendingOrSeen, TypeOK, DeleteRow, Deleting, Runs
  <2> QED
    BY <1>4, <2>3, <2>4, <2>5
    DEF IInv, PendingOrSeen, TypeOK, DeleteRow, Deleting, Advances, Runs, history
<1>5. ASSUME NEW u \in Updates, InsertRow(u) PROVE IInv'
  <2> DEFINE p == AddPair(u)
  <2>1. p \in Adds(request[u]) /\ p \in Pairs
    BY <1>5, NextPair DEF IInv, InsertRow
  <2>2. p \in inserted'[u] \union present[u]
    BY <1>5, <2>1 DEF IInv, PendingOrSeen, TypeOK, InsertRow, Inserting, Visible, Runs
  <2>3. \A k \in 1..AddCount(request[u]) : DeleteCount(request[u]) + k < next'[u] =>
           PairAt(request[u], request[u].addIds, k) \in inserted'[u] \union present[u]
    <3> SUFFICES ASSUME NEW k \in 1..AddCount(request[u]),
                        DeleteCount(request[u]) + k < next'[u]
                 PROVE  PairAt(request[u], request[u].addIds, k) \in inserted'[u] \union present[u]
      OBVIOUS
    <3>1. next'[u] = next[u] + 1 /\ inserted[u] \subseteq inserted'[u] /\ Runs(u)
      BY <1>5 DEF IInv, TypeOK, InsertRow, Inserting, Advances, Runs
    <3>2. CASE DeleteCount(request[u]) + k = next[u]
      <4>1. k = next[u] - DeleteCount(request[u])
        BY <1>a, <3>2
      <4> QED
        BY <2>2, <4>1 DEF AddPair
    <3>3. CASE DeleteCount(request[u]) + k < next[u]
      BY <3>1, <3>3 DEF IInv, PendingOrSeen
    <3> QED
      BY <1>a, <3>1, <3>2, <3>3
  <2>4. \A k \in 1..DeleteCount(request[u]) :
           PairAt(request[u], request[u].deleteIds, k) \in deleted[u] \union absent[u]
    BY <1>5, <1>a DEF IInv, PendingOrSeen, InsertRow, Inserting, Runs
  <2>5. inserted'[u] \subseteq Adds(request[u])
    BY <1>5, <2>1 DEF IInv, PendingOrSeen, TypeOK, InsertRow, Inserting, Runs
  <2> QED
    BY <1>5, <2>3, <2>4, <2>5
    DEF IInv, PendingOrSeen, TypeOK, InsertRow, Inserting, Advances, Runs, history
<1>6. ASSUME NEW u \in Updates, Commit(u) PROVE IInv'
  BY <1>6 DEF IInv, PendingOrSeen, TypeOK, Commit, Moves, Releases, Observes, Runs
<1>7. ASSUME NEW u \in Updates, StatementFails(u) PROVE IInv'
  BY <1>7 DEF IInv, PendingOrSeen, TypeOK, StatementFails, Moves, Releases, history, Runs
<1>8. ASSUME NEW u \in Updates, DeadlockAbort(u) PROVE IInv'
  BY <1>8 DEF IInv, PendingOrSeen, TypeOK, DeadlockAbort, Moves, Releases, history, Runs
<1>9. ASSUME NEW u \in Updates, Rollback(u) PROVE IInv'
  BY <1>9 DEF IInv, PendingOrSeen, TypeOK, Rollback, Moves, transaction, history, Runs
<1>10. ASSUME NEW u \in Updates, ReplyRejected(u) PROVE IInv'
  BY <1>10 DEF IInv, PendingOrSeen, TypeOK, ReplyRejected, Moves, transaction, history, Runs
<1>11. ASSUME NEW u \in Updates, ReplyCommitted(u) PROVE IInv'
  BY <1>11 DEF IInv, PendingOrSeen, TypeOK, ReplyCommitted, Moves, transaction, history, Runs
<1>12. ASSUME NEW u \in Updates, CommitLost(u) PROVE IInv'
  BY <1>12 DEF IInv, PendingOrSeen, TypeOK, CommitLost, Moves, transaction, history, Runs
<1>13. CASE UNCHANGED vars
  BY <1>13 DEF IInv, PendingOrSeen, TypeOK, vars, transaction, history, Runs
<1> QED
  BY <1>1, <1>2, <1>3, <1>4, <1>5, <1>6, <1>7, <1>8, <1>9, <1>10, <1>11, <1>12, <1>13
  DEF Next, Progress

\* No statement of a running transaction has gone by without effect.
THEOREM NothingSkipped == Spec => []PendingOrSeen
<1>1. Init => \A u \in Updates : pc[u] = "idle" /\ next[u] = 1
  BY DEF Init
<1>2. Init /\ TypeOK => IInv
  BY <1>1 DEF IInv, PendingOrSeen, Runs
<1>3. IInv => PendingOrSeen
  BY DEF IInv
<1> QED
  BY <1>2, <1>3, Inductive, TypeCorrect, PTL DEF Spec

\* An update takes its pairs out of and into the committed links in one step,
\* and everything it was asked for holds then or was found so while it ran.
LEMMA CommitApplies ==
    ASSUME IInv, NEW u \in Updates, Commit(u)
    PROVE  Store!Apply(u)
<1>1. request[u] \in RequestType /\ next[u] \in Nat \ {0}
  BY RequestsAssumption, CountsType DEF IInv, TypeOK
<1>2. Runs(u) /\ Finished(u) /\ pc[u] = "running"
  BY DEF Commit, Moves, Runs
<1>3. Adds(request[u]) \ inserted[u] \subseteq present[u]
  <2>1. \A k \in 1..AddCount(request[u]) : DeleteCount(request[u]) + k < next[u]
    BY <1>1, <1>2, CountsType DEF Finished
  <2>2. \A k \in 1..AddCount(request[u]) :
           PairAt(request[u], request[u].addIds, k) \in inserted[u] \union present[u]
    BY <1>2, <2>1 DEF IInv, PendingOrSeen
  <2> QED
    BY <2>2 DEF Adds
<1>4. Deletes(request[u]) \ deleted[u] \subseteq absent[u]
  <2>1. \A k \in 1..DeleteCount(request[u]) : k < next[u]
    BY <1>1, <1>2, CountsType DEF Finished
  <2>2. \A k \in 1..DeleteCount(request[u]) :
           PairAt(request[u], request[u].deleteIds, k) \in deleted[u] \union absent[u]
    BY <1>2, <2>1 DEF IInv, PendingOrSeen
  <2> QED
    BY <2>2 DEF Deletes
<1>5. inserted[u] \in SUBSET Adds(request[u]) /\ deleted[u] \in SUBSET Deletes(request[u])
  BY <1>2 DEF IInv, PendingOrSeen
<1>6. status[u] = "running" /\ status' = [status EXCEPT ![u] = "applied"]
  BY <1>2 DEF Commit, Moves, status, IInv, TypeOK
<1>7. \A v \in Updates : status[v] = "running" <=> v \in {w \in Updates : pc[w] \in {"acquire", "running"}}
  BY DEF status
<1>8. /\ present' = [v \in Updates |-> IF status[v] = "running" THEN present[v] \union links' ELSE present[v]]
      /\ absent' = [v \in Updates |-> IF status[v] = "running" THEN absent[v] \union (Store!Pairs \ links') ELSE absent[v]]
  BY <1>7 DEF Commit, Observes, Pairs, Store!Pairs
<1>9. links' = (links \ deleted[u]) \union inserted[u] /\ UNCHANGED <<request, answer>>
  BY DEF Commit
<1> QED
  BY <1>3, <1>4, <1>5, <1>6, <1>8, <1>9 DEF Store!Apply

\* Every step of the code is a step of the abstract store or leaves it alone.
LEMMA StepRefines == IInv /\ [Next]_vars => [Store!Next]_Store!vars
<1> SUFFICES ASSUME IInv, [Next]_vars PROVE [Store!Next]_Store!vars
  OBVIOUS
<1> USE DEF Store!vars
<1>0. pc \in [Updates -> {"idle", "acquire", "running", "committed", "aborted", "rejected", "done"}]
  BY DEF IInv, TypeOK
<1>1. ASSUME NEW u \in Updates, Submit(u) PROVE Store!Submit(u)
  BY <1>0, <1>1 DEF Submit, Moves, status, Store!Submit, Pairs, Store!Pairs
<1>2. ASSUME NEW u \in Updates, Reject(u) PROVE Store!Drop(u)
  BY <1>0, <1>2 DEF Reject, Moves, status, Store!Drop, history
<1>3. ASSUME NEW u \in Updates, Begin(u) PROVE UNCHANGED Store!vars
  BY <1>0, <1>3 DEF Begin, Moves, status
<1>4. ASSUME NEW u \in Updates, DeleteRow(u) PROVE UNCHANGED Store!vars
  BY <1>4 DEF DeleteRow, status, history
<1>5. ASSUME NEW u \in Updates, InsertRow(u) PROVE UNCHANGED Store!vars
  BY <1>5 DEF InsertRow, status, history
<1>6. ASSUME NEW u \in Updates, Commit(u) PROVE Store!Apply(u)
  BY <1>6, CommitApplies
<1>7. ASSUME NEW u \in Updates, StatementFails(u) PROVE Store!Drop(u)
  BY <1>0, <1>7 DEF StatementFails, Moves, status, Store!Drop, history
<1>8. ASSUME NEW u \in Updates, DeadlockAbort(u) PROVE Store!Drop(u)
  BY <1>0, <1>8 DEF DeadlockAbort, Moves, status, Store!Drop, history
<1>9. ASSUME NEW u \in Updates, Rollback(u) PROVE Store!Answer(u, "error")
  BY <1>0, <1>9 DEF Rollback, Moves, Reply, status, Store!Answer, history
<1>10. ASSUME NEW u \in Updates, ReplyRejected(u) PROVE Store!Answer(u, "error")
  BY <1>0, <1>10 DEF ReplyRejected, Moves, Reply, status, Store!Answer, history
<1>11. ASSUME NEW u \in Updates, ReplyCommitted(u) PROVE Store!Answer(u, "ok")
  BY <1>0, <1>11 DEF ReplyCommitted, Moves, Reply, status, Store!Answer, history
<1>12. ASSUME NEW u \in Updates, CommitLost(u) PROVE Store!Answer(u, "error")
  BY <1>0, <1>12 DEF CommitLost, Moves, Reply, status, Store!Answer, history
<1>13. CASE UNCHANGED vars
  BY <1>13 DEF vars, history, status
<1> QED
  BY <1>1, <1>2, <1>3, <1>4, <1>5, <1>6, <1>7, <1>8, <1>9, <1>10, <1>11, <1>12, <1>13
  DEF Next, Progress, Store!Next

\* UpdateRelatedRows implements the abstract store: atomic updates for every
\* number of rows, updates, ids and connections, with failures and deadlocks.
THEOREM Refinement == Spec => AtomicUpdates
<1>1. Init => Store!Init
  BY LinksAssumption DEF Init, Store!Init, status, Pairs, Store!Pairs
<1>2. Init => \A u \in Updates : pc[u] = "idle" /\ next[u] = 1
  BY DEF Init
<1>3. Init /\ TypeOK => IInv
  BY <1>2 DEF IInv, PendingOrSeen, Runs
<1> QED
  BY <1>1, <1>3, Inductive, StepRefines, TypeCorrect, PTL DEF Spec, AtomicUpdates, Store!Spec
-----------------------------------------------------------------------------
(* Bidirectional links stay bidirectional.                                 *)

\* The statement for a direction has a neighbour for the reverse direction.
LEMMA BothDirections ==
    ASSUME NEW r \in RequestType, r.bidirectional,
           NEW ids \in Seq(Rows), NEW k \in 1..(2 * Len(ids))
    PROVE  \E j \in 1..(2 * Len(ids)) :
              PairAt(r, ids, j) = <<PairAt(r, ids, k)[2], PairAt(r, ids, k)[1]>>
<1>1. CASE k % 2 = 1
  <2>1. k + 1 \in 1..(2 * Len(ids)) /\ (k + 1) % 2 # 1
    BY <1>1
  <2>2. PairAt(r, ids, k + 1) = <<ids[(k + 1) \div 2], r.main>>
    BY <2>1 DEF PairAt
  <2>3. PairAt(r, ids, k) = <<r.main, ids[(k + 1) \div 2]>>
    BY <1>1 DEF PairAt
  <2> QED
    BY <2>1, <2>2, <2>3
<1>2. CASE k % 2 # 1
  <2>1. k - 1 \in 1..(2 * Len(ids)) /\ (k - 1) % 2 = 1
    BY <1>2
  <2>2. PairAt(r, ids, k - 1) = <<r.main, ids[((k - 1) + 1) \div 2]>>
    BY <2>1 DEF PairAt
  <2>3. PairAt(r, ids, k) = <<ids[k \div 2], r.main>>
    BY <1>2 DEF PairAt
  <2>4. (k - 1) + 1 = k
    OBVIOUS
  <2>5. PairAt(r, ids, k - 1) = <<r.main, ids[k \div 2]>>
    BY <2>2, <2>4
  <2> QED
    BY <2>1, <2>3, <2>5
<1> QED
  BY <1>1, <1>2

\* A bidirectional request adds and deletes both directions of a pair.
LEMMA RequestSymmetric ==
    ASSUME NEW r \in RequestType, r.bidirectional
    PROVE  Symmetric(Adds(r)) /\ Symmetric(Deletes(r))
<1>1. r.addIds \in Seq(Rows) /\ r.deleteIds \in Seq(Rows)
  BY DEF RequestType
<1>2. AddCount(r) = 2 * Len(r.addIds) /\ DeleteCount(r) = 2 * Len(r.deleteIds)
  BY DEF AddCount, DeleteCount, Width
<1>3. Symmetric(Adds(r))
  <2> SUFFICES ASSUME NEW p \in Adds(r) PROVE <<p[2], p[1]>> \in Adds(r)
    BY DEF Symmetric
  <2>1. PICK k \in 1..(2 * Len(r.addIds)) : p = PairAt(r, r.addIds, k)
    BY <1>2 DEF Adds
  <2>2. PICK j \in 1..(2 * Len(r.addIds)) :
           PairAt(r, r.addIds, j) = <<PairAt(r, r.addIds, k)[2], PairAt(r, r.addIds, k)[1]>>
    BY <1>1, BothDirections
  <2>3. PairAt(r, r.addIds, j) \in Adds(r)
    BY <1>2 DEF Adds
  <2> QED
    BY <2>1, <2>2, <2>3
<1>4. Symmetric(Deletes(r))
  <2> SUFFICES ASSUME NEW p \in Deletes(r) PROVE <<p[2], p[1]>> \in Deletes(r)
    BY DEF Symmetric
  <2>1. PICK k \in 1..(2 * Len(r.deleteIds)) : p = PairAt(r, r.deleteIds, k)
    BY <1>2 DEF Deletes
  <2>2. PICK j \in 1..(2 * Len(r.deleteIds)) :
           PairAt(r, r.deleteIds, j) = <<PairAt(r, r.deleteIds, k)[2], PairAt(r, r.deleteIds, k)[1]>>
    BY <1>1, BothDirections
  <2>3. PairAt(r, r.deleteIds, j) \in Deletes(r)
    BY <1>2 DEF Deletes
  <2> QED
    BY <2>1, <2>2, <2>3
<1> QED
  BY <1>3, <1>4

\* What the statements that have run achieved is still so: the pair of each
\* deletion is gone and that of each addition is there, in what the
\* transaction sees.  It holds as long as no addition and deletion of one pair
\* ran together, since then no other commit can undo it.
Achieved ==
    ~crossed =>
        /\ \A u, v \in Updates : u # v /\ pc[u] = "running" /\ pc[v] = "running" =>
              Adds(request[u]) \intersect Deletes(request[v]) = {}
        /\ \A u \in Updates : pc[u] = "running" =>
              \A k \in 1..DeleteCount(request[u]) : k < next[u] =>
                 PairAt(request[u], request[u].deleteIds, k) \notin links \ deleted[u]
        /\ \A u \in Updates : pc[u] = "running" =>
              \A k \in 1..AddCount(request[u]) : DeleteCount(request[u]) + k < next[u] =>
                 PairAt(request[u], request[u].addIds, k) \in Visible(u)

\* The commit of an update then applies its whole request to the links.
LEMMA CommitIsWhole ==
    ASSUME IInv, Achieved, ~crossed, NEW u \in Updates, Commit(u)
    PROVE  links' = (links \ Deletes(request[u])) \union Adds(request[u])
<1>1. request[u] \in RequestType /\ next[u] \in Nat \ {0}
  BY RequestsAssumption, CountsType DEF IInv, TypeOK
<1>2. pc[u] = "running" /\ Finished(u) /\ Runs(u)
  BY DEF Commit, Moves, Runs
<1>3. inserted[u] \subseteq Adds(request[u]) /\ deleted[u] \subseteq Deletes(request[u])
  BY <1>2 DEF IInv, PendingOrSeen
<1>4. \A p \in Deletes(request[u]) : p \notin links \ deleted[u]
  <2>1. \A k \in 1..DeleteCount(request[u]) : k < next[u]
    BY <1>1, <1>2, CountsType DEF Finished
  <2> QED
    BY <1>2, <2>1 DEF Achieved, Deletes
<1>5. Adds(request[u]) \subseteq Visible(u)
  <2>1. \A k \in 1..AddCount(request[u]) : DeleteCount(request[u]) + k < next[u]
    BY <1>1, <1>2, CountsType DEF Finished
  <2> QED
    BY <1>2, <2>1 DEF Achieved, Adds
<1>6. links' = (links \ deleted[u]) \union inserted[u]
  BY DEF Commit
<1> QED
  BY <1>3, <1>4, <1>5, <1>6 DEF Visible

\* A step leaves what the statements achieved as it is: another transaction
\* that commits meanwhile adds nothing this one deletes, and the reverse.
LEMMA AchievedKept == IInv /\ Achieved /\ [Next]_vars => Achieved'
<1> SUFFICES ASSUME IInv, Achieved, [Next]_vars, ~crossed' PROVE Achieved'
  BY DEF Achieved
<1>a. \A v \in Updates : /\ DeleteCount(request[v]) \in Nat /\ AddCount(request[v]) \in Nat
                         /\ next[v] \in Nat \ {0}
  BY RequestsAssumption, CountsType DEF IInv, TypeOK
<1>b. /\ pc \in [Updates -> {"idle", "acquire", "running", "committed", "aborted", "rejected", "done"}]
      /\ DOMAIN next = Updates
      /\ inserted \in [Updates -> SUBSET Pairs] /\ deleted \in [Updates -> SUBSET Pairs]
  BY DEF IInv, TypeOK
<1>c. \A v \in Updates : pc[v] = "acquire" => next[v] = 1
  BY DEF IInv, PendingOrSeen, Runs
<1>1. ASSUME NEW u \in Updates, Submit(u) PROVE Achieved'
  BY <1>1, <1>b DEF Achieved, Submit, Moves, transaction, Visible
<1>2. ASSUME NEW u \in Updates, Reject(u) PROVE Achieved'
  BY <1>2, <1>b DEF Achieved, Reject, Moves, transaction, history, Visible
<1>3. ASSUME NEW u \in Updates, Begin(u) PROVE Achieved'
  <2>1. ~crossed /\ \A v \in Updates : pc[v] = "running" => ~Crosses(request[u], request[v])
    BY <1>3 DEF Begin
  <2>2. \A v, w \in Updates : v # w /\ pc'[v] = "running" /\ pc'[w] = "running" =>
           Adds(request[v]) \intersect Deletes(request[w]) = {}
    BY <1>3, <1>b, <2>1 DEF Begin, Moves, Crosses, Achieved
  <2>3. UNCHANGED <<links, request, next, inserted, deleted>>
    BY <1>3 DEF Begin, transaction
  <2>4. \A v \in Updates : pc'[v] = "running" => pc[v] = "running" \/ next[v] = 1
    BY <1>3, <1>b, <1>c DEF Begin, Moves
  <2>5. \A v \in Updates : pc'[v] = "running" =>
           \A k \in 1..DeleteCount(request[v]) : k < next[v] =>
              PairAt(request[v], request[v].deleteIds, k) \notin links \ deleted[v]
    BY <1>a, <2>1, <2>4 DEF Achieved
  <2>6. \A v \in Updates : pc'[v] = "running" =>
           \A k \in 1..AddCount(request[v]) : DeleteCount(request[v]) + k < next[v] =>
              PairAt(request[v], request[v].addIds, k) \in Visible(v)
    BY <1>a, <2>1, <2>4 DEF Achieved
  <2> QED
    BY <2>2, <2>3, <2>5, <2>6 DEF Achieved, Visible
<1>4. ASSUME NEW u \in Updates, DeleteRow(u) PROVE Achieved'
  <2>1. /\ UNCHANGED <<links, pc, request, inserted, crossed>> /\ ~crossed
        /\ next[u] <= DeleteCount(request[u]) /\ next'[u] = next[u] + 1
        /\ deleted'[u] = deleted[u] \union ({DeletePair(u)} \intersect links)
        /\ \A v \in Updates \ {u} : next'[v] = next[v] /\ deleted'[v] = deleted[v]
    BY <1>4, <1>b DEF DeleteRow, Deleting, Advances, history
  <2>2. \A v \in Updates : pc[v] = "running" =>
           \A k \in 1..DeleteCount(request[v]) : k < next'[v] =>
              PairAt(request[v], request[v].deleteIds, k) \notin links \ deleted'[v]
    <3> SUFFICES ASSUME NEW v \in Updates, pc[v] = "running",
                        NEW k \in 1..DeleteCount(request[v]), k < next'[v]
                 PROVE  PairAt(request[v], request[v].deleteIds, k) \notin links \ deleted'[v]
      OBVIOUS
    <3>1. CASE k < next[v]
      BY <2>1, <3>1 DEF Achieved
    <3>2. CASE v = u /\ k = next[u]
      BY <2>1, <3>2 DEF DeletePair
    <3> QED
      BY <1>a, <2>1, <3>1, <3>2
  <2>3. \A v \in Updates : pc[v] = "running" =>
           \A k \in 1..AddCount(request[v]) : DeleteCount(request[v]) + k < next'[v] =>
              PairAt(request[v], request[v].addIds, k) \in (links \ deleted'[v]) \union inserted[v]
    <3> SUFFICES ASSUME NEW v \in Updates, pc[v] = "running",
                        NEW k \in 1..AddCount(request[v]), DeleteCount(request[v]) + k < next'[v]
                 PROVE  PairAt(request[v], request[v].addIds, k) \in (links \ deleted'[v]) \union inserted[v]
      OBVIOUS
    <3>1. v # u
      BY <1>a, <2>1
    <3> QED
      BY <2>1, <3>1 DEF Achieved, Visible
  <2> QED
    BY <2>1, <2>2, <2>3 DEF Achieved, Visible
<1>5. ASSUME NEW u \in Updates, InsertRow(u) PROVE Achieved'
  <2>1. /\ UNCHANGED <<links, pc, request, deleted, crossed>> /\ ~crossed
        /\ next[u] > DeleteCount(request[u]) /\ next'[u] = next[u] + 1
        /\ inserted'[u] = inserted[u] \union ({AddPair(u)} \ Visible(u))
        /\ \A v \in Updates \ {u} : next'[v] = next[v] /\ inserted'[v] = inserted[v]
    BY <1>5, <1>b DEF InsertRow, Inserting, Advances, history
  <2>2. \A v \in Updates : pc[v] = "running" =>
           \A k \in 1..DeleteCount(request[v]) : k < next'[v] =>
              PairAt(request[v], request[v].deleteIds, k) \notin links \ deleted[v]
    <3> SUFFICES ASSUME NEW v \in Updates, pc[v] = "running",
                        NEW k \in 1..DeleteCount(request[v]), k < next'[v]
                 PROVE  PairAt(request[v], request[v].deleteIds, k) \notin links \ deleted[v]
      OBVIOUS
    <3>1. k < next[v]
      BY <1>a, <2>1
    <3> QED
      BY <2>1, <3>1 DEF Achieved
  <2>3. \A v \in Updates : pc[v] = "running" =>
           \A k \in 1..AddCount(request[v]) : DeleteCount(request[v]) + k < next'[v] =>
              PairAt(request[v], request[v].addIds, k) \in (links \ deleted[v]) \union inserted'[v]
    <3> SUFFICES ASSUME NEW v \in Updates, pc[v] = "running",
                        NEW k \in 1..AddCount(request[v]), DeleteCount(request[v]) + k < next'[v]
                 PROVE  PairAt(request[v], request[v].addIds, k) \in (links \ deleted[v]) \union inserted'[v]
      OBVIOUS
    <3>1. CASE DeleteCount(request[v]) + k < next[v]
      BY <2>1, <3>1 DEF Achieved, Visible
    <3>2. CASE v = u /\ k = next[u] - DeleteCount(request[u])
      BY <2>1, <3>2 DEF AddPair, Visible
    <3> QED
      BY <1>a, <2>1, <3>1, <3>2
  <2> QED
    BY <2>1, <2>2, <2>3 DEF Achieved, Visible
<1>6. ASSUME NEW u \in Updates, Commit(u) PROVE Achieved'
  <2>1. /\ UNCHANGED <<request, next, crossed>> /\ ~crossed
        /\ links' = (links \ deleted[u]) \union inserted[u]
        /\ \A v \in Updates : pc'[v] = "running" =>
              v # u /\ pc[v] = "running" /\ inserted'[v] = inserted[v] /\ deleted'[v] = deleted[v]
    BY <1>6, <1>b DEF Commit, Moves, Releases
  <2>2. inserted[u] \subseteq Adds(request[u]) /\ deleted[u] \subseteq Deletes(request[u])
        /\ pc[u] = "running"
    BY <1>6 DEF IInv, PendingOrSeen, Commit, Moves, Runs
  <2>3. ASSUME NEW v \in Updates, pc'[v] = "running", NEW k \in 1..DeleteCount(request[v]), k < next[v]
        PROVE  PairAt(request[v], request[v].deleteIds, k) \notin links' \ deleted'[v]
    <3>1. PairAt(request[v], request[v].deleteIds, k) \in Deletes(request[v])
      BY DEF Deletes
    <3>2. Adds(request[u]) \intersect Deletes(request[v]) = {}
      BY <2>1, <2>2, <2>3 DEF Achieved
    <3>3. PairAt(request[v], request[v].deleteIds, k) \notin links \ deleted[v]
      BY <2>1, <2>3 DEF Achieved
    <3> QED
      BY <2>1, <2>2, <2>3, <3>1, <3>2, <3>3
  <2>4. ASSUME NEW v \in Updates, pc'[v] = "running",
               NEW k \in 1..AddCount(request[v]), DeleteCount(request[v]) + k < next[v]
        PROVE  PairAt(request[v], request[v].addIds, k) \in (links' \ deleted'[v]) \union inserted'[v]
    <3>1. PairAt(request[v], request[v].addIds, k) \in Adds(request[v])
      BY DEF Adds
    <3>2. Adds(request[v]) \intersect Deletes(request[u]) = {}
      BY <2>1, <2>2, <2>4 DEF Achieved
    <3>3. PairAt(request[v], request[v].addIds, k) \in (links \ deleted[v]) \union inserted[v]
      BY <2>1, <2>4 DEF Achieved, Visible
    <3> QED
      BY <2>1, <2>2, <2>4, <3>1, <3>2, <3>3
  <2>5. \A v, w \in Updates : v # w /\ pc'[v] = "running" /\ pc'[w] = "running" =>
           Adds(request[v]) \intersect Deletes(request[w]) = {}
    BY <2>1 DEF Achieved
  <2> QED
    BY <2>1, <2>3, <2>4, <2>5 DEF Achieved, Visible
<1>7. ASSUME NEW u \in Updates, StatementFails(u) \/ DeadlockAbort(u) PROVE Achieved'
  <2>1. /\ UNCHANGED <<links, request, next, crossed>> /\ ~crossed
        /\ \A v \in Updates : pc'[v] = "running" =>
              pc[v] = "running" /\ inserted'[v] = inserted[v] /\ deleted'[v] = deleted[v]
    BY <1>7, <1>b DEF StatementFails, DeadlockAbort, Moves, Releases, history
  <2> QED
    BY <2>1 DEF Achieved, Visible
<1>8. ASSUME NEW u \in Updates, Rollback(u) \/ ReplyRejected(u) \/ ReplyCommitted(u) \/ CommitLost(u)
      PROVE  Achieved'
  <2>1. /\ UNCHANGED <<links, request, next, inserted, deleted, crossed>> /\ ~crossed
        /\ \A v \in Updates : pc'[v] = "running" => pc[v] = "running"
    BY <1>8, <1>b DEF Rollback, ReplyRejected, ReplyCommitted, CommitLost, Moves, transaction, history
  <2> QED
    BY <2>1 DEF Achieved, Visible
<1>9. CASE UNCHANGED vars
  BY <1>9 DEF Achieved, Visible, vars, transaction, history
<1> QED
  BY <1>1, <1>2, <1>3, <1>4, <1>5, <1>6, <1>7, <1>8, <1>9 DEF Next, Progress

\* The links are symmetric until an addition and a deletion of a pair meet.
LEMMA SymmetryKept ==
    ASSUME IInv, Achieved, SymmetricUnlessCrossed, [Next]_vars
    PROVE  SymmetricUnlessCrossed'
<1> SUFFICES ASSUME Bidirectional', Symmetric(InitialLinks), ~crossed' PROVE Symmetric(links')
  BY DEF SymmetricUnlessCrossed, Symmetric
<1>1. ~crossed /\ UNCHANGED request
  <2>1. ASSUME NEW u \in Updates, Begin(u) PROVE ~crossed /\ UNCHANGED request
    BY <2>1 DEF Begin
  <2>2. ASSUME NEW u \in Updates,
               Submit(u) \/ Reject(u) \/ DeleteRow(u) \/ InsertRow(u) \/ Commit(u)
        PROVE  ~crossed /\ UNCHANGED request
    BY <2>2 DEF Submit, Reject, DeleteRow, InsertRow, Commit, history
  <2>3. ASSUME NEW u \in Updates, StatementFails(u) \/ DeadlockAbort(u)
        PROVE  ~crossed /\ UNCHANGED request
    BY <2>3 DEF StatementFails, DeadlockAbort, history
  <2>4. ASSUME NEW u \in Updates,
               Rollback(u) \/ ReplyRejected(u) \/ ReplyCommitted(u) \/ CommitLost(u)
        PROVE  ~crossed /\ UNCHANGED request
    BY <2>4 DEF Rollback, ReplyRejected, ReplyCommitted, CommitLost, history
  <2>5. CASE UNCHANGED vars
    BY <2>5 DEF vars, history
  <2> QED
    BY <2>1, <2>2, <2>3, <2>4, <2>5 DEF Next, Progress
<1>2. Bidirectional /\ Symmetric(links)
  BY <1>1 DEF SymmetricUnlessCrossed, Bidirectional
<1>3. CASE UNCHANGED links
  BY <1>2, <1>3
<1>4. ASSUME NEW u \in Updates, Commit(u) PROVE Symmetric(links')
  <2>1. links' = (links \ Deletes(request[u])) \union Adds(request[u])
    BY <1>1, <1>4, CommitIsWhole
  <2>2. Symmetric(Adds(request[u])) /\ Symmetric(Deletes(request[u]))
    BY <1>2, RequestsAssumption, RequestSymmetric DEF IInv, TypeOK, Bidirectional
  <2>3. Adds(request[u]) \subseteq Pairs /\ Deletes(request[u]) \subseteq Pairs /\ links \subseteq Pairs
    BY RequestsAssumption, AddsType DEF IInv, TypeOK
  <2> SUFFICES ASSUME NEW p \in links' PROVE <<p[2], p[1]>> \in links'
    BY DEF Symmetric
  <2>4. PICK q : q = <<p[2], p[1]>>
    OBVIOUS
  <2>5. p = <<q[2], q[1]>>
    BY <2>1, <2>3, <2>4 DEF Pairs
  <2>6. p \in Adds(request[u]) => q \in Adds(request[u])
    BY <2>2, <2>4 DEF Symmetric
  <2>7. q \in Deletes(request[u]) => p \in Deletes(request[u])
    BY <2>2, <2>5 DEF Symmetric
  <2>8. p \in links => q \in links
    BY <1>2, <2>4 DEF Symmetric
  <2> QED
    BY <2>1, <2>4, <2>6, <2>7, <2>8
<1>5. UNCHANGED links \/ \E u \in Updates : Commit(u)
  BY DEF Next, Progress, Submit, Reject, Begin, DeleteRow, InsertRow, StatementFails,
         DeadlockAbort, Rollback, ReplyRejected, ReplyCommitted, CommitLost, vars
<1> QED
  BY <1>3, <1>4, <1>5

\* Nobody is linked one way only while every relation is bidirectional and no
\* addition and deletion of one pair were under way together
\* (data_service.go:354-382).
THEOREM SymmetryHolds == Spec => []SymmetricUnlessCrossed
<1>1. Init => \A u \in Updates : pc[u] = "idle" /\ next[u] = 1
  BY DEF Init
<1>2. Init /\ TypeOK => IInv
  BY <1>1 DEF IInv, PendingOrSeen, Runs
<1>3. Init => Achieved
  BY <1>1 DEF Achieved
<1>4. Init => SymmetricUnlessCrossed
  BY DEF Init, SymmetricUnlessCrossed
<1> QED
  BY <1>2, <1>3, <1>4, Inductive, AchievedKept, SymmetryKept, TypeCorrect, PTL DEF Spec
=============================================================================
