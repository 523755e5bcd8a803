------------------------------ MODULE DbSession -----------------------------
(***************************************************************************)
(* BaseRepo.connection, transaction, execute, fetch and fetchrow: how the  *)
(* concurrent tasks of one process share the pool of its AsyncEngine, and  *)
(* how repository calls inside `async with repo.transaction()` end up on   *)
(* one connection, found in the ContextVar _conn_ctx of their task.        *)
(*                                                                         *)
(* A block is one use of connection() or transaction(); every repository   *)
(* call is a block with one statement.  The outermost block of a task takes*)
(* a connection from the pool and begins a transaction; the inner ones join*)
(* it.  As a transaction is always open by then, the branch of transaction *)
(* that begins one is never taken, and connection and transaction are the  *)
(* same action.  An exception raised in a block leaves every block around  *)
(* it: the only code that catches one inside a transaction, the publisher's*)
(* _publish_one, meets the next one at once (see OutboxPublisher).         *)
(***************************************************************************)
EXTENDS Naturals

CONSTANTS
  Tasks,          \* requests, messages or loops being handled concurrently
  Connections,    \* what the pool may open: pool_size + max_overflow
  NoConnection,
  MaxBlocks,      \* bound: nesting of blocks, and statements of an outermost one
  MaxFaults       \* bound: calls that fail

ASSUME SessionConstants ==
  /\ NoConnection \notin Connections
  /\ MaxBlocks \in Nat \ {0}
  /\ MaxFaults \in Nat

VARIABLES
  pool,       \* connections checked in, or not opened yet
  pc,         \* what each task does
  conn,       \* _conn_ctx of each task
  depth,      \* blocks each task is in
  issued,     \* statements executed in the latest outermost block
  durable,    \* those of them that are committed
  faults

vars == <<pool, pc, conn, depth, issued, durable, faults>>

TypeOK ==
  /\ pool \subseteq Connections
  /\ pc \in [Tasks -> {"outside", "waiting", "inside", "raising"}]
  /\ conn \in [Tasks -> Connections \cup {NoConnection}]
  /\ depth \in [Tasks -> Nat]
  /\ issued \in [Tasks -> Nat]
  /\ durable \in [Tasks -> Nat]
  /\ faults \in 0..MaxFaults

Init ==
  /\ pool = Connections
  /\ pc = [t \in Tasks |-> "outside"]
  /\ conn = [t \in Tasks |-> NoConnection]
  /\ depth = [t \in Tasks |-> 0]
  /\ issued = [t \in Tasks |-> 0]
  /\ durable = [t \in Tasks |-> 0]
  /\ faults = 0

-----------------------------------------------------------------------------
Goto(t, next) == pc' = [pc EXCEPT ![t] = next]

(* An outermost block: engine.begin() asks the pool.                       *)
Begin(t) ==
  /\ pc[t] = "outside"
  /\ Goto(t, "waiting")
  /\ issued' = [issued EXCEPT ![t] = 0]
  /\ durable' = [durable EXCEPT ![t] = 0]
  /\ UNCHANGED <<pool, conn, depth, faults>>

(* The pool hands out a connection, and _conn_ctx is set.                  *)
Connect(t) ==
  /\ pc[t] = "waiting"
  /\ \E c \in pool :
       /\ pool' = pool \ {c}
       /\ conn' = [conn EXCEPT ![t] = c]
  /\ Goto(t, "inside")
  /\ depth' = [depth EXCEPT ![t] = @ + 1]
  /\ UNCHANGED <<issued, durable, faults>>

JoinAlone(t) ==          \* mutant: a repository with an engine of its own
  /\ pc[t] = "inside"
  /\ depth[t] < MaxBlocks
  /\ Goto(t, "waiting")
  /\ UNCHANGED <<pool, conn, depth, issued, durable, faults>>

JoinShared(t) ==         \* mutant: one variable instead of a ContextVar
  /\ pc[t] = "inside"
  /\ depth[t] < MaxBlocks
  /\ depth' = [depth EXCEPT ![t] = @ + 1]
  /\ \E u \in Tasks : conn[u] # NoConnection /\ conn' = [conn EXCEPT ![t] = conn[u]]
  /\ UNCHANGED <<pool, pc, issued, durable, faults>>

(* A block inside another: the existing connection is yielded.             *)
Join(t) ==
  /\ pc[t] = "inside"
  /\ depth[t] < MaxBlocks
  /\ depth' = [depth EXCEPT ![t] = @ + 1]
  /\ UNCHANGED <<pool, pc, conn, issued, durable, faults>>

Execute(t) ==
  /\ pc[t] = "inside"
  /\ issued[t] < MaxBlocks
  /\ issued' = [issued EXCEPT ![t] = @ + 1]
  /\ UNCHANGED <<pool, pc, conn, depth, durable, faults>>

(* The body raises: a domain error, or its task is cancelled.              *)
Raise(t) ==
  /\ pc[t] = "inside"
  /\ Goto(t, "raising")
  /\ UNCHANGED <<pool, conn, depth, issued, durable, faults>>

LeaveCommitting(t) ==    \* mutant: every block commits what it did
  /\ pc[t] \in {"inside", "raising"}
  /\ depth[t] > 1
  /\ depth' = [depth EXCEPT ![t] = @ - 1]
  /\ durable' = [durable EXCEPT ![t] = IF pc[t] = "inside" THEN issued[t] ELSE @]
  /\ UNCHANGED <<pool, pc, conn, issued, faults>>

(* A joined block is left, normally or by an exception.                    *)
Leave(t) ==
  /\ pc[t] \in {"inside", "raising"}
  /\ depth[t] > 1
  /\ depth' = [depth EXCEPT ![t] = @ - 1]
  /\ UNCHANGED <<pool, pc, conn, issued, durable, faults>>

ReleasedNever(t) ==      \* mutant: engine.connect() that nobody closes
  /\ pool' = pool
  /\ conn' = [conn EXCEPT ![t] = NoConnection]
  /\ depth' = [depth EXCEPT ![t] = 0]
  /\ Goto(t, "outside")

ReleasedUnset(t) ==      \* mutant: _conn_ctx is reset first and then looked up
  /\ pool' = pool \cup {NoConnection}
  /\ conn' = [conn EXCEPT ![t] = NoConnection]
  /\ depth' = [depth EXCEPT ![t] = 0]
  /\ Goto(t, "outside")

(* _conn_ctx is reset and the connection goes back.                        *)
Released(t) ==
  /\ pool' = pool \cup {conn[t]}
  /\ conn' = [conn EXCEPT ![t] = NoConnection]
  /\ depth' = [depth EXCEPT ![t] = 0]
  /\ Goto(t, "outside")

Commit(t) ==
  /\ pc[t] = "inside"
  /\ depth[t] = 1
  /\ Released(t)
  /\ durable' = [durable EXCEPT ![t] = issued[t]]
  /\ UNCHANGED <<issued, faults>>

Rollback(t) ==
  /\ pc[t] = "raising"
  /\ depth[t] = 1
  /\ Released(t)
  /\ UNCHANGED <<issued, durable, faults>>

(* No connection for 30 s, or it cannot be opened.                         *)
ConnectFails(t) ==
  /\ pc[t] = "waiting"
  /\ Goto(t, "outside")
  /\ UNCHANGED <<pool, conn, depth, issued, durable, faults>>

-----------------------------------------------------------------------------
Fault == faults < MaxFaults /\ faults' = faults + 1

StatementFails(t) ==
  /\ pc[t] = "inside"
  /\ Fault
  /\ Goto(t, "raising")
  /\ UNCHANGED <<pool, conn, depth, issued, durable>>

(* COMMIT raises; it may have been applied.                                *)
CommitFails(t) ==
  /\ pc[t] = "inside"
  /\ depth[t] = 1
  /\ Fault
  /\ Released(t)
  /\ durable' \in {durable, [durable EXCEPT ![t] = issued[t]]}
  /\ UNCHANGED issued

Next ==
  \E t \in Tasks :
    \/ Begin(t) \/ Connect(t) \/ ConnectFails(t) \/ Join(t) \/ Execute(t) \/ Raise(t)
    \/ Leave(t) \/ Commit(t) \/ Rollback(t) \/ StatementFails(t) \/ CommitFails(t)

Spec == Init /\ [][Next]_vars

(* Tasks run, and the code in a block is finite: it does not join and leave*)
(* inner blocks for ever.                                                  *)
FairSpec ==
  /\ Spec
  /\ \A t \in Tasks : WF_vars(Leave(t)) /\ SF_vars(Commit(t) \/ Rollback(t))

-----------------------------------------------------------------------------
(* Tasks never share a connection: no statement lands in the transaction of*)
(* another request.                                                        *)
ConnectionsExclusive ==
  \A t, u \in Tasks : t # u /\ conn[t] # NoConnection => conn[t] # conn[u]

(* README.md on transactions: the statements of all repositories used in a *)
(* block are atomic.  Nothing is visible before the outermost block has    *)
(* ended, and then all of it or nothing.                                   *)
AllOrNothing ==
  \A t \in Tasks :
    durable[t] # 0 => pc[t] = "outside" /\ depth[t] = 0 /\ durable[t] = issued[t]

(* Every connection is in the pool or with the one task that will return   *)
(* it, whatever was raised where: the pool does not dwindle.               *)
NoConnectionLost ==
  \A c \in Connections : c \in pool <=> \A t \in Tasks : conn[t] # c

(* However many tasks there are, the pool never stays empty: nobody who    *)
(* waits for a connection keeps one from the others.  No timeout is needed. *)
PoolNeverStuck == []<>(pool # {})

-----------------------------------------------------------------------------
(* Why they hold (see DbSession_proofs).                                   *)
Blocks ==
  \A t \in Tasks :
    /\ pc[t] \in {"inside", "raising"} <=> conn[t] # NoConnection
    /\ pc[t] \in {"inside", "raising"} <=> depth[t] # 0
    /\ conn[t] \notin pool

Inv == TypeOK /\ Blocks /\ ConnectionsExclusive /\ AllOrNothing /\ NoConnectionLost
=============================================================================
