----------------------------- MODULE RedisLocks -----------------------------
(***************************************************************************)
(* RedisLocks.acquire (app/infra/redis/lock.py) and the redis-py lock it   *)
(* wraps: SET key token NX PX timeout to acquire, a compare-and-delete on  *)
(* the token to release.  Every acquire() creates a lock object with a     *)
(* token of its own; a token is represented by the task that holds it, and *)
(* a token whose task is gone by Orphan.                                   *)
(*                                                                         *)
(* Time is abstract.  The TTL of a lock always runs out eventually; that   *)
(* it runs out while its task is still inside the critical section is      *)
(* possible only when HoldersMayStall.                                     *)
(***************************************************************************)
CONSTANTS
  LockKeys,          \* the names that are locked
  Holders,           \* the tasks that lock them
  Free,              \* the key does not exist in Redis
  Orphan,            \* the key holds a token no live task knows
  HoldersMayStall    \* a critical section may outlast the TTL

VARIABLE lock

ASSUME LockValues ==
  /\ Free \notin Holders
  /\ Orphan \notin Holders
  /\ Free # Orphan
  /\ HoldersMayStall \in BOOLEAN

LockTypeOK == lock \in [LockKeys -> Holders \cup {Free, Orphan}]

LockInit == lock = [k \in LockKeys |-> Free]

Holds(k, h) == lock[k] = h

(* The value of lock after h's release of k: a compare-and-delete.         *)
Released(k, h) == IF Holds(k, h) THEN [lock EXCEPT ![k] = Free] ELSE lock

(* The value of lock after the tasks in H died without releasing.          *)
Abandoned(H) ==
  [k \in LockKeys |-> IF lock[k] \in H THEN Orphan ELSE lock[k]]

AcquireUnguarded(k, h) == lock' = [lock EXCEPT ![k] = h]   \* mutant: SET without NX

Acquire(k, h) ==
  /\ lock[k] = Free
  /\ lock' = [lock EXCEPT ![k] = h]

(* The key's TTL elapses and Redis deletes it.                             *)
Expire(k) ==
  /\ lock[k] # Free
  /\ lock[k] # Orphan => HoldersMayStall
  /\ lock' = [lock EXCEPT ![k] = Free]
=============================================================================
