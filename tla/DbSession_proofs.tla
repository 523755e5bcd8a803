--------------------------- MODULE DbSession_proofs -------------------------
(***************************************************************************)
(* Proofs about DbSession, for any number of tasks and connections.        *)
(*                                                                         *)
(* Inv adds Blocks to the properties of the runs: a task has a connection  *)
(* exactly while it is in a block, and no such connection is in the pool.  *)
(* Then handing out a connection cannot give one task that of another, and *)
(* what a task executes stays invisible while it is in a block.            *)
(***************************************************************************)
EXTENDS DbSession, TLAPS

(* The invariant holds initially.                                          *)
LEMMA InitInv == Init => Inv
<1> SUFFICES ASSUME Init PROVE Inv
  OBVIOUS
<1> USE SessionConstants
<1>1. TypeOK
  <2>1. pool \subseteq Connections /\ faults \in 0..MaxFaults
    BY DEF Init
  <2>2. /\ pc \in [Tasks -> {"outside", "waiting", "inside", "raising"}]
        /\ conn \in [Tasks -> Connections \cup {NoConnection}]
    BY DEF Init
  <2>3. depth \in [Tasks -> Nat] /\ issued \in [Tasks -> Nat] /\ durable \in [Tasks -> Nat]
    BY DEF Init
  <2> QED
    BY <2>1, <2>2, <2>3 DEF TypeOK
<1>2. Blocks
  <2>1. \A t \in Tasks : pc[t] = "outside" /\ conn[t] = NoConnection /\ depth[t] = 0
    BY DEF Init
  <2>2. pool = Connections
    BY DEF Init
  <2> QED
    BY <2>1, <2>2 DEF Blocks
<1>3. ConnectionsExclusive
  BY DEF Init, ConnectionsExclusive
<1>4. AllOrNothing
  BY DEF Init, AllOrNothing
<1>5. NoConnectionLost
  BY DEF Init, NoConnectionLost
<1> QED
  BY <1>1, <1>2, <1>3, <1>4, <1>5 DEF Inv

(* A task that only changes what it does, with the same connection.        *)
LEMMA SameConnection ==
  ASSUME Inv, NEW t \in Tasks,
         UNCHANGED <<pool, conn>>,
         pc' \in [Tasks -> {"outside", "waiting", "inside", "raising"}],
         depth' \in [Tasks -> Nat], issued' \in [Tasks -> Nat], durable' \in [Tasks -> Nat],
         faults' \in 0..MaxFaults,
         \A u \in Tasks \ {t} :
           pc'[u] = pc[u] /\ depth'[u] = depth[u]
             /\ issued'[u] = issued[u] /\ durable'[u] = durable[u],
         pc'[t] \in {"inside", "raising"} <=> pc[t] \in {"inside", "raising"},
         depth'[t] # 0 <=> depth[t] # 0,
         durable'[t] # 0 =>
           pc'[t] = "outside" /\ depth'[t] = 0 /\ durable'[t] = issued'[t]
  PROVE  Inv'
<1>1. TypeOK'
  BY DEF Inv, TypeOK
<1>2. Blocks'
  BY DEF Inv, Blocks
<1>3. ConnectionsExclusive'
  BY DEF Inv, ConnectionsExclusive
<1>4. AllOrNothing'
  BY DEF Inv, AllOrNothing
<1>5. NoConnectionLost'
  BY DEF Inv, NoConnectionLost
<1> QED
  BY <1>1, <1>2, <1>3, <1>4, <1>5 DEF Inv

(* A task that leaves its outermost block.                                 *)
LEMMA ReleaseInv ==
  ASSUME Inv, NEW t \in Tasks, pc[t] \in {"inside", "raising"},
         Released(t), UNCHANGED issued, faults' \in 0..MaxFaults,
         durable' \in {durable, [durable EXCEPT ![t] = issued[t]]}
  PROVE  Inv'
<1> USE SessionConstants
<1>a. conn[t] \in Connections
  BY DEF Inv, TypeOK, Blocks
<1>b. conn' = [conn EXCEPT ![t] = NoConnection] /\ pool' = pool \cup {conn[t]}
  BY DEF Released
<1>c. /\ pc' = [pc EXCEPT ![t] = "outside"]
      /\ depth' = [depth EXCEPT ![t] = 0]
  BY DEF Released, Goto
<1>d. \A u \in Tasks : conn'[u] = IF u = t THEN NoConnection ELSE conn[u]
  BY <1>b DEF Inv, TypeOK
<1>1. TypeOK'
  BY <1>a, <1>b, <1>c DEF Inv, TypeOK
<1>2. Blocks'
  BY <1>a, <1>b, <1>c, <1>d DEF Inv, TypeOK, Blocks, ConnectionsExclusive
<1>3. ConnectionsExclusive'
  BY <1>d DEF Inv, ConnectionsExclusive
<1>4. AllOrNothing'
  BY <1>c DEF Inv, TypeOK, AllOrNothing
<1>5. NoConnectionLost'
  <2> SUFFICES ASSUME NEW c \in Connections
               PROVE  c \in pool' <=> \A u \in Tasks : conn'[u] # c
    BY DEF NoConnectionLost
  <2>1. CASE c = conn[t]
    BY <2>1, <1>b, <1>d DEF Inv, ConnectionsExclusive
  <2>2. CASE c # conn[t]
    BY <2>2, <1>b, <1>d DEF Inv, NoConnectionLost
  <2> QED
    BY <2>1, <2>2
<1> QED
  BY <1>1, <1>2, <1>3, <1>4, <1>5 DEF Inv

(* A task that is given a connection.                                      *)
LEMMA ConnectInv ==
  ASSUME Inv, NEW t \in Tasks, Connect(t)
  PROVE  Inv'
<1> USE SessionConstants
<1>1. PICK c \in pool : pool' = pool \ {c} /\ conn' = [conn EXCEPT ![t] = c]
  BY DEF Connect
<1>2. /\ pc[t] = "waiting"
      /\ pc' = [pc EXCEPT ![t] = "inside"]
      /\ depth' = [depth EXCEPT ![t] = @ + 1]
      /\ UNCHANGED <<issued, durable, faults>>
  BY DEF Connect, Goto
<1>3. c \in Connections /\ conn[t] = NoConnection
  BY <1>2 DEF Inv, TypeOK, Blocks
<1>4. \A u \in Tasks : conn'[u] = IF u = t THEN c ELSE conn[u]
  BY <1>1 DEF Inv, TypeOK
<1>5. \A u \in Tasks : conn[u] # c
  BY <1>3, <1>1 DEF Inv, NoConnectionLost
<1>6. durable[t] = 0
  BY <1>2 DEF Inv, AllOrNothing
<1>7. TypeOK'
  BY <1>1, <1>2, <1>3 DEF Inv, TypeOK
<1>8. Blocks'
  BY <1>1, <1>2, <1>3, <1>4 DEF Inv, TypeOK, Blocks
<1>9. ConnectionsExclusive'
  BY <1>4, <1>5 DEF Inv, ConnectionsExclusive
<1>10. AllOrNothing'
  BY <1>2, <1>6 DEF Inv, TypeOK, AllOrNothing
<1>11. NoConnectionLost'
  BY <1>1, <1>3, <1>4, <1>5 DEF Inv, NoConnectionLost
<1> QED
  BY <1>7, <1>8, <1>9, <1>10, <1>11 DEF Inv

(* Every step preserves the invariant.                                     *)
LEMMA NextInv == Inv /\ [Next]_vars => Inv'
<1> SUFFICES ASSUME Inv, [Next]_vars PROVE Inv'
  OBVIOUS
<1> USE SessionConstants
<1>1. ASSUME NEW t \in Tasks, Begin(t) PROVE Inv'
  BY <1>1, SameConnection DEF Begin, Goto, Inv, TypeOK, Blocks
<1>2. ASSUME NEW t \in Tasks, Connect(t) PROVE Inv'
  BY <1>2, ConnectInv
<1>3. ASSUME NEW t \in Tasks, ConnectFails(t) PROVE Inv'
  <2>1. durable[t] = 0
    BY <1>3 DEF ConnectFails, Inv, AllOrNothing
  <2> QED
    BY <1>3, <2>1, SameConnection DEF ConnectFails, Goto, Inv, TypeOK, Blocks
<1>4. ASSUME NEW t \in Tasks, Join(t) PROVE Inv'
  <2>1. durable[t] = 0 /\ depth[t] # 0
    BY <1>4 DEF Join, Inv, AllOrNothing, Blocks
  <2> QED
    BY <1>4, <2>1, SameConnection DEF Join, Inv, TypeOK
<1>5. ASSUME NEW t \in Tasks, Execute(t) PROVE Inv'
  <2>1. durable[t] = 0
    BY <1>5 DEF Execute, Inv, AllOrNothing
  <2> QED
    BY <1>5, <2>1, SameConnection DEF Execute, Inv, TypeOK
<1>6. ASSUME NEW t \in Tasks, Raise(t) PROVE Inv'
  <2>1. durable[t] = 0
    BY <1>6 DEF Raise, Inv, AllOrNothing
  <2> QED
    BY <1>6, <2>1, SameConnection DEF Raise, Goto, Inv, TypeOK
<1>7. ASSUME NEW t \in Tasks, Leave(t) PROVE Inv'
  <2>1. durable[t] = 0
    BY <1>7 DEF Leave, Inv, AllOrNothing
  <2> QED
    BY <1>7, <2>1, SameConnection DEF Leave, Inv, TypeOK
<1>8. ASSUME NEW t \in Tasks, Commit(t) PROVE Inv'
  BY <1>8, ReleaseInv DEF Commit, Inv, TypeOK
<1>9. ASSUME NEW t \in Tasks, Rollback(t) PROVE Inv'
  BY <1>9, ReleaseInv DEF Rollback, Inv, TypeOK
<1>10. ASSUME NEW t \in Tasks, StatementFails(t) PROVE Inv'
  <2>1. durable[t] = 0
    BY <1>10 DEF StatementFails, Inv, AllOrNothing
  <2>2. faults' \in 0..MaxFaults
    BY <1>10 DEF StatementFails, Fault, Inv, TypeOK
  <2> QED
    BY <1>10, <2>1, <2>2, SameConnection DEF StatementFails, Goto, Inv, TypeOK
<1>11. ASSUME NEW t \in Tasks, CommitFails(t) PROVE Inv'
  <2>1. faults' \in 0..MaxFaults
    BY <1>11 DEF CommitFails, Fault, Inv, TypeOK
  <2> QED
    BY <1>11, <2>1, ReleaseInv DEF CommitFails
<1>12. CASE UNCHANGED vars
  BY <1>12 DEF vars, Inv, TypeOK, Blocks, ConnectionsExclusive, AllOrNothing, NoConnectionLost
<1> QED
  BY <1>1, <1>2, <1>3, <1>4, <1>5, <1>6, <1>7, <1>8, <1>9, <1>10, <1>11, <1>12 DEF Next

(* Type correctness.                                                       *)
THEOREM TypeCorrect == Spec => []TypeOK
<1>1. Inv => TypeOK
  BY DEF Inv
<1> QED
  BY InitInv, NextInv, <1>1, PTL DEF Spec

(* No two tasks ever run statements on one connection.                     *)
THEOREM Exclusive == Spec => []ConnectionsExclusive
<1>1. Inv => ConnectionsExclusive
  BY DEF Inv
<1> QED
  BY InitInv, NextInv, <1>1, PTL DEF Spec

(* Everything a block executes becomes visible with its outermost commit,  *)
(* or never.                                                               *)
THEOREM Atomic == Spec => []AllOrNothing
<1>1. Inv => AllOrNothing
  BY DEF Inv
<1> QED
  BY InitInv, NextInv, <1>1, PTL DEF Spec

(* The pool gets every connection back.                                    *)
THEOREM Conserved == Spec => []NoConnectionLost
<1>1. Inv => NoConnectionLost
  BY DEF Inv
<1> QED
  BY InitInv, NextInv, <1>1, PTL DEF Spec
=============================================================================
