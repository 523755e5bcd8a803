--------------------------- MODULE ConsumerLedger ---------------------------
(***************************************************************************)
(* What the consumer may do more than once, and what has to go wrong first.*)
(* ProcessPayment is observed, not changed: every step is one of its steps,*)
(* and the ledger enters the mishaps that can be seen in it.               *)
(***************************************************************************)
EXTENDS ProcessPayment

(* Each fault can bring back the attempts of every task's message, and one *)
(* request more must be seen.                                              *)
ASSUME LedgerSeesPosts ==
  MaxPosts > MaxRetries * (MaxPublish + MaxFaults * Cardinality(Workers))

VARIABLES
  acknowledged,   \* history: webhook requests its receiver answered with success
  unstamped,      \* history: such answers that left the row without a stamp
  regained        \* history: attempts that came back with redelivered messages

ledger == <<acknowledged, unstamped, regained>>
ledgerVars == <<vars, ledger>>

LedgerInit ==
  /\ Init
  /\ acknowledged = [p \in Payments |-> 0]
  /\ unstamped = [p \in Payments |-> 0]
  /\ regained = [p \in Payments |-> 0]

-----------------------------------------------------------------------------
(* What a step of ProcessPayment does to p.                                *)
Acknowledged(p) ==
  {w \in Workers : task[w].payment = p /\ At(w, "webhook") /\ At(w, "stamp")'}

Unstamped(p) ==
  {w \in Workers : task[w].payment = p /\ At(w, "stamp") /\ ~At(w, "stamp")'
                                       /\ ~payments'[p].delivered}

(* The attempts x-retry-count leaves each message that goes back to        *)
(* payments.new with the header it had.                                    *)
Regained(p) ==
  {a \in MsgIds \X (1..MaxRetries) :
     LET m == a[1] IN
     /\ msgs[m].payment = p
     /\ msgs[m].place = "unacked" /\ msgs'[m].place = "new"
     /\ msgs[m].retries < a[2]}

Entered ==
  /\ acknowledged' = [p \in Payments |-> acknowledged[p] + Cardinality(Acknowledged(p))]
  /\ unstamped' = [p \in Payments |-> unstamped[p] + Cardinality(Unstamped(p))]
  /\ regained' = [p \in Payments |-> regained[p] + Cardinality(Regained(p))]

LedgerNext == Next /\ Entered

LedgerSpec == LedgerInit /\ [][LedgerNext]_ledgerVars

-----------------------------------------------------------------------------
(* A receiver that has acknowledged the webhook is sent it again only if   *)
(* mark_webhook_delivered failed or never ran, or the lock had expired     *)
(* under a task.                                                           *)
ResendsExplained ==
  \A p \in Payments : acknowledged[p] <= 1 + unstamped[p] + overtaken[p]

(* A message that comes back after a crash or a lost connection has the    *)
(* x-retry-count it had: what was attempted under it is forgotten.  Each   *)
(* redelivery costs at most the attempts the message has left, copies made *)
(* by a task that had already republished included, and nothing else goes  *)
(* beyond MaxRetries for each publish.                                     *)
AttemptsExplained ==
  \A p \in Payments : posts[p] <= MaxRetries * published[p] + regained[p]
=============================================================================
