------------------------------ MODULE MonthPass ------------------------------
(***************************************************************************)
(* One-month passes bought by one learner for one plan: the order routes   *)
(* and the webhook of src/backend/routes/billing.ts over                   *)
(* src/backend/billing/store.ts, and what they rely on of the browser      *)
(* (billingApi.ts) and of Razorpay.                                        *)
(*                                                                         *)
(* An order id names the order at Razorpay, its row in the table           *)
(* `subscriptions` and the payment that succeeds on it.  A month is        *)
(* granted by two requests that race: the browser's /orders/verify and     *)
(* the webhook, which Razorpay delivers again until it is acknowledged.    *)
(* Signatures hold, prices and the launch offer are left out, and a        *)
(* refused purchase changes nothing.  Consecutive awaits of a handler are  *)
(* one step where no other request can tell.                               *)
(***************************************************************************)
EXTENDS Naturals

CONSTANTS
  Orders,
  Types,     \* events of a captured payment: payment.captured, order.paid
  Env,       \* what may go wrong: subset of Hazards
  Month,     \* a month; the unit is longer than REUSE_CREATED_MS (30 minutes)
  Horizon,   \* bound on time
  None

Hazards ==
  { "hasty",    \* the learner buys again while an order may still be paid, or
                \* is paid and not yet confirmed
    "leave",    \* the browser closes before /orders/verify
    "unreachable", \* Razorpay does not say what an order's status is
    "db",       \* a query fails
    "blind",    \* ... also the query that records or forgets an event
    "impatient",\* Razorpay delivers an event again while it is being handled
    "crash",    \* the backend stops and is started again
    "overlap" } \* statements that grant or retire run at the same moment

ASSUME PassAssumption ==
  /\ Env \subseteq Hazards
  /\ Types # {}
  /\ Month \in Nat \ {0}
  /\ Horizon \in Nat
  /\ None \notin Orders

VARIABLES
  now,
  row,       \* the row of each order
  order,     \* status of each order at Razorpay
  payment,   \* status of the payment on each order at Razorpay
  checkout,  \* orders the browser has Razorpay Checkout open on
  buy,       \* the learner's POST /orders, one at a time
  verify,    \* where the /orders/verify of each order is
  owed,      \* events Razorpay has not seen acknowledged
  seen,      \* table billing_events
  hook,      \* where the handling of each event is
  lost,      \* events a fault has cut off from being handled (history)
  recorded   \* table payments

vars == <<now, row, order, payment, checkout, buy, verify, owed, seen, hook, lost, recorded>>
razorpay == <<order, payment>>
webhook == <<owed, seen, hook, lost>>

Row == [st : {"none", "created", "paid", "abandoned"}, at : Nat, from : Nat, until : Nat]
NoRow == [st |-> "none", at |-> 0, from |-> 0, until |-> 0]
Event == [order : Orders, type : Types]
\* start: what the granting statement has read.
Fulfil == [pc : {"idle", "begun", "granting", "writing"}, start : Nat]
Idle == [pc |-> "idle", start |-> 0]
At(pc) == [Idle EXCEPT !.pc = pc]
Buy == [pc : {"idle", "check", "create"}, order : Orders \cup {None}]
NoBuy == [pc |-> "idle", order |-> None]

TypeOK ==
  /\ now \in Nat
  /\ row \in [Orders -> Row]
  /\ order \in [Orders -> {"none", "created", "attempted", "paid"}]
  /\ payment \in [Orders -> {"none", "authorized", "captured"}]
  /\ checkout \subseteq Orders
  /\ buy \in Buy
  /\ verify \in [Orders -> Fulfil]
  /\ owed \subseteq Event
  /\ seen \subseteq Event
  /\ hook \in [Event -> Fulfil]
  /\ lost \subseteq Event
  /\ recorded \subseteq Orders

Init ==
  /\ now = 0
  /\ row = [o \in Orders |-> NoRow]
  /\ order = [o \in Orders |-> "none"]
  /\ payment = [o \in Orders |-> "none"]
  /\ checkout = {}
  /\ buy = NoBuy
  /\ verify = [o \in Orders |-> Idle]
  /\ owed = {}
  /\ seen = {}
  /\ hook = [e \in Event |-> Idle]
  /\ lost = {}
  /\ recorded = {}

-----------------------------------------------------------------------------
(* Buying: POST /orders.                                                    *)

\* Not isAbandoned.
Recent(o) == row[o].st = "created" /\ row[o].at = now

\* Without "hasty" the learner has one Checkout at a time, and buys again only
\* when every payment is confirmed.
Patient ==
  /\ checkout = {}
  /\ \A o \in Orders : row[o].st = "created" => payment[o] = "none"

\* Without "overlap" a statement waits for the one that grants a month.
Alone ==
  \/ "overlap" \in Env
  \/ /\ \A o \in Orders : verify[o].pc # "writing"
     /\ \A e \in Event : hook[e].pc # "writing"

\* The latest reusable row is looked up at Razorpay, else an order is created.
BuyRequest ==
  /\ buy.pc = "idle"
  /\ "hasty" \in Env \/ Patient
  /\ \/ \E o \in Orders : Recent(o) /\ buy' = [pc |-> "check", order |-> o]
     \/ /\ \A o \in Orders : ~Recent(o)
        /\ buy' = [NoBuy EXCEPT !.pc = "create"]
  /\ UNCHANGED <<now, row, razorpay, checkout, verify, webhook, recorded>>

\* markAbandoned.
Retire(o) ==
  row' = IF row[o].st = "created" THEN [row EXCEPT ![o].st = "abandoned"] ELSE row

\* stillReusable: an order Razorpay does not call created, or says nothing of,
\* is retired.
CheckReusable ==
  /\ buy.pc = "check"
  /\ \/ /\ order[buy.order] = "created"
        /\ checkout' = checkout \cup {buy.order}
        /\ buy' = NoBuy
        /\ UNCHANGED row
     \/ /\ order[buy.order] # "created" \/ "unreachable" \in Env
        /\ Alone
        /\ Retire(buy.order)
        /\ buy' = [NoBuy EXCEPT !.pc = "create"]
        /\ UNCHANGED checkout
  /\ UNCHANGED <<now, razorpay, verify, webhook, recorded>>

\* The order is created at Razorpay and inserted before the browser learns of it.
CreateOrder(o) ==
  /\ buy.pc = "create"
  /\ order[o] = "none"
  /\ order' = [order EXCEPT ![o] = "created"]
  /\ row' = [row EXCEPT ![o] = [NoRow EXCEPT !.st = "created", !.at = now]]
  /\ checkout' = checkout \cup {o}
  /\ buy' = NoBuy
  /\ UNCHANGED <<now, payment, verify, webhook, recorded>>

BuyFails ==
  /\ "db" \in Env
  /\ buy.pc # "idle"
  /\ buy' = NoBuy
  /\ UNCHANGED <<now, row, razorpay, checkout, verify, webhook, recorded>>

-----------------------------------------------------------------------------
(* Paying: Razorpay Checkout in the browser.                                *)

EventsOf(o) == {e \in Event : e.order = o}

\* A captured payment: the order is paid and two events are due.
Captured(o) ==
  /\ payment' = [payment EXCEPT ![o] = "captured"]
  /\ order' = [order EXCEPT ![o] = "paid"]
  /\ owed' = owed \cup EventsOf(o)

\* Checkout stays open after a failed attempt.
AttemptFails(o) ==
  /\ o \in checkout
  /\ order' = [order EXCEPT ![o] = "attempted"]
  /\ UNCHANGED <<now, row, payment, checkout, buy, verify, webhook, recorded>>

Dismiss(o) ==
  /\ o \in checkout
  /\ checkout' = checkout \ {o}
  /\ UNCHANGED <<now, row, razorpay, buy, verify, webhook, recorded>>

\* The payment succeeds; whether it is captured at once is set at Razorpay.
Pay(o) ==
  /\ o \in checkout
  /\ checkout' = checkout \ {o}
  /\ \/ Captured(o)
     \/ /\ payment' = [payment EXCEPT ![o] = "authorized"]
        /\ order' = [order EXCEPT ![o] = "attempted"]
        /\ UNCHANGED owed
  /\ \/ verify' = [verify EXCEPT ![o] = At("begun")]
     \/ "leave" \in Env /\ UNCHANGED verify
  /\ UNCHANGED <<now, row, buy, seen, hook, lost, recorded>>

-----------------------------------------------------------------------------
(* Granting: fulfilOrder, from /orders/verify or from the webhook.          *)

\* Mutant of MonthFrom: the month starts now.
MonthFromNow(o, start) == start = now

\* GREATEST(now, the end of what other passes grant).
MonthFrom(o, start) ==
  /\ start \in {now} \cup {row[p].until : p \in Orders \ {o}}
  /\ start >= now
  /\ \A p \in Orders \ {o} : start >= row[p].until

Starts == {now} \cup {row[p].until : p \in Orders}

\* Mutant of Target: a row that is paid already is granted again.
TargetPaid(o) ==
  {t \in Starts : Alone /\ row[o].st \in {"created", "paid"} /\ MonthFrom(o, t)}

\* markOneTimePaid finds its target: where the month of a created row starts.
Target(o) == {t \in Starts : Alone /\ row[o].st = "created" /\ MonthFrom(o, t)}

\* ... and updates it.  By READ COMMITTED an update that waited for another one
\* of the row goes on with the target it has.
Writes(o, start) ==
  row' = [row EXCEPT ![o] = [@ EXCEPT !.st = "paid", !.from = start, !.until = start + Month]]

\* Mutant of VerifyRecord: an authorized payment is not captured.
VerifyRecordUncaptured(o) ==
  /\ verify[o].pc = "begun"
  /\ recorded' = recorded \cup {o}
  /\ verify' = [verify EXCEPT ![o] = At("granting")]
  /\ UNCHANGED <<now, row, razorpay, checkout, buy, webhook>>

\* The payment is fetched, captured if need be, and recorded.
VerifyRecord(o) ==
  /\ verify[o].pc = "begun"
  /\ IF payment[o] = "authorized" THEN Captured(o) ELSE UNCHANGED <<razorpay, owed>>
  /\ recorded' = recorded \cup {o}
  /\ verify' = [verify EXCEPT ![o] = At("granting")]
  /\ UNCHANGED <<now, row, checkout, buy, seen, hook, lost>>

VerifyReads(o) ==
  /\ verify[o].pc = "granting"
  /\ \E t \in Target(o) : verify' = [verify EXCEPT ![o] = [pc |-> "writing", start |-> t]]
  /\ UNCHANGED <<now, row, razorpay, checkout, buy, webhook, recorded>>

VerifyWrites(o) ==
  /\ verify[o].pc = "writing"
  /\ Writes(o, verify[o].start)
  /\ verify' = [verify EXCEPT ![o] = Idle]
  /\ UNCHANGED <<now, razorpay, checkout, buy, webhook, recorded>>

\* The month is granted already, or the order was retired.
VerifyFindsNone(o) ==
  /\ verify[o].pc = "granting"
  /\ row[o].st # "created"
  /\ verify' = [verify EXCEPT ![o] = Idle]
  /\ UNCHANGED <<now, row, razorpay, checkout, buy, webhook, recorded>>

\* The browser shows the error; nothing asks again.
VerifyFails(o) ==
  /\ "db" \in Env
  /\ verify[o].pc # "idle"
  /\ verify' = [verify EXCEPT ![o] = Idle]
  /\ \/ UNCHANGED <<razorpay, owed>>
     \/ payment[o] = "authorized" /\ Captured(o)
  /\ UNCHANGED <<now, row, checkout, buy, seen, hook, lost, recorded>>

Acknowledge(e) == owed' = owed \ {e}

\* recordEvent: a known event is acknowledged as a duplicate.
HookReceive(e) ==
  /\ e \in owed
  /\ hook[e].pc = "idle" \/ "impatient" \in Env
  /\ \/ e \in seen /\ Acknowledge(e) /\ UNCHANGED <<seen, hook>>
     \/ /\ e \notin seen
        /\ seen' = seen \cup {e}
        /\ hook' = [hook EXCEPT ![e] = At("begun")]
        /\ UNCHANGED owed
  /\ UNCHANGED <<now, row, razorpay, checkout, buy, verify, lost, recorded>>

\* An error of recordEvent counts as a duplicate.
HookBlind(e) ==
  /\ "blind" \in Env
  /\ e \in owed
  /\ hook[e].pc = "idle" \/ "impatient" \in Env
  /\ Acknowledge(e)
  /\ lost' = IF hook[e].pc = "idle" THEN lost \cup {e} ELSE lost
  /\ UNCHANGED <<now, row, razorpay, checkout, buy, verify, seen, hook, recorded>>

HookRecord(e) ==
  /\ hook[e].pc = "begun"
  /\ recorded' = recorded \cup {e.order}
  /\ hook' = [hook EXCEPT ![e] = At("granting")]
  /\ UNCHANGED <<now, row, razorpay, checkout, buy, verify, owed, seen, lost>>

HookReads(e) ==
  /\ hook[e].pc = "granting"
  /\ \E t \in Target(e.order) : hook' = [hook EXCEPT ![e] = [pc |-> "writing", start |-> t]]
  /\ UNCHANGED <<now, row, razorpay, checkout, buy, verify, owed, seen, lost, recorded>>

HookWrites(e) ==
  /\ hook[e].pc = "writing"
  /\ Writes(e.order, hook[e].start)
  /\ Acknowledge(e)
  /\ hook' = [hook EXCEPT ![e] = Idle]
  /\ UNCHANGED <<now, razorpay, checkout, buy, verify, seen, lost, recorded>>

HookFindsNone(e) ==
  /\ hook[e].pc = "granting"
  /\ row[e.order].st # "created"
  /\ Acknowledge(e)
  /\ hook' = [hook EXCEPT ![e] = Idle]
  /\ UNCHANGED <<now, row, razorpay, checkout, buy, verify, seen, lost, recorded>>

\* Mutant of HookFails: the failed event is still known.
HookFailsKept(e) ==
  /\ "db" \in Env
  /\ hook[e].pc # "idle"
  /\ hook' = [hook EXCEPT ![e] = Idle]
  /\ UNCHANGED <<now, row, razorpay, checkout, buy, verify, owed, seen, lost, recorded>>

\* The event is forgotten, and answered with an error: Razorpay tries again,
\* unless it took an earlier answer.
HookFails(e) ==
  /\ "db" \in Env
  /\ hook[e].pc # "idle"
  /\ \/ /\ seen' = seen \ {e}
        /\ lost' = IF e \in owed THEN lost ELSE lost \cup {e}
     \/ "blind" \in Env /\ lost' = lost \cup {e} /\ UNCHANGED seen
  /\ hook' = [hook EXCEPT ![e] = Idle]
  /\ UNCHANGED <<now, row, razorpay, checkout, buy, verify, owed, recorded>>

\* What was being handled is lost: its events are known.
Crash ==
  /\ "crash" \in Env
  /\ buy' = NoBuy
  /\ verify' = [o \in Orders |-> Idle]
  /\ hook' = [e \in Event |-> Idle]
  /\ lost' = lost \cup {e \in Event : hook[e].pc # "idle"}
  /\ UNCHANGED <<now, row, razorpay, checkout, owed, seen, recorded>>

Tick ==
  /\ now < Horizon
  /\ \A o \in Orders : verify[o].pc # "writing"
  /\ \A e \in Event : hook[e].pc # "writing"
  /\ now' = now + 1
  /\ UNCHANGED <<row, razorpay, checkout, buy, verify, webhook, recorded>>

Browser(o) == AttemptFails(o) \/ Dismiss(o) \/ Pay(o)
Purchase == BuyRequest \/ CheckReusable \/ (\E o \in Orders : CreateOrder(o)) \/ BuyFails
Verify(o) ==
  \/ VerifyRecord(o) \/ VerifyReads(o) \/ VerifyWrites(o)
  \/ VerifyFindsNone(o) \/ VerifyFails(o)
Hook(e) ==
  \/ HookReceive(e) \/ HookBlind(e) \/ HookRecord(e) \/ HookReads(e)
  \/ HookWrites(e) \/ HookFindsNone(e) \/ HookFails(e)

Next ==
  \/ Tick
  \/ Purchase
  \/ \E o \in Orders : Browser(o) \/ Verify(o)
  \/ \E e \in Event : Hook(e)
  \/ Crash

Spec == Init /\ [][Next]_vars

\* Razorpay delivers what is not acknowledged, statements end, and queries that
\* are tried again and again succeed in the end.
FairSpec ==
  /\ Spec
  /\ \A o \in Orders : WF_vars(VerifyWrites(o))
  /\ \A e \in Event :
       /\ WF_vars(HookReceive(e)) /\ WF_vars(HookFindsNone(e))
       /\ SF_vars(HookRecord(e)) /\ SF_vars(HookReads(e)) /\ SF_vars(HookWrites(e))
-----------------------------------------------------------------------------
(* Properties.                                                              *)

\* Every grant is backed: a row is paid, or about to be, only if its payment
\* was captured and recorded; a row that grants nothing has no period; nobody
\* pays an order twice.
Backed ==
  /\ buy.pc = "check" => buy.order \in Orders
  /\ \A o \in Orders :
       /\ row[o].st = "paid" \/ verify[o].pc \in {"granting", "writing"} =>
            payment[o] = "captured" /\ o \in recorded
       /\ verify[o].pc # "idle" => payment[o] # "none"
       /\ o \in checkout \/ order[o] \in {"none", "created"} => payment[o] = "none"
       /\ row[o].st # "paid" => row[o].until = 0
       /\ row[o].st = "paid" => row[o].until = row[o].from + Month
  /\ \A e \in Event :
       /\ e \in owed \/ hook[e].pc # "idle" => payment[e.order] = "captured"
       /\ hook[e].pc \in {"granting", "writing"} => e.order \in recorded

\* A granting statement that runs alone still has its target when it writes.
Targeted(o, start) ==
  row[o].st = "created" /\ \A p \in Orders \ {o} : start >= row[p].until
OneWriter ==
  "overlap" \notin Env =>
    /\ \A o \in Orders : verify[o].pc = "writing" =>
         /\ Targeted(o, verify[o].start)
         /\ \A p \in Orders \ {o} : verify[p].pc # "writing"
         /\ \A e \in Event : hook[e].pc # "writing"
    /\ \A e \in Event : hook[e].pc = "writing" =>
         /\ Targeted(e.order, hook[e].start)
         /\ \A f \in Event \ {e} : hook[f].pc # "writing"

Inv == TypeOK /\ Backed /\ OneWriter

\* "grant one month, starting where the user's existing access to the same plan
\* ends" (store.ts:142-143): no two paid months overlap.
MonthsApart ==
  \A o, p \in Orders :
    o # p /\ row[o].st = "paid" /\ row[p].st = "paid" =>
      row[o].until <= row[p].from \/ row[p].until <= row[o].from

\* "Only the first caller (Checkout verify or webhook) wins, so a month is
\* never granted twice" (store.ts:143-144), as the ledger says it.
End == CHOOSE e \in {0} \cup {row[o].until : o \in Orders} :
         \A o \in Orders : row[o].until <= e
Ledger == INSTANCE MonthLedger WITH
  end <- End,
  bought <- {o \in Orders : payment[o] = "captured"},
  granted <- {o \in Orders : row[o].st = "paid"}
KeepsLedger == Ledger!Spec

\* The webhook is the "fallback when the browser closes before /orders/verify"
\* (routes/billing.ts:413): every captured payment is granted in the end, unless
\* faults cut off both of its events.
PaidMonthGranted ==
  \A o \in Orders :
    payment[o] = "captured" ~> row[o].st = "paid" \/ EventsOf(o) \subseteq lost
=============================================================================
