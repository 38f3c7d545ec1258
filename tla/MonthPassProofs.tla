--------------------------- MODULE MonthPassProofs ---------------------------
(* Granted months are backed by captured payments and lie apart, for any      *)
(* orders, events and bounds.                                                 *)
EXTENDS MonthPass, TLAPS

\* A step in which no request starts to write.
NoNewWriter ==
  /\ \A o \in Orders : verify'[o].pc = "writing" => verify'[o] = verify[o]
  /\ \A e \in Event : hook'[e].pc = "writing" => hook'[e] = hook[e]

-----------------------------------------------------------------------------
(* Types.                                                                    *)

LEMMA Stages ==
  /\ Idle \in Fulfil /\ Idle.pc = "idle"
  /\ \A pc \in {"begun", "granting"} : At(pc) \in Fulfil /\ At(pc).pc = pc
  /\ \A t \in Nat : LET f == [pc |-> "writing", start |-> t]
                    IN  f \in Fulfil /\ f.pc = "writing" /\ f.start = t
BY DEF Idle, At, Fulfil

LEMMA EventType ==
  /\ \A e \in Event : e.order \in Orders
  /\ \A o \in Orders : EventsOf(o) \subseteq Event
  /\ \A o \in Orders : \A e \in EventsOf(o) : e.order = o
BY DEF Event, EventsOf

LEMMA BuyType == NoBuy \in Buy /\ NoBuy.pc = "idle"
BY DEF NoBuy, Buy

LEMMA TargetType ==
  ASSUME TypeOK, NEW o \in Orders, NEW t \in Target(o)
  PROVE  /\ t \in Nat
         /\ Alone
         /\ Targeted(o, t)
<1>1. Starts \subseteq Nat
  BY DEF Starts, TypeOK, Row
<1> QED
  BY <1>1 DEF Target, MonthFrom, Targeted

LEMMA WritesType ==
  ASSUME TypeOK, NEW o \in Orders, NEW start \in Nat, Writes(o, start)
  PROVE  /\ row' \in [Orders -> Row]
         /\ \A p \in Orders \ {o} : row'[p] = row[p]
         /\ row'[o].st = "paid" /\ row'[o].from = start /\ row'[o].until = start + Month
<1> DEFINE r == [row[o] EXCEPT !.st = "paid", !.from = start, !.until = start + Month]
<1>1. row[o] \in Row
  BY DEF TypeOK
<1>2. start + Month \in Nat
  BY PassAssumption
<1>3. r \in Row /\ r.st = "paid" /\ r.from = start /\ r.until = start + Month
  BY <1>1, <1>2 DEF Row
<1>4. row' = [row EXCEPT ![o] = r]
  BY DEF Writes
<1> HIDE DEF r
<1> QED
  BY <1>3, <1>4 DEF TypeOK

LEMMA RetireType ==
  ASSUME TypeOK, NEW o \in Orders, Retire(o)
  PROVE  /\ row' \in [Orders -> Row]
         /\ \A p \in Orders : row'[p].until = row[p].until /\ row'[p].from = row[p].from
         /\ \A p \in Orders : row'[p].st = "paid" <=> row[p].st = "paid"
         /\ \A p \in Orders \ {o} : row'[p] = row[p]
BY DEF Retire, TypeOK, Row

LEMMA CapturedType ==
  ASSUME TypeOK, NEW o \in Orders, Captured(o)
  PROVE  /\ payment' \in [Orders -> {"none", "authorized", "captured"}]
         /\ order' \in [Orders -> {"none", "created", "attempted", "paid"}]
         /\ owed' \subseteq Event
         /\ payment'[o] = "captured" /\ order'[o] = "paid"
         /\ \A p \in Orders \ {o} : payment'[p] = payment[p] /\ order'[p] = order[p]
         /\ \A e \in owed' : e \in owed \/ e.order = o
BY EventType DEF Captured, TypeOK

LEMMA InitInv == Init => Inv /\ MonthsApart
<1> SUFFICES ASSUME Init PROVE Inv /\ MonthsApart
  OBVIOUS
<1>1. NoRow \in Row /\ NoRow.st = "none" /\ NoRow.until = 0
  BY DEF NoRow, Row
<1>2. TypeOK
  BY <1>1, Stages, BuyType DEF Init, TypeOK
<1>3. Backed
  BY <1>1, Stages, BuyType, EventType DEF Init, Backed
<1>4. OneWriter
  BY Stages DEF Init, OneWriter
<1>5. MonthsApart
  BY <1>1 DEF Init, MonthsApart
<1> QED
  BY <1>2, <1>3, <1>4, <1>5 DEF Inv

-----------------------------------------------------------------------------
(* The granting statement.                                                   *)

LEMMA WritersStay ==
  ASSUME OneWriter, NoNewWriter, row' = row
  PROVE  OneWriter'
BY EventType DEF OneWriter, Targeted, NoNewWriter

LEMMA NobodyWrites ==
  ASSUME Alone, NoNewWriter
  PROVE  OneWriter'
BY DEF Alone, NoNewWriter, OneWriter

\* The only writer is done.
LEMMA LastWriter ==
  ASSUME OneWriter, NoNewWriter,
         \/ \E o \in Orders : verify[o].pc = "writing" /\ verify'[o].pc # "writing"
         \/ \E e \in Event : hook[e].pc = "writing" /\ hook'[e].pc # "writing"
  PROVE  OneWriter'
BY DEF NoNewWriter, OneWriter

\* The month that is written starts after every other one ends.
LEMMA WritesApart ==
  ASSUME TypeOK, MonthsApart, NEW o \in Orders, NEW start \in Nat,
         Writes(o, start), Targeted(o, start)
  PROVE  MonthsApart'
<1>1. \A p \in Orders \ {o} : row'[p] = row[p] /\ row'[o].from >= row'[p].until
  BY WritesType DEF Targeted
<1> QED
  BY <1>1 DEF MonthsApart

-----------------------------------------------------------------------------
(* Buying and paying.                                                        *)

LEMMA PurchaseKeeps ==
  ASSUME Inv, Purchase
  PROVE  Inv'
<1> USE DEF Inv
<1>1. CASE BuyRequest \/ BuyFails
  <2>1. buy' \in Buy /\ (buy'.pc = "check" => buy'.order \in Orders)
    BY <1>1, BuyType DEF BuyRequest, BuyFails, NoBuy, Buy
  <2>2. UNCHANGED <<now, row, razorpay, checkout, verify, webhook, recorded>>
    BY <1>1 DEF BuyRequest, BuyFails
  <2>3. TypeOK' /\ Backed'
    BY <2>1, <2>2 DEF TypeOK, Backed, razorpay, webhook
  <2> QED
    BY <2>2, <2>3, WritersStay DEF NoNewWriter, webhook
<1>2. CASE CheckReusable
  <2>1. UNCHANGED <<now, razorpay, verify, webhook, recorded>> /\ buy.pc = "check"
    BY <1>2 DEF CheckReusable
  <2>2. buy' \in Buy /\ buy'.pc # "check"
    BY <1>2, BuyType DEF CheckReusable, NoBuy, Buy
  <2>3. CASE /\ order[buy.order] = "created"
             /\ checkout' = checkout \cup {buy.order}
             /\ UNCHANGED row
    <3>1. TypeOK' /\ Backed'
      BY <2>1, <2>2, <2>3 DEF TypeOK, Backed, razorpay, webhook
    <3> QED
      BY <2>1, <2>3, <3>1, WritersStay DEF NoNewWriter, webhook
  <2>4. CASE Alone /\ Retire(buy.order) /\ UNCHANGED checkout
    <3>1. buy.order \in Orders
      BY <2>1 DEF Backed
    <3>2. TypeOK'
      BY <2>1, <2>2, <2>4, <3>1, RetireType DEF TypeOK, razorpay, webhook
    <3>3. Backed'
      <4>1. \A o \in Orders : /\ row'[o].st = "paid" <=> row[o].st = "paid"
                              /\ row'[o].until = row[o].until /\ row'[o].from = row[o].from
        BY <2>4, <3>1, RetireType
      <4> QED
        BY <2>1, <2>2, <2>4, <4>1 DEF Backed, razorpay, webhook
    <3> QED
      BY <2>1, <2>4, <3>2, <3>3, NobodyWrites DEF NoNewWriter, webhook
  <2> QED
    BY <1>2, <2>3, <2>4 DEF CheckReusable
<1>3. ASSUME NEW o \in Orders, CreateOrder(o)
      PROVE  Inv'
  <2> DEFINE r == [NoRow EXCEPT !.st = "created", !.at = now]
  <2>1. r \in Row /\ r.st = "created" /\ r.until = 0
    BY DEF NoRow, Row, TypeOK
  <2>2. row' = [row EXCEPT ![o] = r] /\ order' = [order EXCEPT ![o] = "created"]
    BY <1>3 DEF CreateOrder
  <2> HIDE DEF r
  <2>3. /\ UNCHANGED <<now, payment, verify, webhook, recorded>>
        /\ order[o] = "none" /\ checkout' = checkout \cup {o} /\ buy' = NoBuy
    BY <1>3 DEF CreateOrder
  <2>4. TypeOK'
    BY <2>1, <2>2, <2>3, BuyType DEF TypeOK, webhook
  <2>5. /\ row'[o].st = "created" /\ row'[o].until = 0
        /\ \A p \in Orders \ {o} : row'[p] = row[p] /\ order'[p] = order[p]
    BY <2>1, <2>2 DEF TypeOK
  <2>6. Backed'
    BY <2>3, <2>5, BuyType DEF Backed, webhook
  <2>7. OneWriter'
    <3>1. \A p \in Orders, start \in Nat : Targeted(p, start) => Targeted(p, start)'
      BY <2>5 DEF Targeted
    <3>2. verify' = verify /\ hook' = hook
      BY <2>3 DEF webhook
    <3> QED
      BY <3>1, <3>2, EventType DEF OneWriter, TypeOK, Fulfil
  <2> QED
    BY <2>4, <2>6, <2>7
<1> QED
  BY <1>1, <1>2, <1>3 DEF Purchase

LEMMA BrowserKeeps ==
  ASSUME Inv, NEW o \in Orders, Browser(o)
  PROVE  Inv'
<1> USE DEF Inv
<1>1. CASE AttemptFails(o) \/ Dismiss(o)
  <2>1. /\ UNCHANGED <<now, row, payment, buy, verify, webhook, recorded>>
        /\ checkout' \subseteq checkout
        /\ \/ UNCHANGED order
           \/ o \in checkout /\ order' = [order EXCEPT ![o] = "attempted"]
    BY <1>1 DEF AttemptFails, Dismiss, razorpay
  <2>2. TypeOK'
    BY <2>1 DEF TypeOK, webhook
  <2>3. \A p \in Orders : order'[p] \in {"none", "created"} => order[p] = order'[p]
    BY <2>1 DEF TypeOK
  <2>4. Backed'
    BY <2>1, <2>3 DEF Backed, webhook
  <2> QED
    BY <2>1, <2>2, <2>4, WritersStay DEF NoNewWriter, webhook
<1>2. CASE Pay(o)
  <2>1. /\ UNCHANGED <<now, row, buy, seen, hook, lost, recorded>>
        /\ checkout' = checkout \ {o} /\ o \in checkout
        /\ verify' = verify \/ verify' = [verify EXCEPT ![o] = At("begun")]
    BY <1>2 DEF Pay
  <2>2. /\ payment' \in [Orders -> {"none", "authorized", "captured"}]
        /\ order' \in [Orders -> {"none", "created", "attempted", "paid"}]
        /\ payment'[o] # "none" /\ order'[o] \in {"attempted", "paid"}
        /\ \A p \in Orders \ {o} : payment'[p] = payment[p] /\ order'[p] = order[p]
        /\ owed' \subseteq Event
        /\ \A e \in owed' : e \in owed \/ (e.order = o /\ payment'[o] = "captured")
    <3>1. CASE Captured(o)
      BY <3>1, CapturedType
    <3>2. CASE UNCHANGED owed /\ payment' = [payment EXCEPT ![o] = "authorized"]
               /\ order' = [order EXCEPT ![o] = "attempted"]
      BY <3>2 DEF TypeOK
    <3> QED
      BY <1>2, <3>1, <3>2 DEF Pay
  <2>3. TypeOK'
    BY <2>1, <2>2, Stages DEF TypeOK
  <2>4. payment[o] = "none"
    BY <2>1 DEF Backed
  <2>5. \A p \in Orders : /\ verify'[p].pc \in {"granting", "writing"} =>
                               verify'[p] = verify[p]
                          /\ verify'[p].pc # "idle" => p = o \/ verify[p].pc # "idle"
    BY <2>1, Stages DEF TypeOK
  <2>6. \A e \in Event : /\ e \in owed' \/ hook'[e].pc # "idle" =>
                              payment'[e.order] = "captured"
                         /\ hook'[e].pc \in {"granting", "writing"} =>
                              e.order \in recorded'
    <3>1. \A e \in Event : e \in owed \/ hook[e].pc # "idle" => e.order # o
      BY <2>4 DEF Backed
    <3> QED
      BY <2>1, <2>2, <3>1, EventType DEF Backed
  <2>7. ASSUME NEW p \in Orders
        PROVE  /\ row'[p].st = "paid" \/ verify'[p].pc \in {"granting", "writing"} =>
                    payment'[p] = "captured" /\ p \in recorded'
               /\ verify'[p].pc # "idle" => payment'[p] # "none"
               /\ p \in checkout' \/ order'[p] \in {"none", "created"} =>
                    payment'[p] = "none"
    <3>1. row[p].st = "paid" \/ verify[p].pc # "idle" => p # o
      BY <2>4 DEF Backed
    <3> QED
      BY <2>1, <2>2, <2>5, <3>1 DEF Backed
  <2>8. Backed'
    BY <2>1, <2>6, <2>7 DEF Backed
  <2> QED
    BY <2>1, <2>3, <2>5, <2>8, WritersStay DEF NoNewWriter
<1> QED
  BY <1>1, <1>2 DEF Browser

-----------------------------------------------------------------------------
(* Granting.                                                                 *)

\* What capturing an authorized payment, or leaving it, keeps.
LEMMA CaptureKeeps ==
  ASSUME TypeOK, Backed, NEW o \in Orders,
         \/ payment[o] = "authorized" /\ Captured(o)
         \/ UNCHANGED <<razorpay, owed>>
  PROVE  /\ payment' \in [Orders -> {"none", "authorized", "captured"}]
         /\ order' \in [Orders -> {"none", "created", "attempted", "paid"}]
         /\ owed' \subseteq Event
         /\ \A p \in Orders : /\ payment[p] = "captured" => payment'[p] = "captured"
                              /\ payment[p] # "none" => payment'[p] # "none"
                              /\ p \in checkout \/ order'[p] \in {"none", "created"} =>
                                   payment'[p] = "none"
         /\ \A e \in Event : e \in owed' => payment'[e.order] = "captured"
<1>1. CASE payment[o] = "authorized" /\ Captured(o)
  <2>1. o \notin checkout
    BY <1>1 DEF Backed
  <2>2. \A e \in Event : e \in owed => payment[e.order] = "captured"
    BY DEF Backed
  <2> QED
    BY <1>1, <2>1, <2>2, CapturedType, EventType DEF Backed
<1>2. CASE UNCHANGED <<razorpay, owed>>
  BY <1>2 DEF TypeOK, Backed, razorpay
<1> QED
  BY <1>1, <1>2

\* What a step of one verification keeps that writes no row.
LEMMA VerifyStep ==
  ASSUME Inv, NEW o \in Orders, NEW f \in Fulfil, f.pc # "writing",
         verify' = [verify EXCEPT ![o] = f],
         UNCHANGED <<now, row, checkout, buy, seen, hook, lost>>,
         recorded \subseteq recorded', recorded' \subseteq Orders,
         \/ payment[o] = "authorized" /\ Captured(o)
         \/ UNCHANGED <<razorpay, owed>>,
         f.pc # "idle" => payment'[o] = "captured" /\ o \in recorded'
  PROVE  Inv'
<1> USE DEF Inv
<1>1. TypeOK'
  BY CaptureKeeps DEF TypeOK
<1>2. verify'[o] = f /\ \A p \in Orders \ {o} : verify'[p] = verify[p]
  BY DEF TypeOK
<1>3. Backed'
  BY <1>2, CaptureKeeps, EventType DEF Backed
<1>4. OneWriter'
  BY <1>2, WritersStay DEF NoNewWriter
<1> QED
  BY <1>1, <1>3, <1>4

LEMMA VerifyKeeps ==
  ASSUME Inv, NEW o \in Orders, Verify(o)
  PROVE  Inv'
<1> USE DEF Inv
<1>1. CASE VerifyRecord(o)
  <2>1. payment[o] # "none"
    BY <1>1 DEF VerifyRecord, Backed
  <2>2. payment'[o] = "captured"
    BY <1>1, <2>1, CapturedType DEF VerifyRecord, razorpay, TypeOK
  <2> QED
    BY <1>1, <2>2, Stages, VerifyStep DEF VerifyRecord, TypeOK
<1>2. CASE VerifyFindsNone(o) \/ VerifyFails(o)
  <2>1. /\ verify' = [verify EXCEPT ![o] = Idle]
        /\ UNCHANGED <<now, row, checkout, buy, seen, hook, lost, recorded>>
    BY <1>2 DEF VerifyFindsNone, VerifyFails, webhook
  <2>2. \/ payment[o] = "authorized" /\ Captured(o)
        \/ UNCHANGED <<razorpay, owed>>
    BY <1>2 DEF VerifyFindsNone, VerifyFails, webhook
  <2>3. recorded \subseteq recorded' /\ recorded' \subseteq Orders
    BY <2>1 DEF TypeOK
  <2> QED
    BY <2>1, <2>2, <2>3, Stages, VerifyStep
<1>3. CASE VerifyReads(o)
  <2>1. PICK t \in Target(o) : verify' = [verify EXCEPT ![o] = [pc |-> "writing", start |-> t]]
    BY <1>3 DEF VerifyReads
  <2>2. t \in Nat /\ Alone /\ Targeted(o, t)
    BY TargetType
  <2>3. /\ UNCHANGED <<now, row, razorpay, checkout, buy, webhook, recorded>>
        /\ verify[o].pc = "granting"
    BY <1>3 DEF VerifyReads
  <2>4. TypeOK'
    BY <2>1, <2>2, <2>3, Stages DEF TypeOK, razorpay, webhook
  <2>5. /\ verify'[o].pc = "writing" /\ verify'[o].start = t
        /\ \A p \in Orders \ {o} : verify'[p] = verify[p]
    BY <2>1, <2>2, Stages DEF TypeOK
  <2>6. Backed'
    BY <2>3, <2>5 DEF Backed, razorpay, webhook
  <2>7. OneWriter'
    BY <2>2, <2>3, <2>5 DEF OneWriter, Targeted, Alone, webhook
  <2> QED
    BY <2>4, <2>6, <2>7
<1>4. CASE VerifyWrites(o)
  <2>1. /\ verify[o].start \in Nat /\ verify[o].pc = "writing"
        /\ Writes(o, verify[o].start) /\ verify' = [verify EXCEPT ![o] = Idle]
        /\ UNCHANGED <<now, razorpay, checkout, buy, webhook, recorded>>
    BY <1>4 DEF VerifyWrites, TypeOK, Fulfil
  <2>2. verify'[o].pc = "idle" /\ \A p \in Orders \ {o} : verify'[p] = verify[p]
    BY <2>1, Stages DEF TypeOK
  <2>3. TypeOK'
    BY <2>1, WritesType, Stages DEF TypeOK, razorpay, webhook
  <2>4. Backed'
    <3>1. payment[o] = "captured" /\ o \in recorded
      BY <2>1 DEF Backed
    <3> QED
      BY <2>1, <2>2, <3>1, WritesType DEF Backed, razorpay, webhook
  <2>5. OneWriter'
    BY <2>1, <2>2, LastWriter DEF NoNewWriter, webhook
  <2> QED
    BY <2>3, <2>4, <2>5
<1> QED
  BY <1>1, <1>2, <1>3, <1>4 DEF Verify

\* What a step of the handling of one event keeps that writes no row.
LEMMA HookStep ==
  ASSUME Inv, NEW e \in Event, NEW f \in Fulfil, f.pc # "writing",
         hook' = [hook EXCEPT ![e] = f],
         UNCHANGED <<now, row, razorpay, checkout, buy, verify>>,
         seen' \subseteq Event, lost' \subseteq Event, owed' \subseteq owed,
         recorded \subseteq recorded', recorded' \subseteq Orders,
         f.pc # "idle" => payment[e.order] = "captured",
         f.pc = "granting" => e.order \in recorded'
  PROVE  Inv'
<1> USE DEF Inv
<1>1. TypeOK'
  BY DEF TypeOK, razorpay
<1>2. hook'[e] = f /\ \A g \in Event \ {e} : hook'[g] = hook[g]
  BY DEF TypeOK
<1>3. Backed'
  BY <1>2 DEF Backed, razorpay
<1>4. OneWriter'
  BY <1>2, WritersStay DEF NoNewWriter
<1> QED
  BY <1>1, <1>3, <1>4

LEMMA HookKeeps ==
  ASSUME Inv, NEW e \in Event, Hook(e)
  PROVE  Inv'
<1> USE DEF Inv
<1> e.order \in Orders
  BY EventType
<1>1. CASE HookReceive(e)
  <2>1. CASE hook' = [hook EXCEPT ![e] = At("begun")]
    BY <1>1, <2>1, Stages, HookStep DEF HookReceive, Acknowledge, TypeOK, Backed
  <2>2. CASE UNCHANGED hook
    <3>1. TypeOK'
      BY <1>1, <2>2 DEF HookReceive, Acknowledge, TypeOK, razorpay
    <3>2. Backed'
      BY <1>1, <2>2 DEF HookReceive, Acknowledge, Backed, razorpay
    <3>3. OneWriter'
      BY <1>1, <2>2, WritersStay DEF HookReceive, NoNewWriter
    <3> QED
      BY <3>1, <3>2, <3>3
  <2> QED
    BY <1>1, <2>1, <2>2 DEF HookReceive
<1>2. CASE HookBlind(e)
  <2>1. /\ UNCHANGED <<now, row, razorpay, checkout, buy, verify, seen, hook, recorded>>
        /\ owed' \subseteq owed /\ lost' \subseteq Event
    BY <1>2 DEF HookBlind, Acknowledge, TypeOK
  <2>2. TypeOK'
    BY <2>1 DEF TypeOK, razorpay
  <2>3. Backed'
    BY <2>1 DEF Backed, razorpay
  <2> QED
    BY <2>1, <2>2, <2>3, WritersStay DEF NoNewWriter
<1>3. CASE HookRecord(e)
  <2>1. At("granting") \in Fulfil /\ At("granting").pc = "granting"
    BY Stages
  <2>2. payment[e.order] = "captured" /\ e.order \in Orders /\ seen \subseteq Event /\ lost \subseteq Event
        /\ recorded \subseteq Orders
    BY <1>3, EventType DEF HookRecord, TypeOK, Backed
  <2> QED
    BY <1>3, <2>1, <2>2, HookStep DEF HookRecord
<1>4. CASE HookFindsNone(e)
  BY <1>4, Stages, HookStep DEF HookFindsNone, Acknowledge, TypeOK
<1>4a. CASE HookFails(e)
  BY <1>4a, Stages, HookStep DEF HookFails, TypeOK
<1>5. CASE HookReads(e)
  <2>1. PICK t \in Target(e.order) : hook' = [hook EXCEPT ![e] = [pc |-> "writing", start |-> t]]
    BY <1>5 DEF HookReads
  <2>2. t \in Nat /\ Alone /\ Targeted(e.order, t)
    BY TargetType
  <2>3. /\ UNCHANGED <<now, row, razorpay, checkout, buy, verify, owed, seen, lost, recorded>>
        /\ hook[e].pc = "granting"
    BY <1>5 DEF HookReads
  <2>4. TypeOK'
    BY <2>1, <2>2, <2>3, Stages DEF TypeOK, razorpay
  <2>5. /\ hook'[e].pc = "writing" /\ hook'[e].start = t
        /\ \A g \in Event \ {e} : hook'[g] = hook[g]
    BY <2>1, <2>2, Stages DEF TypeOK
  <2>6. Backed'
    BY <2>3, <2>5 DEF Backed, razorpay
  <2>7. OneWriter'
    BY <2>2, <2>3, <2>5 DEF OneWriter, Targeted, Alone
  <2> QED
    BY <2>4, <2>6, <2>7
<1>6. CASE HookWrites(e)
  <2>1. /\ hook[e].start \in Nat /\ hook[e].pc = "writing"
        /\ Writes(e.order, hook[e].start) /\ hook' = [hook EXCEPT ![e] = Idle]
        /\ owed' \subseteq owed
        /\ UNCHANGED <<now, razorpay, checkout, buy, verify, seen, lost, recorded>>
    BY <1>6 DEF HookWrites, Acknowledge, TypeOK, Fulfil
  <2>2. hook'[e].pc = "idle" /\ \A g \in Event \ {e} : hook'[g] = hook[g]
    BY <2>1, Stages DEF TypeOK
  <2>3. TypeOK'
    BY <2>1, WritesType, Stages DEF TypeOK, razorpay
  <2>4. Backed'
    <3>1. payment[e.order] = "captured" /\ e.order \in recorded
      BY <2>1 DEF Backed
    <3> QED
      BY <2>1, <2>2, <3>1, WritesType DEF Backed, razorpay
  <2>5. OneWriter'
    BY <2>1, <2>2, LastWriter DEF NoNewWriter
  <2> QED
    BY <2>3, <2>4, <2>5
<1> QED
  BY <1>1, <1>2, <1>3, <1>4, <1>4a, <1>5, <1>6 DEF Hook

LEMMA CrashTickKeeps ==
  ASSUME Inv, Crash \/ Tick
  PROVE  Inv'
<1> USE DEF Inv
<1>1. CASE Crash
  <2>1. TypeOK'
    BY <1>1, Stages, BuyType DEF Crash, TypeOK, razorpay
  <2>2. Backed'
    BY <1>1, Stages, BuyType DEF Crash, Backed, razorpay
  <2>3. OneWriter'
    BY <1>1, Stages DEF Crash, OneWriter
  <2> QED
    BY <2>1, <2>2, <2>3
<1>2. CASE Tick
  <2>1. UNCHANGED <<row, razorpay, checkout, buy, verify, webhook, recorded>> /\ now' = now + 1
    BY <1>2 DEF Tick
  <2>2. TypeOK' /\ Backed'
    BY <2>1 DEF TypeOK, Backed, razorpay, webhook
  <2> QED
    BY <2>1, <2>2, WritersStay DEF NoNewWriter, webhook
<1> QED
  BY <1>1, <1>2

-----------------------------------------------------------------------------
\* Whatever goes wrong, every granted month is backed by a captured and recorded
\* payment, and a granting statement that runs alone still has its target when it
\* writes (billing.ts:240-248, store.ts:146-170).
THEOREM InvHolds == Spec => []Inv
<1>1. Inv /\ [Next]_vars => Inv'
  <2> SUFFICES ASSUME Inv, [Next]_vars PROVE Inv'
    OBVIOUS
  <2>1. CASE UNCHANGED vars
    <3>1. TypeOK' /\ Backed'
      BY <2>1 DEF vars, Inv, TypeOK, Backed
    <3>2. OneWriter'
      BY <2>1, WritersStay DEF vars, Inv, NoNewWriter
    <3> QED
      BY <3>1, <3>2 DEF Inv
  <2> QED
    BY <2>1, PurchaseKeeps, BrowserKeeps, VerifyKeeps, HookKeeps, CrashTickKeeps DEF Next
<1> QED
  BY <1>1, InitInv, PTL DEF Spec

\* As long as granting statements do not run at the same moment, no two months a
\* learner paid for overlap, in whatever order and how often verifications and
\* events grant them (store.ts:141-145).
THEOREM MonthsApartHolds ==
  ASSUME "overlap" \notin Env
  PROVE  Spec => []MonthsApart
<1>1. Inv /\ MonthsApart /\ [Next]_vars => MonthsApart'
  <2> SUFFICES ASSUME Inv, MonthsApart, [Next]_vars PROVE MonthsApart'
    OBVIOUS
  <2> USE DEF Inv
  <2>1. CASE row' = row
    BY <2>1 DEF MonthsApart
  <2>2. ASSUME NEW o \in Orders, VerifyWrites(o)
        PROVE  MonthsApart'
    <3>1. verify[o].start \in Nat /\ Writes(o, verify[o].start)
      BY <2>2 DEF VerifyWrites, TypeOK, Fulfil
    <3>2. Targeted(o, verify[o].start)
      BY <2>2 DEF VerifyWrites, OneWriter
    <3> QED
      BY <3>1, <3>2, WritesApart
  <2>3. ASSUME NEW e \in Event, HookWrites(e)
        PROVE  MonthsApart'
    <3>1. /\ e.order \in Orders
          /\ hook[e].start \in Nat /\ Writes(e.order, hook[e].start)
      BY <2>3, EventType DEF HookWrites, TypeOK, Fulfil
    <3>2. Targeted(e.order, hook[e].start)
      BY <2>3 DEF HookWrites, OneWriter
    <3> QED
      BY <3>1, <3>2, WritesApart
  <2>4. CASE CheckReusable
    <3>1. CASE buy.order \in Orders /\ Retire(buy.order)
      BY <3>1, RetireType DEF MonthsApart
    <3> QED
      BY <2>1, <2>4, <3>1 DEF CheckReusable, Backed
  <2>5. ASSUME NEW o \in Orders, CreateOrder(o)
        PROVE  MonthsApart'
    <3>1. row' = [row EXCEPT ![o] = [NoRow EXCEPT !.st = "created", !.at = now]]
      BY <2>5 DEF CreateOrder
    <3>2. row'[o].st # "paid" /\ \A p \in Orders \ {o} : row'[p] = row[p]
      BY <3>1 DEF TypeOK, NoRow
    <3> QED
      BY <3>2 DEF MonthsApart
  <2>6. CASE Purchase
    BY <2>1, <2>4, <2>5, <2>6 DEF Purchase, BuyRequest, BuyFails
  <2>7. ASSUME NEW o \in Orders, Browser(o) \/ Verify(o)
        PROVE  MonthsApart'
    <3>1. row' = row \/ VerifyWrites(o)
      BY <2>7 DEF Browser, AttemptFails, Dismiss, Pay,
                  Verify, VerifyRecord, VerifyReads, VerifyFindsNone, VerifyFails
    <3> QED
      BY <2>1, <2>2, <3>1
  <2>8. ASSUME NEW e \in Event, Hook(e)
        PROVE  MonthsApart'
    <3>1. row' = row \/ HookWrites(e)
      BY <2>8 DEF Hook, HookReceive, HookBlind, HookRecord, HookReads, HookFindsNone, HookFails
    <3> QED
      BY <2>1, <2>3, <3>1
  <2>9. CASE Crash \/ Tick \/ UNCHANGED vars
    BY <2>1, <2>9 DEF Crash, Tick, vars
  <2> QED
    BY <2>6, <2>7, <2>8, <2>9 DEF Next
<1>2. Init => MonthsApart
  BY InitInv
<1> QED
  BY <1>1, <1>2, InvHolds, PTL DEF Spec

-----------------------------------------------------------------------------
(* The ledger.                                                               *)

\* e is where the learner's access ends.
Latest(e) ==
  /\ e \in {0} \cup {row[o].until : o \in Orders}
  /\ \A o \in Orders : row[o].until <= e

\* What the writers carry is still the ledger's next month when they write.
LedgerInv ==
  /\ \E e \in Nat : Latest(e)
  /\ \A o \in Orders : verify[o].pc = "writing" => MonthFrom(o, verify[o].start)
  /\ \A e \in Event : hook[e].pc = "writing" => MonthFrom(e.order, hook[e].start)

Bought == {o \in Orders : payment[o] = "captured"}
Granted == {o \in Orders : row[o].st = "paid"}

\* No row changes but for its retirement or its insertion.
SameGrants ==
  \A o \in Orders : /\ row'[o].until = row[o].until
                    /\ row'[o].st = "paid" <=> row[o].st = "paid"

\* A step that grants nothing and in which no request starts to grant.
Quiet ==
  /\ now' = now
  /\ NoNewWriter
  /\ SameGrants
  /\ \/ Bought' = Bought
     \/ \E o \in Orders \ Bought : Bought' = Bought \cup {o}

\* A latest end is the end the ledger names.
LEMMA LatestIs ==
  ASSUME NEW r, \A o \in Orders : r[o].until \in Nat, NEW e \in Nat,
         e \in {0} \cup {r[o].until : o \in Orders},
         \A o \in Orders : r[o].until <= e
  PROVE  e = CHOOSE x \in {0} \cup {r[o].until : o \in Orders} :
               \A o \in Orders : r[o].until <= x
<1> DEFINE S == {0} \cup {r[o].until : o \in Orders}
           P(x) == \A o \in Orders : r[o].until <= x
           c == CHOOSE x \in S : P(x)
<1>1. e \in S /\ P(e) /\ S \subseteq Nat
  OBVIOUS
<1>2. \A x \in S, y \in S : P(x) /\ P(y) => x = y
  <2> SUFFICES ASSUME NEW x \in S, NEW y \in S, P(x), P(y) PROVE x <= y /\ y <= x
    BY <1>1
  <2>1. x >= 0 /\ y >= 0
    BY <1>1
  <2> QED
    BY <2>1
<1> HIDE DEF S, P
<1>3. c \in S /\ P(c)
  BY <1>1
<1> HIDE DEF c
<1>4. e = c
  BY <1>1, <1>2, <1>3
<1> QED
  BY <1>4 DEF c, S, P

LEMMA EndIs ==
  ASSUME TypeOK, NEW e \in Nat, Latest(e)
  PROVE  End = e
<1>1. \A o \in Orders : row[o].until \in Nat
  BY DEF TypeOK, Row
<1> QED
  BY <1>1, LatestIs DEF End, Latest

LEMMA EndIsNext ==
  ASSUME TypeOK', NEW e \in Nat, Latest(e)'
  PROVE  End' = e
<1>1. \A o \in Orders : row'[o].until \in Nat
  BY DEF TypeOK, Row
<1> QED
  BY <1>1, LatestIs DEF End, Latest

LEMMA EndStays ==
  ASSUME Inv, LedgerInv, Inv', SameGrants
  PROVE  /\ End' = End
         /\ \E e \in Nat : Latest(e)'
         /\ Granted' = Granted
<1>1. PICK e \in Nat : Latest(e)
  BY DEF LedgerInv
<1>2. Latest(e)'
  BY <1>1 DEF Latest, SameGrants
<1>3. End = e /\ End' = e
  BY <1>1, <1>2, EndIs, EndIsNext DEF Inv
<1> QED
  BY <1>2, <1>3 DEF Granted, SameGrants

-----------------------------------------------------------------------------
(* Every step is quiet, the clock's, or a granting statement's.               *)

LEMMA Captures ==
  ASSUME TypeOK, NEW o \in Orders, Captured(o), payment[o] # "captured"
  PROVE  \E p \in Orders \ Bought : Bought' = Bought \cup {p}
<1>1. Bought' = Bought \cup {o} /\ o \notin Bought
  BY CapturedType DEF Bought
<1> QED
  BY <1>1

LEMMA PurchaseQuiet ==
  ASSUME Inv, Purchase
  PROVE  Quiet
<1> USE DEF Inv
<1>1. UNCHANGED <<now, payment, verify, hook>>
  BY DEF Purchase, BuyRequest, CheckReusable, CreateOrder, BuyFails, razorpay, webhook
<1>2. NoNewWriter /\ Bought' = Bought
  BY <1>1 DEF NoNewWriter, Bought
<1>3. SameGrants
  <2>1. CASE UNCHANGED row
    BY <2>1 DEF SameGrants
  <2>2. CASE buy.pc = "check" /\ Retire(buy.order)
    <3>1. buy.order \in Orders
      BY <2>2 DEF Backed
    <3> QED
      BY <2>2, <3>1, RetireType DEF SameGrants
  <2>3. ASSUME NEW o \in Orders, CreateOrder(o)
        PROVE  SameGrants
    <3>1. /\ row' = [row EXCEPT ![o] = [NoRow EXCEPT !.st = "created", !.at = now]]
          /\ order[o] = "none"
      BY <2>3 DEF CreateOrder
    <3>2. /\ row'[o].st = "created" /\ row'[o].until = 0
          /\ \A p \in Orders \ {o} : row'[p] = row[p]
      BY <3>1 DEF TypeOK, NoRow
    <3>3. row[o].st # "paid" /\ row[o].until = 0
      BY <3>1 DEF Backed
    <3> QED
      BY <3>2, <3>3 DEF SameGrants
  <2> QED
    BY <2>1, <2>2, <2>3 DEF Purchase, BuyRequest, CheckReusable, BuyFails
<1> QED
  BY <1>1, <1>2, <1>3 DEF Quiet

LEMMA BrowserQuiet ==
  ASSUME Inv, NEW o \in Orders, Browser(o)
  PROVE  Quiet
<1> USE DEF Inv
<1>1. UNCHANGED <<now, row, hook>>
  BY DEF Browser, AttemptFails, Dismiss, Pay, webhook
<1>2. \A p \in Orders : verify'[p].pc = "writing" => verify'[p] = verify[p]
  BY Stages DEF Browser, AttemptFails, Dismiss, Pay, TypeOK
<1>3. CASE Pay(o)
  <2>1. payment[o] = "none"
    BY <1>3 DEF Pay, Backed
  <2>2. CASE Captured(o)
    BY <1>1, <1>2, <2>1, <2>2, Captures DEF Quiet, NoNewWriter, SameGrants
  <2>3. CASE payment' = [payment EXCEPT ![o] = "authorized"]
    <3>1. Bought' = Bought
      BY <2>1, <2>3 DEF Bought, TypeOK
    <3> QED
      BY <1>1, <1>2, <3>1 DEF Quiet, NoNewWriter, SameGrants
  <2> QED
    BY <1>3, <2>2, <2>3 DEF Pay
<1>4. CASE AttemptFails(o) \/ Dismiss(o)
  <2>1. Bought' = Bought
    BY <1>4 DEF AttemptFails, Dismiss, Bought, razorpay
  <2> QED
    BY <1>1, <1>2, <2>1 DEF Quiet, NoNewWriter, SameGrants
<1> QED
  BY <1>3, <1>4 DEF Browser

LEMMA VerifyQuiet ==
  ASSUME Inv, NEW o \in Orders, Verify(o)
  PROVE  Quiet \/ VerifyReads(o) \/ VerifyWrites(o)
<1> USE DEF Inv
<1>1. CASE VerifyRecord(o) \/ VerifyFindsNone(o) \/ VerifyFails(o)
  <2>1. UNCHANGED <<now, row, hook>>
    BY <1>1 DEF VerifyRecord, VerifyFindsNone, VerifyFails, webhook
  <2>2. NoNewWriter /\ SameGrants
    BY <1>1, <2>1, Stages DEF VerifyRecord, VerifyFindsNone, VerifyFails, TypeOK,
                              NoNewWriter, SameGrants
  <2>3. \/ UNCHANGED payment
        \/ payment[o] = "authorized" /\ Captured(o)
    BY <1>1 DEF VerifyRecord, VerifyFindsNone, VerifyFails, razorpay
  <2>4. \/ Bought' = Bought
        \/ \E p \in Orders \ Bought : Bought' = Bought \cup {p}
    BY <2>3, Captures DEF Bought
  <2> QED
    BY <2>1, <2>2, <2>4 DEF Quiet
<1> QED
  BY <1>1 DEF Verify

LEMMA HookQuiet ==
  ASSUME Inv, NEW e \in Event, Hook(e)
  PROVE  Quiet \/ HookReads(e) \/ HookWrites(e)
<1> USE DEF Inv
<1>1. CASE HookReceive(e) \/ HookBlind(e) \/ HookRecord(e) \/ HookFindsNone(e) \/ HookFails(e)
  <2>1. UNCHANGED <<now, row, payment, verify>>
    BY <1>1 DEF HookReceive, HookBlind, HookRecord, HookFindsNone, HookFails, razorpay
  <2>2. \/ hook' = hook
        \/ \E f \in Fulfil : f.pc # "writing" /\ hook' = [hook EXCEPT ![e] = f]
    BY <1>1, Stages DEF HookReceive, HookBlind, HookRecord, HookFindsNone, HookFails
  <2>3. NoNewWriter
    BY <2>1, <2>2 DEF TypeOK, NoNewWriter
  <2>4. SameGrants /\ Bought' = Bought
    BY <2>1 DEF SameGrants, Bought
  <2> QED
    BY <2>1, <2>3, <2>4 DEF Quiet
<1> QED
  BY <1>1 DEF Hook

LEMMA StepKinds ==
  ASSUME Inv, [Next]_vars
  PROVE  \/ Quiet
         \/ Tick
         \/ \E o \in Orders : VerifyReads(o) \/ VerifyWrites(o)
         \/ \E e \in Event : HookReads(e) \/ HookWrites(e)
<1>1. CASE Crash
  <2>1. UNCHANGED <<now, row, payment>>
    BY <1>1 DEF Crash, razorpay
  <2>2. NoNewWriter
    BY <1>1, Stages DEF Crash, NoNewWriter
  <2> QED
    BY <2>1, <2>2 DEF Quiet, SameGrants, Bought
<1>2. CASE UNCHANGED vars
  BY <1>2 DEF vars, razorpay, webhook, Quiet, NoNewWriter, SameGrants, Bought
<1> QED
  BY <1>1, <1>2, PurchaseQuiet, BrowserQuiet, VerifyQuiet, HookQuiet DEF Next

-----------------------------------------------------------------------------
(* Each kind of step in the ledger.                                           *)

\* The month one writer, alone, grants: the ledger's next one.
Grants(o, start) ==
  /\ o \in Orders
  /\ start \in Nat
  /\ Writes(o, start)
  /\ MonthFrom(o, start)
  /\ Targeted(o, start)
  /\ payment[o] = "captured"
  /\ UNCHANGED <<now, payment>>

LEMMA GrantStep ==
  ASSUME Inv, LedgerInv, Inv', NEW o, NEW start, Grants(o, start)
  PROVE  /\ Ledger!Grant(o)
         /\ \E e \in Nat : Latest(e)'
<1>1. /\ o \in Orders /\ start \in Nat
      /\ row[o].st = "created" /\ row[o].until = 0
  BY DEF Grants, Targeted, Inv, Backed
<1>2. /\ \A p \in Orders \ {o} : row'[p] = row[p]
      /\ row'[o].st = "paid" /\ row'[o].until = start + Month
  BY <1>1, WritesType DEF Grants, Inv
<1>3. /\ \A p \in Orders : row[p].until \in Nat
      /\ now \in Nat /\ Month \in Nat
  BY PassAssumption DEF Inv, TypeOK, Row
<1>4. /\ start \in {now} \cup {row[p].until : p \in Orders \ {o}}
      /\ start >= now
      /\ \A p \in Orders \ {o} : start >= row[p].until
  BY DEF Grants, MonthFrom
<1>5. PICK e \in Nat : Latest(e)
  BY DEF LedgerInv
<1>6. End = e
  BY <1>5, EndIs DEF Inv
<1>7. start = IF e > now THEN e ELSE now
  <2>1. e <= start
    BY <1>1, <1>4, <1>5 DEF Latest
  <2>2. start = now \/ start <= e
    BY <1>4, <1>5 DEF Latest
  <2> QED
    BY <1>1, <1>3, <1>4, <2>1, <2>2
<1>8. start + Month \in Nat /\ Latest(start + Month)'
  BY <1>1, <1>2, <1>3, <1>4 DEF Latest
<1>9. End' = start + Month
  BY <1>8, EndIsNext DEF Inv
<1>10. Granted' = Granted \cup {o} /\ o \in Bought \ Granted
  BY <1>1, <1>2 DEF Granted, Bought, Grants
<1>11. Bought' = Bought /\ now' = now
  BY DEF Bought, Grants
<1> QED
  BY <1>6, <1>7, <1>8, <1>9, <1>10, <1>11 DEF Ledger!Grant, Bought, Granted

LEMMA VerifyGrants ==
  ASSUME Inv, LedgerInv, "overlap" \notin Env, NEW o \in Orders, VerifyWrites(o)
  PROVE  Grants(o, verify[o].start)
BY DEF Inv, TypeOK, Fulfil, Backed, OneWriter, LedgerInv, VerifyWrites, Grants, razorpay

LEMMA HookGrants ==
  ASSUME Inv, LedgerInv, "overlap" \notin Env, NEW e \in Event, HookWrites(e)
  PROVE  Grants(e.order, hook[e].start)
BY EventType DEF Inv, TypeOK, Fulfil, Backed, OneWriter, LedgerInv, HookWrites, Grants, razorpay

\* Once the lone writer is done nobody writes.
LEMMA NobodyLeft ==
  ASSUME Inv, "overlap" \notin Env,
         \/ \E o \in Orders : VerifyWrites(o)
         \/ \E e \in Event : HookWrites(e)
  PROVE  /\ \A o \in Orders : verify'[o].pc # "writing"
         /\ \A e \in Event : hook'[e].pc # "writing"
<1>1. CASE \E o \in Orders : VerifyWrites(o)
  BY <1>1, Stages DEF VerifyWrites, Inv, TypeOK, OneWriter, webhook
<1>2. CASE \E e \in Event : HookWrites(e)
  BY <1>2, Stages DEF HookWrites, Inv, TypeOK, OneWriter
<1> QED
  BY <1>1, <1>2

LEMMA QuietMonths ==
  ASSUME SameGrants, now' = now
  PROVE  \A o \in Orders : \A start : MonthFrom(o, start) => MonthFrom(o, start)'
BY DEF SameGrants, MonthFrom

\* A request reads where its month starts.
LEMMA ReadStep ==
  ASSUME Inv, LedgerInv, Inv',
         \/ \E o \in Orders : VerifyReads(o)
         \/ \E e \in Event : HookReads(e)
  PROVE  LedgerInv' /\ UNCHANGED <<now, End, Bought, Granted>>
<1>1. UNCHANGED <<now, row, payment>>
  BY DEF VerifyReads, HookReads, razorpay
<1>2. SameGrants /\ Bought' = Bought
  BY <1>1 DEF SameGrants, Bought
<1>3. CASE \E o \in Orders : VerifyReads(o)
  <2>0. PICK o \in Orders : VerifyReads(o)
    BY <1>3
  <2>1. PICK t \in Target(o) :
          /\ verify' = [verify EXCEPT ![o] = [pc |-> "writing", start |-> t]]
          /\ UNCHANGED hook
    BY <2>0 DEF VerifyReads, webhook
  <2>2. MonthFrom(o, t) /\ verify'[o].start = t
    BY <2>1 DEF Target, Inv, TypeOK
  <2>3. \A p \in Orders \ {o} : verify'[p] = verify[p]
    BY <2>1 DEF Inv, TypeOK
  <2> QED
    BY <1>1, <1>2, <2>1, <2>2, <2>3, QuietMonths, EndStays, EventType DEF LedgerInv
<1>4. CASE \E e \in Event : HookReads(e)
  <2>0. PICK e \in Event : HookReads(e)
    BY <1>4
  <2>1. PICK t \in Target(e.order) :
          /\ hook' = [hook EXCEPT ![e] = [pc |-> "writing", start |-> t]]
          /\ UNCHANGED verify
    BY <2>0 DEF HookReads
  <2>2. MonthFrom(e.order, t) /\ hook'[e].start = t
    BY <2>1 DEF Target, Inv, TypeOK
  <2>3. \A f \in Event \ {e} : hook'[f] = hook[f]
    BY <2>1 DEF Inv, TypeOK
  <2> QED
    BY <1>1, <1>2, <2>1, <2>2, <2>3, QuietMonths, EndStays, EventType DEF LedgerInv
<1> QED
  BY <1>3, <1>4

LEMMA LedgerStep ==
  ASSUME "overlap" \notin Env, Inv, LedgerInv, Inv', [Next]_vars
  PROVE  LedgerInv' /\ [Ledger!Next]_Ledger!vars
<1>1. CASE Quiet
  <2>1. /\ now' = now /\ End' = End /\ Granted' = Granted
        /\ \E e \in Nat : Latest(e)'
    BY <1>1, EndStays DEF Quiet
  <2>2. LedgerInv'
    BY <1>1, <2>1, QuietMonths, EventType DEF Quiet, NoNewWriter, LedgerInv
  <2>3. CASE Bought' = Bought
    BY <2>1, <2>2, <2>3 DEF Ledger!vars, Bought, Granted
  <2>4. ASSUME NEW o \in Orders \ Bought, Bought' = Bought \cup {o}
        PROVE  Ledger!Next
    BY <2>1, <2>4 DEF Ledger!Next, Ledger!Buy, Bought, Granted
  <2> QED
    BY <1>1, <2>2, <2>3, <2>4 DEF Quiet
<1>2. CASE Tick
  <2>1. /\ now' = now + 1 /\ UNCHANGED <<row, payment, verify, hook>>
        /\ \A o \in Orders : verify[o].pc # "writing"
        /\ \A e \in Event : hook[e].pc # "writing"
    BY <1>2 DEF Tick, razorpay, webhook
  <2>2. SameGrants /\ Bought' = Bought
    BY <2>1 DEF SameGrants, Bought
  <2>3. End' = End /\ Granted' = Granted /\ \E e \in Nat : Latest(e)'
    BY <2>2, EndStays
  <2>4. LedgerInv'
    BY <2>1, <2>3 DEF LedgerInv
  <2>5. Ledger!Tick
    BY <2>1, <2>2, <2>3 DEF Ledger!Tick, Bought, Granted
  <2> QED
    BY <2>4, <2>5 DEF Ledger!Next
<1>3. CASE \/ \E o \in Orders : VerifyReads(o)
           \/ \E e \in Event : HookReads(e)
  BY <1>3, ReadStep DEF Ledger!vars, Bought, Granted
<1>4. CASE \/ \E o \in Orders : VerifyWrites(o)
           \/ \E e \in Event : HookWrites(e)
  <2>1. \E o \in Orders, start \in Nat : Grants(o, start)
    BY <1>4, VerifyGrants, HookGrants DEF Grants
  <2>2. (\E o \in Orders : Ledger!Grant(o)) /\ \E e \in Nat : Latest(e)'
    BY <2>1, GrantStep
  <2>3. LedgerInv'
    BY <1>4, <2>2, NobodyLeft DEF LedgerInv
  <2> QED
    BY <2>2, <2>3 DEF Ledger!Next
<1> QED
  BY <1>1, <1>2, <1>3, <1>4, StepKinds

LEMMA LedgerInit ==
  ASSUME Init
  PROVE  LedgerInv /\ Ledger!Init
<1>1. TypeOK
  BY InitInv DEF Inv
<1>2. \A o \in Orders : row[o].st = "none" /\ row[o].until = 0
  BY DEF Init, NoRow
<1>3. Latest(0)
  BY <1>2 DEF Latest
<1>4. End = 0
  BY <1>1, <1>3, EndIs
<1>5. LedgerInv
  BY <1>3, Stages DEF Init, LedgerInv
<1>6. Ledger!Init
  BY <1>2, <1>4 DEF Init, Ledger!Init
<1> QED
  BY <1>5, <1>6

\* Passes are sold as the ledger says: each paid order buys one month, once,
\* whichever of the verification and the webhook's deliveries comes first, and
\* the month starts where the learner's access ends, or now (store.ts:141-145,
\* billing.ts:240-248), as long as granting statements do not run at the same
\* moment.
THEOREM KeepsLedgerHolds ==
  ASSUME "overlap" \notin Env
  PROVE  Spec => KeepsLedger
<1>1. Init => LedgerInv /\ Ledger!Init
  BY LedgerInit
<1>2. LedgerInv /\ Inv /\ Inv' /\ [Next]_vars => LedgerInv' /\ [Ledger!Next]_Ledger!vars
  BY LedgerStep
<1>3. Spec => Ledger!Spec
  BY <1>1, <1>2, InvHolds, PTL DEF Spec, Ledger!Spec
<1> QED
  BY <1>3 DEF KeepsLedger
=============================================================================
