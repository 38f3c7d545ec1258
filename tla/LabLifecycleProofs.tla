-------------------------- MODULE LabLifecycleProofs --------------------------
(* Proofs about LabLifecycle, for any labs, sessions, handlers and hazards.   *)
EXTENDS LabLifecycle, FiniteSetTheorems, TLAPS

\* What the handlers and the promise chain share: the part of Inv about memory.
Handlers ==
  /\ sess \in [Sids -> Status]
  /\ store \subseteq Sids
  /\ req \in [Requests -> Request]
  /\ Named(req)
Memory == Handlers /\ queue \in Seq(Task) /\ Served(queue, req)

\* The chain q serves every handler but r.
ServesOthers(q, r) == q \in Seq(Task) /\ Served(q, [req EXCEPT ![r] = Idle])

-----------------------------------------------------------------------------
(* The promise chain.                                                        *)

\* A handler that takes a turn at the end of the chain is served.
LEMMA AppendTurn ==
  ASSUME NEW q \in Seq(Task), NEW t \in Task, NEW rq, NEW rq2,
         t.by \in Requests, t.kind # "park",
         rq[t.by].pc \notin {"slot", "queued"},
         rq2[t.by].pc = IF t.kind = "slot" THEN "slot" ELSE "queued",
         \A x \in Requests \ {t.by} : rq2[x].pc = rq[x].pc,
         Served(q, rq)
  PROVE  Served(Append(q, t), rq2)
<1> DEFINE p == Append(q, t)
<1>1. /\ Len(p) = Len(q) + 1 /\ Len(q) \in Nat
      /\ \A i \in 1..Len(q) : p[i] = q[i]
      /\ p[Len(q) + 1] = t
      /\ DOMAIN p = 1..(Len(q) + 1) /\ DOMAIN q = 1..Len(q)
  OBVIOUS
<1>2. t.by # None
  BY ConstantsAssumption
<1>3. \A i \in 1..Len(q) : q[i].by # t.by
  BY <1>1, <1>2 DEF Served
<1> HIDE DEF p
<1>4. \A i \in DOMAIN p :
        \/ p[i].kind = "park" /\ p[i].by = None
        \/ /\ p[i].kind # "park" /\ p[i].by \in Requests
           /\ rq2[p[i].by].pc = IF p[i].kind = "slot" THEN "slot" ELSE "queued"
  <2> TAKE i \in DOMAIN p
  <2>1. CASE i = Len(q) + 1
    BY <2>1, <1>1
  <2>2. CASE i \in 1..Len(q)
    BY <2>2, <1>1, <1>3 DEF Served
  <2> QED
    BY <2>1, <2>2, <1>1
<1>5. \A i, j \in DOMAIN p : p[i].by = p[j].by /\ p[i].by # None => i = j
  BY <1>1, <1>3 DEF Served
<1>6. \A r \in Requests : rq2[r].pc \in {"slot", "queued"} => \E i \in DOMAIN p : p[i].by = r
  <2> SUFFICES ASSUME NEW r \in Requests, rq2[r].pc \in {"slot", "queued"}
               PROVE  \E i \in DOMAIN p : p[i].by = r
    OBVIOUS
  <2>1. CASE r = t.by
    BY <2>1, <1>1
  <2>2. CASE r # t.by
    BY <2>2, <1>1 DEF Served
  <2> QED
    BY <2>1, <2>2
<1> QED
  BY <1>4, <1>5, <1>6 DEF Served, p

\* A park at the end of the chain serves nobody.
LEMMA AppendPark ==
  ASSUME NEW q \in Seq(Task), NEW l \in Labs, NEW rq, Served(q, rq)
  PROVE  Append(q, Park(l)) \in Seq(Task) /\ Served(Append(q, Park(l)), rq)
<1> DEFINE t == Park(l)
           p == Append(q, t)
<1>1. t \in Task /\ t.kind = "park" /\ t.by = None
  BY DEF Park, Task, Kinds
<1> HIDE DEF t
<1>2. /\ Len(p) = Len(q) + 1 /\ Len(q) \in Nat
      /\ \A i \in 1..Len(q) : p[i] = q[i]
      /\ p[Len(q) + 1] = t
      /\ DOMAIN p = 1..(Len(q) + 1) /\ DOMAIN q = 1..Len(q)
      /\ p \in Seq(Task)
  BY <1>1
<1> HIDE DEF p
<1>3. \A r \in Requests : r # None
  BY ConstantsAssumption
<1>4. Served(p, rq)
  <2>1. \A i \in DOMAIN p :
          \/ p[i].kind = "park" /\ p[i].by = None
          \/ /\ p[i].kind # "park" /\ p[i].by \in Requests
             /\ rq[p[i].by].pc = IF p[i].kind = "slot" THEN "slot" ELSE "queued"
    <3> TAKE i \in DOMAIN p
    <3>1. CASE i = Len(q) + 1
      BY <3>1, <1>1, <1>2
    <3>2. CASE i \in 1..Len(q)
      BY <3>2, <1>2 DEF Served
    <3> QED
      BY <3>1, <3>2, <1>2
  <2>2. \A i, j \in DOMAIN p : p[i].by = p[j].by /\ p[i].by # None => i = j
    BY <1>1, <1>2 DEF Served
  <2>3. \A r \in Requests : rq[r].pc \in {"slot", "queued"} => \E i \in DOMAIN p : p[i].by = r
    BY <1>2 DEF Served
  <2> QED
    BY <2>1, <2>2, <2>3 DEF Served
<1> QED
  BY <1>2, <1>4 DEF p, t

\* Once the head of the chain is done, its caller waits no longer.
LEMMA TailServed ==
  ASSUME NEW q \in Seq(Task), q # <<>>, NEW rq, NEW rq2,
         \A x \in Requests : x # Head(q).by => rq2[x].pc = rq[x].pc,
         Head(q).by \in Requests => rq2[Head(q).by].pc \notin {"slot", "queued"},
         Served(q, rq)
  PROVE  Tail(q) \in Seq(Task) /\ Served(Tail(q), rq2)
<1> DEFINE p == Tail(q)
<1>1. /\ Len(q) \in Nat \ {0} /\ Len(p) = Len(q) - 1
      /\ DOMAIN q = 1..Len(q) /\ DOMAIN p = 1..(Len(q) - 1)
      /\ \A i \in DOMAIN p : p[i] = q[i + 1] /\ i + 1 \in DOMAIN q
      /\ p \in Seq(Task)
      /\ Head(q) = q[1] /\ 1 \in DOMAIN q
  OBVIOUS
<1> HIDE DEF p
<1>2. \A i \in DOMAIN p : p[i].by = Head(q).by => p[i].by = None
  BY <1>1 DEF Served
<1>3. \A i \in DOMAIN p :
        \/ p[i].kind = "park" /\ p[i].by = None
        \/ /\ p[i].kind # "park" /\ p[i].by \in Requests
           /\ rq2[p[i].by].pc = IF p[i].kind = "slot" THEN "slot" ELSE "queued"
  BY <1>1, <1>2, ConstantsAssumption DEF Served
<1>4. \A i, j \in DOMAIN p : p[i].by = p[j].by /\ p[i].by # None => i = j
  BY <1>1 DEF Served
<1>5. \A r \in Requests : rq2[r].pc \in {"slot", "queued"} => \E i \in DOMAIN p : p[i].by = r
  <2> SUFFICES ASSUME NEW r \in Requests, rq2[r].pc \in {"slot", "queued"}
               PROVE  \E i \in DOMAIN p : p[i].by = r
    OBVIOUS
  <2>1. r # Head(q).by /\ rq[r].pc \in {"slot", "queued"}
    OBVIOUS
  <2>2. PICK i \in DOMAIN q : q[i].by = r
    BY <2>1 DEF Served
  <2>3. i - 1 \in DOMAIN p /\ p[i - 1] = q[i]
    BY <2>1, <2>2, <1>1
  <2> QED
    BY <2>2, <2>3
<1> QED
  BY <1>1, <1>3, <1>4, <1>5 DEF Served, p

\* Handlers that do not wait may move on without the chain noticing.
LEMMA SameServed ==
  ASSUME NEW q, NEW rq, NEW rq2, Served(q, rq),
         \A x \in Requests : \/ rq2[x].pc = rq[x].pc
                             \/ {rq2[x].pc, rq[x].pc} \cap {"slot", "queued"} = {}
  PROVE  Served(q, rq2)
<1>1. \A x \in Requests : rq2[x].pc \in {"slot", "queued"} => rq[x].pc \in {"slot", "queued"}
  OBVIOUS
<1>2. \A x \in Requests : rq[x].pc \in {"slot", "queued"} => rq2[x].pc = rq[x].pc
  OBVIOUS
<1> QED
  BY <1>1, <1>2 DEF Served

-----------------------------------------------------------------------------
(* The operators handlers are built from.                                    *)

LEMMA IdleType == Idle \in Request
BY DEF Idle, Request, Status

\* Giving a session another object changes no handler's place.
LEMMA DetachKeeps ==
  ASSUME Handlers, NEW r \in Requests, NEW s \in Sids
  PROVE  /\ Detach(s, r) \in [Requests -> Request]
         /\ \A x \in Requests : /\ Detach(s, r)[x].pc = req[x].pc
                                /\ Detach(s, r)[x].sid = req[x].sid
                                /\ Detach(s, r)[x].lab = req[x].lab
<1>1. sess[s] \in Status
  BY DEF Handlers
<1>2. \A x \in Requests : /\ [req[x] EXCEPT !.own = sess[s]] \in Request
                          /\ [req[x] EXCEPT !.own = sess[s]].pc = req[x].pc
                          /\ [req[x] EXCEPT !.own = sess[s]].sid = req[x].sid
                          /\ [req[x] EXCEPT !.own = sess[s]].lab = req[x].lab
  BY <1>1 DEF Handlers, Request
<1> QED
  BY <1>2 DEF Detach, Handlers

\* A handler r that takes a turn for session s, the others staying where they are.
LEMMA TakeTurn ==
  ASSUME NEW r \in Requests, NEW s \in Sids, NEW q, NEW base, NEW rec, NEW t,
         req \in [Requests -> Request], Named(req), ServesOthers(q, r),
         base \in [Requests -> Request],
         \A x \in Requests : /\ base[x].pc = req[x].pc
                             /\ base[x].sid = req[x].sid
                             /\ base[x].lab = req[x].lab,
         rec \in Request, rec.sid = s, rec.pc \in {"slot", "queued"},
         t \in Task, t.by = r, t.kind # "park",
         rec.pc = IF t.kind = "slot" THEN "slot" ELSE "queued"
  PROVE  LET rq2 == [base EXCEPT ![r] = rec] IN
         /\ rq2 \in [Requests -> Request]
         /\ Append(q, t) \in Seq(Task)
         /\ Named(rq2)
         /\ Served(Append(q, t), rq2)
<1> DEFINE rq2 == [base EXCEPT ![r] = rec]
           rq == [req EXCEPT ![r] = Idle]
<1>1. rq2 \in [Requests -> Request]
  OBVIOUS
<1>2. Append(q, t) \in Seq(Task)
  BY DEF ServesOthers
<1>3. Named(rq2)
  BY DEF Named
<1>4. Served(Append(q, t), rq2)
  <2>1. rq2[t.by].pc = IF t.kind = "slot" THEN "slot" ELSE "queued"
    OBVIOUS
  <2>2. rq[t.by].pc \notin {"slot", "queued"}
    BY <1>1 DEF Idle
  <2>3. \A x \in Requests \ {t.by} : rq2[x].pc = rq[x].pc
    OBVIOUS
  <2>4. q \in Seq(Task) /\ Served(q, rq)
    BY DEF ServesOthers
  <2> HIDE DEF rq2, rq
  <2> QED
    BY <2>1, <2>2, <2>3, <2>4, AppendTurn
<1> QED
  BY <1>1, <1>2, <1>3, <1>4

LEMMA WaitsType ==
  ASSUME NEW r \in Requests, NEW kind \in Kinds, NEW l \in Labs
  PROVE  Waits(r, kind, l) \in Task
BY DEF Waits, Task

\* A handler may take a turn as soon as the chain serves the others.
LEMMA ReactivateKeeps ==
  ASSUME Handlers, NEW r \in Requests, NEW s \in Sids, NEW fresh \in BOOLEAN, NEW q,
         ServesOthers(q, r), Reactivate(r, s, fresh, q)
  PROVE  Memory'
<1> DEFINE base == IF fresh THEN Detach(s, r) ELSE req
           rec == [Idle EXCEPT !.pc = "queued", !.op = "start", !.lab = LabOf[s], !.sid = s]
           t == Waits(r, "open", LabOf[s])
<1>1. LabOf[s] \in Labs
  BY ConstantsAssumption
<1>2. rec \in Request /\ rec.sid = s /\ rec.pc = "queued"
  BY <1>1 DEF Idle, Request, Status
<1>3. t \in Task /\ t.by = r /\ t.kind = "open"
  BY <1>1, WaitsType DEF Waits, Kinds
<1>4. /\ base \in [Requests -> Request]
      /\ \A x \in Requests : /\ base[x].pc = req[x].pc
                             /\ base[x].sid = req[x].sid
                             /\ base[x].lab = req[x].lab
  BY DetachKeeps DEF Handlers
<1>5. req' = [base EXCEPT ![r] = rec] /\ queue' = Append(q, t)
  BY DEF Reactivate
<1>6. sess' \in [Sids -> Status] /\ store' \subseteq Sids
  BY DEF Reactivate, Handlers, Status
<1>7. req \in [Requests -> Request] /\ Named(req)
  BY DEF Handlers
<1> HIDE DEF base, rec, t
<1>8. /\ req' \in [Requests -> Request] /\ queue' \in Seq(Task)
      /\ Named(req') /\ Served(queue', req')
  BY <1>2, <1>3, <1>4, <1>5, <1>7, TakeTurn
<1> QED
  BY <1>6, <1>8 DEF Memory, Handlers, Named, Served

LEMMA ResumeKeeps ==
  ASSUME Handlers, NEW r \in Requests, NEW s \in Sids, NEW fresh \in BOOLEAN, NEW q,
         ServesOthers(q, r), Resume(r, s, fresh, q)
  PROVE  Memory'
<1> DEFINE base == IF fresh THEN Detach(s, r) ELSE req
           rec == [Idle EXCEPT !.pc = "slot", !.op = "start", !.lab = LabOf[s], !.sid = s]
           t == Waits(r, "slot", LabOf[s])
<1>1. LabOf[s] \in Labs
  BY ConstantsAssumption
<1>2. rec \in Request /\ rec.sid = s /\ rec.pc = "slot"
  BY <1>1 DEF Idle, Request, Status
<1>3. t \in Task /\ t.by = r /\ t.kind = "slot"
  BY <1>1, WaitsType DEF Waits, Kinds
<1>4. /\ base \in [Requests -> Request]
      /\ \A x \in Requests : /\ base[x].pc = req[x].pc
                             /\ base[x].sid = req[x].sid
                             /\ base[x].lab = req[x].lab
  BY DetachKeeps DEF Handlers
<1>5. req' = [base EXCEPT ![r] = rec] /\ queue' = Append(q, t)
  BY DEF Resume
<1>6. sess' \in [Sids -> Status] /\ store' \subseteq Sids
  BY DEF Resume, Handlers, Status
<1>7. req \in [Requests -> Request] /\ Named(req)
  BY DEF Handlers
<1> HIDE DEF base, rec, t
<1>8. /\ req' \in [Requests -> Request] /\ queue' \in Seq(Task)
      /\ Named(req') /\ Served(queue', req')
  BY <1>2, <1>3, <1>4, <1>5, <1>7, TakeTurn
<1> QED
  BY <1>6, <1>8 DEF Memory, Handlers, Named, Served

\* A handler that waits for nothing moves to rec; the chain is q.
LEMMA MoveOn ==
  ASSUME Handlers, NEW r \in Requests, NEW q, ServesOthers(q, r), NEW rec \in Request,
         rec.pc \notin {"slot", "queued"},
         rec.pc \notin {"idle", "lookup"} => rec.sid \in Sids,
         rec.pc = "create" => rec.lab \in Labs,
         sess' \in [Sids -> Status], store' \subseteq Sids,
         req' = [req EXCEPT ![r] = rec], queue' = q
  PROVE  Memory'
<1>1. req' \in [Requests -> Request] /\ Named(req')
  BY DEF Handlers, Named
<1>2. \A x \in Requests :
        \/ req'[x].pc = [req EXCEPT ![r] = Idle][x].pc
        \/ {req'[x].pc, [req EXCEPT ![r] = Idle][x].pc} \cap {"slot", "queued"} = {}
  BY DEF Handlers, Idle
<1>3. Served(q, req')
  BY <1>2, SameServed DEF ServesOthers
<1> QED
  BY <1>1, <1>3 DEF Memory, Handlers, Named, Served, ServesOthers

LEMMA OpenExistingKeeps ==
  ASSUME Handlers, NEW r \in Requests, NEW s \in Sids, NEW status, NEW fresh \in BOOLEAN, NEW q,
         ServesOthers(q, r), OpenExisting(r, s, status, fresh, q)
  PROVE  Memory'
BY ReactivateKeeps, ResumeKeeps DEF OpenExisting

LEMMA FindExistingKeeps ==
  ASSUME Handlers, NEW r \in Requests, NEW l \in Labs \cup {None}, NEW q,
         ServesOthers(q, r), FindExisting(r, l, q)
  PROVE  Memory'
<1>1. ASSUME NEW s \in store, OpenExisting(r, s, sess[s], FALSE, q)
      PROVE  Memory'
  BY <1>1, OpenExistingKeeps DEF Handlers
<1>2. ASSUME req' = [req EXCEPT ![r] = [Idle EXCEPT !.pc = "lookup", !.op = "start", !.lab = l]],
             queue' = q, sess' = sess, store' = store
      PROVE  Memory'
  <2> DEFINE rec == [Idle EXCEPT !.pc = "lookup", !.op = "start", !.lab = l]
  <2>1. rec \in Request /\ rec.pc = "lookup"
    BY DEF Idle, Request, Status
  <2> HIDE DEF rec
  <2>2. sess' \in [Sids -> Status] /\ store' \subseteq Sids
    BY <1>2 DEF Handlers
  <2>3. req' = [req EXCEPT ![r] = rec]
    BY <1>2 DEF rec
  <2> QED
    BY <1>2, <2>1, <2>2, <2>3, MoveOn
<1> QED
  BY <1>1, <1>2 DEF FindExisting

LEMMA ClaimSlotKeeps ==
  ASSUME Handlers, NEW r \in Requests, NEW l \in Labs \cup {None}, NEW others \in SUBSET Sids, NEW q,
         ServesOthers(q, r), ClaimSlot(r, l, others, q)
  PROVE  Memory'
<1>1. CASE FindExisting(r, l, q)
  BY <1>1, FindExistingKeeps
<1>2. ASSUME NEW s \in others,
             BeginEnd(r, s, [Idle EXCEPT !.op = "start", !.lab = l, !.todo = others \ {s}]),
             queue' = q
      PROVE  Memory'
  <2> DEFINE rec == [[Idle EXCEPT !.op = "start", !.lab = l, !.todo = others \ {s}]
                       EXCEPT !.pc = "endwrite", !.sid = s, !.write = "ended"]
  <2>1. rec \in Request /\ rec.pc = "endwrite" /\ rec.sid \in Sids
    BY DEF Idle, Request, Status
  <2>2. req' = [req EXCEPT ![r] = rec]
    BY <1>2 DEF BeginEnd
  <2> HIDE DEF rec
  <2>3. sess' \in [Sids -> Status] /\ store' \subseteq Sids
    BY <1>2 DEF Handlers, BeginEnd, Status
  <2> QED
    BY <1>2, <2>1, <2>2, <2>3, MoveOn
<1> QED
  BY <1>1, <1>2 DEF ClaimSlot

-----------------------------------------------------------------------------
(* Every step keeps Inv.                                                     *)

\* The part of Inv about the database, the cluster and the running task.
Rest ==
  /\ row \in [Sids -> {"none"} \cup Status]
  /\ step \in {"begin", "retry", "wipe", "reset", "verify", "fill"}
  /\ live \in Contents
  /\ snap \in [Labs -> Contents \cup {NoSnapshot}]
  /\ unparked \in Labs \cup {None}
  /\ progress \in [Labs -> Histories]

LEMMA InvParts == Inv <=> Memory /\ Rest
BY DEF Inv, TypeOK, Memory, Handlers, Rest

LEMMA ServedOthers ==
  ASSUME Memory, NEW r \in Requests, req[r].pc \notin {"slot", "queued"}
  PROVE  ServesOthers(queue, r)
<1>1. \A x \in Requests :
        \/ [req EXCEPT ![r] = Idle][x].pc = req[x].pc
        \/ {[req EXCEPT ![r] = Idle][x].pc, req[x].pc} \cap {"slot", "queued"} = {}
  BY DEF Memory, Handlers, Idle
<1> QED
  BY <1>1, SameServed DEF ServesOthers, Memory

\* The task at the head of the chain and the handler waiting for it.
LEMMA HeadTurn ==
  ASSUME Memory, queue # <<>>, Head(queue).kind # "park"
  PROVE  LET r == Head(queue).by IN
         /\ r \in Requests /\ ServesOthers(Tail(queue), r)
         /\ req[r].pc \in {"slot", "queued"} /\ req[r].sid \in Sids /\ req[r] \in Request
<1> DEFINE r == Head(queue).by
<1>1. 1 \in DOMAIN queue /\ Head(queue) = queue[1]
  BY DEF Memory
<1>2. r \in Requests /\ req[r].pc \in {"slot", "queued"}
  BY <1>1 DEF Memory, Served
<1>3. req[r].sid \in Sids /\ req[r] \in Request
  BY <1>2 DEF Memory, Handlers, Named
<1>4. Tail(queue) \in Seq(Task) /\ Served(Tail(queue), [req EXCEPT ![r] = Idle])
  <2>1. \A x \in Requests : x # r => [req EXCEPT ![r] = Idle][x].pc = req[x].pc
    BY DEF Memory, Handlers
  <2>2. [req EXCEPT ![r] = Idle][r].pc \notin {"slot", "queued"}
    BY <1>2 DEF Memory, Handlers, Idle
  <2> QED
    BY <2>1, <2>2, TailServed DEF Memory
<1> QED
  BY <1>2, <1>3, <1>4 DEF ServesOthers

LEMMA TaskDoneKeeps ==
  ASSUME Memory, queue # <<>>, Head(queue).kind # "park", TaskDone(Head(queue).by)
  PROVE  Memory'
<1> DEFINE r == Head(queue).by
<1>1. /\ r \in Requests /\ ServesOthers(Tail(queue), r)
      /\ req[r].sid \in Sids /\ req[r] \in Request
  BY HeadTurn
<1>2. Seen(r) \in Status
  BY <1>1 DEF Seen, Request, Memory, Handlers
<1>3. Handlers
  BY DEF Memory
<1>4. store' \subseteq Sids /\ queue' = Tail(queue)
  BY DEF TaskDone, NextTask, Memory, Handlers
<1>5. CASE /\ req' = [req EXCEPT ![r] = [@ EXCEPT !.pc = "persist", !.own = "shared",
                                                 !.write = Seen(r)]]
           /\ UNCHANGED sess
  <2> DEFINE rec == [req[r] EXCEPT !.pc = "persist", !.own = "shared", !.write = Seen(r)]
  <2>1. rec \in Request /\ rec.pc = "persist" /\ rec.sid \in Sids
    BY <1>1, <1>2 DEF Request, Status
  <2>2. req' = [req EXCEPT ![r] = rec] /\ sess' \in [Sids -> Status]
    BY <1>5, <1>1 DEF Memory, Handlers
  <2> HIDE DEF rec
  <2> QED
    BY <1>1, <1>3, <1>4, <2>1, <2>2, MoveOn
<1>6. CASE Answer(r) /\ UNCHANGED sess
  <2>1. Idle.pc = "idle" /\ req' = [req EXCEPT ![r] = Idle] /\ sess' \in [Sids -> Status]
    BY <1>6 DEF Idle, Answer, Memory, Handlers
  <2> QED
    BY <1>1, <1>3, <1>4, <2>1, IdleType, MoveOn
<1>7. CASE /\ SetSeen(r, "active")
           /\ req' = [req EXCEPT ![r] = [@ EXCEPT !.pc = "persist", !.own = "shared",
                                                 !.write = "active"]]
  <2> DEFINE rec == [req[r] EXCEPT !.pc = "persist", !.own = "shared", !.write = "active"]
  <2>1. rec \in Request /\ rec.pc = "persist" /\ rec.sid \in Sids
    BY <1>1 DEF Request, Status
  <2>2. req' = [req EXCEPT ![r] = rec]
    BY <1>7, <1>1 DEF Memory, Handlers
  <2>3. sess' \in [Sids -> Status]
    BY <1>7 DEF SetSeen, Memory, Handlers, Status
  <2> HIDE DEF rec
  <2> QED
    BY <1>1, <1>3, <1>4, <2>1, <2>2, <2>3, MoveOn
<1> QED
  BY <1>5, <1>6, <1>7 DEF TaskDone

LEMMA TaskFailsKeeps ==
  ASSUME Memory, queue # <<>>, Head(queue).kind # "park", TaskFails(Head(queue).by)
  PROVE  Memory'
<1> DEFINE r == Head(queue).by
<1>1. /\ r \in Requests /\ ServesOthers(Tail(queue), r)
      /\ req[r].sid \in Sids /\ req[r] \in Request
  BY HeadTurn
<1>2. Handlers
  BY DEF Memory
<1>3. store' \subseteq Sids /\ queue' = Tail(queue)
  BY DEF TaskFails, NextTask, Memory, Handlers
<1>4. CASE Answer(r) /\ UNCHANGED sess
  <2>1. Idle.pc = "idle" /\ req' = [req EXCEPT ![r] = Idle] /\ sess' \in [Sids -> Status]
    BY <1>4 DEF Idle, Answer, Memory, Handlers
  <2> QED
    BY <1>1, <1>2, <1>3, <2>1, IdleType, MoveOn
<1>5. CASE /\ SetSeen(r, "ended")
           /\ req' = [req EXCEPT ![r] = [@ EXCEPT !.pc = "fail", !.own = "shared",
                                                 !.write = "ended"]]
  <2> DEFINE rec == [req[r] EXCEPT !.pc = "fail", !.own = "shared", !.write = "ended"]
  <2>1. rec \in Request /\ rec.pc = "fail" /\ rec.sid \in Sids
    BY <1>1 DEF Request, Status
  <2>2. req' = [req EXCEPT ![r] = rec]
    BY <1>5, <1>1 DEF Memory, Handlers
  <2>3. sess' \in [Sids -> Status]
    BY <1>5 DEF SetSeen, Memory, Handlers, Status
  <2> HIDE DEF rec
  <2> QED
    BY <1>1, <1>2, <1>3, <2>1, <2>2, <2>3, MoveOn
<1> QED
  BY <1>4, <1>5 DEF TaskFails

\* A finished park moves the chain on; nobody waits for it.
LEMMA ParkDoneKeeps ==
  ASSUME Memory, queue # <<>>, Head(queue).kind = "park", NextTask, UNCHANGED <<sess, store, req>>
  PROVE  Memory'
<1>1. 1 \in DOMAIN queue /\ Head(queue) = queue[1]
  BY DEF Memory
<1>2. Head(queue).by \notin Requests
  BY <1>1, ConstantsAssumption DEF Memory, Served
<1>3. Tail(queue) \in Seq(Task) /\ Served(Tail(queue), req)
  BY <1>2, TailServed DEF Memory
<1> QED
  BY <1>3 DEF NextTask, Memory, Handlers, Named, Served

LEMMA AfterEndKeeps ==
  ASSUME Handlers, NEW r \in Requests, NEW q, ServesOthers(q, r), AfterEnd(r, q)
  PROVE  Memory'
<1>1. CASE Answer(r) /\ queue' = q /\ UNCHANGED <<sess, store>>
  <2>1. /\ Idle.pc = "idle" /\ req' = [req EXCEPT ![r] = Idle]
        /\ sess' \in [Sids -> Status] /\ store' \subseteq Sids
    BY <1>1 DEF Idle, Answer, Handlers
  <2> QED
    BY <1>1, <2>1, IdleType, MoveOn
<1>2. CASE ClaimSlot(r, req[r].lab, {s \in req[r].todo : IsActive(s)}, q)
  <2>1. req[r].lab \in Labs \cup {None} /\ {s \in req[r].todo : IsActive(s)} \in SUBSET Sids
    BY DEF Handlers, Request
  <2> QED
    BY <1>2, <2>1, ClaimSlotKeeps
<1> QED
  BY <1>1, <1>2 DEF AfterEnd

\* A request that arrives finds its handler idle.
LEMMA ArriveKeeps ==
  ASSUME Inv, NEW r \in Requests, Arrive(r)
  PROVE  Inv'
<1>1. Memory /\ Rest /\ Handlers
  BY InvParts DEF Memory
<1>2. ASSUME NEW l \in Labs, StartRequest(r, l)
      PROVE  Memory'
  <2>1. ServesOthers(queue, r)
    BY <1>1, <1>2, ServedOthers DEF StartRequest
  <2>2. ClaimSlot(r, l, {s \in Sids : IsActive(s) /\ LabOf[s] # l}, queue)
    BY <1>2 DEF StartRequest
  <2> QED
    BY <1>1, <2>1, <2>2, ClaimSlotKeeps
<1>3. ASSUME NEW s \in Sids, EndRequest(r, s)
      PROVE  Memory'
  <2> DEFINE rec == [[Idle EXCEPT !.op = "end"] EXCEPT !.pc = "endwrite", !.sid = s, !.write = "ended"]
  <2>1. rec \in Request /\ rec.pc = "endwrite" /\ rec.sid \in Sids
    BY DEF Idle, Request, Status
  <2>2. req' = [req EXCEPT ![r] = rec] /\ queue' = queue
    BY <1>3 DEF EndRequest, BeginEnd
  <2>3. sess' \in [Sids -> Status] /\ store' \subseteq Sids
    BY <1>1, <1>3 DEF EndRequest, BeginEnd, Handlers, Status
  <2>4. ServesOthers(queue, r)
    BY <1>1, <1>3, ServedOthers DEF EndRequest
  <2> HIDE DEF rec
  <2> QED
    BY <1>1, <2>1, <2>2, <2>3, <2>4, MoveOn
<1>4. ASSUME NEW s \in Sids, ResetRequest(r, s)
      PROVE  Memory'
  <2> DEFINE rec == [Idle EXCEPT !.pc = "queued", !.op = "reset", !.lab = LabOf[s], !.sid = s]
             t == Waits(r, "reset", LabOf[s])
  <2>1. rec \in Request /\ rec.pc = "queued" /\ rec.sid = s
    BY ConstantsAssumption DEF Idle, Request, Status
  <2>2. t \in Task /\ t.by = r /\ t.kind = "reset"
    BY ConstantsAssumption, WaitsType DEF Waits, Kinds
  <2>3. /\ req' = [req EXCEPT ![r] = rec] /\ queue' = Append(queue, t)
        /\ UNCHANGED <<sess, store>>
    BY <1>4 DEF ResetRequest
  <2>4. ServesOthers(queue, r)
    BY <1>1, <1>4, ServedOthers DEF ResetRequest
  <2>5. req \in [Requests -> Request] /\ Named(req)
    BY <1>1 DEF Handlers
  <2> HIDE DEF rec, t
  <2>6. /\ req' \in [Requests -> Request] /\ queue' \in Seq(Task)
        /\ Named(req') /\ Served(queue', req')
    BY <2>1, <2>2, <2>3, <2>4, <2>5, TakeTurn
  <2> QED
    BY <1>1, <2>3, <2>6 DEF Memory, Handlers, Named, Served
<1>5. UNCHANGED <<row, step, cluster>>
  BY DEF Arrive, StartRequest, EndRequest, ResetRequest
<1>6. Memory'
  BY <1>2, <1>3, <1>4 DEF Arrive
<1>7. Rest'
  BY <1>1, <1>5 DEF Rest, cluster
<1> QED
  BY <1>6, <1>7, InvParts DEF Inv, TypeOK, Memory, Handlers, Rest

\* A handler that goes on after a query leaves the cluster alone.
LEMMA HandlerKeeps ==
  ASSUME Inv, NEW r \in Requests, Handler(r)
  PROVE  Inv'
<1>1. Memory /\ Rest /\ Handlers
  BY InvParts DEF Memory
<1> DEFINE old == req[r]
<1>2. old \in Request /\ req \in [Requests -> Request]
  BY <1>1 DEF Handlers
<1>3. old.pc \notin {"slot", "queued"} => ServesOthers(queue, r)
  BY <1>1, ServedOthers
<1>4. old.pc \notin {"idle", "lookup"} => old.sid \in Sids
  BY <1>1 DEF Handlers, Named
<1>5. ASSUME EndWritten(r) \/ EndWriteFails(r)
      PROVE  Memory'
  <2>1. ServesOthers(queue, r) /\ old.sid \in Sids
    BY <1>3, <1>4, <1>5 DEF EndWritten, EndWriteFails
  <2>2. ServesOthers(Append(queue, Park(LabOf[old.sid])), r)
    BY <2>1, AppendPark, ConstantsAssumption DEF ServesOthers
  <2> QED
    BY <1>1, <1>5, <2>1, <2>2, AfterEndKeeps DEF EndWritten, EndWriteFails
<1>6. ASSUME NEW s \in Sids, FoundInTable(r, s)
      PROVE  Memory'
  BY <1>1, <1>3, <1>6, OpenExistingKeeps DEF FoundInTable
<1>7. ASSUME NEW s \in Sids, NewSession(r, s)
      PROVE  Memory'
  <2> DEFINE rec == [old EXCEPT !.pc = "create", !.op = "new", !.sid = s, !.write = "active"]
  <2>1. rec \in Request /\ rec.pc = "create" /\ rec.sid \in Sids /\ rec.lab \in Labs
    BY <1>2, <1>7, ConstantsAssumption DEF NewSession, Request, Status
  <2>2. req' = [req EXCEPT ![r] = rec] /\ queue' = queue
    BY <1>2, <1>7 DEF NewSession
  <2>3. sess' \in [Sids -> Status] /\ store' \subseteq Sids
    BY <1>1, <1>7 DEF NewSession, Handlers, Status
  <2>4. ServesOthers(queue, r)
    BY <1>3, <1>7 DEF NewSession
  <2> HIDE DEF rec
  <2> QED
    BY <1>1, <2>1, <2>2, <2>3, <2>4, MoveOn
<1>8. ASSUME Created(r)
      PROVE  Memory'
  <2> DEFINE rec == [old EXCEPT !.pc = "queued", !.write = "none"]
             t == Waits(r, "open", old.lab)
  <2>1. rec \in Request /\ rec.pc = "queued" /\ rec.sid = old.sid /\ old.sid \in Sids
    BY <1>2, <1>4, <1>8 DEF Created, Request
  <2>2. t \in Task /\ t.by = r /\ t.kind = "open"
    BY <1>1, <1>8, WaitsType DEF Waits, Kinds, Created, Handlers, Named
  <2>3. /\ req' = [req EXCEPT ![r] = rec] /\ queue' = Append(queue, t)
        /\ UNCHANGED <<sess, store>>
    BY <1>2, <1>8 DEF Created
  <2>4. ServesOthers(queue, r)
    BY <1>3, <1>8 DEF Created
  <2>5. req \in [Requests -> Request] /\ Named(req)
    BY <1>1 DEF Handlers
  <2> HIDE DEF rec, t
  <2>6. /\ req' \in [Requests -> Request] /\ queue' \in Seq(Task)
        /\ Named(req') /\ Served(queue', req')
    BY <2>1, <2>2, <2>3, <2>4, <2>5, TakeTurn
  <2> QED
    BY <1>1, <2>3, <2>6 DEF Memory, Handlers, Named, Served
<1>9. ASSUME Answer(r), old.pc \notin {"slot", "queued"}, UNCHANGED <<sess, store, queue>>
      PROVE  Memory'
  <2>1. /\ Idle.pc = "idle" /\ req' = [req EXCEPT ![r] = Idle] /\ queue' = queue
        /\ sess' \in [Sids -> Status] /\ store' \subseteq Sids
    BY <1>1, <1>9 DEF Idle, Answer, Handlers
  <2> QED
    BY <1>1, <1>3, <1>9, <2>1, IdleType, MoveOn
<1>10. ASSUME FailureWritten(r)
       PROVE  Memory'
  <2>1. CASE Answer(r) /\ UNCHANGED store
    BY <1>9, <1>10, <2>1 DEF FailureWritten
  <2>2. CASE /\ store' = store \ {old.sid}
             /\ req' = [req EXCEPT ![r].pc = "delete", ![r].write = "none"]
    <3> DEFINE rec == [old EXCEPT !.pc = "delete", !.write = "none"]
    <3>1. rec \in Request /\ rec.pc = "delete" /\ rec.sid \in Sids
      BY <1>2, <1>4, <1>10 DEF FailureWritten, Request
    <3>2. req' = [req EXCEPT ![r] = rec] /\ queue' = queue
      BY <1>2, <1>10, <2>2 DEF FailureWritten
    <3>3. sess' \in [Sids -> Status] /\ store' \subseteq Sids
      BY <1>1, <1>10, <2>2 DEF FailureWritten, Handlers
    <3>4. ServesOthers(queue, r)
      BY <1>3, <1>10 DEF FailureWritten
    <3> HIDE DEF rec
    <3> QED
      BY <1>1, <3>1, <3>2, <3>3, <3>4, MoveOn
  <2> QED
    BY <1>10, <2>1, <2>2 DEF FailureWritten
<1>11. Memory'
  BY <1>5, <1>6, <1>7, <1>8, <1>9, <1>10
  DEF Handler, CreateFails, Persisted, PersistFails, Deleted
<1>12. Rest'
  <2>1. old.write \in {"none"} \cup Status
    BY <1>2 DEF Request
  <2>2. row' \in [Sids -> {"none"} \cup Status] /\ UNCHANGED <<step, cluster>>
    BY <1>1, <2>1
    DEF Rest, Handler, EndWritten, EndWriteFails, FoundInTable, NewSession, Created, CreateFails,
        Persisted, PersistFails, FailureWritten, Deleted
  <2> QED
    BY <1>1, <2>2 DEF Rest, cluster
<1> QED
  BY <1>11, <1>12 DEF Inv, TypeOK, Memory, Handlers, Rest

\* The task at the head of the chain names a lab.
LEMMA HeadType ==
  ASSUME Memory, queue # <<>>
  PROVE  Head(queue) \in Task /\ Head(queue).lab \in Labs
<1>1. Head(queue) \in Task
  BY DEF Memory
<1> QED
  BY <1>1 DEF Task

LEMMA EmptyType == Empty \in Contents
BY DEF Empty, Contents, Content

LEMMA PartType ==
  ASSUME NEW c, NEW d \in PartOf(c)
  PROVE  d \in Contents
BY DEF PartOf

LEMMA TargetType ==
  ASSUME Rest, NEW t \in Task
  PROVE  Target(t) \in Contents
<1>1. t.lab \in Labs
  BY DEF Task
<1>2. [Empty EXCEPT ![t.lab] = "ready"] \in Contents
  BY DEF Empty, Contents, Content
<1>3. Restores(t) => snap[t.lab] \in Contents
  BY <1>1 DEF Restores, Rest
<1> QED
  BY <1>2, <1>3 DEF Target

LEMMA AppliedType ==
  ASSUME NEW c \in Contents, NEW d \in Contents
  PROVE  Applied(c, d) \in Contents
BY DEF Applied, Contents

LEMMA ToCleanUpType ==
  ASSUME Rest, NEW t, ToCleanUp(t, snap)
  PROVE  /\ step' \in {"reset", "verify"}
         /\ snap' \in [Labs -> Contents \cup {NoSnapshot}]
         /\ progress' \in [Labs -> Histories]
BY DEF ToCleanUp, Rest, Histories

\* A step of the running task keeps what handlers and chain share ...
LEMMA ChainMemory ==
  ASSUME Inv, Chain
  PROVE  Memory'
<1>1. Memory /\ Rest
  BY InvParts
<1>2. ASSUME UNCHANGED memory
      PROVE  Memory'
  BY <1>1, <1>2 DEF memory, Memory, Handlers, Named, Served
<1>3. CASE SlotTaken
  <2> DEFINE r == Head(queue).by
             s == req[r].sid
  <2>1. r \in Requests /\ ServesOthers(Tail(queue), r) /\ s \in Sids
    BY <1>1, <1>3, HeadTurn DEF SlotTaken
  <2>2. CASE Answer(r) /\ queue' = Tail(queue) /\ UNCHANGED <<sess, store>>
    <3>1. /\ Idle.pc = "idle" /\ req' = [req EXCEPT ![r] = Idle]
          /\ sess' \in [Sids -> Status] /\ store' \subseteq Sids
      BY <1>1, <2>2 DEF Idle, Answer, Memory, Handlers
    <3> QED
      BY <1>1, <2>1, <2>2, <3>1, IdleType, MoveOn DEF Memory
  <2>3. CASE Reactivate(r, s, req[r].own # "shared", Tail(queue))
    BY <1>1, <2>1, <2>3, ReactivateKeeps DEF Memory
  <2> QED
    BY <1>3, <2>2, <2>3 DEF SlotTaken
<1>4. CASE Begin \/ Snapshot \/ ResetWipe
  BY <1>2, <1>4 DEF Begin, Snapshot, ResetWipe
<1>5. ASSUME queue # <<>>, Head(queue).kind \in Provisioning, TaskFails(Head(queue).by)
      PROVE  Memory'
  BY <1>1, <1>5, TaskFailsKeeps DEF Provisioning
<1>6. ASSUME ParkFails
      PROVE  Memory'
  BY <1>1, <1>5, <1>6, ParkDoneKeeps DEF ParkFails, Running
<1>7. CASE Wipe
  BY <1>1, <1>2, <1>7, ParkDoneKeeps DEF Wipe, Running
<1>8. CASE Refused \/ SnapshotFails \/ WipeFails \/ ResetWipeFails \/ FillFails
  BY <1>5, <1>6, <1>8
  DEF Refused, SnapshotFails, WipeFails, ResetWipeFails, FillFails, Running, Provisioning
<1>9. CASE Verify
  BY <1>1, <1>2, <1>5, <1>9 DEF Verify, Running
<1>10. CASE Fill
  BY <1>1, <1>10, TaskDoneKeeps DEF Fill, Running, Provisioning
<1> QED
  BY <1>3, <1>4, <1>7, <1>8, <1>9, <1>10 DEF Chain

\* ... and the types of the rest.
LEMMA ChainRest ==
  ASSUME Inv, Chain
  PROVE  Rest'
<1>1. Memory /\ Rest
  BY InvParts
<1>2. queue # <<>> => Head(queue) \in Task /\ Head(queue).lab \in Labs
  BY <1>1, HeadType
<1>3. CASE SlotTaken
  BY <1>1, <1>3 DEF SlotTaken, Rest, cluster
<1>4. CASE Begin
  BY <1>1, <1>4, ToCleanUpType DEF Begin, Rest
<1>5. CASE Refused
  BY <1>1, <1>5 DEF Refused, TaskFails, NextTask, Rest, cluster
<1>6. CASE Snapshot
  BY <1>1, <1>6 DEF Snapshot, Rest
<1>7. queue # <<>> => Parked \in Labs \cup {None}
  BY <1>1, <1>2 DEF Parked, Rest
<1>8. ASSUME ParkFails
      PROVE  /\ unparked' \in Labs \cup {None} /\ row' = row /\ step' = "begin"
  BY <1>7, <1>8 DEF ParkFails, Running, TaskFails, NextTask
<1>9. CASE SnapshotFails
  BY <1>1, <1>8, <1>9 DEF SnapshotFails, Rest
<1>10. CASE Wipe
  <2>1. CASE Running({"park"}) /\ NextTask /\ UNCHANGED <<sess, store, req, snap, progress>>
    BY <1>1, <1>10, <2>1, EmptyType DEF Wipe, NextTask, Rest
  <2>2. CASE ToCleanUp(Head(queue), snap)
    BY <1>1, <1>10, <2>2, EmptyType, ToCleanUpType DEF Wipe, Rest
  <2> QED
    BY <1>10, <2>1, <2>2 DEF Wipe
<1>11. CASE WipeFails
  BY <1>1, <1>8, <1>11, PartType DEF WipeFails, Rest, Histories
<1>12. CASE ResetWipe
  BY <1>1, <1>12, EmptyType DEF ResetWipe, Rest, Histories
<1>13. CASE ResetWipeFails
  BY <1>1, <1>13, PartType DEF ResetWipeFails, TaskFails, NextTask, Rest, Histories
<1>14. CASE Verify
  BY <1>1, <1>14 DEF Verify, TaskFails, NextTask, Rest, cluster
<1>15. CASE Fill
  <2>1. Target(Head(queue)) \in Contents
    BY <1>1, <1>2, <1>15, TargetType DEF Fill, Running
  <2>2. live' \in Contents
    BY <1>1, <1>15, <2>1, AppliedType DEF Fill, Rest
  <2> QED
    BY <1>1, <1>15, <2>2 DEF Fill, TaskDone, NextTask, Rest
<1>16. CASE FillFails
  <2>1. live' \in Contents
    BY <1>1, <1>16, PartType, AppliedType DEF FillFails, Rest
  <2> QED
    BY <1>1, <1>16, <2>1 DEF FillFails, TaskFails, NextTask, Rest
<1> QED
  BY <1>3, <1>4, <1>5, <1>6, <1>9, <1>10, <1>11, <1>12, <1>13, <1>14, <1>15, <1>16 DEF Chain

LEMMA WorkKeeps ==
  ASSUME Inv, NEW s \in Sids, Work(s)
  PROVE  Inv'
<1>1. Memory /\ Rest
  BY InvParts
<1>2. Memory'
  BY <1>1 DEF Work, memory, Memory, Handlers, Named, Served
<1>3. live' \in Contents /\ progress' \in [Labs -> Histories]
  BY <1>1 DEF Work, Rest, Contents, Content, Histories
<1>4. Rest'
  BY <1>1, <1>3 DEF Work, Rest
<1> QED
  BY <1>2, <1>4 DEF Inv, TypeOK, Memory, Handlers, Rest

\* A crash may interrupt a step of the running task.
LEMMA InterruptedType ==
  ASSUME Memory, Rest, NEW c \in Interrupted
  PROVE  c \in Contents
<1>1. CASE queue # <<>> /\ step \in {"wipe", "reset"}
  BY <1>1, PartType DEF Interrupted
<1>2. CASE queue # <<>> /\ step = "fill"
  <2>1. PICK part \in PartOf(Target(Head(queue))) : c = Applied(live, part)
    BY <1>2 DEF Interrupted
  <2> QED
    BY <2>1, PartType, AppliedType DEF Rest
<1>3. CASE ~(queue # <<>> /\ step \in {"wipe", "reset", "fill"})
  BY <1>3 DEF Interrupted, Rest
<1> QED
  BY <1>1, <1>2, <1>3

LEMMA CrashKeeps ==
  ASSUME Inv, Crash
  PROVE  Inv'
<1>1. Memory /\ Rest
  BY InvParts
<1>2. sess' \in [Sids -> Status] /\ store' \subseteq Sids
  BY <1>1 DEF Crash, Rest, Status
<1>3. req' \in [Requests -> Request] /\ queue' = <<>>
  BY IdleType DEF Crash, ForgetTasks
<1>4. Named(req') /\ Served(queue', req') /\ queue' \in Seq(Task)
  BY <1>3 DEF Crash, ForgetTasks, Named, Served, Idle
<1>5. Rest'
  BY <1>1, InterruptedType DEF Crash, ForgetTasks, Rest
<1> QED
  BY <1>2, <1>3, <1>4, <1>5 DEF Inv, TypeOK, Rest, Named, Served

LEMMA InitInv == Init => Inv
<1> SUFFICES ASSUME Init PROVE Inv
  OBVIOUS
<1>1. TypeOK
  BY IdleType, EmptyType DEF Init, TypeOK, Status, Histories
<1>2. Named(req) /\ Served(queue, req)
  BY DEF Init, Named, Served, Idle
<1> QED
  BY <1>1, <1>2 DEF Inv

LEMMA NextInv == Inv /\ [Next]_vars => Inv'
<1> SUFFICES ASSUME Inv, [Next]_vars PROVE Inv'
  OBVIOUS
<1>1. ASSUME NEW r \in Requests, Arrive(r) \/ Handler(r)
      PROVE  Inv'
  BY <1>1, ArriveKeeps, HandlerKeeps
<1>2. CASE Chain
  BY <1>2, ChainMemory, ChainRest DEF Inv, TypeOK, Memory, Handlers, Rest
<1>3. ASSUME NEW s \in Sids, Work(s)
      PROVE  Inv'
  BY <1>3, WorkKeeps
<1>4. CASE Crash
  BY <1>4, CrashKeeps
<1>5. CASE UNCHANGED vars
  BY <1>5 DEF vars, Inv, TypeOK, Named, Served
<1> QED
  BY <1>1, <1>2, <1>3, <1>4, <1>5 DEF Next

\* Inv holds in every state: all variables have their types, and the promise
\* chain and the waiting handlers match one to one (k8sLifecycle.ts:45-56).
THEOREM InvHolds == Spec => []Inv
BY InitInv, NextInv, PTL DEF Spec

\* The variables have their types.
THEOREM TypeCorrect == Spec => []TypeOK
<1>1. Inv => TypeOK
  BY DEF Inv
<1> QED
  BY <1>1, InvHolds, PTL

\* Every handler that waits has exactly one turn left on the chain, and no
\* turn is left for one that does not: no caller is forgotten, none is served
\* twice (k8sLifecycle.ts:45-56).
THEOREM OneTurnEachHolds == Spec => []OneTurnEach
<1>1. Inv => OneTurnEach
  <2> SUFFICES ASSUME Inv, NEW r \in Requests
               PROVE  Cardinality({i \in DOMAIN queue : queue[i].by = r}) = IF Holding(r) THEN 1 ELSE 0
    BY DEF OneTurnEach
  <2> DEFINE turns == {i \in DOMAIN queue : queue[i].by = r}
  <2>1. Served(queue, req) /\ r # None
    BY ConstantsAssumption DEF Inv
  <2>2. CASE Holding(r)
    <3>1. PICK i \in DOMAIN queue : queue[i].by = r
      BY <2>1, <2>2 DEF Served, Holding
    <3>2. turns = {i}
      BY <2>1, <3>1 DEF Served
    <3> QED
      BY <2>2, <3>2, FS_Singleton
  <2>3. CASE ~Holding(r)
    <3>1. turns = {}
      BY <2>1, <2>3 DEF Served, Holding
    <3> QED
      BY <2>3, <3>1, FS_EmptySet
  <2> QED
    BY <2>2, <2>3
<1> QED
  BY <1>1, InvHolds, PTL

-----------------------------------------------------------------------------
(* The namespace holds one lab at a time.                                    *)

OneLab(c) == \A j, k \in Labs : Holds(c, j) /\ Holds(c, k) => j = k

\* OneLabAtATime is not inductive by itself: a restore applies a snapshot, so
\* no snapshot mixes labs either, and a lab is filled in only where the listing
\* found nothing and nothing has come since.
Apart ==
  /\ OneLab(live)
  /\ \A l \in Labs : snap[l] # NoSnapshot => OneLab(snap[l])
  /\ step = "fill" => live = Empty

LEMMA EmptyOneLab == OneLab(Empty)
BY DEF OneLab, Holds, Empty

LEMMA PartOneLab ==
  ASSUME NEW c, OneLab(c), NEW d \in PartOf(c)
  PROVE  OneLab(d)
BY DEF OneLab, PartOf, Holds

\* What is applied to an empty namespace is what the namespace then holds.
LEMMA AppliedToEmpty ==
  ASSUME NEW d \in Contents
  PROVE  Applied(Empty, d) = d
BY DEF Applied, Empty, Holds, Contents

LEMMA TargetOneLab ==
  ASSUME Rest, Apart, NEW t \in Task
  PROVE  OneLab(Target(t))
<1>1. t.lab \in Labs
  BY DEF Task
<1>2. OneLab([Empty EXCEPT ![t.lab] = "ready"])
  BY DEF OneLab, Holds, Empty
<1>3. Restores(t) => OneLab(snap[t.lab])
  BY <1>1 DEF Restores, Apart
<1> QED
  BY <1>2, <1>3 DEF Target

LEMMA ToCleanUpApart ==
  ASSUME Rest, Apart, NEW t, ToCleanUp(t, snap)
  PROVE  /\ \A l \in Labs : snap'[l] # NoSnapshot => OneLab(snap'[l])
         /\ step' # "fill"
BY DEF ToCleanUp, Rest, Apart

LEMMA ChainApart ==
  ASSUME Inv, Apart, Chain
  PROVE  Apart'
<1>1. Memory /\ Rest
  BY InvParts
<1>2. queue # <<>> => Head(queue) \in Task
  BY <1>1, HeadType
<1>3. ASSUME UNCHANGED <<live, snap>>, step' # "fill"
      PROVE  Apart'
  BY <1>3 DEF Apart, OneLab, Holds
<1>4. ASSUME OneLab(live'), UNCHANGED snap, step' # "fill"
      PROVE  Apart'
  BY <1>4 DEF Apart, OneLab, Holds
<1>5. ASSUME ParkFails
      PROVE  step' # "fill"
  BY <1>5 DEF ParkFails, NextTask, TaskFails
<1>6. CASE SlotTaken \/ Refused \/ SnapshotFails
  BY <1>3, <1>5, <1>6 DEF SlotTaken, Refused, SnapshotFails, TaskFails, NextTask, cluster
<1>7. CASE Begin
  BY <1>1, <1>7, ToCleanUpApart DEF Begin, Apart, OneLab, Holds
<1>8. CASE Snapshot
  <2>1. \A l \in Labs : snap'[l] # NoSnapshot => OneLab(snap'[l])
    BY <1>1, <1>8 DEF Snapshot, Rest, Apart
  <2> QED
    BY <1>8, <2>1 DEF Snapshot, Apart, OneLab, Holds
<1>9. CASE Wipe
  <2>1. OneLab(live')
    BY <1>9, EmptyOneLab DEF Wipe
  <2>2. CASE NextTask /\ UNCHANGED snap
    BY <1>4, <2>1, <2>2 DEF NextTask
  <2>3. CASE ToCleanUp(Head(queue), snap)
    BY <1>1, <2>1, <2>3, ToCleanUpApart DEF Apart, OneLab, Holds
  <2> QED
    BY <1>9, <2>2, <2>3 DEF Wipe
<1>10. CASE WipeFails \/ ResetWipeFails
  <2>1. live' \in PartOf(live)
    BY <1>10 DEF WipeFails, ResetWipeFails
  <2>2. OneLab(live')
    BY <2>1, PartOneLab DEF Apart
  <2> QED
    BY <1>4, <1>5, <1>10, <2>2 DEF WipeFails, ResetWipeFails, TaskFails, NextTask
<1>11. CASE ResetWipe
  BY <1>4, <1>11, EmptyOneLab DEF ResetWipe
<1>12. CASE Verify
  BY <1>3, <1>12 DEF Verify, Clean, TaskFails, NextTask, cluster, Apart, OneLab, Holds
<1>13. CASE Fill \/ FillFails
  <2> DEFINE target == Target(Head(queue))
  <2>1. live = Empty /\ queue # <<>>
    BY <1>13 DEF Fill, FillFails, Running, Apart
  <2>2. target \in Contents /\ OneLab(target)
    BY <1>1, <1>2, <2>1, TargetType, TargetOneLab
  <2> HIDE DEF target
  <2>3. CASE Fill
    <3>1. live' = target
      BY <2>1, <2>2, <2>3, AppliedToEmpty DEF Fill, target
    <3> QED
      BY <1>4, <2>2, <2>3, <3>1 DEF Fill, TaskDone, NextTask
  <2>4. CASE FillFails
    <3>1. PICK part \in PartOf(target) : live' = Applied(live, part)
      BY <2>4 DEF FillFails, target
    <3>2. live' = part /\ OneLab(part)
      BY <2>1, <2>2, <3>1, PartType, PartOneLab, AppliedToEmpty
    <3> QED
      BY <1>4, <2>4, <3>2 DEF FillFails, TaskFails, NextTask
  <2> QED
    BY <1>13, <2>3, <2>4
<1> QED
  BY <1>6, <1>7, <1>8, <1>9, <1>10, <1>11, <1>12, <1>13 DEF Chain

LEMMA CrashApart ==
  ASSUME Inv, Apart, Crash
  PROVE  Apart'
<1>1. Memory /\ Rest
  BY InvParts
<1>2. OneLab(live')
  <2>1. CASE queue # <<>> /\ step \in {"wipe", "reset"}
    BY <2>1, PartOneLab DEF Crash, Interrupted, Apart
  <2>2. CASE queue # <<>> /\ step = "fill"
    <3>1. PICK part \in PartOf(Target(Head(queue))) : live' = Applied(live, part)
      BY <2>2 DEF Crash, Interrupted
    <3>2. OneLab(Target(Head(queue)))
      BY <1>1, <2>2, HeadType, TargetOneLab
    <3> QED
      BY <2>2, <3>1, <3>2, PartType, PartOneLab, AppliedToEmpty DEF Apart
  <2>3. CASE ~(queue # <<>> /\ step \in {"wipe", "reset", "fill"})
    BY <2>3 DEF Crash, Interrupted, Apart
  <2> QED
    BY <2>1, <2>2, <2>3
<1> QED
  BY <1>2 DEF Crash, ForgetTasks, Apart, OneLab, Holds

\* While the learner's objects only ever come from an open lab, the namespace
\* never holds objects of two labs, whatever else fails and however requests
\* interleave (k8sLifecycle.ts:39-44).
THEOREM OneLabAtATimeHolds ==
  ASSUME "stray" \notin Env
  PROVE  Spec => []OneLabAtATime
<1>1. Init => Apart
  BY EmptyOneLab DEF Init, Apart
<1>2. Inv /\ Apart /\ [Next]_vars => Apart'
  <2> SUFFICES ASSUME Inv, Apart, [Next]_vars PROVE Apart'
    OBVIOUS
  <2>1. ASSUME UNCHANGED <<live, snap, step>>
        PROVE  Apart'
    BY <2>1 DEF Apart, OneLab, Holds
  <2>2. ASSUME NEW r \in Requests, Arrive(r) \/ Handler(r)
        PROVE  Apart'
    BY <2>1, <2>2
    DEF Arrive, StartRequest, EndRequest, ResetRequest, Handler, EndWritten, EndWriteFails,
        FoundInTable, NewSession, Created, CreateFails, Persisted, PersistFails,
        FailureWritten, Deleted, cluster
  <2>3. CASE Chain
    BY <2>3, ChainApart
  <2>4. ASSUME NEW s \in Sids, Work(s)
        PROVE  Apart'
    <3>1. Holds(live, LabOf[s]) /\ LabOf[s] \in Labs
      BY <2>4, ConstantsAssumption DEF Work
    <3>2. live # Empty
      BY <3>1 DEF Holds, Empty
    <3>3. \A l \in Labs : Holds(live', l) => Holds(live, l)
      BY <2>4, <3>1 DEF Work, Holds, Inv, TypeOK, Contents
    <3> QED
      BY <2>4, <3>2, <3>3 DEF Work, Apart, OneLab, Holds
  <2>5. CASE Crash
    BY <2>5, CrashApart
  <2>6. CASE UNCHANGED vars
    BY <2>1, <2>6 DEF vars
  <2> QED
    BY <2>2, <2>3, <2>4, <2>5, <2>6 DEF Next
<1>3. Apart => OneLabAtATime
  BY DEF Apart, OneLab, OneLabAtATime
<1> QED
  BY <1>1, <1>2, <1>3, InvHolds, PTL DEF Spec

-----------------------------------------------------------------------------
(* One tab.  A learner who opens labs from one tab at a time and waits for   *)
(* each open and reset to be answered, on a backend that stays up.           *)

OneTab ==
  /\ \A p, q \in Openers : p = q
  /\ Env \cap {"early", "crash", "db"} = {}
  /\ "reset" \in Ops => Env \cap {"refuse", "setup", "wipe"} = {}

\* A handler whose lab is still to be provisioned, and a session that is in use.
Provides(rec) == rec.pc \in {"create", "queued"} /\ rec.op \in {"start", "new"}
Up(s) == IsActive(s) /\ \A r \in Requests : Provides(req[r]) => req[r].sid # s

\* A session of l was ended and its park is still to come.
ParkFor(q, l) == \E i \in DOMAIN q : q[i].kind = "park" /\ q[i].lab = l
EndFor(rq, l) == \E r \in Requests : rq[r].pc = "endwrite" /\ LabOf[rq[r].sid] = l
Owes(q, rq, l) == ParkFor(q, l) \/ EndFor(rq, l)
Owed(l) == Owes(queue, req, l)

NoPark(q) == \A i \in DOMAIN q : q[i].kind # "park"
NoEnd(rq) == \A r \in Requests : rq[r].pc # "endwrite"

\* At most one park is owed.
OwedOnce(q, rq) ==
  /\ \A i, j \in DOMAIN q : q[i].kind = "park" /\ q[j].kind = "park" => i = j
  /\ \A r, x \in Requests : rq[r].pc = "endwrite" /\ rq[x].pc = "endwrite" => r = x
  /\ NoPark(q) \/ NoEnd(rq)

\* A turn on the chain does what its handler asked for.
TurnOf(t, rec) ==
  /\ t.lab = LabOf[rec.sid]
  /\ t.kind = "open" => rec.op \in {"start", "new"}
  /\ t.kind = "reset" => rec.op = "reset" /\ "reset" \in Ops
OwnTurns(q, rq) == \A i \in DOMAIN q : q[i].kind # "park" => TurnOf(q[i], rq[q[i].by])

\* What the fields of a handler's state say at each await.
Formed(rec) ==
  /\ rec.own = "shared"
  /\ rec.pc = "idle" => rec = Idle
  /\ rec.pc = "lookup" => rec.sid = None /\ rec.op = "start"
  /\ rec.pc = "endwrite" => rec.op \in {"start", "end"}
  /\ rec.pc = "create" => rec.op = "new"
  /\ rec.pc = "slot" => rec.op = "start"
  /\ rec.pc = "queued" => rec.op \in {"start", "new", "reset"}
  /\ rec.pc = "persist" => rec.op \in {"start", "reset"}
  /\ rec.pc = "fail" => rec.op \in {"start", "new"}
  /\ rec.pc = "delete" => rec.op = "new"
  /\ rec.pc \in {"create", "slot", "queued"} => rec.lab = LabOf[rec.sid]

\* An opener that found no active session, or ended it.
Alone(rec) == \/ rec.pc = "endwrite" /\ rec.op = "start"
              \/ rec.pc \in {"lookup", "fail", "delete"}

\* What a handler r in state rec relies on about sessions.
Placed(r, rec) ==
  /\ rec.op \in {"start", "new"} => r \in Openers
  /\ rec.pc \notin {"idle", "lookup", "delete"} => rec.sid \in store
  /\ rec.op = "new" => \A x \in Requests \ {r} : req[x].sid # rec.sid
  /\ rec.pc = "lookup" => \A s \in store : LabOf[s] # rec.lab
  /\ rec.pc \in {"create", "slot", "queued"} => sess[rec.sid] = "active"
  /\ rec.pc = "queued" /\ rec.op = "reset" => Up(rec.sid)
  /\ Alone(rec) => \A s \in Sids : ~IsActive(s)

OnePerLab == \A s, t \in store : LabOf[s] = LabOf[t] => s = t
OneActive == \A s, t \in Sids : IsActive(s) /\ IsActive(t) => s = t
RowsKnown ==
  \A s \in Sids : row[s] # "none" =>
    s \in store \/ \E r \in Requests : req[r].pc = "delete" /\ req[r].sid = s

Orderly ==
  /\ \A r \in Requests : Formed(req[r]) /\ Placed(r, req[r])
  /\ OnePerLab
  /\ OneActive
  /\ RowsKnown
  /\ OwnTurns(queue, req)
  /\ OwedOnce(queue, req)

-----------------------------------------------------------------------------
(* Parks and turns on the chain.                                             *)

LEMMA AppendParts ==
  ASSUME NEW q \in Seq(Task), NEW t \in Task
  PROVE  /\ DOMAIN Append(q, t) = DOMAIN q \cup {Len(q) + 1}
         /\ Append(q, t)[Len(q) + 1] = t
         /\ \A i \in DOMAIN q : Append(q, t)[i] = q[i] /\ i # Len(q) + 1
         /\ Append(q, t) # <<>>
         /\ q # <<>> => Head(Append(q, t)) = Head(q)
         /\ q = <<>> => Head(Append(q, t)) = t
OBVIOUS

LEMMA TailParts ==
  ASSUME NEW q \in Seq(Task), q # <<>>
  PROVE  /\ 1 \in DOMAIN q /\ Head(q) = q[1]
         /\ \A i \in DOMAIN Tail(q) : i + 1 \in DOMAIN q /\ i + 1 # 1 /\ Tail(q)[i] = q[i + 1]
         /\ \A i \in DOMAIN q : i # 1 => i - 1 \in DOMAIN Tail(q) /\ Tail(q)[i - 1] = q[i]
         /\ \A i, j \in DOMAIN Tail(q) : i + 1 = j + 1 => i = j
OBVIOUS

LEMMA AppendOwes ==
  ASSUME NEW q \in Seq(Task), NEW t \in Task, NEW rq, OwedOnce(q, rq),
         t.kind = "park" => NoPark(q) /\ NoEnd(rq)
  PROVE  /\ OwedOnce(Append(q, t), rq)
         /\ \A l : Owes(Append(q, t), rq, l) <=> Owes(q, rq, l) \/ (t.kind = "park" /\ t.lab = l)
<1> DEFINE p == Append(q, t)
           n == Len(q) + 1
<1>1. /\ DOMAIN p = DOMAIN q \cup {n} /\ p[n] = t
      /\ \A i \in DOMAIN q : p[i] = q[i] /\ i # n
  BY AppendParts
<1> HIDE DEF p, n
<1>2. OwedOnce(p, rq)
  BY <1>1 DEF OwedOnce, NoPark, NoEnd
<1>3. \A l : Owes(p, rq, l) <=> Owes(q, rq, l) \/ (t.kind = "park" /\ t.lab = l)
  BY <1>1 DEF Owes, ParkFor, EndFor
<1> QED
  BY <1>2, <1>3 DEF p

LEMMA TailOwes ==
  ASSUME NEW q \in Seq(Task), q # <<>>, NEW rq, OwedOnce(q, rq)
  PROVE  /\ OwedOnce(Tail(q), rq)
         /\ Head(q).kind # "park" => \A l : Owes(Tail(q), rq, l) <=> Owes(q, rq, l)
         /\ Head(q).kind = "park" => \A l : ~Owes(Tail(q), rq, l)
<1> DEFINE p == Tail(q)
<1>1. /\ 1 \in DOMAIN q /\ Head(q) = q[1]
      /\ \A i \in DOMAIN p : i + 1 \in DOMAIN q /\ i + 1 # 1 /\ p[i] = q[i + 1]
      /\ \A i \in DOMAIN q : i # 1 => i - 1 \in DOMAIN p /\ p[i - 1] = q[i]
      /\ \A i, j \in DOMAIN p : i + 1 = j + 1 => i = j
  BY TailParts
<1> HIDE DEF p
<1>2. OwedOnce(p, rq)
  BY <1>1 DEF OwedOnce, NoPark, NoEnd
<1>3. ASSUME Head(q).kind # "park", NEW l
      PROVE  ParkFor(p, l) <=> ParkFor(q, l)
  BY <1>1, <1>3 DEF ParkFor
<1>4. ASSUME Head(q).kind = "park", NEW l
      PROVE  ~Owes(p, rq, l)
  BY <1>1, <1>4 DEF Owes, ParkFor, EndFor, OwedOnce, NoPark, NoEnd
<1> QED
  BY <1>2, <1>3, <1>4 DEF p, Owes

\* A handler that was not ending a session, and is not now, owes nothing.
LEMMA MoveOwes ==
  ASSUME NEW q, NEW rq, NEW rq2, NEW r \in Requests, OwedOnce(q, rq),
         \A x \in Requests \ {r} : rq2[x] = rq[x],
         rq[r].pc # "endwrite", rq2[r].pc # "endwrite"
  PROVE  OwedOnce(q, rq2) /\ \A l : Owes(q, rq2, l) <=> Owes(q, rq, l)
BY DEF OwedOnce, NoEnd, Owes, EndFor

\* The turns of the others stay theirs.
LEMMA MoveTurns ==
  ASSUME Memory, NEW r \in Requests, NEW q, ServesOthers(q, r), OwnTurns(q, req),
         NEW rq2, \A x \in Requests \ {r} : rq2[x] = req[x]
  PROVE  OwnTurns(q, rq2)
<1>1. \A i \in DOMAIN q : q[i].kind # "park" => q[i].by \in Requests \ {r}
  BY DEF ServesOthers, Served, Idle, Memory, Handlers
<1> QED
  BY <1>1 DEF OwnTurns

LEMMA AppendTurns ==
  ASSUME NEW q \in Seq(Task), NEW t \in Task, NEW rq, OwnTurns(q, rq),
         t.kind # "park" => TurnOf(t, rq[t.by])
  PROVE  OwnTurns(Append(q, t), rq)
<1> DEFINE p == Append(q, t)
           n == Len(q) + 1
<1>1. /\ DOMAIN p = DOMAIN q \cup {n} /\ p[n] = t
      /\ \A i \in DOMAIN q : p[i] = q[i] /\ i # n
  BY AppendParts
<1> HIDE DEF p, n
<1>2. OwnTurns(p, rq)
  BY <1>1 DEF OwnTurns
<1> QED
  BY <1>2 DEF p

LEMMA TailTurns ==
  ASSUME NEW q \in Seq(Task), q # <<>>, NEW rq, OwnTurns(q, rq)
  PROVE  OwnTurns(Tail(q), rq)
BY TailParts DEF OwnTurns
-----------------------------------------------------------------------------
(* What one handler's move does to sessions.                                 *)

LEMMA NewNamed ==
  ASSUME Inv, Orderly, NEW r \in Requests
  PROVE  /\ req[r] \in Request /\ Formed(req[r]) /\ Placed(r, req[r])
         /\ req[r].pc \notin {"idle", "lookup"} => req[r].sid \in Sids
         /\ req[r].op = "new" => req[r].sid \in Sids
BY DEF Inv, TypeOK, Named, Orderly, Formed, Idle

\* Sessions stay as they are; a session is in use once its handler has provided it.
LEMMA StillOrderly ==
  ASSUME Inv, Orderly, NEW r \in Requests, NEW rec, req' = [req EXCEPT ![r] = rec],
         sess' = sess, store' = store,
         RowsKnown', OwnTurns(queue', req'), OwedOnce(queue', req'),
         Formed(rec), Placed(r, rec),
         \A x \in Requests \ {r} : req[x].op = "new" => req[x].sid # rec.sid,
         Provides(rec) => Provides(req[r]) /\ rec.sid = req[r].sid
  PROVE  /\ Orderly'
         /\ \A s \in Sids : Up(s) => Up(s)'
         /\ \A s \in Sids : Up(s)' => Up(s) \/ (Provides(req[r]) /\ ~Provides(rec) /\ s = req[r].sid)
<1>1. /\ req'[r] = rec /\ \A x \in Requests \ {r} : req'[x] = req[x]
      /\ \A s \in Sids : IsActive(s)' <=> IsActive(s)
  BY DEF Inv, TypeOK, IsActive
<1>2. \A s \in Sids : Up(s) => Up(s)'
  BY <1>1 DEF Up
<1>3. \A s \in Sids : Up(s)' => Up(s) \/ (Provides(req[r]) /\ ~Provides(rec) /\ s = req[r].sid)
  BY <1>1 DEF Up
<1>4. ASSUME NEW x \in Requests
      PROVE  Formed(req'[x]) /\ Placed(x, req[x])'
  <2>1. CASE x = r
    <3>1. rec.pc = "queued" => rec.sid \in Sids
      BY <1>1, <2>1 DEF Placed, Inv, TypeOK
    <3> QED
      BY <1>1, <1>2, <2>1, <3>1 DEF Placed, Alone
  <2>2. CASE x # r
    <3>1. Formed(req[x]) /\ Placed(x, req[x]) /\ req'[x] = req[x]
      BY <1>1, <2>2 DEF Orderly
    <3>2. req[x].pc = "queued" => req[x].sid \in Sids
      BY NewNamed
    <3> QED
      BY <1>1, <1>2, <2>2, <3>1, <3>2 DEF Placed, Alone
  <2> QED
    BY <2>1, <2>2
<1>5. OnePerLab' /\ OneActive'
  BY <1>1 DEF Orderly, OnePerLab, OneActive
<1> QED
  BY <1>2, <1>3, <1>4, <1>5 DEF Orderly

\* A session becomes active where none was, and is still to be provided.
LEMMA ActivateOrderly ==
  ASSUME Inv, Orderly, OneTab, NEW r \in Openers, NEW rec, req' = [req EXCEPT ![r] = rec],
         NEW s \in Sids, sess' = [sess EXCEPT ![s] = "active"], store' = store \cup {s},
         RowsKnown', OwnTurns(queue', req'), OwedOnce(queue', req'),
         \A t \in Sids : ~IsActive(t),
         \A t \in store : LabOf[t] = LabOf[s] => t = s,
         Formed(rec), Provides(rec), rec.sid = s,
         rec.op = "new" => \A x \in Requests \ {r} : req[x].sid # s
  PROVE  Orderly' /\ \A t \in Sids : ~Up(t) /\ ~Up(t)'
<1>1. /\ r \in Requests
      /\ req'[r] = rec /\ \A x \in Requests \ {r} : req'[x] = req[x]
      /\ \A t \in Sids : IsActive(t)' <=> t = s
      /\ sess'[s] = "active" /\ s \in store'
  BY ConstantsAssumption DEF Inv, TypeOK, IsActive
<1>2. \A t \in Sids : ~Up(t) /\ ~Up(t)'
  BY <1>1 DEF Up
<1>3. Formed(rec) /\ Placed(r, rec)'
  BY <1>1 DEF Placed, Provides, Alone, Formed
<1>4. ASSUME NEW x \in Requests, x # r
      PROVE  Formed(req[x]) /\ Placed(x, req[x])' /\ req'[x] = req[x]
  <2>1. Formed(req[x]) /\ Placed(x, req[x]) /\ req[x].op \notin {"start", "new"} /\ x \notin Openers
    BY <1>1, <1>4 DEF Orderly, Placed, OneTab
  <2>2. req[x].pc \notin {"create", "slot", "queued"}
    BY <2>1, NewNamed DEF Placed, IsActive
  <2>3. ~Alone(req[x]) /\ req[x].pc # "lookup"
    BY <2>1 DEF Alone, Formed
  <2>4. Placed(x, req[x])'
    BY <2>1, <2>2, <2>3 DEF Placed
  <2> QED
    BY <1>1, <1>4, <2>1, <2>4
<1>5. OnePerLab' /\ OneActive'
  BY <1>1 DEF Orderly, OnePerLab, OneActive
<1> QED
  BY <1>1, <1>2, <1>3, <1>4, <1>5 DEF Orderly

\* The active session ends.
LEMMA EndOrderly ==
  ASSUME Inv, Orderly, NEW r \in Requests, NEW rec, req' = [req EXCEPT ![r] = rec],
         NEW s \in Sids, IsActive(s), sess' = [sess EXCEPT ![s] = "ended"], store' = store,
         RowsKnown', OwnTurns(queue', req'), OwedOnce(queue', req'),
         \A x \in Requests \ {r} : req[x].sid = s =>
           req[x].pc \notin {"create", "slot", "queued"} /\ req[x].op # "new",
         Formed(rec), rec.pc \in {"endwrite", "fail"}, rec.sid = s,
         rec.op \in {"start", "new"} => r \in Openers,
         rec.op = "new" => req[r].op = "new" /\ req[r].sid = s
  PROVE  Orderly' /\ \A t \in Sids : ~IsActive(t)' /\ ~Up(t)'
<1>1. /\ req'[r] = rec /\ \A x \in Requests \ {r} : req'[x] = req[x]
      /\ \A t \in Sids : ~IsActive(t)'
      /\ s \in store
  BY DEF Inv, TypeOK, IsActive, Orderly, OneActive
<1>2. \A t \in Sids : ~Up(t)'
  BY <1>1 DEF Up
<1>3. Formed(rec) /\ Placed(r, rec)'
  BY <1>1 DEF Placed, Orderly
<1>4. ASSUME NEW x \in Requests, x # r
      PROVE  Formed(req[x]) /\ Placed(x, req[x])' /\ req'[x] = req[x]
  <2>1. Formed(req[x]) /\ Placed(x, req[x])
    BY DEF Orderly
  <2>2. req[x].pc \notin {"create", "slot", "queued"}
    BY <1>4, <2>1, NewNamed DEF Placed, IsActive, Orderly, OneActive
  <2>3. req[x].op = "new" => req[x].sid # s
    BY <1>4
  <2>4. Placed(x, req[x])'
    BY <1>1, <1>4, <2>1, <2>2, <2>3 DEF Placed, Alone
  <2> QED
    BY <1>1, <1>4, <2>1, <2>4
<1>5. OnePerLab' /\ OneActive'
  BY <1>1 DEF Orderly, OnePerLab, OneActive
<1> QED
  BY <1>1, <1>2, <1>3, <1>4, <1>5 DEF Orderly

\* A session that could not be provided is dropped from the store.
LEMMA DropOrderly ==
  ASSUME Inv, Orderly, NEW r \in Requests, NEW rec, req' = [req EXCEPT ![r] = rec],
         req[r].op = "new", req[r].pc = "fail", rec.pc = "delete", rec.op = "new",
         rec.sid = req[r].sid,
         sess' = sess, store' = store \ {rec.sid},
         RowsKnown', OwnTurns(queue', req'), OwedOnce(queue', req'), Formed(rec)
  PROVE  Orderly' /\ \A t \in Sids : ~Up(t) /\ ~Up(t)'
<1>1. /\ req'[r] = rec /\ \A x \in Requests \ {r} : req'[x] = req[x]
      /\ \A t \in Sids : ~IsActive(t)
  BY DEF Inv, TypeOK, Orderly, Placed, Alone
<1>2. \A t \in Sids : ~IsActive(t)'
  BY <1>1 DEF IsActive
<1>3. \A t \in Sids : ~Up(t) /\ ~Up(t)'
  BY <1>1, <1>2 DEF Up
<1>4. Placed(r, req[r]) /\ Placed(r, rec)'
  BY <1>1, <1>2 DEF Placed, Orderly
<1>5. ASSUME NEW x \in Requests, x # r
      PROVE  Formed(req[x]) /\ Placed(x, req[x])' /\ req'[x] = req[x]
  <2>1. Formed(req[x]) /\ Placed(x, req[x]) /\ req[x].sid # rec.sid
    BY <1>4, <1>5 DEF Orderly, Placed
  <2>2. req[x].pc \notin {"create", "slot", "queued"}
    BY <1>1, <2>1, NewNamed DEF Placed, IsActive
  <2>3. Placed(x, req[x])'
    BY <1>1, <1>2, <1>5, <2>1, <2>2 DEF Placed
  <2> QED
    BY <1>1, <1>5, <2>1, <2>3
<1>6. OnePerLab' /\ OneActive'
  BY <1>2 DEF Orderly, OnePerLab, OneActive
<1> QED
  BY <1>1, <1>3, <1>4, <1>5, <1>6 DEF Orderly
-----------------------------------------------------------------------------
(* The moves of handlers, one by one.                                        *)

\* The chain q suits a handler r that is about to move.
Ready(q, r) ==
  /\ ServesOthers(q, r)
  /\ OwnTurns(q, req)
  /\ OwedOnce(q, [req EXCEPT ![r] = Idle])
  /\ \A l : Owes(q, [req EXCEPT ![r] = Idle], l) <=> Owed(l)

\* The same sessions are in use and the same parks are owed.
SameUse ==
  /\ \A s \in Sids : Up(s)' <=> Up(s)
  /\ \A l \in Labs : Owed(l)' <=> Owed(l)

\* A session in use ends, and its park is owed.
EndsUse(s) ==
  /\ IsActive(s)
  /\ \A x \in Requests : req[x].sid = s => req[x].pc = "endwrite"
  /\ \A t \in Sids : ~Up(t)'
  /\ \A l \in Labs : Owed(l)' <=> l = LabOf[s]

LEMMA InvMemory ==
  ASSUME Inv
  PROVE  Memory /\ queue \in Seq(Task) /\ Served(queue, req) /\ req \in [Requests -> Request]
BY InvParts DEF Memory, Handlers

LEMMA IdleReady ==
  ASSUME Inv, Orderly, NEW r \in Requests, req[r].pc \notin {"slot", "queued", "endwrite"}
  PROVE  Ready(queue, r)
<1> DEFINE rq == [req EXCEPT ![r] = Idle]
<1>1. Memory /\ ServesOthers(queue, r)
  BY InvMemory, ServedOthers
<1>2. /\ \A x \in Requests \ {r} : rq[x] = req[x]
      /\ rq[r].pc # "endwrite"
  BY InvMemory DEF Idle
<1>3. OwedOnce(queue, req) /\ OwnTurns(queue, req)
  BY DEF Orderly
<1> HIDE DEF rq
<1>4. OwedOnce(queue, rq) /\ \A l : Owes(queue, rq, l) <=> Owes(queue, req, l)
  BY <1>2, <1>3, MoveOwes
<1> QED
  BY <1>1, <1>3, <1>4 DEF Ready, Owed, rq

\* A handler that ends a session puts the park on the chain that it owes.
LEMMA EndReady ==
  ASSUME Inv, Orderly, NEW r \in Requests, req[r].pc = "endwrite"
  PROVE  Ready(Append(queue, Park(LabOf[req[r].sid])), r)
<1> DEFINE rq == [req EXCEPT ![r] = Idle]
           t == Park(LabOf[req[r].sid])
           q == Append(queue, t)
<1>1. Memory /\ ServesOthers(queue, r) /\ queue \in Seq(Task)
  BY InvMemory, ServedOthers
<1>2. LabOf[req[r].sid] \in Labs
  BY NewNamed, ConstantsAssumption
<1>3. t \in Task /\ t.kind = "park" /\ t.lab = LabOf[req[r].sid]
  BY <1>2 DEF Park, Task, Kinds
<1>4. q \in Seq(Task) /\ Served(q, rq)
  BY <1>1, <1>2, AppendPark DEF ServesOthers
<1>5. /\ \A x \in Requests \ {r} : rq[x] = req[x]
      /\ rq[r].pc # "endwrite"
  BY InvMemory DEF Idle
<1>6. OwedOnce(queue, req) /\ OwnTurns(queue, req)
  BY DEF Orderly
<1> HIDE DEF t
<1>7. OwnTurns(q, req)
  BY <1>1, <1>3, <1>6, AppendTurns
<1> HIDE DEF rq
<1>8. NoPark(queue) /\ NoEnd(rq) /\ OwedOnce(queue, rq)
      /\ \A l : Owes(queue, req, l) <=> l = LabOf[req[r].sid]
  BY <1>5, <1>6 DEF OwedOnce, NoPark, NoEnd, Owes, ParkFor, EndFor
<1>9. OwedOnce(q, rq) /\ \A l : Owes(q, rq, l) <=> Owes(queue, rq, l) \/ (t.kind = "park" /\ t.lab = l)
  BY <1>1, <1>3, <1>8, AppendOwes
<1>10. \A l : ~Owes(queue, rq, l)
  BY <1>8 DEF Owes, ParkFor, EndFor, NoPark, NoEnd
<1>11. \A l : Owes(q, rq, l) <=> Owed(l)
  BY <1>3, <1>8, <1>9, <1>10 DEF Owed
<1> QED
  BY <1>4, <1>7, <1>9, <1>11 DEF Ready, ServesOthers, rq, t

\* The handler at the head of the chain, once its turn is over.
LEMMA TurnReady ==
  ASSUME Inv, Orderly, queue # <<>>, Head(queue).kind # "park"
  PROVE  LET r == Head(queue).by IN
         /\ r \in Requests /\ req[r].pc \in {"slot", "queued"} /\ req[r].sid \in Sids
         /\ req[r].pc = IF Head(queue).kind = "slot" THEN "slot" ELSE "queued"
         /\ TurnOf(Head(queue), req[r])
         /\ Ready(Tail(queue), r)
<1> DEFINE r == Head(queue).by
           q == Tail(queue)
           rq == [req EXCEPT ![r] = Idle]
<1>1. Memory /\ queue \in Seq(Task) /\ 1 \in DOMAIN queue /\ Head(queue) = queue[1]
  BY InvMemory
<1>2. /\ r \in Requests /\ ServesOthers(q, r)
      /\ req[r].pc \in {"slot", "queued"} /\ req[r].sid \in Sids
  BY <1>1, HeadTurn
<1>3. req[r].pc = IF Head(queue).kind = "slot" THEN "slot" ELSE "queued"
  BY <1>1, <1>2, ConstantsAssumption, InvMemory DEF Served
<1>4. TurnOf(Head(queue), req[r])
  BY <1>1 DEF Orderly, OwnTurns
<1>5. OwedOnce(queue, req) /\ OwnTurns(queue, req)
  BY DEF Orderly
<1>6. OwnTurns(q, req) /\ OwedOnce(q, req) /\ \A l : Owes(q, req, l) <=> Owed(l)
  BY <1>1, <1>5, TailTurns, TailOwes DEF Owed
<1>7. /\ \A x \in Requests \ {r} : rq[x] = req[x]
      /\ rq[r].pc # "endwrite" /\ req[r].pc # "endwrite"
  BY <1>2, InvMemory DEF Idle
<1> HIDE DEF rq, q, r
<1>8. OwedOnce(q, rq) /\ \A l : Owes(q, rq, l) <=> Owes(q, req, l)
  BY <1>2, <1>6, <1>7, MoveOwes
<1> QED
  BY <1>2, <1>3, <1>4, <1>6, <1>8 DEF Ready, rq, q, r

LEMMA ReadyMoves ==
  ASSUME Inv, NEW r \in Requests, NEW q, Ready(q, r),
         NEW rec, rec.pc # "endwrite", req' = [req EXCEPT ![r] = rec],
         \/ queue' = q
         \/ \E t \in Task : /\ queue' = Append(q, t)
                            /\ t.kind # "park" /\ t.by = r /\ TurnOf(t, rec)
  PROVE  OwnTurns(queue', req') /\ OwedOnce(queue', req') /\ \A l : Owed(l)' <=> Owed(l)
<1> DEFINE rq == [req EXCEPT ![r] = Idle]
<1>1. /\ Memory /\ q \in Seq(Task) /\ ServesOthers(q, r) /\ OwnTurns(q, req)
      /\ OwedOnce(q, rq) /\ \A l : Owes(q, rq, l) <=> Owed(l)
  BY InvMemory DEF Ready, ServesOthers
<1>2. /\ \A x \in Requests \ {r} : rq[x] = req[x] /\ req'[x] = req[x]
      /\ rq[r].pc # "endwrite" /\ req'[r] = rec
  BY InvMemory DEF Idle
<1> HIDE DEF rq
<1>3. OwnTurns(q, req')
  <2>1. PICK rq2 : rq2 = req'
    OBVIOUS
  <2>2. Memory /\ ServesOthers(q, r) /\ OwnTurns(q, req)
    BY <1>1
  <2>3. \A x \in Requests \ {r} : rq2[x] = req[x]
    BY <1>2, <2>1
  <2>4. OwnTurns(q, rq2)
    BY ONLY <2>2, <2>3, r \in Requests, MoveTurns
  <2> QED
    BY <2>1, <2>4
<1>4. OwedOnce(q, req') /\ \A l : Owes(q, req', l) <=> Owes(q, rq, l)
  <2>1. /\ \A x \in Requests \ {r} : req'[x] = rq[x]
        /\ rq[r].pc # "endwrite" /\ req'[r].pc # "endwrite" /\ OwedOnce(q, rq)
    BY <1>1, <1>2
  <2> QED
    BY <2>1, MoveOwes
<1>5. \A l : Owed(l)' <=> Owes(queue', req', l)
  BY DEF Owed, Owes, ParkFor, EndFor
<1>6. CASE queue' = q
  BY <1>1, <1>3, <1>4, <1>5, <1>6
<1>7. ASSUME NEW t \in Task, queue' = Append(q, t), t.kind # "park", t.by = r, TurnOf(t, rec)
      PROVE  OwnTurns(queue', req') /\ OwedOnce(queue', req') /\ \A l : Owed(l)' <=> Owed(l)
  <2>1. OwnTurns(queue', req')
    BY <1>1, <1>2, <1>3, <1>7, AppendTurns
  <2>2. OwedOnce(queue', req') /\ \A l : Owes(queue', req', l) <=> Owes(q, req', l)
    BY <1>1, <1>4, <1>7, AppendOwes
  <2> QED
    BY <1>1, <1>4, <1>5, <2>1, <2>2
<1> QED
  BY <1>6, <1>7

\* A start that has ended the other labs looks for its session.
LEMMA FindMoves ==
  ASSUME Inv, Orderly, OneTab, NEW r \in Openers, NEW l, NEW q, Ready(q, r),
         FindExisting(r, l, q),
         req[r].pc \notin {"create", "slot", "queued", "delete"},
         \A s \in Sids : IsActive(s) => LabOf[s] = l,
         \A s \in Sids : row'[s] = row[s] \/ s \in store
  PROVE  Orderly' /\ SameUse
<1>1. /\ r \in Requests /\ req \in [Requests -> Request] /\ store \subseteq Sids
      /\ sess \in [Sids -> Status] /\ OnePerLab /\ RowsKnown
  BY ConstantsAssumption DEF Inv, TypeOK, Orderly
<1>2. \A x \in Requests \ {r} : req[x].op \notin {"start", "new"}
  BY <1>1 DEF Orderly, Placed, OneTab
<1>3. ASSUME req' = [req EXCEPT ![r] = [Idle EXCEPT !.pc = "lookup", !.op = "start", !.lab = l]],
             \A s \in store : LabOf[s] # l, queue' = q, UNCHANGED <<sess, store>>
      PROVE  Orderly' /\ SameUse
  <2> DEFINE rec == [Idle EXCEPT !.pc = "lookup", !.op = "start", !.lab = l]
  <2>1. /\ rec.pc = "lookup" /\ rec.op = "start" /\ rec.lab = l /\ rec.sid = None /\ rec.own = "shared"
    BY DEF Idle
  <2>2. req' = [req EXCEPT ![r] = rec]
    BY <1>3
  <2> HIDE DEF rec
  <2>3. OwnTurns(queue', req') /\ OwedOnce(queue', req') /\ \A k : Owed(k)' <=> Owed(k)
    BY <1>1, <1>3, <2>1, <2>2, ReadyMoves
  <2>4. Formed(rec) /\ Placed(r, rec) /\ ~Provides(rec)
    BY <1>1, <1>3, <2>1 DEF Formed, Placed, Alone, IsActive, Provides
  <2>5. RowsKnown'
    BY <1>1, <1>3, <2>2 DEF RowsKnown
  <2>6. ~Provides(req[r])
    BY DEF Provides
  <2>7. \A x \in Requests \ {r} : req[x].op = "new" => req[x].sid # rec.sid
    BY <1>2
  <2> QED
    BY <1>1, <1>3, <2>2, <2>3, <2>4, <2>5, <2>6, <2>7, StillOrderly DEF SameUse
<1>4. ASSUME NEW s \in store, LabOf[s] = l, sess[s] = "active", Resume(r, s, FALSE, q)
      PROVE  Orderly' /\ SameUse
  <2> DEFINE rec == [Idle EXCEPT !.pc = "slot", !.op = "start", !.lab = LabOf[s], !.sid = s]
             t == Waits(r, "slot", LabOf[s])
  <2>1. /\ rec.pc = "slot" /\ rec.op = "start" /\ rec.lab = LabOf[s] /\ rec.sid = s /\ rec.own = "shared"
    BY DEF Idle
  <2>2. /\ req' = [req EXCEPT ![r] = rec] /\ sess' = sess /\ store' = store /\ queue' = Append(q, t)
    BY <1>1, <1>4 DEF Resume
  <2>3. t \in Task /\ t.kind = "slot" /\ t.by = r /\ TurnOf(t, rec)
    BY <1>1, <1>4, <2>1, ConstantsAssumption DEF Waits, Task, Kinds, TurnOf
  <2> HIDE DEF rec, t
  <2>4. OwnTurns(queue', req') /\ OwedOnce(queue', req') /\ \A k : Owed(k)' <=> Owed(k)
    <3>1. \E u \in Task : /\ queue' = Append(q, u)
                          /\ u.kind # "park" /\ u.by = r /\ TurnOf(u, rec)
      BY <2>2, <2>3
    <3>2. rec.pc # "endwrite" /\ req' = [req EXCEPT ![r] = rec] /\ r \in Requests
      BY <1>1, <2>1, <2>2
    <3> QED
      BY <3>1, <3>2, ReadyMoves
  <2>5. Formed(rec) /\ Placed(r, rec) /\ ~Provides(rec)
    BY <1>1, <1>4, <2>1 DEF Formed, Placed, Alone, Provides
  <2>6. RowsKnown'
    BY <1>1, <2>2 DEF RowsKnown
  <2>7. ~Provides(req[r])
    BY DEF Provides
  <2>8. \A x \in Requests \ {r} : req[x].op = "new" => req[x].sid # rec.sid
    BY <1>2
  <2> QED
    BY <1>1, <2>2, <2>4, <2>5, <2>6, <2>7, <2>8, StillOrderly DEF SameUse
<1>5. ASSUME NEW s \in store, LabOf[s] = l, sess[s] # "active", Reactivate(r, s, FALSE, q)
      PROVE  Orderly' /\ SameUse
  <2> DEFINE rec == [Idle EXCEPT !.pc = "queued", !.op = "start", !.lab = LabOf[s], !.sid = s]
             t == Waits(r, "open", LabOf[s])
  <2>1. /\ rec.pc = "queued" /\ rec.op = "start" /\ rec.lab = LabOf[s] /\ rec.sid = s /\ rec.own = "shared"
    BY DEF Idle
  <2>2. /\ req' = [req EXCEPT ![r] = rec] /\ sess' = [sess EXCEPT ![s] = "active"]
        /\ store' = store \cup {s} /\ queue' = Append(q, t)
    BY <1>5 DEF Reactivate
  <2>3. t \in Task /\ t.kind = "open" /\ t.by = r /\ TurnOf(t, rec)
    BY <1>1, <1>5, <2>1, ConstantsAssumption DEF Waits, Task, Kinds, TurnOf
  <2> HIDE DEF rec, t
  <2>4. OwnTurns(queue', req') /\ OwedOnce(queue', req') /\ \A k : Owed(k)' <=> Owed(k)
    <3>1. \E u \in Task : /\ queue' = Append(q, u)
                          /\ u.kind # "park" /\ u.by = r /\ TurnOf(u, rec)
      BY <2>2, <2>3
    <3>2. rec.pc # "endwrite" /\ req' = [req EXCEPT ![r] = rec] /\ r \in Requests
      BY <1>1, <2>1, <2>2
    <3> QED
      BY <3>1, <3>2, ReadyMoves
  <2>5. Formed(rec) /\ Provides(rec)
    BY <2>1 DEF Formed, Provides
  <2>6. RowsKnown'
    BY <1>1, <2>2 DEF RowsKnown
  <2>7. /\ \A u \in Sids : ~IsActive(u)
        /\ \A u \in store : LabOf[u] = LabOf[s] => u = s
    BY <1>1, <1>5 DEF IsActive, OnePerLab
  <2>8. s \in Sids
    BY <1>1, <1>5
  <2>9. rec.op # "new" /\ rec.sid = s
    BY <2>1
  <2>10. Orderly' /\ \A u \in Sids : ~Up(u) /\ ~Up(u)'
    BY <2>2, <2>4, <2>5, <2>6, <2>7, <2>8, <2>9, ActivateOrderly
  <2> QED
    BY <2>4, <2>10 DEF SameUse
<1> QED
  BY <1>3, <1>4, <1>5 DEF FindExisting, OpenExisting

\* Nothing is owed while no lab's park is.
LEMMA NothingOwed ==
  ASSUME Inv, \A l \in Labs : ~Owed(l)
  PROVE  NoPark(queue) /\ NoEnd(req)
<1>1. NoPark(queue)
  <2> SUFFICES ASSUME NEW i \in DOMAIN queue, queue[i].kind = "park" PROVE FALSE
    BY DEF NoPark
  <2>1. queue[i] \in Task
    BY InvMemory
  <2> QED
    BY <2>1 DEF Owed, Owes, ParkFor, Task
<1>2. NoEnd(req)
  <2> SUFFICES ASSUME NEW r \in Requests, req[r].pc = "endwrite" PROVE FALSE
    BY DEF NoEnd
  <2>1. LabOf[req[r].sid] \in Labs
    BY ConstantsAssumption DEF Inv, Named
  <2> QED
    BY <2>1 DEF Owed, Owes, EndFor
<1> QED
  BY <1>1, <1>2

\* A handler ends a session in use for which nobody else is at work.
LEMMA EndMoves ==
  ASSUME Inv, Orderly, NEW r \in Requests, req[r].pc = "idle", NEW s \in Sids, IsActive(s),
         \A x \in Requests : req[x].sid = s => req[x].pc = "endwrite",
         \A l \in Labs : ~Owed(l),
         NEW rec, BeginEnd(r, s, rec), rec \in Request, rec.own = "shared", rec.op \in {"start", "end"},
         rec.op = "start" => r \in Openers,
         UNCHANGED <<row, queue>>
  PROVE  Orderly' /\ EndsUse(s)
<1> DEFINE new == [rec EXCEPT !.pc = "endwrite", !.sid = s, !.write = "ended"]
<1>1. new.pc = "endwrite" /\ new.sid = s /\ new.op = rec.op /\ new.own = "shared"
  BY DEF Request
<1>2. /\ req' = [req EXCEPT ![r] = new] /\ sess' = [sess EXCEPT ![s] = "ended"] /\ store' = store
  BY DEF BeginEnd
<1> HIDE DEF new
<1>3. NoPark(queue) /\ NoEnd(req)
  BY NothingOwed
<1>4. /\ Memory /\ req'[r] = new /\ \A x \in Requests \ {r} : req'[x] = req[x]
  BY <1>2, InvMemory
<1>5. OwnTurns(queue', req')
  <2>1. ServesOthers(queue, r)
    BY <1>4, ServedOthers
  <2>2. OwnTurns(queue, req')
    BY <1>4, <2>1, MoveTurns DEF Orderly
  <2> QED
    BY <2>2
<1>6. OwedOnce(queue', req') /\ \A l \in Labs : Owed(l)' <=> l = LabOf[s]
  BY <1>1, <1>3, <1>4 DEF OwedOnce, NoPark, NoEnd, Owed, Owes, ParkFor, EndFor
<1>7. RowsKnown'
  BY <1>2, <1>4 DEF Orderly, RowsKnown
<1>8. Formed(new)
  BY <1>1 DEF Formed
<1>9. \A x \in Requests \ {r} : req[x].sid = s =>
        req[x].pc \notin {"create", "slot", "queued"} /\ req[x].op # "new"
  BY DEF Orderly, Formed
<1>10. rec.op # "new"
  OBVIOUS
<1>11. Orderly' /\ \A t \in Sids : ~IsActive(t)' /\ ~Up(t)'
  BY <1>1, <1>2, <1>5, <1>6, <1>7, <1>8, <1>9, <1>10, EndOrderly
<1> QED
  BY <1>6, <1>11 DEF EndsUse

\* What is in the namespace, and what the running task is about to do to it.
\* Refilling: a reset has emptied the namespace of a session in use.
Refilling == queue # <<>> /\ Head(queue).kind = "reset" /\ step \in {"verify", "fill"}

TaskStep ==
  /\ step # "begin" => queue # <<>> /\ Head(queue).kind # "slot"
  /\ step = "retry" => unparked # None /\ Head(queue).kind # "park"
  /\ step = "wipe" => snap[Parked] = live /\ (Head(queue).kind # "park" => unparked # None)
  /\ step = "reset" => Head(queue).kind = "reset"
  /\ step \in {"reset", "verify", "fill"} => unparked = None /\ Head(queue).kind # "park"
  /\ step = "fill" => live = Empty \/ Refilling
  /\ Refilling => \A l \in Labs : Holds(live, l) => l = Head(queue).lab
  /\ Refilling /\ "stray" \notin Env => live = Empty
  /\ step \in {"reset", "verify", "fill"} /\ Head(queue).kind = "reset" =>
       snap[Head(queue).lab] = NoSnapshot

\* A park that failed leaves nothing but its lab, or nothing at all.
Aside == unparked # None => \A l \in Labs : Holds(live, l) => l = unparked

Space ==
  /\ \A s \in Sids : Up(s) => /\ unparked = None
                              /\ Holds(live, LabOf[s]) \/ Refilling
                              /\ \A l \in Labs : ~Owed(l)
  /\ \A l \in Labs : Owed(l) => unparked = None /\ Holds(live, l)
  /\ Aside
  /\ SnapshotsOwn
  /\ TaskStep

\* A session that is active and in nobody's hand is in use.
LEMMA IdleSession ==
  ASSUME Inv, Orderly, Space, NEW s \in Sids, IsActive(s),
         \A x \in Requests : req[x].sid = s => req[x].pc = "endwrite"
  PROVE  /\ Up(s)
         /\ \A l \in Labs : ~Owed(l)
         /\ unparked = None
         /\ Holds(live, LabOf[s])
<1>1. Up(s)
  BY DEF Up, Provides
<1>2. ASSUME Refilling PROVE FALSE
  <2> DEFINE r == Head(queue).by
  <2>1. r \in Requests /\ req[r].sid \in Sids /\ req[r].pc = "queued" /\ TurnOf(Head(queue), req[r])
    BY <1>2, TurnReady DEF Refilling
  <2>2. Up(req[r].sid)
    BY <1>2, <2>1 DEF TurnOf, Orderly, Placed, Refilling
  <2>3. req[r].sid = s
    BY <2>1, <2>2 DEF Up, Orderly, OneActive
  <2> QED
    BY <2>1, <2>3
<1> QED
  BY <1>1, <1>2 DEF Space

LEMMA ArriveMoves ==
  ASSUME Inv, Orderly, OneTab, Space, NEW r \in Requests, Arrive(r)
  PROVE  Orderly' /\ (SameUse \/ \E s \in Sids : Up(s) /\ EndsUse(s))
<1>1. /\ req[r] = Idle /\ req[r].pc = "idle" /\ UNCHANGED <<row, step, cluster>>
      /\ "early" \notin Env
  BY DEF Arrive, StartRequest, EndRequest, ResetRequest, Orderly, Formed, OneTab
<1>2. Ready(queue, r)
  BY <1>1, IdleReady
<1>3. ASSUME NEW s \in Sids, MayDisturb(s)
      PROVE  \A x \in Requests : req[x].sid = s => req[x].pc = "endwrite"
  BY <1>1, <1>3 DEF MayDisturb, InHand
<1>4. ASSUME NEW s \in Sids, IsActive(s), MayDisturb(s), UNCHANGED queue,
             NEW rec, BeginEnd(r, s, rec), rec \in Request, rec.own = "shared",
             rec.op \in {"start", "end"}, rec.op = "start" => r \in Openers
      PROVE  Orderly' /\ \E t \in Sids : Up(t) /\ EndsUse(t)
  <2>1. /\ \A x \in Requests : req[x].sid = s => req[x].pc = "endwrite"
        /\ \A l \in Labs : ~Owed(l)
        /\ Up(s)
    BY <1>3, <1>4, IdleSession
  <2>2. Orderly' /\ EndsUse(s)
    BY <1>1, <1>4, <2>1, EndMoves
  <2> QED
    BY <2>1, <2>2
<1>5. ASSUME NEW l \in Labs, StartRequest(r, l)
      PROVE  Orderly' /\ (SameUse \/ \E s \in Sids : Up(s) /\ EndsUse(s))
  <2> DEFINE others == {s \in Sids : IsActive(s) /\ LabOf[s] # l}
  <2>1. r \in Openers /\ (\A s \in others : MayDisturb(s)) /\ ClaimSlot(r, l, others, queue)
    BY <1>5 DEF StartRequest
  <2>2. CASE others = {} /\ FindExisting(r, l, queue)
    <3>1. /\ \A s \in Sids : IsActive(s) => LabOf[s] = l
          /\ \A s \in Sids : row'[s] = row[s]
          /\ req[r].pc \notin {"create", "slot", "queued", "delete"}
      BY <1>1, <2>2
    <3> QED
      BY <1>2, <2>1, <2>2, <3>1, FindMoves
  <2>3. ASSUME NEW s \in others, UNCHANGED queue,
               BeginEnd(r, s, [Idle EXCEPT !.op = "start", !.lab = l, !.todo = others \ {s}])
        PROVE  Orderly' /\ \E t \in Sids : Up(t) /\ EndsUse(t)
    <3> DEFINE rec == [Idle EXCEPT !.op = "start", !.lab = l, !.todo = others \ {s}]
    <3>1. rec \in Request /\ rec.own = "shared" /\ rec.op = "start"
      BY DEF Idle, Request, Status
    <3>2. s \in Sids /\ IsActive(s) /\ MayDisturb(s) /\ BeginEnd(r, s, rec)
      BY <2>1, <2>3
    <3> HIDE DEF rec
    <3> QED
      BY <1>4, <2>1, <2>3, <3>1, <3>2
  <2> QED
    BY <2>1, <2>2, <2>3 DEF ClaimSlot
<1>6. ASSUME NEW s \in Sids, EndRequest(r, s)
      PROVE  Orderly' /\ \E t \in Sids : Up(t) /\ EndsUse(t)
  <2> DEFINE rec == [Idle EXCEPT !.op = "end"]
  <2>1. rec \in Request /\ rec.own = "shared" /\ rec.op = "end"
    BY DEF Idle, Request, Status
  <2>2. IsActive(s) /\ MayDisturb(s) /\ BeginEnd(r, s, rec) /\ UNCHANGED queue
    BY <1>6 DEF EndRequest, Known
  <2> HIDE DEF rec
  <2> QED
    BY <1>4, <2>1, <2>2
<1>7. ASSUME NEW s \in Sids, ResetRequest(r, s)
      PROVE  Orderly' /\ SameUse
  <2> DEFINE rec == [Idle EXCEPT !.pc = "queued", !.op = "reset", !.lab = LabOf[s], !.sid = s]
             t == Waits(r, "reset", LabOf[s])
  <2>1. /\ rec.pc = "queued" /\ rec.op = "reset" /\ rec.lab = LabOf[s] /\ rec.sid = s /\ rec.own = "shared"
    BY DEF Idle
  <2>2. /\ req' = [req EXCEPT ![r] = rec] /\ queue' = Append(queue, t) /\ UNCHANGED <<sess, store, row>>
        /\ IsActive(s) /\ MayDisturb(s) /\ "reset" \in Ops
    BY <1>7 DEF ResetRequest, Known
  <2>3. t \in Task /\ t.kind = "reset" /\ t.by = r /\ TurnOf(t, rec)
    BY <2>1, <2>2, ConstantsAssumption DEF Waits, Task, Kinds, TurnOf
  <2> HIDE DEF rec, t
  <2>4. OwnTurns(queue', req') /\ OwedOnce(queue', req') /\ \A k : Owed(k)' <=> Owed(k)
    BY <1>2, <2>1, <2>2, <2>3, ReadyMoves
  <2>5. Up(s) /\ \A x \in Requests : req[x].sid = s => req[x].pc = "endwrite"
    BY <1>3, <2>2, IdleSession
  <2>6. Formed(rec) /\ Placed(r, rec) /\ ~Provides(rec)
    BY <2>1, <2>2, <2>5 DEF Formed, Placed, Alone, Provides, IsActive
  <2>7. RowsKnown'
    BY <1>1, <2>2, InvMemory DEF Orderly, RowsKnown
  <2>8. ~Provides(req[r])
    BY <1>1 DEF Provides
  <2>9. \A x \in Requests \ {r} : req[x].op = "new" => req[x].sid # rec.sid
    BY <2>1, <2>5 DEF Orderly, Formed
  <2> QED
    BY <2>2, <2>4, <2>6, <2>7, <2>8, <2>9, StillOrderly DEF SameUse
<1> QED
  BY <1>5, <1>6, <1>7 DEF Arrive

LEMMA AnswerMoves ==
  ASSUME Inv, Orderly, NEW r \in Requests, NEW q, Ready(q, r), queue' = q, Answer(r),
         ~Provides(req[r]), UNCHANGED <<sess, store>>, RowsKnown'
  PROVE  Orderly' /\ SameUse
<1> DEFINE rec == Idle
<1>1. /\ rec.pc = "idle" /\ rec.op = "none" /\ rec.sid = None /\ rec.own = "shared" /\ rec = Idle
      /\ req' = [req EXCEPT ![r] = rec]
  BY DEF Idle, Answer
<1> HIDE DEF rec
<1>2. OwnTurns(queue', req') /\ OwedOnce(queue', req') /\ \A k : Owed(k)' <=> Owed(k)
  BY <1>1, ReadyMoves
<1>3. Formed(rec) /\ Placed(r, rec) /\ ~Provides(rec)
  BY <1>1 DEF Formed, Placed, Alone, Provides
<1>4. \A x \in Requests \ {r} : req[x].op = "new" => req[x].sid # rec.sid
  BY <1>1, NewNamed, ConstantsAssumption
<1> QED
  BY <1>1, <1>2, <1>3, <1>4, StillOrderly DEF SameUse

LEMMA HandlerMoves ==
  ASSUME Inv, Orderly, OneTab, NEW r \in Requests, Handler(r)
  PROVE  Orderly' /\ SameUse
<1> DEFINE old == req[r]
<1>1. /\ old \in Request /\ Formed(old) /\ Placed(r, old) /\ RowsKnown
      /\ old.pc \notin {"idle", "lookup"} => old.sid \in Sids
      /\ req \in [Requests -> Request] /\ row \in [Sids -> {"none"} \cup Status]
      /\ "db" \notin Env
  BY NewNamed DEF Inv, TypeOK, Orderly, OneTab
<1>2. old.pc \notin {"idle", "lookup", "delete"} => old.sid \in store
  BY <1>1 DEF Placed
<1>3. CASE EndWritten(r)
  <2> DEFINE q == Append(queue, Park(LabOf[old.sid]))
  <2>1. /\ old.pc = "endwrite" /\ row' = [row EXCEPT ![old.sid] = old.write] /\ AfterEnd(r, q)
    BY <1>3 DEF EndWritten
  <2>2. Ready(q, r)
    BY <2>1, EndReady
  <2>3. \A s \in Sids : row'[s] = row[s] \/ s \in store
    BY <1>1, <1>2, <2>1
  <2> HIDE DEF q
  <2>4. CASE old.op = "end"
    <3>1. Answer(r) /\ queue' = q /\ UNCHANGED <<sess, store>>
      BY <2>1, <2>4 DEF AfterEnd
    <3>2. RowsKnown'
      BY <1>1, <2>1, <2>3, <3>1 DEF RowsKnown, Answer
    <3>3. ~Provides(req[r])
      BY <2>1 DEF Provides
    <3> QED
      BY <2>2, <3>1, <3>2, <3>3, AnswerMoves
  <2>5. CASE old.op = "start"
    <3>1. r \in Openers /\ \A s \in Sids : ~IsActive(s)
      BY <1>1, <2>1, <2>5 DEF Placed, Alone
    <3>2. old.todo \in SUBSET Sids
      BY <1>1 DEF Request
    <3>3. {s \in old.todo : IsActive(s)} = {}
      BY <3>1, <3>2
    <3>4. FindExisting(r, old.lab, q)
      BY <2>1, <2>5, <3>3 DEF AfterEnd, ClaimSlot
    <3>5. /\ \A s \in Sids : IsActive(s) => LabOf[s] = old.lab
          /\ req[r].pc \notin {"create", "slot", "queued", "delete"}
      BY <2>1, <3>1
    <3> HIDE DEF old
    <3> QED
      BY <2>2, <2>3, <3>1, <3>4, <3>5, FindMoves
  <2> QED
    BY <1>1, <2>1, <2>4, <2>5 DEF Formed
<1>4. ASSUME NEW s \in Sids, FoundInTable(r, s)
      PROVE  FALSE
  <2>1. old.pc = "lookup" /\ LabOf[s] = old.lab /\ row[s] # "none"
    BY <1>4 DEF FoundInTable
  <2>2. s \notin store /\ r \in Openers
    BY <1>1, <2>1 DEF Placed, Formed
  <2>3. PICK x \in Requests : req[x].pc = "delete"
    BY <1>1, <2>1, <2>2 DEF RowsKnown
  <2>4. x \in Openers /\ x # r
    BY <2>1, <2>3 DEF Orderly, Formed, Placed
  <2> QED
    BY <2>2, <2>4, <1>1 DEF OneTab, Orderly, Placed, Formed
<1>5. ASSUME NEW s \in Sids, NewSession(r, s)
      PROVE  Orderly' /\ SameUse
  <2> DEFINE rec == [old EXCEPT !.pc = "create", !.op = "new", !.sid = s, !.write = "active"]
  <2>1. /\ old.pc = "lookup" /\ LabOf[s] = old.lab /\ Fresh(s) /\ UNCHANGED <<row, queue>>
        /\ sess' = [sess EXCEPT ![s] = "active"] /\ store' = store \cup {s}
        /\ req' = [req EXCEPT ![r] = rec]
    BY <1>5 DEF NewSession
  <2>2. /\ rec.pc = "create" /\ rec.op = "new" /\ rec.sid = s /\ rec.lab = LabOf[s] /\ rec.own = "shared"
    BY <1>1, <2>1 DEF Request, Formed
  <2> HIDE DEF rec
  <2>3. /\ r \in Openers /\ \A t \in Sids : ~IsActive(t)
        /\ \A t \in store : LabOf[t] = LabOf[s] => t = s
    BY <1>1, <2>1 DEF Placed, Formed, Alone
  <2>4. Ready(queue, r)
    BY <2>1, IdleReady
  <2>5. OwnTurns(queue', req') /\ OwedOnce(queue', req') /\ \A k : Owed(k)' <=> Owed(k)
    BY <2>1, <2>2, <2>4, ReadyMoves
  <2>6. Formed(rec) /\ Provides(rec)
    BY <2>2 DEF Formed, Provides
  <2>7. RowsKnown'
    BY <1>1, <2>1 DEF RowsKnown
  <2>8. rec.op = "new" => \A x \in Requests \ {r} : req[x].sid # s
    BY <2>1 DEF Fresh
  <2> QED
    BY <2>1, <2>2, <2>3, <2>5, <2>6, <2>7, <2>8, ActivateOrderly DEF SameUse
<1>6. CASE Created(r)
  <2> DEFINE rec == [old EXCEPT !.pc = "queued", !.write = "none"]
             t == Waits(r, "open", old.lab)
  <2>1. /\ old.pc = "create" /\ row' = [row EXCEPT ![old.sid] = old.write]
        /\ req' = [req EXCEPT ![r] = rec] /\ queue' = Append(queue, t)
        /\ sess' = sess /\ store' = store
    BY <1>1, <1>6 DEF Created
  <2>2. /\ rec.pc = "queued" /\ rec.op = "new" /\ old.op = "new" /\ rec.sid = old.sid
        /\ rec.lab = LabOf[old.sid] /\ old.lab = LabOf[old.sid] /\ rec.own = "shared"
    BY <1>1, <2>1 DEF Request, Formed
  <2>3. t \in Task /\ t.kind = "open" /\ t.by = r /\ TurnOf(t, rec)
    BY <1>1, <2>1, <2>2, ConstantsAssumption DEF Waits, Task, Kinds, TurnOf
  <2> HIDE DEF rec, t
  <2>4. Ready(queue, r)
    BY <2>1, IdleReady
  <2>5. OwnTurns(queue', req') /\ OwedOnce(queue', req') /\ \A k : Owed(k)' <=> Owed(k)
    BY <2>1, <2>2, <2>3, <2>4, ReadyMoves
  <2>6. Formed(rec) /\ Placed(r, rec) /\ Provides(rec) /\ Provides(req[r])
    BY <1>1, <2>1, <2>2 DEF Formed, Placed, Alone, Provides
  <2>7. RowsKnown'
    BY <1>1, <1>2, <2>1 DEF RowsKnown
  <2>8. \A x \in Requests \ {r} : req[x].op = "new" => req[x].sid # rec.sid
    BY <1>1, <2>2 DEF Placed
  <2> QED
    BY <2>1, <2>2, <2>5, <2>6, <2>7, <2>8, StillOrderly DEF SameUse
<1>7. CASE Persisted(r)
  <2>1. /\ old.pc = "persist" /\ row' = [row EXCEPT ![old.sid] = old.write] /\ Answer(r)
        /\ UNCHANGED <<sess, store, queue>>
    BY <1>7 DEF Persisted
  <2>2. RowsKnown'
    BY <1>1, <1>2, <2>1 DEF RowsKnown, Answer
  <2>3. ~Provides(req[r]) /\ Ready(queue, r)
    BY <2>1, IdleReady DEF Provides
  <2> QED
    BY <2>1, <2>2, <2>3, AnswerMoves
<1>8. CASE FailureWritten(r)
  <2>1. /\ old.pc = "fail" /\ UNCHANGED <<sess, queue>>
        /\ \A s \in Sids : row'[s] = row[s] \/ s = old.sid
    BY <1>1, <1>8 DEF FailureWritten
  <2>2. ~Provides(req[r]) /\ Ready(queue, r)
    BY <2>1, IdleReady DEF Provides
  <2>3. CASE Answer(r) /\ UNCHANGED store
    <3>1. RowsKnown'
      BY <1>1, <1>2, <2>1, <2>3 DEF RowsKnown, Answer
    <3> QED
      BY <2>1, <2>2, <2>3, <3>1, AnswerMoves
  <2>4. CASE /\ old.op = "new" /\ store' = store \ {old.sid}
             /\ req' = [req EXCEPT ![r].pc = "delete", ![r].write = "none"]
    <3> DEFINE rec == [old EXCEPT !.pc = "delete", !.write = "none"]
    <3>1. /\ req' = [req EXCEPT ![r] = rec] /\ rec.pc = "delete" /\ rec.op = "new" /\ rec.sid = old.sid
          /\ rec.own = "shared"
      BY <1>1, <2>4 DEF Request, Formed
    <3> HIDE DEF rec
    <3>2. OwnTurns(queue', req') /\ OwedOnce(queue', req') /\ \A k : Owed(k)' <=> Owed(k)
      BY <2>1, <2>2, <3>1, ReadyMoves
    <3>3. Formed(rec)
      BY <3>1 DEF Formed
    <3>4. RowsKnown'
      BY <1>1, <2>1, <2>4, <3>1 DEF RowsKnown
    <3> QED
      BY <2>1, <2>4, <3>1, <3>2, <3>3, <3>4, DropOrderly DEF SameUse
  <2> QED
    BY <1>8, <2>3, <2>4 DEF FailureWritten
<1>9. CASE Deleted(r)
  <2>1. /\ old.pc = "delete" /\ row' = [row EXCEPT ![old.sid] = "none"] /\ Answer(r)
        /\ UNCHANGED <<sess, store, queue>>
    BY <1>1, <1>9 DEF Deleted
  <2>2. RowsKnown'
    BY <1>1, <2>1 DEF RowsKnown, Answer
  <2>3. ~Provides(req[r]) /\ Ready(queue, r)
    BY <2>1, IdleReady DEF Provides
  <2> QED
    BY <2>1, <2>2, <2>3, AnswerMoves
<1> QED
  BY <1>1, <1>3, <1>4, <1>5, <1>6, <1>7, <1>8, <1>9
  DEF Handler, EndWriteFails, CreateFails, PersistFails

-----------------------------------------------------------------------------
(* What the end of a task does to sessions.                                  *)

LEMMA MemorySame ==
  ASSUME Inv, Orderly, UNCHANGED memory, UNCHANGED row
  PROVE  Orderly' /\ SameUse
<1>1. \A s \in Sids : IsActive(s)' <=> IsActive(s)
  BY DEF memory, IsActive
<1>2. \A s \in Sids : Up(s)' <=> Up(s)
  BY <1>1 DEF memory, Up
<1>3. \A l : Owed(l)' <=> Owed(l)
  BY DEF memory, Owed, Owes, ParkFor, EndFor
<1>4. \A r \in Requests : req'[r] = req[r]
  BY DEF memory
<1>5. \A r \in Requests : Formed(req'[r]) /\ Placed(r, req[r])'
  <2> SUFFICES ASSUME NEW r \in Requests PROVE Formed(req'[r]) /\ Placed(r, req[r])'
    OBVIOUS
  <2>1. Formed(req[r]) /\ Placed(r, req[r])
    BY DEF Orderly
  <2>2. req[r].pc = "queued" => req[r].sid \in Sids
    BY NewNamed
  <2> QED
    BY <1>1, <1>2, <1>4, <2>1, <2>2 DEF Placed, Alone, memory
<1>6. OnePerLab' /\ OneActive' /\ RowsKnown'
  BY <1>1 DEF Orderly, OnePerLab, OneActive, RowsKnown, memory
<1>7. OwnTurns(queue', req') /\ OwedOnce(queue', req')
  BY DEF Orderly, memory, OwnTurns, OwedOnce, NoPark, NoEnd
<1> QED
  BY <1>2, <1>3, <1>5, <1>6, <1>7 DEF Orderly, SameUse

\* A park is done.
LEMMA ParkMoves ==
  ASSUME Inv, Orderly, queue # <<>>, Head(queue).kind = "park",
         queue' = Tail(queue), UNCHANGED <<sess, store, req, row>>
  PROVE  /\ Orderly'
         /\ \A s \in Sids : Up(s)' <=> Up(s)
         /\ \A l : ~Owed(l)'
<1>1. \A s \in Sids : IsActive(s)' <=> IsActive(s)
  BY DEF IsActive
<1>2. \A s \in Sids : Up(s)' <=> Up(s)
  BY <1>1 DEF Up
<1>3. queue \in Seq(Task) /\ OwedOnce(queue, req) /\ OwnTurns(queue, req)
  BY InvMemory DEF Orderly
<1>4. OwedOnce(Tail(queue), req) /\ OwnTurns(Tail(queue), req) /\ \A l : ~Owes(Tail(queue), req, l)
  BY <1>3, TailOwes, TailTurns
<1>5. \A l : ~Owed(l)'
  BY <1>4 DEF Owed, Owes, ParkFor, EndFor
<1>6. \A r \in Requests : Formed(req'[r]) /\ Placed(r, req[r])'
  <2> SUFFICES ASSUME NEW r \in Requests PROVE Formed(req'[r]) /\ Placed(r, req[r])'
    OBVIOUS
  <2>1. Formed(req[r]) /\ Placed(r, req[r])
    BY DEF Orderly
  <2>2. req[r].pc = "queued" => req[r].sid \in Sids
    BY NewNamed
  <2> QED
    BY <1>1, <1>2, <2>1, <2>2 DEF Placed, Alone
<1>7. OnePerLab' /\ OneActive' /\ RowsKnown'
  BY <1>1 DEF Orderly, OnePerLab, OneActive, RowsKnown
<1>8. OwnTurns(queue', req') /\ OwedOnce(queue', req')
  BY <1>4
<1> QED
  BY <1>2, <1>5, <1>6, <1>7, <1>8 DEF Orderly

\* A start that found its lab open has had its turn.
LEMMA SlotMoves ==
  ASSUME Inv, Orderly, OneTab, SlotTaken
  PROVE  /\ Orderly' /\ SameUse
         /\ Answer(Head(queue).by)
         /\ Up(req[Head(queue).by].sid)
<1> DEFINE r == Head(queue).by
<1>1. /\ queue # <<>> /\ Head(queue).kind = "slot" /\ row' = row
      /\ \/ Seen(r) = "active" /\ Answer(r) /\ queue' = Tail(queue) /\ UNCHANGED <<sess, store>>
         \/ Seen(r) # "active" /\ Reactivate(r, req[r].sid, req[r].own # "shared", Tail(queue))
  BY DEF SlotTaken
<1>2. r \in Requests /\ req[r].pc = "slot" /\ req[r].sid \in Sids /\ Ready(Tail(queue), r)
  BY <1>1, TurnReady
<1>3. Formed(req[r]) /\ Placed(r, req[r])
  BY <1>2, NewNamed
<1>4. sess[req[r].sid] = "active" /\ Seen(r) = "active" /\ r \in Openers /\ req[r].sid \in store
  BY <1>2, <1>3 DEF Formed, Placed, Seen
<1>5. ~Provides(req[r])
  BY <1>2 DEF Provides
<1>6. RowsKnown'
  <2>1. RowsKnown
    BY DEF Orderly
  <2> QED
    BY <1>1, <1>2, <1>4, <2>1, InvMemory DEF RowsKnown, Answer
<1>7. Orderly' /\ SameUse
  BY <1>1, <1>2, <1>4, <1>5, <1>6, AnswerMoves
<1>8. Up(req[r].sid)
  <2> SUFFICES ASSUME NEW x \in Requests, Provides(req[x]) PROVE x = r
    BY <1>4, <1>5 DEF Up, IsActive
  <2> QED
    BY <1>4 DEF Orderly, Placed, Provides, OneTab
<1> QED
  BY <1>1, <1>4, <1>7, <1>8

\* An open provides its session; a reset leaves its session in use.
LEMMA DoneMoves ==
  ASSUME Inv, Orderly, OneTab, queue # <<>>, Head(queue).kind \in Provisioning,
         TaskDone(Head(queue).by)
  PROVE  /\ Orderly'
         /\ \A l \in Labs : Owed(l)' <=> Owed(l)
         /\ \A s \in Sids : Up(s)' => LabOf[s] = Head(queue).lab
         /\ \E s \in Sids : Up(s)' /\ LabOf[s] = Head(queue).lab
<1> DEFINE r == Head(queue).by
           old == req[r]
<1>1. /\ r \in Requests /\ old.pc = "queued" /\ old.sid \in Sids /\ Ready(Tail(queue), r)
      /\ LabOf[old.sid] = Head(queue).lab
  BY TurnReady DEF Provisioning, TurnOf
<1>2. /\ old \in Request /\ Formed(old) /\ Placed(r, old) /\ RowsKnown
      /\ req \in [Requests -> Request] /\ sess \in [Sids -> Status]
  BY <1>1, NewNamed DEF Orderly, Inv, TypeOK
<1>3. sess[old.sid] = "active" /\ old.sid \in store /\ Seen(r) = "active" /\ IsActive(old.sid)
  BY <1>1, <1>2 DEF Placed, Formed, Seen, IsActive
<1>4. /\ queue' = Tail(queue) /\ UNCHANGED <<store, row>>
      /\ \/ old.op = "start"
            /\ req' = [req EXCEPT ![r] = [old EXCEPT !.pc = "persist", !.own = "shared",
                                                    !.write = Seen(r)]]
            /\ UNCHANGED sess
         \/ old.op = "new" /\ Answer(r) /\ UNCHANGED sess
         \/ /\ old.op = "reset"
            /\ SetSeen(r, "active")
            /\ req' = [req EXCEPT ![r] = [old EXCEPT !.pc = "persist", !.own = "shared",
                                                    !.write = "active"]]
  BY <1>2 DEF TaskDone, NextTask
<1>5. UNCHANGED sess
  <2>1. CASE old.op = "reset"
    <3>1. SetSeen(r, "active")
      BY <1>4, <2>1
    <3>2. old.own = "shared"
      BY <1>2 DEF Formed
    <3>3. sess' = [sess EXCEPT ![old.sid] = "active"]
      BY <3>1, <3>2 DEF SetSeen
    <3> QED
      BY <1>2, <1>3, <3>3
  <2>2. CASE old.op # "reset"
    BY <1>4, <2>2
  <2> QED
    BY <2>1, <2>2
<1>6. PICK rec : /\ req' = [req EXCEPT ![r] = rec]
                 /\ \/ rec = Idle
                    \/ /\ rec.pc = "persist" /\ rec.op = old.op /\ old.op \in {"start", "reset"}
                       /\ rec.sid = old.sid /\ rec.own = "shared"
  <2>1. CASE old.op = "new"
    BY <1>4, <2>1 DEF Answer
  <2>2. CASE old.op \in {"start", "reset"}
    <3>1. PICK w : req' = [req EXCEPT ![r] = [old EXCEPT !.pc = "persist", !.own = "shared", !.write = w]]
      BY <1>4, <2>2
    <3> DEFINE new == [old EXCEPT !.pc = "persist", !.own = "shared", !.write = w]
    <3>2. new.pc = "persist" /\ new.op = old.op /\ new.sid = old.sid /\ new.own = "shared"
      BY <1>2 DEF Request
    <3> HIDE DEF new
    <3>3. req' = [req EXCEPT ![r] = new]
      BY <3>1 DEF new
    <3> QED
      BY <2>2, <3>2, <3>3
  <2> QED
    BY <1>4, <2>1, <2>2
<1>7. Idle.pc = "idle" /\ Idle.op = "none" /\ Idle.sid = None /\ Idle.own = "shared"
  BY DEF Idle
<1>8. OwnTurns(queue', req') /\ OwedOnce(queue', req') /\ \A l : Owed(l)' <=> Owed(l)
  BY <1>1, <1>4, <1>6, <1>7, ReadyMoves
<1>9. Formed(rec) /\ Placed(r, rec) /\ ~Provides(rec)
  <2>1. CASE rec = Idle
    BY <1>7, <2>1 DEF Formed, Placed, Provides, Alone
  <2>2. CASE rec.pc = "persist" /\ rec.op = old.op /\ old.op \in {"start", "reset"}
             /\ rec.sid = old.sid /\ rec.own = "shared"
    BY <1>2, <1>3, <2>2 DEF Formed, Placed, Provides, Alone
  <2> QED
    BY <1>6, <2>1, <2>2
<1>10. \A x \in Requests \ {r} : req[x].op = "new" => req[x].sid # rec.sid
  <2>1. \A x \in Requests \ {r} : req[x].op = "new" => req[x].sid # old.sid /\ req[x].sid # None
    BY <1>1, NewNamed, ConstantsAssumption DEF Placed
  <2> QED
    BY <1>6, <1>7, <2>1
<1>11. RowsKnown'
  BY <1>1, <1>2, <1>4, <1>6 DEF RowsKnown
<1>12. /\ Orderly'
       /\ \A s \in Sids : Up(s) => Up(s)'
       /\ \A s \in Sids : Up(s)' => Up(s) \/ (Provides(req[r]) /\ ~Provides(rec) /\ s = req[r].sid)
  <2> HIDE DEF r
  <2> QED
    BY <1>1, <1>4, <1>5, <1>6, <1>8, <1>9, <1>10, <1>11, StillOrderly
<1> PICK u \in Sids : u = old.sid
  BY <1>1
<1>13. \A s \in Sids : Up(s)' => s = u
  BY <1>1, <1>3, <1>12 DEF Up, Orderly, OneActive
<1>14. Up(u)'
  <2>1. CASE old.op = "reset"
    BY <1>1, <1>2, <1>12, <2>1 DEF Placed
  <2>2. CASE old.op # "reset"
    <3>1. r \in Openers
      BY <1>1, <1>2, <2>2 DEF Formed, Placed
    <3>2. \A x \in Requests : ~Provides(req'[x])
      <4> SUFFICES ASSUME NEW x \in Requests, x # r PROVE ~Provides(req'[x])
        BY <1>1, <1>2, <1>6, <1>9
      <4>1. req'[x] = req[x]
        BY <1>2, <1>6
      <4> QED
        BY <3>1, <4>1 DEF Orderly, Placed, Provides, OneTab
    <3> QED
      BY <1>3, <1>4, <1>5, <3>2 DEF Up, IsActive
  <2> QED
    BY <2>1, <2>2
<1> QED
  BY <1>1, <1>8, <1>12, <1>13, <1>14

\* A failed open leaves no session in use; a failed reset changes nothing.
LEMMA FailMoves ==
  ASSUME Inv, Orderly, OneTab, queue # <<>>, Head(queue).kind \in Provisioning,
         TaskFails(Head(queue).by)
  PROVE  /\ Orderly'
         /\ \A l \in Labs : Owed(l)' <=> Owed(l)
         /\ \A s \in Sids : Up(s)' <=> Up(s)
         /\ Head(queue).kind = "open" => \A s \in Sids : ~Up(s)
<1> DEFINE r == Head(queue).by
           old == req[r]
<1>1. /\ r \in Requests /\ old.pc = "queued" /\ old.sid \in Sids /\ Ready(Tail(queue), r)
      /\ TurnOf(Head(queue), old)
  BY TurnReady DEF Provisioning
<1>2. /\ old \in Request /\ Formed(old) /\ Placed(r, old) /\ RowsKnown
      /\ req \in [Requests -> Request] /\ sess \in [Sids -> Status]
  BY <1>1, NewNamed DEF Orderly, Inv, TypeOK
<1>3. IsActive(old.sid) /\ queue' = Tail(queue) /\ UNCHANGED <<store, row>>
  BY <1>1, <1>2 DEF Placed, IsActive, TaskFails, NextTask
<1>4. CASE Head(queue).kind = "reset"
  <2>1. old.op = "reset" /\ Answer(r) /\ UNCHANGED sess
    BY <1>1, <1>4 DEF TurnOf, TaskFails
  <2>2. ~Provides(old)
    BY <2>1 DEF Provides
  <2>3. RowsKnown'
    BY <1>1, <1>2, <1>3, <2>1 DEF RowsKnown, Answer
  <2>4. Orderly' /\ SameUse
    BY <1>1, <1>3, <2>1, <2>2, <2>3, AnswerMoves
  <2> QED
    BY <1>4, <2>4 DEF SameUse
<1>5. CASE Head(queue).kind = "open"
  <2> DEFINE rec == [old EXCEPT !.pc = "fail", !.own = "shared", !.write = "ended"]
  <2>1. /\ old.op \in {"start", "new"} /\ r \in Openers
        /\ sess' = [sess EXCEPT ![old.sid] = "ended"] /\ req' = [req EXCEPT ![r] = rec]
    BY <1>1, <1>2, <1>5 DEF TurnOf, TaskFails, SetSeen, Formed, Placed
  <2>2. rec.pc = "fail" /\ rec.op = old.op /\ rec.sid = old.sid /\ rec.own = "shared"
    BY <1>2 DEF Request
  <2> HIDE DEF rec
  <2>3. OwnTurns(queue', req') /\ OwedOnce(queue', req') /\ \A l : Owed(l)' <=> Owed(l)
    BY <1>1, <1>3, <2>1, <2>2, ReadyMoves
  <2>4. Formed(rec)
    BY <2>1, <2>2 DEF Formed
  <2>5. RowsKnown'
    BY <1>1, <1>2, <1>3, <2>1 DEF RowsKnown
  <2>6. \A x \in Requests \ {r} : req[x].sid = old.sid =>
          req[x].pc \notin {"create", "slot", "queued"} /\ req[x].op # "new"
    <3> SUFFICES ASSUME NEW x \in Requests, x # r, req[x].sid = old.sid
                 PROVE  req[x].pc \notin {"create", "slot", "queued"} /\ req[x].op # "new"
      OBVIOUS
    <3>1. Formed(req[x]) /\ Placed(x, req[x]) /\ req[x].op \notin {"start", "new"}
      BY <2>1 DEF Orderly, OneTab, Placed
    <3>2. ~Up(old.sid)
      BY <1>1, <2>1 DEF Up, Provides
    <3> QED
      BY <3>1, <3>2 DEF Formed, Placed
  <2>7. \A s \in Sids : ~Up(s)
    BY <1>1, <1>3, <2>1 DEF Up, Provides, Orderly, OneActive
  <2>8. rec.op = "new" => old.op = "new" /\ old.sid = old.sid
    BY <2>2
  <2>9. Orderly' /\ \A t \in Sids : ~IsActive(t)' /\ ~Up(t)'
    <3> HIDE DEF r
    <3> QED
      BY <1>1, <1>3, <2>1, <2>2, <2>3, <2>4, <2>5, <2>6, EndOrderly
  <2> QED
    BY <2>3, <2>7, <2>9
<1> QED
  BY <1>4, <1>5 DEF Provisioning

-----------------------------------------------------------------------------
(* Every step keeps the namespace in order.                                  *)

\* The tasks a handler may put on the chain, and a chain on which the task at the
\* head is the one that runs.
Turns == [kind : Kinds, by : Requests \cup {None},
          lab : Labs \cup {LabOf[req[x].sid] : x \in Requests} \cup {req[x].lab : x \in Requests}]
Kept(q) == q \in Seq(Turns) /\ (queue # <<>> => q # <<>> /\ Head(q) = Head(queue))

LEMMA AppendKept ==
  ASSUME NEW q, Kept(q), NEW t \in Turns
  PROVE  Kept(Append(q, t))
<1> DEFINE p == Append(q, t)
<1>1. q \in Seq(Turns) /\ p \in Seq(Turns) /\ Len(p) = Len(q) + 1 /\ Len(q) \in Nat
  BY DEF Kept
<1>2. p # <<>>
  BY <1>1
<1>3. ASSUME q # <<>> PROVE Head(p) = Head(q)
  BY <1>1, <1>3
<1> QED
  BY <1>1, <1>2, <1>3 DEF Kept

\* Requests and handlers leave the namespace and the running task alone.
LEMMA TaskKept ==
  ASSUME Inv, NEW r \in Requests, Arrive(r) \/ Handler(r)
  PROVE  /\ UNCHANGED <<step, live, snap, unparked, progress>>
         /\ queue # <<>> => queue' # <<>> /\ Head(queue') = Head(queue)
<1>1. UNCHANGED <<step, live, snap, unparked, progress>>
  BY DEF Arrive, StartRequest, EndRequest, ResetRequest, Handler, EndWritten, EndWriteFails,
         FoundInTable, NewSession, Created, CreateFails, Persisted, PersistFails,
         FailureWritten, Deleted, cluster
<1>2. Kept(queue)
  <2>1. \A t \in Task : t \in Turns
    BY DEF Task, Turns
  <2> QED
    BY <2>1, InvMemory DEF Kept
<1>4. \A s \in Sids, k \in Kinds : Waits(r, k, LabOf[s]) \in Turns
  BY ConstantsAssumption DEF Waits, Turns
<1>5. Park(LabOf[req[r].sid]) \in Turns
  BY DEF Kinds, Park, Turns
<1>3. Waits(r, "open", req[r].lab) \in Turns
  BY DEF Kinds, Waits, Turns
<1>6. ASSUME NEW s \in Sids, NEW status, NEW fresh, NEW q, Kept(q), OpenExisting(r, s, status, fresh, q)
      PROVE  Kept(queue')
  <2>1. PICK t \in Turns : queue' = Append(q, t)
    BY <1>4, <1>6 DEF OpenExisting, Resume, Reactivate, Kinds
  <2>2. Kept(Append(q, t))
    BY <1>6, AppendKept
  <2> QED
    BY <2>1, <2>2
<1>7. ASSUME NEW l, NEW others, NEW q, Kept(q), ClaimSlot(r, l, others, q)
      PROVE  Kept(queue')
  <2>1. store \subseteq Sids
    BY DEF Inv, TypeOK
  <2> QED
    BY <1>6, <1>7, <2>1 DEF ClaimSlot, FindExisting
<1>8. ASSUME Arrive(r)
      PROVE  Kept(queue')
  <2>1. ASSUME NEW l, StartRequest(r, l)
        PROVE  Kept(queue')
    BY <1>2, <1>7, <2>1 DEF StartRequest
  <2>2. ASSUME NEW s \in Sids, ResetRequest(r, s)
        PROVE  Kept(queue')
    <3>1. PICK t \in Turns : queue' = Append(queue, t)
      BY <1>4, <2>2 DEF ResetRequest, Kinds
    <3>2. Kept(Append(queue, t))
      BY <1>2, AppendKept
    <3> QED
      BY <3>1, <3>2
  <2>3. ASSUME NEW s \in Sids, EndRequest(r, s)
        PROVE  Kept(queue')
    BY <1>2, <2>3 DEF EndRequest
  <2> QED
    BY <1>8, <2>1, <2>2, <2>3 DEF Arrive
<1>9. ASSUME NEW q, Kept(q), AfterEnd(r, q)
      PROVE  Kept(queue')
  <2>1. PICK todo : todo = {s \in req[r].todo : IsActive(s)}
    OBVIOUS
  <2>2. queue' = q \/ ClaimSlot(r, req[r].lab, todo, q)
    BY <1>9, <2>1 DEF AfterEnd
  <2> QED
    BY <1>7, <1>9, <2>2
<1>10. ASSUME Handler(r)
      PROVE  Kept(queue')
  <2>1. Kept(Append(queue, Park(LabOf[req[r].sid])))
    BY <1>2, <1>5, AppendKept
  <2>2. Kept(Append(queue, Waits(r, "open", req[r].lab)))
    BY <1>2, <1>3, AppendKept
  <2>3. CASE EndWritten(r) \/ EndWriteFails(r)
    BY <1>2, <1>9, <2>1, <2>3 DEF EndWritten, EndWriteFails
  <2>4. ASSUME NEW s \in Sids, FoundInTable(r, s)
        PROVE  Kept(queue')
    BY <1>2, <1>6, <2>4 DEF FoundInTable
  <2>5. CASE Created(r)
    BY <2>2, <2>5 DEF Created
  <2>6. ASSUME UNCHANGED queue
        PROVE  Kept(queue')
    BY <1>2, <2>6
  <2> QED
    BY <1>10, <2>3, <2>4, <2>5, <2>6
    DEF Handler, NewSession, CreateFails, Persisted, PersistFails, FailureWritten, Deleted
<1>11. Kept(queue')
  BY <1>8, <1>10
<1> QED
  BY <1>1, <1>11 DEF Kept

LEMMA MoveSpace ==
  ASSUME Inv, Orderly, Space, OneTab, NEW r \in Requests, Arrive(r) \/ Handler(r)
  PROVE  Space'
<1>1. /\ UNCHANGED <<step, live, snap, unparked, progress>>
      /\ queue # <<>> => queue' # <<>> /\ Head(queue') = Head(queue)
  BY TaskKept
<1>2. TaskStep' /\ SnapshotsOwn'
  BY <1>1 DEF Space, TaskStep, SnapshotsOwn, Refilling, Parked, Holds
<1>3. Refilling => Refilling'
  BY <1>1 DEF Refilling
<1>4. Aside'
  BY <1>1 DEF Space, Aside, Holds
<1>5. CASE SameUse
  BY <1>1, <1>2, <1>3, <1>4, <1>5 DEF Space, SameUse
<1>6. ASSUME NEW s \in Sids, EndsUse(s)
      PROVE  Space'
  <2>1. unparked = None /\ Holds(live, LabOf[s])
    BY <1>6, IdleSession DEF EndsUse
  <2> QED
    BY <1>1, <1>2, <1>4, <1>6, <2>1 DEF Space, EndsUse
<1> QED
  BY <1>5, <1>6, ArriveMoves, HandlerMoves

\* Nothing is there but the lab that a park is about to take away, and nobody
\* uses it.
LEMMA Parking ==
  ASSUME Inv, Orderly, Space, OneLabAtATime, queue # <<>>,
         \/ Head(queue).kind = "park"
         \/ Head(queue).kind \in Provisioning /\ unparked # None
  PROVE  /\ Parked \in Labs /\ Parked # None
         /\ \A l \in Labs : Holds(live, l) => l = Parked
         /\ \A s \in Sids : ~Up(s)
         /\ Head(queue).kind # "reset"
         /\ Head(queue).kind = "park" => unparked = None /\ Owed(Parked)
         /\ Head(queue).kind # "park" => Parked = unparked /\ \A l \in Labs : ~Owed(l)
<1>1. /\ queue \in Seq(Task) /\ Head(queue) = queue[1] /\ 1 \in DOMAIN queue
      /\ Head(queue).lab \in Labs /\ unparked \in Labs \cup {None} /\ None \notin Labs
  BY InvMemory, HeadType, ConstantsAssumption DEF Inv, TypeOK
<1>2. CASE Head(queue).kind = "park"
  <2>1. Parked = Head(queue).lab
    BY <1>2 DEF Parked
  <2>2. Owed(Parked)
    BY <1>1, <1>2, <2>1 DEF Owed, Owes, ParkFor
  <2>3. Parked \in Labs /\ unparked = None /\ Holds(live, Parked) /\ \A s \in Sids : ~Up(s)
    BY <1>1, <2>1, <2>2 DEF Space
  <2> QED
    BY <1>1, <1>2, <2>2, <2>3 DEF OneLabAtATime
<1>3. CASE Head(queue).kind \in Provisioning /\ unparked # None
  <2>1. Parked = unparked /\ Head(queue).kind # "park"
    BY <1>3 DEF Parked, Provisioning
  <2>2. Parked \in Labs /\ (\A s \in Sids : ~Up(s)) /\ \A l \in Labs : ~Owed(l)
    BY <1>1, <1>3, <2>1 DEF Space
  <2>4. \A l \in Labs : Holds(live, l) => l = Parked
    BY <1>3, <2>1 DEF Space, Aside
  <2>3. Head(queue).kind # "reset"
    <3> SUFFICES ASSUME Head(queue).kind = "reset" PROVE FALSE
      OBVIOUS
    <3> DEFINE r == Head(queue).by
    <3>1. r \in Requests /\ req[r].sid \in Sids /\ req[r].pc = "queued" /\ TurnOf(Head(queue), req[r])
      BY TurnReady
    <3> QED
      BY <2>2, <3>1 DEF TurnOf, Orderly, Placed
  <2> QED
    BY <1>1, <2>1, <2>2, <2>3, <2>4
<1> QED
  BY <1>2, <1>3

\* A reset is asked for a session in use.
LEMMA Resetting ==
  ASSUME Inv, Orderly, Space, queue # <<>>, Head(queue).kind = "reset"
  PROVE  /\ "reset" \in Ops
         /\ Head(queue).lab \in Labs
         /\ unparked = None /\ \A l \in Labs : ~Owed(l)
         /\ \A s \in Sids : Up(s) => LabOf[s] = Head(queue).lab
         /\ \E s \in Sids : Up(s) /\ LabOf[s] = Head(queue).lab
         /\ Holds(live, Head(queue).lab) \/ Refilling
<1> DEFINE r == Head(queue).by
<1>1. r \in Requests /\ req[r].sid \in Sids /\ req[r].pc = "queued" /\ TurnOf(Head(queue), req[r])
  BY TurnReady
<1>2. Up(req[r].sid) /\ LabOf[req[r].sid] = Head(queue).lab /\ "reset" \in Ops
  BY <1>1 DEF TurnOf, Orderly, Placed
<1>3. \A s \in Sids : Up(s) => s = req[r].sid
  BY <1>1, <1>2 DEF Up, Orderly, OneActive
<1>4. LabOf[req[r].sid] \in Labs
  BY <1>1, ConstantsAssumption
<1> QED
  BY <1>1, <1>2, <1>3, <1>4 DEF Space

\* A task that ends leaves the next one to begin.
LEMMA BeginSpace ==
  ASSUME step' = "begin", SnapshotsOwn',
         \A s \in Sids : Up(s)' => /\ unparked' = None
                                   /\ Holds(live', LabOf[s])
                                   /\ \A l \in Labs : ~Owed(l)',
         \A l \in Labs : Owed(l)' => unparked' = None /\ Holds(live', l),
         Aside'
  PROVE  Space'
BY DEF Space, TaskStep, Refilling

LEMMA PartHolds ==
  ASSUME NEW c, NEW d \in PartOf(c), NEW l \in Labs, Holds(d, l)
  PROVE  Holds(c, l)
BY DEF PartOf, Holds

LEMMA TargetHolds ==
  ASSUME Inv, Space, NEW t \in Task
  PROVE  \A l \in Labs : Holds(Target(t), l) <=> l = t.lab
<1>1. t.lab \in Labs
  BY DEF Task
<1>2. CASE Restores(t)
  <2>1. Target(t) = snap[t.lab] /\ snap[t.lab] \in Contents /\ snap[t.lab] # Empty
        /\ snap[t.lab] # NoSnapshot
    BY <1>1, <1>2 DEF Target, Restores, Inv, TypeOK
  <2>2. PICK l \in Labs : Holds(snap[t.lab], l)
    BY <2>1 DEF Holds, Empty, Contents
  <2> QED
    BY <1>1, <2>1, <2>2 DEF Space, SnapshotsOwn
<1>3. CASE ~Restores(t)
  BY <1>1, <1>3 DEF Target, Empty, Holds
<1> QED
  BY <1>2, <1>3

LEMMA FailSpace ==
  ASSUME Inv, Orderly, OneTab, Space, queue # <<>>, Head(queue).kind \in Provisioning,
         TaskFails(Head(queue).by), UNCHANGED snap, Aside',
         \A l \in Labs : ~Owed(l),
         \/ Head(queue).kind = "open"
         \/ unparked' = None /\ \A s \in Sids : Up(s) => Holds(live', LabOf[s])
  PROVE  Orderly' /\ Space'
<1>1. /\ Orderly'
      /\ \A l \in Labs : Owed(l)' <=> Owed(l)
      /\ \A s \in Sids : Up(s)' <=> Up(s)
      /\ Head(queue).kind = "open" => \A s \in Sids : ~Up(s)
  BY FailMoves
<1>2. step' = "begin"
  BY DEF TaskFails, NextTask
<1>3. SnapshotsOwn'
  BY DEF Space, SnapshotsOwn, Holds
<1> QED
  BY <1>1, <1>2, <1>3, BeginSpace

\* A task that stays at the head of the chain and does not touch sessions.
LEMMA GoesOnSpace ==
  ASSUME Inv, Orderly, UNCHANGED memory, UNCHANGED row, TaskStep', SnapshotsOwn',
         \A s \in Sids : Up(s) => /\ unparked' = None
                                  /\ Holds(live', LabOf[s]) \/ Refilling'
                                  /\ \A l \in Labs : ~Owed(l),
         \A l \in Labs : Owed(l) => unparked' = None /\ Holds(live', l),
         Aside'
  PROVE  Orderly' /\ Space'
<1>1. Orderly' /\ SameUse
  BY MemorySame
<1> QED
  BY <1>1 DEF SameUse, Space

LEMMA BeginRunSpace ==
  ASSUME Inv, Orderly, OneTab, Space, Begin
  PROVE  Orderly' /\ Space'
<1>1. /\ queue # <<>> /\ Head(queue).kind \in Provisioning /\ step = "begin"
      /\ UNCHANGED memory /\ UNCHANGED row /\ UNCHANGED <<queue, live, unparked>>
  BY DEF Begin, Running, memory
<1>2. Head(queue).lab \in Labs
  BY <1>1, InvMemory, HeadType
<1>3. TaskStep' /\ SnapshotsOwn'
  <2>1. CASE unparked # None /\ step' = "retry" /\ UNCHANGED <<snap, progress>>
    BY <1>1, <2>1 DEF Space, TaskStep, Refilling, SnapshotsOwn, Holds, Provisioning
  <2>2. CASE unparked = None /\ ToCleanUp(Head(queue), snap)
    <3>1. snap \in [Labs -> Contents \cup {NoSnapshot}] /\ SnapshotsOwn
      BY DEF Inv, TypeOK, Space
    <3> QED
      BY <1>1, <1>2, <2>2, <3>1 DEF ToCleanUp, TaskStep, Refilling, SnapshotsOwn
  <2> QED
    BY <2>1, <2>2 DEF Begin
<1>4. ~Refilling
  BY <1>1 DEF Refilling
<1> QED
  BY <1>1, <1>3, <1>4, GoesOnSpace DEF Aside, Space

LEMMA RefusedSpace ==
  ASSUME Inv, Orderly, OneTab, Space, Refused
  PROVE  Orderly' /\ Space'
<1>1. /\ queue # <<>> /\ Head(queue).kind \in Provisioning /\ TaskFails(Head(queue).by)
      /\ UNCHANGED <<live, snap, unparked>> /\ "reset" \notin Ops
  BY DEF Refused, Running, cluster, OneTab
<1>2. Head(queue).kind = "open"
  BY <1>1, Resetting DEF Provisioning
<1>3. /\ Orderly'
      /\ \A l \in Labs : Owed(l)' <=> Owed(l)
      /\ \A s \in Sids : ~Up(s)'
  BY <1>1, <1>2, FailMoves
<1>4. SnapshotsOwn' /\ step' = "begin"
  BY <1>1 DEF Space, SnapshotsOwn, Holds, TaskFails, NextTask
<1> QED
  BY <1>1, <1>3, <1>4, BeginSpace DEF Aside, Space

LEMMA SnapshotSpace ==
  ASSUME Inv, Orderly, Space, OneLabAtATime, Snapshot
  PROVE  Orderly' /\ Space'
<1>1. /\ queue # <<>> /\ Head(queue).kind \in Provisioning \cup {"park"}
      /\ \/ Head(queue).kind = "park" /\ step = "begin"
         \/ Head(queue).kind \in Provisioning /\ step = "retry"
      /\ UNCHANGED memory /\ UNCHANGED row /\ UNCHANGED <<queue, live, unparked>>
      /\ snap' = [snap EXCEPT ![Parked] = live] /\ step' = "wipe"
  BY DEF Snapshot, Snapshotting, Running, memory
<1>2. Head(queue).kind # "park" => unparked # None
  BY <1>1 DEF Space, TaskStep
<1>3. /\ Parked \in Labs /\ \A l \in Labs : Holds(live, l) => l = Parked
      /\ \A s \in Sids : ~Up(s)
  BY <1>1, <1>2, Parking
<1>4. snap \in [Labs -> Contents \cup {NoSnapshot}]
  BY DEF Inv, TypeOK
<1>5. SnapshotsOwn'
  BY <1>1, <1>3, <1>4 DEF Space, SnapshotsOwn
<1>6. Parked' = Parked
  BY <1>1 DEF Parked
<1>7. TaskStep'
  BY <1>1, <1>2, <1>3, <1>4, <1>6 DEF TaskStep, Refilling, Provisioning
<1> QED
  BY <1>1, <1>3, <1>5, <1>7, GoesOnSpace DEF Aside, Space

\* A park that fails leaves its lab, a part of it or nothing in the namespace.
LEMMA ParkFailsSpace ==
  ASSUME Inv, Orderly, OneTab, Space, OneLabAtATime, ParkFails, UNCHANGED snap,
         step \in {"begin", "retry", "wipe"}, step = "begin" => Head(queue).kind = "park",
         live' = live \/ live' \in PartOf(live)
  PROVE  /\ Orderly' /\ Space'
         /\ (\A s \in Sids : ~Up(s)') /\ \A l \in Labs : ~Owed(l)'
         /\ Parked \in Labs /\ unparked' = Parked
         /\ \A l \in Labs : Holds(live, l) => l = Parked
<1>1. /\ queue # <<>> /\ unparked' = Parked
      /\ \/ Head(queue).kind = "park" /\ NextTask /\ UNCHANGED <<sess, store, row, req>>
         \/ Head(queue).kind \in Provisioning /\ TaskFails(Head(queue).by)
  BY DEF ParkFails, Running
<1>2. Head(queue).kind # "park" => Head(queue).kind \in Provisioning /\ unparked # None
  BY <1>1 DEF Space, TaskStep
<1>3. /\ Parked \in Labs /\ \A l \in Labs : Holds(live, l) => l = Parked
      /\ \A s \in Sids : ~Up(s)
      /\ Head(queue).kind # "reset"
      /\ Head(queue).kind # "park" => \A l \in Labs : ~Owed(l)
  BY <1>1, <1>2, Parking
<1>4. Aside'
  <2>1. \A l \in Labs : Holds(live', l) => Holds(live, l)
    BY PartHolds DEF Holds
  <2> QED
    BY <1>1, <1>3, <2>1 DEF Aside, Holds
<1>5. CASE Head(queue).kind = "park" /\ NextTask /\ UNCHANGED <<sess, store, row, req>>
  <2>1. Orderly' /\ (\A s \in Sids : ~Up(s)') /\ \A l : ~Owed(l)'
    BY <1>1, <1>3, <1>5, ParkMoves DEF NextTask
  <2>2. SnapshotsOwn' /\ step' = "begin"
    BY <1>5 DEF Space, SnapshotsOwn, Holds, NextTask
  <2> QED
    BY <1>1, <1>3, <1>4, <2>1, <2>2, BeginSpace
<1>6. CASE Head(queue).kind \in Provisioning /\ TaskFails(Head(queue).by)
  <2>1. Head(queue).kind = "open" /\ \A l \in Labs : ~Owed(l)
    BY <1>3, <1>6 DEF Provisioning
  <2>2. (\A s \in Sids : ~Up(s)') /\ \A l \in Labs : ~Owed(l)'
    BY <1>1, <1>6, <2>1, FailMoves
  <2> QED
    BY <1>1, <1>3, <1>4, <1>6, <2>1, <2>2, FailSpace
<1> QED
  BY <1>1, <1>5, <1>6

LEMMA WipeSpace ==
  ASSUME Inv, Orderly, Space, OneLabAtATime, Wipe
  PROVE  /\ Orderly' /\ Space'
         /\ \A s \in Sids : ~Up(s)'
         /\ unparked' = None
         /\ \A l \in Labs : ~Owed(l)'
         /\ Parked \in Labs /\ snap[Parked] = live
         /\ \A l \in Labs : Holds(live, l) => l = Parked
         /\ UNCHANGED <<snap, progress>>
<1>1. /\ queue # <<>> /\ step = "wipe" /\ live' = Empty /\ row' = row
      /\ unparked' = IF unparked = Parked THEN None ELSE unparked
      /\ \/ Head(queue).kind = "park" /\ NextTask /\ UNCHANGED <<sess, store, req, snap, progress>>
         \/ /\ Head(queue).kind \in Provisioning
            /\ ToCleanUp(Head(queue), snap) /\ UNCHANGED memory
  BY DEF Wipe, Running
<1>2. /\ Head(queue).kind # "park" => Head(queue).kind \in Provisioning /\ unparked # None
      /\ snap[Parked] = live
  BY <1>1 DEF Space, TaskStep
<1>3. /\ Parked \in Labs /\ Parked # None
      /\ \A l \in Labs : Holds(live, l) => l = Parked
      /\ \A s \in Sids : ~Up(s)
      /\ Head(queue).kind # "reset"
      /\ Head(queue).kind = "park" => unparked = None /\ Owed(Parked)
      /\ Head(queue).kind # "park" => Parked = unparked /\ \A l \in Labs : ~Owed(l)
  BY <1>1, <1>2, Parking
<1>4. unparked' = None
  BY <1>1, <1>3
<1>5. CASE Head(queue).kind = "park" /\ NextTask /\ UNCHANGED <<sess, store, req, snap, progress>>
  <2>1. Orderly' /\ (\A s \in Sids : ~Up(s)') /\ \A l : ~Owed(l)'
    BY <1>1, <1>3, <1>5, ParkMoves DEF NextTask
  <2>2. SnapshotsOwn' /\ step' = "begin"
    BY <1>5 DEF Space, SnapshotsOwn, Holds, NextTask
  <2>3. Space'
    BY <1>4, <2>1, <2>2, BeginSpace DEF Aside
  <2> QED
    BY <1>2, <1>3, <1>4, <1>5, <2>1, <2>3
<1>6. CASE /\ Head(queue).kind \in Provisioning
           /\ ToCleanUp(Head(queue), snap) /\ UNCHANGED memory
  <2>1. /\ Head(queue).kind = "open" /\ step' = "verify" /\ snap' = snap /\ progress' = progress
        /\ queue' = queue
    BY <1>3, <1>6 DEF ToCleanUp, Provisioning, memory
  <2>2. SnapshotsOwn'
    BY <2>1 DEF Space, SnapshotsOwn, Holds
  <2>3. TaskStep'
    BY <1>1, <1>4, <2>1 DEF TaskStep, Refilling
  <2>4. Orderly' /\ SameUse
    BY <1>1, <1>6, MemorySame
  <2>5. (\A s \in Sids : ~Up(s)') /\ \A l \in Labs : ~Owed(l)'
    BY <1>3, <2>1, <2>4 DEF SameUse
  <2>6. Space'
    BY <1>4, <2>2, <2>3, <2>5 DEF Aside, Space
  <2> QED
    BY <1>2, <1>3, <1>4, <2>1, <2>4, <2>5, <2>6
<1> QED
  BY <1>1, <1>5, <1>6

LEMMA ResetWipeSpace ==
  ASSUME Inv, Orderly, Space, ResetWipe
  PROVE  Orderly' /\ Space'
<1>1. /\ queue # <<>> /\ Head(queue).kind = "reset" /\ step = "reset" /\ live' = Empty
      /\ step' = "verify" /\ UNCHANGED memory /\ UNCHANGED row /\ UNCHANGED <<queue, snap, unparked>>
  BY DEF ResetWipe, Running, memory
<1>2. unparked = None /\ \A l \in Labs : ~Owed(l)
  BY <1>1, Resetting
<1>3. Refilling' /\ SnapshotsOwn'
  BY <1>1 DEF Refilling, Space, SnapshotsOwn, Holds
<1>4. TaskStep'
  <2>1. \A l \in Labs : ~Holds(live', l)
    BY <1>1 DEF Holds, Empty
  <2> QED
    BY <1>1, <1>2, <2>1 DEF Space, TaskStep
<1> QED
  BY <1>1, <1>2, <1>3, <1>4, GoesOnSpace DEF Aside

\* With one tab no deletion fails where labs are reset.
LEMMA NoResetFails ==
  ASSUME Inv, Orderly, OneTab, Space
  PROVE  ~ResetWipeFails
<1> SUFFICES ASSUME ResetWipeFails PROVE FALSE
  OBVIOUS
<1>1. queue # <<>> /\ Head(queue).kind = "reset" /\ "wipe" \in Env
  BY DEF ResetWipeFails, Running
<1> QED
  BY <1>1, Resetting DEF OneTab

LEMMA VerifySpace ==
  ASSUME Inv, Orderly, OneTab, Space, Verify
  PROVE  Orderly' /\ Space'
<1>1. /\ queue # <<>> /\ Head(queue).kind \in Provisioning /\ step = "verify"
      /\ UNCHANGED <<live, snap, unparked>>
  BY DEF Verify, Running, cluster
<1>2. unparked = None
  BY <1>1 DEF Space, TaskStep
<1>3. SnapshotsOwn'
  BY <1>1 DEF Space, SnapshotsOwn, Holds
<1>4. CASE Clean /\ step' = "fill" /\ UNCHANGED <<memory, row>>
  <2>1. UNCHANGED memory /\ UNCHANGED row /\ UNCHANGED queue /\ live = Empty
    BY <1>4 DEF memory, Clean
  <2>2. Refilling => Refilling'
    BY <1>4, <2>1 DEF Refilling
  <2>3. TaskStep'
    <3>1. \A l \in Labs : ~Holds(live', l)
      BY <1>1, <2>1 DEF Holds, Empty
    <3> QED
      BY <1>1, <1>2, <1>4, <2>1, <3>1 DEF Space, TaskStep, Provisioning
  <2> QED
    BY <1>1, <1>3, <2>1, <2>2, <2>3, GoesOnSpace DEF Aside, Space
<1>5. CASE ~Clean /\ TaskFails(Head(queue).by)
  <2>1. CASE Head(queue).kind = "open"
    <3>1. /\ Orderly'
          /\ \A l \in Labs : Owed(l)' <=> Owed(l)
          /\ \A s \in Sids : ~Up(s)'
      BY <1>1, <1>5, <2>1, FailMoves
    <3>2. step' = "begin"
      BY <1>5 DEF TaskFails, NextTask
    <3> QED
      BY <1>1, <1>3, <3>1, <3>2, BeginSpace DEF Aside, Space
  <2>2. CASE Head(queue).kind = "reset"
    <3>1. live \in Contents /\ live # Empty
      BY <1>5 DEF Clean, Inv, TypeOK
    <3>2. PICK k \in Labs : Holds(live, k)
      BY <3>1, EmptyType DEF Holds, Empty, Contents
    <3>3. Refilling
      BY <1>1, <2>2 DEF Refilling
    <3>4. k = Head(queue).lab
      BY <3>2, <3>3 DEF Space, TaskStep
    <3>5. /\ \A l \in Labs : ~Owed(l)
          /\ \A s \in Sids : Up(s) => Holds(live', LabOf[s])
          /\ unparked' = None
      BY <1>1, <1>2, <2>2, <3>2, <3>4, Resetting
    <3> QED
      BY <1>1, <1>5, <3>5, FailSpace DEF Aside
  <2> QED
    BY <1>1, <2>1, <2>2 DEF Provisioning
<1> QED
  BY <1>4, <1>5 DEF Verify

LEMMA AppliedHolds ==
  ASSUME NEW c, NEW d, NEW l \in Labs
  PROVE  /\ Holds(Applied(c, d), l) <=> Holds(c, l) \/ Holds(d, l)
         /\ Applied(c, d)[l] = IF Holds(c, l) THEN c[l] ELSE d[l]
BY DEF Applied, Holds

\* Before a lab is filled in, nobody uses another and nothing is to be parked;
\* what is there already the learner made in it while a reset refills it.
LEMMA Filling ==
  ASSUME Inv, Orderly, Space, step = "fill"
  PROVE  /\ unparked = None /\ \A l \in Labs : ~Owed(l)
         /\ \A l \in Labs : Holds(live, l) => Refilling /\ l = Head(queue).lab
         /\ Refilling => "reset" \in Ops
         /\ Head(queue).kind # "reset" \/ "stray" \notin Env => live = Empty
<1>1. queue # <<>> /\ unparked = None
  BY DEF Space, TaskStep
<1>2. live = Empty => \A l \in Labs : ~Holds(live, l)
  BY DEF Holds, Empty
<1>3. CASE Refilling
  <2>1. Head(queue).kind = "reset"
    BY <1>3 DEF Refilling
  <2>2. "reset" \in Ops /\ \A l \in Labs : ~Owed(l)
    BY <1>1, <2>1, Resetting
  <2>3. /\ \A l \in Labs : Holds(live, l) => l = Head(queue).lab
        /\ "stray" \notin Env => live = Empty
    BY <1>3 DEF Space, TaskStep
  <2> QED
    BY <1>1, <1>3, <2>1, <2>2, <2>3
<1>4. CASE ~Refilling
  <2>1. live = Empty
    BY <1>4 DEF Space, TaskStep
  <2> QED
    BY <1>1, <1>2, <1>4, <2>1 DEF Space
<1> QED
  BY <1>3, <1>4

LEMMA FillSpace ==
  ASSUME Inv, Orderly, OneTab, Space, Fill
  PROVE  /\ Orderly' /\ Space'
         /\ unparked' = None
         /\ \A l \in Labs : ~Owed(l)'
         /\ \A s \in Sids : Up(s)' => LabOf[s] = Head(queue).lab
         /\ \E s \in Sids : Up(s)' /\ LabOf[s] = Head(queue).lab
         /\ Head(queue) \in Task
         /\ live' = Applied(live, Target(Head(queue)))
         /\ \A l \in Labs : Holds(live', l) <=> l = Head(queue).lab
<1>1. /\ queue # <<>> /\ Head(queue).kind \in Provisioning /\ step = "fill"
      /\ live' = Applied(live, Target(Head(queue))) /\ TaskDone(Head(queue).by)
      /\ UNCHANGED <<snap, unparked, progress>>
  BY DEF Fill, Running
<1>2. Head(queue) \in Task /\ Head(queue).lab \in Labs /\ Target(Head(queue)) \in Contents
  <2>1. Memory /\ Rest
    BY InvParts
  <2> QED
    BY <1>1, <2>1, HeadType, TargetType
<1>3. /\ unparked = None /\ \A l \in Labs : ~Owed(l)
      /\ \A l \in Labs : Holds(live, l) => l = Head(queue).lab
  BY <1>1, Filling
<1>4. \A l \in Labs : Holds(Target(Head(queue)), l) <=> l = Head(queue).lab
  BY <1>2, TargetHolds
<1>5. \A l \in Labs : Holds(live', l) <=> l = Head(queue).lab
  BY <1>1, <1>3, <1>4, AppliedHolds
<1>6. /\ Orderly'
      /\ \A l \in Labs : Owed(l)' <=> Owed(l)
      /\ \A s \in Sids : Up(s)' => LabOf[s] = Head(queue).lab
      /\ \E s \in Sids : Up(s)' /\ LabOf[s] = Head(queue).lab
  BY <1>1, DoneMoves
<1>7. SnapshotsOwn' /\ step' = "begin"
  BY <1>1 DEF Space, SnapshotsOwn, Holds, TaskDone, NextTask
<1>8. Space'
  BY <1>1, <1>2, <1>3, <1>5, <1>6, <1>7, BeginSpace DEF Aside
<1> QED
  BY <1>1, <1>2, <1>3, <1>5, <1>6, <1>8

LEMMA FillFailsSpace ==
  ASSUME Inv, Orderly, OneTab, Space, FillFails
  PROVE  /\ Orderly' /\ Space'
         /\ unparked' = None
         /\ \A l \in Labs : ~Owed(l)'
         /\ \A s \in Sids : ~Up(s)'
         /\ Head(queue) \in Task
         /\ live = Empty /\ live' \in PartOf(Target(Head(queue)))
<1>1. /\ queue # <<>> /\ Head(queue).kind \in Provisioning /\ step = "fill"
      /\ IF Restores(Head(queue)) THEN "restore" \in Env ELSE "setup" \in Env
      /\ TaskFails(Head(queue).by)
      /\ UNCHANGED <<snap, unparked, progress>>
  BY DEF FillFails, Running
<1>2. Head(queue) \in Task /\ Target(Head(queue)) \in Contents
  <2>1. Memory /\ Rest
    BY InvParts
  <2> QED
    BY <1>1, <2>1, HeadType, TargetType
<1>6. Head(queue).kind = "open"
  BY <1>1, Resetting DEF OneTab, Restores, Provisioning
<1>3. live = Empty /\ unparked = None /\ \A l \in Labs : ~Owed(l)
  BY <1>1, <1>6, Filling
<1>4. PICK part \in PartOf(Target(Head(queue))) : live' = Applied(live, part)
  BY DEF FillFails
<1>5. live' = part
  BY <1>2, <1>3, <1>4, PartType, AppliedToEmpty
<1>7. /\ Orderly'
      /\ \A l \in Labs : Owed(l)' <=> Owed(l)
      /\ \A s \in Sids : ~Up(s)'
  BY <1>1, <1>6, FailMoves
<1>8. SnapshotsOwn' /\ step' = "begin"
  BY <1>1 DEF Space, SnapshotsOwn, Holds, TaskFails, NextTask
<1>9. Space'
  BY <1>1, <1>3, <1>7, <1>8, BeginSpace DEF Aside
<1> QED
  BY <1>1, <1>2, <1>3, <1>5, <1>7, <1>9

LEMMA SlotSpace ==
  ASSUME Inv, Orderly, OneTab, Space, SlotTaken
  PROVE  Orderly' /\ Space'
<1>1. /\ queue # <<>> /\ Head(queue).kind = "slot" /\ step' = "begin"
      /\ UNCHANGED <<live, snap, unparked>>
  BY DEF SlotTaken, cluster
<1>2. Orderly' /\ SameUse
  BY SlotMoves
<1>3. ~Refilling /\ SnapshotsOwn'
  BY <1>1 DEF Refilling, Space, SnapshotsOwn, Holds
<1> QED
  BY <1>1, <1>2, <1>3, BeginSpace DEF Aside, Space, SameUse

LEMMA WorkSpace ==
  ASSUME Inv, Orderly, OneTab, Space, NEW s \in Sids, Work(s)
  PROVE  /\ Orderly' /\ Space' /\ SameUse
         /\ Up(s) /\ LabOf[s] \in Labs
         /\ \A l \in Labs : Holds(live', l) <=> Holds(live, l) \/ l = LabOf[s]
         /\ \/ Holds(live, LabOf[s])
            \/ ("stray" \in Env /\ Refilling /\ LabOf[s] = Head(queue).lab)
<1>1. /\ IsActive(s) /\ ~Opening(s) /\ (Holds(live, LabOf[s]) \/ "stray" \in Env)
      /\ live' = [live EXCEPT ![LabOf[s]] = "work"]
      /\ UNCHANGED memory /\ UNCHANGED row /\ UNCHANGED <<queue, step, snap, unparked>>
  BY DEF Work, memory
<1>2. Up(s)
  BY <1>1 DEF Up, Opening, Provides
<1>3. LabOf[s] \in Labs /\ live \in Contents
  BY ConstantsAssumption DEF Inv, TypeOK
<1>4. \A l \in Labs : Holds(live', l) <=> Holds(live, l) \/ l = LabOf[s]
  BY <1>1, <1>3 DEF Holds, Contents
<1>5. step # "wipe"
  <2> SUFFICES ASSUME step = "wipe" PROVE FALSE
    OBVIOUS
  <2>1. queue # <<>> /\ Head(queue).kind # "slot" /\ (Head(queue).kind # "park" => unparked # None)
    BY DEF Space, TaskStep
  <2>2. Head(queue) \in Task
    BY <2>1, InvMemory
  <2>3. Head(queue).kind = "park"
    BY <1>2, <2>1 DEF Space
  <2>4. 1 \in DOMAIN queue /\ Head(queue) = queue[1]
    BY <2>1, InvMemory
  <2>5. Owed(Head(queue).lab) /\ Head(queue).lab \in Labs
    BY <2>2, <2>3, <2>4 DEF Owed, Owes, ParkFor, Task
  <2> QED
    BY <1>2, <2>5 DEF Space
<1>6. /\ Holds(live, LabOf[s]) => live # Empty
      /\ Refilling => LabOf[s] = Head(queue).lab
  BY <1>2, <1>3, Resetting DEF Holds, Empty, Refilling
<1>6a. Holds(live, LabOf[s]) \/ ("stray" \in Env /\ Refilling)
  <2>1. Holds(live, LabOf[s]) \/ Refilling
    BY <1>2 DEF Space
  <2> QED
    BY <1>1, <2>1
<1>7. TaskStep' /\ SnapshotsOwn' /\ (Refilling' <=> Refilling)
  <2>1. UNCHANGED <<queue, step, snap, unparked>> /\ (Refilling' <=> Refilling)
    BY <1>1 DEF Refilling
  <2>2. SnapshotsOwn'
    BY <2>1 DEF Space, SnapshotsOwn, Holds
  <2>3. step = "fill" => Refilling
    BY <1>6, <1>6a DEF Space, TaskStep
  <2>4. Refilling => \A l \in Labs : Holds(live', l) => l = Head(queue).lab
    BY <1>4, <1>6 DEF Space, TaskStep
  <2>5. ~(Refilling /\ "stray" \notin Env)
    BY <1>6, <1>6a DEF Space, TaskStep
  <2>6. TaskStep'
    BY <1>5, <2>1, <2>3, <2>4, <2>5 DEF Space, TaskStep
  <2> QED
    BY <2>1, <2>2, <2>6
<1>8. \A t \in Sids : LabOf[t] \in Labs
  BY ConstantsAssumption
<1>10. Orderly' /\ SameUse
  BY <1>1, MemorySame
<1>11. unparked = None /\ Aside'
  BY <1>1, <1>2 DEF Space, Aside
<1>12. Space'
  BY <1>1, <1>4, <1>7, <1>8, <1>10, <1>11 DEF Space, SameUse
<1> QED
  BY <1>2, <1>3, <1>4, <1>6, <1>6a, <1>10, <1>12

LEMMA InitInOrder == Init => Orderly /\ Space
<1> SUFFICES ASSUME Init PROVE Orderly /\ Space
  OBVIOUS
<1>1. /\ \A r \in Requests : req[r] = Idle
      /\ \A s \in Sids : ~IsActive(s) /\ ~Up(s)
      /\ queue = <<>>
  BY DEF Init, IsActive, Up
<1>2. Idle.pc = "idle" /\ Idle.op = "none" /\ Idle.sid = None /\ Idle.own = "shared"
  BY DEF Idle
<1>3. \A r \in Requests : Formed(req[r]) /\ Placed(r, req[r])
  BY <1>1, <1>2 DEF Formed, Placed, Alone
<1>4. OnePerLab /\ OneActive /\ RowsKnown
  BY <1>1 DEF Init, OnePerLab, OneActive, RowsKnown
<1>5. DOMAIN queue = {}
  BY <1>1
<1>6. OwnTurns(queue, req) /\ OwedOnce(queue, req)
  BY <1>1, <1>2, <1>5 DEF OwnTurns, OwedOnce, NoPark, NoEnd
<1>7. \A l : ~Owed(l)
  BY <1>1, <1>2, <1>5 DEF Owed, Owes, ParkFor, EndFor
<1>8. SnapshotsOwn
  BY DEF Init, SnapshotsOwn
<1> QED
  BY <1>1, <1>3, <1>4, <1>6, <1>7, <1>8 DEF Aside, Init, Orderly, Space, TaskStep, Refilling

LEMMA NextInOrder ==
  ASSUME OneTab, Inv, OneLabAtATime, Orderly, Space, [Next]_vars
  PROVE  Orderly' /\ Space'
<1>1. ASSUME NEW r \in Requests, Arrive(r) \/ Handler(r)
      PROVE  Orderly' /\ Space'
  BY <1>1, ArriveMoves, HandlerMoves, MoveSpace
<1>2. CASE Chain
  <2>1. CASE SnapshotFails
    BY <2>1, ParkFailsSpace DEF SnapshotFails, Snapshotting, Running
  <2>2. CASE WipeFails
    BY <2>2, ParkFailsSpace DEF WipeFails
  <2> QED
    BY <1>2, <2>1, <2>2, SlotSpace, BeginRunSpace, RefusedSpace, SnapshotSpace, WipeSpace,
       ResetWipeSpace, NoResetFails, VerifySpace, FillSpace, FillFailsSpace DEF Chain
<1>3. ASSUME NEW s \in Sids, Work(s)
      PROVE  Orderly' /\ Space'
  BY <1>3, WorkSpace
<1>4. CASE UNCHANGED vars
  <2>1. UNCHANGED memory /\ UNCHANGED row /\ UNCHANGED <<queue, step, live, snap, unparked>>
    BY <1>4 DEF vars, memory
  <2>2. TaskStep' /\ SnapshotsOwn' /\ (Refilling => Refilling')
    BY <2>1 DEF Space, TaskStep, Refilling, Parked, SnapshotsOwn, Holds
  <2> QED
    BY <2>1, <2>2, GoesOnSpace DEF Aside, Space
<1> QED
  BY <1>1, <1>2, <1>3, <1>4 DEF Next, Crash, OneTab

\* With one tab a second lab does not come in either: a lab is filled in where
\* nothing is but what its own learner has just made there.
LEMMA NextOneLab ==
  ASSUME OneTab, Inv, OneLabAtATime, Orderly, Space, [Next]_vars
  PROVE  OneLabAtATime'
<1>1. ASSUME \A l \in Labs : Holds(live', l) => Holds(live, l)
      PROVE  OneLabAtATime'
  BY <1>1 DEF OneLabAtATime, Holds
<1>2. ASSUME NEW k, \A l \in Labs : Holds(live', l) => l = k
      PROVE  OneLabAtATime'
  BY <1>2 DEF OneLabAtATime, Holds
<1>3. ASSUME live' = live
      PROVE  OneLabAtATime'
  BY <1>1, <1>3
<1>4. ASSUME live' \in PartOf(live)
      PROVE  OneLabAtATime'
  BY <1>1, <1>4 DEF PartOf, Holds
<1>5. CASE Wipe \/ ResetWipe
  <2>1. \A l \in Labs : ~Holds(live', l)
    BY <1>5 DEF Wipe, ResetWipe, Holds, Empty
  <2> QED
    BY <1>1, <2>1
<1>6. CASE Fill
  BY <1>2, <1>6, FillSpace
<1>7. CASE FillFails
  <2>1. Head(queue) \in Task /\ live' \in PartOf(Target(Head(queue)))
    BY <1>7, FillFailsSpace
  <2>2. \A l \in Labs : Holds(Target(Head(queue)), l) => l = Head(queue).lab
    BY <2>1, TargetHolds
  <2>3. \A l \in Labs : Holds(live', l) => Holds(Target(Head(queue)), l)
    BY <2>1 DEF PartOf, Holds
  <2> QED
    BY <1>2, <2>2, <2>3
<1>8. CASE Chain
  BY <1>3, <1>4, <1>5, <1>6, <1>7, <1>8
  DEF Chain, SlotTaken, Begin, Refused, Snapshot, SnapshotFails, WipeFails, ResetWipeFails,
      Verify, cluster
<1>9. ASSUME NEW r \in Requests, Arrive(r) \/ Handler(r)
      PROVE  OneLabAtATime'
  BY <1>3, <1>9, TaskKept
<1>10. ASSUME NEW s \in Sids, Work(s)
       PROVE  OneLabAtATime'
  <2>1. /\ LabOf[s] \in Labs
        /\ \A l \in Labs : Holds(live', l) <=> Holds(live, l) \/ l = LabOf[s]
        /\ Holds(live, LabOf[s]) \/ (Refilling /\ LabOf[s] = Head(queue).lab)
    BY <1>10, WorkSpace
  <2>2. CASE Holds(live, LabOf[s])
    BY <1>1, <2>1, <2>2
  <2>3. CASE Refilling /\ LabOf[s] = Head(queue).lab
    <3>1. \A l \in Labs : Holds(live, l) => l = LabOf[s]
      BY <2>3 DEF Space, TaskStep
    <3> QED
      BY <1>2, <2>1, <3>1
  <2> QED
    BY <2>1, <2>2, <2>3
<1>11. CASE UNCHANGED vars
  BY <1>3, <1>11 DEF vars
<1> QED
  BY <1>8, <1>9, <1>10, <1>11 DEF Next, Crash, OneTab

\* While the learner opens labs from one tab at a time, the sessions, the parks
\* that are owed, the namespace and the running task always fit together.
THEOREM InOrderHolds ==
  ASSUME OneTab
  PROVE  Spec => [](OneLabAtATime /\ Orderly /\ Space)
<1>1. Init => OneLabAtATime
  BY DEF Init, OneLabAtATime, Holds, Empty
<1>2. Inv /\ OneLabAtATime /\ Orderly /\ Space /\ [Next]_vars =>
        OneLabAtATime' /\ Orderly' /\ Space'
  BY NextInOrder, NextOneLab
<1> QED
  BY <1>1, <1>2, InitInOrder, InvHolds, PTL DEF Spec

\* With one tab the namespace never holds objects of two labs, whatever the
\* learner creates in it and whenever (k8sLifecycle.ts:39-44).
THEOREM OneTabOneLabHolds ==
  ASSUME OneTab
  PROVE  Spec => []OneLabAtATime
BY InOrderHolds, PTL

\* No snapshot ever holds another lab's objects (k8sLifecycle.ts:324-327).
THEOREM SnapshotsOwnHolds ==
  ASSUME OneTab
  PROVE  Spec => []SnapshotsOwn
<1>1. Space => SnapshotsOwn
  BY DEF Space
<1> QED
  BY <1>1, InOrderHolds, PTL

\* Work leaves the namespace only once a snapshot holds exactly what the
\* namespace held, or on a reset (k8sCluster.ts:1389-1392).
THEOREM WipeKeepsWorkHolds ==
  ASSUME OneTab
  PROVE  Spec => WipeKeepsWork
<1>1. ASSUME Inv, OneLabAtATime, Orderly, Space, [Next]_vars,
             NEW l \in Labs, live[l] = "work", live'[l] # "work", step # "reset"
      PROVE  \E k \in Labs : snap[k] = live
  <2>1. live' # live /\ live \in Contents
    BY <1>1 DEF Inv, TypeOK
  <2>2. Holds(live, l)
    BY <1>1 DEF Holds
  <2>3. ~Fill /\ ~FillFails
    BY <1>1, <2>2, AppliedHolds DEF Fill, FillFails
  <2>4. step = "wipe"
    <3>1. ASSUME NEW s \in Sids, Work(s) PROVE FALSE
      BY <1>1, <2>1, <3>1 DEF Work, Contents
    <3>2. Wipe \/ WipeFails
      BY <1>1, <2>1, <2>3, <3>1, TaskKept
      DEF Next, Chain, vars, SlotTaken, Begin, Refused, Snapshot, SnapshotFails, ResetWipe,
          ResetWipeFails, Verify, Fill, FillFails, Crash, OneTab, cluster
    <3> QED
      BY <3>2 DEF Wipe, WipeFails
  <2>5. queue # <<>> /\ snap[Parked] = live
        /\ (Head(queue).kind # "park" => unparked # None)
    BY <1>1, <2>4 DEF Space, TaskStep
  <2>6. Head(queue).lab \in Labs
    BY <1>1, <2>5, InvMemory, HeadType
  <2> QED
    BY <1>1, <2>5, <2>6 DEF Parked, Inv, TypeOK
<1>4. Inv /\ OneLabAtATime /\ Orderly /\ Space /\ [Next]_vars =>
        [\A l \in Labs : live[l] = "work" /\ live'[l] # "work" =>
           step = "reset" \/ \E k \in Labs : snap[k] = live]_vars
  BY <1>1
<1> QED
  BY <1>4, InOrderHolds, InvHolds, PTL DEF Spec, WipeKeepsWork

-----------------------------------------------------------------------------
(* What is kept of the learner's work.                                       *)

\* A lab that is in use or that a park is going to take away.
Parkable(l) ==
  \/ Owed(l)
  \/ unparked = l
  \/ \E s \in Sids : Up(s) /\ LabOf[s] = l /\ Holds(live, l)

\* A reset has dropped the lab's snapshot and is about to clear the lab away.
Clearing(l) == step = "reset" /\ Head(queue).lab = l

\* Work that was made is saved, and is in the namespace if a park may come.  A lab
\* without work is there, and in its snapshot, as its setup made it.  Nothing is
\* said of a torn lab.
KeepsLab(l) ==
  /\ progress[l] = "made" => Saved(l) /\ (Parkable(l) => live[l] = "work")
  /\ progress[l] = "none" => /\ snap[l] = NoSnapshot \/ snap[l][l] = "ready"
                             /\ Parkable(l) /\ ~Clearing(l) => live[l] = "ready"
Keeps == \A l \in Labs : KeepsLab(l)

LEMMA AbsentContent ==
  ASSUME NEW c \in Contents, NEW l \in Labs
  PROVE  c # NoSnapshot
BY DEF Contents, Content, NoSnapshot

\* Neither the namespace nor the snapshots change, and no other lab is parkable.
LEMMA SameKeeps ==
  ASSUME Keeps, UNCHANGED <<live, snap, progress>>, \A l \in Labs : Parkable(l)' => Parkable(l),
         \A l \in Labs : Clearing(l) => Clearing(l)'
  PROVE  Keeps'
BY DEF Keeps, KeepsLab, Saved

\* Nothing is parkable, and what was saved still is.
LEMMA NoneKeeps ==
  ASSUME Keeps, snap' = snap, \A l \in Labs : ~Parkable(l)',
         \A l \in Labs : progress'[l] = "made" =>
           progress[l] = "made" /\ (live[l] = "work" => Saved(l)'),
         \A l \in Labs : progress'[l] = "none" => progress[l] = "none" \/ snap[l] = NoSnapshot
  PROVE  Keeps'
<1> SUFFICES ASSUME NEW l \in Labs PROVE KeepsLab(l)'
  BY DEF Keeps
<1>1. KeepsLab(l)
  BY DEF Keeps
<1> QED
  BY <1>1 DEF KeepsLab, Saved

\* The end of a session's use leaves its lab to be parked.
LEMMA UseParkable ==
  ASSUME Inv, Orderly, Space, UNCHANGED <<live, unparked>>,
         SameUse \/ \E s \in Sids : Up(s) /\ EndsUse(s)
  PROVE  \A l \in Labs : Parkable(l)' => Parkable(l)
<1>1. CASE SameUse
  BY <1>1 DEF SameUse, Parkable, Holds
<1>2. ASSUME NEW s \in Sids, Up(s), EndsUse(s)
      PROVE  \A l \in Labs : Parkable(l)' => Parkable(l)
  <2>1. Holds(live, LabOf[s])
    BY <1>2, IdleSession DEF EndsUse
  <2> QED
    BY <1>2, <2>1 DEF EndsUse, Parkable
<1> QED
  BY <1>1, <1>2

LEMMA MoveKeeps ==
  ASSUME Inv, Orderly, Space, OneTab, Keeps, NEW r \in Requests, Arrive(r) \/ Handler(r)
  PROVE  Keeps'
<1>1. /\ UNCHANGED <<step, live, snap, unparked, progress>>
      /\ queue # <<>> => queue' # <<>> /\ Head(queue') = Head(queue)
  BY TaskKept
<1>2. \A l \in Labs : Clearing(l) => Clearing(l)'
  BY <1>1 DEF Clearing, Space, TaskStep
<1> QED
  BY <1>1, <1>2, ArriveMoves, HandlerMoves, UseParkable, SameKeeps

\* A provisioning that fails before it changed the namespace.
LEMMA FailKeeps ==
  ASSUME Inv, Orderly, OneTab, Space, Keeps, queue # <<>>, Head(queue).kind \in Provisioning,
         TaskFails(Head(queue).by), UNCHANGED <<live, snap, unparked, progress>>, step # "reset"
  PROVE  Keeps'
<1>1. /\ \A l \in Labs : Owed(l)' <=> Owed(l)
      /\ \A s \in Sids : Up(s)' <=> Up(s)
  BY FailMoves
<1>2. \A l \in Labs : Parkable(l)' => Parkable(l)
  BY <1>1 DEF Parkable, Holds
<1> QED
  BY <1>2, SameKeeps DEF Clearing

LEMMA BeginKeeps ==
  ASSUME Inv, Orderly, Space, Keeps, Begin
  PROVE  Keeps'
<1>1. /\ queue # <<>> /\ Head(queue).kind \in Provisioning /\ step = "begin"
      /\ UNCHANGED memory /\ UNCHANGED row /\ UNCHANGED <<queue, live, unparked>>
  BY DEF Begin, Running, memory
<1>2. /\ \A l \in Labs : Parkable(l)' => Parkable(l)
      /\ \A l \in Labs : ~Clearing(l)
  BY <1>1, MemorySame, UseParkable DEF Clearing
<1>3. CASE UNCHANGED <<snap, progress>>
  BY <1>1, <1>2, <1>3, SameKeeps
<1>4. CASE /\ Head(queue).kind = "reset" /\ step' = "reset"
           /\ snap' = [snap EXCEPT ![Head(queue).lab] = NoSnapshot]
           /\ progress' = [progress EXCEPT ![Head(queue).lab] = "none"]
  <2>1. snap \in [Labs -> Contents \cup {NoSnapshot}] /\ progress \in [Labs -> Histories]
    BY DEF Inv, TypeOK
  <2> SUFFICES ASSUME NEW l \in Labs PROVE KeepsLab(l)'
    BY DEF Keeps
  <2>2. KeepsLab(l)
    BY DEF Keeps
  <2>3. CASE l = Head(queue).lab
    <3>1. Clearing(l)' /\ snap'[l] = NoSnapshot /\ progress'[l] = "none"
      BY <1>1, <1>4, <2>1, <2>3 DEF Clearing
    <3> QED
      BY <3>1 DEF KeepsLab
  <2>4. CASE l # Head(queue).lab
    BY <1>1, <1>2, <1>4, <2>1, <2>2, <2>4 DEF KeepsLab, Saved
  <2> QED
    BY <2>3, <2>4
<1> QED
  BY <1>3, <1>4 DEF Begin, ToCleanUp

LEMMA SnapshotKeeps ==
  ASSUME Inv, Orderly, Space, OneLabAtATime, Keeps, Snapshot
  PROVE  Keeps'
<1>1. /\ queue # <<>> /\ step # "reset"
      /\ \/ Head(queue).kind = "park"
         \/ Head(queue).kind \in Provisioning /\ step = "retry"
      /\ UNCHANGED memory /\ UNCHANGED row /\ UNCHANGED <<live, unparked, progress>>
      /\ snap' = [snap EXCEPT ![Parked] = live]
  BY DEF Snapshot, Snapshotting, Running
<1>2. Head(queue).kind # "park" => unparked # None
  BY <1>1 DEF Space, TaskStep
<1>3. Parked \in Labs /\ Parkable(Parked)
  BY <1>1, <1>2, Parking DEF Parkable
<1>4. /\ \A l \in Labs : Parkable(l)' => Parkable(l)
      /\ \A l \in Labs : ~Clearing(l)
  BY <1>1, MemorySame, UseParkable DEF Clearing
<1>5. snap \in [Labs -> Contents \cup {NoSnapshot}] /\ live \in Contents
  BY DEF Inv, TypeOK
<1>6. live # NoSnapshot
  BY <1>3, <1>5, AbsentContent
<1>7. ASSUME NEW l \in Labs
      PROVE  KeepsLab(l)'
  <2>1. KeepsLab(l)
    BY DEF Keeps
  <2>2. CASE l = Parked
    <3>1. snap'[l] = live
      BY <1>1, <1>5, <2>2
    <3> QED
      BY <1>1, <1>3, <1>4, <1>6, <2>1, <2>2, <3>1 DEF KeepsLab, Saved
  <2>3. CASE l # Parked
    <3>1. snap'[l] = snap[l]
      BY <1>1, <1>5, <2>3
    <3> QED
      BY <1>1, <1>4, <2>1, <3>1 DEF KeepsLab, Saved
  <2> QED
    BY <2>2, <2>3
<1> QED
  BY <1>7 DEF Keeps

\* A park that fails notes its lab; if it was clearing it away, the lab is torn.
LEMMA ParkFailsKeeps ==
  ASSUME Inv, Orderly, OneTab, Space, OneLabAtATime, Keeps, ParkFails, UNCHANGED snap,
         step \in {"begin", "retry", "wipe"}, step = "begin" => Head(queue).kind = "park",
         \/ UNCHANGED <<live, progress>>
         \/ live' \in PartOf(live) /\ progress' = [progress EXCEPT ![Parked] = "torn"]
  PROVE  Keeps'
<1>1. /\ (\A s \in Sids : ~Up(s)') /\ \A l \in Labs : ~Owed(l)'
      /\ Parked \in Labs /\ unparked' = Parked
      /\ \A l \in Labs : Holds(live, l) => l = Parked
  BY ParkFailsSpace
<1>2. queue # <<>> /\ (Head(queue).kind # "park" => unparked # None)
  BY DEF ParkFails, Running, Space, TaskStep
<1>3. Parkable(Parked)
  <2>1. Head(queue).kind \in Provisioning \cup {"park"}
    BY DEF ParkFails, Running
  <2> QED
    BY <1>2, <2>1, Parking DEF Parkable
<1>4. \A l \in Labs : Parkable(l)' => l = Parked
  BY <1>1 DEF Parkable
<1>5. \A l \in Labs : ~Clearing(l)
  BY DEF Clearing
<1>6. CASE UNCHANGED <<live, progress>>
  <2>1. \A l \in Labs : Parkable(l)' => Parkable(l)
    BY <1>3, <1>4
  <2> QED
    BY <1>5, <1>6, <2>1, SameKeeps
<1>7. CASE live' \in PartOf(live) /\ progress' = [progress EXCEPT ![Parked] = "torn"]
  <2> SUFFICES ASSUME NEW l \in Labs PROVE KeepsLab(l)'
    BY DEF Keeps
  <2>1. progress \in [Labs -> Histories] /\ KeepsLab(l)
    BY DEF Inv, TypeOK, Keeps
  <2>2. l # Parked => ~Parkable(l)' /\ live[l] # "work"
    BY <1>1, <1>4 DEF Holds
  <2>3. progress'[l] = IF l = Parked THEN "torn" ELSE progress[l]
    BY <1>7, <2>1
  <2> QED
    BY <2>1, <2>2, <2>3 DEF KeepsLab, Saved
<1> QED
  BY <1>6, <1>7

LEMMA WipeKeeps ==
  ASSUME Inv, Orderly, Space, OneLabAtATime, Keeps, Wipe
  PROVE  Keeps'
<1>1. /\ \A s \in Sids : ~Up(s)'
      /\ unparked' = None
      /\ \A l \in Labs : ~Owed(l)'
      /\ Parked \in Labs /\ snap[Parked] = live
      /\ \A l \in Labs : Holds(live, l) => l = Parked
      /\ UNCHANGED <<snap, progress>>
  BY WipeSpace
<1>2. live' = Empty /\ live \in Contents /\ None \notin Labs
  BY ConstantsAssumption DEF Wipe, Inv, TypeOK
<1>3. live # NoSnapshot
  BY <1>1, <1>2, AbsentContent
<1>4. \A l \in Labs : live[l] = "work" => l = Parked
  BY <1>1 DEF Holds
<1>5. \A l \in Labs : live[l] = "work" => Saved(l)'
  BY <1>1, <1>3, <1>4 DEF Saved
<1>6. \A l \in Labs : ~Parkable(l)'
  BY <1>1, <1>2 DEF Parkable
<1> QED
  BY <1>1, <1>5, <1>6, NoneKeeps

LEMMA ResetWipeKeeps ==
  ASSUME Inv, Orderly, Space, OneLabAtATime, Keeps, ResetWipe
  PROVE  /\ Keeps'
         /\ Head(queue).lab \in Labs /\ "reset" \in Ops
         /\ \A l \in Labs : Holds(live, l) <=> l = Head(queue).lab
         /\ live' = Empty
<1>1. /\ queue # <<>> /\ Head(queue).kind = "reset" /\ step = "reset" /\ live' = Empty
      /\ UNCHANGED memory /\ UNCHANGED row /\ UNCHANGED <<snap, unparked>>
      /\ progress' = [progress EXCEPT ![Head(queue).lab] = "none"]
  BY DEF ResetWipe, Running
<1>2. /\ unparked = None /\ (\A l \in Labs : ~Owed(l)) /\ "reset" \in Ops
      /\ Head(queue).lab \in Labs /\ Holds(live, Head(queue).lab)
  BY <1>1, Resetting DEF Refilling
<1>3. snap[Head(queue).lab] = NoSnapshot /\ progress \in [Labs -> Histories]
  BY <1>1 DEF Space, TaskStep, Inv, TypeOK
<1>4. \A l \in Labs : Holds(live, l) <=> l = Head(queue).lab
  BY <1>2 DEF OneLabAtATime
<1>6. \A l \in Labs : ~Parkable(l)'
  <2>1. \A l \in Labs : ~Owed(l)'
    BY <1>1, <1>2, MemorySame DEF SameUse
  <2>2. \A l \in Labs : ~Holds(live', l)
    BY <1>1 DEF Holds, Empty
  <2> QED
    BY <1>1, <1>2, <2>1, <2>2, ConstantsAssumption DEF Parkable
<1>7. \A l \in Labs : progress'[l] = "made" =>
        progress[l] = "made" /\ (live[l] = "work" => Saved(l)')
  BY <1>1, <1>3, <1>4 DEF Holds
<1>8. \A l \in Labs : progress'[l] = "none" => progress[l] = "none" \/ snap[l] = NoSnapshot
  BY <1>1, <1>3
<1> QED
  BY <1>1, <1>2, <1>4, <1>6, <1>7, <1>8, NoneKeeps

LEMMA VerifyKeeps ==
  ASSUME Inv, Orderly, OneTab, Space, Keeps, Verify
  PROVE  Keeps'
<1>1. /\ queue # <<>> /\ Head(queue).kind \in Provisioning /\ step = "verify"
      /\ UNCHANGED <<live, snap, unparked, progress>>
  BY DEF Verify, Running, cluster
<1>2. \A l \in Labs : ~Clearing(l)
  BY <1>1 DEF Clearing
<1>3. CASE UNCHANGED <<memory, row>>
  BY <1>1, <1>2, <1>3, MemorySame, UseParkable, SameKeeps
<1>4. CASE TaskFails(Head(queue).by)
  BY <1>1, <1>4, FailKeeps
<1> QED
  BY <1>3, <1>4 DEF Verify

\* What a lab opens with: its work, or what its setup makes.
LEMMA TargetKeeps ==
  ASSUME Inv, Orderly, Space, Keeps, step = "fill", Head(queue) \in Task
  PROVE  LET l == Head(queue).lab IN
         /\ progress[l] = "made" /\ ~Holds(live, l) => Target(Head(queue))[l] = "work"
         /\ progress[l] = "none" => Target(Head(queue))[l] = "ready"
<1> DEFINE t == Head(queue)
<1>1. t.lab \in Labs /\ KeepsLab(t.lab)
  BY DEF Task, Keeps
<1>2. queue # <<>> /\ (t.kind = "reset" => snap[t.lab] = NoSnapshot) /\ t.kind \in {"open", "reset"}
  BY DEF Space, TaskStep, Task, Kinds
<1>3. progress[t.lab] = "made" /\ ~Holds(live, t.lab) =>
        snap[t.lab] # NoSnapshot /\ snap[t.lab][t.lab] = "work"
  BY <1>1 DEF KeepsLab, Saved, Holds
<1>4. Empty[t.lab] = "none" /\ [Empty EXCEPT ![t.lab] = "ready"][t.lab] = "ready"
  BY <1>1 DEF Empty
<1>5. CASE Restores(t)
  BY <1>1, <1>3, <1>5 DEF Target, Restores, KeepsLab
<1>6. CASE ~Restores(t)
  <2>1. snap[t.lab] \in {NoSnapshot, Empty}
    BY <1>2, <1>6 DEF Restores
  <2> QED
    BY <1>3, <1>4, <1>6, <2>1 DEF Target
<1> QED
  BY <1>5, <1>6

\* A lab that was filled in shows its work or what its setup makes.
Shown(c, l) == /\ progress[l] = "made" => c[l] = "work"
               /\ progress[l] = "none" => c[l] = "ready"

LEMMA FillKeeps ==
  ASSUME Inv, Orderly, OneTab, Space, Keeps, Fill
  PROVE  Keeps' /\ Shown(live', Head(queue).lab)
<1>1. /\ unparked' = None
      /\ \A l \in Labs : ~Owed(l)'
      /\ \A s \in Sids : Up(s)' => LabOf[s] = Head(queue).lab
      /\ Head(queue) \in Task
      /\ live' = Applied(live, Target(Head(queue)))
      /\ \A l \in Labs : Holds(live', l) <=> l = Head(queue).lab
  BY FillSpace
<1>2. Head(queue).lab \in Labs /\ step = "fill" /\ UNCHANGED <<snap, progress>> /\ queue # <<>>
  BY <1>1 DEF Task, Fill, Running
<1>3. \A l \in Labs : l # Head(queue).lab => live[l] = "none"
  BY <1>2, Filling DEF Holds
<1>4. Shown(live', Head(queue).lab)
  <2> DEFINE l == Head(queue).lab
  <2>1. /\ progress[l] = "made" /\ ~Holds(live, l) => Target(Head(queue))[l] = "work"
        /\ progress[l] = "none" => Target(Head(queue))[l] = "ready"
    BY <1>1, <1>2, TargetKeeps
  <2>2. live'[l] = IF Holds(live, l) THEN live[l] ELSE Target(Head(queue))[l]
    BY <1>1, <1>2, AppliedHolds
  <2>3. CASE Holds(live, l)
    <3>1. Refilling
      BY <1>2, <2>3, Filling
    <3>2. Head(queue).kind = "reset"
      BY <3>1 DEF Refilling
    <3>3. Parkable(l) /\ ~Clearing(l)
      BY <1>2, <2>3, <3>2, Resetting DEF Parkable, Clearing
    <3>4. KeepsLab(l)
      BY <1>2 DEF Keeps
    <3> QED
      BY <2>2, <2>3, <3>3, <3>4 DEF KeepsLab, Shown
  <2>4. CASE ~Holds(live, l)
    BY <2>1, <2>2, <2>4 DEF Shown
  <2> QED
    BY <2>3, <2>4
<1>6. \A l \in Labs : Parkable(l)' => l = Head(queue).lab
  BY <1>1, ConstantsAssumption DEF Parkable
<1>7. ASSUME NEW l \in Labs
      PROVE  KeepsLab(l)'
  <2>1. KeepsLab(l)
    BY DEF Keeps
  <2>2. CASE l = Head(queue).lab
    BY <1>2, <1>4, <2>1, <2>2 DEF KeepsLab, Saved, Shown
  <2>3. CASE l # Head(queue).lab
    BY <1>2, <1>3, <1>6, <2>1, <2>3 DEF KeepsLab, Saved
  <2> QED
    BY <2>2, <2>3
<1> QED
  BY <1>4, <1>7 DEF Keeps

LEMMA FillFailsKeeps ==
  ASSUME Inv, Orderly, OneTab, Space, Keeps, FillFails
  PROVE  /\ Keeps'
         /\ \A l \in Labs : Holds(live', l) => l = Head(queue).lab
         /\ \/ live'[Head(queue).lab] \in {"none", "partial"}
            \/ Shown(live', Head(queue).lab)
<1>1. /\ unparked' = None
      /\ \A l \in Labs : ~Owed(l)'
      /\ \A s \in Sids : ~Up(s)'
      /\ Head(queue) \in Task
      /\ live = Empty /\ live' \in PartOf(Target(Head(queue)))
  BY FillFailsSpace
<1>2. Head(queue).lab \in Labs /\ step = "fill" /\ UNCHANGED <<snap, progress>>
  BY <1>1 DEF Task, FillFails
<1>3. \A l \in Labs : live[l] = "none"
  BY <1>1 DEF Empty
<1>4. Shown(Target(Head(queue)), Head(queue).lab)
  BY <1>1, <1>2, <1>3, TargetKeeps DEF Shown, Holds
<1>5. \A l \in Labs : Holds(Target(Head(queue)), l) <=> l = Head(queue).lab
  BY <1>1, TargetHolds
<1>6. \A l \in Labs : live'[l] \in {"none", "partial", Target(Head(queue))[l]}
  BY <1>1 DEF PartOf
<1>7. \A l \in Labs : Holds(live', l) => l = Head(queue).lab
  BY <1>1, <1>5, PartHolds
<1>8. \A l \in Labs : ~Parkable(l)'
  BY <1>1, ConstantsAssumption DEF Parkable
<1>9. Keeps'
  BY <1>2, <1>3, <1>8, NoneKeeps
<1> QED
  BY <1>2, <1>4, <1>6, <1>7, <1>9 DEF Shown

LEMMA WorkKeepsWork ==
  ASSUME Inv, Orderly, OneTab, Space, Keeps, NEW s \in Sids, Work(s)
  PROVE  Keeps'
<1>1. /\ SameUse /\ LabOf[s] \in Labs
      /\ \A l \in Labs : Holds(live', l) <=> Holds(live, l) \/ l = LabOf[s]
  BY WorkSpace
<1>2. /\ live' = [live EXCEPT ![LabOf[s]] = "work"]
      /\ progress' = [progress EXCEPT ![LabOf[s]] = "made"]
      /\ UNCHANGED <<queue, step, snap, unparked>>
      /\ live \in Contents /\ progress \in [Labs -> Histories]
  BY DEF Work, memory, Inv, TypeOK
<1>3. \A l \in Labs : l # LabOf[s] /\ Parkable(l)' => Parkable(l)
  BY <1>1, <1>2 DEF Parkable, SameUse
<1>4. \A l \in Labs : Clearing(l)' <=> Clearing(l)
  BY <1>2 DEF Clearing
<1>5. ASSUME NEW l \in Labs
      PROVE  KeepsLab(l)'
  <2>1. KeepsLab(l)
    BY DEF Keeps
  <2> QED
    BY <1>1, <1>2, <1>3, <1>4, <2>1 DEF KeepsLab, Saved, Contents
<1> QED
  BY <1>5 DEF Keeps

LEMMA SlotKeeps ==
  ASSUME Inv, Orderly, OneTab, Space, Keeps, SlotTaken
  PROVE  Keeps'
<1>1. UNCHANGED <<live, snap, unparked, progress>> /\ step' = "begin" /\ step # "reset"
  BY DEF SlotTaken, cluster, Space, TaskStep
<1> QED
  BY <1>1, SlotMoves, UseParkable, SameKeeps DEF Clearing

LEMMA InitKeeps == Init => Keeps
<1> SUFFICES ASSUME Init, NEW l \in Labs PROVE KeepsLab(l)
  BY DEF Keeps
<1>1. unparked # l /\ snap[l] = NoSnapshot /\ progress[l] = "none"
  BY ConstantsAssumption DEF Init
<1>2. ~Owed(l)
  <2>1. queue = <<>> /\ \A r \in Requests : req[r].pc = "idle"
    BY DEF Init, Idle
  <2>2. DOMAIN queue = {}
    BY <2>1
  <2> QED
    BY <2>1, <2>2 DEF Owed, Owes, ParkFor, EndFor
<1>3. \A s \in Sids : ~Up(s)
  BY DEF Init, Up, IsActive
<1> QED
  BY <1>1, <1>2, <1>3 DEF KeepsLab, Parkable

LEMMA NextKeeps ==
  ASSUME OneTab, Inv, OneLabAtATime, Orderly, Space, Keeps, [Next]_vars
  PROVE  Keeps'
<1>1. ASSUME NEW r \in Requests, Arrive(r) \/ Handler(r)
      PROVE  Keeps'
  BY <1>1, MoveKeeps
<1>2. CASE Chain
  <2>1. CASE Refused
    BY <2>1, FailKeeps DEF Refused, Running, cluster
  <2>2. CASE SnapshotFails
    BY <2>2, ParkFailsKeeps DEF SnapshotFails, Snapshotting, Running
  <2>3. CASE WipeFails
    BY <2>3, ParkFailsKeeps DEF WipeFails
  <2> QED
    BY <1>2, <2>1, <2>2, <2>3, SlotKeeps, BeginKeeps, SnapshotKeeps, WipeKeeps,
       ResetWipeKeeps, NoResetFails, VerifyKeeps, FillKeeps, FillFailsKeeps
    DEF Chain
<1>3. ASSUME NEW s \in Sids, Work(s)
      PROVE  Keeps'
  BY <1>3, WorkKeepsWork
<1>4. CASE UNCHANGED vars
  <2>1. UNCHANGED memory /\ UNCHANGED row /\ UNCHANGED <<queue, step, live, snap, unparked, progress>>
    BY <1>4 DEF vars, memory
  <2> QED
    BY <2>1, MemorySame, UseParkable, SameKeeps DEF Clearing
<1> QED
  BY <1>1, <1>2, <1>3, <1>4 DEF Next, Crash, OneTab

\* Work is saved, and there if a park may come, unless its lab is torn.
THEOREM KeepsHolds ==
  ASSUME OneTab
  PROVE  Spec => []Keeps
<1>1. Inv /\ OneLabAtATime /\ Orderly /\ Space /\ Keeps /\ [Next]_vars => Keeps'
  BY NextKeeps
<1> QED
  BY <1>1, InOrderHolds, InitKeeps, InvHolds, PTL DEF Spec

\* What the learner made in a lab is in the namespace or in that lab's snapshot
\* until a reset discards it or clearing away this very lab fails, whatever else
\* fails (k8sCluster.ts:1390-1391).
THEOREM ProgressKeptHolds ==
  ASSUME OneTab
  PROVE  Spec => []ProgressKept
<1>1. Keeps => ProgressKept
  BY DEF Keeps, KeepsLab, ProgressKept
<1> QED
  BY <1>1, KeepsHolds, PTL

\* A lab in which the learner made something, and that was not reset nor torn
\* since, is never there as its setup makes it: it opens from its snapshot
\* (k8sLifecycle.ts:39-44, k8sCluster.ts:1435-1440).
OpenedAsLeft == \A l \in Labs : progress[l] = "made" => live[l] # "ready"

LEMMA NextShown ==
  ASSUME OneTab, Inv, OneLabAtATime, Orderly, Space, Keeps, OpenedAsLeft, [Next]_vars
  PROVE  OpenedAsLeft'
<1>1. live \in Contents /\ progress \in [Labs -> Histories]
  BY DEF Inv, TypeOK
<1>2. ASSUME UNCHANGED live, \A l \in Labs : progress'[l] = "made" => progress[l] = "made"
      PROVE  OpenedAsLeft'
  BY <1>2 DEF OpenedAsLeft
<1>3. ASSUME NEW r \in Requests, Arrive(r) \/ Handler(r)
      PROVE  OpenedAsLeft'
  BY <1>2, <1>3, TaskKept
<1>4. CASE Begin
  BY <1>1, <1>2, <1>4 DEF Begin, ToCleanUp
<1>5. CASE WipeFails
  BY <1>1, <1>5 DEF WipeFails, PartOf, OpenedAsLeft
<1>6. CASE Wipe \/ ResetWipe
  BY <1>6 DEF Wipe, ResetWipe, OpenedAsLeft, Empty
<1>7. CASE Fill
  <2>1. /\ \A l \in Labs : Holds(live', l) <=> l = Head(queue).lab
        /\ Shown(live', Head(queue).lab) /\ progress' = progress
    BY <1>7, FillSpace, FillKeeps DEF Fill
  <2> QED
    BY <2>1 DEF OpenedAsLeft, Holds, Shown
<1>8. CASE FillFails
  <2>1. /\ \A l \in Labs : Holds(live', l) => l = Head(queue).lab
        /\ \/ live'[Head(queue).lab] \in {"none", "partial"}
           \/ Shown(live', Head(queue).lab)
        /\ progress' = progress
    BY <1>8, FillFailsKeeps DEF FillFails
  <2> QED
    BY <2>1 DEF OpenedAsLeft, Holds, Shown
<1>9. ASSUME NEW s \in Sids, Work(s)
      PROVE  OpenedAsLeft'
  BY <1>1, <1>9 DEF Work, OpenedAsLeft, Contents
<1>10. CASE Refused \/ SnapshotFails \/ Snapshot \/ Verify \/ SlotTaken
  BY <1>2, <1>10 DEF Refused, SnapshotFails, Snapshot, Verify, SlotTaken, cluster
<1>11. CASE UNCHANGED vars
  BY <1>2, <1>11 DEF vars
<1> QED
  BY <1>3, <1>4, <1>5, <1>6, <1>7, <1>8, <1>9, <1>10, <1>11, NoResetFails
  DEF Next, Chain, Crash, OneTab

\* A learner who comes back finds the lab as it was left, never a fresh one.
THEOREM OpenedAsLeftHolds ==
  ASSUME OneTab
  PROVE  Spec => []OpenedAsLeft
<1>1. Init => OpenedAsLeft
  BY DEF Init, OpenedAsLeft, Empty
<1>2. Inv /\ OneLabAtATime /\ Orderly /\ Space /\ Keeps /\ OpenedAsLeft /\ [Next]_vars =>
        OpenedAsLeft'
  BY NextShown
<1>3. Spec => []Keeps
  BY KeepsHolds
<1> QED
  BY <1>1, <1>2, <1>3, InOrderHolds, InvHolds, PTL DEF Spec

-----------------------------------------------------------------------------
(* What is left in the namespace.                                            *)

\* While fills succeed, whatever is in the namespace is of a lab that is in use
\* or that a park is going to take away.
Explained == live # Empty => \E l \in Labs : Holds(live, l) /\ Parkable(l)

LEMMA SameExplained ==
  ASSUME Inv, Orderly, Space, Explained, UNCHANGED <<live, unparked>>,
         SameUse \/ \E s \in Sids : Up(s) /\ EndsUse(s)
  PROVE  Explained'
<1>1. CASE SameUse
  BY <1>1 DEF SameUse, Explained, Parkable, Holds
<1>2. ASSUME NEW s \in Sids, Up(s), EndsUse(s)
      PROVE  Explained'
  <2>1. Holds(live, LabOf[s]) /\ LabOf[s] \in Labs
    BY <1>2, IdleSession, ConstantsAssumption DEF EndsUse
  <2> QED
    BY <1>2, <2>1 DEF EndsUse, Explained, Parkable, Holds
<1> QED
  BY <1>1, <1>2

LEMMA FailExplained ==
  ASSUME Inv, Orderly, OneTab, Space, Explained, queue # <<>>, Head(queue).kind \in Provisioning,
         TaskFails(Head(queue).by), UNCHANGED <<live, unparked>>
  PROVE  Explained'
<1>1. /\ \A l \in Labs : Owed(l)' <=> Owed(l)
      /\ \A s \in Sids : Up(s)' <=> Up(s)
  BY FailMoves
<1> QED
  BY <1>1 DEF Explained, Parkable, Holds

\* A park that fails is noted.
LEMMA ParkFailsExplained ==
  ASSUME Inv, Orderly, Space, OneLabAtATime, ParkFails,
         step \in {"begin", "retry", "wipe"}, step = "begin" => Head(queue).kind = "park",
         live' = live \/ live' \in PartOf(live)
  PROVE  Explained'
<1>1. /\ queue # <<>> /\ unparked' = Parked
      /\ Head(queue).kind \in Provisioning \cup {"park"}
  BY DEF ParkFails, Running
<1>2. Head(queue).kind # "park" => Head(queue).kind \in Provisioning /\ unparked # None
  BY <1>1 DEF Space, TaskStep
<1>3. Parked \in Labs /\ \A l \in Labs : Holds(live, l) => l = Parked
  BY <1>1, <1>2, Parking
<1>4. live' # Empty => \E l \in Labs : Holds(live', l)
  BY PartType, EmptyType DEF Inv, TypeOK, Contents, Holds, Empty
<1>5. \A l \in Labs : Holds(live', l) => Holds(live, l)
  BY PartHolds DEF Holds
<1> QED
  BY <1>1, <1>3, <1>4, <1>5 DEF Explained, Parkable

LEMMA NextExplained ==
  ASSUME OneTab, Env \cap {"restore", "setup"} = {}, Inv, OneLabAtATime, Orderly, Space,
         Explained, [Next]_vars
  PROVE  Explained'
<1>1. ASSUME NEW r \in Requests, Arrive(r) \/ Handler(r)
      PROVE  Explained'
  BY <1>1, TaskKept, ArriveMoves, HandlerMoves, SameExplained
<1>2. ASSUME UNCHANGED memory, UNCHANGED row, UNCHANGED <<live, unparked>>
      PROVE  Explained'
  BY <1>2, MemorySame, SameExplained
<1>3. CASE Begin \/ Snapshot
  BY <1>2, <1>3 DEF Begin, Snapshot
<1>4. CASE Refused \/ Verify
  <2>1. queue # <<>> /\ Head(queue).kind \in Provisioning /\ UNCHANGED <<live, unparked>>
    BY <1>4 DEF Refused, Verify, Running, cluster
  <2>2. CASE TaskFails(Head(queue).by)
    BY <2>1, <2>2, FailExplained
  <2>3. CASE UNCHANGED <<memory, row>>
    BY <1>2, <2>1, <2>3
  <2> QED
    BY <1>4, <2>2, <2>3 DEF Refused, Verify
<1>5. CASE SnapshotFails
  BY <1>5, ParkFailsExplained DEF SnapshotFails, Snapshotting, Running
<1>6. CASE WipeFails
  BY <1>6, ParkFailsExplained DEF WipeFails
<1>7. CASE Wipe \/ ResetWipe
  BY <1>7 DEF Wipe, ResetWipe, Explained
<1>8. ~ResetWipeFails
  BY NoResetFails
<1>9. CASE Fill
  <2>1. /\ \E s \in Sids : Up(s)' /\ LabOf[s] = Head(queue).lab
        /\ Head(queue) \in Task
        /\ \A l \in Labs : Holds(live', l) <=> l = Head(queue).lab
    BY <1>9, FillSpace
  <2> QED
    BY <2>1 DEF Explained, Parkable, Task
<1>10. CASE FillFails
  BY <1>10 DEF FillFails
<1>11. CASE SlotTaken
  BY <1>11, SlotMoves, SameExplained DEF SlotTaken, cluster
<1>12. ASSUME NEW s \in Sids, Work(s)
       PROVE  Explained'
  <2>1. /\ SameUse /\ Up(s) /\ LabOf[s] \in Labs
        /\ \A l \in Labs : Holds(live', l) <=> Holds(live, l) \/ l = LabOf[s]
    BY <1>12, WorkSpace
  <2> QED
    BY <2>1 DEF Explained, Parkable, SameUse
<1>13. CASE UNCHANGED vars
  BY <1>2, <1>13 DEF vars, memory
<1>14. ~Crash
  BY DEF Crash, OneTab
<1> QED
  BY <1>1, <1>3, <1>4, <1>5, <1>6, <1>7, <1>8, <1>9, <1>10, <1>11, <1>12, <1>13, <1>14
  DEF Next, Chain

\* When nothing is in flight, what is in the namespace belongs to an active
\* session or to the lab whose park failed (k8sLifecycle.ts:190-192).
THEOREM LeftoversExplainedHolds ==
  ASSUME OneTab, Env \cap {"restore", "setup"} = {}
  PROVE  Spec => []LeftoversExplained
<1>4. Init => Explained
  BY DEF Init, Explained
<1>5. Inv /\ OneLabAtATime /\ Orderly /\ Space /\ Explained /\ [Next]_vars => Explained'
  BY NextExplained
<1>6. Explained => LeftoversExplained
  <2> SUFFICES ASSUME Explained, Quiet, live # Empty, unparked = None
               PROVE  \E s \in Sids : IsActive(s) /\ Holds(live, LabOf[s])
    BY DEF LeftoversExplained
  <2>1. PICK l \in Labs : Parkable(l)
    BY DEF Explained
  <2>2. DOMAIN queue = {} /\ \A r \in Requests : req[r].pc = "idle"
    BY DEF Quiet
  <2>3. ~Owed(l) /\ unparked # l
    BY <2>2, ConstantsAssumption DEF Owed, Owes, ParkFor, EndFor
  <2> QED
    BY <2>1, <2>3 DEF Parkable, Up
<1> QED
  BY <1>4, <1>5, <1>6, InOrderHolds, InvHolds, PTL DEF Spec

-----------------------------------------------------------------------------
(* The abstract specification.                                               *)

PromiseHere == Occupant
PromiseView == IF live = Empty THEN "none" ELSE live[Occupant]
PromiseKept == {l \in Labs : progress[l] = "made"}
PromiseTorn == {l \in Labs : progress[l] = "torn"}

\* The one lab that is in the namespace is its occupant.
LEMMA OccupantIs ==
  ASSUME NEW l \in Labs, \A k \in Labs : Holds(live, k) <=> k = l
  PROVE  Occupant = l /\ live # Empty
<1>1. live # Empty
  BY DEF Holds, Empty
<1> QED
  BY <1>1 DEF Occupant

LEMMA OccupantIsNext ==
  ASSUME NEW l \in Labs, \A k \in Labs : Holds(live', k) <=> k = l
  PROVE  Occupant' = l /\ live' # Empty
<1>1. live' # Empty
  BY DEF Holds, Empty
<1> QED
  BY <1>1 DEF Occupant

LEMMA NoOccupant ==
  /\ live = Empty => PromiseHere = None /\ PromiseView = "none"
  /\ live' = Empty => PromiseHere' = None /\ PromiseView' = "none"
BY DEF PromiseHere, PromiseView, Occupant

LEMMA SameHere ==
  ASSUME live' = live
  PROVE  PromiseHere' = PromiseHere /\ PromiseView' = PromiseView
BY DEF PromiseHere, PromiseView, Occupant, Holds

LEMMA SameHistory ==
  ASSUME progress' = progress
  PROVE  PromiseKept' = PromiseKept /\ PromiseTorn' = PromiseTorn
BY DEF PromiseKept, PromiseTorn

\* How each step of the labs changes the histories, as KeptWork sees it.
LEMMA NewHistory ==
  ASSUME NEW lab \in Labs, progress \in [Labs -> Histories]
  PROVE  /\ progress' = [progress EXCEPT ![lab] = "made"] =>
              PromiseKept' = PromiseKept \cup {lab} /\ PromiseTorn' = PromiseTorn \ {lab}
         /\ progress' = [progress EXCEPT ![lab] = "torn"] =>
              PromiseKept' = PromiseKept \ {lab} /\ PromiseTorn' = PromiseTorn \cup {lab}
         /\ progress' = [progress EXCEPT ![lab] = "none"] =>
              PromiseKept' = PromiseKept \ {lab} /\ PromiseTorn' = PromiseTorn \ {lab}
BY DEF PromiseKept, PromiseTorn

\* A lab that is filled shows what KeptWork allows.
LEMMA ShownAllowed ==
  ASSUME NEW lab \in Labs, Shown(live', lab), Holds(live', lab),
         live' \in Contents, progress \in [Labs -> Histories]
  PROVE  live'[lab] \in Promise!Shows(lab)
<1>1. live'[lab] \in {"partial", "ready", "work"}
  BY DEF Holds, Contents, Content
<1> QED
  BY <1>1 DEF Shown, Promise!Shows, Histories

LEMMA TearStep ==
  ASSUME OneTab, Inv, OneLabAtATime, Orderly, Space, Keeps, WipeFails
  PROVE  [Promise!Next]_(Promise!vars)
<1>1. /\ queue # <<>> /\ step = "wipe" /\ ParkFails /\ "wipe" \in Env
      /\ live' \in PartOf(live) /\ progress' = [progress EXCEPT ![Parked] = "torn"]
      /\ Head(queue).kind \in Provisioning \cup {"park"}
  BY DEF WipeFails, Running
<1>2. /\ Parked \in Labs /\ \A l \in Labs : Holds(live, l) => l = Parked
  BY <1>1, ParkFailsSpace DEF WipeFails
<1> PICK lab \in Labs : lab = Parked
  BY <1>2
<1>3. progress \in [Labs -> Histories] /\ live \in Contents /\ live' \in Contents
  BY <1>1, PartType DEF Inv, TypeOK
<1>4. progress' = [progress EXCEPT ![lab] = "torn"]
  BY <1>1
<1>5. \A l \in Labs : Holds(live', l) => l = lab
  BY <1>1, <1>2, PartHolds DEF Holds
<1>6. CASE live = Empty
  <2>1. Parkable(lab)
    <3>1. Head(queue).kind # "park" => Head(queue).kind \in Provisioning /\ unparked # None
      BY <1>1 DEF Space, TaskStep
    <3> QED
      BY <1>1, <3>1, Parking DEF Parkable
  <2>2. progress[lab] = "torn"
    BY <1>1, <1>3, <1>6, <2>1 DEF Keeps, KeepsLab, Clearing, Empty, Histories
  <2>3. progress' = progress
    BY <1>3, <1>4, <2>2
  <2>4. live' = live
    <3>1. \A l \in Labs : live'[l] = live[l]
      BY <1>1, <1>6 DEF PartOf, Holds, Empty
    <3> QED
      BY <1>3, <3>1 DEF Contents
  <2> QED
    BY <2>3, <2>4, SameHere, SameHistory DEF PromiseHere, PromiseView, PromiseKept, PromiseTorn, Promise!vars
<1>7. CASE live # Empty
  <2>1. Holds(live, lab)
    BY <1>2, <1>3, <1>7, EmptyType DEF Contents, Holds, Empty
  <2>2. PromiseHere = lab /\ PromiseHere # None /\ PromiseView = live[lab]
    BY <1>2, <2>1, OccupantIs, ConstantsAssumption DEF PromiseHere, PromiseView
  <2>3. PromiseKept' = PromiseKept \ {lab} /\ PromiseTorn' = PromiseTorn \cup {lab}
    BY <1>3, <1>4, NewHistory
  <2>4. \/ PromiseHere' = lab /\ PromiseView' \in {live[lab], "partial"}
        \/ PromiseHere' = None /\ PromiseView' = "none"
    <3>1. CASE Holds(live', lab)
      <4>1. PromiseHere' = lab /\ PromiseView' = live'[lab]
        BY <1>5, <3>1, OccupantIsNext DEF PromiseHere, PromiseView
      <4> QED
        BY <1>1, <3>1, <4>1 DEF PartOf, Holds
    <3>2. CASE ~Holds(live', lab)
      <4>1. live' = Empty
        BY <1>3, <1>5, <3>2, EmptyType DEF Holds, Empty, Contents
      <4> QED
        BY <4>1, NoOccupant
    <3> QED
      BY <3>1, <3>2
  <2>5. Promise!Tear
    BY <1>1, <2>2, <2>3, <2>4
    DEF Promise!Tear, PromiseHere, PromiseView, PromiseKept, PromiseTorn
  <2> QED
    BY <2>5 DEF Promise!Next
<1> QED
  BY <1>6, <1>7

LEMMA OpenStep ==
  ASSUME OneTab, "reset" \in Ops => "stray" \notin Env, Inv, OneLabAtATime, Orderly, Space, Keeps, Fill \/ FillFails
  PROVE  [Promise!Next]_(Promise!vars)
<1> DEFINE l == Head(queue).lab
<1>1. /\ l \in Labs /\ progress' = progress
      /\ \A k \in Labs : Holds(live', k) => k = l
      /\ live'[l] \in {"none", "partial"} \/ Shown(live', l)
      /\ Fill => Holds(live', l) /\ Shown(live', l)
  BY FillSpace, FillKeeps, FillFailsSpace, FillFailsKeeps DEF Task, Fill, FillFails
<1>2. live = Empty
  <2>1. step = "fill" /\ queue # <<>> /\ Head(queue).kind \in Provisioning
    BY DEF Fill, FillFails, Running
  <2> QED
    BY <2>1, Filling, Resetting
<1>3. live' \in Contents /\ progress \in [Labs -> Histories]
  BY NextInv DEF Inv, TypeOK, Next, Chain
<1> PICK lab \in Labs : lab = l
  BY <1>1
<1> HIDE DEF l
<1>4. PromiseHere = None
  BY <1>2, NoOccupant
<1>5. PromiseKept' = PromiseKept /\ PromiseTorn' = PromiseTorn
  BY <1>1, SameHistory
<1>6. CASE ~Holds(live', lab)
  <2>1. live' = live
    BY <1>1, <1>2, <1>3, <1>6, EmptyType DEF Holds, Empty, Contents
  <2> QED
    BY <1>1, <2>1, SameHere, SameHistory DEF PromiseHere, PromiseView, PromiseKept, PromiseTorn, Promise!vars
<1>7. CASE Holds(live', lab)
  <2>1. PromiseHere' = lab /\ PromiseView' = live'[lab]
    BY <1>1, <1>7, OccupantIsNext DEF PromiseHere, PromiseView
  <2>2. Shown(live', lab) => PromiseView' \in Promise!Shows(lab)
    BY <1>3, <1>7, <2>1, ShownAllowed
  <2>3. CASE Shown(live', lab)
    <3>1. Promise!Open(lab)
      BY <1>4, <1>5, <2>1, <2>2, <2>3
      DEF Promise!Open, PromiseHere, PromiseView, PromiseKept, PromiseTorn
    <3> QED
      BY <3>1 DEF Promise!Next
  <2>4. CASE ~Shown(live', lab)
    <3>1. PromiseView' = "partial"
      BY <1>1, <1>7, <2>1, <2>4 DEF Holds
    <3>2. Promise!OpenInPart(lab)
      BY <1>4, <1>5, <2>1, <3>1
      DEF Promise!OpenInPart, PromiseHere, PromiseView, PromiseKept, PromiseTorn
    <3> QED
      BY <3>2 DEF Promise!Next
  <2> QED
    BY <2>3, <2>4
<1> QED
  BY <1>6, <1>7

LEMMA MakeStep ==
  ASSUME OneTab, "reset" \in Ops => "stray" \notin Env, Inv, OneLabAtATime, Orderly, Space, Keeps,
         NEW s \in Sids, Work(s)
  PROVE  [Promise!Next]_(Promise!vars)
<1>1. /\ LabOf[s] \in Labs
      /\ \A l \in Labs : Holds(live', l) <=> Holds(live, l) \/ l = LabOf[s]
  BY WorkSpace
<1> PICK lab \in Labs : lab = LabOf[s]
  BY <1>1
<1>2. Holds(live, lab) /\ live'[lab] = "work"
  <2>1. Refilling => "reset" \in Ops
    BY Resetting DEF Refilling
  <2>2. Holds(live, LabOf[s])
    BY <2>1, WorkSpace
  <2> QED
    BY <1>1, <2>2 DEF Work, Inv, TypeOK, Contents
<1>3. \A l \in Labs : Holds(live, l) <=> l = lab
  BY <1>2 DEF OneLabAtATime
<1>4. PromiseHere = lab /\ PromiseHere' = lab /\ PromiseView' = "work"
  BY <1>1, <1>2, <1>3, OccupantIs, OccupantIsNext DEF PromiseHere, PromiseView
<1>5. progress' = [progress EXCEPT ![lab] = "made"] /\ progress \in [Labs -> Histories]
  BY DEF Work, Inv, TypeOK
<1>6. PromiseKept' = PromiseKept \cup {lab} /\ PromiseTorn' = PromiseTorn \ {lab}
  BY <1>5, NewHistory
<1>7. Promise!Make
  BY <1>4, <1>6, ConstantsAssumption
  DEF Promise!Make, PromiseHere, PromiseView, PromiseKept, PromiseTorn
<1> QED
  BY <1>7 DEF Promise!Next

\* A reset gives up what was kept as it drops the snapshot ...
LEMMA DiscardStep ==
  ASSUME Inv, OneLabAtATime, Orderly, Space, Begin
  PROVE  [Promise!Next]_(Promise!vars)
<1>1. /\ queue # <<>> /\ step = "begin" /\ live' = live
      /\ \/ UNCHANGED progress
         \/ /\ Head(queue).kind = "reset"
            /\ progress' = [progress EXCEPT ![Head(queue).lab] = "none"]
  BY DEF Begin, Running, ToCleanUp
<1>2. CASE UNCHANGED progress
  BY <1>1, <1>2, SameHere, SameHistory DEF PromiseHere, PromiseView, PromiseKept, PromiseTorn, Promise!vars
<1>3. CASE /\ Head(queue).kind = "reset"
           /\ progress' = [progress EXCEPT ![Head(queue).lab] = "none"]
  <2>1. /\ Head(queue).lab \in Labs /\ "reset" \in Ops
        /\ Holds(live, Head(queue).lab)
    BY <1>1, <1>3, Resetting DEF Refilling
  <2> PICK lab \in Labs : lab = Head(queue).lab
    BY <2>1
  <2>2. PromiseHere = lab /\ PromiseHere # None
    BY <2>1, OccupantIs, ConstantsAssumption DEF PromiseHere, OneLabAtATime
  <2>3. PromiseKept' = PromiseKept \ {lab} /\ PromiseTorn' = PromiseTorn \ {lab}
    BY <1>3, NewHistory DEF Inv, TypeOK
  <2>4. Promise!Discard
    BY <1>1, <2>1, <2>2, <2>3, SameHere
    DEF Promise!Discard, PromiseHere, PromiseView, PromiseKept, PromiseTorn
  <2> QED
    BY <2>4 DEF Promise!Next
<1> QED
  BY <1>1, <1>2, <1>3

\* ... and once more as it clears the namespace.
LEMMA ClearStep ==
  ASSUME Inv, OneLabAtATime, Orderly, Space, Keeps, ResetWipe
  PROVE  [Promise!Next]_(Promise!vars)
<1>1. /\ Head(queue).lab \in Labs /\ "reset" \in Ops /\ live' = Empty
      /\ \A l \in Labs : Holds(live, l) <=> l = Head(queue).lab
      /\ progress' = [progress EXCEPT ![Head(queue).lab] = "none"]
  BY ResetWipeKeeps DEF ResetWipe
<1> PICK lab \in Labs : lab = Head(queue).lab
  BY <1>1
<1>2. /\ PromiseHere = lab /\ PromiseHere # None
      /\ PromiseHere' = None /\ PromiseView' = "none"
  BY <1>1, OccupantIs, NoOccupant, ConstantsAssumption DEF PromiseHere
<1>3. PromiseKept' = PromiseKept \ {lab} /\ PromiseTorn' = PromiseTorn \ {lab}
  BY <1>1, NewHistory DEF Inv, TypeOK
<1>4. Promise!Clear
  BY <1>1, <1>2, <1>3 DEF Promise!Clear, PromiseHere, PromiseView, PromiseKept, PromiseTorn
<1> QED
  BY <1>4 DEF Promise!Next

LEMMA CloseStep ==
  ASSUME Inv, OneLabAtATime, Orderly, Space, Keeps, Wipe
  PROVE  [Promise!Next]_(Promise!vars)
<1>1. /\ Parked \in Labs /\ live' = Empty /\ progress' = progress
      /\ \A l \in Labs : Holds(live, l) => l = Parked
  BY WipeSpace DEF Wipe
<1>2. PromiseKept' = PromiseKept /\ PromiseTorn' = PromiseTorn
  BY <1>1, SameHistory
<1>3. CASE live = Empty
  BY <1>1, <1>2, <1>3, SameHere DEF PromiseHere, PromiseView, PromiseKept, PromiseTorn, Promise!vars
<1>4. CASE live # Empty
  <2>1. Holds(live, Parked)
    BY <1>1, <1>4, EmptyType DEF Inv, TypeOK, Contents, Holds, Empty
  <2>2. PromiseHere # None /\ PromiseHere' = None /\ PromiseView' = "none"
    BY <1>1, <2>1, OccupantIs, NoOccupant, ConstantsAssumption DEF PromiseHere
  <2>3. Promise!Close
    BY <1>2, <2>2 DEF Promise!Close, PromiseHere, PromiseView, PromiseKept, PromiseTorn
  <2> QED
    BY <2>3 DEF Promise!Next
<1> QED
  BY <1>3, <1>4

LEMMA PromiseNext ==
  ASSUME OneTab, "reset" \in Ops => "stray" \notin Env,
         Inv, OneLabAtATime, Orderly, Space, Keeps, [Next]_vars
  PROVE  [Promise!Next]_(Promise!vars)
<1>1. ASSUME UNCHANGED <<live, progress>>
      PROVE  [Promise!Next]_(Promise!vars)
  BY <1>1, SameHere, SameHistory DEF PromiseHere, PromiseView, PromiseKept, PromiseTorn, Promise!vars
<1>2. ASSUME NEW r \in Requests, Arrive(r) \/ Handler(r)
      PROVE  [Promise!Next]_(Promise!vars)
  BY <1>1, <1>2, TaskKept
<1>3. CASE Refused \/ Snapshot \/ SnapshotFails \/ Verify \/ SlotTaken
  BY <1>1, <1>3 DEF Refused, Snapshot, SnapshotFails, Verify, SlotTaken, cluster
<1>4. CASE UNCHANGED vars
  BY <1>1, <1>4 DEF vars
<1>5. CASE \E s \in Sids : Work(s)
  BY <1>5, MakeStep
<1>6. CASE Begin \/ Wipe \/ WipeFails \/ ResetWipe \/ Fill \/ FillFails
  BY <1>6, DiscardStep, CloseStep, TearStep, ClearStep, OpenStep
<1> QED
  BY <1>2, <1>3, <1>4, <1>5, <1>6, NoResetFails DEF Next, Chain, Crash, OneTab

\* LabLifecycle implements KeptWork: at most one lab is open, a lab that is
\* opened again shows the work done in it, and work is given up only by a reset
\* or lost only by a park that fails while it clears that very lab away
\* (k8sLifecycle.ts:39-44, k8sCluster.ts:1389-1392).
THEOREM KeepsPromiseHolds ==
  ASSUME OneTab, "reset" \in Ops => "stray" \notin Env
  PROVE  Spec => KeepsPromise
<1>1. Init => Promise!Init
  BY DEF Init, Promise!Init, Occupant, Empty
<1>5. Spec => []Keeps
  BY KeepsHolds
<1>6. Inv /\ OneLabAtATime /\ Orderly /\ Space /\ Keeps /\ [Next]_vars => [Promise!Next]_(Promise!vars)
  BY PromiseNext
<1> QED
  BY <1>1, <1>5, <1>6, InOrderHolds, InvHolds, PTL DEF Spec, KeepsPromise, Promise!Spec
=============================================================================
