------------------------ MODULE WorkspaceSyncProofs ------------------------
(***************************************************************************)
(* The safety properties of WorkspaceSync, for any files, starters and     *)
(* bounds.                                                                 *)
(***************************************************************************)
EXTENDS WorkspaceSync, FiniteSetTheorems, FunctionTheorems, SequenceTheorems, TLAPS

(* Requests.                                                               *)

Stages == {"get", "object", "row", "remove", "unlist", "wipe", "seed"}

Records == [op: Structural \cup {"save", "copy", "reset"}, path: Paths, to: Paths,
            content: Contents, pc: Stages, here: BOOLEAN]

\* The stages a request goes through, and what it carries.
Meant(q) ==
  /\ q.op \in {"save", "create", "copy"} => q.pc \in {"object", "row"} /\ q.content # 0
  /\ q.op = "delete" => q.pc \in {"remove", "unlist"}
  /\ q.op = "rename" => q.pc \in {"get", "object", "row", "remove", "unlist"} /\ q.to # q.path
  /\ q.op = "reset" => q.pc \in {"wipe", "seed"}
  /\ q.op # "rename" => q.to = q.path

Requests == {q \in Records : Meant(q)}

\* An operation in the queue.
Waiting(q) ==
  /\ q.op \in Structural /\ q.here
  /\ q.op = "create" => q.pc = "object"
  /\ q.op = "delete" => q.pc = "remove"
  /\ q.op = "rename" => q.pc = "get"

Operations == {q \in Requests : Waiting(q)}

\* The state's types.
Typed ==
  /\ latest \in Files /\ saved \in Files /\ timer \in Files /\ store \in Files
  /\ index \subseteq Paths /\ doubt \subseteq Paths /\ partial \subseteq Paths
  /\ net \in [Slots -> Requests \cup {Free}]
  /\ queue \in Seq(Operations)
  /\ launch \in [pc: {"none", "copy", "flush", "post"}, shown: Files, waits: SUBSET Slots]
  /\ edits \in 0..MaxEdits /\ ops \in 0..MaxOps /\ upsets \in 0..MaxUpsets

\* One structural request of the page is under way at a time.
InTurn ==
  \A s, t \in Underway :
    (net[s].here /\ net[s].op \in Structural) /\ (net[t].here /\ net[t].op \in Structural)
      => s = t

LEMMA BoundsType ==
  /\ MaxEdits \in Nat /\ MaxRequests \in Nat /\ MaxOps \in Nat /\ MaxUpsets \in Nat
  /\ Starters \subseteq Paths /\ IsFiniteSet(Paths)
  /\ 0 \in Contents /\ 1 \in Contents
BY WorkspaceSyncAssumption DEF Contents

LEMMA RequestType ==
  ASSUME NEW q \in Requests
  PROVE  /\ q \in Records /\ Meant(q) /\ q # Free
         /\ q.op \in Structural \cup {"save", "copy", "reset"} /\ q.path \in Paths /\ q.to \in Paths
         /\ q.content \in Contents /\ q.pc \in Stages /\ q.here \in BOOLEAN
<1>1. q \in Records /\ Meant(q)
  BY DEF Requests
<1>2. /\ q.op \in Structural \cup {"save", "copy", "reset"} /\ q.path \in Paths /\ q.to \in Paths
      /\ q.content \in Contents /\ q.pc \in Stages /\ q.here \in BOOLEAN
  BY <1>1 DEF Records
<1>3. q # Free
  BY <1>2 DEF Free, Structural
<1> QED
  BY <1>1, <1>2, <1>3

LEMMA RequestIs ==
  ASSUME NEW op \in Structural \cup {"save", "copy", "reset"}, NEW p \in Paths, NEW to \in Paths,
         NEW c \in Contents, NEW pc \in Stages
  PROVE  LET q == Request(op, p, to, c, pc) IN
         /\ q \in Records
         /\ q.op = op /\ q.path = p /\ q.to = to /\ q.content = c /\ q.pc = pc /\ q.here
BY DEF Request, Records

\* A request that goes on to its next stage.
LEMMA StageIs ==
  ASSUME NEW q \in Requests, NEW pc \in Stages
  PROVE  LET r == [q EXCEPT !.pc = pc] IN
         /\ r \in Records
         /\ r.op = q.op /\ r.path = q.path /\ r.to = q.to /\ r.content = q.content
         /\ r.here = q.here /\ r.pc = pc
<1>1. q \in Records
  BY RequestType
<1> QED
  BY <1>1 DEF Records

LEMMA SaveIs ==
  ASSUME NEW p \in Paths, NEW c \in Contents \ {0}
  PROVE  LET q == SaveOf(p, c) IN
         /\ q \in Requests
         /\ q.op = "save" /\ q.path = p /\ q.to = p /\ q.content = c /\ q.pc = "object" /\ q.here
<1>1. PICK op, pc : /\ op = "save" /\ op \in Structural \cup {"save", "copy", "reset"}
                    /\ pc = "object" /\ pc \in Stages
  BY DEF Stages
<1>2. /\ SaveOf(p, c) \in Records
      /\ SaveOf(p, c).op = "save" /\ SaveOf(p, c).path = p /\ SaveOf(p, c).to = p
      /\ SaveOf(p, c).content = c /\ SaveOf(p, c).pc = "object" /\ SaveOf(p, c).here
  <2>1. SaveOf(p, c) = Request(op, p, p, c, pc)
    BY <1>1 DEF SaveOf
  <2> QED
    BY <1>1, <2>1, RequestIs
<1> QED
  BY <1>2 DEF Requests, Meant

LEMMA CreateIs ==
  ASSUME NEW p \in Paths, NEW c \in Contents \ {0}
  PROVE  LET q == Request("create", p, p, c, "object") IN
         /\ q \in Operations
         /\ q.op = "create" /\ q.path = p /\ q.to = p /\ q.content = c
<1> DEFINE q == Request("create", p, p, c, "object")
<1>1. "create" \in Structural \cup {"save", "copy", "reset"} /\ "object" \in Stages /\ c \in Contents
  BY DEF Stages, Structural
<1>2. /\ q \in Records /\ q.op = "create" /\ q.path = p /\ q.to = p
      /\ q.content = c /\ q.pc = "object" /\ q.here
  BY <1>1, RequestIs
<1> HIDE DEF q
<1>3. q \in Operations
  BY <1>2 DEF Operations, Waiting, Requests, Meant, Structural
<1> QED
  BY <1>2, <1>3 DEF q

LEMMA DeleteIs ==
  ASSUME NEW p \in Paths
  PROVE  LET q == Request("delete", p, p, 0, "remove") IN
         /\ q \in Operations
         /\ q.op = "delete" /\ q.path = p /\ q.to = p
<1> DEFINE q == Request("delete", p, p, 0, "remove")
<1>1. "delete" \in Structural \cup {"save", "copy", "reset"} /\ "remove" \in Stages /\ 0 \in Contents
  BY BoundsType DEF Stages, Structural
<1>2. /\ q \in Records /\ q.op = "delete" /\ q.path = p /\ q.to = p
      /\ q.pc = "remove" /\ q.here
  BY <1>1, RequestIs
<1> HIDE DEF q
<1>3. q \in Operations
  BY <1>2 DEF Operations, Waiting, Requests, Meant, Structural
<1> QED
  BY <1>2, <1>3 DEF q

LEMMA RenameIs ==
  ASSUME NEW p \in Paths, NEW to \in Paths, to # p
  PROVE  LET q == Request("rename", p, to, 0, "get") IN
         /\ q \in Operations
         /\ q.op = "rename" /\ q.path = p /\ q.to = to
<1> DEFINE q == Request("rename", p, to, 0, "get")
<1>1. "rename" \in Structural \cup {"save", "copy", "reset"} /\ "get" \in Stages /\ 0 \in Contents
  BY BoundsType DEF Stages, Structural
<1>2. /\ q \in Records /\ q.op = "rename" /\ q.path = p /\ q.to = to
      /\ q.pc = "get" /\ q.here
  BY <1>1, RequestIs
<1> HIDE DEF q
<1>3. q \in Operations
  BY <1>2 DEF Operations, Waiting, Requests, Meant, Structural
<1> QED
  BY <1>2, <1>3 DEF q

LEMMA ResetIs ==
  ASSUME NEW p \in Paths
  PROVE  LET q == Request("reset", p, p, 0, "wipe") IN
         /\ q \in Requests
         /\ q.op = "reset" /\ q.pc = "wipe" /\ q.here
<1> DEFINE q == Request("reset", p, p, 0, "wipe")
<1>1. "reset" \in Structural \cup {"save", "copy", "reset"} /\ "wipe" \in Stages /\ 0 \in Contents
  BY BoundsType DEF Stages
<1>2. /\ q \in Records /\ q.op = "reset" /\ q.path = p /\ q.to = p
      /\ q.pc = "wipe" /\ q.here
  BY <1>1, RequestIs
<1> HIDE DEF q
<1>3. q \in Requests
  BY <1>2 DEF Requests, Meant
<1> QED
  BY <1>2, <1>3 DEF q

LEMMA FilesType ==
  ASSUME NEW q \in Requests
  PROVE  /\ FilesOf(q) \subseteq Paths /\ q.path \in FilesOf(q) /\ q.to \in FilesOf(q)
         /\ q.op = "reset" => FilesOf(q) = Paths
         /\ q.op # "reset" => FilesOf(q) = {q.path, q.to}
BY RequestType DEF FilesOf

LEMMA OperationType ==
  ASSUME NEW q \in Operations
  PROVE  q \in Requests /\ q.op \in Structural /\ q.here /\ Waiting(q)
BY DEF Operations, Waiting
-----------------------------------------------------------------------------
(* The network and the queue.                                              *)

LEMMA NetType ==
  ASSUME Typed
  PROVE  /\ Underway \subseteq Slots
         /\ \A s \in Underway : net[s] \in Requests
         /\ \A s \in Slots : s \in Underway <=> net[s] # Free
         /\ \A s \in Slots : net[s] \in Requests \cup {Free}
BY DEF Typed, Underway

LEMMA QueueType ==
  ASSUME Typed
  PROVE  /\ Len(queue) \in Nat
         /\ \A i \in 1..Len(queue) : queue[i] \in Operations /\ queue[i] \in Requests
         /\ Queued \subseteq Requests
<1>1. queue \in Seq(Operations)
  BY DEF Typed
<1>2. Len(queue) \in Nat /\ \A i \in 1..Len(queue) : queue[i] \in Operations
  BY <1>1
<1> QED
  BY <1>2, OperationType DEF Queued

LEMMA SentType ==
  ASSUME Typed PROVE Sent \subseteq Requests
BY NetType DEF Sent

\* One slot takes a request, or is free again.
LEMMA SlotSet ==
  ASSUME Typed, NEW s \in Slots, NEW q \in Requests \cup {Free}, net' = [net EXCEPT ![s] = q]
  PROVE  /\ net' \in [Slots -> Requests \cup {Free}]
         /\ net'[s] = q /\ \A t \in Slots \ {s} : net'[t] = net[t]
         /\ q # Free => Underway' = Underway \cup {s}
         /\ q = Free => Underway' = Underway \ {s}
BY DEF Typed, Underway

LEMMA MeetsType ==
  ASSUME NEW q \in Requests, NEW O, O \subseteq Requests PROVE Meets(q, O) \subseteq Paths
<1>1. \A o \in O \cup {q} : FilesOf(o) \subseteq Paths
  BY FilesType
<1> QED
  BY <1>1 DEF Meets

LEMMA MeetsIs ==
  ASSUME NEW q \in Requests, NEW O, O \subseteq Requests
  PROVE  /\ \A o \in O : FilesOf(o) \cap FilesOf(q) # {} =>
              FilesOf(o) \subseteq Meets(q, O) /\ FilesOf(q) \subseteq Meets(q, O)
         /\ FilesOf(q) \cap doubt # {} => FilesOf(q) \subseteq Meets(q, O)
<1> DEFINE met == {o \in O : FilesOf(o) \cap FilesOf(q) # {}}
<1>1. Meets(q, O) = IF met = {} /\ FilesOf(q) \cap doubt = {} THEN {}
                    ELSE UNION {FilesOf(o) : o \in met \cup {q}}
  BY DEF Meets
<1>2. ASSUME NEW o \in O, FilesOf(o) \cap FilesOf(q) # {}
      PROVE  FilesOf(o) \subseteq Meets(q, O) /\ FilesOf(q) \subseteq Meets(q, O)
  <2>1. o \in met
    BY <1>2
  <2> HIDE DEF met
  <2> QED
    BY <1>1, <2>1
<1>3. ASSUME FilesOf(q) \cap doubt # {} PROVE FilesOf(q) \subseteq Meets(q, O)
  <2> HIDE DEF met
  <2> QED
    BY <1>1, <1>3
<1> QED
  BY <1>2, <1>3

\* A request that is not wild when it leaves meets no other.
LEMMA SendsAlone ==
  ASSUME Typed, NEW q \in Requests, NEW O, O \subseteq Requests, doubt' = doubt \cup Meets(q, O)
  PROVE  /\ \A o \in O : FilesOf(o) \cap FilesOf(q) # {} =>
              FilesOf(o) \subseteq doubt' /\ FilesOf(q) \subseteq doubt'
         /\ FilesOf(q) \cap doubt # {} => FilesOf(q) \subseteq doubt'
BY MeetsIs
-----------------------------------------------------------------------------
(* Requests that are served.                                               *)

\* The request at s becomes q, or is answered.
Serves(s, q) ==
  /\ s \in Underway /\ q \in Requests \cup {Free}
  /\ net' = [net EXCEPT ![s] = q]
  /\ q # Free => /\ q.op = net[s].op /\ q.path = net[s].path /\ q.to = net[s].to
                 /\ q.here = net[s].here
  /\ launch' = IF q = Free THEN [launch EXCEPT !.waits = @ \ {s}] ELSE launch
  /\ latest' \in Files /\ saved' \in Files /\ store' \in Files /\ index' \subseteq Paths
  /\ partial' \subseteq partial
  /\ UNCHANGED <<timer, queue, doubt, edits, ops, upsets>>

LEMMA ServesSlot ==
  ASSUME Typed, NEW s, NEW q, Serves(s, q)
  PROVE  /\ net'[s] = q /\ \A t \in Underway \ {s} : net'[t] = net[t]
         /\ Underway' \subseteq Underway
         /\ s \in Underway' <=> q # Free
         /\ \A t \in Underway \ {s} : t \in Underway'
<1>1. s \in Slots /\ q \in Requests \cup {Free} /\ net' = [net EXCEPT ![s] = q]
  BY NetType DEF Serves
<1>2. net'[s] = q /\ \A t \in Slots \ {s} : net'[t] = net[t]
  BY <1>1 DEF Typed
<1>3. Underway' = {t \in Slots : net'[t] # Free} /\ Underway = {t \in Slots : net[t] # Free}
  BY DEF Underway
<1>4. s \in Underway
  BY DEF Serves
<1> QED
  BY <1>1, <1>2, <1>3, <1>4

\* Every request but a reset is about its own files.
ServesFiles(s, q) ==
  /\ Serves(s, q) /\ net[s].op # "reset" /\ latest' = latest
  /\ \A p \in Paths \ FilesOf(net[s]) : store'[p] = store[p] /\ (p \in index' <=> p \in index)
  /\ saved' = IF q = Free /\ net[s].op = "save" /\ net[s].here
              THEN [saved EXCEPT ![net[s].path] = net[s].content] ELSE saved
  /\ partial' = IF q = Free /\ net[s].op = "save" /\ net[s].here
                THEN partial \ {net[s].path} ELSE partial
  /\ q # Free => q.pc # "object" \/ q.op = "rename"

\* What a request under way has done so far.
Reached(q) ==
  /\ q.op \in {"save", "create", "copy"} /\ q.pc = "row" => store[q.path] = q.content
  /\ q.op = "rename" =>
       /\ q.pc # "get" => q.content # 0
       /\ q.pc \in {"row", "remove", "unlist"} => store[q.to] = q.content
       /\ q.pc \in {"remove", "unlist"} => q.to \in index
  /\ q.pc = "unlist" => store[q.path] = 0

\* What the files will be when it is done.
WillBe(q, st) ==
  /\ q.op \in {"save", "create", "copy"} => st[q.path] = q.content
  /\ q.op \in {"delete", "rename"} => st[q.path] = 0
  /\ q.op = "rename" => st[q.to] = IF q.pc = "get" THEN store[q.path] ELSE q.content

\* A step of a request brings its files closer to that.
Advances(s, q) ==
  /\ q # Free => Reached(q)'
  /\ q # Free => \A st \in Files : WillBe(net[s], st) => WillBe(q, st)'
  /\ q = Free => \A p \in FilesOf(net[s]) :
                   /\ p \in index' <=> store'[p] # 0
                   /\ \A st \in Files : WillBe(net[s], st) => st[p] = store'[p]

LEMMA FileUpdate ==
  ASSUME NEW f \in Files, NEW p \in Paths, NEW c \in Contents
  PROVE  /\ [f EXCEPT ![p] = c] \in Files
         /\ [f EXCEPT ![p] = c][p] = c
         /\ \A r \in Paths \ {p} : [f EXCEPT ![p] = c][r] = f[r]
BY DEF Files

LEMMA GetServes ==
  ASSUME Typed, NEW s \in Slots, Get(s)
  PROVE  \E q : ServesFiles(s, q) /\ (Reached(net[s]) => Advances(s, q))
<1> DEFINE o == net[s]
<1>0. PICK q : q = [o EXCEPT !.pc = "object", !.content = store[o.path]]
  OBVIOUS
<1>1. s \in Underway /\ o \in Requests /\ o.pc = "get"
  BY NetType DEF Get
<1>2. o \in Records /\ o.op = "rename" /\ o.to # o.path /\ o.path \in Paths /\ o.to \in Paths
  BY <1>1, RequestType DEF Meant, Structural
<1>3. store \in Files /\ store[o.path] \in Contents /\ store[o.path] # 0
  BY <1>1, <1>2 DEF Typed, Files, Get
<1>4. net' = [net EXCEPT ![s] = q]
  BY <1>0 DEF Get
<1>5. /\ q \in Records /\ q.op = o.op /\ q.path = o.path /\ q.to = o.to /\ q.here = o.here
      /\ q.pc = "object" /\ q.content = store[o.path]
  BY <1>0, <1>2, <1>3 DEF Records, Stages
<1>6. q \in Requests /\ q # Free
  BY <1>2, <1>3, <1>5, RequestType DEF Requests, Meant
<1>7. /\ UNCHANGED <<latest, saved, store, index, launch, doubt, timer, queue, edits, ops, upsets>>
      /\ partial' = partial
  BY DEF Get, pageAnd
<1>8. ServesFiles(s, q)
  BY <1>1, <1>2, <1>4, <1>5, <1>6, <1>7 DEF ServesFiles, Serves, Typed
<1>9. Advances(s, q)
  <2>1. Reached(q)'
    BY <1>2, <1>3, <1>5 DEF Reached
  <2>2. ASSUME NEW st \in Files, WillBe(o, st) PROVE WillBe(q, st)'
    BY <2>2, <1>1, <1>2, <1>5 DEF WillBe
  <2> QED
    BY <1>6, <2>1, <2>2 DEF Advances
<1> QED
  BY <1>8, <1>9

LEMMA PutObjectServes ==
  ASSUME Typed, NEW s \in Slots, PutObject(s)
  PROVE  \E q : ServesFiles(s, q) /\ (Reached(net[s]) => Advances(s, q))
<1> DEFINE o == net[s]
<1>0. PICK q : q = [o EXCEPT !.pc = "row"]
  OBVIOUS
<1>1. s \in Underway /\ o \in Requests /\ o.pc = "object"
  BY NetType DEF PutObject
<1>2. /\ o \in Records /\ o.op \in {"save", "create", "copy", "rename"}
      /\ o.op \in {"save", "create", "copy"} => o.content # 0 /\ o.to = o.path
      /\ o.op = "rename" => o.to # o.path
      /\ o.path \in Paths /\ o.to \in Paths /\ o.content \in Contents
  BY <1>1, RequestType DEF Meant, Structural
<1>3. net' = [net EXCEPT ![s] = q]
  BY <1>0 DEF PutObject, Step
<1>4. "row" \in Stages
  BY DEF Stages
<1>5. /\ q \in Records /\ q.op = o.op /\ q.path = o.path /\ q.to = o.to /\ q.here = o.here
      /\ q.pc = "row" /\ q.content = o.content
  BY <1>0, <1>1, <1>4, StageIs
<1>6. q \in Requests /\ q # Free
  BY <1>2, <1>5, RequestType DEF Requests, Meant
<1>7. /\ UNCHANGED <<latest, saved, index, launch, doubt, timer, queue, edits, ops, upsets>>
      /\ partial' = partial
  BY DEF PutObject, pageAnd
<1>8. /\ store' \in Files /\ store'[o.to] = o.content
      /\ \A p \in Paths \ {o.to} : store'[p] = store[p]
  <2>1. store' = [store EXCEPT ![o.to] = o.content] /\ store \in Files
    BY DEF PutObject, Typed
  <2> QED
    BY <1>2, <2>1 DEF Files
<1>9. o.to \in FilesOf(o)
  BY <1>1, FilesType
<1>10. ServesFiles(s, q)
  BY <1>1, <1>2, <1>3, <1>5, <1>6, <1>7, <1>8, <1>9 DEF ServesFiles, Serves, Typed
<1>11. ASSUME Reached(o) PROVE Advances(s, q)
  <2>1. Reached(q)'
    BY <1>11, <1>1, <1>2, <1>5, <1>7, <1>8 DEF Reached
  <2>2. ASSUME NEW st \in Files, WillBe(o, st) PROVE WillBe(q, st)'
    BY <2>2, <1>1, <1>2, <1>5, <1>8 DEF WillBe
  <2> QED
    BY <1>6, <2>1, <2>2 DEF Advances
<1> QED
  BY <1>10, <1>11

LEMMA PutRowServes ==
  ASSUME Typed, NEW s \in Slots, PutRow(s)
  PROVE  \E q : ServesFiles(s, q) /\ (Reached(net[s]) => Advances(s, q))
<1> DEFINE o == net[s]
<1>1. s \in Underway /\ o \in Requests /\ o.pc = "row"
  BY NetType DEF PutRow
<1>2. /\ o \in Records /\ o.op \in {"save", "create", "copy", "rename"}
      /\ o.op \in {"save", "create", "copy"} => o.content # 0 /\ o.to = o.path /\ FilesOf(o) = {o.path}
      /\ o.op = "rename" => o.to # o.path
      /\ o.path \in Paths /\ o.to \in Paths /\ o.content \in Contents
  BY <1>1, RequestType, FilesType DEF Meant, Structural
<1>3. UNCHANGED <<latest, store, doubt, timer, queue, edits, ops, upsets>>
  BY DEF PutRow, pageAnd
<1>4. index' = index \cup {o.to} /\ index' \subseteq Paths /\ o.to \in FilesOf(o)
  BY <1>1, <1>2, FilesType DEF PutRow, Typed
<1>5. CASE o.op = "rename"
  <2>0. PICK q : q = [o EXCEPT !.pc = "remove"]
    OBVIOUS
  <2>1. net' = [net EXCEPT ![s] = q] /\ UNCHANGED <<saved, launch, partial>>
    BY <1>5, <2>0 DEF PutRow, Step, Heard
  <2>2. "remove" \in Stages
    BY DEF Stages
  <2>3. /\ q \in Records /\ q.op = o.op /\ q.path = o.path /\ q.to = o.to /\ q.here = o.here
        /\ q.pc = "remove" /\ q.content = o.content
    BY <1>1, <2>0, <2>2, StageIs
  <2>4. q \in Requests /\ q # Free
    BY <1>2, <1>5, <2>3, RequestType DEF Requests, Meant
  <2>5. ServesFiles(s, q)
    BY <1>1, <1>3, <1>4, <1>5, <2>1, <2>3, <2>4 DEF ServesFiles, Serves, Typed
  <2>6. ASSUME Reached(o) PROVE Advances(s, q)
    <3>1. Reached(q)'
      BY <2>6, <1>1, <1>2, <1>3, <1>4, <1>5, <2>3 DEF Reached
    <3>2. ASSUME NEW st \in Files, WillBe(o, st) PROVE WillBe(q, st)'
      BY <3>2, <1>1, <1>5, <2>3 DEF WillBe
    <3> QED
      BY <2>4, <3>1, <3>2 DEF Advances
  <2> QED
    BY <2>5, <2>6
<1>6. CASE o.op \in {"save", "create", "copy"}
  <2>1. /\ net' = [net EXCEPT ![s] = Free]
        /\ launch' = [launch EXCEPT !.waits = @ \ {s}]
        /\ saved' = IF o.op = "save" /\ o.here THEN [saved EXCEPT ![o.path] = o.content] ELSE saved
        /\ partial' = IF o.op = "save" /\ o.here THEN partial \ {o.path} ELSE partial
    BY <1>6 DEF PutRow, Done, Heard
  <2>2. saved' \in Files
    BY <1>2, <2>1, FileUpdate DEF Typed
  <2>3. ServesFiles(s, Free)
    BY <1>1, <1>3, <1>4, <1>6, <2>1, <2>2 DEF ServesFiles, Serves, Typed
  <2>4. ASSUME Reached(o) PROVE Advances(s, Free)
    BY <2>4, <1>1, <1>2, <1>3, <1>4, <1>6 DEF Advances, Reached, WillBe
  <2> QED
    BY <2>3, <2>4
<1> QED
  BY <1>2, <1>5, <1>6

LEMMA RemoveServes ==
  ASSUME Typed, NEW s \in Slots, Remove(s)
  PROVE  \E q : ServesFiles(s, q) /\ (Reached(net[s]) => Advances(s, q))
<1> DEFINE o == net[s]
<1>0. PICK q : q = [o EXCEPT !.pc = "unlist"]
  OBVIOUS
<1>1. s \in Underway /\ o \in Requests /\ o.pc = "remove"
  BY NetType DEF Remove
<1>2. /\ o \in Records /\ o.op \in {"delete", "rename"}
      /\ o.op = "delete" => o.to = o.path
      /\ o.op = "rename" => o.to # o.path
      /\ o.path \in Paths /\ o.to \in Paths /\ o.content \in Contents
  BY <1>1, RequestType DEF Meant, Structural
<1>3. net' = [net EXCEPT ![s] = q]
  BY <1>0 DEF Remove, Step
<1>4. "unlist" \in Stages
  BY DEF Stages
<1>5. /\ q \in Records /\ q.op = o.op /\ q.path = o.path /\ q.to = o.to /\ q.here = o.here
      /\ q.pc = "unlist" /\ q.content = o.content
  BY <1>0, <1>1, <1>4, StageIs
<1>6. q \in Requests /\ q # Free
  BY <1>2, <1>5, RequestType DEF Requests, Meant
<1>7. /\ UNCHANGED <<latest, saved, index, launch, doubt, timer, queue, edits, ops, upsets>>
      /\ partial' = partial
  BY DEF Remove, pageAnd
<1>8. /\ store' \in Files /\ store'[o.path] = 0
      /\ \A p \in Paths \ {o.path} : store'[p] = store[p]
  <2>1. store' = [store EXCEPT ![o.path] = 0] /\ store \in Files
    BY DEF Remove, Typed
  <2> QED
    BY <1>2, <2>1, BoundsType DEF Files
<1>9. o.path \in FilesOf(o)
  BY <1>1, FilesType
<1>10. ServesFiles(s, q)
  BY <1>1, <1>2, <1>3, <1>5, <1>6, <1>7, <1>8, <1>9 DEF ServesFiles, Serves, Typed
<1>11. ASSUME Reached(o) PROVE Advances(s, q)
  <2>1. Reached(q)'
    BY <1>11, <1>1, <1>2, <1>5, <1>7, <1>8 DEF Reached
  <2>2. ASSUME NEW st \in Files, WillBe(o, st) PROVE WillBe(q, st)'
    BY <2>2, <1>1, <1>2, <1>5, <1>8 DEF WillBe
  <2> QED
    BY <1>6, <2>1, <2>2 DEF Advances
<1> QED
  BY <1>10, <1>11

LEMMA UnlistServes ==
  ASSUME Typed, NEW s \in Slots, Unlist(s)
  PROVE  \E q : ServesFiles(s, q) /\ (Reached(net[s]) => Advances(s, q))
<1> DEFINE o == net[s]
<1>1. s \in Underway /\ o \in Requests /\ o.pc = "unlist"
  BY NetType DEF Unlist
<1>2. /\ o \in Records /\ o.op \in {"delete", "rename"}
      /\ o.op = "delete" => FilesOf(o) = {o.path}
      /\ o.op = "rename" => o.to # o.path /\ FilesOf(o) = {o.path, o.to}
      /\ o.path \in Paths /\ o.to \in Paths /\ o.content \in Contents /\ o.path \in FilesOf(o)
  BY <1>1, RequestType, FilesType DEF Meant, Structural
<1>3. /\ UNCHANGED <<latest, saved, store, doubt, timer, queue, edits, ops, upsets>>
      /\ partial' = partial
  BY DEF Unlist, pageAnd
<1>4. index' = index \ {o.path} /\ index' \subseteq Paths
  BY DEF Unlist, Typed
<1>5. net' = [net EXCEPT ![s] = Free] /\ launch' = [launch EXCEPT !.waits = @ \ {s}]
  BY DEF Unlist, Done
<1>6. ServesFiles(s, Free)
  BY <1>1, <1>2, <1>3, <1>4, <1>5 DEF ServesFiles, Serves, Typed
<1>7. ASSUME Reached(o) PROVE Advances(s, Free)
  BY <1>7, <1>1, <1>2, <1>3, <1>4 DEF Advances, Reached, WillBe
<1> QED
  BY <1>6, <1>7

LEMMA WipeServes ==
  ASSUME Typed, NEW s \in Slots, Wipe(s)
  PROVE  \E q : /\ Serves(s, q) /\ q # Free /\ q.pc = "seed"
                /\ net[s].op = "reset" /\ net[s].pc = "wipe"
                /\ latest' = latest /\ saved' = saved /\ partial' = partial
                /\ \A p \in Paths \ doubt : (p \in index <=> store[p] # 0) =>
                     /\ p \in index' <=> store'[p] # 0
                     /\ p \notin Starters => store'[p] = 0
<1> DEFINE o == net[s]
           known == IF \E p \in index : store[p] # 0 THEN index ELSE Paths
           gone == {p \in known \ Starters : store[p] # 0}
<1>0. PICK q : q = [o EXCEPT !.pc = "seed"]
  OBVIOUS
<1>1. s \in Underway /\ o \in Requests /\ o.pc = "wipe"
  BY NetType DEF Wipe
<1>2. o.op = "reset" /\ o.to = o.path
  BY <1>1, RequestType DEF Meant, Structural
<1>3. net' = [net EXCEPT ![s] = q]
  BY <1>0 DEF Wipe, Step
<1>4. "seed" \in Stages
  BY DEF Stages
<1>5. /\ q \in Records /\ q.op = o.op /\ q.path = o.path /\ q.to = o.to /\ q.here = o.here
      /\ q.pc = "seed" /\ q.content = o.content
  BY <1>0, <1>1, <1>4, StageIs
<1>6. q \in Requests /\ q # Free
  BY <1>2, <1>5, RequestType DEF Requests, Meant, Structural
<1>7. /\ UNCHANGED <<latest, saved, launch, doubt, timer, queue, edits, ops, upsets>>
      /\ partial' = partial
  BY DEF Wipe, pageAnd
<1>8. /\ store' = [p \in Paths |-> IF p \in gone THEN 0 ELSE store[p]]
      /\ index' = (IF known = index THEN index ELSE {p \in Paths : store[p] # 0}) \ gone
  BY DEF Wipe
<1>9. store' \in Files /\ index' \subseteq Paths
  BY <1>8, BoundsType DEF Typed, Files
<1>10. Serves(s, q)
  BY <1>1, <1>3, <1>5, <1>6, <1>7, <1>9 DEF Serves, Typed
<1>11. ASSUME NEW p \in Paths, p \in index <=> store[p] # 0
       PROVE  (p \in index' <=> store'[p] # 0) /\ (p \notin Starters => store'[p] = 0)
  <2>1. p \in gone <=> p \notin Starters /\ store[p] # 0
    BY <1>11
  <2>2. p \in index' <=> store[p] # 0 /\ p \notin gone
    BY <1>8, <1>11
  <2> HIDE DEF gone
  <2>3. store'[p] = IF p \in gone THEN 0 ELSE store[p]
    BY <1>8
  <2> QED
    BY <2>1, <2>2, <2>3
<1> QED
  BY <1>1, <1>2, <1>5, <1>6, <1>7, <1>10, <1>11

LEMMA SeedServes ==
  ASSUME Typed, NEW s \in Slots, Seed(s)
  PROVE  /\ Serves(s, Free) /\ net[s].op = "reset" /\ net[s].pc = "seed"
         /\ store' = [p \in Paths |-> IF p \in Starters THEN 1 ELSE store[p]]
         /\ index' = index \cup Starters
         /\ partial' = partial
         /\ IF net[s].here THEN latest' = Starter /\ saved' = Starter
            ELSE UNCHANGED <<latest, saved>>
<1> DEFINE o == net[s]
<1>1. s \in Underway /\ o \in Requests /\ o.pc = "seed"
  BY NetType DEF Seed
<1>2. o.op = "reset"
  BY <1>1, RequestType DEF Meant, Structural
<1>3. /\ store' = [p \in Paths |-> IF p \in Starters THEN 1 ELSE store[p]]
      /\ index' = index \cup Starters
      /\ IF net[s].here THEN latest' = Starter /\ saved' = Starter
         ELSE UNCHANGED <<latest, saved>>
      /\ net' = [net EXCEPT ![s] = Free] /\ launch' = [launch EXCEPT !.waits = @ \ {s}]
      /\ UNCHANGED <<doubt, partial, timer, queue, edits, ops, upsets>>
  BY DEF Seed, Done, pageAnd
<1>4. store' \in Files /\ index' \subseteq Paths /\ Starter \in Files
  BY <1>3, BoundsType DEF Typed, Files, Starter
<1>5. Serves(s, Free)
  BY <1>1, <1>3, <1>4 DEF Serves, Typed
<1> QED
  BY <1>1, <1>2, <1>3, <1>5

\* A step of the server: of a request about its files, or of a reset.
LEMMA ServeKinds ==
  ASSUME Typed, NEW s \in Slots, Serve(s)
  PROVE  \/ \E q : ServesFiles(s, q) /\ (Reached(net[s]) => Advances(s, q))
         \/ Wipe(s)
         \/ Seed(s)
BY GetServes, PutObjectServes, PutRowServes, RemoveServes, UnlistServes DEF Serve
-----------------------------------------------------------------------------
(* Type correctness.                                                       *)

LEMMA FreshType ==
  ASSUME Typed, edits < MaxEdits PROVE Fresh \in Contents \ {0} /\ edits + 1 \in 0..MaxEdits
BY BoundsType DEF Typed, Fresh, Contents

LEMMA OpType ==
  ASSUME Typed, Op PROVE ops' \in 0..MaxOps
BY BoundsType DEF Typed, Op

LEMMA UpsetType ==
  ASSUME Typed, Upset PROVE upsets' \in 0..MaxUpsets
BY BoundsType DEF Typed, Upset

LEMMA LaunchFields ==
  ASSUME Typed
  PROVE  /\ launch.pc \in {"none", "copy", "flush", "post"} /\ launch.shown \in Files
         /\ launch.waits \subseteq Slots
BY DEF Typed

LEMMA UnclaimIs ==
  ASSUME Typed, NEW P, Unclaim(P)
  PROVE  /\ launch' \in [pc: {"none", "copy", "flush", "post"}, shown: Files, waits: SUBSET Slots]
         /\ launch'.pc = launch.pc /\ launch'.waits = launch.waits
         /\ \A p \in Paths : launch'.shown[p] = IF p \in P THEN 0 ELSE launch.shown[p]
<1>1. launch' = [launch EXCEPT !.shown = [p \in Paths |-> IF p \in P THEN 0 ELSE launch.shown[p]]]
  BY DEF Unclaim
<1>2. [p \in Paths |-> IF p \in P THEN 0 ELSE launch.shown[p]] \in Files
  BY LaunchFields, BoundsType DEF Files
<1> QED
  BY <1>1, <1>2 DEF Typed

LEMMA QueueIs ==
  ASSUME Typed, NEW q \in Operations, Queue(q)
  PROVE  /\ queue' \in Seq(Operations) /\ Len(queue') = Len(queue) + 1
         /\ \A i \in 1..Len(queue) : queue'[i] = queue[i]
         /\ queue'[Len(queue) + 1] = q
         /\ launch' \in [pc: {"none", "copy", "flush", "post"}, shown: Files, waits: SUBSET Slots]
         /\ doubt \cup Meets(q, Sent) \subseteq doubt' /\ doubt' \subseteq Paths
         /\ FilesOf(q) \cap partial # {} => FilesOf(q) \subseteq doubt'
         /\ FilesOf(q) = {q.path, q.to}
<1>1. queue' = Append(queue, q) /\ queue \in Seq(Operations) /\ q \in Requests
  BY OperationType DEF Queue, Typed
<1>2. /\ Unclaim({q.path, q.to})
      /\ doubt' = doubt \cup Meets(q, Sent)
                        \cup (IF FilesOf(q) \cap partial = {} THEN {} ELSE FilesOf(q))
  BY DEF Queue
<1>3. FilesOf(q) = {q.path, q.to} /\ FilesOf(q) \subseteq Paths
  BY OperationType, FilesType DEF Structural
<1>4. doubt' \subseteq Paths
  BY <1>1, <1>2, <1>3, SentType, MeetsType DEF Typed
<1>5. /\ doubt \cup Meets(q, Sent) \subseteq doubt'
      /\ FilesOf(q) \cap partial # {} => FilesOf(q) \subseteq doubt'
  BY <1>2
<1> QED
  BY <1>1, <1>2, <1>3, <1>4, <1>5, UnclaimIs, AppendProperties

LEMMA FirstIs ==
  ASSUME Typed, NEW s, First(s) PROVE s \in Slots /\ s \notin Underway
BY DEF First

\* A flush has a slot for every file.
LEMMA Slotted ==
  ASSUME NEW A, NEW B, IsFiniteSet(A), IsFiniteSet(B), Cardinality(A) <= Cardinality(B)
  PROVE  \E f \in [A -> B] : \A p, q \in A : p # q => f[p] # f[q]
<1> DEFINE n == Cardinality(A)
           m == Cardinality(B)
<1>1. n \in Nat /\ m \in Nat /\ ExistsBijection(1..n, A) /\ ExistsBijection(1..m, B)
  BY FS_CardinalityType
<1>2. ExistsInjection(A, 1..n)
  BY <1>1, Fun_ExistsBijSymmetric DEF ExistsBijection, ExistsInjection, Bijection
<1>3. ExistsInjection(1..m, B)
  BY <1>1 DEF ExistsBijection, ExistsInjection, Bijection
<1>4. PICK f \in Injection(A, 1..n) : TRUE
  BY <1>2 DEF ExistsInjection
<1>5. PICK g \in Injection(1..m, B) : TRUE
  BY <1>3 DEF ExistsInjection
<1>6. 1..n \subseteq 1..m
  BY <1>1
<1>7. /\ f \in [A -> 1..n] /\ \A p, q \in A : f[p] = f[q] => p = q
      /\ g \in [1..m -> B] /\ \A i, j \in 1..m : g[i] = g[j] => i = j
  BY DEF Injection, IsInjective
<1> HIDE DEF n, m
<1>8. [p \in A |-> g[f[p]]] \in [A -> B]
  BY <1>6, <1>7
<1>9. \A p, q \in A : p # q => [r \in A |-> g[f[r]]][p] # [r \in A |-> g[f[r]]][q]
  BY <1>6, <1>7
<1> QED
  BY <1>8, <1>9

\* The saves that a flush sends, each from a slot of its own.
Sends(to) ==
  /\ to \in [Unsaved -> Slots \ Underway]
  /\ \A p, q \in Unsaved : p # q => to[p] # to[q]
  /\ \A p \in Unsaved : net'[to[p]] = SaveOf(p, latest[p])
  /\ \A s \in Slots : (\A p \in Unsaved : to[p] # s) => net'[s] = net[s]
  /\ launch'.waits = {to[p] : p \in Unsaved}

LEMMA UnsavedType ==
  ASSUME Typed
  PROVE  /\ IsFiniteSet(Unsaved) /\ Unsaved \subseteq Paths
         /\ \A p \in Unsaved : latest[p] \in Contents \ {0}
<1>1. Unsaved \subseteq Paths /\ \A p \in Unsaved : latest[p] \in Contents \ {0}
  BY DEF Unsaved, Shown, Typed, Files
<1> QED
  BY <1>1, BoundsType, FS_Subset

LEMMA LaunchSends ==
  ASSUME Typed, Launch
  PROVE  \E to : Sends(to)
<1> DEFINE Fits(f) == f \in [Unsaved -> Slots \ Underway]
                      /\ \A p, q \in Unsaved : p # q => f[p] # f[q]
           to == CHOOSE f \in [Unsaved -> Slots \ Underway] :
                   \A p, q \in Unsaved : p # q => f[p] # f[q]
<1>1. Cardinality(Unsaved) <= Cardinality(Slots \ Underway)
  BY DEF Launch
<1>2. IsFiniteSet(Slots) /\ IsFiniteSet(Slots \ Underway)
  <2>1. IsFiniteSet(Slots)
    BY BoundsType, FS_Interval DEF Slots
  <2>2. Slots \ Underway \in SUBSET Slots
    OBVIOUS
  <2> QED
    BY <2>1, <2>2, FS_Subset
<1>3. \E f \in [Unsaved -> Slots \ Underway] : \A p, q \in Unsaved : p # q => f[p] # f[q]
  BY <1>1, <1>2, UnsavedType, Slotted
<1>4. Fits(to)
  BY <1>3
<1>5. /\ net' = [s \in Slots |-> IF \E p \in Unsaved : to[p] = s
                                 THEN LET p == CHOOSE p \in Unsaved : to[p] = s
                                      IN SaveOf(p, latest[p])
                                 ELSE net[s]]
      /\ launch' = [pc |-> "flush", waits |-> {to[p] : p \in Unsaved},
                    shown |-> IF Underway = {} /\ queue = <<>> THEN latest ELSE Nothing]
  BY DEF Launch
<1>6. PICK f : f = to
  OBVIOUS
<1>7. Fits(f)
  BY <1>4, <1>6
<1>8. /\ net' = [s \in Slots |-> IF \E p \in Unsaved : f[p] = s
                                 THEN LET p == CHOOSE p \in Unsaved : f[p] = s
                                      IN SaveOf(p, latest[p])
                                 ELSE net[s]]
      /\ launch'.waits = {f[p] : p \in Unsaved}
  BY <1>5, <1>6
<1> HIDE DEF to
<1>9. ASSUME NEW p \in Unsaved
      PROVE  net'[f[p]] = SaveOf(p, latest[p])
  <2>1. f[p] \in Slots
    BY <1>7
  <2>2. (CHOOSE q \in Unsaved : f[q] = f[p]) = p
    BY <1>7
  <2> QED
    BY <1>8, <2>1, <2>2
<1>10. ASSUME NEW s \in Slots, \A p \in Unsaved : f[p] # s
       PROVE  net'[s] = net[s]
  BY <1>8, <1>10
<1> QED
  BY <1>7, <1>8, <1>9, <1>10 DEF Sends

\* What is then under way, and what the Run waits for.
Sending(to) ==
  /\ net' \in [Slots -> Requests \cup {Free}]
  /\ \A s \in Underway : net'[s] = net[s]
  /\ \A p \in Unsaved : to[p] \in Slots \ Underway /\ net'[to[p]] \in Requests
  /\ Underway' = Underway \cup {to[p] : p \in Unsaved}
  /\ doubt' = doubt \cup UNION {Meets(SaveOf(p, latest[p]), Sent \cup Queued) : p \in Unsaved}
  /\ doubt' \subseteq Paths
  /\ launch'.pc = "flush"
  /\ launch'.shown = IF Underway = {} /\ queue = <<>> THEN latest ELSE Nothing
  /\ launch' \in [pc: {"none", "copy", "flush", "post"}, shown: Files, waits: SUBSET Slots]
  /\ timer' = Nothing
  /\ UNCHANGED <<latest, saved, queue, store, index, partial, edits, ops, upsets>>

LEMMA SendsIs ==
  ASSUME Typed, Launch, NEW to, Sends(to)
  PROVE  Sending(to)
<1>1. \A p \in Unsaved : to[p] \in Slots \ Underway /\ SaveOf(p, latest[p]) \in Requests
  BY UnsavedType, SaveIs DEF Sends
<1>2. \A s \in Slots : net'[s] \in Requests \cup {Free}
  <2> TAKE s \in Slots
  <2>1. CASE \E p \in Unsaved : to[p] = s
    BY <2>1, <1>1 DEF Sends
  <2>2. CASE \A p \in Unsaved : to[p] # s
    BY <2>2, NetType DEF Sends
  <2> QED
    BY <2>1, <2>2
<1>3. net' = [s \in Slots |-> net'[s]]
  BY DEF Launch
<1>4. net' \in [Slots -> Requests \cup {Free}]
  BY <1>2, <1>3
<1>5. \A s \in Underway : net'[s] = net[s]
  BY <1>1, NetType DEF Sends
<1>6. Underway' = Underway \cup {to[p] : p \in Unsaved}
  <2>1. ASSUME NEW s \in Slots
        PROVE  net'[s] # Free <=> s \in Underway \cup {to[p] : p \in Unsaved}
    <3>1. CASE \E p \in Unsaved : to[p] = s
      BY <3>1, <1>1, RequestType DEF Sends
    <3>2. CASE \A p \in Unsaved : to[p] # s
      BY <3>2, NetType DEF Sends
    <3> QED
      BY <3>1, <3>2
  <2>2. Underway \subseteq Slots /\ {to[p] : p \in Unsaved} \subseteq Slots
    BY <1>1, NetType
  <2>3. Underway' = {s \in Slots : net'[s] # Free}
    BY DEF Underway
  <2> QED
    BY <2>1, <2>2, <2>3
<1>7. /\ doubt' = doubt \cup UNION {Meets(SaveOf(p, latest[p]), Sent \cup Queued) : p \in Unsaved}
      /\ launch'.pc = "flush"
      /\ launch'.shown = IF Underway = {} /\ queue = <<>> THEN latest ELSE Nothing
      /\ timer' = Nothing
      /\ UNCHANGED <<latest, saved, queue, store, index, partial, edits, ops, upsets>>
  BY DEF Launch
<1>8. doubt' \subseteq Paths
  <2>1. Sent \cup Queued \subseteq Requests
    BY SentType, QueueType
  <2>2. \A p \in Unsaved : Meets(SaveOf(p, latest[p]), Sent \cup Queued) \subseteq Paths
    BY <1>1, <2>1, MeetsType
  <2>3. doubt \subseteq Paths
    BY DEF Typed
  <2>4. UNION {Meets(SaveOf(p, latest[p]), Sent \cup Queued) : p \in Unsaved} \subseteq Paths
    BY <2>2
  <2> QED
    BY <1>7, <2>3, <2>4
<1>9. launch' \in [pc: {"none", "copy", "flush", "post"}, shown: Files, waits: SUBSET Slots]
  <2>1. launch' = [pc |-> launch'.pc, waits |-> launch'.waits, shown |-> launch'.shown]
    BY DEF Launch
  <2>2. launch'.waits \subseteq Slots
    BY <1>1 DEF Sends
  <2>3. launch'.shown \in Files
    BY <1>7, BoundsType DEF Typed, Nothing, Files
  <2> QED
    BY <1>7, <2>1, <2>2, <2>3
<1>10. \A p \in Unsaved : net'[to[p]] \in Requests
  BY <1>1 DEF Sends
<1> QED
  BY <1>1, <1>4, <1>5, <1>6, <1>7, <1>8, <1>9, <1>10 DEF Sending
-----------------------------------------------------------------------------
LEMMA StarterType == Starter \in Files /\ Nothing \in Files
BY BoundsType DEF Starter, Nothing, Files

LEMMA TypeType ==
  ASSUME Typed, NEW p \in Paths, Type(p) PROVE Typed'
<1>1. Fresh \in Contents \ {0} /\ edits' \in 0..MaxEdits
  BY FreshType DEF Type
<1>2. latest' \in Files /\ timer' \in Files
  BY <1>1 DEF Type, Typed, Files
<1>3. launch' \in [pc: {"none", "copy", "flush", "post"}, shown: Files, waits: SUBSET Slots]
  BY UnclaimIs DEF Type
<1> QED
  BY <1>1, <1>2, <1>3 DEF Type, Typed, hidden

LEMMA UndoType ==
  ASSUME Typed, NEW p \in Paths, Undo(p) PROVE Typed'
<1>1. ops' \in 0..MaxOps
  BY OpType DEF Undo
<1>2. latest' \in Files
  BY DEF Undo, Typed, Files
<1>3. launch' \in [pc: {"none", "copy", "flush", "post"}, shown: Files, waits: SUBSET Slots]
  BY UnclaimIs DEF Undo
<1> QED
  BY <1>1, <1>2, <1>3 DEF Undo, Typed, hidden

LEMMA CreateSteps ==
  ASSUME Typed, NEW p \in Paths, Create(p)
  PROVE  LET q == Request("create", p, p, Fresh, "object") IN
         /\ Queue(q) /\ q \in Operations /\ Fresh \in Contents \ {0}
         /\ q.op = "create" /\ q.path = p /\ q.to = p /\ q.content = Fresh
         /\ latest' = [latest EXCEPT ![p] = Fresh] /\ saved' = [saved EXCEPT ![p] = Fresh]
         /\ edits' \in 0..MaxEdits /\ ops' \in 0..MaxOps
         /\ UNCHANGED <<timer, net, store, index, partial, upsets>>
BY FreshType, OpType, CreateIs DEF Create, hidden

LEMMA DeleteSteps ==
  ASSUME Typed, NEW p \in Paths, Delete(p)
  PROVE  LET q == Request("delete", p, p, 0, "remove") IN
         /\ Queue(q) /\ q \in Operations
         /\ q.op = "delete" /\ q.path = p /\ q.to = p
         /\ latest' = [latest EXCEPT ![p] = 0] /\ saved' = [saved EXCEPT ![p] = 0]
         /\ timer' = [timer EXCEPT ![p] = 0]
         /\ ops' \in 0..MaxOps
         /\ UNCHANGED <<edits, net, store, index, partial, upsets>>
BY OpType, DeleteIs DEF Delete, hidden

LEMMA RenameSteps ==
  ASSUME Typed, NEW p \in Paths, NEW to \in Paths, Rename(p, to)
  PROVE  LET q == Request("rename", p, to, 0, "get") IN
         /\ Queue(q) /\ q \in Operations /\ p # to
         /\ q.op = "rename" /\ q.path = p /\ q.to = to
         /\ latest[p] # 0
         /\ latest' = [latest EXCEPT ![to] = latest[p], ![p] = 0]
         /\ saved' = IF saved[p] = 0 THEN saved ELSE [saved EXCEPT ![to] = saved[p], ![p] = 0]
         /\ ops' \in 0..MaxOps
         /\ UNCHANGED <<timer, edits, net, store, index, partial, upsets>>
<1>1. p # to /\ latest[p] # 0
  BY DEF Rename, Shown
<1> QED
  BY <1>1, OpType, RenameIs DEF Rename, hidden

LEMMA CreateType ==
  ASSUME Typed, NEW p \in Paths, Create(p) PROVE Typed'
<1>1. /\ Queue(Request("create", p, p, Fresh, "object"))
      /\ Request("create", p, p, Fresh, "object") \in Operations
      /\ Fresh \in Contents
      /\ latest' = [latest EXCEPT ![p] = Fresh] /\ saved' = [saved EXCEPT ![p] = Fresh]
      /\ edits' \in 0..MaxEdits /\ ops' \in 0..MaxOps
      /\ UNCHANGED <<timer, net, store, index, partial, upsets>>
  BY CreateSteps
<1>2. /\ queue' \in Seq(Operations) /\ doubt' \subseteq Paths
      /\ launch' \in [pc: {"none", "copy", "flush", "post"}, shown: Files, waits: SUBSET Slots]
  BY <1>1, QueueIs
<1>3. latest' \in Files /\ saved' \in Files
  BY <1>1 DEF Typed, Files
<1> QED
  BY <1>1, <1>2, <1>3 DEF Typed

LEMMA DeleteType ==
  ASSUME Typed, NEW p \in Paths, Delete(p) PROVE Typed'
<1>1. /\ Queue(Request("delete", p, p, 0, "remove"))
      /\ Request("delete", p, p, 0, "remove") \in Operations
      /\ latest' = [latest EXCEPT ![p] = 0] /\ saved' = [saved EXCEPT ![p] = 0]
      /\ timer' = [timer EXCEPT ![p] = 0]
      /\ ops' \in 0..MaxOps
      /\ UNCHANGED <<edits, net, store, index, partial, upsets>>
  BY DeleteSteps
<1>2. /\ queue' \in Seq(Operations) /\ doubt' \subseteq Paths
      /\ launch' \in [pc: {"none", "copy", "flush", "post"}, shown: Files, waits: SUBSET Slots]
  BY <1>1, QueueIs
<1>3. latest' \in Files /\ saved' \in Files /\ timer' \in Files
  BY <1>1, BoundsType DEF Typed, Files
<1> QED
  BY <1>1, <1>2, <1>3 DEF Typed

LEMMA RenameType ==
  ASSUME Typed, NEW p \in Paths, NEW to \in Paths, Rename(p, to) PROVE Typed'
<1>1. /\ Queue(Request("rename", p, to, 0, "get"))
      /\ Request("rename", p, to, 0, "get") \in Operations
      /\ latest' = [latest EXCEPT ![to] = latest[p], ![p] = 0]
      /\ saved' = IF saved[p] = 0 THEN saved ELSE [saved EXCEPT ![to] = saved[p], ![p] = 0]
      /\ ops' \in 0..MaxOps
      /\ UNCHANGED <<timer, edits, net, store, index, partial, upsets>>
  BY RenameSteps
<1>2. /\ queue' \in Seq(Operations) /\ doubt' \subseteq Paths
      /\ launch' \in [pc: {"none", "copy", "flush", "post"}, shown: Files, waits: SUBSET Slots]
  BY <1>1, QueueIs
<1>3. latest' \in Files /\ saved' \in Files
  BY <1>1, BoundsType DEF Typed, Files
<1> QED
  BY <1>1, <1>2, <1>3 DEF Typed

\* A request leaves in a slot that is free.
LEMMA SendIs ==
  ASSUME Typed, NEW s, First(s), NEW q \in Requests, net' = [net EXCEPT ![s] = q]
  PROVE  /\ s \in Slots \ Underway
         /\ net' \in [Slots -> Requests \cup {Free}]
         /\ net'[s] = q /\ \A t \in Slots \ {s} : net'[t] = net[t]
         /\ \A t \in Underway : net'[t] = net[t]
         /\ Underway' = Underway \cup {s}
<1>1. s \in Slots /\ s \notin Underway
  BY FirstIs
<1> QED
  BY <1>1, SlotSet, RequestType, NetType

\* The save q of p leaves, from slot s.
Saving(q, p, s) ==
  /\ First(s) /\ net' = [net EXCEPT ![s] = q]
  /\ q \in Requests /\ q.op = "save" /\ q.path = p /\ q.to = p /\ q.content = timer[p]
  /\ q.pc = "object" /\ q.here /\ FilesOf(q) = {p}
  /\ timer[p] \in Contents \ {0}
  /\ timer' = [timer EXCEPT ![p] = 0]
  /\ doubt' = doubt \cup Meets(q, Sent \cup Queued) /\ doubt' \subseteq Paths
  /\ UNCHANGED <<latest, saved, queue, store, index, launch, partial, edits, ops, upsets>>

LEMMA SaveSends ==
  ASSUME Typed, NEW p \in Paths, NEW s, Save(p, s)
  PROVE  Saving(SaveOf(p, timer[p]), p, s)
<1> DEFINE q == SaveOf(p, timer[p])
<1>1. timer[p] \in Contents \ {0}
  BY DEF Save, Typed, Files
<1>2. /\ q \in Requests /\ q.op = "save" /\ q.path = p /\ q.to = p /\ q.content = timer[p]
      /\ q.pc = "object" /\ q.here
  BY <1>1, SaveIs
<1>3. /\ First(s) /\ net' = [net EXCEPT ![s] = q] /\ timer' = [timer EXCEPT ![p] = 0]
      /\ doubt' = doubt \cup Meets(q, Sent \cup Queued)
      /\ UNCHANGED <<latest, saved, queue, store, index, launch, partial, edits, ops, upsets>>
  BY DEF Save
<1> HIDE DEF q
<1>4. Meets(q, Sent \cup Queued) \subseteq Paths
  <2>1. Sent \cup Queued \subseteq Requests
    BY SentType, QueueType
  <2> QED
    BY <1>2, <2>1, MeetsType
<1>5. doubt' \subseteq Paths /\ FilesOf(q) = {p}
  BY <1>2, <1>3, <1>4, FilesType DEF Typed
<1> QED
  BY <1>1, <1>2, <1>3, <1>5 DEF q, Saving

LEMMA DequeueSends ==
  ASSUME Typed, NEW s, Dequeue(s)
  PROVE  LET q == queue[1] IN
         /\ First(s) /\ net' = [net EXCEPT ![s] = q]
         /\ q \in Operations /\ q \in Requests /\ q.op \in Structural /\ q.here
         /\ FilesOf(q) = {q.path, q.to}
         /\ Len(queue) \in Nat \ {0} /\ Len(queue') = Len(queue) - 1
         /\ queue' \in Seq(Operations) /\ \A i \in 1..Len(queue') : queue'[i] = queue[i + 1]
         /\ \A t \in Underway : ~(net[t].here /\ net[t].op \in Structural)
         /\ doubt' = doubt \cup Meets(q, Sent) /\ doubt' \subseteq Paths
         /\ UNCHANGED <<latest, saved, timer, store, index, launch, partial, edits, ops, upsets>>
<1>1. queue \in Seq(Operations) /\ queue # <<>>
  BY DEF Typed, Dequeue
<1>2. Len(queue) \in Nat \ {0} /\ Head(queue) = queue[1]
  BY <1>1
<1>3. queue[1] \in Operations /\ queue[1] \in Requests
  BY <1>2, QueueType
<1>4. /\ First(s) /\ net' = [net EXCEPT ![s] = queue[1]] /\ queue' = Tail(queue)
      /\ \A t \in Underway : ~(net[t].here /\ net[t].op \in Structural)
      /\ doubt' = doubt \cup Meets(queue[1], Sent)
      /\ UNCHANGED <<latest, saved, timer, store, index, launch, partial, edits, ops, upsets>>
  BY <1>2 DEF Dequeue
<1>5. doubt' \subseteq Paths
  BY <1>3, <1>4, SentType, MeetsType DEF Typed
<1>6. /\ Len(queue') = Len(queue) - 1
      /\ queue' \in Seq(Operations) /\ \A i \in 1..Len(queue') : queue'[i] = queue[i + 1]
  BY <1>1, <1>4, HeadTailProperties
<1>7. FilesOf(queue[1]) = {queue[1].path, queue[1].to} /\ queue[1].op \in Structural /\ queue[1].here
  BY <1>3, OperationType, FilesType DEF Structural
<1> QED
  BY <1>2, <1>3, <1>4, <1>5, <1>6, <1>7

LEMMA ResetSends ==
  ASSUME Typed, NEW s, Reset(s)
  PROVE  \E q \in Requests :
         /\ First(s) /\ net' = [net EXCEPT ![s] = q]
         /\ q.op = "reset" /\ q.pc = "wipe" /\ q.here /\ FilesOf(q) = Paths
         /\ \A t \in Underway : net[t].op # "reset"
         /\ doubt' = (IF Sent \cup Queued = {} THEN doubt ELSE Paths)
         /\ launch'.shown = Nothing /\ launch'.pc = launch.pc /\ launch'.waits = launch.waits
         /\ launch' \in [pc: {"none", "copy", "flush", "post"}, shown: Files, waits: SUBSET Slots]
         /\ timer' = Nothing /\ ops' \in 0..MaxOps
         /\ UNCHANGED <<latest, saved, queue, store, index, partial, edits, upsets>>
<1>1. PICK p \in Paths : net' = [net EXCEPT ![s] = Request("reset", p, p, 0, "wipe")]
  BY DEF Reset
<1> DEFINE q == Request("reset", p, p, 0, "wipe")
<1>2. q \in Requests /\ q.op = "reset" /\ q.pc = "wipe" /\ q.here
  BY ResetIs
<1>3. net' = [net EXCEPT ![s] = q]
  BY <1>1
<1> HIDE DEF q
<1>4. FilesOf(q) = Paths
  BY <1>2, FilesType
<1>5. launch' = [launch EXCEPT !.shown = Nothing]
  BY DEF Reset
<1>6. /\ launch'.shown = Nothing /\ launch'.pc = launch.pc /\ launch'.waits = launch.waits
      /\ launch' \in [pc: {"none", "copy", "flush", "post"}, shown: Files, waits: SUBSET Slots]
  BY <1>5, StarterType DEF Typed
<1>7. /\ First(s) /\ \A t \in Underway : net[t].op # "reset"
      /\ doubt' = (IF Sent \cup Queued = {} THEN doubt ELSE Paths)
      /\ timer' = Nothing /\ ops' \in 0..MaxOps
      /\ UNCHANGED <<latest, saved, queue, store, index, partial, edits, upsets>>
  BY OpType DEF Reset
<1> QED
  BY <1>2, <1>3, <1>4, <1>6, <1>7

LEMMA CopyIs ==
  ASSUME NEW p \in Paths, NEW c \in Contents \ {0}
  PROVE  LET q == Request("copy", p, p, c, "object") IN
         q \in Requests /\ q.op = "copy" /\ q.here /\ FilesOf(q) = {p}
<1> DEFINE q == Request("copy", p, p, c, "object")
<1>1. PICK op, pc : /\ op = "copy" /\ op \in Structural \cup {"save", "copy", "reset"}
                    /\ pc = "object" /\ pc \in Stages
  BY DEF Stages
<1>2. /\ q \in Records /\ q.op = "copy" /\ q.path = p /\ q.to = p
      /\ q.content = c /\ q.pc = "object" /\ q.here
  <2>1. q = Request(op, p, p, c, pc)
    BY <1>1
  <2> HIDE DEF q
  <2> QED
    BY <1>1, <2>1, RequestIs
<1> HIDE DEF q
<1>3. q \in Requests
  BY <1>2 DEF Requests, Meant, Structural
<1> QED
  BY <1>2, <1>3, FilesType DEF q

\* The copy of p leaves from slot s, and q joins the queue, to create it.
Copying(p, s, q, copy) ==
  /\ q \in Operations /\ q.op = "create" /\ q.path = p /\ q.to = p /\ q.content = Fresh
  /\ Fresh \in Contents \ {0}
  /\ copy \in Requests /\ copy.op = "copy" /\ copy.here /\ FilesOf(copy) = {p}
  /\ First(s) /\ net' = [net EXCEPT ![s] = copy]
  /\ queue' = Append(queue, q)
  /\ latest' = [latest EXCEPT ![p] = Fresh] /\ saved' = [saved EXCEPT ![p] = Fresh]
  /\ doubt \subseteq doubt' /\ doubt' \subseteq Paths /\ p \in doubt'
  /\ \A o \in Sent : p \in FilesOf(o) => FilesOf(o) \subseteq doubt'
  /\ launch' = [pc |-> "copy", shown |-> Nothing, waits |-> {s}]
  /\ edits' \in 0..MaxEdits /\ ops' \in 0..MaxOps
  /\ UNCHANGED <<timer, store, index, partial, upsets>>

LEMMA CopySends ==
  ASSUME Typed, NEW p \in Paths, NEW s, Copy(p, s)
  PROVE  \E q, copy : Copying(p, s, q, copy)
<1>1. PICK q, copy : /\ q = Request("create", p, p, Fresh, "object")
                     /\ copy = Request("copy", p, p, Fresh, "object")
  OBVIOUS
<1>2. Fresh \in Contents \ {0} /\ edits' \in 0..MaxEdits /\ ops' \in 0..MaxOps
  BY FreshType, OpType DEF Copy
<1>3. /\ q \in Operations /\ q.op = "create" /\ q.path = p /\ q.to = p /\ q.content = Fresh
      /\ q \in Requests /\ FilesOf(q) = {p}
      /\ copy \in Requests /\ copy.op = "copy" /\ copy.here /\ FilesOf(copy) = {p}
  BY <1>1, <1>2, CreateIs, CopyIs, OperationType, FilesType DEF Structural
<1>4. /\ First(s) /\ net' = [net EXCEPT ![s] = copy] /\ queue' = Append(queue, q)
      /\ latest' = [latest EXCEPT ![p] = Fresh] /\ saved' = [saved EXCEPT ![p] = Fresh]
      /\ launch' = [pc |-> "copy", shown |-> Nothing, waits |-> {s}]
      /\ doubt' = doubt \cup Meets(copy, Sent \cup Queued \cup {q})
      /\ UNCHANGED <<timer, store, index, partial, upsets>>
  BY <1>1 DEF Copy
<1>5. PICK O : O = Sent \cup Queued \cup {q}
  OBVIOUS
<1>6. O \subseteq Requests /\ q \in O /\ Sent \subseteq O
  BY <1>3, <1>5, SentType, QueueType
<1>7. /\ doubt \subseteq doubt' /\ doubt' \subseteq Paths
      /\ \A o \in O : p \in FilesOf(o) => FilesOf(o) \subseteq doubt'
  <2>1. doubt' = doubt \cup Meets(copy, O) /\ copy \in Requests
    BY <1>3, <1>4, <1>5
  <2>2. Meets(copy, O) \subseteq Paths /\ doubt \subseteq Paths
    BY <1>6, <2>1, MeetsType DEF Typed
  <2>3. \A o \in O : FilesOf(o) \cap FilesOf(copy) # {} => FilesOf(o) \subseteq doubt'
    BY <1>6, <2>1, SendsAlone
  <2>4. \A o \in O : p \in FilesOf(o) => FilesOf(o) \cap FilesOf(copy) # {}
    BY <1>3
  <2> QED
    BY <2>1, <2>2, <2>3, <2>4
<1> QED
  BY <1>2, <1>3, <1>4, <1>6, <1>7 DEF Copying

LEMMA CopyType ==
  ASSUME Typed, NEW p \in Paths, NEW s, NEW q, NEW copy, Copying(p, s, q, copy)
  PROVE  Typed'
<1>1. net' \in [Slots -> Requests \cup {Free}] /\ s \in Slots
  BY SendIs DEF Copying
<1>2. queue' \in Seq(Operations)
  BY AppendProperties DEF Copying, Typed
<1>3. latest' \in Files /\ saved' \in Files
  BY DEF Copying, Typed, Files
<1>4. launch' \in [pc: {"none", "copy", "flush", "post"}, shown: Files, waits: SUBSET Slots]
  BY <1>1, StarterType DEF Copying
<1> QED
  BY <1>1, <1>2, <1>3, <1>4 DEF Copying, Typed

LEMMA ServesType ==
  ASSUME Typed, NEW s, NEW q, Serves(s, q) PROVE Typed'
<1>1. net' \in [Slots -> Requests \cup {Free}]
  BY SlotSet, NetType DEF Serves
<1>2. launch' \in [pc: {"none", "copy", "flush", "post"}, shown: Files, waits: SUBSET Slots]
  BY DEF Serves, Typed
<1> QED
  BY <1>1, <1>2 DEF Serves, Typed

LEMMA ServeServes ==
  ASSUME Typed, NEW s \in Slots, Serve(s) PROVE \E q : Serves(s, q)
BY ServeKinds, WipeServes, SeedServes DEF ServesFiles

LEMMA FailIs ==
  ASSUME Typed, NEW s \in Slots, Fail(s)
  PROVE  /\ s \in Underway /\ net[s] \in Requests
         /\ net' = [net EXCEPT ![s] = Free]
         /\ launch' \in [pc: {"none", "copy", "flush", "post"}, shown: Files, waits: SUBSET Slots]
         /\ launch' = IF s \in launch.waits THEN [launch EXCEPT !.waits = {}, !.shown = Nothing]
                      ELSE launch
         /\ doubt' = (IF net[s].op = "save" THEN doubt ELSE doubt \cup FilesOf(net[s]))
         /\ partial' = IF net[s].op = "save" /\ net[s].pc = "row" THEN partial \cup {net[s].path}
                       ELSE partial
         /\ doubt' \subseteq Paths /\ partial' \subseteq Paths
         /\ upsets' \in 0..MaxUpsets
         /\ UNCHANGED <<latest, saved, timer, queue, store, index, edits, ops>>
<1>1. s \in Underway /\ net[s] \in Requests
  BY NetType DEF Fail
<1>2. /\ net' = [net EXCEPT ![s] = Free]
      /\ launch' = IF s \in launch.waits THEN [launch EXCEPT !.waits = {}, !.shown = Nothing]
                   ELSE launch
      /\ doubt' = (IF net[s].op = "save" THEN doubt ELSE doubt \cup FilesOf(net[s]))
      /\ partial' = IF net[s].op = "save" /\ net[s].pc = "row" THEN partial \cup {net[s].path}
                    ELSE partial
      /\ UNCHANGED <<latest, saved, timer, queue, store, index, edits, ops>>
  BY DEF Fail
<1>3. launch' \in [pc: {"none", "copy", "flush", "post"}, shown: Files, waits: SUBSET Slots]
  BY <1>2, StarterType DEF Typed
<1>4. doubt' \subseteq Paths /\ partial' \subseteq Paths
  BY <1>1, <1>2, FilesType, RequestType DEF Typed
<1>5. upsets' \in 0..MaxUpsets
  BY UpsetType DEF Fail, Typed
<1> QED
  BY <1>1, <1>2, <1>3, <1>4, <1>5

\* The page that is opened anew shows what is stored.
LEMMA OpenIs ==
  ASSUME Typed, Open
  PROVE  /\ latest' \in Files /\ saved' = latest' /\ store' \in Files /\ index' \subseteq Paths
         /\ timer' = Nothing /\ queue' = <<>> /\ launch' = NoRun
         /\ net' \in [Slots -> Requests \cup {Free}]
         /\ Underway' = Underway
         /\ \A s \in Underway : /\ ~net'[s].here /\ net'[s].op = net[s].op
                                /\ FilesOf(net'[s]) = FilesOf(net[s])
         /\ doubt' = doubt \cup UNION {FilesOf(q) : q \in Sent} /\ doubt' \subseteq Paths
         /\ \A p \in Paths : (p \in index <=> store[p] # 0) =>
              saved'[p] = store'[p] /\ (p \in index' <=> store'[p] # 0)
         /\ upsets' \in 0..MaxUpsets /\ upsets' # upsets
         /\ UNCHANGED <<partial, edits, ops>>
<1> DEFINE seeded == [p \in Paths |-> IF store[p] = 0 THEN Starter[p] ELSE store[p]]
           listed == index \cup {p \in Starters : store[p] = 0}
           known  == IF \E p \in listed : seeded[p] # 0 THEN listed
                     ELSE {p \in Paths : seeded[p] # 0}
           found  == [p \in Paths |-> IF p \in known THEN seeded[p] ELSE 0]
<1>1. /\ store' = seeded /\ index' = known /\ latest' = found /\ saved' = found
      /\ timer' = Nothing /\ queue' = <<>> /\ launch' = NoRun
      /\ net' = [s \in Slots |-> IF net[s] = Free THEN Free ELSE [net[s] EXCEPT !.here = FALSE]]
      /\ doubt' = doubt \cup UNION {FilesOf(q) : q \in Sent}
      /\ UNCHANGED <<partial, edits, ops>> /\ Upset
  BY DEF Open
<1>2. seeded \in Files /\ known \subseteq Paths
  BY BoundsType, StarterType DEF Files, Typed
<1>3. found \in Files
  BY <1>2, BoundsType DEF Files
<1>4. ASSUME NEW s \in Underway
      PROVE  /\ net'[s] \in Requests /\ ~net'[s].here /\ net'[s].op = net[s].op
             /\ FilesOf(net'[s]) = FilesOf(net[s])
  <2>1. net[s] \in Requests /\ net[s] \in Records /\ net[s] # Free /\ s \in Slots
    BY NetType, RequestType
  <2>2. net'[s] = [net[s] EXCEPT !.here = FALSE]
    BY <1>1, <2>1
  <2>3. /\ net'[s] \in Records /\ net'[s].here = FALSE
        /\ net'[s].op = net[s].op /\ net'[s].path = net[s].path /\ net'[s].to = net[s].to
        /\ net'[s].content = net[s].content /\ net'[s].pc = net[s].pc
    BY <2>1, <2>2 DEF Records
  <2>4. Meant(net'[s])
    BY <2>1, <2>3, RequestType DEF Meant
  <2> QED
    BY <2>3, <2>4 DEF Requests, FilesOf
<1>5. \A s \in Slots \ Underway : net'[s] = Free
  BY <1>1 DEF Underway
<1>6. net' \in [Slots -> Requests \cup {Free}]
  <2>1. net' = [s \in Slots |-> net'[s]]
    BY <1>1
  <2>2. \A s \in Slots : net'[s] \in Requests \cup {Free}
    BY <1>4, <1>5
  <2> QED
    BY <2>1, <2>2
<1>7. Underway' = Underway
  <2>1. \A s \in Slots : net'[s] # Free <=> s \in Underway
    BY <1>4, <1>5, RequestType
  <2>2. Underway' = {s \in Slots : net'[s] # Free} /\ Underway \subseteq Slots
    BY NetType DEF Underway
  <2> QED
    BY <2>1, <2>2
<1>8. doubt' \subseteq Paths
  <2>1. \A q \in Sent : FilesOf(q) \subseteq Paths
    BY SentType, FilesType
  <2>2. UNION {FilesOf(q) : q \in Sent} \subseteq Paths /\ doubt \subseteq Paths
    BY <2>1 DEF Typed
  <2> QED
    BY <1>1, <2>2
<1>9. ASSUME NEW p \in Paths, p \in index <=> store[p] # 0
      PROVE  saved'[p] = store'[p] /\ (p \in index' <=> store'[p] # 0)
  <2>1. seeded[p] = IF store[p] = 0 THEN (IF p \in Starters THEN 1 ELSE 0) ELSE store[p]
    BY DEF Starter
  <2>2. p \in listed <=> seeded[p] # 0
    BY <1>9, <2>1
  <2>3. p \in known <=> seeded[p] # 0
    BY <2>2
  <2>4. store'[p] = seeded[p] /\ saved'[p] = IF p \in known THEN seeded[p] ELSE 0
    BY <1>1
  <2> HIDE DEF seeded, known
  <2> QED
    BY <1>1, <2>3, <2>4
<1>10. upsets' \in 0..MaxUpsets /\ upsets' # upsets
  BY <1>1, UpsetType DEF Upset, Typed
<1> QED
  BY <1>1, <1>2, <1>3, <1>4, <1>6, <1>7, <1>8, <1>9, <1>10

LEMMA NoRunType ==
  NoRun \in [pc: {"none", "copy", "flush", "post"}, shown: Files, waits: SUBSET Slots]
BY StarterType DEF NoRun

LEMMA TypedStep ==
  ASSUME Typed, [Next]_vars
  PROVE  Typed'
<1>1. ASSUME NEW p \in Paths, Type(p) \/ Undo(p) \/ Create(p) \/ Delete(p) PROVE Typed'
  BY <1>1, TypeType, UndoType, CreateType, DeleteType
<1>2. ASSUME NEW p \in Paths, NEW to \in Paths, Rename(p, to) PROVE Typed'
  BY <1>2, RenameType
<1>3. CASE Launch
  <2>1. PICK to : Sends(to)
    BY <1>3, LaunchSends
  <2> QED
    BY <1>3, <2>1, SendsIs, StarterType DEF Typed, Sending
<1>4. CASE Flushed
  BY <1>4 DEF Flushed, Typed
<1>5. CASE Snapshot
  BY <1>5, NoRunType DEF Snapshot, Typed
<1>6. ASSUME NEW s \in Slots, Serve(s) PROVE Typed'
  BY <1>6, ServeServes, ServesType
<1>7. ASSUME NEW s \in Slots, Fail(s) PROVE Typed'
  <2>1. net' \in [Slots -> Requests \cup {Free}]
    BY <1>7, FailIs, SlotSet
  <2> QED
    BY <1>7, <2>1, FailIs DEF Typed
<1>8. ASSUME NEW s \in Slots, Dequeue(s) PROVE Typed'
  <2>1. net' \in [Slots -> Requests \cup {Free}]
    BY <1>8, DequeueSends, SendIs
  <2> QED
    BY <1>8, <2>1, DequeueSends DEF Typed
<1>9. ASSUME NEW s \in Slots, Reset(s) PROVE Typed'
  <2>1. net' \in [Slots -> Requests \cup {Free}]
    BY <1>9, ResetSends, SendIs
  <2>2. doubt' \subseteq Paths
    BY <1>9, ResetSends DEF Typed
  <2> QED
    BY <1>9, <2>1, <2>2, ResetSends, StarterType DEF Typed
<1>10. ASSUME NEW s \in Slots, NEW p \in Paths, Save(p, s) PROVE Typed'
  <2>1. PICK q : Saving(q, p, s)
    BY <1>10, SaveSends
  <2>2. net' \in [Slots -> Requests \cup {Free}]
    BY <2>1, SendIs DEF Saving
  <2>3. timer' \in Files
    BY <2>1, BoundsType DEF Typed, Files, Saving
  <2> QED
    BY <2>1, <2>2, <2>3 DEF Typed, Saving
<1>11. CASE Open
  <2>1. queue' \in Seq(Operations)
    BY <1>11, OpenIs
  <2> QED
    BY <1>11, <2>1, OpenIs, StarterType, NoRunType DEF Typed
<1>12. CASE UNCHANGED vars
  BY <1>12 DEF vars, Typed
<1>13. ASSUME NEW s \in Slots, NEW p \in Paths, Copy(p, s) PROVE Typed'
  BY <1>13, CopySends, CopyType
<1> QED
  BY <1>1, <1>2, <1>3, <1>4, <1>5, <1>6, <1>7, <1>8, <1>9, <1>10, <1>11, <1>12, <1>13 DEF Next
-----------------------------------------------------------------------------
(* How requests meet.                                                      *)

\* All files of the request are in doubt.
Wild(q) == FilesOf(q) \subseteq doubt

\* Of two requests under way at one file, all files are in doubt.
Apart ==
  \A s, t \in Underway :
    s # t /\ FilesOf(net[s]) \cap FilesOf(net[t]) # {} => Wild(net[s]) /\ Wild(net[t])

\* So are those of a request whose page is gone.
Left == \A s \in Underway : ~net[s].here => Wild(net[s])

\* Nothing waits behind a reset, or all files are in doubt.
ResetAlone == \A s \in Underway : net[s].op = "reset" => doubt = Paths \/ queue = <<>>

\* No queued operation is about a file that is being saved, or both are in doubt.
Ahead ==
  \A s \in Underway : net[s].op = "save" =>
    Wild(net[s]) \/ \A i \in 1..Len(queue) : net[s].path \notin FilesOf(queue[i])

\* Every file that is shown has been saved once.
ShownSaved == \A p \in Paths : latest[p] # 0 => saved[p] # 0

LEMMA SendApart ==
  ASSUME Typed, Apart, Left, NEW s, First(s), NEW q \in Requests, net' = [net EXCEPT ![s] = q],
         doubt \subseteq doubt', q.here,
         \A o \in Sent : FilesOf(o) \cap FilesOf(q) # {} =>
           FilesOf(o) \subseteq doubt' /\ FilesOf(q) \subseteq doubt'
  PROVE  Apart' /\ Left'
<1>1. /\ s \notin Underway /\ net'[s] = q /\ \A t \in Underway : net'[t] = net[t]
      /\ Underway' = Underway \cup {s}
  BY SendIs
<1>2. \A t \in Underway : net[t] \in Sent
  BY DEF Sent
<1>3. Left'
  BY <1>1 DEF Left, Wild
<1>4. ASSUME NEW t \in Underway', NEW u \in Underway', t # u,
             FilesOf(net'[t]) \cap FilesOf(net'[u]) # {}
      PROVE  FilesOf(net'[t]) \subseteq doubt' /\ FilesOf(net'[u]) \subseteq doubt'
  <2>1. CASE t \in Underway /\ u \in Underway
    BY <1>1, <1>4, <2>1 DEF Apart, Wild
  <2>2. CASE t = s
    BY <1>1, <1>2, <1>4, <2>2
  <2>3. CASE u = s
    BY <1>1, <1>2, <1>4, <2>3
  <2> QED
    BY <1>1, <2>1, <2>2, <2>3
<1>5. Apart'
  BY <1>4 DEF Apart, Wild
<1> QED
  BY <1>3, <1>5

\* A request goes on or ends: it meets no more than before.
LEMMA SlotApart ==
  ASSUME Typed, Apart, Left, ResetAlone, InTurn, Ahead, NEW s \in Underway, NEW q \in Requests \cup {Free},
         net' = [net EXCEPT ![s] = q], doubt \subseteq doubt', doubt' \subseteq Paths,
         q # Free => /\ q.op = net[s].op /\ q.path = net[s].path /\ q.to = net[s].to
                     /\ q.here = net[s].here,
         queue' = queue
  PROVE  Apart' /\ Left' /\ ResetAlone' /\ InTurn' /\ Ahead'
<1>1. /\ \A t \in Underway' : t \in Underway
      /\ \A t \in Underway' : /\ FilesOf(net'[t]) = FilesOf(net[t])
                              /\ net'[t].op = net[t].op /\ net'[t].here = net[t].here
                              /\ net'[t].path = net[t].path
  <2>1. /\ net'[s] = q /\ \A t \in Slots \ {s} : net'[t] = net[t]
        /\ q # Free => Underway' = Underway \cup {s}
        /\ q = Free => Underway' = Underway \ {s}
    BY SlotSet, NetType
  <2> QED
    BY <2>1, NetType DEF FilesOf
<1>2. Apart'
  BY <1>1 DEF Apart, Wild
<1>3. Left'
  BY <1>1 DEF Left, Wild
<1>4. ResetAlone'
  BY <1>1 DEF ResetAlone, Typed
<1>5. InTurn'
  BY <1>1 DEF InTurn
<1>6. Ahead'
  BY <1>1 DEF Ahead, Wild
<1> QED
  BY <1>2, <1>3, <1>4, <1>5, <1>6

Structure == InTurn /\ Apart /\ Left /\ ResetAlone /\ Ahead

\* A step that adds no structural request of the page.
LEMMA InTurnFrom ==
  ASSUME InTurn,
         \A t \in Underway' : net'[t].here /\ net'[t].op \in Structural =>
                               t \in Underway /\ net'[t] = net[t]
  PROVE  InTurn'
<1> SUFFICES ASSUME NEW s \in Underway', NEW t \in Underway',
                    /\ net'[s].here /\ net'[s].op \in Structural
                    /\ net'[t].here /\ net'[t].op \in Structural
             PROVE  s = t
  BY DEF InTurn
<1>1. /\ s \in Underway /\ net[s].here /\ net[s].op \in Structural
      /\ t \in Underway /\ net[t].here /\ net[t].op \in Structural
  OBVIOUS
<1> QED
  BY <1>1 DEF InTurn

LEMMA QuietStructure ==
  ASSUME Structure, UNCHANGED <<net, queue, doubt>>
  PROVE  Structure'
BY DEF Structure, InTurn, Apart, Left, ResetAlone, Ahead, Wild, Underway

\* The new operation is about no file that is being saved, or both are in doubt.
LEMMA AheadOf ==
  ASSUME Typed, Ahead, NEW q \in Requests, queue' = Append(queue, q), doubt \subseteq doubt',
         \A o \in Sent : FilesOf(o) \cap FilesOf(q) # {} => FilesOf(o) \subseteq doubt',
         NEW s \in Underway, net[s].op = "save", ~(FilesOf(net[s]) \subseteq doubt')
  PROVE  \A i \in 1..Len(queue') : net[s].path \notin FilesOf(queue'[i])
<1>1. /\ Len(queue') = Len(queue) + 1 /\ Len(queue) \in Nat
      /\ \A i \in 1..Len(queue) : queue'[i] = queue[i]
      /\ queue'[Len(queue) + 1] = q
  BY AppendProperties, QueueType DEF Typed
<1>2. net[s] \in Sent /\ net[s].path \in FilesOf(net[s])
  BY NetType, FilesType DEF Sent
<1>3. net[s].path \notin FilesOf(q)
  BY <1>2
<1>4. \A i \in 1..Len(queue) : net[s].path \notin FilesOf(queue[i])
  BY DEF Ahead, Wild
<1>5. ASSUME NEW i \in 1..Len(queue') PROVE net[s].path \notin FilesOf(queue'[i])
  <2>1. i \in 1..Len(queue) \/ i = Len(queue) + 1
    BY <1>1
  <2> QED
    BY <1>1, <1>3, <1>4, <2>1
<1> QED
  BY <1>5

LEMMA QueueStructure ==
  ASSUME Typed, Structure, NEW q \in Operations, Queue(q), UNCHANGED net
  PROVE  Structure'
<1>1. /\ doubt \cup Meets(q, Sent) \subseteq doubt' /\ doubt' \subseteq Paths
      /\ Underway' = Underway
  BY QueueIs DEF Underway
<1>2. InTurn' /\ Apart' /\ Left'
  BY <1>1 DEF Structure, InTurn, Apart, Left, Wild
<1>3. ASSUME NEW s \in Underway, net[s].op = "reset" PROVE doubt' = Paths
  <2>1. net[s] \in Sent /\ net[s] \in Requests /\ FilesOf(net[s]) = Paths
    BY <1>3, NetType, FilesType DEF Sent
  <2>2. q \in Requests /\ FilesOf(q) \cap Paths # {}
    BY OperationType, FilesType, RequestType
  <2> QED
    BY <1>1, <2>1, <2>2, MeetsIs, SentType
<1>4. ResetAlone'
  BY <1>1, <1>3 DEF ResetAlone
<1>5. Ahead'
  <2>1. \A o \in Sent : FilesOf(o) \cap FilesOf(q) # {} => FilesOf(o) \subseteq doubt'
    BY <1>1, OperationType, MeetsIs, SentType
  <2>2. q \in Requests /\ queue' = Append(queue, q)
    BY OperationType DEF Queue
  <2>3. ASSUME NEW s \in Underway, net[s].op = "save", ~(FilesOf(net[s]) \subseteq doubt')
        PROVE  \A i \in 1..Len(queue') : net[s].path \notin FilesOf(queue'[i])
    BY <1>1, <2>1, <2>2, <2>3, AheadOf DEF Structure
  <2> QED
    BY <1>1, <2>3 DEF Ahead, Wild
<1> QED
  BY <1>2, <1>4, <1>5 DEF Structure

LEMMA CopyStructure ==
  ASSUME Typed, Structure, NEW p \in Paths, NEW s, NEW q, NEW copy, Copying(p, s, q, copy)
  PROVE  Structure'
<1>1. /\ First(s) /\ copy \in Requests /\ net' = [net EXCEPT ![s] = copy]
      /\ copy.op = "copy" /\ copy.here /\ FilesOf(copy) = {p}
      /\ q \in Requests /\ FilesOf(q) = {p} /\ queue' = Append(queue, q)
      /\ doubt \subseteq doubt' /\ doubt' \subseteq Paths /\ p \in doubt'
      /\ \A o \in Sent : p \in FilesOf(o) => FilesOf(o) \subseteq doubt'
  BY OperationType, FilesType DEF Copying
<1>2. /\ s \notin Underway /\ net'[s] = copy /\ \A t \in Underway : net'[t] = net[t]
      /\ Underway' = Underway \cup {s}
  BY <1>1, SendIs
<1>3. Apart' /\ Left'
  BY <1>1, SendApart DEF Structure
<1>4. InTurn'
  <2>1. copy.op \notin Structural
    BY <1>1 DEF Structural
  <2> QED
    BY <1>2, <2>1, InTurnFrom DEF Structure
<1>5. ResetAlone'
  <2>1. ASSUME NEW t \in Underway, net[t].op = "reset" PROVE doubt' = Paths
    <3>1. net[t] \in Sent /\ FilesOf(net[t]) = Paths
      BY <2>1, NetType, FilesType DEF Sent
    <3> QED
      BY <1>1, <3>1
  <2>2. \A t \in Underway' : net'[t].op = "reset" => t \in Underway /\ net'[t] = net[t]
    BY <1>1, <1>2
  <2> QED
    BY <2>1, <2>2 DEF ResetAlone
<1>6. Ahead'
  <2>1. ASSUME NEW t \in Underway, net[t].op = "save", ~(FilesOf(net[t]) \subseteq doubt')
        PROVE  \A i \in 1..Len(queue') : net[t].path \notin FilesOf(queue'[i])
    BY <1>1, <2>1, AheadOf DEF Structure
  <2> QED
    BY <1>1, <1>2, <2>1 DEF Ahead, Wild
<1> QED
  BY <1>3, <1>4, <1>5, <1>6 DEF Structure

\* Requests leave that no queued operation meets, or both are in doubt.
LEMMA AheadSaves ==
  ASSUME Typed, Ahead, doubt \subseteq doubt', queue' = queue,
         \A t \in Underway : net'[t] = net[t],
         \A t \in Underway' \ Underway : net'[t].op = "save" =>
           /\ FilesOf(net'[t]) = {net'[t].path}
           /\ \A o \in Queued : net'[t].path \in FilesOf(o) => net'[t].path \in doubt'
  PROVE  Ahead'
<1>1. ASSUME NEW t \in Underway', net'[t].op = "save", ~(FilesOf(net'[t]) \subseteq doubt'),
             NEW i \in 1..Len(queue)
      PROVE  net'[t].path \notin FilesOf(queue[i])
  <2>1. CASE t \in Underway
    BY <1>1, <2>1 DEF Ahead, Wild
  <2>2. CASE t \notin Underway
    BY <1>1, <2>2 DEF Queued
  <2> QED
    BY <2>1, <2>2
<1> QED
  BY <1>1 DEF Ahead, Wild

LEMMA SaveStructure ==
  ASSUME Typed, Structure, NEW p \in Paths, NEW s, Save(p, s)
  PROVE  Structure'
<1>1. PICK r : Saving(r, p, s)
  BY SaveSends
<1>2. /\ First(s) /\ net' = [net EXCEPT ![s] = r] /\ r \in Requests /\ r.op = "save" /\ r.here
      /\ doubt' = doubt \cup Meets(r, Sent \cup Queued) /\ doubt' \subseteq Paths
      /\ queue' = queue
  BY <1>1 DEF Saving
<1>3. /\ s \notin Underway /\ net'[s] = r /\ \A t \in Underway : net'[t] = net[t]
      /\ Underway' = Underway \cup {s}
  BY <1>2, SendIs
<1>4. \A o \in Sent \cup Queued : FilesOf(o) \cap FilesOf(r) # {} =>
        FilesOf(o) \subseteq doubt' /\ FilesOf(r) \subseteq doubt'
  <2>1. Sent \cup Queued \subseteq Requests
    BY SentType, QueueType
  <2> QED
    BY <1>2, <2>1, SendsAlone
<1>5. Apart' /\ Left'
  BY <1>2, <1>4, SendApart DEF Structure
<1>6. InTurn'
  <2>1. r.op \notin Structural
    BY <1>2 DEF Structural
  <2> QED
    BY <1>3, <2>1, InTurnFrom DEF Structure
<1>7. ResetAlone'
  BY <1>2, <1>3 DEF Structure, ResetAlone
<1>8. Ahead'
  <2>1. FilesOf(r) = {r.path}
    BY <1>1 DEF Saving
  <2>2. doubt \subseteq doubt' /\ \A t \in Underway' \ Underway : net'[t] = r
    BY <1>2, <1>3
  <2> QED
    BY <1>2, <1>3, <1>4, <2>1, <2>2, AheadSaves DEF Structure
<1> QED
  BY <1>5, <1>6, <1>7, <1>8 DEF Structure

LEMMA DequeueStructure ==
  ASSUME Typed, Structure, NEW s, Dequeue(s)
  PROVE  Structure'
<1>1. PICK r : r = queue[1]
  OBVIOUS
<1>2. /\ First(s) /\ net' = [net EXCEPT ![s] = r] /\ r \in Requests /\ r.op \in Structural /\ r.here
      /\ doubt' = doubt \cup Meets(r, Sent) /\ doubt' \subseteq Paths
      /\ \A t \in Underway : ~(net[t].here /\ net[t].op \in Structural)
      /\ queue # <<>>
  BY <1>1, DequeueSends DEF Dequeue
<1>3. /\ s \notin Underway /\ net'[s] = r /\ \A t \in Underway : net'[t] = net[t]
      /\ Underway' = Underway \cup {s}
  BY <1>2, SendIs
<1>4. \A o \in Sent : FilesOf(o) \cap FilesOf(r) # {} =>
        FilesOf(o) \subseteq doubt' /\ FilesOf(r) \subseteq doubt'
  BY <1>2, SendsAlone, SentType
<1>5. Apart' /\ Left'
  BY <1>2, <1>4, SendApart DEF Structure
<1>6. InTurn'
  BY <1>2, <1>3 DEF Structure, InTurn
<1>7. ResetAlone'
  BY <1>2, <1>3 DEF Structure, ResetAlone, Structural
<1>8. Ahead'
  <2>1. /\ Len(queue) \in Nat /\ Len(queue') = Len(queue) - 1
        /\ \A i \in 1..Len(queue') : queue'[i] = queue[i + 1]
    BY DequeueSends
  <2>2. \A i \in 1..Len(queue') : i + 1 \in 1..Len(queue)
    BY <2>1
  <2>3. ASSUME NEW t \in Underway', net'[t].op = "save" PROVE t \in Underway /\ net'[t] = net[t]
    BY <1>2, <1>3, <2>3 DEF Structural
  <2> QED
    BY <1>2, <2>1, <2>2, <2>3 DEF Structure, Ahead, Wild
<1> QED
  BY <1>5, <1>6, <1>7, <1>8 DEF Structure

LEMMA ResetStructure ==
  ASSUME Typed, Structure, NEW s, Reset(s)
  PROVE  Structure'
<1>1. PICK r \in Requests :
        /\ First(s) /\ net' = [net EXCEPT ![s] = r] /\ r.op = "reset" /\ r.here
        /\ FilesOf(r) = Paths
        /\ doubt' = (IF Sent \cup Queued = {} THEN doubt ELSE Paths)
        /\ queue' = queue
  BY ResetSends
<1>2. /\ s \notin Underway /\ net'[s] = r /\ \A t \in Underway : net'[t] = net[t]
      /\ Underway' = Underway \cup {s}
  BY <1>1, SendIs
<1>3. doubt \subseteq doubt' /\ doubt' \subseteq Paths
  BY <1>1 DEF Typed
<1>4. \A o \in Sent : FilesOf(o) \cap FilesOf(r) # {} =>
        FilesOf(o) \subseteq doubt' /\ FilesOf(r) \subseteq doubt'
  BY <1>1, SentType, FilesType
<1>5. Apart' /\ Left'
  BY <1>1, <1>3, <1>4, SendApart DEF Structure
<1>6. InTurn'
  <2>1. r.op \notin Structural
    BY <1>1 DEF Structural
  <2> QED
    BY <1>2, <2>1, InTurnFrom DEF Structure
<1>7. doubt' = Paths \/ queue = <<>>
  <2>1. ASSUME Queued = {} PROVE queue = <<>>
    <3>1. 1..Len(queue) = {}
      BY <2>1 DEF Queued
    <3>2. Len(queue) = 0
      BY <3>1, QueueType
    <3> QED
      BY <3>2, EmptySeq DEF Typed
  <2> QED
    BY <1>1, <2>1
<1>8. ResetAlone'
  BY <1>1, <1>7 DEF ResetAlone
<1>9. Ahead'
  BY <1>1, <1>2, <1>3, AheadSaves DEF Structure
<1> QED
  BY <1>5, <1>6, <1>8, <1>9 DEF Structure

LEMMA LaunchStructure ==
  ASSUME Typed, Structure, Launch
  PROVE  Structure'
<1>1. PICK to : Sends(to)
  BY LaunchSends
<1>2. /\ \A s \in Underway : net'[s] = net[s]
      /\ \A p \in Unsaved : to[p] \in Slots \ Underway /\ net'[to[p]] \in Requests
      /\ Underway' = Underway \cup {to[p] : p \in Unsaved}
      /\ doubt' = doubt \cup UNION {Meets(SaveOf(p, latest[p]), Sent \cup Queued) : p \in Unsaved}
      /\ doubt' \subseteq Paths /\ queue' = queue
  <2>1. Sending(to)
    BY <1>1, SendsIs
  <2> QED
    BY <2>1 DEF Sending
<1>3. ASSUME NEW p \in Unsaved
      PROVE  /\ net'[to[p]] = SaveOf(p, latest[p]) /\ FilesOf(net'[to[p]]) = {p}
             /\ net'[to[p]].op = "save" /\ net'[to[p]].here /\ net'[to[p]].path = p
             /\ \A o \in Sent \cup Queued :
                  p \in FilesOf(o) => FilesOf(o) \subseteq doubt' /\ p \in doubt'
  <2>1. PICK q : q = SaveOf(p, latest[p])
    OBVIOUS
  <2>2. q \in Requests /\ q.op = "save" /\ q.here /\ q.path = p /\ FilesOf(q) = {p}
    BY <2>1, UnsavedType, SaveIs, FilesType
  <2>3. \A o \in Sent \cup Queued : p \in FilesOf(o) =>
          FilesOf(o) \subseteq Meets(q, Sent \cup Queued) /\ p \in Meets(q, Sent \cup Queued)
    BY <2>2, MeetsIs, SentType, QueueType
  <2>4. Meets(q, Sent \cup Queued) \subseteq doubt'
    BY <1>2, <2>1
  <2> QED
    BY <1>1, <2>1, <2>2, <2>3, <2>4 DEF Sends
<1>4. Left'
  BY <1>2, <1>3 DEF Structure, Left, Wild
<1>5. InTurn'
  <2>1. \A p \in Unsaved : net'[to[p]].op \notin Structural
    BY <1>3 DEF Structural
  <2>2. \A t \in Underway' : t \in Underway \/ \E p \in Unsaved : t = to[p]
    BY <1>2
  <2>3. \A t \in Underway' : net'[t].here /\ net'[t].op \in Structural =>
          t \in Underway /\ net'[t] = net[t]
    BY <1>2, <2>1, <2>2
  <2>4. InTurn
    BY DEF Structure
  <2> QED
    BY <2>3, <2>4, InTurnFrom
<1>6. ResetAlone'
  <2>1. \A t \in Underway' : t \in Underway \/ \E p \in Unsaved : t = to[p]
    BY <1>2
  <2>2. \A t \in Underway' : net'[t].op = "reset" => t \in Underway /\ net'[t] = net[t]
    BY <1>2, <1>3, <2>1
  <2>3. doubt \subseteq doubt' /\ doubt' \subseteq Paths /\ queue' = queue /\ ResetAlone
    BY <1>2 DEF Structure
  <2> QED
    BY <2>2, <2>3 DEF ResetAlone
<1>7. ASSUME NEW t \in Underway', NEW u \in Underway', t # u,
             FilesOf(net'[t]) \cap FilesOf(net'[u]) # {}
      PROVE  FilesOf(net'[t]) \subseteq doubt' /\ FilesOf(net'[u]) \subseteq doubt'
  <2>1. \A s \in Underway : net[s] \in Sent
    BY DEF Sent
  <2>2. CASE t \in Underway /\ u \in Underway
    BY <1>2, <1>7, <2>2 DEF Structure, Apart, Wild
  <2>3. CASE t \in Underway /\ u \notin Underway
    <3>1. PICK p \in Unsaved : u = to[p]
      BY <1>2, <2>3
    <3>2. p \in FilesOf(net[t]) /\ net'[t] = net[t] /\ net[t] \in Sent
      BY <1>2, <1>3, <1>7, <2>1, <2>3, <3>1
    <3> QED
      BY <1>3, <3>1, <3>2
  <2>4. CASE t \notin Underway /\ u \in Underway
    <3>1. PICK p \in Unsaved : t = to[p]
      BY <1>2, <2>4
    <3>2. p \in FilesOf(net[u]) /\ net'[u] = net[u] /\ net[u] \in Sent
      BY <1>2, <1>3, <1>7, <2>1, <2>4, <3>1
    <3> QED
      BY <1>3, <3>1, <3>2
  <2>5. CASE t \notin Underway /\ u \notin Underway
    <3>1. PICK p \in Unsaved : t = to[p]
      BY <1>2, <2>5
    <3>2. PICK r \in Unsaved : u = to[r]
      BY <1>2, <2>5
    <3> QED
      BY <1>3, <1>7, <3>1, <3>2
  <2> QED
    BY <2>2, <2>3, <2>4, <2>5
<1>8. Apart'
  BY <1>7 DEF Apart, Wild
<1>9. Ahead'
  <2>1. ASSUME NEW t \in Underway' \ Underway
        PROVE  /\ FilesOf(net'[t]) = {net'[t].path}
               /\ \A o \in Queued : net'[t].path \in FilesOf(o) => net'[t].path \in doubt'
    <3>1. PICK p \in Unsaved : t = to[p]
      BY <1>2, <2>1
    <3> QED
      BY <1>3, <3>1
  <2>2. /\ doubt \subseteq doubt' /\ queue' = queue /\ \A t \in Underway : net'[t] = net[t]
        /\ Ahead
    BY <1>2 DEF Structure
  <2> QED
    BY <2>1, <2>2, AheadSaves
<1> QED
  BY <1>4, <1>5, <1>6, <1>8, <1>9 DEF Structure

LEMMA OpenStructure ==
  ASSUME Typed, Structure, Open
  PROVE  Structure'
<1>1. /\ Underway' = Underway /\ queue' = <<>>
      /\ \A s \in Underway : /\ ~net'[s].here /\ FilesOf(net'[s]) = FilesOf(net[s])
      /\ doubt' = doubt \cup UNION {FilesOf(q) : q \in Sent}
  BY OpenIs
<1>2. \A s \in Underway : FilesOf(net'[s]) \subseteq doubt'
  BY <1>1 DEF Sent
<1>3. InTurn'
  BY <1>1, InTurnFrom DEF Structure
<1>4. Apart' /\ Left'
  BY <1>1, <1>2 DEF Apart, Left, Wild
<1>5. ResetAlone'
  BY <1>1 DEF ResetAlone
<1>6. Ahead'
  BY <1>1, <1>2 DEF Ahead, Wild
<1> QED
  BY <1>3, <1>4, <1>5, <1>6 DEF Structure

LEMMA StructureStep ==
  ASSUME Typed, Structure, [Next]_vars
  PROVE  Structure'
<1>1. ASSUME NEW p \in Paths, Type(p) \/ Undo(p) \/ Create(p) \/ Delete(p) PROVE Structure'
  <2>1. CASE Type(p) \/ Undo(p)
    BY <2>1, QuietStructure DEF Type, Undo, hidden
  <2>2. CASE Create(p)
    BY <2>2, CreateSteps, QueueStructure
  <2>3. CASE Delete(p)
    BY <2>3, DeleteSteps, QueueStructure
  <2> QED
    BY <1>1, <2>1, <2>2, <2>3
<1>2. ASSUME NEW p \in Paths, NEW to \in Paths, Rename(p, to) PROVE Structure'
  BY <1>2, RenameSteps, QueueStructure
<1>3. CASE Launch
  BY <1>3, LaunchStructure
<1>4. CASE Flushed \/ Snapshot
  BY <1>4, QuietStructure DEF Flushed, Snapshot
<1>5. ASSUME NEW s \in Slots, Serve(s) PROVE Structure'
  <2>1. PICK q : Serves(s, q)
    BY <1>5, ServeServes
  <2> QED
    BY <2>1, SlotApart DEF Serves, Structure, Typed
<1>6. ASSUME NEW s \in Slots, Fail(s) PROVE Structure'
  BY <1>6, FailIs, SlotApart DEF Structure
<1>7. ASSUME NEW s \in Slots, Dequeue(s) PROVE Structure'
  BY <1>7, DequeueStructure
<1>8. ASSUME NEW s \in Slots, Reset(s) PROVE Structure'
  BY <1>8, ResetStructure
<1>9. ASSUME NEW s \in Slots, NEW p \in Paths, Save(p, s) PROVE Structure'
  BY <1>9, SaveStructure
<1>10. CASE Open
  BY <1>10, OpenStructure
<1>11. CASE UNCHANGED vars
  BY <1>11, QuietStructure DEF vars
<1>12. ASSUME NEW s \in Slots, NEW p \in Paths, Copy(p, s) PROVE Structure'
  BY <1>12, CopySends, CopyStructure
<1> QED
  BY <1>1, <1>2, <1>3, <1>4, <1>5, <1>6, <1>7, <1>8, <1>9, <1>10, <1>11, <1>12 DEF Next

LEMMA InitTyped ==
  ASSUME Init
  PROVE  Typed /\ Structure
<1>1. Underway = {}
  BY DEF Init, Underway
<1>2. net \in [Slots -> Requests \cup {Free}] /\ queue \in Seq(Operations)
  BY DEF Init
<1>3. Typed
  BY <1>2, StarterType, NoRunType, BoundsType DEF Init, Typed
<1> QED
  BY <1>1, <1>3 DEF Structure, InTurn, Apart, Left, ResetAlone, Ahead

LEMMA TypedInv == Spec => [](Typed /\ Structure)
<1>1. Init => Typed /\ Structure
  BY InitTyped
<1>2. (Typed /\ Structure) /\ [Next]_vars => (Typed /\ Structure)'
  BY TypedStep, StructureStep
<1> QED
  BY <1>1, <1>2, PTL DEF Spec

LEMMA TypedIsTypeOK ==
  ASSUME Typed, InTurn
  PROVE  TypeOK
<1>1. \A q \in {net[s] : s \in Underway} \cup {queue[i] : i \in 1..Len(queue)} : q \in Requests
  BY NetType, QueueType
<1>2. \A q \in Requests :
        q \in [op: Structural \cup {"save", "copy", "reset"}, path: Paths, to: Paths, content: Contents,
               pc: {"get", "object", "row", "remove", "unlist", "wipe", "seed"}, here: BOOLEAN]
  BY RequestType DEF Records, Stages
<1> DEFINE S == {s \in Underway : net[s].here /\ net[s].op \in Structural}
<1>3. Cardinality(S) <= 1
  <2>1. CASE S = {}
    BY <2>1, FS_EmptySet
  <2>2. CASE S # {}
    <3>1. PICK s : s \in S
      BY <2>2
    <3>2. S = {s}
      BY <3>1 DEF InTurn
    <3> HIDE DEF S
    <3>3. Cardinality(S) = 1
      BY <3>2, FS_Singleton
    <3> QED
      BY <3>3
  <2> QED
    BY <2>1, <2>2
<1> QED
  BY <1>1, <1>2, <1>3 DEF Typed, TypeOK

\* Every request that is under way or queued is one of the workspace routes',
\* and the page has one structural request under way at a time: the queue waits
\* for the answer to each (useWorkspaceSync.ts:100-106).
THEOREM TypeOKHolds == Spec => []TypeOK
<1>1. Typed /\ Structure => TypeOK
  BY TypedIsTypeOK DEF Structure
<1> QED
  BY <1>1, TypedInv, PTL
-----------------------------------------------------------------------------
(* What is stored.                                                         *)

LEMMA ShownSavedStep ==
  ASSUME Typed, ShownSaved, [Next]_vars
  PROVE  ShownSaved'
<1>1. ASSUME NEW p \in Paths, Type(p) PROVE ShownSaved'
  BY <1>1 DEF Type, ShownSaved, Shown, Typed, Files
<1>2. ASSUME NEW p \in Paths, Undo(p) PROVE ShownSaved'
  BY <1>2 DEF Undo, ShownSaved, Shown, Typed, Files
<1>3. ASSUME NEW p \in Paths, Create(p) PROVE ShownSaved'
  BY <1>3, FreshType DEF Create, ShownSaved, Typed, Files
<1>4. ASSUME NEW p \in Paths, Delete(p) PROVE ShownSaved'
  BY <1>4 DEF Delete, ShownSaved, Typed, Files
<1>5. ASSUME NEW p \in Paths, NEW to \in Paths, Rename(p, to) PROVE ShownSaved'
  BY <1>5, RenameSteps DEF ShownSaved, Typed, Files
<1>6. ASSUME NEW s \in Slots, Serve(s) PROVE ShownSaved'
  <2>1. ASSUME NEW q, ServesFiles(s, q) PROVE ShownSaved'
    <3>1. s \in Underway /\ net[s] \in Requests
      BY <2>1, NetType DEF ServesFiles, Serves
    <3>2. net[s].op = "save" => net[s].content # 0
      BY <3>1, RequestType DEF Meant
    <3> QED
      BY <2>1, <3>1, <3>2, RequestType DEF ServesFiles, ShownSaved, Typed, Files
  <2>2. CASE Wipe(s)
    BY <2>2, WipeServes DEF ShownSaved
  <2>3. CASE Seed(s)
    BY <2>3, SeedServes DEF ShownSaved
  <2> QED
    BY <1>6, <2>1, <2>2, <2>3, ServeKinds
<1>7. ASSUME UNCHANGED <<latest, saved>> PROVE ShownSaved'
  BY <1>7 DEF ShownSaved
<1>8. CASE Open
  BY <1>8, OpenIs DEF ShownSaved
<1>9. ASSUME NEW s \in Slots, NEW p \in Paths, Copy(p, s) PROVE ShownSaved'
  BY <1>9, CopySends DEF Copying, ShownSaved, Typed, Files
<1> QED
  BY <1>1, <1>2, <1>3, <1>4, <1>5, <1>6, <1>7, <1>8, <1>9
  DEF Next, Launch, Flushed, Snapshot, Fail, Dequeue, Reset, Save, vars

Untouched(p) == \A s \in Underway : p \notin FilesOf(net[s])

\* The index lists what is stored, and each request has done to its files what
\* its stage says.
Indexed ==
  /\ \A p \in Known : Untouched(p) => (p \in index <=> store[p] # 0)
  /\ \A s \in Underway : Wild(net[s]) \/ Reached(net[s])
  /\ \A s \in Underway : net[s].op = "reset" =>
       \A p \in Known :
         /\ p \in index <=> store[p] # 0
         /\ net[s].pc = "seed" /\ p \notin Starters => store[p] = 0

\* st is what the store comes to when the requests under way are done.
Comes(st) ==
  /\ \A p \in Paths \ doubt : Untouched(p) => st[p] = store[p]
  /\ \A s \in Underway : Wild(net[s]) \/ WillBe(net[s], st)

\* What a queued operation makes of the files.
Apply(q, st) ==
  [p \in Paths |-> IF p = q.to /\ q.op = "create" THEN q.content
                   ELSE IF p = q.to /\ q.op = "rename" THEN st[q.path]
                   ELSE IF p = q.path THEN 0 ELSE st[p]]

\* W[i] is what the store comes to when the first i queued operations are done too.
Course(W) ==
  /\ W \in [0..Len(queue) -> Files]
  /\ \A i \in 1..Len(queue) : W[i] = Apply(queue[i], W[i - 1])

\* The doubt may spread along the queue: D[i] is in doubt after i operations.
Spread(D) ==
  /\ D \in [0..Len(queue) -> SUBSET Paths]
  /\ doubt \subseteq D[0]
  /\ \A i, j \in 0..Len(queue) : i <= j => D[i] \subseteq D[j]
  /\ \A i \in 1..Len(queue) :
       FilesOf(queue[i]) \cap D[i - 1] # {} => FilesOf(queue[i]) \subseteq D[i]

Calm(p) == \A s \in Underway : p \in FilesOf(net[s]) => net[s].op \notin {"save", "reset"}

\* What is taken for saved is what the store comes to.
Foreseen(W) ==
  \A D : Spread(D) =>
    \A p \in Paths \ D[Len(queue)] :
      Calm(p) /\ p \notin partial => saved[p] = W[Len(queue)][p]

\* A file that no operation further on in the queue is about keeps its content.
Still(W) ==
  \A i \in 0..Len(queue), p \in Paths :
    (\A k \in (i + 1)..Len(queue) : p \notin FilesOf(queue[k])) => W[i][p] = W[Len(queue)][p]

\* Before a save has put its object, the file is stored as it was last saved.
Before ==
  \A s \in Underway :
    /\ net[s].op = "save" /\ net[s].pc = "object" /\ ~Wild(net[s])
    /\ net[s].path \notin partial
    => LET p == net[s].path IN saved[p] = store[p] /\ (p \in index <=> store[p] # 0)

\* A file that is being saved keeps the content to the end.
SavesLast(W) ==
  \A s \in Underway : net[s].op = "save" /\ ~Wild(net[s]) =>
    \A i \in 0..Len(queue) : W[i][net[s].path] = net[s].content

Right(W) == Course(W) /\ Comes(W[0]) /\ SavesLast(W) /\ Foreseen(W) /\ Still(W)

Stored == Indexed /\ Before /\ \E W : Right(W)

LEMMA ApplyType ==
  ASSUME NEW q \in Requests, NEW st \in Files
  PROVE  /\ Apply(q, st) \in Files
         /\ \A p \in Paths \ FilesOf(q) : Apply(q, st)[p] = st[p]
<1>1. \A p \in Paths : Apply(q, st)[p] \in Contents
  BY RequestType, BoundsType DEF Apply, Files
<1>2. \A p \in Paths \ FilesOf(q) : Apply(q, st)[p] = st[p]
  BY FilesType DEF Apply
<1> QED
  BY <1>1, <1>2 DEF Apply, Files

LEMMA ReachedLocal ==
  ASSUME NEW q \in Requests, Reached(q),
         \A p \in FilesOf(q) : store'[p] = store[p] /\ (p \in index' <=> p \in index)
  PROVE  Reached(q)'
BY FilesType DEF Reached

LEMMA WillBeLocal ==
  ASSUME NEW q \in Requests, NEW st, NEW sr, WillBe(q, st),
         \A p \in FilesOf(q) : sr[p] = st[p] /\ store'[p] = store[p]
  PROVE  WillBe(q, sr)'
BY FilesType DEF WillBe

LEMMA SpreadLess ==
  ASSUME NEW D, Spread(D)', doubt \subseteq doubt', UNCHANGED queue
  PROVE  Spread(D)
BY DEF Spread

\* Nothing is said of files in doubt.
LEMMA SpreadLast ==
  ASSUME Typed, NEW D, Spread(D)
  PROVE  doubt \subseteq D[Len(queue)]
BY QueueType DEF Spread

LEMMA QuietStored ==
  ASSUME Stored, UNCHANGED <<net, queue, store, index, saved, doubt, partial>>
  PROVE  Stored'
<1>1. Indexed' /\ Before'
  BY DEF Stored, Indexed, Before, Known, Untouched, Underway, Wild, Reached
<1>2. PICK W : Right(W)
  BY DEF Stored
<1>3. Comes(W[0])'
  BY <1>2 DEF Right, Comes, Untouched, Underway, Wild, WillBe
<1>4. Course(W)' /\ SavesLast(W)' /\ Still(W)'
  BY <1>2 DEF Right, Course, SavesLast, Still, Underway, Wild
<1>5. Foreseen(W)'
  <2>1. \A D : Spread(D)' => Spread(D)
    BY DEF Spread
  <2> QED
    BY <1>2, <2>1 DEF Right, Foreseen, Calm, Underway
<1> QED
  BY <1>1, <1>2, <1>3, <1>4, <1>5 DEF Stored, Right

\* When all files are in doubt, there is nothing to say.
LEMMA AllDoubtful ==
  ASSUME Typed, Typed', Stored, doubt' = Paths, UNCHANGED queue
  PROVE  Stored'
<1>1. \A s \in Underway' : Wild(net[s])'
  <2> TAKE s \in Underway'
  <2>1. net'[s] \in Requests
    BY DEF Typed, Underway
  <2> QED
    BY <2>1, FilesType DEF Wild
<1>2. Indexed' /\ Before'
  BY <1>1 DEF Indexed, Before, Known
<1>3. PICK W : Right(W)
  BY DEF Stored
<1>4. Course(W)' /\ Still(W)'
  BY <1>3 DEF Right, Course, Still
<1>5. Comes(W[0])' /\ SavesLast(W)'
  BY <1>1 DEF Comes, SavesLast
<1>6. Foreseen(W)'
  <2>1. ASSUME NEW D, Spread(D)' PROVE Paths \subseteq D[Len(queue')]
    BY <2>1, QueueType DEF Spread
  <2> QED
    BY <2>1 DEF Foreseen
<1> QED
  BY <1>2, <1>4, <1>5, <1>6 DEF Stored, Right

\* The operation q is queued; what leaves meanwhile is all in doubt.
Joins(q) ==
  /\ q \in Operations /\ queue' = Append(queue, q) /\ saved' = Apply(q, saved)
  /\ doubt \subseteq doubt' /\ doubt' \subseteq Paths
  /\ \A o \in Sent : FilesOf(o) \cap FilesOf(q) # {} =>
       FilesOf(o) \subseteq doubt' /\ FilesOf(q) \subseteq doubt'
  /\ FilesOf(q) \cap partial # {} => FilesOf(q) \subseteq doubt'
  /\ Underway \subseteq Underway' /\ \A t \in Underway : net'[t] = net[t]
  /\ \A t \in Underway' \ Underway :
       FilesOf(net'[t]) \subseteq doubt' /\ net'[t].op # "reset"
  /\ UNCHANGED <<store, index, partial>>

\* The course goes one step further.
LEMMA JoinsStored ==
  ASSUME Typed, Typed', Stored, NEW q, Joins(q)
  PROVE  Stored'
<1> DEFINE n == Len(queue)
<1>1. /\ Len(queue') = n + 1 /\ \A i \in 1..n : queue'[i] = queue[i]
      /\ queue'[n + 1] = q /\ n \in Nat
      /\ doubt \subseteq doubt' /\ doubt' \subseteq Paths
      /\ FilesOf(q) = {q.path, q.to} /\ q \in Requests /\ q \in Operations
  <2>1. q \in Operations /\ queue' = Append(queue, q) /\ queue \in Seq(Operations)
    BY DEF Joins, Typed
  <2>2. q \in Requests /\ FilesOf(q) = {q.path, q.to}
    BY <2>1, OperationType, FilesType DEF Structural
  <2> QED
    BY <2>1, <2>2, AppendProperties, QueueType DEF Joins
<1>2. \A o \in Sent : FilesOf(o) \cap FilesOf(q) # {} =>
        FilesOf(o) \subseteq doubt' /\ FilesOf(q) \subseteq doubt'
  BY DEF Joins
<1>3. Indexed' /\ Before'
  <2>1. /\ Underway \subseteq Underway' /\ \A t \in Underway : net'[t] = net[t]
        /\ \A t \in Underway' \ Underway :
             FilesOf(net'[t]) \subseteq doubt' /\ net'[t].op # "reset"
        /\ UNCHANGED <<store, index, partial>>
    BY DEF Joins
  <2>2. /\ Known' \subseteq Known /\ \A p \in Paths : Untouched(p)' => Untouched(p)
    BY <1>1, <2>1 DEF Known, Untouched
  <2>3. \A t \in Underway : Wild(net[t]) \/ Reached(net[t])
    BY DEF Stored, Indexed
  <2>4. \A t \in Underway' : Wild(net[t])' \/ Reached(net[t])'
    BY <1>1, <2>1, <2>3 DEF Wild, Reached
  <2>5. Indexed'
    BY <2>1, <2>2, <2>4 DEF Stored, Indexed, Known
  <2>6. ASSUME NEW t \in Underway', net'[t].op = "save", net'[t].pc = "object",
               ~(FilesOf(net'[t]) \subseteq doubt'), net'[t].path \notin partial
        PROVE  /\ saved'[net'[t].path] = store[net'[t].path]
               /\ net'[t].path \in index <=> store[net'[t].path] # 0
    <3>1. t \in Underway /\ net'[t] = net[t] /\ ~Wild(net[t])
      BY <1>1, <2>1, <2>6 DEF Wild
    <3>2. PICK p : p = net[t].path
      OBVIOUS
    <3>3. saved[p] = store[p] /\ (p \in index <=> store[p] # 0)
      BY <2>6, <3>1, <3>2 DEF Stored, Before
    <3>4. p \in Paths /\ p \notin FilesOf(q)
      BY <1>2, <2>6, <3>1, <3>2, NetType, RequestType, FilesType DEF Sent
    <3>5. saved' = Apply(q, saved) /\ saved \in Files
      BY DEF Joins, Typed
    <3>6. saved'[p] = saved[p]
      BY <1>1, <3>4, <3>5, ApplyType
    <3> QED
      BY <3>1, <3>2, <3>3, <3>6
  <2>7. Before'
    BY <2>1, <2>6 DEF Before, Wild
  <2> QED
    BY <2>5, <2>7
<1>4. PICK W : Right(W)
  BY DEF Stored
<1>5. W \in [0..n -> Files] /\ W[n] \in Files /\ \A i \in 1..n : W[i] = Apply(queue[i], W[i - 1])
  BY <1>1, <1>4 DEF Right, Course
<1>6. PICK V : V = [i \in 0..(n + 1) |-> IF i = n + 1 THEN Apply(q, W[n]) ELSE W[i]]
  OBVIOUS
<1>7. PICK m \in Nat : m = n
  BY <1>1
<1>8. V[m + 1] = Apply(q, W[m]) /\ \A i \in 0..m : V[i] = W[i]
  BY <1>6, <1>7
<1>9. Course(V)'
  <2>1. V \in [0..(m + 1) -> Files]
    BY <1>1, <1>5, <1>6, <1>7, ApplyType
  <2>2. ASSUME NEW i \in 1..(m + 1) PROVE V[i] = Apply(queue'[i], V[i - 1])
    <3>1. CASE i = m + 1
      BY <1>1, <1>7, <1>8, <3>1
    <3>2. CASE i \in 1..m
      BY <1>1, <1>5, <1>7, <1>8, <3>2
    <3> QED
      BY <1>7, <3>1, <3>2
  <2> QED
    BY <1>1, <1>7, <2>1, <2>2 DEF Course
<1>10. Comes(V[0])'
  <2>1. V[0] = W[0]
    BY <1>7, <1>8
  <2>2. Comes(W[0])'
    <3>1. ASSUME NEW p \in Paths \ doubt', Untouched(p)' PROVE W[0][p] = store'[p]
      <4>1. p \in Paths \ doubt /\ Untouched(p) /\ store' = store
        BY <1>1, <3>1 DEF Joins, Untouched
      <4> QED
        BY <1>4, <4>1 DEF Right, Comes
    <3>2. ASSUME NEW t \in Underway', ~(FilesOf(net'[t]) \subseteq doubt')
          PROVE  WillBe(net[t], W[0])'
      <4>1. t \in Underway /\ net'[t] = net[t] /\ ~Wild(net[t]) /\ store' = store
        BY <1>1, <3>2 DEF Joins, Wild
      <4>2. WillBe(net[t], W[0])
        BY <1>4, <4>1 DEF Right, Comes
      <4> QED
        BY <4>1, <4>2 DEF WillBe
    <3> QED
      BY <3>1, <3>2 DEF Comes, Wild
  <2> QED
    BY <2>1, <2>2
<1>11. SavesLast(V)'
  <2>1. ASSUME NEW s \in Underway, net[s].op = "save", ~(FilesOf(net[s]) \subseteq doubt'),
               NEW i \in 0..(m + 1)
        PROVE  V[i][net[s].path] = net[s].content
    <3>1. net[s] \in Sent /\ net[s] \in Requests /\ net[s].path \in FilesOf(net[s])
          /\ net[s].path \in Paths
      BY NetType, RequestType, FilesType DEF Sent
    <3>2. net[s].path \notin FilesOf(q)
      BY <1>2, <2>1, <3>1
    <3>3. \A j \in 0..m : W[j][net[s].path] = net[s].content
      BY <1>1, <1>4, <1>7, <2>1 DEF Right, SavesLast, Wild
    <3>4. CASE i = m + 1
      BY <1>1, <1>5, <1>7, <1>8, <3>1, <3>2, <3>3, <3>4, ApplyType
    <3>5. CASE i \in 0..m
      BY <1>8, <3>3, <3>5
    <3> QED
      BY <1>7, <3>4, <3>5
  <2>2. ASSUME NEW s \in Underway', ~(FilesOf(net'[s]) \subseteq doubt')
        PROVE  s \in Underway /\ net'[s] = net[s]
    BY <2>2 DEF Joins
  <2> QED
    BY <1>1, <1>7, <2>1, <2>2 DEF SavesLast, Wild
<1>12. ASSUME NEW D, Spread(D)', NEW p \in Paths, p \notin D[m + 1], Calm(p), p \notin partial
       PROVE  saved'[p] = V[m + 1][p]
  <2>1. /\ D \in [0..(m + 1) -> SUBSET Paths] /\ doubt' \subseteq D[0]
        /\ \A i, j \in 0..(m + 1) : i <= j => D[i] \subseteq D[j]
        /\ \A i \in 1..(m + 1) :
             FilesOf(queue'[i]) \cap D[i - 1] # {} => FilesOf(queue'[i]) \subseteq D[i]
    BY <1>1, <1>7, <1>12 DEF Spread
  <2>2. PICK E : E = [i \in 0..m |-> D[i]]
    OBVIOUS
  <2>3. Spread(E)
    <3>1. E \in [0..m -> SUBSET Paths] /\ doubt \subseteq E[0]
      BY <1>1, <1>7, <2>1, <2>2
    <3>2. \A i, j \in 0..m : i <= j => E[i] \subseteq E[j]
      BY <1>7, <2>1, <2>2
    <3>3. ASSUME NEW i \in 1..m, FilesOf(queue[i]) \cap E[i - 1] # {}
          PROVE  FilesOf(queue[i]) \subseteq E[i]
      BY <1>1, <1>7, <2>1, <2>2, <3>3
    <3> QED
      BY <1>7, <3>1, <3>2, <3>3 DEF Spread
  <2>4. \A r \in Paths \ D[m] : Calm(r) /\ r \notin partial => saved[r] = W[m][r]
    BY <1>4, <1>7, <2>2, <2>3 DEF Right, Foreseen
  <2>5. D[m] \subseteq D[m + 1] /\ doubt' \subseteq D[m + 1]
        /\ (FilesOf(q) \cap D[m] # {} => FilesOf(q) \subseteq D[m + 1])
    <3>1. m \in 0..(m + 1) /\ m + 1 \in 0..(m + 1) /\ 0 \in 0..(m + 1) /\ m + 1 \in 1..(m + 1)
          /\ m <= m + 1 /\ 0 <= m + 1 /\ (m + 1) - 1 = m
      BY <1>7
    <3> QED
      BY <1>1, <1>7, <2>1, <3>1
  <2>6. saved'[p] = Apply(q, saved)[p] /\ V[m + 1][p] = Apply(q, W[m])[p]
    BY <1>8 DEF Joins
  <2>7. CASE p \notin FilesOf(q)
    <3>1. p \notin D[m] /\ p \in Paths /\ Calm(p)
      BY <1>12, <2>5
    <3>2. saved[p] = W[m][p]
      BY <1>12, <2>4, <3>1
    <3>3. p # q.path /\ p # q.to
      BY <1>1, <2>7, FilesType
    <3>4. Apply(q, saved)[p] = saved[p] /\ Apply(q, W[m])[p] = W[m][p]
      BY <3>1, <3>3 DEF Apply
    <3> QED
      BY <2>6, <3>2, <3>4
  <2>8. CASE p \in FilesOf(q)
    <3>1. q.path \in Paths \ D[m] /\ q.path \in FilesOf(q) /\ q.path \notin partial
      <4>1. q.path \in Paths \ D[m] /\ q.path \in FilesOf(q)
        BY <1>1, <1>12, <2>5, <2>8, RequestType
      <4>2. FilesOf(q) \cap partial # {} => FilesOf(q) \subseteq doubt'
        BY DEF Joins
      <4> QED
        BY <1>12, <2>5, <2>8, <4>1, <4>2
    <3>2. Calm(q.path)
      <4>1. ASSUME NEW s \in Underway, q.path \in FilesOf(net[s]) PROVE FALSE
        <5>1. net[s] \in Sent /\ FilesOf(net[s]) \cap FilesOf(q) # {}
          BY <3>1, <4>1 DEF Sent
        <5> QED
          BY <1>2, <1>12, <2>5, <2>8, <5>1
      <4> QED
        BY <4>1 DEF Calm
    <3>3. saved[q.path] = W[m][q.path]
      BY <2>4, <3>1, <3>2
    <3>4. p = q.path \/ p = q.to
      BY <1>1, <2>8
    <3>5. q.op \in Structural /\ (q.op # "rename" => q.to = q.path)
      BY <1>1, OperationType, RequestType DEF Meant
    <3> QED
      BY <2>6, <3>3, <3>4, <3>5 DEF Apply, Structural
  <2> QED
    BY <2>7, <2>8
<1>13. Foreseen(V)'
  <2>1. \A p \in Paths : Calm(p)' => Calm(p)
    BY DEF Joins, Calm
  <2>2. partial' = partial
    BY DEF Joins
  <2> QED
    BY <1>1, <1>7, <1>12, <2>1, <2>2 DEF Foreseen
<1>14. Still(V)'
  <2>1. ASSUME NEW i \in 0..(m + 1), NEW p \in Paths,
               \A k \in (i + 1)..(m + 1) : p \notin FilesOf(queue'[k])
        PROVE  V[i][p] = V[m + 1][p]
    <3>1. CASE i = m + 1
      BY <3>1
    <3>2. CASE i \in 0..m
      <4>1. m + 1 \in (i + 1)..(m + 1)
        BY <1>7, <3>2
      <4>2. p \notin FilesOf(q)
        BY <1>1, <1>7, <2>1, <4>1
      <4>3. \A k \in (i + 1)..m : k \in (i + 1)..(m + 1) /\ k \in 1..m
        BY <1>7, <3>2
      <4>4. \A k \in (i + 1)..m : p \notin FilesOf(queue[k])
        BY <1>1, <1>7, <2>1, <4>3
      <4>5. W[i][p] = W[m][p]
        BY <1>4, <1>7, <3>2, <4>4 DEF Right, Still
      <4>6. Apply(q, W[m])[p] = W[m][p]
        BY <1>1, <1>5, <1>7, <4>2, ApplyType
      <4> QED
        BY <1>8, <3>2, <4>5, <4>6
    <3> QED
      BY <1>7, <3>1, <3>2
  <2> QED
    BY <1>1, <1>7, <2>1 DEF Still
<1> QED
  BY <1>3, <1>9, <1>10, <1>11, <1>13, <1>14 DEF Stored, Right

LEMMA QueueStored ==
  ASSUME Typed, Typed', Stored, NEW q \in Operations, Queue(q), saved' = Apply(q, saved),
         UNCHANGED <<net, store, index, partial>>
  PROVE  Stored'
<1>1. /\ queue' = Append(queue, q)
      /\ doubt \cup Meets(q, Sent) \subseteq doubt' /\ doubt' \subseteq Paths
      /\ FilesOf(q) \cap partial # {} => FilesOf(q) \subseteq doubt'
  BY QueueIs DEF Queue
<1>2. \A o \in Sent : FilesOf(o) \cap FilesOf(q) # {} =>
        FilesOf(o) \subseteq doubt' /\ FilesOf(q) \subseteq doubt'
  <2>1. q \in Requests
    BY OperationType
  <2> QED
    BY <1>1, <2>1, MeetsIs, SentType
<1>3. Underway' = Underway
  BY DEF Underway
<1>4. Joins(q)
  BY <1>1, <1>2, <1>3 DEF Joins
<1> QED
  BY <1>4, JoinsStored

LEMMA CopyStored ==
  ASSUME Typed, Typed', Stored, NEW p \in Paths, NEW s, NEW q, NEW copy, Copying(p, s, q, copy)
  PROVE  Stored'
<1>1. /\ q \in Operations /\ q.op = "create" /\ q.path = p /\ q.to = p /\ q.content = Fresh
      /\ First(s) /\ copy \in Requests /\ net' = [net EXCEPT ![s] = copy]
      /\ copy.op = "copy" /\ FilesOf(copy) = {p}
      /\ queue' = Append(queue, q) /\ saved' = [saved EXCEPT ![p] = Fresh]
      /\ doubt \subseteq doubt' /\ doubt' \subseteq Paths /\ p \in doubt'
      /\ \A o \in Sent : p \in FilesOf(o) => FilesOf(o) \subseteq doubt'
      /\ UNCHANGED <<store, index, partial>>
  BY DEF Copying
<1>2. net'[s] = copy /\ Underway' = Underway \cup {s} /\ \A t \in Underway : net'[t] = net[t]
  BY <1>1, SendIs
<1>3. FilesOf(q) = {p}
  BY <1>1, OperationType, FilesType DEF Structural
<1>4. saved' = Apply(q, saved)
  BY <1>1 DEF Apply, Typed, Files
<1>5. Joins(q)
  BY <1>1, <1>2, <1>3, <1>4 DEF Joins
<1> QED
  BY <1>5, JoinsStored

\* A file no request and no queued operation is about is stored as it was saved.
LEMMA AsStored ==
  ASSUME Typed, Stored, NEW p \in Known, \A o \in Sent \cup Queued : p \notin FilesOf(o)
  PROVE  saved[p] = store[p] /\ (p \in index <=> store[p] # 0)
<1> DEFINE n == Len(queue)
<1>1. p \in Paths /\ p \notin doubt /\ p \notin partial
  BY DEF Known
<1>2. \A t \in Underway : p \notin FilesOf(net[t])
  BY DEF Sent
<1>3. n \in Nat /\ \A i \in 1..n : p \notin FilesOf(queue[i]) /\ FilesOf(queue[i]) \subseteq Paths
  BY QueueType, FilesType DEF Queued
<1>4. PICK W : Right(W)
  BY DEF Stored
<1>5. W[0][p] = store[p]
  BY <1>1, <1>2, <1>4 DEF Right, Comes, Untouched
<1>6. W[0][p] = W[n][p]
  <2>1. \A k \in (0 + 1)..n : p \notin FilesOf(queue[k])
    BY <1>3
  <2> QED
    BY <1>1, <1>3, <1>4, <2>1 DEF Right, Still
<1>7. saved[p] = W[n][p]
  <2>1. PICK D : D = [i \in 0..n |-> Paths \ {p}]
    OBVIOUS
  <2>2. doubt \subseteq Paths \ {p} /\ \A i \in 0..n : D[i] = Paths \ {p}
    BY <1>1, <2>1 DEF Typed
  <2>3. \A i \in 1..n : FilesOf(queue[i]) \subseteq Paths \ {p}
    BY <1>3
  <2>4. Spread(D)
    BY <1>3, <2>1, <2>2, <2>3 DEF Spread
  <2>5. Calm(p)
    BY <1>2 DEF Calm
  <2>6. p \notin D[n]
    BY <1>3, <2>2
  <2> QED
    BY <1>1, <1>4, <2>4, <2>5, <2>6 DEF Right, Foreseen
<1>8. p \in index <=> store[p] # 0
  BY <1>2 DEF Stored, Indexed, Untouched
<1> QED
  BY <1>5, <1>6, <1>7, <1>8

\* Saves leave for the files of P, with the contents f.
SavesOf(P, f) ==
  /\ P \subseteq Paths /\ f \in Files
  /\ doubt \subseteq doubt' /\ doubt' \subseteq Paths
  /\ Underway \subseteq Underway' /\ \A t \in Underway : net'[t] = net[t]
  /\ \A t \in Underway' \ Underway :
       /\ net'[t] \in Requests /\ net'[t].op = "save" /\ net'[t].pc = "object"
       /\ net'[t].path \in P /\ FilesOf(net'[t]) = {net'[t].path}
       /\ net'[t].content = f[net'[t].path]
  /\ \A p \in P : \E t \in Underway' \ Underway : net'[t].path = p
  /\ \A p \in P, o \in Sent \cup Queued :
       p \in FilesOf(o) => p \in doubt' /\ FilesOf(o) \subseteq doubt'
  /\ UNCHANGED <<saved, store, index, queue, partial>>

LEMMA ApplyElsewhere ==
  ASSUME NEW q \in Requests, NEW P, NEW f, NEW st, NEW sp, FilesOf(q) \cap P = {},
         \A p \in Paths : sp[p] = IF p \in P THEN f[p] ELSE st[p]
  PROVE  \A p \in Paths : Apply(q, sp)[p] = IF p \in P THEN f[p] ELSE Apply(q, st)[p]
<1>1. q.path \in Paths /\ q.to \in Paths /\ q.path \notin P /\ q.to \notin P
  BY RequestType, FilesType
<1> QED
  BY <1>1 DEF Apply

LEMMA SavesStored ==
  ASSUME Typed, Stored, NEW P, NEW f, SavesOf(P, f)
  PROVE  Stored'
<1> DEFINE n == Len(queue)
<1>1. PICK W : Right(W)
  BY DEF Stored
<1>2. PICK C : C = P \ doubt'
  OBVIOUS
<1>3. PICK V : V = [i \in 0..n |-> [p \in Paths |-> IF p \in C THEN f[p] ELSE W[i][p]]]
  OBVIOUS
<1>4. n \in Nat /\ W \in [0..n -> Files] /\ \A i \in 1..n : W[i] = Apply(queue[i], W[i - 1])
  BY <1>1, QueueType DEF Right, Course
<1>5. ASSUME NEW i \in 0..n
      PROVE  /\ V[i] \in Files
             /\ V[i] = [p \in Paths |-> IF p \in C THEN f[p] ELSE W[i][p]]
             /\ \A p \in C : V[i][p] = f[p]
             /\ \A p \in Paths \ C : V[i][p] = W[i][p]
  BY <1>2, <1>3, <1>4 DEF SavesOf, Files
<1>6. \A o \in Sent \cup Queued : FilesOf(o) \cap C # {} => FilesOf(o) \subseteq doubt' /\ FALSE
  BY <1>2 DEF SavesOf
<1>7. Indexed'
  <2>1. \A t \in Underway' \ Underway : Reached(net[t])'
    BY DEF SavesOf, Reached
  <2>2. \A t \in Underway : Reached(net[t]) => Reached(net[t])'
    BY DEF SavesOf, Reached
  <2>3. \A p \in Paths : Untouched(p)' => Untouched(p)
    BY DEF SavesOf, Untouched
  <2>4. \A t \in Underway' : Wild(net[t])' \/ Reached(net[t])'
    BY <2>1, <2>2 DEF SavesOf, Stored, Indexed, Wild
  <2>5. \A t \in Underway' : net'[t].op = "reset" => t \in Underway /\ net'[t] = net[t]
    BY DEF SavesOf
  <2>6. Known' \subseteq Known /\ Known \subseteq Paths
    BY DEF SavesOf, Known
  <2> QED
    BY <2>3, <2>4, <2>5, <2>6 DEF SavesOf, Stored, Indexed
<1>8. Course(V)'
  <2>1. \A i \in 0..n : V[i] \in Files
    BY <1>5
  <2>2. ASSUME NEW i \in 1..n PROVE V[i] = Apply(queue[i], V[i - 1])
    <3>1. queue[i] \in Requests /\ FilesOf(queue[i]) \cap C = {}
      BY <1>6, QueueType DEF Queued
    <3>2. i \in 0..n /\ i - 1 \in 0..n /\ W[i - 1] \in Files
      BY <1>4
    <3>3. V[i] = [p \in Paths |-> IF p \in C THEN f[p] ELSE Apply(queue[i], W[i - 1])[p]]
      <4>1. V[i] = [p \in Paths |-> IF p \in C THEN f[p] ELSE W[i][p]]
        BY <1>5, <3>2
      <4>2. W[i] = Apply(queue[i], W[i - 1])
        BY <1>4
      <4> QED
        BY <4>1, <4>2
    <3>4. V[i - 1] = [p \in Paths |-> IF p \in C THEN f[p] ELSE W[i - 1][p]]
      BY <1>5, <3>2
    <3>5. \A p \in Paths :
            Apply(queue[i], V[i - 1])[p] = IF p \in C THEN f[p] ELSE Apply(queue[i], W[i - 1])[p]
      <4>1. \A p \in Paths : V[i - 1][p] = IF p \in C THEN f[p] ELSE W[i - 1][p]
        BY <3>4
      <4>2. PICK q, v, w : q = queue[i] /\ v = V[i - 1] /\ w = W[i - 1]
        OBVIOUS
      <4>3. q \in Requests /\ FilesOf(q) \cap C = {}
        BY <3>1, <4>2
      <4>4. \A p \in Paths : v[p] = IF p \in C THEN f[p] ELSE w[p]
        BY <4>1, <4>2
      <4>5. \A p \in Paths : Apply(q, v)[p] = IF p \in C THEN f[p] ELSE Apply(q, w)[p]
        BY <4>3, <4>4, ApplyElsewhere
      <4> QED
        BY <4>2, <4>5
    <3>6. Apply(queue[i], V[i - 1]) = [p \in Paths |-> Apply(queue[i], V[i - 1])[p]]
      BY DEF Apply
    <3> QED
      BY <3>3, <3>5, <3>6
  <2> QED
    BY <1>3, <2>1, <2>2 DEF SavesOf, Course
<1>9. Comes(V[0])'
  <2>0. 0 \in 0..n
    BY <1>4
  <2>1. ASSUME NEW p \in Paths \ doubt', Untouched(p)' PROVE V[0][p] = store'[p]
    <3>1. p \notin P
      <4>1. ASSUME p \in P PROVE FALSE
        <5>1. PICK t \in Underway' \ Underway : net'[t].path = p
          BY <4>1 DEF SavesOf
        <5> QED
          BY <2>1, <5>1 DEF SavesOf, Untouched
      <4> QED
        BY <4>1
    <3>2. Untouched(p) /\ p \notin doubt
      BY <2>1 DEF SavesOf, Untouched
    <3>3. W[0][p] = store[p]
      BY <1>1, <3>2 DEF Right, Comes
    <3>4. V[0][p] = W[0][p]
      BY <1>2, <1>5, <2>0, <3>1
    <3> QED
      BY <3>3, <3>4 DEF SavesOf
  <2>2. ASSUME NEW t \in Underway, ~(FilesOf(net[t]) \subseteq doubt')
        PROVE  WillBe(net[t], V[0])'
    <3>1. net[t] \in Sent /\ net[t] \in Requests /\ FilesOf(net[t]) \subseteq Paths
      BY NetType, FilesType DEF Sent
    <3>2. FilesOf(net[t]) \cap C = {}
      BY <1>6, <3>1
    <3>3. WillBe(net[t], W[0])
      <4>1. ~Wild(net[t])
        BY <2>2 DEF SavesOf, Wild
      <4> QED
        BY <1>1, <2>2, <4>1 DEF Right, Comes
    <3>4. \A p \in FilesOf(net[t]) : V[0][p] = W[0][p] /\ store'[p] = store[p]
      <4>1. store' = store
        BY DEF SavesOf
      <4>2. ASSUME NEW p \in FilesOf(net[t]) PROVE V[0][p] = W[0][p]
        <5>1. p \in Paths /\ p \notin C
          BY <3>1, <3>2, <4>2
        <5> QED
          BY <1>5, <2>0, <5>1
      <4> QED
        BY <4>1, <4>2
    <3>5. PICK o : o = net[t]
      OBVIOUS
    <3>6. WillBe(o, V[0])'
      BY <3>1, <3>3, <3>4, <3>5, WillBeLocal
    <3>7. o = net'[t]
      BY <3>5 DEF SavesOf
    <3> QED
      BY <3>6, <3>7
  <2>3. ASSUME NEW t \in Underway' \ Underway, ~(FilesOf(net'[t]) \subseteq doubt')
        PROVE  WillBe(net[t], V[0])'
    <3>1. net'[t].path \in C /\ net'[t].content = f[net'[t].path] /\ net'[t].op = "save"
      BY <1>2, <2>3 DEF SavesOf
    <3> QED
      BY <1>5, <2>0, <3>1 DEF WillBe
  <2> QED
    BY <2>1, <2>2, <2>3 DEF Comes, Wild, SavesOf
<1>10. SavesLast(V)'
  <2>1. ASSUME NEW t \in Underway', net'[t].op = "save", ~(FilesOf(net'[t]) \subseteq doubt'),
               NEW i \in 0..n
        PROVE  V[i][net'[t].path] = net'[t].content
    <3>1. CASE t \in Underway
      <4>1. net'[t] = net[t] /\ net[t] \in Sent /\ net[t] \in Requests
            /\ net[t].path \in FilesOf(net[t]) /\ net[t].path \in Paths
        BY <3>1, NetType, FilesType, RequestType DEF Sent, SavesOf
      <4>2. net[t].path \notin C
        BY <1>6, <4>1
      <4>3. W[i][net[t].path] = net[t].content
        <5>1. ~Wild(net[t])
          BY <2>1, <4>1 DEF Wild, SavesOf
        <5>2. net[t].op = "save" /\ i \in 0..Len(queue)
          BY <2>1, <4>1
        <5> QED
          BY <1>1, <3>1, <5>1, <5>2 DEF Right, SavesLast
      <4>4. PICK p : p = net[t].path
        OBVIOUS
      <4>5. p \in Paths /\ p \notin C /\ W[i][p] = net[t].content
        BY <4>1, <4>2, <4>3, <4>4
      <4>6. V[i][p] = W[i][p]
        BY <1>5, <2>1, <4>5
      <4> QED
        BY <4>1, <4>4, <4>5, <4>6
    <3>2. CASE t \notin Underway
      <4>1. /\ net'[t].path \in P /\ FilesOf(net'[t]) = {net'[t].path}
            /\ net'[t].content = f[net'[t].path]
        BY <2>1, <3>2 DEF SavesOf
      <4>2. net'[t].path \in C
        BY <1>2, <2>1, <4>1
      <4> QED
        BY <1>5, <2>1, <4>1, <4>2
    <3> QED
      BY <3>1, <3>2
  <2> QED
    BY <2>1 DEF SavesLast, Wild, SavesOf
<1>11. Foreseen(V)'
  <2>1. ASSUME NEW D, Spread(D)', NEW p \in Paths, p \notin D[n], Calm(p)', p \notin partial
        PROVE  saved'[p] = V[n][p]
    <3>1. Spread(D)
      BY <2>1, SpreadLess DEF SavesOf
    <3>2. Calm(p)
      BY <2>1 DEF Calm, SavesOf
    <3>3. n \in 0..n /\ p \notin doubt'
      BY <1>4, <2>1 DEF Spread, SavesOf
    <3>4. p \notin P
      <4>1. ASSUME p \in P PROVE FALSE
        <5>1. PICK t \in Underway' \ Underway : net'[t].path = p
          BY <4>1 DEF SavesOf
        <5> QED
          BY <2>1, <5>1 DEF SavesOf, Calm
      <4> QED
        BY <4>1
    <3>5. saved[p] = W[n][p]
      <4>1. Foreseen(W)
        BY <1>1 DEF Right
      <4> QED
        BY <2>1, <3>1, <3>2, <4>1 DEF Foreseen
    <3>6. V[n][p] = W[n][p]
      BY <1>2, <1>5, <2>1, <3>3, <3>4
    <3> QED
      BY <3>5, <3>6 DEF SavesOf
  <2> QED
    BY <2>1 DEF Foreseen, SavesOf
<1>12. Still(V)'
  <2>1. ASSUME NEW i \in 0..n, NEW p \in Paths,
               \A k \in (i + 1)..n : p \notin FilesOf(queue[k])
        PROVE  V[i][p] = V[n][p]
    <3>1. n \in 0..n
      BY <1>4
    <3>2. CASE p \in C
      BY <1>5, <3>1, <3>2
    <3>3. CASE p \notin C
      <4>1. W[i][p] = W[n][p]
        BY <1>1, <2>1 DEF Right, Still
      <4> QED
        BY <1>5, <3>1, <3>3, <4>1
    <3> QED
      BY <3>2, <3>3
  <2> QED
    BY <2>1 DEF Still, SavesOf
<1>13. Before'
  <2>1. ASSUME NEW t \in Underway', net'[t].op = "save", net'[t].pc = "object",
               ~(FilesOf(net'[t]) \subseteq doubt'), net'[t].path \notin partial
        PROVE  /\ saved[net'[t].path] = store[net'[t].path]
               /\ net'[t].path \in index <=> store[net'[t].path] # 0
    <3>1. CASE t \in Underway
      BY <2>1, <3>1 DEF SavesOf, Stored, Before, Wild
    <3>2. CASE t \notin Underway
      <4>1. PICK p : p = net'[t].path
        OBVIOUS
      <4>2. p \in P /\ p \in Paths /\ p \notin doubt' /\ p \notin doubt /\ p \notin partial
        BY <2>1, <3>2, <4>1 DEF SavesOf
      <4>3. \A o \in Sent \cup Queued : p \notin FilesOf(o)
        BY <4>2 DEF SavesOf
      <4>4. p \in Known
        BY <4>2 DEF Known
      <4>5. saved[p] = store[p] /\ (p \in index <=> store[p] # 0)
        BY <4>3, <4>4, AsStored
      <4> QED
        BY <4>1, <4>5
    <3> QED
      BY <3>1, <3>2
  <2> QED
    BY <2>1 DEF Before, Wild, SavesOf
<1> QED
  BY <1>7, <1>8, <1>9, <1>10, <1>11, <1>12, <1>13 DEF Stored, Right

LEMMA SaveStored ==
  ASSUME Typed, Stored, NEW p \in Paths, NEW s, Save(p, s)
  PROVE  Stored'
<1>1. PICK q : Saving(q, p, s)
  BY SaveSends
<1>2. /\ First(s) /\ net' = [net EXCEPT ![s] = q] /\ q \in Requests
      /\ q.op = "save" /\ q.path = p /\ q.content = timer[p]
      /\ q.pc = "object" /\ FilesOf(q) = {p}
      /\ doubt' = doubt \cup Meets(q, Sent \cup Queued) /\ doubt' \subseteq Paths
      /\ UNCHANGED <<saved, store, index, queue, partial>>
  BY <1>1 DEF Saving
<1>3. /\ s \notin Underway /\ net'[s] = q /\ \A t \in Underway : net'[t] = net[t]
      /\ Underway' = Underway \cup {s}
  BY <1>2, SendIs
<1>4. \A o \in Sent \cup Queued : p \in FilesOf(o) => p \in doubt' /\ FilesOf(o) \subseteq doubt'
  <2>1. Sent \cup Queued \subseteq Requests
    BY SentType, QueueType
  <2>2. \A o \in Sent \cup Queued : FilesOf(o) \cap FilesOf(q) # {} =>
          FilesOf(o) \subseteq doubt' /\ FilesOf(q) \subseteq doubt'
    BY <1>2, <2>1, SendsAlone
  <2> QED
    BY <1>2, <2>2
<1>5. PICK f : f = timer
  OBVIOUS
<1>6. {p} \subseteq Paths /\ f \in Files /\ q.content = f[p]
  BY <1>2, <1>5 DEF Typed
<1>7. \A t \in Underway' \ Underway : net'[t] = q
  BY <1>3, SMT
<1>8. SavesOf({p}, f)
  BY <1>2, <1>3, <1>4, <1>6, <1>7 DEF SavesOf
<1> QED
  BY <1>8, SavesStored

LEMMA LaunchStored ==
  ASSUME Typed, Stored, Launch
  PROVE  Stored'
<1>1. PICK to : Sends(to)
  BY LaunchSends
<1>2. /\ \A s \in Underway : net'[s] = net[s]
      /\ \A p \in Unsaved : to[p] \in Slots \ Underway /\ net'[to[p]] \in Requests
      /\ Underway' = Underway \cup {to[p] : p \in Unsaved}
      /\ doubt' = doubt \cup UNION {Meets(SaveOf(p, latest[p]), Sent \cup Queued) : p \in Unsaved}
      /\ doubt' \subseteq Paths
      /\ UNCHANGED <<saved, store, index, queue, partial>>
  <2>1. Sending(to)
    BY <1>1, SendsIs
  <2> QED
    BY <2>1 DEF Sending
<1>3. ASSUME NEW p \in Unsaved
      PROVE  /\ net'[to[p]] \in Requests /\ FilesOf(net'[to[p]]) = {p}
             /\ net'[to[p]].op = "save" /\ net'[to[p]].pc = "object"
             /\ net'[to[p]].path = p /\ net'[to[p]].content = latest[p]
             /\ \A o \in Sent \cup Queued :
                  p \in FilesOf(o) => p \in doubt' /\ FilesOf(o) \subseteq doubt'
  <2>1. PICK q : q = SaveOf(p, latest[p])
    OBVIOUS
  <2>2. /\ q \in Requests /\ q.op = "save" /\ q.pc = "object" /\ FilesOf(q) = {p}
        /\ q.path = p /\ q.content = latest[p]
    BY <2>1, UnsavedType, SaveIs, FilesType
  <2>3. \A o \in Sent \cup Queued : p \in FilesOf(o) =>
          FilesOf(o) \subseteq Meets(q, Sent \cup Queued) /\ p \in Meets(q, Sent \cup Queued)
    BY <2>2, MeetsIs, SentType, QueueType
  <2>4. Meets(q, Sent \cup Queued) \subseteq doubt'
    BY <1>2, <2>1
  <2>5. net'[to[p]] = q
    BY <1>1, <2>1 DEF Sends
  <2> QED
    BY <2>2, <2>3, <2>4, <2>5
<1>4. PICK P, f : P = Unsaved /\ f = latest
  OBVIOUS
<1>5. P \subseteq Paths /\ f \in Files /\ doubt \subseteq doubt'
  BY <1>2, <1>4, UnsavedType DEF Typed
<1>6. \A t \in Underway' \ Underway : \E p \in P : t = to[p]
  BY <1>2, <1>4
<1>7. \A p \in P : to[p] \in Underway' \ Underway
  BY <1>2, <1>4
<1>8. ASSUME NEW t \in Underway' \ Underway
      PROVE  /\ net'[t] \in Requests /\ net'[t].op = "save" /\ net'[t].pc = "object"
             /\ net'[t].path \in P /\ FilesOf(net'[t]) = {net'[t].path}
             /\ net'[t].content = f[net'[t].path]
  <2>1. PICK p \in Unsaved : t = to[p]
    BY <1>4, <1>6
  <2> QED
    BY <1>3, <1>4, <2>1
<1>9. \A p \in P : \E t \in Underway' \ Underway : net'[t].path = p
  BY <1>3, <1>4, <1>7
<1>10. \A p \in P, o \in Sent \cup Queued :
         p \in FilesOf(o) => p \in doubt' /\ FilesOf(o) \subseteq doubt'
  BY <1>3, <1>4
<1>11. SavesOf(P, f)
  BY <1>2, <1>5, <1>8, <1>9, <1>10 DEF SavesOf
<1> QED
  BY <1>11, SavesStored

\* The first operation leaves the queue: the course begins with what it makes
\* of the files.
LEMMA DequeueStored ==
  ASSUME Typed, Stored, NEW s, Dequeue(s)
  PROVE  Stored'
<1>1. PICK q : q = queue[1]
  OBVIOUS
<1>2. PICK m : m = Len(queue')
  OBVIOUS
<1>3. /\ First(s) /\ net' = [net EXCEPT ![s] = q] /\ q \in Requests /\ q \in Operations
      /\ q.op \in {"create", "delete", "rename"} /\ FilesOf(q) = {q.path, q.to}
      /\ m \in Nat /\ Len(queue) = m + 1
      /\ \A i \in 1..m : queue'[i] = queue[i + 1]
      /\ doubt' = doubt \cup Meets(q, Sent) /\ doubt' \subseteq Paths
      /\ UNCHANGED <<saved, store, index, partial>>
  BY <1>1, <1>2, DequeueSends DEF Structural
<1>4. /\ s \notin Underway /\ net'[s] = q /\ \A t \in Underway : net'[t] = net[t]
      /\ Underway' = Underway \cup {s} /\ doubt \subseteq doubt'
  BY <1>3, SendIs
<1>5. /\ \A o \in Sent : FilesOf(o) \cap FilesOf(q) # {} =>
           FilesOf(o) \subseteq doubt' /\ FilesOf(q) \subseteq doubt'
      /\ FilesOf(q) \cap doubt # {} => FilesOf(q) \subseteq doubt'
  BY <1>3, SendsAlone, SentType
<1>6. /\ q.op = "create" => q.pc = "object"
      /\ q.op = "delete" => q.pc = "remove"
      /\ q.op = "rename" => q.pc = "get" /\ q.to # q.path
      /\ q.op # "rename" => q.to = q.path
      /\ q.path \in Paths /\ q.to \in Paths
  BY <1>3, OperationType, RequestType DEF Waiting, Meant
<1>7. PICK W : Right(W)
  BY DEF Stored
<1>8. /\ W \in [0..(m + 1) -> Files] /\ \A i \in 1..(m + 1) : W[i] = Apply(queue[i], W[i - 1])
      /\ W[0] \in Files /\ W[1] = Apply(q, W[0]) /\ W[1] \in Files
  <2>1. 0 \in 0..(m + 1) /\ 1 \in 1..(m + 1) /\ 1 \in 0..(m + 1) /\ 1 - 1 = 0
    BY <1>3
  <2> QED
    BY <1>1, <1>3, <1>7, <2>1 DEF Right, Course
<1>9. PICK V : V = [i \in 0..m |-> W[i + 1]]
  OBVIOUS
<1>10. V[0] = W[1] /\ \A p \in Paths \ FilesOf(q) : W[1][p] = W[0][p]
  BY <1>3, <1>8, <1>9, ApplyType
<1>11. Indexed' /\ Before'
  <2>1. Reached(q)'
    BY <1>3, <1>6 DEF Reached
  <2>2. \A t \in Underway : Reached(net[t]) => Reached(net[t])'
    BY <1>3, <1>4 DEF Reached
  <2>3. \A t \in Underway' : Wild(net[t])' \/ Reached(net[t])'
    BY <1>4, <2>1, <2>2 DEF Stored, Indexed, Wild
  <2>4. \A p \in Paths : Untouched(p)' => Untouched(p)
    BY <1>4 DEF Untouched
  <2>5. \A t \in Underway' :
          net'[t].op \in {"save", "reset"} => t \in Underway /\ net'[t] = net[t]
    BY <1>3, <1>4
  <2>6. Known' \subseteq Known /\ Known \subseteq Paths
    BY <1>3, <1>4 DEF Known
  <2>7. Indexed'
    BY <1>3, <2>3, <2>4, <2>5, <2>6 DEF Stored, Indexed
  <2>8. Before'
    BY <1>3, <1>4, <2>5 DEF Stored, Before, Wild
  <2> QED
    BY <2>7, <2>8
<1>12. Course(V)'
  <2>1. V \in [0..m -> Files]
    BY <1>3, <1>8, <1>9
  <2>2. ASSUME NEW i \in 1..m PROVE V[i] = Apply(queue'[i], V[i - 1])
    <3>1. i \in 0..m /\ i - 1 \in 0..m /\ i + 1 \in 1..(m + 1) /\ (i + 1) - 1 = (i - 1) + 1
      BY <1>3
    <3> QED
      BY <1>3, <1>8, <1>9, <3>1
  <2> QED
    BY <1>2, <2>1, <2>2 DEF Course
<1>13. Comes(V[0])'
  <2>1. ASSUME NEW p \in Paths \ doubt', Untouched(p)' PROVE V[0][p] = store'[p]
    <3>1. p \notin FilesOf(q) /\ Untouched(p)
      BY <1>4, <2>1 DEF Untouched
    <3> QED
      BY <1>3, <1>4, <1>7, <1>10, <2>1, <3>1 DEF Right, Comes
  <2>2. ASSUME NEW t \in Underway, ~(FilesOf(net[t]) \subseteq doubt')
        PROVE  WillBe(net[t], V[0])'
    <3>1. net[t] \in Sent /\ net[t] \in Requests /\ FilesOf(net[t]) \subseteq Paths
      BY NetType, FilesType DEF Sent
    <3>2. FilesOf(net[t]) \cap FilesOf(q) = {}
      BY <1>5, <2>2, <3>1
    <3>3. WillBe(net[t], W[0])
      BY <1>4, <1>7, <2>2 DEF Right, Comes, Wild
    <3>4. \A p \in FilesOf(net[t]) : V[0][p] = W[0][p] /\ store'[p] = store[p]
      BY <1>3, <1>10, <3>1, <3>2
    <3>5. PICK o : o = net[t]
      OBVIOUS
    <3>6. WillBe(o, V[0])'
      BY <3>1, <3>3, <3>4, <3>5, WillBeLocal
    <3>7. o = net'[t]
      BY <1>4, <3>5
    <3> QED
      BY <3>6, <3>7
  <2>3. ASSUME ~(FilesOf(q) \subseteq doubt') PROVE WillBe(q, V[0])'
    <3>1. Untouched(q.path) /\ q.path \notin doubt
      <4>1. \A t \in Underway : net[t] \in Sent
        BY DEF Sent
      <4> QED
        BY <1>3, <1>5, <2>3, <4>1 DEF Untouched
    <3>2. W[0][q.path] = store[q.path]
      BY <1>6, <1>7, <3>1 DEF Right, Comes
    <3> QED
      BY <1>3, <1>6, <1>8, <1>10, <3>2 DEF WillBe, Apply
  <2> QED
    BY <1>4, <2>1, <2>2, <2>3 DEF Comes, Wild
<1>14. SavesLast(V)'
  <2>1. ASSUME NEW t \in Underway', net'[t].op = "save", ~(FilesOf(net'[t]) \subseteq doubt'),
               NEW i \in 0..m
        PROVE  V[i][net'[t].path] = net'[t].content
    <3>1. t \in Underway /\ net'[t] = net[t] /\ ~Wild(net[t])
      BY <1>3, <1>4, <2>1 DEF Wild
    <3>2. i + 1 \in 0..(m + 1)
      BY <1>3
    <3>3. W[i + 1][net[t].path] = net[t].content
      BY <1>3, <1>7, <2>1, <3>1, <3>2 DEF Right, SavesLast
    <3> QED
      BY <1>9, <3>1, <3>3
  <2> QED
    BY <1>2, <2>1 DEF SavesLast, Wild
<1>15. Foreseen(V)'
  <2>1. ASSUME NEW D, Spread(D)', NEW p \in Paths, p \notin D[m], Calm(p)', p \notin partial
        PROVE  saved'[p] = V[m][p]
    <3>1. /\ D \in [0..m -> SUBSET Paths] /\ doubt' \subseteq D[0]
          /\ \A i, j \in 0..m : i <= j => D[i] \subseteq D[j]
          /\ \A i \in 1..m :
               FilesOf(queue'[i]) \cap D[i - 1] # {} => FilesOf(queue'[i]) \subseteq D[i]
      BY <1>2, <2>1 DEF Spread
    <3>2. PICK E : E = [i \in 0..(m + 1) |-> IF i = 0 THEN doubt ELSE D[i - 1]]
      OBVIOUS
    <3>3. E[0] = doubt /\ \A i \in 1..(m + 1) : i - 1 \in 0..m /\ E[i] = D[i - 1]
      BY <1>3, <3>2
    <3>4. \A j \in 0..m : doubt' \subseteq D[j]
      BY <1>3, <3>1
    <3>5. Spread(E)
      <4>1. E \in [0..(m + 1) -> SUBSET Paths]
        BY <1>3, <3>1, <3>2 DEF Typed
      <4>2. ASSUME NEW i \in 0..(m + 1), NEW j \in 0..(m + 1), i <= j
            PROVE  E[i] \subseteq E[j]
        <5>1. CASE i = 0 /\ j = 0
          BY <5>1
        <5>2. CASE i = 0 /\ j # 0
          BY <1>3, <1>4, <3>3, <3>4, <4>2, <5>2
        <5>3. CASE i # 0
          BY <1>3, <3>1, <3>3, <4>2, <5>3
        <5> QED
          BY <5>1, <5>2, <5>3
      <4>3. ASSUME NEW i \in 1..(m + 1), FilesOf(queue[i]) \cap E[i - 1] # {}
            PROVE  FilesOf(queue[i]) \subseteq E[i]
        <5>1. CASE i = 1
          <6>1. FilesOf(q) \subseteq doubt' /\ E[1] = D[0]
            BY <1>1, <1>3, <1>5, <3>3, <4>3, <5>1
          <6> QED
            BY <1>1, <3>1, <5>1, <6>1
        <5>2. CASE i # 1
          <6>1. /\ i - 1 \in 1..m /\ i - 1 \in 1..(m + 1) /\ i - 1 \in 0..m
                /\ queue'[i - 1] = queue[i]
            BY <1>3, <5>2
          <6>2. E[i] = D[i - 1] /\ E[i - 1] = D[(i - 1) - 1]
            BY <3>3, <6>1
          <6> QED
            BY <3>1, <4>3, <6>1, <6>2
        <5> QED
          BY <5>1, <5>2
      <4> QED
        BY <1>3, <3>3, <4>1, <4>2, <4>3 DEF Spread
    <3>6. E[m + 1] = D[m] /\ V[m] = W[m + 1]
      BY <1>3, <1>9, <3>3
    <3>7. Calm(p)
      BY <1>4, <2>1 DEF Calm
    <3>8. saved[p] = W[m + 1][p]
      BY <1>3, <1>7, <2>1, <3>5, <3>6, <3>7 DEF Right, Foreseen
    <3> QED
      BY <1>3, <3>6, <3>8
  <2> QED
    BY <1>2, <1>3, <2>1 DEF Foreseen
<1>16. Still(V)'
  <2>1. ASSUME NEW i \in 0..m, NEW p \in Paths,
               \A k \in (i + 1)..m : p \notin FilesOf(queue'[k])
        PROVE  V[i][p] = V[m][p]
    <3>1. i + 1 \in 0..(m + 1) /\ V[i] = W[i + 1] /\ V[m] = W[m + 1]
      BY <1>3, <1>9
    <3>2. ASSUME NEW k \in ((i + 1) + 1)..(m + 1) PROVE p \notin FilesOf(queue[k])
      <4>1. k - 1 \in (i + 1)..m /\ k - 1 \in 1..m /\ (k - 1) + 1 = k
        BY <1>3, <3>2
      <4>2. queue'[k - 1] = queue[k]
        BY <1>3, <4>1
      <4> QED
        BY <2>1, <4>1, <4>2
    <3>3. W[i + 1][p] = W[m + 1][p]
      BY <1>3, <1>7, <3>1, <3>2 DEF Right, Still
    <3> QED
      BY <3>1, <3>3
  <2> QED
    BY <1>2, <2>1 DEF Still
<1> QED
  BY <1>11, <1>12, <1>13, <1>14, <1>15, <1>16 DEF Stored, Right

LEMMA ResetStored ==
  ASSUME Typed, Typed', Stored, NEW s, Reset(s)
  PROVE  Stored'
<1>1. PICK q \in Requests :
        /\ First(s) /\ net' = [net EXCEPT ![s] = q]
        /\ q.op = "reset" /\ q.pc = "wipe" /\ FilesOf(q) = Paths
        /\ doubt' = (IF Sent \cup Queued = {} THEN doubt ELSE Paths)
        /\ UNCHANGED <<saved, queue, store, index, partial>>
  BY ResetSends
<1>2. /\ s \notin Underway /\ net'[s] = q /\ Underway' = Underway \cup {s}
  BY <1>1, SendIs
<1>3. CASE doubt' = Paths
  BY <1>1, <1>3, AllDoubtful
<1>4. CASE Sent \cup Queued = {}
  <2>1. Underway = {} /\ Underway' = {s} /\ doubt' = doubt
    BY <1>1, <1>2, <1>4 DEF Sent
  <2>2. Known' = Known /\ \A p \in Known : p \in index <=> store[p] # 0
    BY <1>1, <2>1 DEF Stored, Indexed, Untouched, Known
  <2>3. Indexed' /\ Before'
    BY <1>1, <1>2, <2>1, <2>2 DEF Indexed, Before, Untouched, Reached
  <2>4. PICK W : Right(W)
    BY DEF Stored
  <2>5. Course(W)' /\ Still(W)'
    BY <1>1, <2>4 DEF Right, Course, Still
  <2>6. Comes(W[0])' /\ SavesLast(W)' /\ Foreseen(W)'
    BY <1>1, <1>2, <2>1 DEF Comes, WillBe, SavesLast, Foreseen, Calm, Untouched
  <2> QED
    BY <2>3, <2>4, <2>5, <2>6 DEF Stored, Right
<1> QED
  BY <1>1, <1>3, <1>4

\* A request about its files goes on, or is answered.
LEMMA ServeStored ==
  ASSUME Typed, Typed', Structure, Stored, NEW s, NEW q,
         ServesFiles(s, q), Reached(net[s]) => Advances(s, q)
  PROVE  Stored'
<1>1. PICK o : o = net[s]
  OBVIOUS
<1>2. /\ s \in Underway /\ o \in Requests /\ q \in Requests \cup {Free} /\ o.op # "reset"
      /\ net' = [net EXCEPT ![s] = q] /\ UNCHANGED <<queue, doubt>>
      /\ q # Free => /\ q.op = o.op /\ q.path = o.path /\ q.to = o.to /\ q.here = o.here
      /\ \A p \in Paths \ FilesOf(o) : store'[p] = store[p] /\ (p \in index' <=> p \in index)
      /\ saved' = IF q = Free /\ o.op = "save" /\ o.here
                  THEN [saved EXCEPT ![o.path] = o.content] ELSE saved
      /\ partial' = IF q = Free /\ o.op = "save" /\ o.here
                    THEN partial \ {o.path} ELSE partial
      /\ q # Free => q.pc # "object" \/ q.op = "rename"
      /\ FilesOf(o) = {o.path, o.to} /\ o.path \in Paths /\ o.to \in Paths
      /\ o.op = "save" => o.to = o.path
  <2>1. ServesFiles(s, q) /\ Serves(s, q) /\ s \in Underway
    BY DEF ServesFiles, Serves
  <2>2. o \in Requests /\ o.op # "reset"
    BY <1>1, <2>1, NetType DEF ServesFiles
  <2>3. /\ FilesOf(o) = {o.path, o.to} /\ o.path \in Paths /\ o.to \in Paths
        /\ o.op = "save" => o.to = o.path
    BY <2>2, FilesType, RequestType DEF Meant
  <2>4. /\ q \in Requests \cup {Free} /\ net' = [net EXCEPT ![s] = q]
        /\ UNCHANGED <<queue, doubt>>
        /\ q # Free => /\ q.op = o.op /\ q.path = o.path /\ q.to = o.to /\ q.here = o.here
    BY <1>1, <2>1 DEF Serves
  <2>5. /\ \A p \in Paths \ FilesOf(o) : store'[p] = store[p] /\ (p \in index' <=> p \in index)
        /\ saved' = IF q = Free /\ o.op = "save" /\ o.here
                    THEN [saved EXCEPT ![o.path] = o.content] ELSE saved
        /\ partial' = IF q = Free /\ o.op = "save" /\ o.here
                      THEN partial \ {o.path} ELSE partial
        /\ q # Free => q.pc # "object" \/ q.op = "rename"
    BY <1>1, <2>1 DEF ServesFiles
  <2> QED
    BY <2>1, <2>2, <2>3, <2>4, <2>5
<1>3. /\ net'[s] = q /\ \A t \in Underway \ {s} : net'[t] = net[t]
      /\ Underway' \subseteq Underway
      /\ s \in Underway' <=> q # Free
      /\ \A t \in Underway \ {s} : t \in Underway'
  BY ServesSlot DEF ServesFiles
<1>4. q # Free => FilesOf(q) = FilesOf(o)
  BY <1>2 DEF FilesOf
<1>5. \A t \in Underway : /\ net[t] \in Requests /\ FilesOf(net[t]) \subseteq Paths
                          /\ FilesOf(net[t]) # {}
                          /\ net[t].op = "reset" => FilesOf(net[t]) = Paths
                          /\ net[t].path \in FilesOf(net[t])
  BY NetType, FilesType
<1>6. ASSUME NEW t \in Underway \ {s}, ~Wild(net[t])
      PROVE  /\ FilesOf(net[t]) \cap FilesOf(o) = {} /\ net[t].op # "reset"
             /\ \A p \in FilesOf(net[t]) : store'[p] = store[p] /\ (p \in index' <=> p \in index)
  <2>1. FilesOf(net[t]) \cap FilesOf(o) = {}
    BY <1>1, <1>2, <1>6 DEF Structure, Apart
  <2> QED
    BY <1>2, <1>5, <2>1
<1>7. ~Wild(o) => Advances(s, q)
  BY <1>1, <1>2 DEF Stored, Indexed
<1>8. ASSUME NEW p \in Paths \ doubt, p \in FilesOf(o)
      PROVE  /\ ~Wild(o) /\ \A t \in Underway \ {s} : p \notin FilesOf(net[t])
  BY <1>1, <1>2, <1>8 DEF Structure, Apart, Wild
<1>9. \A p \in Paths \ doubt : Untouched(p)' => Untouched(p) \/ (p \in FilesOf(o) /\ q = Free)
  BY <1>1, <1>2, <1>3, <1>4 DEF Untouched
<1>10. Indexed'
  <2>0. /\ Known' \subseteq Paths \ doubt
        /\ \A p \in Known' : p \in Known \/ p \in FilesOf(o)
    BY <1>2 DEF Known
  <2>1. ASSUME NEW p \in Known', Untouched(p)' PROVE p \in index' <=> store'[p] # 0
    <3>1. CASE p \in FilesOf(o) /\ q = Free
      BY <1>1, <1>7, <1>8, <2>0, <3>1 DEF Advances
    <3>2. CASE Untouched(p)
      <4>1. p \notin FilesOf(o) /\ p \in Known /\ p \in Paths
        BY <1>1, <1>2, <2>0, <3>2 DEF Untouched
      <4> QED
        BY <1>2, <3>2, <4>1 DEF Stored, Indexed
    <3> QED
      BY <1>9, <2>0, <2>1, <3>1, <3>2
  <2>2. ASSUME NEW t \in Underway', ~Wild(net[t])' PROVE Reached(net[t])'
    <3>1. CASE t = s
      <4>1. q # Free /\ ~Wild(o)
        BY <1>2, <1>3, <1>4, <2>2, <3>1 DEF Wild
      <4> QED
        BY <1>3, <1>7, <3>1, <4>1 DEF Advances
    <3>2. CASE t # s
      <4>1. t \in Underway \ {s} /\ net'[t] = net[t] /\ ~Wild(net[t])
        BY <1>2, <1>3, <2>2, <3>2 DEF Wild
      <4>2. PICK r : r = net[t]
        OBVIOUS
      <4>3. r \in Requests /\ Reached(r)
        BY <1>5, <4>1, <4>2 DEF Stored, Indexed
      <4>4. Reached(r)'
        BY <1>6, <4>1, <4>2, <4>3, ReachedLocal
      <4> QED
        BY <4>1, <4>2, <4>4
    <3> QED
      BY <3>1, <3>2
  <2>3. ASSUME NEW t \in Underway', net'[t].op = "reset", NEW p \in Known' PROVE FALSE
    <3>1. t \in Underway \ {s} /\ net[t].op = "reset"
      BY <1>2, <1>3, <2>3
    <3>2. ~Wild(net[t])
      BY <1>5, <2>0, <2>3, <3>1 DEF Wild
    <3> QED
      BY <1>6, <3>1, <3>2
  <2> QED
    BY <1>2, <2>1, <2>2, <2>3 DEF Indexed
<1>11. PICK W : Right(W)
  BY DEF Stored
<1>12. Course(W)' /\ W[0] \in Files /\ 0 \in 0..Len(queue) /\ Len(queue) \in 0..Len(queue)
  BY <1>2, <1>11, QueueType DEF Right, Course
<1>13. Comes(W[0])'
  <2>1. ASSUME NEW p \in Paths \ doubt, Untouched(p)' PROVE W[0][p] = store'[p]
    <3>1. CASE p \in FilesOf(o) /\ q = Free
      <4>1. ~Wild(o) /\ WillBe(net[s], W[0])
        BY <1>1, <1>2, <1>8, <1>11, <3>1 DEF Right, Comes
      <4> QED
        BY <1>1, <1>7, <1>12, <3>1, <4>1 DEF Advances
    <3>2. CASE Untouched(p)
      BY <1>1, <1>2, <1>11, <2>1, <3>2 DEF Right, Comes, Untouched
    <3> QED
      BY <1>9, <2>1, <3>1, <3>2
  <2>2. ASSUME NEW t \in Underway', ~Wild(net[t])' PROVE WillBe(net[t], W[0])'
    <3>1. CASE t = s
      <4>1. q # Free /\ ~Wild(o)
        BY <1>2, <1>3, <1>4, <2>2, <3>1 DEF Wild
      <4>2. WillBe(net[s], W[0])
        BY <1>1, <1>2, <1>11, <4>1 DEF Right, Comes
      <4> QED
        BY <1>3, <1>7, <1>12, <3>1, <4>1, <4>2 DEF Advances
    <3>2. CASE t # s
      <4>1. t \in Underway \ {s} /\ net'[t] = net[t] /\ ~Wild(net[t])
        BY <1>2, <1>3, <2>2, <3>2 DEF Wild
      <4>2. PICK r : r = net[t]
        OBVIOUS
      <4>3. r \in Requests /\ WillBe(r, W[0])
        BY <1>5, <1>11, <4>1, <4>2 DEF Right, Comes
      <4>4. WillBe(r, W[0])'
        BY <1>6, <4>1, <4>2, <4>3, WillBeLocal
      <4> QED
        BY <4>1, <4>2, <4>4
    <3> QED
      BY <3>1, <3>2
  <2> QED
    BY <1>2, <2>1, <2>2 DEF Comes
<1>14. SavesLast(W)'
  <2>1. ASSUME NEW t \in Underway', net'[t].op = "save", ~Wild(net[t])', NEW i \in 0..Len(queue)
        PROVE  W[i][net'[t].path] = net'[t].content
    <3>1. CASE t = s
      <4>1. q # Free /\ ~Wild(o) /\ o.op = "save" /\ q.op = "save" /\ q.path = o.path
        BY <1>2, <1>3, <1>4, <2>1, <3>1 DEF Wild
      <4>2. W[i][o.path] = o.content /\ W[0][o.path] = o.content
        BY <1>1, <1>2, <1>11, <1>12, <4>1 DEF Right, SavesLast
      <4>3. W[0][q.path] = q.content
        BY <1>3, <1>13, <2>1, <3>1, <4>1 DEF Comes, WillBe
      <4> QED
        BY <1>3, <3>1, <4>1, <4>2, <4>3
    <3>2. CASE t # s
      <4>1. t \in Underway /\ net'[t] = net[t] /\ ~Wild(net[t])
        BY <1>2, <1>3, <2>1, <3>2 DEF Wild
      <4> QED
        BY <1>11, <2>1, <4>1 DEF Right, SavesLast
    <3> QED
      BY <3>1, <3>2
  <2> QED
    BY <1>2, <2>1 DEF SavesLast
<1>15. Foreseen(W)'
  <2>1. ASSUME NEW D, Spread(D)', NEW p \in Paths, p \notin D[Len(queue)], Calm(p)',
               p \notin partial'
        PROVE  saved'[p] = W[Len(queue)][p]
    <3>1. Spread(D)
      BY <1>2, <2>1, SpreadLess
    <3>2. p \notin doubt
      BY <2>1, <3>1, SpreadLast
    <3>3. CASE q = Free /\ o.op = "save" /\ p = o.path
      <4>1. ~Wild(o)
        BY <1>2, <3>2, <3>3 DEF Wild
      <4>2. W[Len(queue)][o.path] = o.content
        BY <1>1, <1>2, <1>11, <1>12, <3>3, <4>1 DEF Right, SavesLast
      <4>3. o.here
        BY <1>1, <1>2, <4>1 DEF Structure, Left
      <4>4. saved \in Files
        BY DEF Typed
      <4> QED
        BY <1>2, <3>3, <4>2, <4>3, <4>4 DEF Files
    <3>4. CASE ~(q = Free /\ o.op = "save" /\ p = o.path)
      <4>1. saved'[p] = saved[p]
        BY <1>2, <3>4 DEF Typed, Files
      <4>2. Calm(p)
        <5>1. ASSUME p \in FilesOf(o) PROVE o.op \notin {"save", "reset"}
          <6>1. CASE q = Free
            BY <1>2, <3>4, <5>1, <6>1
          <6>2. CASE q # Free
            BY <1>2, <1>3, <1>4, <2>1, <5>1, <6>2 DEF Calm
          <6> QED
            BY <6>1, <6>2
        <5>2. \A t \in Underway \ {s} : p \in FilesOf(net[t]) => net[t].op \notin {"save", "reset"}
          BY <1>3, <2>1 DEF Calm
        <5> QED
          BY <1>1, <5>1, <5>2 DEF Calm
      <4>3. p \notin partial
        BY <1>2, <2>1, <3>4
      <4> QED
        BY <1>11, <2>1, <3>1, <4>1, <4>2, <4>3 DEF Right, Foreseen
    <3> QED
      BY <3>3, <3>4
  <2> QED
    BY <1>2, <2>1 DEF Foreseen
<1>16. Still(W)'
  BY <1>2, <1>11 DEF Right, Still
<1>17. Before'
  <2>1. ASSUME NEW t \in Underway', net'[t].op = "save", net'[t].pc = "object",
               ~(FilesOf(net'[t]) \subseteq doubt), net'[t].path \notin partial'
        PROVE  /\ saved'[net'[t].path] = store'[net'[t].path]
               /\ net'[t].path \in index' <=> store'[net'[t].path] # 0
    <3>1. t \in Underway \ {s} /\ net'[t] = net[t] /\ ~Wild(net[t])
      BY <1>2, <1>3, <2>1 DEF Wild
    <3>2. PICK p : p = net[t].path
      OBVIOUS
    <3>3. p \in Paths /\ p \in FilesOf(net[t]) /\ p \notin FilesOf(o)
      BY <1>5, <1>6, <3>1, <3>2
    <3>4. /\ store'[p] = store[p] /\ (p \in index' <=> p \in index)
          /\ p \in partial' <=> p \in partial
      BY <1>2, <3>3
    <3>5. saved'[p] = saved[p]
      BY <1>2, <3>3 DEF Typed, Files
    <3>6. saved[p] = store[p] /\ (p \in index <=> store[p] # 0)
      BY <2>1, <3>1, <3>2, <3>4 DEF Stored, Before
    <3> QED
      BY <3>1, <3>2, <3>4, <3>5, <3>6
  <2> QED
    BY <1>2, <2>1 DEF Before, Wild
<1> QED
  BY <1>10, <1>11, <1>12, <1>13, <1>14, <1>15, <1>16, <1>17 DEF Stored, Right

LEMMA WipeStored ==
  ASSUME Typed, Structure, Stored, NEW s \in Slots, Wipe(s)
  PROVE  Stored'
<1>1. PICK q : /\ Serves(s, q) /\ q # Free /\ q.pc = "seed" /\ net[s].op = "reset"
               /\ saved' = saved /\ partial' = partial
               /\ \A p \in Paths \ doubt : (p \in index <=> store[p] # 0) =>
                    /\ p \in index' <=> store'[p] # 0
                    /\ p \notin Starters => store'[p] = 0
  BY WipeServes
<1>2. /\ s \in Underway /\ q \in Requests /\ q.op = "reset" /\ UNCHANGED <<queue, doubt>>
      /\ net' = [net EXCEPT ![s] = q] /\ Known' \subseteq Known /\ Known \subseteq Paths \ doubt
  BY <1>1 DEF Serves, Known
<1>3. /\ net'[s] = q /\ \A t \in Underway \ {s} : net'[t] = net[t]
      /\ Underway' = Underway
  <2>1. q # Free
    BY <1>1
  <2>2. /\ net'[s] = q /\ \A t \in Slots \ {s} : net'[t] = net[t]
        /\ Underway' = Underway \cup {s}
    BY <1>2, <2>1, SlotSet
  <2> QED
    BY <1>2, <2>2, NetType
<1>4. FilesOf(q) = Paths /\ FilesOf(net[s]) = Paths
  BY <1>1, <1>2, NetType, FilesType
<1>5. \A t \in Underway \ {s} : Wild(net[t])
  <2> TAKE t \in Underway \ {s}
  <2>1. FilesOf(net[t]) \cap FilesOf(net[s]) # {}
    BY <1>4, NetType, FilesType
  <2> QED
    BY <1>2, <2>1 DEF Structure, Apart
<1>6. Reached(q)'
  BY <1>1, <1>2 DEF Reached
<1>7. \A p \in Paths : ~Untouched(p)' /\ ~Calm(p)'
  BY <1>2, <1>3, <1>4 DEF Untouched, Calm
<1>8. ASSUME NEW p \in Known
      PROVE  (p \in index' <=> store'[p] # 0) /\ (p \notin Starters => store'[p] = 0)
  BY <1>1, <1>2 DEF Stored, Indexed
<1>9. Indexed' /\ Before'
  <2>1. Indexed'
    BY <1>2, <1>3, <1>5, <1>6, <1>7, <1>8 DEF Indexed, Wild
  <2>2. Before'
    BY <1>2, <1>3, <1>5 DEF Before, Wild
  <2> QED
    BY <2>1, <2>2
<1>10. PICK W : Right(W)
  BY DEF Stored
<1>11. Course(W)' /\ Still(W)'
  BY <1>2, <1>10 DEF Right, Course, Still
<1>12. Comes(W[0])'
  BY <1>2, <1>3, <1>5, <1>7 DEF Comes, Wild, WillBe
<1>13. SavesLast(W)'
  BY <1>2, <1>3, <1>5 DEF SavesLast, Wild
<1>14. Foreseen(W)'
  BY <1>7 DEF Foreseen, Spread
<1> QED
  BY <1>9, <1>10, <1>11, <1>12, <1>13, <1>14 DEF Stored, Right

LEMMA SeedStored ==
  ASSUME Typed, Typed', Structure, Stored, NEW s \in Slots, Seed(s)
  PROVE  Stored'
<1>1. /\ Serves(s, Free) /\ net[s].op = "reset" /\ net[s].pc = "seed"
      /\ store' = [p \in Paths |-> IF p \in Starters THEN 1 ELSE store[p]]
      /\ index' = index \cup Starters /\ partial' = partial
      /\ net[s].here => saved' = Starter
  BY SeedServes
<1>2. s \in Underway /\ net' = [net EXCEPT ![s] = Free] /\ UNCHANGED <<queue, doubt>>
  BY <1>1 DEF Serves
<1>3. /\ Underway' = Underway \ {s} /\ \A t \in Underway' : net'[t] = net[t]
      /\ FilesOf(net[s]) = Paths
  <2>1. Underway' = Underway \ {s} /\ \A t \in Underway' : net'[t] = net[t]
    BY <1>1, ServesSlot
  <2>2. FilesOf(net[s]) = Paths
    BY <1>1, <1>2, NetType, FilesType
  <2> QED
    BY <2>1, <2>2
<1>4. CASE doubt = Paths
  BY <1>2, <1>4, AllDoubtful
<1>5. CASE doubt # Paths
  <2>1. ~Wild(net[s]) /\ queue = <<>> /\ net[s].here
    BY <1>1, <1>2, <1>3, <1>5 DEF Structure, ResetAlone, Left, Wild, Typed
  <2>2. Underway' = {}
    <3>1. ASSUME NEW t \in Underway \ {s} PROVE FALSE
      <4>1. FilesOf(net[t]) \cap FilesOf(net[s]) # {}
        BY <1>3, NetType, FilesType
      <4> QED
        BY <1>2, <2>1, <4>1 DEF Structure, Apart
    <3> QED
      BY <1>3, <3>1
  <2>3. ASSUME NEW p \in Known'
        PROVE  saved'[p] = store'[p] /\ (p \in index' <=> store'[p] # 0)
    <3>1. p \in Known /\ p \in Paths
      BY <1>1, <1>2 DEF Known
    <3>2. (p \in index <=> store[p] # 0) /\ (p \notin Starters => store[p] = 0)
      BY <1>1, <1>2, <3>1 DEF Stored, Indexed
    <3> QED
      BY <1>1, <2>1, <3>1, <3>2 DEF Starter
  <2>4. Indexed' /\ Before'
    BY <2>2, <2>3, <1>2 DEF Indexed, Before
  <2>5. PICK V : V = [i \in 0..0 |-> store']
    OBVIOUS
  <2>6. V[0] = store' /\ Len(queue') = 0
    BY <1>2, <2>1, <2>5
  <2>7. Course(V)'
    <3>1. store' \in Files
      BY DEF Typed
    <3> QED
      BY <2>5, <2>6, <3>1 DEF Course
  <2>8. Comes(V[0])' /\ SavesLast(V)' /\ Still(V)'
    BY <2>2, <2>6 DEF Comes, SavesLast, Still
  <2>9. Foreseen(V)'
    BY <1>2, <2>3, <2>6 DEF Foreseen, Spread, Known
  <2> QED
    BY <2>4, <2>7, <2>8, <2>9 DEF Stored, Right
<1> QED
  BY <1>4, <1>5

\* A save of a file with nothing else about it fails: the file stays as it is
\* stored by now.
LEMMA SaveFailStored ==
  ASSUME Typed, Structure, Stored, NEW s \in Slots, Fail(s), net[s].op = "save", ~Wild(net[s])
  PROVE  Stored'
<1> DEFINE n == Len(queue)
<1>1. PICK o, r : o = net[s] /\ r = o.path
  OBVIOUS
<1>2. /\ s \in Underway /\ o \in Requests /\ o.op = "save" /\ doubt' = doubt
      /\ net' = [net EXCEPT ![s] = Free] /\ UNCHANGED <<saved, queue, store, index>>
      /\ partial' = IF o.pc = "row" THEN partial \cup {r} ELSE partial
  BY <1>1, FailIs
<1>3. /\ r \in Paths /\ FilesOf(o) = {r} /\ r \notin doubt /\ o.pc \in {"object", "row"}
  <2>1. r \in Paths /\ FilesOf(o) = {r} /\ o.pc \in {"object", "row"}
    BY <1>1, <1>2, RequestType, FilesType DEF Meant
  <2> QED
    BY <1>1, <2>1 DEF Wild
<1>4. Underway' = Underway \ {s} /\ \A t \in Underway' : net'[t] = net[t]
  <2>1. /\ \A t \in Slots \ {s} : net'[t] = net[t]
        /\ Underway' = Underway \ {s}
    BY <1>2, SlotSet
  <2> QED
    BY <2>1, NetType
<1>5. \A t \in Underway' : r \notin FilesOf(net[t]) /\ net[t].op # "reset"
  <2>1. ASSUME NEW t \in Underway' PROVE FilesOf(net[t]) \cap FilesOf(net[s]) = {}
    BY <1>2, <1>4, <2>1 DEF Structure, Apart
  <2> QED
    BY <1>1, <1>3, <1>4, <2>1, NetType, FilesType
<1>6. /\ n \in Nat /\ Queued \subseteq Requests
      /\ \A i \in 1..n : queue[i] \in Queued /\ r \notin FilesOf(queue[i])
  BY <1>1, <1>2, QueueType DEF Structure, Ahead, Queued
<1>7. r \notin partial' => saved[r] = store[r] /\ (r \in index <=> store[r] # 0)
  BY <1>1, <1>2, <1>3 DEF Stored, Before
<1>8. \A p \in Paths \ {r} : /\ Untouched(p)' => Untouched(p)
                             /\ Calm(p)' => Calm(p)
                             /\ p \in partial' <=> p \in partial
  BY <1>1, <1>2, <1>3, <1>4 DEF Untouched, Calm
<1>9. Indexed' /\ Before'
  <2>1. \A t \in Underway' : Wild(net[t])' \/ Reached(net[t])'
    BY <1>2, <1>4 DEF Stored, Indexed, Wild, Reached
  <2>2. ASSUME NEW p \in Known', Untouched(p)' PROVE p \in index <=> store[p] # 0
    BY <1>2, <1>7, <1>8, <2>2 DEF Stored, Indexed, Known
  <2>3. Indexed'
    BY <1>2, <1>4, <1>5, <2>1, <2>2 DEF Indexed
  <2>4. Before'
    BY <1>2, <1>4 DEF Stored, Before, Wild
  <2> QED
    BY <2>3, <2>4
<1>10. PICK W : Right(W)
  BY DEF Stored
<1>11. W \in [0..n -> Files] /\ \A i \in 1..n : W[i] = Apply(queue[i], W[i - 1])
  BY <1>10 DEF Right, Course
<1>12. PICK V : V = [i \in 0..n |-> [p \in Paths |-> IF p \in {r} THEN store[p] ELSE W[i][p]]]
  OBVIOUS
<1>13. ASSUME NEW i \in 0..n
       PROVE  /\ V[i] \in Files /\ V[i][r] = store[r]
              /\ V[i] = [p \in Paths |-> IF p \in {r} THEN store[p] ELSE W[i][p]]
              /\ \A p \in Paths \ {r} : V[i][p] = W[i][p]
  BY <1>3, <1>11, <1>12 DEF Typed, Files
<1>14. Course(V)'
  <2>1. ASSUME NEW i \in 1..n PROVE V[i] = Apply(queue[i], V[i - 1])
    <3>1. PICK q, v, w, C, f : /\ q = queue[i] /\ v = V[i - 1] /\ w = W[i - 1]
                               /\ C = {r} /\ f = store
      OBVIOUS
    <3>2. i \in 0..n /\ i - 1 \in 0..n
      BY <1>6
    <3>3. q \in Requests /\ FilesOf(q) \cap {r} = {}
      BY <1>6, <3>1
    <3>4. \A p \in Paths : v[p] = IF p \in {r} THEN store[p] ELSE w[p]
      <4>1. V[i - 1] = [p \in Paths |-> IF p \in {r} THEN store[p] ELSE W[i - 1][p]]
        BY <1>13, <3>2
      <4> QED
        BY <3>1, <4>1
    <3>5. \A p \in Paths : Apply(q, v)[p] = IF p \in {r} THEN store[p] ELSE Apply(q, w)[p]
      <4>1. q \in Requests /\ FilesOf(q) \cap C = {}
        BY <3>1, <3>3
      <4>2. \A p \in Paths : v[p] = IF p \in C THEN f[p] ELSE w[p]
        BY <3>1, <3>4
      <4>3. \A p \in Paths : Apply(q, v)[p] = IF p \in C THEN f[p] ELSE Apply(q, w)[p]
        BY <4>1, <4>2, ApplyElsewhere
      <4> QED
        BY <3>1, <4>3
    <3>6. W[i] = Apply(q, w) /\ Apply(q, v) = [p \in Paths |-> Apply(q, v)[p]]
      <4>1. W[i] = Apply(q, w)
        BY <1>11, <3>1
      <4>2. Apply(q, v) = [p \in Paths |-> Apply(q, v)[p]]
        BY DEF Apply
      <4> QED
        BY <4>1, <4>2
    <3>7. V[i] = [p \in Paths |-> IF p \in {r} THEN store[p] ELSE W[i][p]]
      BY <1>13, <3>2
    <3> QED
      BY <3>1, <3>5, <3>6, <3>7
  <2>2. V \in [0..n -> Files]
    BY <1>12, <1>13
  <2> QED
    BY <1>2, <2>1, <2>2 DEF Course
<1>15. 0 \in 0..n /\ n \in 0..n
  BY <1>6
<1>16. Comes(V[0])'
  <2>1. ASSUME NEW p \in Paths \ doubt, Untouched(p)' PROVE V[0][p] = store[p]
    <3>1. p = r \/ Untouched(p)
      BY <1>8, <2>1
    <3>2. p # r => W[0][p] = store[p]
      BY <1>10, <2>1, <3>1 DEF Right, Comes
    <3> QED
      BY <1>13, <1>15, <2>1, <3>2
  <2>2. ASSUME NEW t \in Underway', ~Wild(net[t]) PROVE WillBe(net[t], V[0])'
    <3>1. PICK q : q = net[t]
      OBVIOUS
    <3>2. q \in Requests /\ FilesOf(q) \subseteq Paths \ {r} /\ WillBe(q, W[0])
      BY <1>4, <1>5, <1>10, <2>2, <3>1, NetType, FilesType DEF Right, Comes
    <3>3. \A p \in FilesOf(q) : V[0][p] = W[0][p] /\ store'[p] = store[p]
      BY <1>2, <1>13, <1>15, <3>2
    <3>4. WillBe(q, V[0])'
      BY <3>2, <3>3, WillBeLocal
    <3> QED
      BY <1>4, <3>1, <3>4
  <2> QED
    BY <1>2, <1>4, <2>1, <2>2 DEF Comes, Wild
<1>17. SavesLast(V)'
  <2>1. ASSUME NEW t \in Underway', net[t].op = "save", ~Wild(net[t]), NEW i \in 0..n
        PROVE  V[i][net[t].path] = net[t].content
    <3>1. PICK p : p = net[t].path
      OBVIOUS
    <3>2. p \in Paths \ {r}
      BY <1>4, <1>5, <3>1, NetType, RequestType, FilesType
    <3>3. W[i][p] = net[t].content
      BY <1>4, <1>10, <2>1, <3>1 DEF Right, SavesLast
    <3> QED
      BY <1>13, <3>1, <3>2, <3>3
  <2> QED
    BY <1>2, <1>4, <2>1 DEF SavesLast, Wild
<1>18. Foreseen(V)'
  <2>1. ASSUME NEW D, Spread(D)', NEW p \in Paths, p \notin D[n], Calm(p)', p \notin partial'
        PROVE  saved[p] = V[n][p]
    <3>1. Spread(D)
      BY <1>2, <2>1, SpreadLess
    <3>2. CASE p = r
      BY <1>7, <1>13, <1>15, <2>1, <3>2
    <3>3. CASE p # r
      <4>1. saved[p] = W[n][p]
        BY <1>8, <1>10, <2>1, <3>1, <3>3 DEF Right, Foreseen
      <4> QED
        BY <1>13, <1>15, <3>3, <4>1
    <3> QED
      BY <3>2, <3>3
  <2> QED
    BY <1>2, <2>1 DEF Foreseen
<1>19. Still(V)'
  <2>1. ASSUME NEW i \in 0..n, NEW p \in Paths,
               \A k \in (i + 1)..n : p \notin FilesOf(queue[k])
        PROVE  V[i][p] = V[n][p]
    <3>1. CASE p = r
      BY <1>13, <1>15, <3>1
    <3>2. CASE p # r
      <4>1. W[i][p] = W[n][p]
        BY <1>10, <2>1 DEF Right, Still
      <4> QED
        BY <1>13, <1>15, <3>2, <4>1
    <3> QED
      BY <3>1, <3>2
  <2> QED
    BY <1>2, <2>1 DEF Still
<1> QED
  BY <1>9, <1>14, <1>16, <1>17, <1>18, <1>19 DEF Stored, Right

LEMMA FailStored ==
  ASSUME Typed, Structure, Stored, NEW s \in Slots, Fail(s)
  PROVE  Stored'
<1>1. CASE net[s].op = "save" /\ ~Wild(net[s])
  BY <1>1, SaveFailStored
<1>2. CASE net[s].op # "save" \/ Wild(net[s])
  <2>1. /\ s \in Underway /\ net[s] \in Requests /\ net' = [net EXCEPT ![s] = Free]
        /\ doubt' = doubt \cup FilesOf(net[s]) /\ partial \subseteq partial'
        /\ UNCHANGED <<saved, queue, store, index>>
    BY <1>2, FailIs DEF Wild
  <2>2. Underway' = Underway \ {s} /\ \A t \in Underway' : net'[t] = net[t]
    <3>1. /\ \A t \in Slots \ {s} : net'[t] = net[t]
          /\ Underway' = Underway \ {s}
      BY <2>1, SlotSet
    <3> QED
      BY <3>1, NetType
  <2>3. \A p \in Paths \ doubt' : /\ Untouched(p)' => Untouched(p)
                                  /\ Calm(p)' => Calm(p)
    BY <2>1, <2>2 DEF Untouched, Calm
  <2>4. Indexed' /\ Before'
    <3>1. \A t \in Underway' : Wild(net[t])' \/ Reached(net[t])'
      BY <2>1, <2>2 DEF Stored, Indexed, Wild, Reached
    <3>2. Known' \subseteq Known /\ Known' \subseteq Paths \ doubt'
      BY <2>1 DEF Known
    <3>3. Indexed'
      BY <2>1, <2>2, <2>3, <3>1, <3>2 DEF Stored, Indexed
    <3>4. Before'
      BY <2>1, <2>2 DEF Stored, Before, Wild
    <3> QED
      BY <3>3, <3>4
  <2>5. PICK W : Right(W)
    BY DEF Stored
  <2>6. Course(W)' /\ Still(W)'
    BY <2>1, <2>5 DEF Right, Course, Still
  <2>7. Comes(W[0])'
    BY <2>1, <2>2, <2>3, <2>5 DEF Right, Comes, Wild, WillBe
  <2>8. SavesLast(W)'
    BY <2>1, <2>2, <2>5 DEF Right, SavesLast, Wild
  <2>9. Foreseen(W)'
    <3>1. ASSUME NEW D, Spread(D)', NEW p \in Paths, p \notin D[Len(queue)], Calm(p)',
                 p \notin partial'
          PROVE  saved'[p] = W[Len(queue)][p]
      <4>1. Spread(D)
        BY <2>1, <3>1, SpreadLess
      <4>2. p \notin doubt'
        BY <2>1, <3>1, QueueType DEF Spread
      <4> QED
        BY <2>1, <2>3, <2>5, <3>1, <4>1, <4>2 DEF Right, Foreseen
    <3> QED
      BY <2>1, <3>1 DEF Foreseen
  <2> QED
    BY <2>4, <2>5, <2>6, <2>7, <2>8, <2>9 DEF Stored, Right
<1> QED
  BY <1>1, <1>2

LEMMA OpenStored ==
  ASSUME Typed, Typed', Structure, Stored, Open
  PROVE  Stored'
<1>1. /\ queue' = <<>> /\ Underway' = Underway /\ store' \in Files
      /\ \A s \in Underway : FilesOf(net'[s]) = FilesOf(net[s]) /\ net'[s].op = net[s].op
      /\ doubt' = doubt \cup UNION {FilesOf(q) : q \in Sent} /\ partial' = partial
      /\ \A p \in Paths : (p \in index <=> store[p] # 0) =>
           saved'[p] = store'[p] /\ (p \in index' <=> store'[p] # 0)
  BY OpenIs
<1>2. \A s \in Underway : Wild(net[s])'
  BY <1>1 DEF Sent, Wild
<1>3. ASSUME NEW p \in Known'
      PROVE  saved'[p] = store'[p] /\ (p \in index' <=> store'[p] # 0)
  <2>1. Untouched(p) /\ p \in Known /\ p \in Paths
    BY <1>1 DEF Untouched, Sent, Known
  <2> QED
    BY <1>1, <2>1 DEF Stored, Indexed
<1>4. Indexed' /\ Before'
  <2>1. ASSUME NEW s \in Underway, net[s].op = "reset" PROVE Known' = {}
    BY <1>1, <1>2, <2>1, NetType, FilesType DEF Wild, Known
  <2> QED
    BY <1>1, <1>2, <1>3, <2>1 DEF Indexed, Before
<1>5. PICK V : V = [i \in 0..0 |-> store']
  OBVIOUS
<1>6. V[0] = store' /\ Len(queue') = 0
  BY <1>1, <1>5
<1>7. Course(V)'
  BY <1>1, <1>5, <1>6 DEF Course
<1>8. Comes(V[0])' /\ SavesLast(V)' /\ Still(V)'
  <2>1. Comes(V[0])'
    <3>1. ASSUME NEW p \in Paths \ doubt', Untouched(p)' PROVE V[0][p] = store'[p]
      BY <1>6
    <3> QED
      BY <1>1, <1>2, <3>1 DEF Comes
  <2>2. SavesLast(V)' /\ Still(V)'
    BY <1>1, <1>2, <1>6 DEF SavesLast, Still
  <2> QED
    BY <2>1, <2>2
<1>9. Foreseen(V)'
  BY <1>3, <1>6 DEF Foreseen, Spread, Known
<1> QED
  BY <1>4, <1>7, <1>8, <1>9 DEF Stored, Right

\* What each operation takes for saved is what it makes of the files.
LEMMA TakenForSaved ==
  ASSUME Typed, ShownSaved
  PROVE  /\ \A p \in Paths : Create(p) =>
              saved' = Apply(Request("create", p, p, Fresh, "object"), saved)
         /\ \A p \in Paths : Delete(p) =>
              saved' = Apply(Request("delete", p, p, 0, "remove"), saved)
         /\ \A p, to \in Paths : Rename(p, to) =>
              saved' = Apply(Request("rename", p, to, 0, "get"), saved)
<1>1. ASSUME NEW p \in Paths, Create(p)
      PROVE  saved' = Apply(Request("create", p, p, Fresh, "object"), saved)
  <2>1. PICK q : q = Request("create", p, p, Fresh, "object")
    OBVIOUS
  <2>2. /\ q.op = "create" /\ q.path = p /\ q.to = p /\ q.content = Fresh
        /\ saved' = [saved EXCEPT ![p] = Fresh]
    BY <1>1, <2>1, CreateSteps
  <2>3. saved' = Apply(q, saved)
    BY <2>2 DEF Apply, Typed, Files
  <2> QED
    BY <2>1, <2>3
<1>2. ASSUME NEW p \in Paths, Delete(p)
      PROVE  saved' = Apply(Request("delete", p, p, 0, "remove"), saved)
  <2>1. PICK q : q = Request("delete", p, p, 0, "remove")
    OBVIOUS
  <2>2. /\ q.op = "delete" /\ q.path = p /\ q.to = p
        /\ saved' = [saved EXCEPT ![p] = 0]
    BY <1>2, <2>1, DeleteSteps
  <2>3. saved' = Apply(q, saved)
    BY <2>2 DEF Apply, Typed, Files
  <2> QED
    BY <2>1, <2>3
<1>3. ASSUME NEW p \in Paths, NEW to \in Paths, Rename(p, to)
      PROVE  saved' = Apply(Request("rename", p, to, 0, "get"), saved)
  <2>1. PICK q : q = Request("rename", p, to, 0, "get")
    OBVIOUS
  <2>2. /\ q.op = "rename" /\ q.path = p /\ q.to = to /\ p # to /\ saved[p] # 0
        /\ saved' = [saved EXCEPT ![to] = saved[p], ![p] = 0]
    BY <1>3, <2>1, RenameSteps DEF ShownSaved
  <2>3. saved' = Apply(q, saved)
    BY <2>2 DEF Apply, Typed, Files
  <2> QED
    BY <2>1, <2>3
<1> QED
  BY <1>1, <1>2, <1>3

LEMMA StoredStep ==
  ASSUME Typed, Typed', Structure, ShownSaved, Stored, [Next]_vars
  PROVE  Stored'
<1>1. ASSUME NEW p \in Paths, Type(p) \/ Undo(p) PROVE Stored'
  BY <1>1, QuietStored DEF Type, Undo, hidden
<1>2. ASSUME NEW p \in Paths, Create(p) PROVE Stored'
  BY <1>2, CreateSteps, TakenForSaved, QueueStored
<1>3. ASSUME NEW p \in Paths, Delete(p) PROVE Stored'
  BY <1>3, DeleteSteps, TakenForSaved, QueueStored
<1>4. ASSUME NEW p \in Paths, NEW to \in Paths, Rename(p, to) PROVE Stored'
  BY <1>4, RenameSteps, TakenForSaved, QueueStored
<1>5. CASE Launch
  BY <1>5, LaunchStored
<1>6. CASE Flushed \/ Snapshot \/ UNCHANGED vars
  BY <1>6, QuietStored DEF Flushed, Snapshot, vars
<1>7. ASSUME NEW s \in Slots, Serve(s) PROVE Stored'
  <2>1. ASSUME NEW q, ServesFiles(s, q), Reached(net[s]) => Advances(s, q) PROVE Stored'
    BY <2>1, ServeStored
  <2> QED
    BY <1>7, <2>1, ServeKinds, WipeStored, SeedStored
<1>8. ASSUME NEW s \in Slots, Fail(s) PROVE Stored'
  BY <1>8, FailStored
<1>9. ASSUME NEW s \in Slots, Dequeue(s) PROVE Stored'
  BY <1>9, DequeueStored
<1>10. ASSUME NEW s \in Slots, Reset(s) PROVE Stored'
  BY <1>10, ResetStored
<1>11. ASSUME NEW s \in Slots, NEW p \in Paths, Save(p, s) PROVE Stored'
  BY <1>11, SaveStored
<1>12. CASE Open
  BY <1>12, OpenStored
<1>13. ASSUME NEW s \in Slots, NEW p \in Paths, Copy(p, s) PROVE Stored'
  BY <1>13, CopySends, CopyStored
<1> QED
  BY <1>1, <1>2, <1>3, <1>4, <1>5, <1>6, <1>7, <1>8, <1>9, <1>10, <1>11, <1>12, <1>13 DEF Next

LEMMA InitStored ==
  ASSUME Init
  PROVE  ShownSaved /\ Stored
<1>1. Underway = {} /\ Typed
  BY InitTyped DEF Init, Underway
<1>2. ShownSaved
  BY DEF Init, ShownSaved
<1>3. \A p \in Paths : saved[p] = store[p] /\ (p \in index <=> store[p] # 0)
  BY BoundsType DEF Init, Starter
<1>4. Indexed /\ Before
  BY <1>1, <1>3 DEF Indexed, Before, Known
<1>5. PICK V : V = [i \in 0..0 |-> store]
  OBVIOUS
<1>6. V[0] = store /\ Len(queue) = 0 /\ store \in Files
  BY <1>1, <1>5 DEF Init, Typed
<1>7. Course(V)
  BY <1>5, <1>6 DEF Course
<1>8. Comes(V[0]) /\ SavesLast(V) /\ Still(V)
  BY <1>1, <1>6 DEF Comes, SavesLast, Still
<1>9. Foreseen(V)
  BY <1>3, <1>6 DEF Foreseen, Spread
<1> QED
  BY <1>2, <1>4, <1>7, <1>8, <1>9 DEF Stored, Right

LEMMA StoredIsSaved ==
  ASSUME Typed, Stored, AtRest
  PROVE  \A p \in Known : saved[p] = store[p] /\ (p \in index <=> store[p] # 0)
<1>1. Sent \cup Queued = {}
  BY DEF AtRest, Sent, Queued
<1> QED
  BY <1>1, AsStored

LEMMA StoredInv == Spec => [](Typed /\ Structure /\ ShownSaved /\ Stored)
<1>1. Init => Typed /\ Structure /\ ShownSaved /\ Stored
  BY InitTyped, InitStored
<1>2. (Typed /\ Structure /\ ShownSaved /\ Stored) /\ [Next]_vars
        => (Typed /\ Structure /\ ShownSaved /\ Stored)'
  BY TypedStep, StructureStep, ShownSavedStep, StoredStep
<1> QED
  BY <1>1, <1>2, PTL DEF Spec

\* However requests, failures, resets and reopened pages interleave: once
\* nothing is on its way, every file is stored as the page takes it for saved,
\* and the index lists it, a file whose save failed included.  Excepted are the
\* files two requests met at, those of a structural request that failed, and
\* those whose last save failed when its object was put, until a later save of
\* the file is answered (useWorkspaceSync.ts:56-150, workspaceStore.ts:43-119).
THEOREM SavedIsStoredHolds == Spec => []SavedIsStored
<1>1. Typed /\ Structure /\ ShownSaved /\ Stored => SavedIsStored
  BY StoredIsSaved DEF SavedIsStored
<1> QED
  BY <1>1, StoredInv, PTL
-----------------------------------------------------------------------------
(* What a Run takes.                                                       *)

\* A file claimed for the Run is stored as it was shown, or a save that the
\* Run waits for is about to store it.
Claimed(p) ==
  /\ timer[p] = 0
  /\ \A i \in 1..Len(queue) : p \notin FilesOf(queue[i])
  /\ \A s \in Underway : p \in FilesOf(net[s]) =>
       s \in launch.waits /\ net[s].op = "save" /\ net[s].content = launch.shown[p]
  /\ Untouched(p) /\ p \notin partial => store[p] = launch.shown[p]

Running ==
  /\ launch.pc = "post" => launch.waits = {}
  /\ \A p \in Paths \ doubt : launch.shown[p] # 0 => Claimed(p)

LEMMA NothingClaimed ==
  ASSUME launch'.shown = Nothing, launch'.pc = "post" => launch'.waits = {}
  PROVE  Running'
BY DEF Running, Nothing

LEMMA TypeRuns ==
  ASSUME Typed, Running, NEW p \in Paths, Type(p) \/ Undo(p)
  PROVE  Running'
<1>1. Unclaim({p})
  BY DEF Type, Undo
<1>2. /\ launch'.pc = launch.pc /\ launch'.waits = launch.waits
      /\ \A r \in Paths : launch'.shown[r] = IF r = p THEN 0 ELSE launch.shown[r]
  BY <1>1, UnclaimIs
<1>3. /\ UNCHANGED <<queue, net, store, doubt, partial>>
      /\ \A r \in Paths \ {p} : timer'[r] = timer[r]
  BY DEF Type, Undo, hidden, Typed, Files
<1>4. ASSUME NEW r \in Paths \ doubt', launch'.shown[r] # 0 PROVE Claimed(r)'
  <2>1. r # p /\ launch'.shown[r] = launch.shown[r] /\ Claimed(r)
    BY <1>2, <1>3, <1>4 DEF Running
  <2> QED
    BY <1>2, <1>3, <2>1 DEF Claimed, Untouched, Underway
<1> QED
  BY <1>2, <1>4 DEF Running

LEMMA QueueRuns ==
  ASSUME Typed, Running, NEW q \in Operations, Queue(q), UNCHANGED <<net, store, partial>>,
         \A r \in Paths : timer'[r] = timer[r] \/ timer'[r] = 0
  PROVE  Running'
<1>1. Unclaim({q.path, q.to})
  BY DEF Queue
<1>2. /\ launch'.pc = launch.pc /\ launch'.waits = launch.waits
      /\ \A r \in Paths : launch'.shown[r] = IF r \in {q.path, q.to} THEN 0 ELSE launch.shown[r]
  BY <1>1, UnclaimIs
<1>3. /\ Len(queue') = Len(queue) + 1 /\ Len(queue) \in Nat
      /\ \A i \in 1..Len(queue) : queue'[i] = queue[i]
      /\ queue'[Len(queue) + 1] = q
      /\ doubt \subseteq doubt' /\ FilesOf(q) = {q.path, q.to}
  BY QueueIs, QueueType
<1>4. ASSUME NEW r \in Paths \ doubt', launch'.shown[r] # 0 PROVE Claimed(r)'
  <2>1. r \notin FilesOf(q) /\ launch'.shown[r] = launch.shown[r] /\ Claimed(r)
    BY <1>2, <1>3, <1>4 DEF Running
  <2>2. \A i \in 1..Len(queue') : i \in 1..Len(queue) \/ i = Len(queue) + 1
    BY <1>3
  <2>3. \A i \in 1..Len(queue') : r \notin FilesOf(queue'[i])
    BY <1>3, <2>1, <2>2 DEF Claimed
  <2>4. timer'[r] = 0
    BY <2>1 DEF Claimed
  <2> QED
    BY <1>2, <2>1, <2>3, <2>4 DEF Claimed, Untouched, Underway
<1> QED
  BY <1>2, <1>4 DEF Running

LEMMA SendRuns ==
  ASSUME Typed, Running, NEW s, First(s), NEW q \in Requests, net' = [net EXCEPT ![s] = q],
         doubt \subseteq doubt', UNCHANGED <<store, launch, partial>>,
         \A r \in Paths \ doubt' : launch.shown[r] # 0 =>
           /\ r \notin FilesOf(q) /\ timer'[r] = 0
           /\ \A i \in 1..Len(queue') : r \notin FilesOf(queue'[i])
  PROVE  Running'
<1>1. /\ net'[s] = q /\ \A t \in Underway : net'[t] = net[t]
      /\ Underway' = Underway \cup {s}
  BY SendIs
<1>2. ASSUME NEW r \in Paths \ doubt', launch'.shown[r] # 0 PROVE Claimed(r)'
  <2>1. /\ Claimed(r) /\ r \notin FilesOf(q) /\ timer'[r] = 0
        /\ \A i \in 1..Len(queue') : r \notin FilesOf(queue'[i])
    BY <1>2 DEF Running
  <2>2. Untouched(r)' => Untouched(r)
    BY <1>1 DEF Untouched
  <2>3. \A t \in Underway' : r \in FilesOf(net'[t]) => t \in Underway /\ net'[t] = net[t]
    BY <1>1, <2>1
  <2> QED
    BY <2>1, <2>2, <2>3 DEF Claimed
<1> QED
  BY <1>2 DEF Running

LEMMA SaveRuns ==
  ASSUME Typed, Running, NEW p \in Paths, NEW s, Save(p, s)
  PROVE  Running'
<1>1. PICK q : Saving(q, p, s)
  BY SaveSends
<1>2. /\ First(s) /\ net' = [net EXCEPT ![s] = q] /\ q \in Requests /\ FilesOf(q) = {p}
      /\ timer[p] # 0 /\ timer' = [timer EXCEPT ![p] = 0]
      /\ doubt \subseteq doubt' /\ UNCHANGED <<store, launch, queue, partial>>
  BY <1>1 DEF Saving
<1>3. ASSUME NEW r \in Paths \ doubt', launch.shown[r] # 0
      PROVE  /\ r \notin FilesOf(q) /\ timer'[r] = 0
             /\ \A i \in 1..Len(queue') : r \notin FilesOf(queue'[i])
  <2>1. Claimed(r)
    BY <1>2, <1>3 DEF Running
  <2> QED
    BY <1>2, <2>1 DEF Claimed, Typed, Files
<1> QED
  BY <1>2, <1>3, SendRuns

LEMMA DequeueRuns ==
  ASSUME Typed, Running, NEW s, Dequeue(s)
  PROVE  Running'
<1>1. PICK q : q = queue[1]
  OBVIOUS
<1>2. /\ First(s) /\ net' = [net EXCEPT ![s] = q] /\ q \in Requests
      /\ Len(queue) \in Nat \ {0} /\ Len(queue') = Len(queue) - 1
      /\ \A i \in 1..Len(queue') : queue'[i] = queue[i + 1]
      /\ doubt \subseteq doubt' /\ UNCHANGED <<store, launch, timer, partial>>
  BY <1>1, DequeueSends
<1>3. ASSUME NEW r \in Paths \ doubt', launch.shown[r] # 0
      PROVE  /\ r \notin FilesOf(q) /\ timer'[r] = 0
             /\ \A i \in 1..Len(queue') : r \notin FilesOf(queue'[i])
  <2>1. timer[r] = 0 /\ \A i \in 1..Len(queue) : r \notin FilesOf(queue[i])
    BY <1>2, <1>3 DEF Running, Claimed
  <2>2. 1 \in 1..Len(queue) /\ \A i \in 1..Len(queue') : i + 1 \in 1..Len(queue)
    BY <1>2
  <2> QED
    BY <1>1, <1>2, <2>1, <2>2
<1> QED
  BY <1>2, <1>3, SendRuns

LEMMA LaunchRuns ==
  ASSUME Typed, Stored, Launch
  PROVE  Running'
<1>1. PICK to : Sends(to)
  BY LaunchSends
<1>2. /\ \A p \in Unsaved : to[p] \in Slots \ Underway
      /\ Underway' = Underway \cup {to[p] : p \in Unsaved}
      /\ doubt \subseteq doubt' /\ launch'.pc = "flush"
      /\ launch'.shown = IF AtRest THEN latest ELSE Nothing
      /\ timer' = Nothing
      /\ UNCHANGED <<latest, saved, queue, store, partial>>
  <2>1. Sending(to)
    BY <1>1, SendsIs
  <2> QED
    BY <2>1 DEF Sending, AtRest
<1>3. ASSUME NEW p \in Unsaved
      PROVE  /\ FilesOf(net'[to[p]]) = {p} /\ net'[to[p]].op = "save"
             /\ net'[to[p]].content = latest[p] /\ to[p] \in launch'.waits
  <2>1. PICK q : q = SaveOf(p, latest[p])
    OBVIOUS
  <2>2. q \in Requests /\ q.op = "save" /\ FilesOf(q) = {p} /\ q.content = latest[p]
    BY <2>1, UnsavedType, SaveIs, FilesType
  <2> QED
    BY <1>1, <2>1, <2>2 DEF Sends
<1>4. CASE AtRest
  <2>1. ASSUME NEW r \in Paths \ doubt', launch'.shown[r] # 0 PROVE Claimed(r)'
    <3>1. r \in Shown /\ launch'.shown[r] = latest[r] /\ r \notin doubt
      BY <1>2, <1>4, <2>1 DEF Shown
    <3>2. timer'[r] = 0 /\ \A i \in 1..Len(queue') : FALSE
      BY <1>2, <1>4 DEF AtRest, Nothing
    <3>3. ASSUME NEW s \in Underway', r \in FilesOf(net'[s])
          PROVE  s \in launch'.waits /\ net'[s].op = "save" /\ net'[s].content = launch'.shown[r]
      <4>1. PICK p \in Unsaved : s = to[p]
        BY <1>2, <1>4, <3>3 DEF AtRest
      <4> QED
        BY <1>3, <3>1, <3>3, <4>1
    <3>4. ASSUME Untouched(r)', r \notin partial' PROVE store'[r] = launch'.shown[r]
      <4>1. r \notin Unsaved /\ r \in Known
        BY <1>2, <1>3, <3>1, <3>4 DEF Untouched, Known
      <4>2. latest[r] = saved[r] /\ saved[r] = store[r]
        BY <1>4, <3>1, <4>1, StoredIsSaved DEF Unsaved
      <4> QED
        BY <1>2, <3>1, <4>2
    <3> QED
      BY <3>2, <3>3, <3>4 DEF Claimed
  <2> QED
    BY <1>2, <2>1 DEF Running
<1>5. CASE ~AtRest
  BY <1>2, <1>5, NothingClaimed
<1> QED
  BY <1>4, <1>5

LEMMA ServeRuns ==
  ASSUME Typed, Structure, Stored, Running, NEW s, NEW q,
         ServesFiles(s, q), Reached(net[s]) => Advances(s, q)
  PROVE  Running'
<1>1. PICK o : o = net[s]
  OBVIOUS
<1>2. /\ s \in Underway /\ o \in Requests /\ q \in Requests \cup {Free}
      /\ net' = [net EXCEPT ![s] = q] /\ UNCHANGED <<queue, doubt, timer>>
      /\ q # Free => /\ q.op = o.op /\ q.path = o.path /\ q.to = o.to
      /\ \A p \in Paths \ FilesOf(o) : store'[p] = store[p] /\ (p \in partial' <=> p \in partial)
      /\ launch' = IF q = Free THEN [launch EXCEPT !.waits = @ \ {s}] ELSE launch
  <2>1. ServesFiles(s, q) /\ Serves(s, q) /\ s \in Underway
    BY DEF ServesFiles, Serves
  <2>2. o \in Requests
    BY <1>1, <2>1, NetType
  <2>3. /\ q \in Requests \cup {Free} /\ net' = [net EXCEPT ![s] = q]
        /\ UNCHANGED <<queue, doubt, timer>>
        /\ q # Free => /\ q.op = o.op /\ q.path = o.path /\ q.to = o.to
        /\ launch' = IF q = Free THEN [launch EXCEPT !.waits = @ \ {s}] ELSE launch
    BY <1>1, <2>1 DEF Serves
  <2>4. /\ \A p \in Paths \ FilesOf(o) : store'[p] = store[p]
        /\ partial' = partial \/ partial' = partial \ {o.path}
    BY <1>1, <2>1 DEF ServesFiles
  <2>5. o.path \in FilesOf(o)
    BY <2>2, FilesType
  <2> QED
    BY <2>1, <2>2, <2>3, <2>4, <2>5
<1>3. /\ net'[s] = q /\ \A t \in Underway \ {s} : net'[t] = net[t]
      /\ Underway' \subseteq Underway
      /\ s \in Underway' <=> q # Free
      /\ \A t \in Underway \ {s} : t \in Underway'
  BY ServesSlot DEF ServesFiles
<1>4. q # Free => FilesOf(q) = FilesOf(o)
  BY <1>2 DEF FilesOf
<1>5. /\ launch'.pc = launch.pc /\ launch'.shown = launch.shown
      /\ launch'.waits \subseteq launch.waits
      /\ q # Free => launch'.waits = launch.waits
      /\ \A t \in Slots \ {s} : t \in launch.waits => t \in launch'.waits
  BY <1>2 DEF Typed
<1>6. ASSUME NEW r \in Paths \ doubt, launch.shown[r] # 0 PROVE Claimed(r)'
  <2>1. Claimed(r)
    BY <1>6 DEF Running
  <2>2. CASE r \in FilesOf(o)
    <3>1. s \in launch.waits /\ o.op = "save" /\ o.content = launch.shown[r] /\ o.path = r
      BY <1>1, <1>2, <2>1, <2>2, FilesType, RequestType DEF Claimed, Meant
    <3>2. ~Wild(o) /\ Advances(s, q)
      BY <1>1, <1>2, <1>6, <2>2 DEF Stored, Indexed, Wild
    <3>3. PICK W : Right(W)
      BY DEF Stored
    <3>4. W[0] \in Files /\ WillBe(net[s], W[0])
      BY <1>1, <1>2, <3>2, <3>3, QueueType DEF Right, Course, Comes
    <3>5. W[0][r] = launch.shown[r]
      BY <1>1, <3>1, <3>4 DEF WillBe
    <3>6. \A t \in Underway \ {s} : r \notin FilesOf(net[t])
      BY <1>1, <1>2, <1>6, <2>2 DEF Structure, Apart, Wild
    <3>7. CASE q = Free
      <4>1. store'[r] = launch.shown[r]
        BY <1>1, <2>2, <3>2, <3>4, <3>5, <3>7 DEF Advances
      <4>2. \A t \in Underway' : r \notin FilesOf(net'[t])
        BY <1>3, <3>6, <3>7
      <4> QED
        BY <1>2, <1>5, <2>1, <4>1, <4>2 DEF Claimed
    <3>8. CASE q # Free
      <4>1. q.op = "save" /\ q.path = r
        BY <1>2, <3>1, <3>8
      <4>2. WillBe(q, W[0])'
        BY <3>2, <3>4, <3>8 DEF Advances
      <4>3. q.content = launch.shown[r]
        BY <3>5, <4>1, <4>2 DEF WillBe
      <4>4. ~Untouched(r)'
        BY <1>3, <1>4, <2>2, <3>8 DEF Untouched
      <4>5. \A t \in Underway' : r \in FilesOf(net'[t]) => t = s
        BY <1>3, <3>6
      <4> QED
        BY <1>2, <1>3, <1>5, <2>1, <3>1, <3>8, <4>1, <4>3, <4>4, <4>5 DEF Claimed
    <3> QED
      BY <3>7, <3>8
  <2>3. CASE r \notin FilesOf(o)
    <3>1. \A t \in Underway' : r \in FilesOf(net'[t]) =>
            t \in Underway \ {s} /\ net'[t] = net[t] /\ t \in launch'.waits
      <4> SUFFICES ASSUME NEW t \in Underway', r \in FilesOf(net'[t])
                   PROVE  t \in Underway \ {s} /\ net'[t] = net[t] /\ t \in launch'.waits
        OBVIOUS
      <4>1. t # s
        BY <1>3, <1>4, <2>3
      <4>2. t \in Underway \ {s} /\ net'[t] = net[t] /\ t \in Slots
        BY <1>3, <4>1, NetType
      <4>3. t \in launch.waits
        BY <2>1, <4>2 DEF Claimed
      <4> QED
        BY <1>5, <4>1, <4>2, <4>3
    <3>2. Untouched(r)' => Untouched(r)
      BY <1>1, <1>3, <2>3 DEF Untouched
    <3> QED
      BY <1>2, <1>5, <2>1, <2>3, <3>1, <3>2 DEF Claimed
  <2> QED
    BY <2>2, <2>3
<1> QED
  BY <1>2, <1>5, <1>6 DEF Running

\* While a reset is under way no file is claimed.
LEMMA ResetServeRuns ==
  ASSUME Typed, Running, NEW s, NEW q, Serves(s, q), net[s].op = "reset"
  PROVE  Running'
<1>1. s \in Underway /\ FilesOf(net[s]) = Paths
  BY NetType, FilesType DEF Serves
<1>2. \A r \in Paths \ doubt : launch.shown[r] = 0
  BY <1>1 DEF Running, Claimed
<1>3. /\ launch'.pc = launch.pc /\ launch'.shown = launch.shown
      /\ launch'.waits \subseteq launch.waits /\ doubt' = doubt
  BY DEF Serves, Typed
<1> QED
  BY <1>2, <1>3 DEF Running

LEMMA FailRuns ==
  ASSUME Typed, Running, NEW s \in Slots, Fail(s)
  PROVE  Running'
<1>1. /\ s \in Underway /\ net[s] \in Requests /\ net' = [net EXCEPT ![s] = Free]
      /\ launch' = IF s \in launch.waits THEN [launch EXCEPT !.waits = {}, !.shown = Nothing]
                   ELSE launch
      /\ doubt \subseteq doubt' /\ partial \subseteq partial' /\ UNCHANGED <<timer, queue, store>>
  BY FailIs
<1>2. CASE s \in launch.waits
  <2>1. launch'.shown = Nothing /\ launch'.waits = {}
    BY <1>1, <1>2 DEF Typed
  <2> QED
    BY <2>1, NothingClaimed
<1>3. CASE s \notin launch.waits
  <2>1. launch' = launch
    BY <1>1, <1>3
  <2>2. /\ \A t \in Slots \ {s} : net'[t] = net[t]
        /\ Underway' = Underway \ {s} /\ Underway \subseteq Slots
    BY <1>1, SlotSet, NetType
  <2>3. ASSUME NEW r \in Paths \ doubt', launch.shown[r] # 0 PROVE Claimed(r)'
    <3>1. Claimed(r) /\ r \notin FilesOf(net[s])
      BY <1>1, <1>3, <2>3 DEF Running, Claimed
    <3>2. Untouched(r)' => Untouched(r)
      BY <2>2, <3>1 DEF Untouched
    <3>3. \A t \in Underway' : t \in Underway /\ net'[t] = net[t]
      BY <2>2
    <3> QED
      BY <1>1, <2>1, <3>1, <3>2, <3>3 DEF Claimed
  <2> QED
    BY <2>1, <2>3 DEF Running
<1> QED
  BY <1>2, <1>3

LEMMA RunningStep ==
  ASSUME Typed, Structure, Stored, Running, [Next]_vars
  PROVE  Running'
<1>1. ASSUME NEW p \in Paths, Type(p) \/ Undo(p) PROVE Running'
  BY <1>1, TypeRuns
<1>2. ASSUME NEW p \in Paths, Create(p) PROVE Running'
  BY <1>2, CreateSteps, QueueRuns
<1>3. ASSUME NEW p \in Paths, Delete(p) PROVE Running'
  <2>1. \A r \in Paths : timer'[r] = timer[r] \/ timer'[r] = 0
    BY <1>3, DeleteSteps DEF Typed, Files
  <2> QED
    BY <1>3, <2>1, DeleteSteps, QueueRuns
<1>4. ASSUME NEW p \in Paths, NEW to \in Paths, Rename(p, to) PROVE Running'
  BY <1>4, RenameSteps, QueueRuns
<1>5. CASE Launch
  BY <1>5, LaunchRuns
<1>6. CASE Flushed
  <2>1. /\ launch'.shown = launch.shown /\ launch'.waits = launch.waits /\ launch.waits = {}
        /\ UNCHANGED <<timer, queue, net, store, doubt, partial>>
    BY <1>6 DEF Flushed, Typed
  <2> QED
    BY <2>1 DEF Running, Claimed, Untouched, Underway
<1>7. CASE Snapshot \/ Open
  <2>1. launch' = NoRun
    BY <1>7 DEF Snapshot, Open
  <2> QED
    BY <2>1, NothingClaimed DEF NoRun
<1>8. CASE UNCHANGED vars
  BY <1>8 DEF vars, Running, Claimed, Untouched, Underway
<1>9. ASSUME NEW s \in Slots, Serve(s) PROVE Running'
  <2>1. ASSUME NEW q, ServesFiles(s, q), Reached(net[s]) => Advances(s, q) PROVE Running'
    BY <2>1, ServeRuns
  <2>2. CASE Wipe(s) \/ Seed(s)
    BY <2>2, WipeServes, SeedServes, ResetServeRuns
  <2> QED
    BY <1>9, <2>1, <2>2, ServeKinds
<1>10. ASSUME NEW s \in Slots, Fail(s) PROVE Running'
  BY <1>10, FailRuns
<1>11. ASSUME NEW s \in Slots, Dequeue(s) PROVE Running'
  BY <1>11, DequeueRuns
<1>12. ASSUME NEW s \in Slots, Reset(s) PROVE Running'
  <2>1. launch'.shown = Nothing /\ launch'.pc = launch.pc /\ launch'.waits = launch.waits
    BY <1>12, ResetSends
  <2> QED
    BY <2>1, NothingClaimed DEF Running
<1>13. ASSUME NEW s \in Slots, NEW p \in Paths, Save(p, s) PROVE Running'
  BY <1>13, SaveRuns
<1>14. ASSUME NEW s \in Slots, NEW p \in Paths, Copy(p, s) PROVE Running'
  <2>1. launch'.shown = Nothing /\ launch'.pc = "copy"
    BY <1>14 DEF Copy
  <2> QED
    BY <2>1, NothingClaimed
<1> QED
  BY <1>1, <1>2, <1>3, <1>4, <1>5, <1>6, <1>7, <1>8, <1>9, <1>10, <1>11, <1>12, <1>13, <1>14
  DEF Next

LEMMA RunningInv == Spec => []Running
<1>1. Init => Running
  BY DEF Init, NoRun, Running, Nothing
<1>2. (Typed /\ Structure /\ ShownSaved /\ Stored) /\ Running /\ [Next]_vars => Running'
  BY RunningStep
<1> QED
  BY <1>1, <1>2, StoredInv, PTL DEF Spec

\* A job runs the files as they were shown when Run was pressed, if nothing was
\* on its way then and no save of the flush failed: flush sends what is not
\* saved, after an earlier failed save too, and the job is posted when all of it
\* is answered (useWorkspaceSync.ts:87-98, SparkPlatformWorkspace.tsx:874-892),
\* and nothing else touches those files without taking the claim back.  The
\* files excepted are those of SavedIsStoredHolds.
THEOREM RunTakesShownHolds == Spec => RunTakesShown
<1>1. ASSUME Running, launch.pc = "post"
      PROVE  \A p \in Known : launch.shown[p] # 0 => store[p] = launch.shown[p]
  BY <1>1 DEF Running, Claimed, Untouched, Known
<1>2. Running /\ [Next]_vars =>
        [(launch.pc = "post" /\ launch'.pc = "none" /\ upsets' = upsets) =>
          \A p \in Known : launch.shown[p] # 0 => store[p] = launch.shown[p]]_vars
  BY <1>1
<1> QED
  BY <1>2, RunningInv, PTL DEF Spec, RunTakesShown
=============================================================================
