-------------------------- MODULE BoardGameProofs --------------------------
(***************************************************************************)
(* The safety properties of BoardGame, for any boards, requests and bounds.*)
(***************************************************************************)
EXTENDS BoardGame, TLAPS

StepOf(g) ==
  spec.mode = "unlock" => /\ g.fills \cap Required \subseteq 1..g.step
                          /\ 1..g.step \subseteq g.fills \cup robbed

\* A game of the right type that goes as far as its step.
Sane(g) == g \in Games /\ StepOf(g)

\* Inv, said of each copy.
Typed ==
  /\ spec \in Boards
  /\ Sane(mem) /\ Sane(disk)
  /\ req \in [Requests -> [pc: {"idle", "record", "store", "storeThen", "recordThen"},
                           game: Games, due: Nat, fair: BOOLEAN]]
  /\ \A r \in Requests : StepOf(req[r].game)
  /\ tally \in [lost: 0..spec.lives, opened: Nat, answered: BOOLEAN, resets: Nat]
  /\ upsets \in 0..MaxUpsets
  /\ crossed \in BOOLEAN /\ torn \in BOOLEAN /\ robbed \subseteq Required

LEMMA TypedIsInv == Typed <=> Inv
BY DEF Typed, Inv, TypeOK, StepMatchesBoard, Copies, Sane, StepOf

LEMMA BoardType ==
  ASSUME Typed
  PROVE  /\ spec.mode \in {"classic", "unlock", "debate"} /\ spec.steps \in Nat \ {0}
         /\ spec.lives \in Nat \ {0} /\ spec.finale \in BOOLEAN
         /\ MaxRequests \in Nat /\ MaxResets \in Nat /\ MaxUpsets \in Nat
BY BoardGameAssumption DEF Typed

LEMMA NoGameSane ==
  ASSUME spec \in Boards PROVE Sane(NoGame)
BY BoardGameAssumption DEF Sane, StepOf, NoGame, Games, Slots, Required

LEMMA FreshSane ==
  ASSUME spec \in Boards, NEW n \in 0..MaxResets PROVE Sane(Fresh(n))
BY BoardGameAssumption DEF Sane, StepOf, Fresh, Games, Slots, Required

\* A game read from memory is sane, and as far as it was.
LEMMA CoercedSane ==
  ASSUME Typed, NEW g, Sane(g)
  PROVE  /\ Sane(Coerced(g)) /\ Coerced(g).lives = g.lives /\ Coerced(g).step = g.step
         /\ Coerced(g).resets = g.resets /\ Coerced(g).finale = g.finale
<1> spec.steps \in Nat
  BY BoardType
<1>1. PICK F, p : /\ F = g.fills \/ F = g.fills \cup {0}
                  /\ p \in {g.guest, 0}
                  /\ Coerced(g) = [g EXCEPT !.fills = F, !.guest = p]
  <2>1. g = [g EXCEPT !.fills = g.fills, !.guest = g.guest]
    BY DEF Sane, Games
  <2> QED BY <2>1 DEF Coerced
<1>2. F \subseteq Slots /\ p \in Slots /\ F \cap Required = g.fills \cap Required /\ g.fills \subseteq F
  BY <1>1 DEF Sane, Games, Slots, Required
<1>3. StepOf([g EXCEPT !.fills = F, !.guest = p])
  BY <1>2 DEF Sane, StepOf, Games
<1> QED BY <1>1, <1>2, <1>3 DEF Sane, Games

\* What a restart makes of a game, once what it took is noted.
LEMMA ReloadedSame ==
  ASSUME NEW g \in Games
  PROVE  /\ Reloaded(g) \in Games /\ Reloaded(g).lives = g.lives /\ Reloaded(g).step = g.step
         /\ Reloaded(g).resets = g.resets /\ Reloaded(g).finale = g.finale
BY DEF Reloaded, Games
-----------------------------------------------------------------------------
Tallies == [lost: 0..spec.lives, opened: Nat, answered: BOOLEAN, resets: Nat]

LEMMA TypedCarry ==
  ASSUME Typed, NEW r \in Requests, NEW g, Sane(g), tally' \in Tallies,
         NEW pc \in {"record", "store", "storeThen"}, Carry(r, g, pc)
  PROVE  /\ req' \in [Requests -> [pc: {"idle", "record", "store", "storeThen", "recordThen"},
                                   game: Games, due: Nat, fair: BOOLEAN]]
         /\ \A q \in Requests : StepOf(req'[q].game)
<1>1. CASE pc = "store"
  <2>1. req' = [req EXCEPT ![r] = [pc |-> "store", game |-> g, due |-> 0, fair |-> FALSE]]
    BY <1>1 DEF Carry, Writing
  <2>2. [pc |-> "store", game |-> g, due |-> 0, fair |-> FALSE]
          \in [pc: {"idle", "record", "store", "storeThen", "recordThen"},
               game: Games, due: Nat, fair: BOOLEAN]
    BY DEF Sane
  <2> QED BY <2>1, <2>2 DEF Typed, Sane
<1>2. CASE pc # "store"
  <2> DEFINE due == IF tally'.resets > 0 THEN 1 ELSE Larger(1, Minus(3, tally'.lost))
  <2>1. due \in Nat
    BY BoardType DEF Tallies, Larger, Minus
  <2>2. req' = [req EXCEPT ![r] = [pc |-> pc, game |-> g, fair |-> tally'.answered, due |-> due]]
    BY <1>2 DEF Carry
  <2>3. tally'.answered \in BOOLEAN
    BY DEF Tallies
  <2> HIDE DEF due
  <2> QED BY <2>1, <2>2, <2>3 DEF Typed, Sane
<1> QED BY <1>1, <1>2

\* What a request does when it arrives leaves every copy sane.
LEMMA TypedArrival ==
  ASSUME Typed, NEW r \in Requests, NEW g, Sane(g), tally' \in Tallies,
         NEW pc \in {"record", "store", "storeThen"},
         Keep(r, g, pc) \/ (pc = "record" /\ Record(r, g)), UNCHANGED untouched
  PROVE  Typed'
<1>1. Carry(r, g, pc)
  BY DEF Keep, Record
<1>2. spec' = spec /\ disk' = disk /\ upsets' = upsets /\ robbed' = robbed
  BY DEF untouched
<1>3. mem' = g \/ mem' = mem
  BY DEF Keep, Record
<1>4. crossed' \in BOOLEAN /\ torn' \in BOOLEAN
  BY DEF Typed, Keep, Record, Cross, Tear
<1>5. /\ req' \in [Requests -> [pc: {"idle", "record", "store", "storeThen", "recordThen"},
                                   game: Games, due: Nat, fair: BOOLEAN]]
      /\ \A q \in Requests : StepOf(req'[q].game)
  BY <1>1, TypedCarry
<1>6. Games' = Games /\ Required' = Required /\ Requests' = Requests
  BY <1>2 DEF Games, Slots, Required, Requests
<1>7. Sane(disk)'
  BY <1>2, <1>6 DEF Typed, Sane, StepOf
<1>8. Sane(mem)'
  <2>1. PICK h : h = mem' /\ Sane(h)
    BY <1>3 DEF Typed
  <2> QED BY <1>2, <1>6, <2>1 DEF Sane, StepOf
<1>9. \A q \in Requests : StepOf(req[q].game)'
  <2> SUFFICES ASSUME NEW q \in Requests PROVE StepOf(req[q].game)'
    OBVIOUS
  <2>1. PICK h : h = req'[q].game /\ StepOf(h)
    BY <1>5
  <2> QED BY <1>2, <1>6, <2>1 DEF StepOf
<1> QED BY <1>2, <1>4, <1>5, <1>6, <1>7, <1>8, <1>9 DEF Typed, Tallies

LEMMA PlacedSane ==
  ASSUME Typed, NEW g, Sane(g), NEW f \in SUBSET Slots, NEW p \in Slots
  PROVE  /\ Sane(Placed(g, f, p)) /\ Placed(g, f, p).lives = g.lives
         /\ Placed(g, f, p).step = g.step /\ Placed(g, f, p).resets = g.resets
         /\ Placed(g, f, p).finale = g.finale
<1>1. CASE spec.mode = "unlock"
  <2> DEFINE F == (Coerced(g).fills \cap Required) \cup (f \ Required)
             P == IF 0 \in f THEN 0 ELSE p
  <2>1. PICK h : h = Coerced(g)
    OBVIOUS
  <2>2. /\ Sane(h) /\ h.lives = g.lives /\ h.step = g.step /\ h.resets = g.resets
        /\ h.finale = g.finale
    BY <2>1, CoercedSane
  <2>3. F \cap Required = h.fills \cap Required /\ F \subseteq Slots /\ P \in Slots
    <3>1. F = (h.fills \cap Required) \cup (f \ Required)
      BY <2>1
    <3>2. Required \subseteq Slots /\ 0 \in Slots
      BY BoardType DEF Slots, Required
    <3> HIDE DEF F
    <3> QED BY <3>1, <3>2 DEF Sane
  <2>4. Placed(g, f, p) = [h EXCEPT !.fills = F, !.guest = P]
    BY <1>1, <2>1 DEF Placed
  <2>5. robbed \subseteq Required /\ 1..h.step \subseteq Required
    BY <2>2, BoardType DEF Typed, Sane, Games, Required
  <2> HIDE DEF F, P
  <2>6. StepOf([h EXCEPT !.fills = F, !.guest = P])
    BY <1>1, <2>2, <2>3, <2>5 DEF Sane, StepOf, Games
  <2> QED BY <2>2, <2>3, <2>4, <2>6 DEF Sane, Games
<1>2. CASE spec.mode # "unlock"
  BY <1>2 DEF Placed, Sane, StepOf, Games
<1> QED BY <1>1, <1>2

LEMMA LivesSane ==
  ASSUME Typed, NEW g, Sane(g), NEW n \in Nat PROVE Sane(LoseLives(g, n))
<1>1. Minus(g.lives, n) \in 0..spec.lives
  BY BoardType DEF Minus, Sane, Games
<1> QED BY <1>1 DEF LoseLives, Sane, StepOf, Games

LEMMA LoseType ==
  ASSUME Typed, NEW n \in Nat, Lose(n) PROVE tally' \in Tallies
BY BoardType DEF Typed, Lose, Tallies

LEMMA OpenedSane ==
  ASSUME Typed, NEW h, Sane(h), NEW s \in Required, s = h.step + 1
  PROVE  Sane([h EXCEPT !.fills = @ \cup {s}, !.step = @ + 1])
<1>1. h \in Games /\ s \in Slots /\ h.step \in Nat /\ h.step + 1 \in 0..spec.steps
  BY BoardType DEF Sane, Games, Slots, Required
<1>2. 1..(h.step + 1) = (1..h.step) \cup {s}
  BY <1>1
<1>3. StepOf([h EXCEPT !.fills = @ \cup {s}, !.step = @ + 1])
  BY <1>1, <1>2 DEF Sane, StepOf, Games
<1> QED BY <1>1, <1>3 DEF Sane, Games

LEMMA TypedStep == Typed /\ [Next]_vars => Typed'
<1> SUFFICES ASSUME Typed, [Next]_vars PROVE Typed'
  OBVIOUS
<1> mem \in Games /\ Sane(mem) /\ Sane(disk) /\ tally \in Tallies /\ spec \in Boards
  BY DEF Typed, Sane, Tallies
<1> 0 \in Slots
  BY BoardType DEF Slots
<1>s. Sane(seen) /\ seen.lives = mem.lives /\ seen.step = mem.step
  BY CoercedSane DEF seen
<1>1. ASSUME NEW r \in Requests, NEW f \in SUBSET Slots, NEW p \in Slots, Save(r, f, p)
      PROVE Typed'
  BY <1>1, PlacedSane, TypedArrival DEF Save
<1>2. ASSUME NEW r \in Requests, NEW f \in SUBSET Slots, Submit(r, f) PROVE Typed'
  <2> DEFINE g == Placed(mem, f, 0)
  <2>1. Sane(g) /\ Sane(LoseLives(g, 1))
    BY PlacedSane, LivesSane
  <2>2. tally' \in Tallies
    BY <1>2, LoseType DEF Submit
  <2>3. UNCHANGED untouched /\ (Keep(r, g, "storeThen") \/ Keep(r, LoseLives(g, 1), "storeThen"))
    BY <1>2 DEF Submit
  <2> QED BY <2>1, <2>2, <2>3, TypedArrival
<1>3. ASSUME NEW r \in Requests, NEW right \in BOOLEAN, FinaleAnswer(r, right) PROVE Typed'
  <2> DEFINE g == [seen EXCEPT !.finale = TRUE]
  <2>1. Sane(g) /\ Sane(LoseLives(seen, 1))
    BY <1>s, LivesSane DEF Sane, StepOf, Games
  <2>2. tally' \in Tallies
    BY <1>3, LoseType DEF FinaleAnswer, Tallies
  <2>3. UNCHANGED untouched /\ (Record(r, g) \/ Keep(r, LoseLives(seen, 1), "store"))
    BY <1>3 DEF FinaleAnswer
  <2> QED BY <2>1, <2>2, <2>3, TypedArrival
<1>4. ASSUME NEW r \in Requests, NEW right \in BOOLEAN, NEW s \in Required, Check(r, s, right)
      PROVE Typed'
  <2> DEFINE g == [seen EXCEPT !.fills = @ \cup {s}, !.step = @ + 1]
  <2>1. Sane(g) /\ Sane(LoseLives(seen, 1))
    BY <1>s, <1>4, OpenedSane, LivesSane DEF Check
  <2>2. tally' \in Tallies
    BY <1>4, LoseType DEF Check, Tallies
  <2>3. UNCHANGED untouched /\ (Record(r, g) \/ Keep(r, g, "store") \/ Keep(r, LoseLives(seen, 1), "store"))
    BY <1>4 DEF Check
  <2> HIDE DEF g
  <2> QED BY <2>1, <2>2, <2>3, TypedArrival
<1>5. ASSUME NEW r \in Requests, NEW n \in 0..spec.lives + 1, Claims(r, n) PROVE Typed'
  <2> DEFINE g == [LoseLives(seen, n) EXCEPT !.judged = TRUE]
  <2>0. n \in Nat
    BY BoardType
  <2>1. Sane(g)
    BY <1>s, <2>0, LivesSane DEF Sane, StepOf, Games
  <2>2. tally' \in Tallies
    BY <1>5, <2>0, LoseType DEF Claims
  <2>3. UNCHANGED untouched /\ Keep(r, g, "store")
    BY <1>5 DEF Claims
  <2> HIDE DEF g
  <2> QED BY <2>1, <2>2, <2>3, TypedArrival
<1>6. ASSUME NEW r \in Requests, Reset(r) PROVE Typed'
  <2>1. mem.resets + 1 \in 0..MaxResets
    BY <1>6, BoardType DEF Reset, Games
  <2>2. tally' \in Tallies
    BY <1>6, <2>1, BoardType DEF Reset, NewTally, Tallies
  <2>3. UNCHANGED untouched /\ Keep(r, Fresh(mem.resets + 1), "store")
    BY <1>6 DEF Reset
  <2> QED BY <2>1, <2>2, <2>3, FreshSane, TypedArrival
<1>7. ASSUME NEW r \in Requests, Recorded(r) PROVE Typed'
  <2>1. CASE Recording(r) /\ mem' = req[r].game
             /\ req' = [req EXCEPT ![r] = Writing(req[r].game)]
             /\ Tear(r)
    BY <1>7, <2>1 DEF Recorded, Typed, Sane, StepOf, Writing, Tear, Games, Slots, Required
  <2>2. CASE req' = [req EXCEPT ![r] = Idle] /\ UNCHANGED <<mem, torn>>
    BY <1>7, <2>2, NoGameSane DEF Recorded, Typed, Sane, StepOf, Idle, Games, Slots, Required
  <2>3. Recorded(r)
    BY <1>7
  <2> QED BY <2>1, <2>2, <2>3, Zenon DEF Recorded
<1>8. ASSUME NEW r \in Requests, Store(r) PROVE Typed'
  BY <1>8, NoGameSane DEF Store, Typed, Sane, StepOf, Idle, Games, Slots, Required
<1>9. ASSUME NEW r \in Requests, Fail(r) PROVE Typed'
  BY <1>9, NoGameSane, BoardType DEF Fail, Upset, Typed, Sane, StepOf, Idle, Games, Slots, Required
<1>10. ASSUME Crash PROVE Typed'
  <2>1. Idle \in [pc: {"idle", "record", "store", "storeThen", "recordThen"},
                  game: Games, due: Nat, fair: BOOLEAN] /\ StepOf(Idle.game)
    BY NoGameSane DEF Idle, Sane
  <2>2. req' \in [Requests -> [pc: {"idle", "record", "store", "storeThen", "recordThen"},
                              game: Games, due: Nat, fair: BOOLEAN]]
        /\ \A r \in Requests : StepOf(req'[r].game)
    BY <1>10, <2>1 DEF Crash
  <2>6. robbed \subseteq robbed' /\ robbed' \subseteq Required
    BY <1>10 DEF Crash, Typed, Twice
  <2>3. crossed' \in BOOLEAN /\ torn' \in BOOLEAN
    BY <1>10 DEF Crash
  <2>5. upsets' \in 0..MaxUpsets
    BY <1>10, BoardType DEF Crash, Upset, Typed
  <2>4. spec' = spec /\ mem' = Reloaded(disk) /\ disk' = disk /\ tally' = tally
    BY <1>10 DEF Crash
  <2>7. mem' \in Games /\ disk \in Games /\ mem'.step = disk.step
    BY <2>4, ReloadedSame DEF Sane
  <2>8. StepOf(mem)'
    <3>1. mem'.fills \subseteq disk.fills /\ disk.fills \subseteq mem'.fills \cup robbed'
      BY <1>10, <2>4 DEF Crash, Reloaded, Sane, Games
    <3> QED BY <2>4, <2>6, <2>7, <3>1 DEF Sane, StepOf, Required
  <2>9. StepOf(disk)' /\ \A r \in Requests : StepOf(req[r].game)'
    BY <2>2, <2>4, <2>6 DEF Sane, StepOf, Required
  <2>10. Games' = Games
    BY <2>4 DEF Games, Slots, Required
  <2> QED BY <2>2, <2>3, <2>4, <2>5, <2>6, <2>7, <2>8, <2>9, <2>10 DEF Typed, Sane, Required
<1>11. ASSUME UNCHANGED vars PROVE Typed'
  BY <1>11 DEF vars, Typed, Sane, StepOf, Games, Slots, Required
<1> QED BY <1>1, <1>2, <1>3, <1>4, <1>5, <1>6, <1>7, <1>8, <1>9, <1>10, <1>11 DEF Next

\* Spec keeps Typed, so Inv.
THEOREM InvHolds == Spec => []Inv
<1>1. ASSUME Init PROVE Typed
  <2>1. spec \in Boards /\ spec.lives \in Nat /\ 0 \in 0..MaxResets /\ 0 \in 0..MaxUpsets
    BY <1>1, BoardGameAssumption DEF Init
  <2>2. Sane(mem) /\ Sane(disk)
    BY <1>1, <2>1, FreshSane DEF Init
  <2>3. Idle \in [pc: {"idle", "record", "store", "storeThen", "recordThen"},
                  game: Games, due: Nat, fair: BOOLEAN] /\ StepOf(Idle.game)
    BY <2>1, NoGameSane DEF Idle, Sane
  <2>4. tally \in [lost: 0..spec.lives, opened: Nat, answered: BOOLEAN, resets: Nat]
    BY <1>1, <2>1 DEF Init, NewTally
  <2> QED BY <1>1, <2>1, <2>2, <2>3, <2>4 DEF Init, Typed
<1> QED BY <1>1, TypedStep, TypedIsInv, PTL DEF Spec
-----------------------------------------------------------------------------
(* The game that was played.  A request that records a submission holds    *)
(* the game alone, unless another one comes in between.                    *)

Follows(g, t) == /\ g.lives = spec.lives - t.lost /\ g.step = t.opened
                 /\ g.resets = t.resets /\ g.finale = t.answered

Nobody == \A r \in Requests : ~Recording(r)

Played ==
  ~crossed =>
    /\ \A q, r \in Requests : Recording(q) /\ Recording(r) => q = r
    /\ \A r \in Requests : Recording(r) => Follows(req[r].game, tally)
    /\ Nobody => Follows(mem, tally)

Submitting(r) == req[r].pc \in {"record", "storeThen", "recordThen"}

Deserved ==
  \A r \in Requests : Submitting(r) /\ Passed(req[r].game) =>
    /\ Playable(req[r].game)
    /\ ~crossed => /\ spec.finale => req[r].fair
                   /\ Stars(req[r].game) = req[r].due

LEMMA CarryAt ==
  ASSUME Typed, NEW r \in Requests, NEW g, NEW pc \in {"record", "store", "storeThen"},
         Carry(r, g, pc)
  PROVE  /\ req'[r].pc = pc /\ req'[r].game = g
         /\ pc # "store" =>
              /\ req'[r].fair = tally'.answered
              /\ req'[r].due = IF tally'.resets > 0 THEN 1
                               ELSE Larger(1, Minus(3, tally'.lost))
         /\ \A q \in Requests \ {r} : req'[q] = req[q]
<1>1. CASE pc = "store"
  <2>1. req' = [req EXCEPT ![r] = Writing(g)]
    BY <1>1 DEF Carry
  <2> QED BY <1>1, <2>1 DEF Typed, Writing
<1>2. CASE pc # "store"
  BY <1>2 DEF Typed, Carry
<1> QED BY <1>1, <1>2

\* The stars of a game that follows the tally are those the tally deserves.
LEMMA StarsFollow ==
  ASSUME Typed, NEW t \in Tallies, NEW g, g.lives \in 0..spec.lives, Follows(g, t)
  PROVE  Stars(g) = IF t.resets > 0 THEN 1 ELSE Larger(1, Minus(3, t.lost))
<1>1. spec.lives \in Nat /\ t.lost \in 0..spec.lives
  BY BoardType DEF Tallies
<1>2. spec.lives - g.lives = t.lost
  BY <1>1 DEF Follows
<1> QED BY <1>2 DEF Stars, Follows

\* An arriving request that finds nobody recording sees the game that was
\* played, and does to it what it does to the tally.
LEMMA Arrival ==
  ASSUME Typed, Played, Deserved, NEW r \in Requests, Arrives(r), NEW g, Sane(g),
         NEW pc \in {"record", "store", "storeThen"},
         (pc # "record" /\ Keep(r, g, pc)) \/ (pc = "record" /\ Record(r, g)),
         spec' = spec, tally' \in Tallies,
         Follows(mem, tally) => Follows(g, tally'),
         Passed(g) /\ pc # "store" => Playable(g)
  PROVE  Played' /\ Deserved'
<1>1. Carry(r, g, pc) /\ crossed' = (crossed \/ \E q \in Requests \ {r} : Recording(q))
  BY DEF Keep, Record, Cross
<1>2. ~Recording(r)
  BY DEF Arrives, Idle, Recording
<1>3. ASSUME ~crossed' PROVE ~crossed /\ Nobody /\ Follows(g, tally')
  BY <1>1, <1>2, <1>3 DEF Nobody, Played
<1>4. /\ req'[r].pc = pc /\ req'[r].game = g
      /\ \A q \in Requests \ {r} : req'[q] = req[q]
  BY <1>1, CarryAt
<1>5. Played'
  <2> SUFFICES ASSUME ~crossed'
               PROVE  /\ \A q, p \in Requests : Recording(q)' /\ Recording(p)' => q = p
                      /\ \A q \in Requests : Recording(q)' => Follows(req[q].game, tally)'
                      /\ Nobody' => Follows(mem, tally)'
    BY DEF Played
  <2>1. \A q \in Requests : Recording(q)' => q = r
    BY <1>3, <1>4 DEF Nobody, Recording
  <2>2. Recording(r)' <=> pc = "record"
    BY <1>4 DEF Recording
  <2>3. pc # "record" => mem' = g
    BY DEF Keep
  <2>4. pc # "record" => Follows(mem, tally)'
    BY <1>3, <2>3 DEF Follows
  <2>5. Follows(req[r].game, tally)'
    BY <1>3, <1>4 DEF Follows
  <2> QED BY <2>1, <2>2, <2>4, <2>5 DEF Nobody
<1>6. Deserved'
  <2> SUFFICES ASSUME NEW q \in Requests, Submitting(q)', Passed(req[q].game)'
               PROVE  /\ Playable(req[q].game)'
                      /\ ~crossed' => /\ spec'.finale => req'[q].fair
                                      /\ Stars(req[q].game)' = req'[q].due
    BY DEF Deserved
  <2>1. CASE q # r
    <3>1. req'[q] = req[q]
      BY <1>4, <2>1
    <3>2. Submitting(q) /\ Passed(req[q].game)
      BY <3>1 DEF Submitting, Passed, BoardRight, Slots
    <3>3. ~crossed' => ~crossed
      BY <1>1
    <3> QED BY <3>1, <3>2, <3>3 DEF Deserved, Playable, Stars
  <2>2. CASE q = r
    <3>1. pc # "store" /\ Passed(g)
      BY <1>4, <2>2 DEF Submitting, Passed, BoardRight, Slots
    <3>2. Playable(req[q].game)'
      BY <1>4, <2>2, <3>1 DEF Playable
    <3>3. ASSUME ~crossed' PROVE spec'.finale => req'[q].fair
      BY <1>1, <1>3, <2>2, <3>1, <3>3, CarryAt DEF Follows, Passed
    <3>4. ASSUME ~crossed' PROVE Stars(req[q].game)' = req'[q].due
      <4>1. Stars(g) = req'[r].due
        BY <1>1, <1>3, <3>1, <3>4, CarryAt, StarsFollow DEF Sane, Games
      <4> QED BY <1>4, <2>2, <4>1 DEF Stars
    <3> QED BY <3>2, <3>3, <3>4
  <2> QED BY <2>1, <2>2
<1> QED BY <1>5, <1>6

\* A step that starts no submission keeps what is deserved.
LEMMA DeservedKept ==
  ASSUME Deserved, spec' = spec, ~crossed' => ~crossed,
         \A q \in Requests : Submitting(q)' =>
           /\ Submitting(q) /\ req'[q].game = req[q].game
           /\ req'[q].fair = req[q].fair /\ req'[q].due = req[q].due
  PROVE  Deserved'
<1> SUFFICES ASSUME NEW q \in Requests, Submitting(q)', Passed(req[q].game)'
             PROVE  /\ Playable(req[q].game)'
                    /\ ~crossed' => /\ spec'.finale => req'[q].fair
                                    /\ Stars(req[q].game)' = req'[q].due
  BY DEF Deserved
<1>1. /\ Submitting(q) /\ req'[q].game = req[q].game
      /\ req'[q].fair = req[q].fair /\ req'[q].due = req[q].due
  OBVIOUS
<1>2. Passed(req[q].game)
  BY <1>1 DEF Passed, BoardRight, Slots
<1>3. Playable(req[q].game)' /\ Stars(req[q].game)' = Stars(req[q].game)
  BY <1>1, <1>2 DEF Deserved, Playable, Stars
<1> QED BY <1>1, <1>2, <1>3 DEF Deserved

LEMMA PlayedStep ==
  Typed /\ Typed' /\ Played /\ Deserved /\ [Next]_vars => Played' /\ Deserved'
<1> SUFFICES ASSUME Typed, Typed', Played, Deserved, [Next]_vars PROVE Played' /\ Deserved'
  OBVIOUS
<1> mem \in Games /\ Sane(mem) /\ tally \in Tallies /\ tally' \in [lost: 0..spec'.lives, opened: Nat, answered: BOOLEAN, resets: Nat]
  BY DEF Typed, Sane, Tallies
<1> USE BoardType
<1> 0 \in Slots
  BY DEF Slots
<1>s. /\ Sane(seen) /\ seen.lives = mem.lives
      /\ Follows(mem, tally) => Follows(seen, tally)
  BY CoercedSane DEF seen, Follows
<1>0. ASSUME NEW n \in Nat, Lose(n), Follows(mem, tally)
      PROVE  \A g \in Games : Follows(g, tally) => Follows(LoseLives(g, n), tally')
  BY <1>0 DEF Lose, Follows, LoseLives, Minus, Tallies, Games
<1>1. ASSUME NEW r \in Requests, NEW f \in SUBSET Slots, NEW p \in Slots, Save(r, f, p)
      PROVE  Played' /\ Deserved'
  <2> DEFINE g == Placed(mem, f, p)
  <2>1. Sane(g) /\ (Follows(mem, tally) => Follows(g, tally))
    BY PlacedSane DEF Follows
  <2>2. spec' = spec /\ tally' = tally /\ Keep(r, g, "store") /\ Arrives(r)
    BY <1>1 DEF Save, untouched
  <2> HIDE DEF g
  <2> QED BY <2>1, <2>2, Arrival
<1>2. ASSUME NEW r \in Requests, NEW f \in SUBSET Slots, Submit(r, f) PROVE Played' /\ Deserved'
  <2> DEFINE g == Placed(mem, f, 0)
             w == LoseLives(g, 1)
  <2>1. Sane(g) /\ Sane(w) /\ (Follows(mem, tally) => Follows(g, tally)) /\ g.lives = mem.lives
    <3>1. /\ Sane(g) /\ g.lives = mem.lives /\ g.step = mem.step /\ g.resets = mem.resets
          /\ g.finale = mem.finale
      BY PlacedSane
    <3> HIDE DEF g
    <3> QED BY <3>1, LivesSane DEF Follows
  <2>2. spec' = spec /\ Arrives(r) /\ Playable(mem)
    BY <1>2 DEF Submit, untouched
  <2>3. CASE BoardRight(g) /\ tally' = tally /\ Keep(r, g, "storeThen")
    <3>1. Playable(g)
      BY <2>1, <2>2 DEF Playable
    <3> HIDE DEF g, w
    <3> QED BY <2>1, <2>2, <2>3, <3>1, Arrival
  <2>4. CASE ~BoardRight(g) /\ Lose(1) /\ Keep(r, w, "storeThen")
    <3>1. ~Passed(w)
      BY <2>1, <2>4 DEF Passed, BoardRight, LoseLives, Sane, Games
    <3>2. Follows(mem, tally) => Follows(w, tally')
      BY <1>0, <2>1, <2>4 DEF Sane
    <3>3. tally' \in Tallies
      BY <2>4, LoseType
    <3> HIDE DEF g, w
    <3> QED BY <2>1, <2>2, <2>4, <3>1, <3>2, <3>3, Arrival
  <2> QED BY <1>2, <2>3, <2>4 DEF Submit
<1>3. ASSUME NEW r \in Requests, NEW right \in BOOLEAN, FinaleAnswer(r, right)
      PROVE  Played' /\ Deserved'
  <2> DEFINE g == [seen EXCEPT !.finale = TRUE]
             w == LoseLives(seen, 1)
  <2>1. Sane(g) /\ Sane(w)
    BY <1>s, LivesSane DEF Sane, StepOf, Games
  <2>2. spec' = spec /\ Arrives(r) /\ Playable(mem)
    BY <1>3 DEF FinaleAnswer, untouched
  <2>3. CASE tally' = [tally EXCEPT !.answered = TRUE] /\ Record(r, g)
    <3>1. Playable(g)
      BY <1>s, <2>2 DEF Playable, Sane, Games
    <3>2. Follows(mem, tally) => Follows(g, tally')
      BY <1>s, <2>3 DEF Follows, Sane, Games, Tallies
    <3>3. tally' \in Tallies
      BY <2>3 DEF Tallies
    <3> HIDE DEF g, w
    <3> QED BY <2>1, <2>2, <2>3, <3>1, <3>2, <3>3, Arrival
  <2>4. CASE Lose(1) /\ Keep(r, w, "store")
    <3>1. Follows(mem, tally) => Follows(w, tally')
      BY <1>0, <1>s, <2>4 DEF Sane
    <3>2. tally' \in Tallies
      BY <2>4, LoseType
    <3> HIDE DEF g, w
    <3> QED BY <2>1, <2>2, <2>4, <3>1, <3>2, Arrival
  <2> QED BY <1>3, <2>3, <2>4 DEF FinaleAnswer
<1>4. ASSUME NEW r \in Requests, NEW right \in BOOLEAN, NEW s \in Required, Check(r, s, right)
      PROVE  Played' /\ Deserved'
  <2> DEFINE g == [seen EXCEPT !.fills = @ \cup {s}, !.step = @ + 1]
             w == LoseLives(seen, 1)
  <2>0. seen.step = mem.step
    BY CoercedSane DEF seen
  <2>1. Sane(g) /\ Sane(w)
    BY <1>s, <1>4, <2>0, OpenedSane, LivesSane DEF Check
  <2>2. spec' = spec /\ Arrives(r) /\ Playable(mem)
    BY <1>4 DEF Check, untouched
  <2>3. CASE tally' = [tally EXCEPT !.opened = @ + 1] /\ (Record(r, g) \/ Keep(r, g, "store"))
    <3>1. Playable(g)
      BY <1>s, <2>2 DEF Playable, Sane, Games
    <3>2. Follows(mem, tally) => Follows(g, tally')
      BY <1>s, <2>3 DEF Follows, Sane, Games, Tallies
    <3>3. tally' \in Tallies
      BY <2>3 DEF Tallies
    <3> HIDE DEF g, w
    <3> QED BY <2>1, <2>2, <2>3, <3>1, <3>2, <3>3, Arrival
  <2>4. CASE Lose(1) /\ Keep(r, w, "store")
    <3>1. Follows(mem, tally) => Follows(w, tally')
      BY <1>0, <1>s, <2>4 DEF Sane
    <3>2. tally' \in Tallies
      BY <2>4, LoseType
    <3> HIDE DEF g, w
    <3> QED BY <2>1, <2>2, <2>4, <3>1, <3>2, Arrival
  <2> QED BY <1>4, <2>3, <2>4 DEF Check
<1>5. ASSUME NEW r \in Requests, NEW n \in 0..spec.lives + 1, Claims(r, n)
      PROVE  Played' /\ Deserved'
  <2> DEFINE w == LoseLives(seen, n)
             g == [w EXCEPT !.judged = TRUE]
  <2>0. n \in Nat
    OBVIOUS
  <2>1. Sane(w) /\ Sane(g)
    <3>1. Sane(w)
      BY <1>s, <2>0, LivesSane
    <3> HIDE DEF w
    <3> QED BY <3>1 DEF Sane, StepOf, Games
  <2>2. spec' = spec /\ Arrives(r) /\ Lose(n) /\ Keep(r, g, "store")
    BY <1>5 DEF Claims, untouched
  <2>3. Follows(mem, tally) => Follows(w, tally')
    BY <1>0, <1>s, <2>0, <2>2 DEF Sane
  <2>4. Follows(mem, tally) => Follows(g, tally')
    <3> HIDE DEF w
    <3> QED BY <2>1, <2>3 DEF Follows, Sane, Games
  <2>5. tally' \in Tallies
    BY <2>0, <2>2, LoseType
  <2> HIDE DEF g
  <2> QED BY <2>1, <2>2, <2>4, <2>5, Arrival
<1>6. ASSUME NEW r \in Requests, Reset(r) PROVE Played' /\ Deserved'
  <2> DEFINE g == Fresh(mem.resets + 1)
  <2>1. mem.resets + 1 \in 0..MaxResets
    BY <1>6 DEF Reset, Games
  <2>2. tally' = NewTally(mem.resets + 1) /\ tally' \in Tallies
    BY <1>6, <2>1 DEF Reset, NewTally, Tallies
  <2>3. spec' = spec /\ Arrives(r) /\ Keep(r, g, "store")
    BY <1>6 DEF Reset, untouched
  <2>4. Follows(g, tally')
    BY <2>2 DEF Follows, NewTally, Fresh
  <2>5. Sane(g)
    BY <2>1, FreshSane DEF Typed
  <2> HIDE DEF g
  <2> QED BY <2>2, <2>3, <2>4, <2>5, Arrival
<1>7. ASSUME NEW r \in Requests, Recorded(r) PROVE Played' /\ Deserved'
  <2>1. spec' = spec /\ tally' = tally /\ crossed' = crossed
    BY <1>7 DEF Recorded
  <2>2. CASE /\ Recording(r) /\ mem' = req[r].game
             /\ req' = [req EXCEPT ![r] = Writing(req[r].game)]
    <3>1. /\ req'[r].pc = "store"
          /\ \A q \in Requests \ {r} : req'[q] = req[q]
      BY <2>2 DEF Typed, Writing
    <3>2. Played'
      BY <2>1, <2>2, <3>1 DEF Played, Recording, Nobody, Follows
    <3>3. Deserved'
      BY <2>1, <3>1, DeservedKept DEF Submitting
    <3> QED BY <3>2, <3>3
  <2>3. CASE req[r].pc = "recordThen" /\ req' = [req EXCEPT ![r] = Idle] /\ mem' = mem
    <3>1. /\ req'[r].pc = "idle"
          /\ \A q \in Requests \ {r} : req'[q] = req[q]
      BY <2>3 DEF Typed, Idle
    <3>2. Played'
      BY <2>1, <2>3, <3>1 DEF Played, Recording, Nobody, Follows
    <3>3. Deserved'
      BY <2>1, <3>1, DeservedKept DEF Submitting
    <3> QED BY <3>2, <3>3
  <2>4. Recorded(r)
    BY <1>7
  <2> QED BY <2>2, <2>3, <2>4 DEF Recorded
<1>8. ASSUME NEW r \in Requests, Store(r) PROVE Played' /\ Deserved'
  <2>1. spec' = spec /\ tally' = tally /\ crossed' = crossed /\ mem' = mem
    BY <1>8 DEF Store
  <2>2. /\ \A q \in Requests \ {r} : req'[q] = req[q]
        /\ \/ req'[r].pc = "idle"
           \/ /\ req'[r].pc = "recordThen" /\ req[r].pc = "storeThen"
              /\ req'[r].game = req[r].game /\ req'[r].fair = req[r].fair
              /\ req'[r].due = req[r].due
    <3>1. PICK new : /\ req' = [req EXCEPT ![r] = new]
                     /\ \/ new = Idle
                        \/ req[r].pc = "storeThen" /\ new = [req[r] EXCEPT !.pc = "recordThen"]
      BY <1>8 DEF Store, Storing
    <3>2. req'[r] = new /\ \A q \in Requests \ {r} : req'[q] = req[q]
      BY <3>1 DEF Typed
    <3>3. CASE new = Idle
      BY <3>2, <3>3 DEF Idle
    <3>4. CASE req[r].pc = "storeThen" /\ new = [req[r] EXCEPT !.pc = "recordThen"]
      <4>1. new.pc = "recordThen" /\ new.game = req[r].game /\ new.fair = req[r].fair
            /\ new.due = req[r].due
        BY <3>4 DEF Typed
      <4> QED BY <3>2, <3>4, <4>1
    <3> QED BY <3>1, <3>2, <3>3, <3>4
  <2>3. Played'
    <3>1. \A q \in Requests : Recording(q)' <=> Recording(q)
      BY <1>8, <2>2 DEF Store, Storing, Recording
    <3>2. ASSUME NEW q \in Requests, Recording(q) PROVE req'[q] = req[q]
      <4>1. q # r
        BY <1>8, <3>2 DEF Store, Storing, Recording
      <4> QED BY <2>2, <4>1
    <3> QED BY <2>1, <3>1, <3>2 DEF Played, Nobody, Follows
  <2>4. Deserved'
    BY <2>1, <2>2, DeservedKept DEF Submitting
  <2> QED BY <2>3, <2>4
<1>9. ASSUME NEW r \in Requests, Fail(r) PROVE Played' /\ Deserved'
  <2>1. /\ spec' = spec /\ tally' = tally /\ mem' = mem
        /\ crossed' = (crossed \/ Recording(r))
    BY <1>9 DEF Fail
  <2>2. req'[r].pc = "idle" /\ \A q \in Requests \ {r} : req'[q] = req[q]
    BY <1>9 DEF Fail, Typed, Idle
  <2>3. Played'
    <3>1. ASSUME ~crossed' PROVE ~crossed /\ \A q \in Requests : Recording(q)' <=> Recording(q)
      BY <2>1, <2>2, <3>1 DEF Recording
    <3>2. ASSUME NEW q \in Requests, Recording(q), ~crossed' PROVE req'[q] = req[q]
      BY <2>1, <2>2, <3>2
    <3> QED BY <2>1, <3>1, <3>2 DEF Played, Nobody, Follows
  <2>4. Deserved'
    BY <2>1, <2>2, DeservedKept DEF Submitting
  <2> QED BY <2>3, <2>4
<1>10. ASSUME Crash PROVE Played' /\ Deserved'
  <2>1. /\ spec' = spec /\ tally' = tally /\ mem' = Reloaded(disk)
        /\ \A q \in Requests : req'[q].pc = "idle"
        /\ ~crossed' => ~crossed /\ mem \in {disk, Reloaded(disk)} /\ Nobody
    BY <1>10 DEF Crash, Idle, Nobody
  <2>4. ~crossed' => /\ mem'.lives = mem.lives /\ mem'.step = mem.step
                     /\ mem'.resets = mem.resets /\ mem'.finale = mem.finale
    BY <2>1, ReloadedSame DEF Typed, Sane
  <2>2. Played'
    BY <2>1, <2>4 DEF Played, Recording, Nobody, Follows
  <2>3. Deserved'
    BY <2>1 DEF Deserved, Submitting
  <2> QED BY <2>2, <2>3
<1>11. ASSUME UNCHANGED vars PROVE Played' /\ Deserved'
  <2>1. Played'
    BY <1>11 DEF vars, Played, Recording, Nobody, Follows
  <2>2. Deserved'
    BY <1>11, DeservedKept DEF vars, Submitting
  <2> QED BY <2>1, <2>2
<1> QED BY <1>1, <1>2, <1>3, <1>4, <1>5, <1>6, <1>7, <1>8, <1>9, <1>10, <1>11 DEF Next

LEMMA PlayedAlways == Spec => [](Typed /\ Played /\ Deserved)
<1>1. Spec => []Typed
  BY InvHolds, TypedIsInv, PTL
<1>2. ASSUME Init PROVE Played /\ Deserved
  <2>1. spec.lives \in Nat
    BY <1>2, BoardGameAssumption DEF Init
  <2>2. Follows(mem, tally)
    BY <1>2, <2>1 DEF Init, Follows, Fresh, NewTally
  <2>3. \A r \in Requests : req[r].pc = "idle"
    BY <1>2 DEF Init, Idle
  <2> QED BY <2>2, <2>3 DEF Played, Deserved, Recording, Submitting
<1> QED BY <1>1, <1>2, PlayedStep, PTL DEF Spec

\* Unless effects of a request were lost, the game in memory is the one played.
THEOREM GameIsPlayedHolds == Spec => []GameIsPlayed
<1>1. Typed /\ Played => GameIsPlayed
  <2> SUFFICES ASSUME Typed, Played, ~crossed, Nobody
               PROVE  Follows(mem, tally)
    BY DEF GameIsPlayed, Follows, Nobody
  <2> QED BY DEF Played
<1> QED BY <1>1, PlayedAlways, PTL

\* Unless effects of a request were lost, passes and stars are deserved.
THEOREM PassDeservedHolds == Spec => []PassDeserved
<1>1. Deserved => PassDeserved
  BY DEF Deserved, PassDeserved, Submitting, Passed
<1> QED BY <1>1, PlayedAlways, PTL
-----------------------------------------------------------------------------
(* The row.  A write under way alone carries what is in memory.            *)

\* Memory is the row, or what a restart made of it.
Restored == mem = disk \/ mem = Reloaded(disk)

LEMMA ReloadedKept == ASSUME spec' = spec, NEW g PROVE Reloaded(g)' = Reloaded(g)
BY DEF Reloaded, Twice, Required

LEMMA RestoredKept ==
  ASSUME spec' = spec, mem' = mem, disk' = disk PROVE Restored' <=> Restored
BY DEF Restored, Reloaded, Twice, Required

Written ==
  ~torn =>
    /\ \A q, r \in Requests : Storing(q) /\ Storing(r) => q = r
    /\ \A r \in Requests : Storing(r) => req[r].game = mem
    /\ (\A r \in Requests : ~Storing(r)) => Restored

LEMMA WrittenArrival ==
  ASSUME Typed, Written, NEW r \in Requests, Arrives(r), NEW g,
         NEW pc \in {"record", "store", "storeThen"},
         (pc # "record" /\ Keep(r, g, pc)) \/ (pc = "record" /\ Record(r, g)),
         disk' = disk, spec' = spec
  PROVE  Written'
<1>1. Carry(r, g, pc)
  BY DEF Keep, Record
<1>2. ~Storing(r)
  BY DEF Arrives, Idle, Storing
<1>3. /\ req'[r].pc = pc /\ req'[r].game = g
      /\ \A q \in Requests \ {r} : req'[q] = req[q]
  BY <1>1, CarryAt
<1>4. \A q \in Requests \ {r} : Storing(q)' <=> Storing(q)
  BY <1>3 DEF Storing
<1>5. CASE pc # "record" /\ Keep(r, g, pc)
  <2>1. mem' = g /\ torn' = (torn \/ \E q \in Requests \ {r} : Storing(q))
    BY <1>5 DEF Keep, Tear
  <2>2. Storing(r)'
    BY <1>3, <1>5 DEF Storing
  <2> QED BY <1>3, <1>4, <2>1, <2>2 DEF Written
<1>6. CASE pc = "record" /\ Record(r, g)
  <2>1. mem' = mem /\ torn' = torn
    BY <1>6 DEF Record
  <2>2. ~Storing(r)'
    BY <1>3, <1>6 DEF Storing
  <2> QED BY <1>2, <1>3, <1>4, <2>1, <2>2, RestoredKept DEF Written
<1> QED BY <1>5, <1>6

LEMMA WrittenStep == Typed /\ Written /\ [Next]_vars => Written'
<1> SUFFICES ASSUME Typed, Written, [Next]_vars PROVE Written'
  OBVIOUS
<1>1. ASSUME NEW r \in Requests, NEW f \in SUBSET Slots, NEW p \in Slots, Save(r, f, p)
      PROVE  Written'
  BY <1>1, WrittenArrival DEF Save, untouched
<1>2. ASSUME NEW r \in Requests, NEW f \in SUBSET Slots, Submit(r, f) PROVE Written'
  <2>1. /\ Arrives(r) /\ disk' = disk /\ spec' = spec
        /\ Keep(r, Placed(mem, f, 0), "storeThen") \/ Keep(r, LoseLives(Placed(mem, f, 0), 1), "storeThen")
    BY <1>2 DEF Submit, untouched
  <2> QED BY <2>1, WrittenArrival
<1>3. ASSUME NEW r \in Requests, NEW right \in BOOLEAN, FinaleAnswer(r, right) PROVE Written'
  <2>1. /\ Arrives(r) /\ disk' = disk /\ spec' = spec
        /\ Record(r, [seen EXCEPT !.finale = TRUE]) \/ Keep(r, LoseLives(seen, 1), "store")
    BY <1>3 DEF FinaleAnswer, untouched
  <2> QED BY <2>1, WrittenArrival
<1>4. ASSUME NEW r \in Requests, NEW right \in BOOLEAN, NEW s \in Required, Check(r, s, right)
      PROVE  Written'
  <2> DEFINE g == [seen EXCEPT !.fills = @ \cup {s}, !.step = @ + 1]
  <2>1. /\ Arrives(r) /\ disk' = disk /\ spec' = spec
        /\ Record(r, g) \/ Keep(r, g, "store") \/ Keep(r, LoseLives(seen, 1), "store")
    BY <1>4 DEF Check, untouched
  <2> HIDE DEF g
  <2> QED BY <2>1, WrittenArrival
<1>5. ASSUME NEW r \in Requests, NEW n \in 0..spec.lives + 1, Claims(r, n) PROVE Written'
  BY <1>5, WrittenArrival DEF Claims, untouched
<1>6. ASSUME NEW r \in Requests, Reset(r) PROVE Written'
  BY <1>6, WrittenArrival DEF Reset, untouched
<1>7. ASSUME NEW r \in Requests, Recorded(r) PROVE Written'
  <2>1. disk' = disk
    BY <1>7 DEF Recorded
  <2>2. CASE /\ Recording(r) /\ mem' = req[r].game /\ Tear(r)
             /\ req' = [req EXCEPT ![r] = Writing(req[r].game)]
    <3>1. /\ req'[r].pc = "store" /\ req'[r].game = mem'
          /\ \A q \in Requests \ {r} : req'[q] = req[q]
      BY <2>2 DEF Typed, Writing
    <3>2. torn' = (torn \/ \E q \in Requests \ {r} : Storing(q))
      BY <2>2 DEF Tear
    <3> QED BY <3>1, <3>2 DEF Written, Storing
  <2>3. CASE req[r].pc = "recordThen" /\ req' = [req EXCEPT ![r] = Idle] /\ UNCHANGED <<mem, torn>>
    <3>1. /\ req'[r].pc = "idle"
          /\ \A q \in Requests \ {r} : req'[q] = req[q]
      BY <2>3 DEF Typed, Idle
    <3>2. spec' = spec
      BY <1>7 DEF Recorded
    <3>3. /\ ~Storing(r) /\ ~Storing(r)'
          /\ \A q \in Requests \ {r} : Storing(q)' <=> Storing(q)
      BY <2>3, <3>1 DEF Storing
    <3> QED BY <2>1, <2>3, <3>1, <3>2, <3>3, RestoredKept DEF Written
  <2>4. Recorded(r)
    BY <1>7
  <2> QED BY <2>2, <2>3, <2>4 DEF Recorded
<1>8. ASSUME NEW r \in Requests, Store(r) PROVE Written'
  <2>1. Storing(r) /\ disk' = req[r].game /\ mem' = mem /\ torn' = torn
    BY <1>8 DEF Store
  <2>2. req'[r].pc \in {"idle", "recordThen"} /\ \A q \in Requests \ {r} : req'[q] = req[q]
    BY <1>8 DEF Store, Storing, Typed, Idle
  <2>3. ~Storing(r)' /\ \A q \in Requests \ {r} : Storing(q)' <=> Storing(q)
    BY <2>2 DEF Storing
  <2> QED BY <2>1, <2>2, <2>3 DEF Written, Restored
<1>9. ASSUME NEW r \in Requests, Fail(r) PROVE Written'
  <2>1. spec' = spec /\ mem' = mem /\ disk' = disk /\ torn' = (torn \/ Storing(r))
    BY <1>9 DEF Fail
  <2>2. req'[r].pc = "idle" /\ \A q \in Requests \ {r} : req'[q] = req[q]
    BY <1>9 DEF Fail, Typed, Idle
  <2>3. ~Storing(r)' /\ \A q \in Requests \ {r} : Storing(q)' <=> Storing(q)
    BY <2>2 DEF Storing
  <2> QED BY <2>1, <2>2, <2>3, RestoredKept DEF Written
<1>10. ASSUME Crash PROVE Written'
  <2>1. mem' = Reloaded(disk) /\ disk' = disk /\ spec' = spec
    BY <1>10 DEF Crash
  <2>2. \A r \in Requests : ~Storing(r)'
    BY <1>10 DEF Crash, Idle, Storing
  <2> QED BY <2>1, <2>2, ReloadedKept DEF Written, Restored
<1>11. ASSUME UNCHANGED vars PROVE Written'
  BY <1>11, RestoredKept DEF vars, Written, Storing
<1> QED BY <1>1, <1>2, <1>3, <1>4, <1>5, <1>6, <1>7, <1>8, <1>9, <1>10, <1>11 DEF Next

\* A row that no two writes raced for is what is in memory.
THEOREM RowIsMemoryHolds == Spec => []RowIsMemory
<1>1. Spec => []Typed
  BY InvHolds, TypedIsInv, PTL
<1>2. Init => Written
  BY DEF Init, Written, Storing, Idle, Restored
<1>3. Typed /\ Written => RowIsMemory
  <2> SUFFICES ASSUME Typed, Written, ~torn, \A r \in Requests : req[r] = Idle, ~Twice(mem)
               PROVE  Reloaded(disk) = mem
    BY DEF RowIsMemory
  <2>1. Restored
    BY DEF Written, Storing, Idle
  <2> QED BY <2>1 DEF Restored, Reloaded
<1> QED BY <1>1, <1>2, <1>3, WrittenStep, PTL DEF Spec
=============================================================================
