------------------------------ MODULE BoardGame ------------------------------
(***************************************************************************)
(* One learner's architecture board: backend/workspace/boardLifecycle.ts   *)
(* and boardGrade.ts, and the board routes of backend/routes/session.ts.   *)
(*                                                                         *)
(* A handler works on the session in memory up to its first await; a right *)
(* last card and a right final answer are recorded first and written back  *)
(* afterwards, over whatever happened meanwhile.  Every request writes the *)
(* row at its own pace.                                                    *)
(*                                                                         *)
(* A board is abstracted to the blocks that are right, a required block    *)
(* holding its own card and block 0, the optional block, empty or holding  *)
(* its own card; and, step by step, to the required card that stands in    *)
(* the optional block.  The page is abstracted to what it may send:        *)
(* BoardWorkspace.tsx delays saves, keeps its view through failed answers  *)
(* and sends a reset while an answer is awaited, so any request with any   *)
(* board may come at any time.                                             *)
(***************************************************************************)
EXTENDS Naturals, FiniteSets

CONSTANTS Boards,      \* specs: [mode, steps, lives, finale]
          MaxRequests, \* bound: requests under way at a time
          MaxResets,   \* bound: resets ever handled
          MaxUpsets    \* bound: crashes and failed statements

ASSUME BoardGameAssumption ==
  /\ Boards \subseteq [mode: {"classic", "unlock", "debate"}, steps: Nat \ {0},
                       lives: Nat \ {0}, finale: BOOLEAN]
  /\ MaxRequests \in Nat /\ MaxResets \in Nat /\ MaxUpsets \in Nat

Requests == 1..MaxRequests

VARIABLES
  spec,    \* the board's spec
  mem,     \* session.boardState, without the last grade, which only the page reads
  disk,    \* sessions.board_state
  req,     \* the requests under way
  tally,   \* what was decided since the reset last handled (history)
  crossed, \* effects of a request were overwritten or lost (history)
  torn,    \* two writes of the row were under way at once, or one failed (history)
  robbed,  \* steps whose card a restart left in the optional block only (history)
  upsets

vars == <<spec, mem, disk, req, tally, crossed, torn, robbed, upsets>>

Required == 1..spec.steps
Slots    == 0..spec.steps

\* emptyBoardState and defaultGame; `over` is lives = 0 wherever it is read.
Fresh(resets) == [fills |-> {0}, guest |-> 0, lives |-> spec.lives, step |-> 0,
                  judged |-> FALSE, finale |-> FALSE, resets |-> resets]
NoGame == [fills |-> {}, guest |-> 0, lives |-> 0, step |-> 0, judged |-> FALSE,
           finale |-> FALSE, resets |-> 0]
Idle == [pc |-> "idle", game |-> NoGame, due |-> 0, fair |-> FALSE]
NewTally(n) == [lost |-> 0, opened |-> 0, answered |-> FALSE, resets |-> n]

\* `guest` is the required block whose card stands in the optional block, or 0.
Games == [fills: SUBSET Slots, guest: Slots, lives: 0..spec.lives, step: 0..spec.steps,
          judged: BOOLEAN, finale: BOOLEAN, resets: 0..MaxResets]

\* The states of the model.
TypeOK ==
  /\ spec \in Boards
  /\ mem \in Games /\ disk \in Games
  /\ req \in [Requests -> [pc: {"idle", "record", "store", "storeThen", "recordThen"},
                           game: Games, due: Nat, fair: BOOLEAN]]
  /\ tally \in [lost: 0..spec.lives, opened: Nat, answered: BOOLEAN, resets: Nat]
  /\ upsets \in 0..MaxUpsets
  /\ {crossed, torn} \subseteq BOOLEAN /\ robbed \subseteq Required

Init ==
  /\ spec \in Boards
  /\ mem = Fresh(0) /\ disk = Fresh(0)
  /\ req = [r \in Requests |-> Idle]
  /\ tally = NewTally(0)
  /\ crossed = FALSE /\ torn = FALSE /\ robbed = {}
  /\ upsets = 0
-----------------------------------------------------------------------------
(* boardGrade.ts                                                           *)

\* A card that stands in its own block and in the optional block.
Twice(g) == g.guest \in g.fills \cap Required

\* coerceBoardState, which every handler reads the session through: a card
\* stands once, where parseFills meets it first; in memory, in its own block.
Coerced(g) == IF Twice(g) THEN [g EXCEPT !.fills = @ \cup {0}, !.guest = 0] ELSE g

\* The same of a row: JSONB gives the keys back by length, then alphabetically,
\* the optional block o1 before the step s1.
Reloaded(g) == IF Twice(g) THEN [g EXCEPT !.fills = @ \ {g.guest}] ELSE g

Larger(a, b) == IF a > b THEN a ELSE b
Minus(a, b) == IF a > b THEN a - b ELSE 0

\* assertPlayable.
Playable(g) == g.lives > 0

\* loseLife, n times.
LoseLives(g, n) == [g EXCEPT !.lives = Minus(@, n)]

\* boardPassed: every required card in place, no trap and no wrong optional.
BoardRight(g) == g.fills = Slots

\* Mutant of Passed: the final question is not asked for.
PassedByBoard(g) == BoardRight(g)

\* passed of gradeBoard.
Passed(g) == BoardRight(g) /\ (spec.finale => g.finale)

\* Mutant of Stars: a reset does not cap.
StarsUncapped(g) == Larger(1, Minus(3, spec.lives - g.lives))

\* stars of gradeBoard, of a pass.
Stars(g) == IF g.resets > 0 THEN 1 ELSE Larger(1, Minus(3, spec.lives - g.lives))

\* Mutant of Placed: the required blocks are taken as sent, too.
PlacedAsSent(g, f, p) == [g EXCEPT !.fills = f, !.guest = IF 0 \in f THEN 0 ELSE p]

\* savePlaced without reset: step by step, only the optional block is free. It
\* is taken as sent, with card p or a trap if it is wrong, though p may stand in
\* its own block by now.
Placed(g, f, p) ==
  IF spec.mode = "unlock"
  THEN [Coerced(g) EXCEPT !.fills = (@ \cap Required) \cup (f \ Required),
                          !.guest = IF 0 \in f THEN 0 ELSE p]
  ELSE [g EXCEPT !.fills = f]
-----------------------------------------------------------------------------
(* What a handler does up to its first await, if it does not refuse.       *)

Recording(q) == req[q].pc = "record"
Storing(q)   == req[q].pc \in {"store", "storeThen"}
Cross(r) == crossed' = (crossed \/ \E q \in Requests \ {r} : Recording(q))
Tear(r)  == torn' = (torn \/ \E q \in Requests \ {r} : Storing(q))

\* A request arrives, at the first free place.
Arrives(r) == req[r] = Idle /\ \A q \in 1..(r - 1) : req[q] # Idle

\* persistGame once the session has the game: persistRow.
Writing(g) == [pc |-> "store", game |-> g, due |-> 0, fair |-> FALSE]

\* It goes on with g; what the play deserves is kept beside a submission.
Carry(r, g, pc) ==
  req' = [req EXCEPT ![r] =
    IF pc = "store" THEN Writing(g)
    ELSE [pc |-> pc, game |-> g, fair |-> tally'.answered,
          due |-> IF tally'.resets > 0 THEN 1 ELSE Larger(1, Minus(3, tally'.lost))]]

\* session.boardState = g; then the row, and for a submit the submission.
Keep(r, g, pc) == mem' = g /\ Carry(r, g, pc) /\ Cross(r) /\ Tear(r)

\* The submission first: g is written back when it is recorded.
Record(r, g) == Carry(r, g, "record") /\ Cross(r) /\ UNCHANGED <<mem, torn>>

Lose(n) == tally' = [tally EXCEPT !.lost = IF @ + n > spec.lives THEN spec.lives ELSE @ + n]

untouched == <<spec, disk, robbed, upsets>>

\* What a handler makes of the session.
seen == Coerced(mem)
-----------------------------------------------------------------------------
(* The requests of the page.                                               *)

\* Mutant of Save: the row is not written.
SaveInMemory(r, f, p) ==
  /\ Arrives(r)
  /\ mem' = Placed(mem, f, p)
  /\ UNCHANGED <<tally, untouched, req, crossed, torn>>

\* PUT /board: the save timer of fillSlot, clearSlot and returnPiece. Opening
\* the board again (startBoardSession) is the save of what is there.
Save(r, f, p) ==
  /\ Arrives(r)
  /\ UNCHANGED <<tally, untouched>>
  /\ Keep(r, Placed(mem, f, p), "store")

\* PUT /board with reset: resetBoard sends an empty board.
Reset(r) ==
  /\ Arrives(r)
  /\ mem.resets < MaxResets
  /\ tally' = NewTally(mem.resets + 1)
  /\ Keep(r, Fresh(mem.resets + 1), "store")
  /\ UNCHANGED untouched

\* Mutant of Check: the step stays where it is.
CheckStays(r, s, right) ==
  /\ Arrives(r)
  /\ spec.mode = "unlock" /\ Playable(mem) /\ s = mem.step + 1 /\ right
  /\ tally' = [tally EXCEPT !.opened = @ + 1]
  /\ Keep(r, [seen EXCEPT !.fills = @ \cup {s}], "store")
  /\ UNCHANGED untouched

\* POST /board/check, step by step: a card for block s, right and nowhere else
\* on the board, or wrong.  The last right one is graded and recorded, any other
\* answer kept at once.
Check(r, s, right) ==
  LET g == [seen EXCEPT !.fills = @ \cup {s}, !.step = @ + 1] IN
  /\ Arrives(r)
  /\ spec.mode = "unlock" /\ Playable(mem) /\ s = mem.step + 1
  /\ \/ /\ right /\ seen.guest # s
        /\ tally' = [tally EXCEPT !.opened = @ + 1]
        /\ IF g.step >= spec.steps THEN Record(r, g) ELSE Keep(r, g, "store")
     \/ /\ ~right
        /\ Lose(1)
        /\ Keep(r, LoseLives(seen, 1), "store")
  /\ UNCHANGED untouched

\* POST /board/claims: once, and every wrong call costs a life.
Claims(r, n) ==
  /\ Arrives(r)
  /\ spec.mode = "debate" /\ Playable(mem) /\ ~mem.judged
  /\ Lose(n)
  /\ Keep(r, [LoseLives(seen, n) EXCEPT !.judged = TRUE], "store")
  /\ UNCHANGED untouched

\* POST /board/finale: a right answer, or any once it was right, is recorded.
FinaleAnswer(r, right) ==
  /\ Arrives(r)
  /\ spec.finale /\ Playable(mem) /\ BoardRight(seen)
  /\ \/ /\ mem.finale \/ right
        /\ tally' = [tally EXCEPT !.answered = TRUE]
        /\ Record(r, [seen EXCEPT !.finale = TRUE])
     \/ /\ ~mem.finale /\ ~right
        /\ Lose(1)
        /\ Keep(r, LoseLives(seen, 1), "store")
  /\ UNCHANGED untouched

\* POST /board/submit, not offered step by step: a wrong board costs a life;
\* the row first, then the submission.
Submit(r, f) ==
  LET g == Placed(mem, f, 0) IN
  /\ Arrives(r)
  /\ spec.mode # "unlock" /\ Playable(mem)
  /\ IF BoardRight(g) THEN UNCHANGED tally /\ Keep(r, g, "storeThen")
     ELSE Lose(1) /\ Keep(r, LoseLives(g, 1), "storeThen")
  /\ UNCHANGED untouched
-----------------------------------------------------------------------------
(* After the awaits.                                                       *)

\* recordSubmission, then persistGame puts the copy in memory; or, for a
\* submit, the answer.
Recorded(r) ==
  /\ \/ /\ Recording(r)
        /\ mem' = req[r].game
        /\ req' = [req EXCEPT ![r] = Writing(req[r].game)]
        /\ Tear(r)
     \/ /\ req[r].pc = "recordThen"
        /\ req' = [req EXCEPT ![r] = Idle]
        /\ UNCHANGED <<mem, torn>>
  /\ UNCHANGED <<spec, disk, tally, crossed, robbed, upsets>>

\* persistRow.
Store(r) ==
  /\ Storing(r)
  /\ disk' = req[r].game
  /\ req' = [req EXCEPT ![r] = IF @.pc = "store" THEN Idle ELSE [@ EXCEPT !.pc = "recordThen"]]
  /\ UNCHANGED <<spec, mem, tally, crossed, torn, robbed, upsets>>

Upset == upsets < MaxUpsets /\ upsets' = upsets + 1

\* A statement fails: the page gets an error, what was not yet done is not.
Fail(r) ==
  /\ Upset
  /\ req[r] # Idle
  /\ req' = [req EXCEPT ![r] = Idle]
  /\ torn' = (torn \/ Storing(r))
  /\ crossed' = (crossed \/ Recording(r))
  /\ UNCHANGED <<spec, mem, disk, tally, robbed>>

\* The server starts anew from the rows: restoreFromDB, startBoardSession.
Crash ==
  /\ Upset
  /\ mem' = Reloaded(disk)
  /\ req' = [r \in Requests |-> Idle]
  /\ crossed' = (\/ crossed
                 \/ mem \notin {disk, Reloaded(disk)}
                 \/ \E r \in Requests : Recording(r))
  /\ robbed' = robbed \cup (IF Twice(disk) THEN {disk.guest} ELSE {})
  /\ torn' = FALSE
  /\ UNCHANGED <<spec, disk, tally>>
-----------------------------------------------------------------------------
Next ==
  \/ \E r \in Requests :
       \/ \E f \in SUBSET Slots : Submit(r, f) \/ \E p \in Slots : Save(r, f, p)
       \/ \E right \in BOOLEAN :
            \/ FinaleAnswer(r, right)
            \/ \E s \in Required : Check(r, s, right)
       \/ \E n \in 0..spec.lives + 1 : Claims(r, n)
       \/ Reset(r) \/ Recorded(r) \/ Store(r) \/ Fail(r)
  \/ Crash

Spec == Init /\ [][Next]_vars
-----------------------------------------------------------------------------
(* Properties.                                                             *)

Copies == {mem, disk} \cup {req[r].game : r \in Requests}

\* On a step-by-step board the required blocks are right up to the current
\* step and no further, in memory, in the row and in every copy on its way
\* between them, whatever an old page sends (savePlaced, checkStep): but for a
\* step whose card an old page put into the optional block, too, and that a
\* restart took from its own.
StepMatchesBoard ==
  spec.mode = "unlock" =>
    \A g \in Copies : /\ g.fills \cap Required \subseteq 1..g.step
                      /\ 1..g.step \subseteq g.fills \cup robbed

\* Lives and steps stay within their bounds in every copy of the game, and the
\* board goes as far as the step (boardGrade.ts, savePlaced, checkStep).
Inv == TypeOK /\ StepMatchesBoard

\* Unless effects of a request were overwritten or lost, the game in memory is
\* the one that was played: lives lost, steps opened, answer and resets.
GameIsPlayed ==
  (~crossed /\ \A r \in Requests : ~Recording(r)) =>
    /\ mem.lives = spec.lives - tally.lost
    /\ mem.step = tally.opened
    /\ mem.resets = tally.resets
    /\ mem.finale = tally.answered

\* A pass that is being recorded has lives left and the board right; unless
\* effects were lost, the final question was answered since the last reset and
\* the stars are those its play deserves ("A reset caps this board at one
\* star").
PassDeserved ==
  \A r \in Requests : req[r].pc \in {"record", "recordThen"} /\ Passed(req[r].game) =>
    /\ Playable(req[r].game) /\ BoardRight(req[r].game)
    /\ ~crossed => /\ spec.finale => req[r].fair
                   /\ Stars(req[r].game) = req[r].due

\* When nothing is under way, a restart brings back what is in memory, unless
\* two writes of the row overlapped or one failed, or a card stands in two
\* blocks, of which row and memory each keep another.
RowIsMemory ==
  (~torn /\ (\A r \in Requests : req[r] = Idle) /\ ~Twice(mem)) => Reloaded(disk) = mem
=============================================================================
