---- MODULE MCBoardGame ----
(* Model checking instance of BoardGame: boards of each kind. *)
EXTENDS BoardGame

Board(m, s, l, f) == [mode |-> m, steps |-> s, lives |-> l, finale |-> f]

\* Two steps with one life where they are opened one by one and a final
\* question follows; elsewhere one required block and two lives.
MCBoards == {Board("unlock", 2, 1, TRUE), Board("unlock", 1, 2, FALSE),
             Board("classic", 1, 2, TRUE), Board("debate", 1, 2, FALSE)}
====
