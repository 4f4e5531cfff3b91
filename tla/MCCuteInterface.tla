-------------------------- MODULE MCCuteInterface --------------------------
(***************************************************************************)
(* CuteInterface for TLC.  A problem has its sequences (prefix sums), what   *)
(* each query chose, the CTAs of the device, and whether the caller keeps  *)
(* the builder's schedule.                                                 *)
(***************************************************************************)
EXTENDS CuteInterface

Problem(cuQ, cuK, rows, q2k, ctas, scheduled) ==
    [cuQ |-> cuQ, cuK |-> cuK, maxK |-> Max({LenOf(cuK, b) : b \in SeqsOf(cuK)}),
     rows |-> rows, q2k |-> q2k, maxCtas |-> ctas, scheduled |-> scheduled]

Blank == <<-1, -1>>
(* What a query of a sequence with two or three blocks may choose. *)
Picked == {Blank, <<0, -1>>, <<1, -1>>, <<0, 1>>, <<1, 0>>}

(* Two warps and two heads, with a blank query. *)
TwoHeads == {Problem(<<0, 3>>, <<0, 3>>, 2,
                     <<<<<<0, 1>>, <<1, 0>>, <<0, -1>>>>, <<<<0, 1>>, Blank, <<0, -1>>>>>>, 1, TRUE)}

(* A sequence of odd length, an empty one and one of three blocks; an odd   *)
(* row in the last packed word.                                             *)
Ragged == {Problem(<<0, 3, 3, 5>>, <<0, 3, 5, 10>>, 6,
                   <<<<a, <<0, 1>>, <<0, -1>>, <<2, 0>>, c>>>>, 1, TRUE) :
                a \in Picked, c \in {Blank, <<1, 0>>}}

(* All queries choose the two blocks whose counters share a word, and fill  *)
(* them to the last value.                                                  *)
Sink == {Problem(<<0, n>>, <<0, 5>>, -1, <<[q \in 1..n |-> <<0, 1>>]>>, 1, TRUE) : n \in {1, 4, 6}}

(* Without queries; and with a warp that has none. *)
Idle == {Problem(<<0, 0>>, <<0, 2>>, 1, <<<<>>>>, 1, FALSE),
         Problem(<<0, 3, 5>>, <<0, 1, 3>>, 2, <<[q \in 1..5 |-> <<0, -1>>]>>, 4, TRUE)}

(* Schedules made again: uneven sequences, a row of several chunks with an  *)
(* empty row after it, two heads, short rows only.                          *)
Again == {Problem(<<0, 2, 2, 3>>, <<0, 3, 5, 10>>, 6,
                  <<<<<<0, 1>>, <<1, 0>>, <<2, 0>>>>>>, 1, FALSE),
          Problem(<<0, 5>>, <<0, 6>>, 3,
                  <<<<<<0, -1>>, <<0, 1>>, <<0, -1>>, <<1, 0>>, <<0, -1>>>>>>, 1, FALSE),
          Problem(<<0, 2>>, <<0, 3>>, 2, <<<<<<0, 1>>, <<0, -1>>>>, <<<<1, -1>>, <<0, 1>>>>>>, 1, FALSE),
          Problem(<<0, 2>>, <<0, 6>>, 3, <<<<<<0, 2>>, <<1, 2>>>>>>, 1, FALSE)}

(* The host derives the rows of three ragged sequences, and not one to spare. *)
NoneToSpare == {Problem(<<0, 1, 2, 3>>, <<0, 3, 6, 7>>, -1, <<<<<<1, 0>>, <<0, 1>>, <<0, -1>>>>>>, 1, TRUE)}

Inputs == TwoHeads \cup Ragged \cup Sink \cup Idle \cup Again \cup NoneToSpare

(* They keep to what a call keeps to, and have a head.                      *)
ASSUME InputsAreSafe == \A p \in Inputs : SafeProblem(p) /\ p.q2k # <<>>

(* The host derives the rows from the number of tokens. *)
Derived == {Problem(<<0, 1, 2>>, <<0, 3, 4>>, -1, <<<<<<1, -1>>, <<0, -1>>>>>>, 1, TRUE)}
-----------------------------------------------------------------------------
\* Decode calls.  Pages of two tokens, warps of two lanes (so a batch of three
\* takes the scan in shared memory), at least two warps.
Request(seqused, heads, grid) ==
    [seqused |-> seqused, maxLen |-> 100, seqlenQ |-> 2, heads |-> heads, grid |-> grid,
     fixed |-> 0, disable |-> FALSE, graph |-> FALSE]

\* Chunks that are found, at several grids; three with a request much longer than
\* the others, the last with an average to divide; more pages than splits allowed;
\* too short, too many; requests without a page.
Found ==
    {Request(<<17>>, 1, 3), Request(<<16, 9>>, 2, 12), Request(<<22, 0, 5>>, 1, 7), Request(<<12, 12, 12, 12>>, 1, 16),
     Request(<<4, 4, 6, 8, 60>>, 1, 40),
     Request(<<90, 18, 18>>, 1, 8), Request(<<98>>, 1, 64), Request(<<2, 4>>, 1, 8), Request(<<18, 16, 20>>, 1, 3)}

\* The choice is made by the caller; a length in pages that is not whole.
Given ==
    {[Request(<<19, 7, 12>>, 1, 8) EXCEPT !.fixed = 3], [Request(<<19, 7, 12>>, 2, 8) EXCEPT !.disable = TRUE],
     [Request(<<0, 9>>, 1, 8) EXCEPT !.disable = TRUE], [Request(<<80>>, 1, 8) EXCEPT !.fixed = 1], [Request(<<6, 5>>, 1, 8) EXCEPT !.fixed = 9]}

\* Two and three query tiles, which only the schedule takes.
Tiled == {[Request(<<21, 16, 8>>, 1, 16) EXCEPT !.seqlenQ = 4], [Request(<<21, 16>>, 1, 30) EXCEPT !.seqlenQ = 5]}

\* CUDA graphs whose list needs no padding: the pieces are at least as many as
\* the grid takes.
Graphs == {[Request(<<60, 4, 4, 6, 8>>, 1, 16) EXCEPT !.graph = TRUE],
           [Request(<<12, 12>>, 1, 4) EXCEPT !.graph = TRUE]}

Exact == Found \cup Given \cup Tiled \cup Graphs

\* A list that is padded; the third would need more room than there is.
Padded == {[Request(<<22, 13>>, 1, 9) EXCEPT !.graph = TRUE], [Request(<<17>>, 1, 12) EXCEPT !.graph = TRUE]}
=============================================================================
