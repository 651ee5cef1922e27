----------------------------- MODULE MCFrontEnd -----------------------------
(***************************************************************************)
(* The programs FrontEnd is model checked with.                            *)
(***************************************************************************)
EXTENDS FrontEnd

\* Squashes of a branch and of an access behind a store, and of serializing
\* instructions behind a branch, an instruction and a store.
SquashPrograms ==
  {<<"branch", "store">>, <<"store", "load">>, <<"load", "branch">>,
   <<"branch", "after", "before">>, <<"after", "alu", "before">>,
   <<"store", "before">>}

\* More than the reorder buffer and the skid buffers hold, without a squash.
LongProgram == <<"store", "before">> \o [k \in 1..5 |-> "branch"]

FrontPrograms == SquashPrograms \cup {LongProgram}
SquashesOf == [p \in FrontPrograms |-> IF p = LongProgram THEN 0 ELSE 1]
=============================================================================
