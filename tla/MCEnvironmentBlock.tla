--------------------------- MODULE MCEnvironmentBlock ---------------------------
(***************************************************************************)
(* Small sizes around a small Chunk, so that strings that just fit, just   *)
(* do not, and need more than one chunk all occur.                         *)
(***************************************************************************)
EXTENDS EnvironmentBlock

CONSTANTS a, b, short, long

Names == {a, b}
Values == {short, long}

\* The prefix counts for two characters, '=' for one, the name a for none and b
\* for one, a long value for five.
Sizes ==
    [c \in Variable \X Values |->
        (IF c[1][1] = "CONTEXT_" THEN 4 ELSE 2) + (IF c[2] = long THEN 5 ELSE 0)
            - (IF c[1][2] = a THEN 1 ELSE 0)]
=================================================================================
