-------------------------------- MODULE MCView --------------------------------
(* Lines that take one row and several, a tab, a wide grapheme, stderr.        *)
EXTENDS View

Ones(n) == [i \in 1 .. n |-> 1]

Lines == << { [err |-> FALSE, text |-> Ones(20)] },
            { [err |-> TRUE, text |-> <<1, Tab, 2>>] } >>

Terminals == { [width |-> 8, height |-> 2], [width |-> 14, height |-> 3] }
==============================================================================
