------------------------------ MODULE MCOutput -------------------------------
(* Both streams of the first slot, one of the second. *)
EXTENDS Output

TwoAndOne == {<<1, "stdout">>, <<1, "stderr">>, <<2, "stdout">>}
==============================================================================
