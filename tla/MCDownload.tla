----------------------------- MODULE MCDownload -----------------------------
EXTENDS Download

MCStart == [ahead |-> 2, other |-> 1, behind |-> 0]
MCDials == {<<"behind", "ahead">>, <<"behind", "other">>}

(* Two nodes, and a chain of more than two batches *)
MCTwoStart == [ahead |-> 6, behind |-> 3]
MCOneDial == {<<"behind", "ahead">>}
=============================================================================
