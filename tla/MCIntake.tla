-------------------------------- MODULE MCIntake --------------------------------
(* Manuscripts for BookIntake: numbered chapters, a text without headings, *)
(* a named heading before a numbered one, which makes a number twice, a    *)
(* heading without a text, and a chapter numbered zero.                    *)
EXTENDS BookIntake

LOCAL Text(w)        == [mark |-> "text", number |-> 0, words |-> w]
LOCAL Numbered(n, w) == [mark |-> "number", number |-> n, words |-> w]
LOCAL Named(w)       == [mark |-> "name", number |-> 0, words |-> w]

MCManuscripts ==
    {<<Named(1), Numbered(1, 2), Text(1), Numbered(2, 0), Text(2), Text(1)>>,
     <<Text(1)>>,
     <<Named(1), Text(1), Numbered(1, 0), Text(2)>>,
     <<Numbered(0, 0), Text(1)>>}
=============================================================================
