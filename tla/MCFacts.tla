------------------------------- MODULE MCFacts --------------------------------
(* A few reports on a unit of two paragraphs: objects that refer to one    *)
(* another against the order of the text, a promise before its scene, and  *)
(* promises, hints and things that are told on in a later unit.            *)
EXTENDS StageFacts

LOCAL Raw(kind, known, ref, at, action) ==
    [kind |-> kind, known |-> known, ref |-> ref, at |-> at, action |-> action]

MCReports ==
    {<<Raw("thing", FALSE, 0, {2}, "established"), Raw("thing", FALSE, 1, {1}, "established"),
       Raw("scene", FALSE, 2, {1}, "established"), Raw("promise", FALSE, 0, {2}, "advanced"),
       Raw("hint", FALSE, 4, {1}, "established")>>,
     <<Raw("promise", FALSE, 0, {1}, "established"), Raw("scene", FALSE, 0, {1, 2}, "established"),
       Raw("hint", FALSE, 1, {1}, "established")>>,
     <<Raw("scene", FALSE, 0, {1}, "established"), Raw("promise", TRUE, 0, {1, 2}, "fulfilled"),
       Raw("hint", TRUE, 0, {1, 2}, "advanced"), Raw("thing", TRUE, 0, {1}, "established")>>}

MCUnits    == <<2, 1>>
MCEditions == <<1, 0>>
=============================================================================
