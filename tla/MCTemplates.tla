------------------------------ MODULE MCTemplates ------------------------------
(***************************************************************************)
(* A small instance of Templates for TLC.  An earlier release saved a text *)
(* of its author for the chief or nothing; the author writes one text for  *)
(* each role; a text of the earlier format is refused by the new store.    *)
(***************************************************************************)
EXTENDS Templates, TLC

MCTextOf(words, fields) == [words |-> words, fields |-> fields]
MCPublished == "title" :> MCTextOf("own", {"task"})
MCEarlier   == {"chief" :> MCTextOf("own", {"task"})}
MCOwn == ("chief" :> {MCTextOf("own", {"task", "scale"})}) @@ ("title" :> {})
=============================================================================
