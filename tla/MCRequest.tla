----------------------------- MODULE MCRequest -----------------------------
(* Small stories to prepare requests for: two people and their bond, a     *)
(* deed that may cite one of them or a myth, a curfew over it, and a gate   *)
(* that names the myth.                                                    *)
EXTENDS RequestMaterial, TLC

MCKind == [hero |-> "person", rival |-> "person", bond |-> "bond", deed |-> "fact",
           curfew |-> "constraint", gate |-> "lore", myth |-> "lore"]
MCCites(deed) == [hero |-> {}, rival |-> {}, bond |-> {"hero", "rival"}, deed |-> deed,
                  curfew |-> {"deed"}, gate |-> {}, myth |-> {}]
MCNames(deed) == [hero |-> {}, rival |-> {}, bond |-> {}, deed |-> deed,
                  curfew |-> {}, gate |-> {"myth"}, myth |-> {}]
MCFound == {[records |-> <<"gate", "deed">>, passages |-> <<<<1, 1>>, <<2, 3>>>>],
            [records |-> <<"deed">>, passages |-> <<<<1, 2>>>>]}
MCPlain == [records |-> <<"bond", "myth">>, passages |-> <<>>]
MCOpenings ==
    {[records |-> DOMAIN MCKind, kind |-> MCKind, cites |-> MCCites(cn[1]), names |-> MCNames(cn[2]),
      cast |-> cs[1], spoken |-> cs[2], present |-> {}, ranking |-> <<"rival", "hero">>,
      voiced |-> {"hero", "rival"}, lengths |-> <<1, 2, 1>>, summaries |-> 2, beside |-> <<1, 3>>,
      lookups |-> MCFound \cup {MCPlain}, plain |-> MCPlain] :
        cn \in {<<{}, {}>>, <<{}, {"gate"}>>, <<{"rival"}, {}>>, <<{"myth"}, {"gate"}>>},
        cs \in {<<{}, {}>>, <<{}, {"deed"}>>, <<{"hero"}, {"deed"}>>, <<{"hero"}, {"gate"}>>}}
MCPreparations ==
    {[role |-> "chief", policy |-> p, fixed |-> 3, planned |-> planned] :
        p \in {"role-key-v3", "chief-focus-v4"}, planned \in BOOLEAN}
    \cup {[role |-> r, policy |-> "chief-focus-v4", fixed |-> f, planned |-> TRUE] : r \in {"writer", "memory"}, f \in {4, 8}}
    \cup {[role |-> "writer", policy |-> "role-rag-v2", fixed |-> 4, planned |-> TRUE]}
    \cup {[role |-> r, policy |-> "chief-focus-v4", fixed |-> 9, planned |-> TRUE] : r \in {"editor", "reader"}}
MCLocalEdits == {r \in MCPreparations : r.role = "editor"}
=============================================================================
