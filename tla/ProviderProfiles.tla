--------------------------- MODULE ProviderProfiles ---------------------------
(***************************************************************************)
(* Provider profiles (services/provider_profiles.py and its routes): a     *)
(* registry file, a file of verified capabilities, one key file per        *)
(* profile, and the stages that freeze a profile and send with it.         *)
(*                                                                         *)
(* The files are rewritten whole and without awaiting, so a request is     *)
(* atomic where it does not wait for a provider or for the database; a     *)
(* probe and a deletion wait, and other requests run meanwhile.            *)
(***************************************************************************)
EXTENDS Naturals, FiniteSets

CONSTANTS
    Profiles,       \* profile ids
    BuiltIn,        \* those of them the program ships
    NeedKey,        \* those that send a key
    Endpoints,      \* everything in a profile but its prices and its switch
    Offered,        \* models a profile offers
    Prices,         \* prices of a model, NoPrice among them
    NoPrice,
    ScriptProbes,   \* whether the verification script runs beside the application
    MaxChanges,     \* search bound: edits, preferences, probes and stages
    MaxMishaps,     \* search bound: crashes and failing writes
    Unset

ASSUME ProfilesAssumption ==
    /\ BuiltIn \subseteq Profiles /\ NeedKey \subseteq Profiles
    /\ NoPrice \in Prices /\ Endpoints # {}
    /\ Unset \notin Profiles \cup Endpoints \cup Offered
    /\ ScriptProbes \in BOOLEAN /\ MaxChanges \in Nat /\ MaxMishaps \in Nat

VARIABLES
    registry,       \* the profiles in provider-profiles.json, or Missing
    deletedIds,     \* deleted_profile_ids of the same file
    preference,     \* default_models of the same file
    overlays,       \* provider-capabilities.json
    keyed,          \* profiles that have a key file
    probe,          \* the test or verification of a profile, by who runs it
    shown,          \* the revision of the profile on the author's page
    deletion,       \* the deletion that holds the table locks
    stage,          \* a stage that writes with the profile, and its call
    changes, mishaps

profileVars == <<registry, deletedIds, preference, overlays, keyed, probe, shown,
                 deletion, stage, changes, mishaps>>

-----------------------------------------------------------------------------
(* A profile, its revision, and the capabilities verified for it.          *)

Contracts == [endpoint : Endpoints, prices : [Offered -> Prices], enabled : BOOLEAN]
Profile   == [contract : Contracts,
              declared : [Offered -> Endpoints \cup {Unset}]]   \* verified_at, of which endpoint
Missing   == [contract |-> Unset]
Priceless == [endpoint : Endpoints, enabled : BOOLEAN]
Overlay   == [full : Contracts, stamp : Priceless \cup {Unset},
              measured : Endpoints, price : Prices]
NoOverlay == [full |-> Unset]
AtEase    == [kind |-> "none"]
NoStage   == [status |-> "none", work |-> "none", call |-> "none", frozen |-> Missing]

WithoutPrices(c) == [endpoint |-> c.endpoint, enabled |-> c.enabled]

(* An overlay that older versions wrote has only the digest of the full    *)
(* contract: it still fits if the prices of then, where verified models    *)
(* kept them, turn the contract of now into the contract of then.          *)
Matches(p, o) ==
    LET now  == registry[p].contract
        kept == {m \in Offered : overlays[p][m] # NoOverlay /\ overlays[p][m].full = o.full}
        then == [now EXCEPT !.prices =
                    [m \in Offered |-> IF m \in kept THEN overlays[p][m].price ELSE @[m]]]
    IN IF o.stamp # Unset THEN o.stamp = WithoutPrices(now) ELSE o.full \in {now, then}

LiveProfile(p) == registry[p] # Missing

(* What list_profiles returns as the verified endpoint of a model.         *)
Verified(p, m) ==
    IF overlays[p][m] # NoOverlay /\ Matches(p, overlays[p][m])
    THEN overlays[p][m].measured ELSE registry[p].declared[m]

Seen(p) == [contract |-> registry[p].contract,
            declared |-> [m \in Offered |-> Verified(p, m)]]

ProfilesTypeOK ==
    /\ \A p \in Profiles : LiveProfile(p) => registry[p] \in Profile
    /\ deletedIds \subseteq Profiles \ BuiltIn
    /\ preference \in [Profiles -> Offered \cup {Unset}]
    /\ \A p \in Profiles, m \in Offered : overlays[p][m] # NoOverlay => overlays[p][m] \in Overlay
    /\ keyed \subseteq Profiles
    /\ \A p \in Profiles : LiveProfile(p) <=> p \notin deletedIds
    /\ \A p \in deletedIds : preference[p] = Unset
    /\ changes \in 0..MaxChanges /\ mishaps \in 0..MaxMishaps

InitProfiles ==
    \E old \in BOOLEAN, price \in Prices :
        LET e == CHOOSE e \in Endpoints : TRUE      \* only whether it changes matters
            c == [endpoint |-> e, prices |-> [m \in Offered |-> price], enabled |-> TRUE] IN
        /\ registry = [p \in Profiles |-> [contract |-> c, declared |-> [m \in Offered |-> Unset]]]
        /\ overlays = [p \in Profiles |-> [m \in Offered |->
              IF old THEN [full |-> c, stamp |-> Unset, measured |-> e, price |-> price]
              ELSE NoOverlay]]
        /\ deletedIds = {} /\ preference = [p \in Profiles |-> Unset] /\ keyed = {}
        /\ probe = [w \in {"app", "script"} |-> [p \in Profiles |-> AtEase]]
        /\ shown = [p \in Profiles |-> Unset]
        /\ deletion = Unset
        /\ stage = [p \in Profiles |-> NoStage]
        /\ changes = 0 /\ mishaps = 0

HasKey(p) == p \in NeedKey => p \in keyed

Change == changes < MaxChanges /\ changes' = changes + 1
Mishap == mishaps < MaxMishaps /\ mishaps' = mishaps + 1

-----------------------------------------------------------------------------
(* Editing.  The page sends the whole profile, without what was verified.  *)

AssertIdleIgnored(p) == TRUE
AssertIdle(p) == probe["app"][p] = AtEase

Forget(p) == [preference EXCEPT ![p] = Unset]

SaveProfile(p) ==
    /\ Change /\ LiveProfile(p) /\ p \notin BuiltIn /\ AssertIdle(p)
    /\ \E e \in Endpoints, price \in [Offered -> Prices] :
          registry' = [registry EXCEPT ![p] =
             [contract |-> [endpoint |-> e, prices |-> price, enabled |-> @.contract.enabled],
              declared |-> [m \in Offered |-> Unset]]]
    /\ preference' = Forget(p)
    /\ UNCHANGED <<deletedIds, overlays, keyed, probe, shown, deletion, stage, mishaps>>

(* Switching writes back the profile as listed, capabilities included.     *)
SetEnabled(p) ==
    /\ Change /\ LiveProfile(p) /\ p \notin BuiltIn /\ AssertIdle(p)
    /\ registry' = [registry EXCEPT ![p] = [Seen(p) EXCEPT !.contract.enabled = ~@]]
    /\ UNCHANGED <<deletedIds, preference, overlays, keyed, probe, shown, deletion, stage, mishaps>>

SetPreferredModel(p, m) ==
    /\ Change /\ LiveProfile(p)
    /\ preference' = [preference EXCEPT ![p] = m]
    /\ UNCHANGED <<registry, deletedIds, overlays, keyed, probe, shown, deletion, stage, mishaps>>

SaveCredential(p) ==
    /\ LiveProfile(p)
    /\ keyed' = keyed \cup {p}
    /\ UNCHANGED <<registry, deletedIds, preference, overlays, probe, shown, deletion, stage,
                   changes, mishaps>>

-----------------------------------------------------------------------------
(* A connection test is one request, a verification two; both mark the     *)
(* profile busy in the process that runs them.                             *)

StartProbe(w, p, kind, m) ==
    /\ Change /\ LiveProfile(p) /\ registry[p].contract.enabled /\ HasKey(p)
    /\ probe[w][p] = AtEase
    /\ w = "script" => ScriptProbes /\ kind = "verify"
    /\ kind = "verify" => registry[p].contract.prices[m] # NoPrice
    /\ probe' = [probe EXCEPT ![w][p] =
          [kind |-> kind, model |-> m, left |-> IF kind = "verify" THEN 2 ELSE 1,
           measured |-> registry[p].contract.endpoint, price |-> registry[p].contract.prices[m]]]
    /\ UNCHANGED <<registry, deletedIds, preference, overlays, keyed, shown, deletion, stage, mishaps>>

(* A probe request ended; every end is noted in a file of its own.         *)
ProbeAnswered(w, p) ==
    /\ probe[w][p] # AtEase /\ probe[w][p].left > 1
    /\ probe' = [probe EXCEPT ![w][p].left = @ - 1]
    /\ UNCHANGED <<registry, deletedIds, preference, overlays, keyed, shown, deletion, stage,
                   changes, mishaps>>

(* An invalid answer, a request that failed, or costs above the ceiling:   *)
(* nothing is recorded.                                                    *)
ProbeEnds(w, p) ==
    /\ probe[w][p] # AtEase
    /\ probe' = [probe EXCEPT ![w][p] = AtEase]
    /\ UNCHANGED <<registry, deletedIds, preference, overlays, keyed, shown, deletion, stage,
                   changes, mishaps>>

(* The overlays that fit now are stamped, and this one is written.         *)
StampedAll(p) ==
    [m \in Offered |->
       IF overlays[p][m] # NoOverlay
       THEN [overlays[p][m] EXCEPT !.stamp = WithoutPrices(registry[p].contract)]
       ELSE overlays[p][m]]

Stamped(p) ==
    [m \in Offered |->
       IF overlays[p][m] # NoOverlay /\ Matches(p, overlays[p][m])
       THEN [overlays[p][m] EXCEPT !.stamp = WithoutPrices(registry[p].contract)]
       ELSE overlays[p][m]]
RecordVerified(w, p) ==
    /\ probe[w][p] # AtEase /\ probe[w][p].kind = "verify" /\ probe[w][p].left = 1
    /\ LiveProfile(p)
    /\ overlays' = [overlays EXCEPT ![p] =
          [Stamped(p) EXCEPT ![probe[w][p].model] =
             [full |-> registry[p].contract, stamp |-> WithoutPrices(registry[p].contract),
              measured |-> probe[w][p].measured, price |-> probe[w][p].price]]]
    /\ probe' = [probe EXCEPT ![w][p] = AtEase]
    /\ UNCHANGED <<registry, deletedIds, preference, keyed, shown, deletion, stage, changes, mishaps>>

-----------------------------------------------------------------------------
(* A stage freezes the profile.  Authorizing and claiming read it again    *)
(* before they write, and their writes wait for a deletion's table lock.   *)

CreateStage(p) ==
    /\ Change /\ stage[p] = NoStage /\ deletion = Unset
    /\ LiveProfile(p) /\ registry[p].contract.enabled
    /\ stage' = [stage EXCEPT ![p] =
          [status |-> "draft", work |-> "none", call |-> "none", frozen |-> Seen(p)]]
    /\ UNCHANGED <<registry, deletedIds, preference, overlays, keyed, probe, shown, deletion,
                   mishaps>>

AssertCurrentIgnored(p) == TRUE
AssertCurrent(p) == LiveProfile(p) /\ Seen(p) = stage[p].frozen

(* work names the check that passed in a transaction yet to be committed.  *)
Check(p, from, work) ==
    /\ stage[p].status = from /\ stage[p].work = "none"
    /\ stage[p].call \notin {"executing", "sent", "unknown"}
    /\ AssertCurrent(p)
    /\ stage' = [stage EXCEPT ![p].work = work]
    /\ UNCHANGED <<registry, deletedIds, preference, overlays, keyed, probe, shown, deletion,
                   changes, mishaps>>

Authorize(p) == Check(p, "draft", "authorize")
ClaimStage(p)     == Check(p, "queued", "claim")

CommitStage(p) ==
    /\ stage[p].work # "none" /\ deletion = Unset
    /\ stage' = [stage EXCEPT
          ![p].status = "queued", ![p].work = "none",
          ![p].call = IF stage[p].work = "claim" THEN "executing" ELSE @]
    /\ UNCHANGED <<registry, deletedIds, preference, overlays, keyed, probe, shown, deletion,
                   changes, mishaps>>

(* A claim refused by a changed profile leaves the stage to its author.    *)
RefuseClaim(p) ==
    /\ stage[p].status = "queued" /\ stage[p].work = "none"
    /\ stage[p].call \notin {"executing", "sent", "unknown"}
    /\ ~AssertCurrent(p) /\ deletion = Unset
    /\ stage' = [stage EXCEPT ![p].status = "draft"]
    /\ UNCHANGED <<registry, deletedIds, preference, overlays, keyed, probe, shown, deletion,
                   changes, mishaps>>

(* Without the key it needs nothing is sent.                               *)
SendCall(p) ==
    /\ stage[p].call = "executing" /\ HasKey(p)
    /\ stage' = [stage EXCEPT ![p].call = "sent"]
    /\ UNCHANGED <<registry, deletedIds, preference, overlays, keyed, probe, shown, deletion,
                   changes, mishaps>>

(* The call ends, or its end is unknown until the author closes it; the    *)
(* stage pauses, goes on, or is over.                                      *)
EndStageCall(p) ==
    /\ stage[p].call \in {"executing", "sent", "unknown"} /\ deletion = Unset
    /\ \E end \in {"closed", "unknown"}, status \in {"draft", "queued", "over"} :
          /\ stage[p].call = "unknown" => end = "closed"
          /\ end = "unknown" => stage[p].call = "sent" /\ status = "draft"
          /\ stage' = [stage EXCEPT ![p].call = end, ![p].status = status]
    /\ UNCHANGED <<registry, deletedIds, preference, overlays, keyed, probe, shown, deletion,
                   changes, mishaps>>

-----------------------------------------------------------------------------
(* Deletion: the author confirms the revision on the page; the guard takes *)
(* its table locks, looks for users and waits for its queries; the key and *)
(* the profile go without waiting.                                         *)

ShowProfile(p) ==
    /\ LiveProfile(p) /\ shown[p] # registry[p].contract
    /\ shown' = [shown EXCEPT ![p] = registry[p].contract]
    /\ UNCHANGED <<registry, deletedIds, preference, overlays, keyed, probe, deletion, stage,
                   changes, mishaps>>

InUseByCall(p) == stage[p].call \in {"executing", "sent", "unknown"}
InUse(p) == stage[p].call \in {"executing", "sent", "unknown"} \/ stage[p].status = "queued"

GuardDeletion(p) ==
    /\ LiveProfile(p) /\ p \notin BuiltIn /\ shown[p] # Unset /\ deletion = Unset
    /\ ~InUse(p)
    /\ deletion' = p
    /\ UNCHANGED <<registry, deletedIds, preference, overlays, keyed, probe, shown, stage,
                   changes, mishaps>>

(* What is gone by the time the request ends, or stops half way.           *)
DeletionOrderReversed == {{}, {"profile"}, {"key", "profile"}}
DeletionOrder         == {{}, {"key"}, {"key", "profile"}}

Confirmed(p) == LiveProfile(p) /\ registry[p].contract = shown[p]

DeleteProfile(p) ==
    /\ deletion = p /\ deletion' = Unset
    /\ \E gone \in DeletionOrder :
          /\ "profile" \in gone \/ "key" \in gone => Confirmed(p) /\ AssertIdle(p)
          /\ IF gone \notin {{}, {"key", "profile"}} THEN Mishap ELSE UNCHANGED mishaps
          /\ keyed' = IF "key" \in gone THEN keyed \ {p} ELSE keyed
          /\ IF "profile" \in gone
             THEN /\ registry' = [registry EXCEPT ![p] = Missing]
                  /\ deletedIds' = deletedIds \cup {p}
                  /\ preference' = Forget(p)
             ELSE UNCHANGED <<registry, deletedIds, preference>>
    /\ UNCHANGED <<overlays, probe, shown, stage, changes>>

(* The application stops; its transactions are rolled back, its probes     *)
(* forgotten, and its executing calls are unknown when it starts again.    *)
StopApplication ==
    /\ Mishap
    /\ deletion' = Unset
    /\ probe' = [probe EXCEPT !["app"] = [p \in Profiles |-> AtEase]]
    /\ stage' = [p \in Profiles |->
          [stage[p] EXCEPT !.work = "none",
                           !.status = IF stage[p].call \in {"executing", "sent"} THEN "draft" ELSE @,
                           !.call = IF @ \in {"executing", "sent"} THEN "unknown" ELSE @]]
    /\ UNCHANGED <<registry, deletedIds, preference, overlays, keyed, shown, changes>>

NextProfiles ==
    \/ \E p \in Profiles :
         \/ SaveProfile(p) \/ SetEnabled(p) \/ SaveCredential(p)
         \/ \E m \in Offered : SetPreferredModel(p, m)
         \/ \E w \in {"app", "script"} :
              \/ \E m \in Offered, kind \in {"test", "verify"} : StartProbe(w, p, kind, m)
              \/ ProbeAnswered(w, p) \/ ProbeEnds(w, p) \/ RecordVerified(w, p)
         \/ CreateStage(p) \/ Authorize(p) \/ ClaimStage(p) \/ CommitStage(p) \/ RefuseClaim(p)
         \/ SendCall(p) \/ EndStageCall(p)
         \/ ShowProfile(p) \/ GuardDeletion(p) \/ DeleteProfile(p)
    \/ StopApplication

ProfilesSpec == InitProfiles /\ [][NextProfiles]_profileVars

-----------------------------------------------------------------------------
(* Properties.                                                             *)

(* A model is listed as verified only for the endpoint it was measured at, *)
(* through edits, price changes, switching off and on, and overlays of     *)
(* older versions (_capability_overlay_matches, probe_operation).          *)
VerifiedIsMeasured ==
    \A p \in Profiles, m \in Offered :
        LiveProfile(p) => Verified(p, m) \in {Unset, registry[p].contract.endpoint}

(* A deleted profile leaves no key behind, wherever its deletion stopped.  *)
NoOrphanKey == \A p \in Profiles : ~LiveProfile(p) => p \notin keyed

(* The profiles are sound: what a route claims of itself was measured on   *)
(* the contract it has now, and no key outlives its profile                *)
(* (provider_registry.py, routes/provider_profiles.py).                    *)
ProfilesAreSound == VerifiedIsMeasured /\ NoOrphanKey

(* No request is sent for a deleted profile, although authorizing and      *)
(* claiming check it before they write (guard_profile_deletion).           *)
DeletedIsNotSent ==
    [][\A p \in Profiles :
          (stage[p].call = "executing" /\ stage'[p].call = "sent") => LiveProfile(p)]_profileVars

=============================================================================
