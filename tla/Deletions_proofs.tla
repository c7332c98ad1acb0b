--------------------------- MODULE Deletions_proofs ---------------------------
(***************************************************************************)
(* What the author deletes for good: a provider profile with its key       *)
(* (ProviderProfiles), and a whole book with its files (ProjectDeletion).  *)
(* For any number of profiles, endpoints, models, books, contents, keys,   *)
(* edits and crashes.                                                      *)
(***************************************************************************)
EXTENDS ProviderProfiles, ProjectDeletion, FiniteSetTheorems, TLAPS

-----------------------------------------------------------------------------
(* Provider profiles.  The guard of a deletion and the check of a claim    *)
(* each look once and act later; what joins them is that a stage with a    *)
(* claim on its way is queued, that a guard finds it queued, and that      *)
(* nothing of a stage is committed while the guard holds its locks.        *)

Stages == [status : {"none", "draft", "queued", "over"},
           work : {"none", "authorize", "claim"},
           call : {"none", "executing", "sent", "unknown", "closed"},
           frozen : Profile \cup {Missing}]

Probes == [kind : {"test", "verify"}, model : Offered, left : {1, 2},
           measured : Endpoints, price : Prices]

ProfileTypes ==
    /\ registry \in [Profiles -> Profile \cup {Missing}]
    /\ overlays \in [Profiles -> [Offered -> Overlay \cup {NoOverlay}]]
    /\ probe \in [{"app", "script"} -> [Profiles -> Probes \cup {AtEase}]]
    /\ stage \in [Profiles -> Stages]
    /\ deletion \in Profiles \cup {Unset}
    /\ keyed \subseteq Profiles

\* What is claimed of a model, in the registry or beside it, names the
\* endpoint it was measured at.
Claims ==
    /\ \A p \in Profiles, m \in Offered : LiveProfile(p) =>
          registry[p].declared[m] \in {Unset, registry[p].contract.endpoint}
    /\ \A p \in Profiles, m \in Offered : overlays[p][m] # NoOverlay =>
          /\ overlays[p][m].measured = overlays[p][m].full.endpoint
          /\ overlays[p][m].stamp # Unset =>
                overlays[p][m].measured = overlays[p][m].stamp.endpoint

\* A probe measures the profile as it is: an edit and a deletion wait for it.
ProbesHold ==
    \A w \in {"app", "script"}, p \in Profiles : probe[w][p] # AtEase =>
        w = "app" /\ LiveProfile(p) /\ probe[w][p].measured = registry[p].contract.endpoint

\* A claim and a call keep the profile alive.
Claimed ==
    \A p \in Profiles :
        /\ stage[p].work = "claim" => stage[p].status = "queued"
        /\ stage[p].work # "none" => ~InUseByCall(p)
        /\ stage[p].work = "claim" \/ InUseByCall(p) => LiveProfile(p)
        /\ deletion = p => ~InUse(p)

ProfilesInv == ProfileTypes /\ Claims /\ NoOrphanKey /\ ProbesHold
SendingInv  == ProfileTypes /\ Claimed

LEMMA MissingIsNoProfile ==
  /\ \A r \in Profile : r # Missing
  /\ \A c \in Contracts : WithoutPrices(c) \in Priceless
  /\ Missing \in Profile \cup {Missing}
<1>1. ASSUME NEW r \in Profile PROVE r # Missing
  <2>1. r.contract \in Contracts /\ r.declared \in [Offered -> Endpoints \cup {Unset}]
    BY DEF Profile
  <2>2. DOMAIN r = {"contract", "declared"}
    BY DEF Profile
  <2>3. DOMAIN Missing = {"contract"}
    BY DEF Missing
  <2> QED
    BY <2>2, <2>3
<1>2. ASSUME NEW c \in Contracts PROVE WithoutPrices(c) \in Priceless
  <2>1. c.endpoint \in Endpoints /\ c.enabled \in BOOLEAN
    BY DEF Contracts
  <2> QED
    BY <2>1 DEF WithoutPrices, Priceless
<1> QED
  BY <1>1, <1>2

LEMMA NoOverlayIsNone == \A o \in Overlay : o # NoOverlay
<1> TAKE o \in Overlay
<1>1. DOMAIN o = {"full", "stamp", "measured", "price"}
  BY DEF Overlay
<1>2. DOMAIN NoOverlay = {"full"}
  BY DEF NoOverlay
<1> QED
  BY <1>1, <1>2

LEMMA AtEaseIsNone == \A r \in Probes : r # AtEase
<1> TAKE r \in Probes
<1>1. r.kind \in {"test", "verify"}
  BY DEF Probes
<1> QED
  BY <1>1 DEF AtEase

\* What a listing shows is a profile.
LEMMA SeenIsProfile ==
  ASSUME ProfileTypes, NEW p \in Profiles, LiveProfile(p)
  PROVE  /\ registry[p] \in Profile /\ Seen(p) \in Profile
         /\ Seen(p).contract = registry[p].contract
         /\ \A m \in Offered : /\ Seen(p).declared[m] = Verified(p, m)
                               /\ Verified(p, m) \in Endpoints \cup {Unset}
<1>1. registry[p] \in Profile
  BY DEF ProfileTypes, LiveProfile
<1>2. registry[p].contract \in Contracts /\ registry[p].declared \in [Offered -> Endpoints \cup {Unset}]
  BY <1>1 DEF Profile
<1>3. \A m \in Offered : Verified(p, m) \in Endpoints \cup {Unset}
  <2> TAKE m \in Offered
  <2>1. overlays[p][m] \in Overlay \cup {NoOverlay}
    BY DEF ProfileTypes
  <2>2. overlays[p][m] # NoOverlay => overlays[p][m].measured \in Endpoints
    BY <2>1 DEF Overlay
  <2>3. registry[p].declared[m] \in Endpoints \cup {Unset}
    BY <1>2
  <2> QED
    BY <2>2, <2>3 DEF Verified
<1>4. [m \in Offered |-> Verified(p, m)] \in [Offered -> Endpoints \cup {Unset}]
  BY <1>3
<1>5. Seen(p) \in Profile
  BY <1>2, <1>4 DEF Seen, Profile
<1> QED
  BY <1>1, <1>3, <1>5 DEF Seen

\* A listed model was measured at the endpoint the profile has.
LEMMA ListedIsMeasured ==
  ASSUME ProfileTypes, Claims, NEW p \in Profiles, LiveProfile(p), NEW m \in Offered
  PROVE  /\ Verified(p, m) \in {Unset, registry[p].contract.endpoint}
         /\ overlays[p][m] # NoOverlay /\ Matches(p, overlays[p][m]) =>
              overlays[p][m].measured = registry[p].contract.endpoint
<1>1. registry[p] \in Profile
  BY DEF ProfileTypes, LiveProfile
<1> DEFINE now == registry[p].contract
           o   == overlays[p][m]
<1>2. now \in Contracts
  BY <1>1 DEF Profile
<1>3. overlays[p][m] # NoOverlay /\ Matches(p, overlays[p][m]) => o.measured = now.endpoint
  <2> SUFFICES ASSUME o # NoOverlay, Matches(p, o)
               PROVE  o.measured = now.endpoint
    OBVIOUS
  <2>1. o.measured = o.full.endpoint /\ (o.stamp # Unset => o.measured = o.stamp.endpoint)
    BY DEF Claims
  <2>2. CASE o.stamp # Unset
    <3>1. o.stamp = WithoutPrices(now)
      BY <2>2 DEF Matches
    <3> QED
      BY <2>1, <2>2, <3>1 DEF WithoutPrices
  <2>3. CASE o.stamp = Unset
    <3> DEFINE kept == {n \in Offered : overlays[p][n] # NoOverlay /\ overlays[p][n].full = o.full}
               was  == [now EXCEPT !.prices =
                          [n \in Offered |-> IF n \in kept THEN overlays[p][n].price ELSE @[n]]]
    <3>1. o.full \in {now, was}
      BY <2>3 DEF Matches
    <3>2. was.endpoint = now.endpoint
      BY <1>2 DEF Contracts
    <3> QED
      BY <2>1, <3>1, <3>2
  <2> QED
    BY <2>2, <2>3
<1>4. registry[p].declared[m] \in {Unset, now.endpoint}
  BY DEF Claims
<1> QED
  BY <1>3, <1>4 DEF Verified

LEMMA UnsetIsNoProfile == Unset \notin Profiles
BY ProfilesAssumption

LEMMA ProfileTypesInit == InitProfiles => ProfileTypes
<1> SUFFICES ASSUME InitProfiles PROVE ProfileTypes
  OBVIOUS
<1> USE ProfilesAssumption
<1>0. PICK old \in BOOLEAN, price \in Prices :
        LET e == CHOOSE e \in Endpoints : TRUE
            c == [endpoint |-> e, prices |-> [m \in Offered |-> price], enabled |-> TRUE] IN
        /\ registry = [p \in Profiles |-> [contract |-> c, declared |-> [m \in Offered |-> Unset]]]
        /\ overlays = [p \in Profiles |-> [m \in Offered |->
              IF old THEN [full |-> c, stamp |-> Unset, measured |-> e, price |-> price]
              ELSE NoOverlay]]
        /\ keyed = {} /\ deletion = Unset
        /\ probe = [w \in {"app", "script"} |-> [p \in Profiles |-> AtEase]]
        /\ stage = [p \in Profiles |-> NoStage]
  BY ZenonT(200) DEF InitProfiles
<1> DEFINE e == CHOOSE e \in Endpoints : TRUE
           c == [endpoint |-> e, prices |-> [m \in Offered |-> price], enabled |-> TRUE]
<1>1. e \in Endpoints
  OBVIOUS
<1> HIDE DEF e
<1>2. c \in Contracts
  BY <1>1 DEF Contracts
<1>3. registry = [p \in Profiles |-> [contract |-> c, declared |-> [m \in Offered |-> Unset]]]
      /\ overlays = [p \in Profiles |-> [m \in Offered |->
              IF old THEN [full |-> c, stamp |-> Unset, measured |-> e, price |-> price]
              ELSE NoOverlay]]
  BY <1>0 DEF e
<1> HIDE DEF c
<1>4. [contract |-> c, declared |-> [m \in Offered |-> Unset]] \in Profile
  BY <1>2 DEF Profile
<1>5. [full |-> c, stamp |-> Unset, measured |-> e, price |-> price] \in Overlay
  BY <1>1, <1>2 DEF Overlay
<1>6. registry \in [Profiles -> Profile \cup {Missing}]
  BY <1>3, <1>4
<1>7. overlays \in [Profiles -> [Offered -> Overlay \cup {NoOverlay}]]
  BY <1>3, <1>5
<1>8. probe \in [{"app", "script"} -> [Profiles -> Probes \cup {AtEase}]]
  BY <1>0
<1>9. stage \in [Profiles -> Stages]
  BY <1>0 DEF NoStage, Stages
<1> QED
  BY <1>0, <1>6, <1>7, <1>8, <1>9 DEF ProfileTypes

LEMMA ProfileTypesStep == ProfileTypes /\ [NextProfiles]_profileVars => ProfileTypes'
<1> SUFFICES ASSUME ProfileTypes, [NextProfiles]_profileVars PROVE ProfileTypes'
  OBVIOUS
<1> USE ProfilesAssumption
<1>0. CASE UNCHANGED profileVars
  BY <1>0 DEF ProfileTypes, profileVars
<1>1. ASSUME NEW p \in Profiles, SaveProfile(p) PROVE ProfileTypes'
  <2>1. PICK e \in Endpoints, price \in [Offered -> Prices] :
          registry' = [registry EXCEPT ![p] =
             [contract |-> [endpoint |-> e, prices |-> price, enabled |-> @.contract.enabled],
              declared |-> [m \in Offered |-> Unset]]]
    BY <1>1 DEF SaveProfile
  <2>2. registry[p] \in Profile
    BY <1>1 DEF SaveProfile, LiveProfile, ProfileTypes
  <2>3. registry[p].contract.enabled \in BOOLEAN
    BY <2>2 DEF Profile, Contracts
  <2> DEFINE r == [contract |-> [endpoint |-> e, prices |-> price,
                                 enabled |-> registry[p].contract.enabled],
                   declared |-> [m \in Offered |-> Unset]]
  <2>4. r \in Profile
    BY <2>3 DEF Profile, Contracts
  <2>5. registry' = [registry EXCEPT ![p] = r]
    BY <2>1
  <2> HIDE DEF r
  <2>6. registry' \in [Profiles -> Profile \cup {Missing}]
    BY <2>4, <2>5 DEF ProfileTypes
  <2> QED
    BY <1>1, <2>6 DEF SaveProfile, ProfileTypes
<1>2. ASSUME NEW p \in Profiles, SetEnabled(p) PROVE ProfileTypes'
  <2>1. Seen(p) \in Profile
    BY <1>2, SeenIsProfile DEF SetEnabled
  <2> DEFINE r == [Seen(p) EXCEPT !.contract.enabled = ~@]
  <2>2. r \in Profile
    BY <2>1 DEF Profile, Contracts
  <2>3. registry' = [registry EXCEPT ![p] = r]
    BY <1>2 DEF SetEnabled
  <2> HIDE DEF r
  <2>4. registry' \in [Profiles -> Profile \cup {Missing}]
    BY <2>2, <2>3 DEF ProfileTypes
  <2> QED
    BY <1>2, <2>4 DEF SetEnabled, ProfileTypes
<1>3. ASSUME NEW p \in Profiles, SaveCredential(p) PROVE ProfileTypes'
  BY <1>3 DEF SaveCredential, ProfileTypes
<1>4. ASSUME NEW p \in Profiles, NEW m \in Offered, SetPreferredModel(p, m) PROVE ProfileTypes'
  BY <1>4 DEF SetPreferredModel, ProfileTypes
<1>5. ASSUME NEW p \in Profiles, NEW w \in {"app", "script"}, NEW m \in Offered,
             NEW kind \in {"test", "verify"}, StartProbe(w, p, kind, m)
      PROVE  ProfileTypes'
  <2>1. registry[p] \in Profile
    BY <1>5 DEF StartProbe, LiveProfile, ProfileTypes
  <2>2. registry[p].contract.endpoint \in Endpoints /\ registry[p].contract.prices[m] \in Prices
    BY <2>1 DEF Profile, Contracts
  <2> DEFINE r == [kind |-> kind, model |-> m, left |-> IF kind = "verify" THEN 2 ELSE 1,
                   measured |-> registry[p].contract.endpoint,
                   price |-> registry[p].contract.prices[m]]
  <2>3. r \in Probes
    BY <2>2 DEF Probes
  <2>4. probe' = [probe EXCEPT ![w][p] = r]
    BY <1>5 DEF StartProbe
  <2> HIDE DEF r
  <2>5. probe' \in [{"app", "script"} -> [Profiles -> Probes \cup {AtEase}]]
    BY <2>3, <2>4 DEF ProfileTypes
  <2> QED
    BY <1>5, <2>5 DEF StartProbe, ProfileTypes
<1>6. ASSUME NEW p \in Profiles, NEW w \in {"app", "script"}, ProbeAnswered(w, p)
      PROVE  ProfileTypes'
  <2>1. probe[w][p] \in Probes
    BY <1>6 DEF ProbeAnswered, ProfileTypes
  <2>2. [probe[w][p] EXCEPT !.left = @ - 1] \in Probes
    BY <1>6, <2>1 DEF ProbeAnswered, Probes
  <2>3. probe' = [probe EXCEPT ![w] = [probe[w] EXCEPT ![p] = [probe[w][p] EXCEPT !.left = @ - 1]]]
    BY <1>6 DEF ProbeAnswered, ProfileTypes
  <2>4. probe' \in [{"app", "script"} -> [Profiles -> Probes \cup {AtEase}]]
    BY <2>2, <2>3 DEF ProfileTypes
  <2> QED
    BY <1>6, <2>4 DEF ProbeAnswered, ProfileTypes
<1>7. ASSUME NEW p \in Profiles, NEW w \in {"app", "script"}, ProbeEnds(w, p)
      PROVE  ProfileTypes'
  BY <1>7 DEF ProbeEnds, ProfileTypes
<1>8. ASSUME NEW p \in Profiles, NEW w \in {"app", "script"}, RecordVerified(w, p)
      PROVE  ProfileTypes'
  <2>1. probe[w][p] \in Probes /\ registry[p] \in Profile
    BY <1>8 DEF RecordVerified, LiveProfile, ProfileTypes
  <2>2. /\ registry[p].contract \in Contracts
        /\ WithoutPrices(registry[p].contract) \in Priceless
        /\ probe[w][p].model \in Offered /\ probe[w][p].measured \in Endpoints
        /\ probe[w][p].price \in Prices
    BY <2>1, MissingIsNoProfile DEF Profile, Probes
  <2>3. Stamped(p) \in [Offered -> Overlay \cup {NoOverlay}]
    <3> SUFFICES ASSUME NEW m \in Offered, overlays[p][m] # NoOverlay
                 PROVE  [overlays[p][m] EXCEPT !.stamp = WithoutPrices(registry[p].contract)]
                          \in Overlay
      BY DEF Stamped, ProfileTypes
    <3>1. overlays[p][m] \in Overlay
      BY DEF ProfileTypes
    <3> QED
      BY <2>2, <3>1 DEF Overlay
  <2> DEFINE o == [full |-> registry[p].contract, stamp |-> WithoutPrices(registry[p].contract),
                   measured |-> probe[w][p].measured, price |-> probe[w][p].price]
  <2>4. o \in Overlay
    BY <2>2 DEF Overlay
  <2>5. overlays' = [overlays EXCEPT ![p] = [Stamped(p) EXCEPT ![probe[w][p].model] = o]]
    BY <1>8 DEF RecordVerified
  <2> HIDE DEF o
  <2>6. overlays' \in [Profiles -> [Offered -> Overlay \cup {NoOverlay}]]
    BY <2>3, <2>4, <2>5 DEF ProfileTypes
  <2> QED
    BY <1>8, <2>6 DEF RecordVerified, ProfileTypes
<1>9. ASSUME NEW p \in Profiles, CreateStage(p) PROVE ProfileTypes'
  <2>1. Seen(p) \in Profile
    BY <1>9, SeenIsProfile DEF CreateStage
  <2>2. [status |-> "draft", work |-> "none", call |-> "none", frozen |-> Seen(p)] \in Stages
    BY <2>1 DEF Stages
  <2> QED
    BY <1>9, <2>2 DEF CreateStage, ProfileTypes
<1>10. ASSUME NEW p \in Profiles, Authorize(p) \/ ClaimStage(p) PROVE ProfileTypes'
  <2>1. PICK work \in {"authorize", "claim"} : stage' = [stage EXCEPT ![p].work = work]
    BY <1>10 DEF Authorize, ClaimStage, Check
  <2>2. stage[p] \in Stages
    BY DEF ProfileTypes
  <2>3. [stage[p] EXCEPT !.work = work] \in Stages
    BY <2>2 DEF Stages
  <2>4. stage' \in [Profiles -> Stages]
    BY <2>1, <2>3 DEF ProfileTypes
  <2> QED
    BY <1>10, <2>4 DEF Authorize, ClaimStage, Check, ProfileTypes
<1>11. ASSUME NEW p \in Profiles, CommitStage(p) \/ RefuseClaim(p) \/ SendCall(p) \/ EndStageCall(p)
       PROVE  ProfileTypes'
  <2>1. stage[p] \in Stages
    BY DEF ProfileTypes
  <2>2. PICK r \in Stages : stage' = [stage EXCEPT ![p] = r]
    <3>1. CASE CommitStage(p)
      <4> DEFINE call == IF stage[p].work = "claim" THEN "executing" ELSE stage[p].call
                 r == [stage[p] EXCEPT !.status = "queued", !.work = "none", !.call = call]
      <4>1. call \in {"none", "executing", "sent", "unknown", "closed"}
        BY <2>1 DEF Stages
      <4>2. stage' = [stage EXCEPT ![p] = r]
        BY <2>1, <3>1 DEF CommitStage, Stages
      <4> HIDE DEF call
      <4>3. r \in Stages
        BY <2>1, <4>1 DEF Stages
      <4> QED
        BY <4>2, <4>3
    <3>2. CASE RefuseClaim(p)
      <4>1. [stage[p] EXCEPT !.status = "draft"] \in Stages
        BY <2>1 DEF Stages
      <4> QED
        BY <3>2, <4>1 DEF RefuseClaim
    <3>3. CASE SendCall(p)
      <4>1. [stage[p] EXCEPT !.call = "sent"] \in Stages
        BY <2>1 DEF Stages
      <4> QED
        BY <3>3, <4>1 DEF SendCall
    <3>4. CASE EndStageCall(p)
      <4>1. PICK end \in {"closed", "unknown"}, status \in {"draft", "queued", "over"} :
              stage' = [stage EXCEPT ![p].call = end, ![p].status = status]
        BY <3>4 DEF EndStageCall
      <4>2. [stage[p] EXCEPT !.call = end, !.status = status] \in Stages
        BY <2>1 DEF Stages
      <4> QED
        BY <4>1, <4>2
    <3> QED
      BY <1>11, <3>1, <3>2, <3>3, <3>4
  <2>3. stage' \in [Profiles -> Stages]
    BY <2>2 DEF ProfileTypes
  <2> QED
    BY <1>11, <2>3 DEF CommitStage, RefuseClaim, SendCall, EndStageCall, ProfileTypes
<1>12. ASSUME NEW p \in Profiles, ShowProfile(p) \/ GuardDeletion(p) PROVE ProfileTypes'
  BY <1>12 DEF ShowProfile, GuardDeletion, ProfileTypes
<1>13. ASSUME NEW p \in Profiles, DeleteProfile(p) PROVE ProfileTypes'
  <2>1. registry' \in [Profiles -> Profile \cup {Missing}] /\ keyed' \subseteq Profiles
    BY <1>13 DEF DeleteProfile, ProfileTypes
  <2> QED
    BY <1>13, <2>1 DEF DeleteProfile, ProfileTypes
<1>14. CASE StopApplication
  <2>1. \A p \in Profiles :
          [stage[p] EXCEPT !.work = "none",
                           !.status = IF stage[p].call \in {"executing", "sent"} THEN "draft" ELSE @,
                           !.call = IF @ \in {"executing", "sent"} THEN "unknown" ELSE @] \in Stages
    <3> TAKE p \in Profiles
    <3> DEFINE status == IF stage[p].call \in {"executing", "sent"} THEN "draft" ELSE stage[p].status
               call == IF stage[p].call \in {"executing", "sent"} THEN "unknown" ELSE stage[p].call
    <3>1. stage[p] \in Stages
      BY DEF ProfileTypes
    <3>2. /\ status \in {"none", "draft", "queued", "over"}
          /\ call \in {"none", "executing", "sent", "unknown", "closed"}
      BY <3>1 DEF Stages
    <3> HIDE DEF status, call
    <3>3. [stage[p] EXCEPT !.work = "none", !.status = status, !.call = call] \in Stages
      BY <3>1, <3>2 DEF Stages
    <3> QED
      BY <3>3 DEF status, call
  <2>2. stage' \in [Profiles -> Stages]
    BY <1>14, <2>1 DEF StopApplication
  <2>3. probe' \in [{"app", "script"} -> [Profiles -> Probes \cup {AtEase}]]
    BY <1>14 DEF StopApplication, ProfileTypes
  <2> QED
    BY <1>14, <2>2, <2>3 DEF StopApplication, ProfileTypes
<1> QED
  BY <1>0, <1>1, <1>2, <1>3, <1>4, <1>5, <1>6, <1>7, <1>8, <1>9, <1>10, <1>11, <1>12, <1>13, <1>14
     DEF NextProfiles

LEMMA ClaimedStep ==
  ProfileTypes /\ Claimed /\ [NextProfiles]_profileVars => Claimed'
<1> SUFFICES ASSUME ProfileTypes, Claimed, [NextProfiles]_profileVars PROVE Claimed'
  OBVIOUS
<1> USE DEF InUse, InUseByCall, LiveProfile
<1> DEFINE Kept == UNCHANGED <<stage, deletion>>
                   /\ \A q \in Profiles : LiveProfile(q) => LiveProfile(q)'
<1>0. Kept => Claimed'
  BY DEF Claimed
<1>1. CASE UNCHANGED profileVars
  BY <1>1 DEF profileVars, Claimed
<1>2. ASSUME NEW p \in Profiles, SaveProfile(p) PROVE Kept
  <2>1. PICK e \in Endpoints, price \in [Offered -> Prices] :
          registry' = [registry EXCEPT ![p] =
             [contract |-> [endpoint |-> e, prices |-> price, enabled |-> @.contract.enabled],
              declared |-> [m \in Offered |-> Unset]]]
    BY <1>2 DEF SaveProfile
  <2> DEFINE r == [contract |-> [endpoint |-> e, prices |-> price,
                                 enabled |-> registry[p].contract.enabled],
                   declared |-> [m \in Offered |-> Unset]]
  <2>2. DOMAIN r = {"contract", "declared"} /\ DOMAIN Missing = {"contract"}
    BY DEF Missing
  <2>3. registry' = [registry EXCEPT ![p] = r]
    BY <2>1
  <2>4. r # Missing
    BY <2>2
  <2> HIDE DEF r
  <2> QED
    BY <1>2, <2>3, <2>4 DEF SaveProfile, ProfileTypes
<1>3. ASSUME NEW p \in Profiles, SetEnabled(p) PROVE Kept
  <2>1. Seen(p) \in Profile
    BY <1>3, SeenIsProfile DEF SetEnabled
  <2> DEFINE r == [Seen(p) EXCEPT !.contract.enabled = ~@]
  <2>2. r \in Profile
    BY <2>1 DEF Profile, Contracts
  <2>3. registry' = [registry EXCEPT ![p] = r]
    BY <1>3 DEF SetEnabled
  <2> HIDE DEF r
  <2>4. r # Missing
    BY <2>2, MissingIsNoProfile
  <2> QED
    BY <1>3, <2>3, <2>4 DEF SetEnabled, ProfileTypes
<1>4. ASSUME NEW p \in Profiles, SaveCredential(p) PROVE Kept
  BY <1>4 DEF SaveCredential
<1>5. ASSUME NEW p \in Profiles, NEW m \in Offered, SetPreferredModel(p, m) PROVE Kept
  BY <1>5 DEF SetPreferredModel
<1>6. ASSUME NEW p \in Profiles, NEW w \in {"app", "script"}, NEW m \in Offered,
             NEW kind \in {"test", "verify"}, StartProbe(w, p, kind, m)
      PROVE  Kept
  BY <1>6 DEF StartProbe
<1>7. ASSUME NEW p \in Profiles, NEW w \in {"app", "script"},
             ProbeAnswered(w, p) \/ ProbeEnds(w, p) \/ RecordVerified(w, p)
      PROVE  Kept
  BY <1>7 DEF ProbeAnswered, ProbeEnds, RecordVerified
<1>8. ASSUME NEW p \in Profiles, CreateStage(p) PROVE Claimed'
  <2> DEFINE r == [status |-> "draft", work |-> "none", call |-> "none", frozen |-> Seen(p)]
  <2>1. r.status = "draft" /\ r.work = "none" /\ r.call = "none"
    OBVIOUS
  <2>2. stage' = [stage EXCEPT ![p] = r]
    BY <1>8 DEF CreateStage
  <2> HIDE DEF r
  <2> QED
    BY <1>8, <2>1, <2>2 DEF CreateStage, ProfileTypes, Claimed
<1>9. ASSUME NEW p \in Profiles, Authorize(p) \/ ClaimStage(p) PROVE Claimed'
  <2>1. stage[p] \in Stages
    BY DEF ProfileTypes
  <2>2. PICK work \in {"authorize", "claim"} :
          /\ stage' = [stage EXCEPT ![p].work = work]
          /\ work = "claim" => stage[p].status = "queued"
    BY <1>9 DEF Authorize, ClaimStage, Check
  <2> DEFINE r == [stage[p] EXCEPT !.work = work]
  <2>3. r.work = work /\ r.status = stage[p].status /\ r.call = stage[p].call
    BY <2>1 DEF Stages
  <2>4. stage' = [stage EXCEPT ![p] = r]
    BY <2>2
  <2> HIDE DEF r
  <2>5. LiveProfile(p) /\ ~InUseByCall(p)
    BY <1>9 DEF Authorize, ClaimStage, Check, AssertCurrent
  <2>6. UNCHANGED <<registry, deletion>>
    BY <1>9 DEF Authorize, ClaimStage, Check
  <2> QED
    BY <2>2, <2>3, <2>4, <2>5, <2>6 DEF ProfileTypes, Claimed
<1>10. ASSUME NEW p \in Profiles, CommitStage(p) PROVE Claimed'
  <2>1. stage[p] \in Stages
    BY DEF ProfileTypes
  <2> DEFINE call == IF stage[p].work = "claim" THEN "executing" ELSE stage[p].call
             r == [stage[p] EXCEPT !.status = "queued", !.work = "none", !.call = call]
  <2>2. r.work = "none" /\ r.status = "queued" /\ r.call = call
    BY <2>1 DEF Stages
  <2>3. stage' = [stage EXCEPT ![p] = r]
    BY <1>10, <2>1 DEF CommitStage, Stages
  <2> HIDE DEF r
  <2>4. deletion = Unset /\ UNCHANGED <<registry, deletion>> /\ Unset \notin Profiles
    BY <1>10, UnsetIsNoProfile DEF CommitStage
  <2> QED
    BY <1>10, <2>2, <2>3, <2>4 DEF ProfileTypes, Claimed
<1>11. ASSUME NEW p \in Profiles, RefuseClaim(p) PROVE Claimed'
  <2>1. stage[p] \in Stages
    BY DEF ProfileTypes
  <2> DEFINE r == [stage[p] EXCEPT !.status = "draft"]
  <2>2. r.work = stage[p].work /\ r.status = "draft" /\ r.call = stage[p].call
    BY <2>1 DEF Stages
  <2>3. stage' = [stage EXCEPT ![p] = r]
    BY <1>11 DEF RefuseClaim
  <2> HIDE DEF r
  <2> QED
    BY <1>11, <2>2, <2>3 DEF RefuseClaim, ProfileTypes, Claimed
<1>12. ASSUME NEW p \in Profiles, SendCall(p) PROVE Claimed'
  <2>1. stage[p] \in Stages
    BY DEF ProfileTypes
  <2> DEFINE r == [stage[p] EXCEPT !.call = "sent"]
  <2>2. r.work = stage[p].work /\ r.status = stage[p].status /\ r.call = "sent"
    BY <2>1 DEF Stages
  <2>3. stage' = [stage EXCEPT ![p] = r]
    BY <1>12 DEF SendCall
  <2> HIDE DEF r
  <2> QED
    BY <1>12, <2>2, <2>3 DEF SendCall, ProfileTypes, Claimed
<1>13. ASSUME NEW p \in Profiles, EndStageCall(p) PROVE Claimed'
  <2>1. stage[p] \in Stages
    BY DEF ProfileTypes
  <2>2. PICK end \in {"closed", "unknown"}, status \in {"draft", "queued", "over"} :
          stage' = [stage EXCEPT ![p].call = end, ![p].status = status]
    BY <1>13 DEF EndStageCall
  <2> DEFINE r == [stage[p] EXCEPT !.call = end, !.status = status]
  <2>3. r.work = stage[p].work /\ r.status = status /\ r.call = end
    BY <2>1 DEF Stages
  <2>4. stage' = [stage EXCEPT ![p] = r]
    BY <2>2
  <2> HIDE DEF r
  <2>5. stage[p].work = "none" /\ LiveProfile(p)
    BY <1>13 DEF EndStageCall, Claimed
  <2>6. deletion = Unset /\ UNCHANGED <<registry, deletion>> /\ Unset \notin Profiles
    BY <1>13, UnsetIsNoProfile DEF EndStageCall
  <2> QED
    BY <2>3, <2>4, <2>5, <2>6 DEF ProfileTypes, Claimed
<1>14. ASSUME NEW p \in Profiles, ShowProfile(p) PROVE Kept
  BY <1>14 DEF ShowProfile
<1>15. ASSUME NEW p \in Profiles, GuardDeletion(p) PROVE Claimed'
  BY <1>15 DEF GuardDeletion, Claimed
<1>16. ASSUME NEW p \in Profiles, DeleteProfile(p) PROVE Claimed'
  <2>1. \A q \in Profiles \ {p} : registry'[q] = registry[q]
    BY <1>16 DEF DeleteProfile, ProfileTypes
  <2>2. ~InUse(p) /\ stage' = stage /\ deletion' = Unset /\ Unset \notin Profiles
    BY <1>16, UnsetIsNoProfile DEF DeleteProfile, Claimed
  <2>3. stage[p].work # "claim"
    BY <2>2 DEF Claimed
  <2> QED
    BY <2>1, <2>2, <2>3 DEF Claimed
<1>17. CASE StopApplication
  <2>1. \A p \in Profiles :
          /\ stage'[p].work = "none"
          /\ stage[p].call \in {"executing", "sent"} => stage'[p].call = "unknown"
          /\ stage[p].call \notin {"executing", "sent"} => stage'[p].call = stage[p].call
    <3> TAKE p \in Profiles
    <3>1. stage[p] \in Stages
      BY DEF ProfileTypes
    <3> QED
      BY <1>17, <3>1 DEF StopApplication, Stages
  <2>2. deletion' = Unset /\ registry' = registry /\ Unset \notin Profiles
    BY <1>17, UnsetIsNoProfile DEF StopApplication
  <2> QED
    BY <2>1, <2>2 DEF Claimed
<1> HIDE DEF Kept
<1> QED
  BY <1>0, <1>1, <1>2, <1>3, <1>4, <1>5, <1>6, <1>7, <1>8, <1>9, <1>10, <1>11, <1>12, <1>13, <1>14,
     <1>15, <1>16, <1>17 DEF NextProfiles

\* No request is sent for a deleted profile.
THEOREM DeletedUnsent == ProfilesSpec => DeletedIsNotSent
<1>1. InitProfiles => SendingInv
  <2> SUFFICES ASSUME InitProfiles PROVE Claimed
    BY ProfileTypesInit DEF SendingInv
  <2> QED
    BY UnsetIsNoProfile DEF InitProfiles, Claimed, NoStage, InUse, InUseByCall
<1>2. SendingInv /\ [NextProfiles]_profileVars => SendingInv'
  BY ProfileTypesStep, ClaimedStep DEF SendingInv
<1>3. SendingInv =>
        \A p \in Profiles : stage[p].call = "executing" => LiveProfile(p)
  BY DEF SendingInv, Claimed, InUseByCall
<1>4. SendingInv /\ [NextProfiles]_profileVars =>
        [\A p \in Profiles :
          (stage[p].call = "executing" /\ stage'[p].call = "sent") => LiveProfile(p)]_profileVars
  BY <1>3
<1> QED
  BY <1>1, <1>2, <1>4, PTL DEF ProfilesSpec, DeletedIsNotSent

LEMMA SoundInit == InitProfiles /\ ~ScriptProbes => Claims /\ NoOrphanKey /\ ProbesHold
<1> SUFFICES ASSUME InitProfiles PROVE Claims /\ NoOrphanKey /\ ProbesHold
  OBVIOUS
<1>0. PICK old \in BOOLEAN, price \in Prices :
        LET e == CHOOSE e \in Endpoints : TRUE
            c == [endpoint |-> e, prices |-> [m \in Offered |-> price], enabled |-> TRUE] IN
        /\ registry = [p \in Profiles |-> [contract |-> c, declared |-> [m \in Offered |-> Unset]]]
        /\ overlays = [p \in Profiles |-> [m \in Offered |->
              IF old THEN [full |-> c, stamp |-> Unset, measured |-> e, price |-> price]
              ELSE NoOverlay]]
        /\ keyed = {} /\ deletion = Unset
        /\ probe = [w \in {"app", "script"} |-> [p \in Profiles |-> AtEase]]
        /\ stage = [p \in Profiles |-> NoStage]
  BY ZenonT(60) DEF InitProfiles
<1> DEFINE e == CHOOSE e \in Endpoints : TRUE
           c == [endpoint |-> e, prices |-> [m \in Offered |-> price], enabled |-> TRUE]
           o == [full |-> c, stamp |-> Unset, measured |-> e, price |-> price]
<1>1. /\ registry = [p \in Profiles |-> [contract |-> c, declared |-> [m \in Offered |-> Unset]]]
      /\ overlays = [p \in Profiles |-> [m \in Offered |-> IF old THEN o ELSE NoOverlay]]
  BY <1>0
<1> HIDE DEF e
<1>2. o.full.endpoint = e /\ o.measured = e /\ o.stamp = Unset
  OBVIOUS
<1> HIDE DEF o
<1>3. Claims
  BY <1>1, <1>2 DEF Claims
<1> QED
  BY <1>0, <1>3 DEF NoOrphanKey, ProbesHold

LEMMA SoundStep ==
  ~ScriptProbes /\ ProfilesInv /\ [NextProfiles]_profileVars
    => Claims' /\ NoOrphanKey' /\ ProbesHold'
<1> SUFFICES ASSUME ~ScriptProbes, ProfilesInv, [NextProfiles]_profileVars
             PROVE  Claims' /\ NoOrphanKey' /\ ProbesHold'
  OBVIOUS
<1> USE DEF ProfilesInv
<1> DEFINE Kept == UNCHANGED <<registry, overlays, probe, keyed>>
<1>0. Kept => Claims' /\ NoOrphanKey' /\ ProbesHold'
  BY DEF Claims, NoOrphanKey, ProbesHold, LiveProfile
<1>1. CASE UNCHANGED profileVars
  BY <1>0, <1>1 DEF profileVars
<1>2. ASSUME NEW p \in Profiles, SaveProfile(p) PROVE Claims' /\ NoOrphanKey' /\ ProbesHold'
  <2>1. PICK e \in Endpoints, price \in [Offered -> Prices] :
          registry' = [registry EXCEPT ![p] =
             [contract |-> [endpoint |-> e, prices |-> price, enabled |-> @.contract.enabled],
              declared |-> [m \in Offered |-> Unset]]]
    BY <1>2 DEF SaveProfile
  <2> DEFINE r == [contract |-> [endpoint |-> e, prices |-> price,
                                 enabled |-> registry[p].contract.enabled],
                   declared |-> [m \in Offered |-> Unset]]
  <2>2. (\A m \in Offered : r.declared[m] = Unset) /\ r # Missing
    <3>1. DOMAIN r = {"contract", "declared"} /\ DOMAIN Missing = {"contract"}
      BY DEF Missing
    <3> QED
      BY <3>1
  <2>3. registry' = [registry EXCEPT ![p] = r]
    BY <2>1
  <2> HIDE DEF r
  <2>4. UNCHANGED <<overlays, probe, keyed>> /\ LiveProfile(p) /\ probe["app"][p] = AtEase
    BY <1>2 DEF SaveProfile, AssertIdle
  <2>5. \A q \in Profiles \ {p} : registry'[q] = registry[q]
    BY <2>3 DEF ProfileTypes
  <2>6. registry'[p] = r
    BY <2>3 DEF ProfileTypes
  <2>7. Claims'
    BY <2>2, <2>4, <2>5, <2>6 DEF Claims, LiveProfile
  <2>8. NoOrphanKey'
    BY <2>2, <2>4, <2>5, <2>6 DEF NoOrphanKey, LiveProfile
  <2>9. ProbesHold'
    BY <2>4, <2>5 DEF ProbesHold, LiveProfile
  <2> QED
    BY <2>7, <2>8, <2>9
<1>3. ASSUME NEW p \in Profiles, SetEnabled(p) PROVE Claims' /\ NoOrphanKey' /\ ProbesHold'
  <2>1. LiveProfile(p) /\ UNCHANGED <<overlays, probe, keyed>>
    BY <1>3 DEF SetEnabled
  <2> DEFINE r == [Seen(p) EXCEPT !.contract.enabled = ~@]
  <2>2. Seen(p) \in Profile /\ Seen(p).contract = registry[p].contract
    BY <2>1, SeenIsProfile
  <2>3. r.contract.endpoint = registry[p].contract.endpoint /\ r.declared = Seen(p).declared
    BY <2>2 DEF Profile, Contracts
  <2>4. r # Missing
    <3>1. r \in Profile
      BY <2>2 DEF Profile, Contracts
    <3> QED
      BY <3>1, MissingIsNoProfile
  <2>5. \A m \in Offered : r.declared[m] \in {Unset, registry[p].contract.endpoint}
    BY <2>1, <2>3, SeenIsProfile, ListedIsMeasured
  <2>6. registry' = [registry EXCEPT ![p] = r]
    BY <1>3 DEF SetEnabled
  <2> HIDE DEF r
  <2>7. registry'[p] = r /\ \A q \in Profiles \ {p} : registry'[q] = registry[q]
    BY <2>6 DEF ProfileTypes
  <2>8. Claims'
    BY <2>1, <2>3, <2>5, <2>7 DEF Claims, LiveProfile
  <2>9. NoOrphanKey'
    BY <2>1, <2>7, <2>4 DEF NoOrphanKey, LiveProfile
  <2>10. ProbesHold'
    <3>1. probe["app"][p] = AtEase
      BY <1>3 DEF SetEnabled, AssertIdle
    <3> QED
      BY <2>1, <2>7, <3>1 DEF ProbesHold, LiveProfile
  <2> QED
    BY <2>8, <2>9, <2>10
<1>4. ASSUME NEW p \in Profiles, SaveCredential(p) PROVE Claims' /\ NoOrphanKey' /\ ProbesHold'
  BY <1>4 DEF SaveCredential, Claims, NoOrphanKey, ProbesHold, LiveProfile
<1>5. ASSUME NEW p \in Profiles, NEW m \in Offered, SetPreferredModel(p, m) PROVE Kept
  BY <1>5 DEF SetPreferredModel
<1>6. ASSUME NEW p \in Profiles, NEW w \in {"app", "script"}, NEW m \in Offered,
             NEW kind \in {"test", "verify"}, StartProbe(w, p, kind, m)
      PROVE  Claims' /\ NoOrphanKey' /\ ProbesHold'
  <2> DEFINE r == [kind |-> kind, model |-> m, left |-> IF kind = "verify" THEN 2 ELSE 1,
                   measured |-> registry[p].contract.endpoint,
                   price |-> registry[p].contract.prices[m]]
  <2>1. r.measured = registry[p].contract.endpoint
    OBVIOUS
  <2>2. probe' = [probe EXCEPT ![w][p] = r]
    BY <1>6 DEF StartProbe
  <2> HIDE DEF r
  <2>3. w = "app" /\ LiveProfile(p) /\ UNCHANGED <<registry, overlays, keyed>>
    BY <1>6 DEF StartProbe
  <2>4. ProbesHold'
    BY <2>1, <2>2, <2>3 DEF ProfileTypes, ProbesHold, LiveProfile
  <2> QED
    BY <2>3, <2>4 DEF Claims, NoOrphanKey, LiveProfile
<1>7. ASSUME NEW p \in Profiles, NEW w \in {"app", "script"}, ProbeAnswered(w, p)
      PROVE  Claims' /\ NoOrphanKey' /\ ProbesHold'
  <2>1. UNCHANGED <<registry, overlays, keyed>> /\ probe[w][p] # AtEase
    BY <1>7 DEF ProbeAnswered
  <2> DEFINE r == [probe[w][p] EXCEPT !.left = @ - 1]
  <2>2. probe[w][p] \in Probes
    BY <2>1 DEF ProfileTypes
  <2>3. r.measured = probe[w][p].measured
    BY <2>2 DEF Probes
  <2>4. probe' = [probe EXCEPT ![w][p] = r]
    BY <1>7 DEF ProbeAnswered, ProfileTypes
  <2> HIDE DEF r
  <2>5. ProbesHold'
    BY <2>1, <2>3, <2>4 DEF ProfileTypes, ProbesHold, LiveProfile
  <2> QED
    BY <2>1, <2>5 DEF Claims, NoOrphanKey, LiveProfile
<1>8. ASSUME NEW p \in Profiles, NEW w \in {"app", "script"}, ProbeEnds(w, p)
      PROVE  Claims' /\ NoOrphanKey' /\ ProbesHold'
  BY <1>8 DEF ProbeEnds, Claims, NoOrphanKey, ProbesHold, LiveProfile, ProfileTypes
<1>9. ASSUME NEW p \in Profiles, NEW w \in {"app", "script"}, RecordVerified(w, p)
      PROVE  Claims' /\ NoOrphanKey' /\ ProbesHold'
  <2>1. /\ UNCHANGED <<registry, keyed>> /\ LiveProfile(p)
        /\ probe[w][p].measured = registry[p].contract.endpoint
    BY <1>9 DEF RecordVerified, ProbesHold
  <2>2. ProbesHold' /\ NoOrphanKey'
    BY <1>9, <2>1 DEF RecordVerified, ProbesHold, NoOrphanKey, LiveProfile, ProfileTypes
  <2> DEFINE c == registry[p].contract
             o == [full |-> c, stamp |-> WithoutPrices(c),
                   measured |-> probe[w][p].measured, price |-> probe[w][p].price]
             Fits(q) == /\ q.measured = q.full.endpoint
                        /\ q.stamp # Unset => q.measured = q.stamp.endpoint
  <2>3. WithoutPrices(c).endpoint = c.endpoint
    BY DEF WithoutPrices
  <2>4. Fits(o)
    BY <2>1, <2>3
  <2>5. \A m \in Offered : Stamped(p)[m] # NoOverlay => Fits(Stamped(p)[m])
    <3> SUFFICES ASSUME NEW m \in Offered, overlays[p][m] # NoOverlay PROVE Fits(Stamped(p)[m])
      BY DEF Stamped
    <3>1. overlays[p][m] \in Overlay /\ Fits(overlays[p][m])
      BY DEF ProfileTypes, Claims
    <3>2. CASE ~Matches(p, overlays[p][m])
      BY <3>1, <3>2 DEF Stamped
    <3>3. CASE Matches(p, overlays[p][m])
      <4> DEFINE stamp == WithoutPrices(c)
                 r == [overlays[p][m] EXCEPT !.stamp = stamp]
      <4>1. Stamped(p)[m] = r
        BY <3>3 DEF Stamped
      <4>2. overlays[p][m].measured = c.endpoint
        BY <2>1, <3>3, ListedIsMeasured
      <4> HIDE DEF stamp
      <4>3. r.measured = overlays[p][m].measured /\ r.full = overlays[p][m].full /\ r.stamp = stamp
        BY <3>1 DEF Overlay
      <4>4. stamp.endpoint = c.endpoint
        BY <2>3 DEF stamp
      <4> QED
        BY <3>1, <4>1, <4>2, <4>3, <4>4
    <3> QED
      BY <3>2, <3>3
  <2>6. overlays' = [overlays EXCEPT ![p] = [Stamped(p) EXCEPT ![probe[w][p].model] = o]]
    BY <1>9 DEF RecordVerified
  <2>7. DOMAIN Stamped(p) = Offered
    BY DEF Stamped
  <2> HIDE DEF o
  <2>8. \A q \in Profiles, m \in Offered :
          overlays'[q][m] # NoOverlay => Fits(overlays'[q][m])
    <3> TAKE q \in Profiles, m \in Offered
    <3>1. CASE q # p
      <4>1. overlays'[q][m] = overlays[q][m]
        BY <2>6, <3>1 DEF ProfileTypes
      <4> QED
        BY <4>1 DEF Claims
    <3>2. CASE q = p
      <4>1. overlays'[p][m] = IF m = probe[w][p].model THEN o ELSE Stamped(p)[m]
        BY <2>6, <2>7, <3>2 DEF ProfileTypes
      <4> QED
        BY <2>4, <2>5, <3>2, <4>1
    <3> QED
      BY <3>1, <3>2
  <2>9. Claims'
    BY <2>1, <2>8 DEF Claims, LiveProfile
  <2> QED
    BY <2>2, <2>9
<1>10. ASSUME NEW p \in Profiles,
              \/ CreateStage(p) \/ Authorize(p) \/ ClaimStage(p) \/ CommitStage(p)
              \/ RefuseClaim(p) \/ SendCall(p) \/ EndStageCall(p)
              \/ ShowProfile(p) \/ GuardDeletion(p)
       PROVE  Kept
  BY <1>10 DEF CreateStage, Authorize, ClaimStage, Check, CommitStage, RefuseClaim, SendCall,
     EndStageCall, ShowProfile, GuardDeletion
<1>11. ASSUME NEW p \in Profiles, DeleteProfile(p) PROVE Claims' /\ NoOrphanKey' /\ ProbesHold'
  <2>1. PICK gone \in DeletionOrder :
          /\ "profile" \in gone \/ "key" \in gone => Confirmed(p) /\ AssertIdle(p)
          /\ keyed' = IF "key" \in gone THEN keyed \ {p} ELSE keyed
          /\ IF "profile" \in gone
             THEN registry' = [registry EXCEPT ![p] = Missing]
             ELSE registry' = registry
    BY <1>11 DEF DeleteProfile
  <2>2. UNCHANGED <<overlays, probe>>
    BY <1>11 DEF DeleteProfile
  <2>3. "profile" \in gone => "key" \in gone
    BY DEF DeletionOrder
  <2>4. CASE "profile" \notin gone
    BY <2>1, <2>2, <2>4 DEF Claims, NoOrphanKey, ProbesHold, LiveProfile
  <2>5. CASE "profile" \in gone
    <3>1. /\ registry'[p] = Missing /\ \A q \in Profiles \ {p} : registry'[q] = registry[q]
          /\ keyed' = keyed \ {p} /\ probe["app"][p] = AtEase
      BY <2>1, <2>3, <2>5 DEF ProfileTypes, AssertIdle
    <3>2. Claims'
      BY <2>2, <3>1 DEF Claims, LiveProfile
    <3>3. NoOrphanKey'
      BY <3>1 DEF NoOrphanKey, LiveProfile
    <3>4. ProbesHold'
      BY <2>2, <3>1 DEF ProbesHold, LiveProfile
    <3> QED
      BY <3>2, <3>3, <3>4
  <2> QED
    BY <2>4, <2>5
<1>12. CASE StopApplication
  <2>1. UNCHANGED <<registry, overlays, keyed>>
        /\ probe' = [probe EXCEPT !["app"] = [p \in Profiles |-> AtEase]]
    BY <1>12 DEF StopApplication
  <2>2. \A w \in {"app", "script"}, p \in Profiles : probe'[w][p] # AtEase =>
          probe[w][p] # AtEase /\ probe'[w][p] = probe[w][p]
    BY <2>1 DEF ProfileTypes
  <2>3. ProbesHold'
    BY <2>1, <2>2 DEF ProbesHold, LiveProfile
  <2> QED
    BY <2>1, <2>3 DEF Claims, NoOrphanKey, LiveProfile
<1> HIDE DEF Kept
<1> QED
  BY <1>0, <1>1, <1>2, <1>3, <1>4, <1>5, <1>6, <1>7, <1>8, <1>9, <1>10, <1>11, <1>12
     DEF NextProfiles

\* What the parts of the invariant say together.
LEMMA SoundProfiles == ProfileTypes /\ Claims /\ NoOrphanKey => ProfilesAreSound
BY ListedIsMeasured DEF ProfilesAreSound, VerifiedIsMeasured

(* Where the verification script does not run beside the application, a    *)
(* model is listed as verified only for the endpoint the profile has, and  *)
(* a deleted profile has no key.                                           *)
THEOREM ProfilesSound == ~ScriptProbes => (ProfilesSpec => []ProfilesAreSound)
<1> SUFFICES ASSUME ~ScriptProbes PROVE ProfilesSpec => []ProfilesAreSound
  OBVIOUS
<1>1. InitProfiles => ProfilesInv
  BY ProfileTypesInit, SoundInit DEF ProfilesInv
<1>2. ProfilesInv /\ [NextProfiles]_profileVars => ProfilesInv'
  BY ProfileTypesStep, SoundStep DEF ProfilesInv
<1>3. ProfilesInv => ProfilesAreSound
  BY SoundProfiles DEF ProfilesInv
<1> QED
  BY <1>1, <1>2, <1>3, PTL DEF ProfilesSpec

-----------------------------------------------------------------------------
(* Deletion of a book.  The receipt carries what was confirmed across the  *)
(* two transactions; what keeps the second one safe is that nothing gives  *)
(* a deleted book rows again, that whatever else appears in its folders is *)
(* known to be late, and that the locks held by the cleaner freeze the     *)
(* rows of the others, so what they reach can only shrink meanwhile.       *)

BookRows == [book : BOOLEAN, text : 0 .. MaxActs, cites : SUBSET Blobs,
             import : {"none", "previewed", "completed"},
             task : {"none", "queued", "running", "done"},
             call : {"none", "executing", "unknown", "closed"}]
Files    == [text : Nat, hashes : (SUBSET Blobs) \cup {{"none"}}]
Bindings == [status : {"seen"}, book : Books, rows : BookRows, files : [Paths -> Files]]
Receipts == [status : {"cleanup_pending", "completed"}, key : DeletionKeys,
             confirmed : Bindings, plan : [Paths -> Files]]

DeletionTypes ==
    /\ rows \in [Books -> BookRows]
    /\ commandKey \in [Books -> {"none", "saved", "retired"}]
    /\ disk \in [Paths -> Files]
    /\ archive \in (SUBSET Blobs) \cup {NoBook}
    /\ seen \in [DeletionKeys -> Bindings \cup {NoReceipt}]
    /\ receipts \in [Books -> Receipts \cup {NoReceipt}]
    /\ cleaner \in [book : Books \cup {NoBook}, todo : SUBSET Paths]
    /\ exporter \in [Books -> (SUBSET Blobs) \cup {NoBook}]
    /\ late \subseteq Paths
    /\ created \in [Books -> Nat]

\* A deleted book has no rows, and its receipt plans what was confirmed.
Pending(b) == receipts[b] # NoReceipt /\ receipts[b].status = "cleanup_pending"

Gone ==
    \A b \in Books :
        /\ receipts[b] # NoReceipt => rows[b] = Absent
        /\ Pending(b) => /\ receipts[b].plan = receipts[b].confirmed.files
                         /\ \A p \in Planned(b) : p[1] = "blob" \/ p \in Scope(b)

\* The cleaner works on a pending receipt; what it has yet to remove is
\* planned, holds every file left in the folders, and nobody needs it.
Cleaning ==
    IF cleaner.book = NoBook THEN cleaner.todo = {} ELSE
        /\ Pending(cleaner.book)
        /\ cleaner.todo \subseteq Planned(cleaner.book)
        /\ (Scope(cleaner.book) \cap OnDisk) \ late \subseteq cleaner.todo
        /\ \A o \in Books, x \in Blobs :
              rows[o].book /\ BlobPath(x) \in cleaner.todo => x \notin Reach(rows[o].cites)

\* A book that was made has the key of the command that made it, or its
\* receipt, or came out of a backup.
Made ==
    \A b \in Books :
        /\ created[b] <= 1
        /\ created[b] = 1 => \/ commandKey[b] # "none" \/ receipts[b] # NoReceipt
                             \/ rows[b].book /\ rows[b].import = "none"

DeletionInv == DeletionTypes /\ Gone /\ Cleaning /\ Made /\ NothingLeftBehind

LEMMA PathFacts ==
  /\ \A b \in Books : /\ Scope(b) \subseteq Paths
                      /\ \A p \in Scope(b) : p[1] # "blob" /\ p[2] = b
  /\ \A x \in Blobs : BlobPath(x) \in Paths /\ BlobPath(x)[1] = "blob" /\ BlobPath(x)[2] = x
  /\ \A p \in Paths : p[1] = "blob" => \E x \in Blobs : p = BlobPath(x)
<1>1. ASSUME NEW b \in Books, NEW p \in Scope(b) PROVE p[1] # "blob" /\ p[2] = b
  <2>1. \/ p = <<"staged", b>> \/ p = <<"mirror", b>> \/ p = <<"manifest", b>>
        \/ p = <<"export", b, 1>> \/ p = <<"export", b, 2>>
    BY DEF Scope
  <2> QED
    BY <2>1
<1>2. \A b \in Books : Scope(b) \subseteq Paths
  BY DEF Paths
<1>3. \A x \in Blobs : BlobPath(x) \in Paths
  BY DEF Paths
<1>4. \A x \in Blobs : BlobPath(x)[1] = "blob" /\ BlobPath(x)[2] = x
  BY DEF BlobPath
<1>5. \A p \in Paths : (\E b \in Books : p \in Scope(b)) \/ \E x \in Blobs : p = BlobPath(x)
  BY DEF Paths
<1> QED
  BY <1>1, <1>2, <1>3, <1>4, <1>5

LEMMA FileFacts ==
  /\ NoFile \in Files
  /\ \A t \in Nat, h \in SUBSET Blobs : File(t, h) \in Files /\ File(t, h) # NoFile
<1>1. NoFile \in Files /\ NoFile.text = 0
  BY DEF NoFile, Files
<1>2. \A t \in Nat, h \in SUBSET Blobs : File(t, h) \in Files /\ File(t, h).text = t + 1
  BY DEF File, Files
<1> QED
  BY <1>1, <1>2

LEMMA RowFacts ==
  /\ Absent \in BookRows
  /\ Absent.book = FALSE /\ Absent.import = "none" /\ Absent.task = "none" /\ Absent.call = "none"
  /\ \A r \in BookRows :
       /\ r.book \in BOOLEAN /\ r.text \in 0 .. MaxActs /\ r.cites \in SUBSET Blobs
       /\ r.import \in {"none", "previewed", "completed"}
       /\ r.task \in {"none", "queued", "running", "done"}
       /\ r.call \in {"none", "executing", "unknown", "closed"}
  /\ DOMAIN NoReceipt = {"status"} /\ NoReceipt.status = "none"
  /\ \A r \in Receipts : r # NoReceipt
  /\ \A r \in Bindings : r # NoReceipt
<1>1. Absent \in BookRows
  BY DeletionAssumption DEF Absent, BookRows
<1>2. \A r \in BookRows :
       /\ r.book \in BOOLEAN /\ r.text \in 0 .. MaxActs /\ r.cites \in SUBSET Blobs
       /\ r.import \in {"none", "previewed", "completed"}
       /\ r.task \in {"none", "queued", "running", "done"}
       /\ r.call \in {"none", "executing", "unknown", "closed"}
  BY DEF BookRows
<1>3. DOMAIN NoReceipt = {"status"} /\ NoReceipt.status = "none"
  BY DEF NoReceipt
<1>4. \A r \in Receipts : r.status # "none"
  BY DEF Receipts
<1>5. \A r \in Bindings : r.status # "none"
  BY DEF Bindings
<1> QED
  BY <1>1, <1>2, <1>3, <1>4, <1>5 DEF Absent

\* What is reached from more is more, and when links go it is less.
LEMMA ReachGrows ==
  ASSUME NEW H, NEW K, H \subseteq K PROVE Reach(H) \subseteq Reach(K)
BY DEF Reach

LEMMA ReachShrinks ==
  ASSUME \A x \in Blobs : disk'[BlobPath(x)] \in {disk[BlobPath(x)], NoFile},
         NEW o \in Books, rows'[o] = rows[o]
  PROVE  Reach(rows[o].cites)' \subseteq Reach(rows[o].cites)
<1> DEFINE H == rows[o].cites
<1> SUFFICES ASSUME NEW x \in Blobs, x \in Reach(rows[o].cites)', NEW S \in SUBSET Blobs,
                    H \cap Blobs \subseteq S, Linked(S) \cap Blobs \subseteq S
             PROVE  x \in S
  BY DEF Reach
<1>1. \A y \in S : BlobPath(y) \in OnDisk' =>
        BlobPath(y) \in OnDisk /\ disk'[BlobPath(y)] = disk[BlobPath(y)]
  BY DEF OnDisk
<1>2. Linked(S)' \cap Blobs \subseteq S
  BY <1>1 DEF Linked
<1> QED
  BY <1>2 DEF Reach

LEMMA BindingTyped ==
  ASSUME DeletionTypes, NEW b \in Books
  PROVE  Manifest(b) \in [Paths -> Files] /\ Binding(b) \in Bindings
<1>1. Manifest(b) \in [Paths -> Files]
  BY FileFacts DEF Manifest, DeletionTypes
<1>2. rows[b] \in BookRows
  BY DEF DeletionTypes
<1> HIDE DEF Manifest
<1> QED
  BY <1>1, <1>2 DEF Binding, Bindings

LEMMA DeletionTypesInit == InitDeletion => DeletionTypes
<1> SUFFICES ASSUME InitDeletion PROVE DeletionTypes
  OBVIOUS
<1> USE DeletionAssumption
<1>1. rows \in [Books -> BookRows]
  <2>1. [Absent EXCEPT !.book = TRUE, !.cites = Blobs] \in BookRows
    <3>1. \A r \in BookRows, h \in SUBSET Blobs : [r EXCEPT !.book = TRUE, !.cites = h] \in BookRows
      BY DEF BookRows
    <3> QED
      BY <3>1, RowFacts
  <2> QED
    BY <2>1, RowFacts DEF InitDeletion
<1>2. disk \in [Paths -> Files]
  <2>1. \A p \in Paths : File(0, {y \in Blobs : <<p[2], y>> \in Nested}) \in Files
    <3> TAKE p \in Paths
    <3>1. {y \in Blobs : <<p[2], y>> \in Nested} \in SUBSET Blobs
      OBVIOUS
    <3> QED
      BY <3>1, FileFacts
  <2> QED
    BY <2>1, FileFacts DEF InitDeletion
<1>3. commandKey \in [Books -> {"none", "saved", "retired"}] /\ created \in [Books -> Nat]
  BY DEF InitDeletion
<1>4. cleaner \in [book : Books \cup {NoBook}, todo : SUBSET Paths]
  BY DEF InitDeletion, Idle
<1> QED
  BY <1>1, <1>2, <1>3, <1>4 DEF InitDeletion, DeletionTypes

LEMMA DeletionTypesStep ==
  DeletionTypes /\ Cleaning /\ [NextDeletion]_deletionVars => DeletionTypes'
<1> SUFFICES ASSUME DeletionTypes, Cleaning, [NextDeletion]_deletionVars PROVE DeletionTypes'
  OBVIOUS
<1> USE DeletionAssumption
<1>0. CASE UNCHANGED deletionVars
  BY <1>0 DEF DeletionTypes, deletionVars
<1>a. \A b \in Books, r \in BookRows : [rows EXCEPT ![b] = r] \in [Books -> BookRows]
  BY DEF DeletionTypes
<1>b. \A p \in Paths, f \in Files : [disk EXCEPT ![p] = f] \in [Paths -> Files]
  BY DEF DeletionTypes
<1>c. \A b \in Books : rows[b] \in BookRows /\ rows[b].cites \in SUBSET Blobs
  BY RowFacts DEF DeletionTypes
<1>d. \A b \in Books : Scope(b) \subseteq Paths
  BY PathFacts
<1>1. ASSUME NEW b \in Books, StageImport(b) PROVE DeletionTypes'
  <2>1. [rows[b] EXCEPT !.import = "previewed"] \in BookRows
    BY <1>c DEF BookRows
  <2>2. rows' = [rows EXCEPT ![b] = [rows[b] EXCEPT !.import = "previewed"]]
    BY <1>1 DEF StageImport, Row, DeletionTypes
  <2>3. <<"staged", b>> \in Paths /\ File(0, {}) \in Files
    BY <1>d, FileFacts DEF Scope
  <2>4. disk' \in [Paths -> Files]
    BY <1>1, <1>b, <2>3 DEF StageImport
  <2> QED
    BY <1>1, <1>a, <2>1, <2>2, <2>4 DEF StageImport, DeletionTypes
<1>2. ASSUME NEW b \in Books, CreateBook(b) PROVE DeletionTypes'
  <2>1. [rows[b] EXCEPT !.book = TRUE] \in BookRows
    BY <1>c DEF BookRows
  <2>2. rows' = [rows EXCEPT ![b] = [rows[b] EXCEPT !.book = TRUE]]
    BY <1>2 DEF CreateBook, DeletionTypes
  <2>3. rows' \in [Books -> BookRows]
    BY <1>a, <2>1, <2>2
  <2> QED
    BY <1>2, <2>3 DEF CreateBook, DeletionTypes
<1>3. ASSUME NEW b \in Books, CommitImport(b) PROVE DeletionTypes'
  <2> DEFINE r == [rows[b] EXCEPT !.book = TRUE, !.import = "completed"]
  <2>1. r \in BookRows
    BY <1>c DEF BookRows
  <2>2. rows' = [rows EXCEPT ![b] = r]
    BY <1>3 DEF CommitImport, DeletionTypes
  <2>3. rows' \in [Books -> BookRows]
    BY <1>a, <2>1, <2>2
  <2> QED
    BY <1>3, <2>3 DEF CommitImport, DeletionTypes
<1>4. ASSUME NEW b \in Books, Backup(b) PROVE DeletionTypes'
  BY <1>4, <1>c DEF Backup, DeletionTypes
<1>5. ASSUME NEW b \in Books, RestoreArchive(b) PROVE DeletionTypes'
  <2> DEFINE r == [rows[b] EXCEPT !.book = TRUE, !.cites = archive]
  <2>1. r \in BookRows
    BY ZenonT(60), <1>5, <1>c DEF BookRows, RestoreArchive, DeletionTypes
  <2>2. rows' = [rows EXCEPT ![b] = r]
    BY <1>5 DEF RestoreArchive, DeletionTypes
  <2>3. rows' \in [Books -> BookRows]
    BY <1>a, <2>1, <2>2
  <2> QED
    BY <1>5, <2>3 DEF RestoreArchive, DeletionTypes
<1>6. ASSUME NEW b \in Books, EditBook(b) PROVE DeletionTypes'
  <2> DEFINE r == [rows[b] EXCEPT !.text = rows[b].text + 1]
  <2>1. r \in BookRows
    BY <1>6, <1>c DEF BookRows, EditBook
  <2>2. rows' = [rows EXCEPT ![b] = r]
    BY <1>6 DEF EditBook, Row, DeletionTypes
  <2>3. rows' \in [Books -> BookRows]
    BY <1>a, <2>1, <2>2
  <2> QED
    BY <1>6, <2>3 DEF EditBook, DeletionTypes
<1>7. ASSUME NEW b \in Books, MoveCall(b) PROVE DeletionTypes'
  <2>1. PICK s \in CallSteps : Row(b, "call", s[2])
    BY <1>7 DEF MoveCall
  <2>2. s[2] \in {"none", "executing", "unknown", "closed"}
    BY DEF CallSteps
  <2> DEFINE r == [rows[b] EXCEPT !.call = s[2]]
  <2>3. r \in BookRows
    BY <1>c, <2>2 DEF BookRows
  <2>4. rows' = [rows EXCEPT ![b] = r]
    BY <2>1 DEF Row, DeletionTypes
  <2>5. rows' \in [Books -> BookRows]
    BY <1>a, <2>3, <2>4
  <2> QED
    BY <1>7, <2>5 DEF MoveCall, DeletionTypes
<1>8. ASSUME NEW b \in Books, QueueExport(b) \/ ClaimExport(b) PROVE DeletionTypes'
  <2>1. PICK t \in {"queued", "running"} : Row(b, "task", t)
    BY <1>8 DEF QueueExport, ClaimExport
  <2> DEFINE r == [rows[b] EXCEPT !.task = t]
  <2>2. r \in BookRows
    BY <1>c DEF BookRows
  <2>3. rows' = [rows EXCEPT ![b] = r]
    BY <2>1 DEF Row, DeletionTypes
  <2>4. rows' \in [Books -> BookRows]
    BY <1>a, <2>2, <2>3
  <2>5. exporter' \in [Books -> (SUBSET Blobs) \cup {NoBook}]
    BY <1>8, <1>c DEF QueueExport, ClaimExport, DeletionTypes
  <2> QED
    BY <1>8, <2>4, <2>5 DEF QueueExport, ClaimExport, DeletionTypes
<1>9. ASSUME NEW b \in Books, WriteExport(b) PROVE DeletionTypes'
  <2>1. PICK v \in {1, 2} :
          /\ disk' = [disk EXCEPT ![<<"export", b, v>>] = File(v, exporter[b])]
          /\ late' = IF rows[b].task = "running" THEN late ELSE late \cup {<<"export", b, v>>}
    BY <1>9 DEF WriteExport
  <2>2. <<"export", b, v>> \in Paths
    BY <1>d DEF Scope
  <2>3. exporter[b] \in SUBSET Blobs
    BY <1>9 DEF WriteExport, DeletionTypes
  <2>4. disk' \in [Paths -> Files] /\ late' \subseteq Paths
    BY <1>b, <2>1, <2>2, <2>3, FileFacts DEF DeletionTypes
  <2>5. rows' \in [Books -> BookRows]
    <3> DEFINE r == [rows[b] EXCEPT !.task = "done"]
    <3>1. r \in BookRows
      BY <1>c DEF BookRows
    <3>2. rows' = rows \/ rows' = [rows EXCEPT ![b] = r]
      BY <1>9 DEF WriteExport, Row, DeletionTypes
    <3> QED
      BY <1>a, <3>1, <3>2 DEF DeletionTypes
  <2> QED
    BY <1>9, <2>4, <2>5 DEF WriteExport, DeletionTypes
<1>10. ASSUME NEW b \in Books, TakeOverExport(b) PROVE DeletionTypes'
  <2> DEFINE r == [rows[b] EXCEPT !.task = "done"]
  <2>1. r \in BookRows
    BY <1>c DEF BookRows
  <2>2. rows' = [rows EXCEPT ![b] = r]
    BY <1>10 DEF TakeOverExport, Row, DeletionTypes
  <2>3. rows' \in [Books -> BookRows]
    BY <1>a, <2>1, <2>2
  <2>4. <<"export", b, 1>> \in Paths /\ File(1, rows[b].cites) \in Files
    BY <1>c, <1>d, FileFacts DEF Scope
  <2>5. disk' \in [Paths -> Files]
    BY <1>10, <1>b, <2>4 DEF TakeOverExport
  <2> QED
    BY <1>10, <2>3, <2>5 DEF TakeOverExport, DeletionTypes
<1>11. ASSUME NEW b \in Books, SyncMirror(b) PROVE DeletionTypes'
  <2>1. rows[b].text \in Nat
    BY <1>c, RowFacts
  <2>2. File(rows[b].text, rows[b].cites) \in Files
    BY <1>c, <2>1, FileFacts
  <2>3. disk' \in [Paths -> Files]
    BY <1>11, <2>2 DEF SyncMirror, DeletionTypes
  <2> QED
    BY <1>11, <2>3 DEF SyncMirror, DeletionTypes
<1>12. ASSUME NEW b \in Books, TouchMirror(b) PROVE DeletionTypes'
  <2>1. <<"mirror", b>> \in Paths
    BY <1>d DEF Scope
  <2>2. [disk[<<"mirror", b>>] EXCEPT !.text = MaxActs + 2] \in Files
    <3>1. \A f \in Files, t \in Nat : [f EXCEPT !.text = t] \in Files
      BY DEF Files
    <3>2. disk[<<"mirror", b>>] \in Files /\ MaxActs + 2 \in Nat
      BY <2>1 DEF DeletionTypes
    <3> QED
      BY <3>1, <3>2
  <2>3. disk' = [disk EXCEPT ![<<"mirror", b>>] =
                   [disk[<<"mirror", b>>] EXCEPT !.text = MaxActs + 2]]
    BY <1>12 DEF TouchMirror
  <2>4. disk' \in [Paths -> Files]
    BY <1>b, <2>1, <2>2, <2>3
  <2> QED
    BY <1>12, <2>4 DEF TouchMirror, DeletionTypes
<1>13. ASSUME NEW b \in Books, NEW k \in DeletionKeys, PreviewDeletion(k, b) PROVE DeletionTypes'
  BY <1>13, BindingTyped DEF PreviewDeletion, DeletionTypes
<1>14. ASSUME NEW b \in Books, NEW k \in DeletionKeys, DeleteBook(k, b) PROVE DeletionTypes'
  <2> DEFINE r == [status |-> "cleanup_pending", key |-> k,
                   confirmed |-> seen[k], plan |-> Manifest(b)]
  <2>1. seen[k] \in Bindings
    BY <1>14 DEF DeleteBook, DeletionTypes
  <2>2. r \in Receipts
    BY <2>1, BindingTyped DEF Receipts
  <2>3. receipts' = [receipts EXCEPT ![b] = r]
    BY <1>14 DEF DeleteBook
  <2> HIDE DEF r
  <2>4. receipts' \in [Books -> Receipts \cup {NoReceipt}]
    BY <2>2, <2>3 DEF DeletionTypes
  <2>5. rows' \in [Books -> BookRows]
    BY <1>14, <1>a, RowFacts DEF DeleteBook
  <2>6. commandKey' \in [Books -> {"none", "saved", "retired"}]
    BY <1>14 DEF DeleteBook, DeletionTypes
  <2> QED
    BY <1>14, <2>4, <2>5, <2>6 DEF DeleteBook, DeletionTypes
<1>15. ASSUME NEW b \in Books, StartCleanup(b) PROVE DeletionTypes'
  <2>1. Unshared(b) \subseteq Paths
    BY DEF Unshared, Planned
  <2>2. cleaner' \in [book : Books \cup {NoBook}, todo : SUBSET Paths]
    BY <1>15, <2>1 DEF StartCleanup
  <2> QED
    BY <1>15, <2>2 DEF StartCleanup, DeletionTypes
<1>16. ASSUME NEW p \in Paths, RemoveFile(p) PROVE DeletionTypes'
  <2>1. cleaner' \in [book : Books \cup {NoBook}, todo : SUBSET Paths]
    BY <1>16 DEF RemoveFile, Idle, DeletionTypes
  <2>2. disk' \in [Paths -> Files]
    BY <1>16, <1>b, FileFacts DEF RemoveFile, DeletionTypes
  <2> QED
    BY <1>16, <2>1, <2>2 DEF RemoveFile, DeletionTypes
<1>17. CASE StopCleanup
  BY <1>17 DEF StopCleanup, Idle, DeletionTypes
<1>18. CASE FinishCleanup
  <2> DEFINE b == cleaner.book
             none == [p \in Paths |-> NoFile]
             r == [receipts[b] EXCEPT !.status = "completed", !.plan = none]
  <2>1. none \in [Paths -> Files]
    BY FileFacts
  <2>2. receipts' = [receipts EXCEPT ![b] = r]
    BY <1>18 DEF FinishCleanup, DeletionTypes
  <2>3. cleaner' = Idle /\ UNCHANGED <<rows, commandKey, disk, archive, seen, exporter, late, created>>
    BY <1>18 DEF FinishCleanup
  <2>4. b \in Books /\ receipts[b] \in Receipts
    BY <1>18 DEF FinishCleanup, Unlocked, Cleaning, Pending, DeletionTypes
  <2> HIDE DEF none
  <2>5. r \in Receipts
    BY <2>1, <2>4 DEF Receipts
  <2> HIDE DEF r
  <2>6. receipts' \in [Books -> Receipts \cup {NoReceipt}]
    BY <2>2, <2>4, <2>5 DEF DeletionTypes
  <2> QED
    BY <2>3, <2>6 DEF Idle, DeletionTypes
<1> QED
  BY <1>0, <1>1, <1>2, <1>3, <1>4, <1>5, <1>6, <1>7, <1>8, <1>9, <1>10, <1>11, <1>12, <1>13, <1>14,
     <1>15, <1>16, <1>17, <1>18 DEF NextDeletion

-----------------------------------------------------------------------------
(* What the books do meanwhile does not touch a deleted one, and nothing   *)
(* but late files appears where it was.                                    *)

FilesKept(b) == (Scope(b) \cap OnDisk') \ late' \subseteq (Scope(b) \cap OnDisk) \ late

Quiet ==
    /\ UNCHANGED <<receipts, cleaner>>
    /\ \A b \in Books : receipts[b] # NoReceipt => rows'[b] = Absent /\ FilesKept(b)
    /\ cleaner.book # NoBook =>
          rows' = rows /\ \A x \in Blobs : disk'[BlobPath(x)] = disk[BlobPath(x)]

LEMMA QuietKeeps ==
  DeletionTypes /\ Gone /\ Cleaning /\ NothingLeftBehind /\ Quiet
    => Gone' /\ Cleaning' /\ NothingLeftBehind'
<1> SUFFICES ASSUME DeletionTypes, Gone, Cleaning, NothingLeftBehind, Quiet
             PROVE  Gone' /\ Cleaning' /\ NothingLeftBehind'
  OBVIOUS
<1>1. \A b \in Books : Planned(b)' = Planned(b) /\ (Pending(b)' <=> Pending(b))
  BY DEF Quiet, Planned, Pending
<1>2. Gone'
  BY <1>1 DEF Gone, Quiet
<1>3. NothingLeftBehind'
  BY <1>1 DEF NothingLeftBehind, Quiet, FilesKept
<1>4. Cleaning'
  <2> SUFFICES ASSUME cleaner.book # NoBook PROVE Cleaning'
    BY DEF Cleaning, Quiet
  <2> DEFINE c == cleaner.book
  <2>1. c \in Books /\ Pending(c)
    BY DEF Cleaning, DeletionTypes
  <2>2. cleaner' = cleaner /\ rows' = rows /\ receipts[c] # NoReceipt /\ FilesKept(c)
    BY <2>1 DEF Quiet, Pending
  <2>3. \A o \in Books : (Reach(rows[o].cites))' \subseteq Reach(rows[o].cites)
    BY <2>2, ReachShrinks DEF Quiet
  <2>4. (Scope(c) \cap OnDisk') \ late' \subseteq cleaner.todo
    BY <2>1, <2>2 DEF Cleaning, FilesKept
  <2>5. \A o \in Books, x \in Blobs :
          rows'[o].book /\ BlobPath(x) \in cleaner.todo => x \notin (Reach(rows[o].cites))'
    BY <2>2, <2>3 DEF Cleaning
  <2> QED
    BY <1>1, <2>1, <2>2, <2>4, <2>5 DEF Cleaning
<1> QED
  BY <1>2, <1>3, <1>4

\* A file put on a path of a book that is not deleted, or on a late path.
LEMMA OneFileKept ==
  ASSUME NEW p \in Paths, NEW f, disk \in [Paths -> Files], disk' = [disk EXCEPT ![p] = f],
         late \subseteq late', NEW b \in Books, p \notin Scope(b) \/ p \in late'
  PROVE  FilesKept(b)
BY DEF FilesKept, OnDisk

Meanwhile ==
    \/ UNCHANGED deletionVars
    \/ \E b \in Books :
         \/ StageImport(b) \/ CreateBook(b) \/ CommitImport(b) \/ Backup(b) \/ RestoreArchive(b)
         \/ EditBook(b) \/ MoveCall(b)
         \/ QueueExport(b) \/ ClaimExport(b) \/ WriteExport(b) \/ TakeOverExport(b)
         \/ SyncMirror(b) \/ TouchMirror(b)
         \/ \E k \in DeletionKeys : PreviewDeletion(k, b)

LEMMA QuietStep ==
  ASSUME DeletionTypes, Gone, Cleaning, Meanwhile PROVE Quiet
<1>a. \A b \in Books : receipts[b] # NoReceipt =>
        /\ rows[b] = Absent /\ rows[b].book = FALSE /\ rows[b].import = "none"
        /\ rows[b].task = "none"
  BY RowFacts DEF Gone
<1>b. disk' = disk /\ late' = late => \A b \in Books : FilesKept(b)
  BY DEF FilesKept, OnDisk
<1>c. \A b, o \in Books : b # o => Scope(b) \cap Scope(o) = {}
  BY PathFacts
<1>0. CASE UNCHANGED deletionVars
  BY <1>0, <1>a, <1>b DEF deletionVars, Quiet
<1>1. ASSUME NEW b \in Books, StageImport(b) PROVE Quiet
  <2>1. <<"staged", b>> \in Scope(b) /\ <<"staged", b>> \in Paths
    BY PathFacts DEF Scope
  <2>2. receipts[b] = NoReceipt /\ cleaner.book = NoBook /\ UNCHANGED <<receipts, cleaner, late>>
    BY <1>1 DEF StageImport, Unlocked
  <2>3. \A o \in Books \ {b} : FilesKept(o)
    BY <1>1, <1>c, <2>1, <2>2, OneFileKept DEF StageImport, DeletionTypes
  <2>4. \A o \in Books \ {b} : rows'[o] = rows[o]
    BY <1>1 DEF StageImport, Row, DeletionTypes
  <2> QED
    BY <1>a, <2>2, <2>3, <2>4 DEF Quiet
<1>2. ASSUME NEW b \in Books, CreateBook(b) PROVE Quiet
  <2>1. /\ receipts[b] = NoReceipt /\ cleaner.book = NoBook
        /\ UNCHANGED <<receipts, cleaner, late, disk>>
    BY <1>2 DEF CreateBook, Unlocked, MayRun
  <2>2. \A o \in Books \ {b} : rows'[o] = rows[o]
    BY <1>2 DEF CreateBook, DeletionTypes
  <2> QED
    BY <1>a, <1>b, <2>1, <2>2 DEF Quiet
<1>3. ASSUME NEW b \in Books, CommitImport(b) PROVE Quiet
  <2>1. /\ receipts[b] = NoReceipt /\ cleaner.book = NoBook
        /\ UNCHANGED <<receipts, cleaner, late, disk>>
    BY <1>3, <1>a DEF CommitImport, Unlocked
  <2>2. \A o \in Books \ {b} : rows'[o] = rows[o]
    BY <1>3 DEF CommitImport, DeletionTypes
  <2> QED
    BY <1>a, <1>b, <2>1, <2>2 DEF Quiet
<1>4. ASSUME NEW b \in Books, Backup(b) PROVE Quiet
  BY <1>4, <1>a, <1>b DEF Backup, Quiet, Unlocked
<1>5. ASSUME NEW b \in Books, RestoreArchive(b) PROVE Quiet
  <2>1. /\ receipts[b] = NoReceipt /\ cleaner.book = NoBook
        /\ UNCHANGED <<receipts, cleaner, late, disk>>
    BY <1>5 DEF RestoreArchive, Unlocked
  <2>2. \A o \in Books \ {b} : rows'[o] = rows[o]
    BY <1>5 DEF RestoreArchive, DeletionTypes
  <2> QED
    BY <1>a, <1>b, <2>1, <2>2 DEF Quiet
<1>6. ASSUME NEW b \in Books, EditBook(b) PROVE Quiet
  <2>1. /\ receipts[b] = NoReceipt /\ cleaner.book = NoBook
        /\ UNCHANGED <<receipts, cleaner, late, disk>>
    BY <1>6, <1>a DEF EditBook, Unlocked
  <2>2. \A o \in Books \ {b} : rows'[o] = rows[o]
    BY <1>6 DEF EditBook, Row, DeletionTypes
  <2> QED
    BY <1>a, <1>b, <2>1, <2>2 DEF Quiet
<1>7. ASSUME NEW b \in Books, MoveCall(b) PROVE Quiet
  <2>1. /\ receipts[b] = NoReceipt /\ cleaner.book = NoBook
        /\ UNCHANGED <<receipts, cleaner, late, disk>>
    BY <1>7, <1>a DEF MoveCall, Unlocked
  <2>2. \A o \in Books \ {b} : rows'[o] = rows[o]
    BY <1>7 DEF MoveCall, Row, DeletionTypes
  <2> QED
    BY <1>a, <1>b, <2>1, <2>2 DEF Quiet
<1>8. ASSUME NEW b \in Books, QueueExport(b) \/ ClaimExport(b) PROVE Quiet
  <2>1. /\ receipts[b] = NoReceipt /\ cleaner.book = NoBook
        /\ UNCHANGED <<receipts, cleaner, late, disk>>
    BY <1>8, <1>a DEF QueueExport, ClaimExport, Unlocked
  <2>2. \A o \in Books \ {b} : rows'[o] = rows[o]
    BY <1>8 DEF QueueExport, ClaimExport, Row, DeletionTypes
  <2> QED
    BY <1>a, <1>b, <2>1, <2>2 DEF Quiet
<1>9. ASSUME NEW b \in Books, WriteExport(b) PROVE Quiet
  <2>1. PICK v \in {1, 2} :
          /\ disk' = [disk EXCEPT ![<<"export", b, v>>] = File(v, exporter[b])]
          /\ late' = IF rows[b].task = "running" THEN late ELSE late \cup {<<"export", b, v>>}
    BY <1>9 DEF WriteExport
  <2> DEFINE p == <<"export", b, v>>
  <2>2. p \in Scope(b) /\ p \in Paths /\ p[1] # "blob"
    BY PathFacts DEF Scope
  <2>3. UNCHANGED <<receipts, cleaner>>
    BY <1>9 DEF WriteExport
  <2>4. \A x \in Blobs : disk'[BlobPath(x)] = disk[BlobPath(x)]
    BY <2>1, <2>2, PathFacts DEF DeletionTypes
  <2> HIDE DEF p
  <2>5. \A o \in Books \ {b} : FilesKept(o)
    BY <1>c, <2>1, <2>2, OneFileKept DEF DeletionTypes, p
  <2>6. CASE rows[b].task = "running"
    <3>1. receipts[b] = NoReceipt /\ cleaner.book = NoBook
      BY <1>9, <1>a, <2>6 DEF WriteExport, Unlocked
    <3>2. \A o \in Books \ {b} : rows'[o] = rows[o]
      BY <1>9, <2>6 DEF WriteExport, Row, DeletionTypes
    <3> QED
      BY <1>a, <2>3, <2>4, <2>5, <3>1, <3>2 DEF Quiet
  <2>7. CASE rows[b].task # "running"
    <3>1. rows' = rows
      BY <1>9, <2>7 DEF WriteExport
    <3>2. FilesKept(b)
      BY <2>1, <2>2, <2>7, OneFileKept DEF DeletionTypes, p
    <3> QED
      BY <1>a, <2>3, <2>4, <2>5, <3>1, <3>2 DEF Quiet
  <2> QED
    BY <2>6, <2>7
<1>10. ASSUME NEW b \in Books, TakeOverExport(b) PROVE Quiet
  <2>1. <<"export", b, 1>> \in Scope(b) /\ <<"export", b, 1>> \in Paths
    BY PathFacts DEF Scope
  <2>2. receipts[b] = NoReceipt /\ cleaner.book = NoBook /\ UNCHANGED <<receipts, cleaner, late>>
    BY <1>10, <1>a DEF TakeOverExport, Unlocked
  <2>3. \A o \in Books \ {b} : FilesKept(o)
    BY <1>10, <1>c, <2>1, <2>2, OneFileKept DEF TakeOverExport, DeletionTypes
  <2>4. \A o \in Books \ {b} : rows'[o] = rows[o]
    BY <1>10 DEF TakeOverExport, Row, DeletionTypes
  <2> QED
    BY <1>a, <2>2, <2>3, <2>4 DEF Quiet
<1>11. ASSUME NEW b \in Books, SyncMirror(b) PROVE Quiet
  <2>1. /\ receipts[b] = NoReceipt /\ cleaner.book = NoBook
        /\ UNCHANGED <<receipts, cleaner, late, rows>>
    BY <1>11, <1>a DEF SyncMirror, Unlocked
  <2>2. <<"mirror", b>> \in Scope(b) /\ <<"manifest", b>> \in Scope(b)
    BY DEF Scope
  <2>3. \A p \in Paths \ Scope(b) : disk'[p] = disk[p]
    BY <1>11, <2>2 DEF SyncMirror
  <2>4. \A o \in Books \ {b} : FilesKept(o)
    BY <1>c, <2>1, <2>3 DEF FilesKept, OnDisk
  <2> QED
    BY <1>a, <2>1, <2>4 DEF Quiet
<1>12. ASSUME NEW b \in Books, TouchMirror(b) PROVE Quiet
  <2> DEFINE p == <<"mirror", b>>
  <2>1. p \in Scope(b) /\ p \in Paths /\ p \in OnDisk /\ p[1] # "blob"
    BY <1>12, PathFacts DEF Scope, TouchMirror
  <2>2. UNCHANGED <<rows, receipts, cleaner, late>>
    BY <1>12 DEF TouchMirror
  <2> HIDE DEF p
  <2>3. \A q \in Paths \ {p} : disk'[q] = disk[q]
    BY <1>12 DEF TouchMirror, DeletionTypes, p
  <2>4. \A o \in Books : FilesKept(o)
    BY <2>1, <2>2, <2>3 DEF FilesKept, OnDisk
  <2>5. \A x \in Blobs : disk'[BlobPath(x)] = disk[BlobPath(x)]
    BY <2>1, <2>3, PathFacts
  <2> QED
    BY <1>a, <2>2, <2>4, <2>5 DEF Quiet
<1>13. ASSUME NEW b \in Books, NEW k \in DeletionKeys, PreviewDeletion(k, b) PROVE Quiet
  BY <1>13, <1>a, <1>b DEF PreviewDeletion, Quiet, Unlocked
<1> QED
  BY <1>0, <1>1, <1>2, <1>3, <1>4, <1>5, <1>6, <1>7, <1>8, <1>9, <1>10, <1>11, <1>12, <1>13
     DEF Meanwhile

\* The deletion itself and the cleanup.
LEMMA DeleteKeeps ==
  ASSUME DeletionTypes, Gone, Cleaning, NothingLeftBehind,
         NEW b \in Books, NEW k \in DeletionKeys, DeleteBook(k, b)
  PROVE  Gone' /\ Cleaning' /\ NothingLeftBehind'
<1> DEFINE r == [status |-> "cleanup_pending", key |-> k,
                 confirmed |-> seen[k], plan |-> Manifest(b)]
<1>1. /\ receipts' = [receipts EXCEPT ![b] = r]
      /\ rows' = [rows EXCEPT ![b] = Absent]
      /\ UNCHANGED <<disk, cleaner, late>> /\ cleaner.book = NoBook
      /\ seen[k] = Binding(b) /\ Attributed(b)
  BY DEF DeleteBook, Unlocked, Deletable
<1>2. r.status = "cleanup_pending" /\ r.plan = Manifest(b) /\ r.confirmed.files = Manifest(b)
  BY <1>1 DEF Binding
<1>3. r # NoReceipt
  BY <1>2, RowFacts
<1> HIDE DEF r
<1>4. /\ receipts'[b] = r /\ rows'[b] = Absent
      /\ \A o \in Books \ {b} : receipts'[o] = receipts[o] /\ rows'[o] = rows[o]
  BY <1>1 DEF DeletionTypes
<1>5. \A o \in Books \ {b} : Planned(o)' = Planned(o) /\ (Pending(o)' <=> Pending(o))
  BY <1>4 DEF Planned, Pending
<1>6. \A p \in Planned(b)' : p[1] = "blob" \/ p \in Scope(b)
  <2> SUFFICES ASSUME NEW p \in Paths, Manifest(b)[p] # NoFile
               PROVE  p[1] = "blob" \/ p \in Scope(b)
    BY <1>2, <1>4 DEF Planned
  <2>1. \/ p \in OwnFiles(b)
        \/ \E x \in Blobs : p = BlobPath(x)
    BY DEF Manifest, Reach
  <2> QED
    BY <2>1, PathFacts DEF OwnFiles
<1>7. Gone'
  BY <1>2, <1>4, <1>5, <1>6 DEF Gone, Pending
<1>8. \A p \in Scope(b) \cap OnDisk : p \in Planned(b)'
  <2> TAKE p \in Scope(b) \cap OnDisk
  <2>1. p \in OwnFiles(b)
    BY <1>1 DEF OwnFiles, Attributed, Folder
  <2>2. p \in Paths /\ disk[p] # NoFile
    BY DEF OnDisk
  <2>3. Manifest(b)[p] = disk[p]
    BY <2>1, <2>2 DEF Manifest
  <2> QED
    BY <1>2, <1>4, <2>2, <2>3 DEF Planned
<1>9. NothingLeftBehind'
  BY <1>1, <1>2, <1>4, <1>5, <1>8 DEF NothingLeftBehind, OnDisk
<1> QED
  BY <1>1, <1>7, <1>9 DEF Cleaning

LEMMA StartKeeps ==
  ASSUME DeletionTypes, Gone, Cleaning, NothingLeftBehind, NEW b \in Books, StartCleanup(b)
  PROVE  Gone' /\ Cleaning' /\ NothingLeftBehind'
<1>1. /\ cleaner' = [book |-> b, todo |-> Unshared(b)]
      /\ UNCHANGED <<rows, receipts, disk, late>>
      /\ receipts[b].status = "cleanup_pending"
  BY DEF StartCleanup
<1>2. Pending(b)
  BY <1>1, RowFacts DEF Pending
<1>3. Gone' /\ NothingLeftBehind'
  BY <1>1 DEF Gone, Pending, Planned, NothingLeftBehind, OnDisk
<1>4. (Scope(b) \cap OnDisk) \ late \subseteq Unshared(b)
  <2> SUFFICES ASSUME NEW p \in (Scope(b) \cap OnDisk) \ late PROVE p \in Unshared(b)
    OBVIOUS
  <2>1. p \in Planned(b) /\ p[1] # "blob"
    BY <1>2, PathFacts DEF NothingLeftBehind, Pending
  <2> QED
    BY <2>1 DEF Unshared
<1>5. \A o \in Books, x \in Blobs :
        rows[o].book /\ BlobPath(x) \in Unshared(b) => x \notin Reach(rows[o].cites)
  <2> SUFFICES ASSUME NEW o \in Books, NEW x \in Blobs, rows[o].book, BlobPath(x) \in Unshared(b)
               PROVE  x \notin Reach(rows[o].cites)
    OBVIOUS
  <2>1. o # b
    BY <1>2, RowFacts DEF Gone, Pending
  <2>2. x \notin Protected(b, Planned(b))
    BY PathFacts DEF Unshared
  <2> DEFINE K == (UNION {rows[a].cites : a \in Books \ {b}}) \cup
                  UNION {disk[p].hashes : p \in {q \in OnDisk : q[1] # "blob" /\ q \notin Planned(b)}}
  <2>3. rows[o].cites \subseteq K
    BY <2>1
  <2>4. Reach(rows[o].cites) \subseteq Reach(K)
    BY <2>3, ReachGrows
  <2> QED
    BY <2>2, <2>4 DEF Protected
<1>6. Unshared(b) \subseteq Planned(b)
  BY DEF Unshared
<1>7. /\ cleaner'.book = b /\ cleaner'.todo = Unshared(b)
      /\ Pending(b)' /\ Planned(b)' = Planned(b) /\ OnDisk' = OnDisk
  BY <1>1, <1>2 DEF Pending, Planned, OnDisk
<1>8. \A o \in Books : Reach(rows[o].cites)' = Reach(rows[o].cites)
  BY <1>1 DEF Reach, Linked, OnDisk
<1>9. Cleaning'
  BY <1>1, <1>4, <1>5, <1>6, <1>7, <1>8, DeletionAssumption DEF Cleaning
<1> QED
  BY <1>3, <1>9

LEMMA RemoveKeeps ==
  ASSUME DeletionTypes, Gone, Cleaning, NothingLeftBehind, NEW p \in Paths, RemoveFile(p)
  PROVE  Gone' /\ Cleaning' /\ NothingLeftBehind'
<1>1. UNCHANGED <<rows, receipts, late>> /\ \A q \in Paths : disk'[q] \in {disk[q], NoFile}
  BY DEF RemoveFile, DeletionTypes
<1>2. OnDisk' \subseteq OnDisk
  BY <1>1 DEF OnDisk
<1>3. Gone' /\ NothingLeftBehind'
  BY <1>1, <1>2 DEF Gone, Pending, Planned, NothingLeftBehind
<1>4. cleaner' = Idle \/ /\ cleaner' = [cleaner EXCEPT !.todo = @ \ {p}]
                         /\ disk' = [disk EXCEPT ![p] = NoFile]
  BY DEF RemoveFile
<1>5. CASE cleaner' = Idle
  BY <1>3, <1>5 DEF Cleaning, Idle
<1>6. CASE /\ cleaner' = [cleaner EXCEPT !.todo = @ \ {p}]
           /\ disk' = [disk EXCEPT ![p] = NoFile]
  <2>1. cleaner'.book = cleaner.book /\ cleaner'.todo = cleaner.todo \ {p}
    BY <1>6 DEF DeletionTypes
  <2>2. p \notin OnDisk'
    BY <1>6 DEF OnDisk, DeletionTypes
  <2> SUFFICES ASSUME cleaner.book # NoBook PROVE Cleaning'
    BY <1>3, <2>1 DEF Cleaning, RemoveFile
  <2> DEFINE c == cleaner.book
  <2>3. Pending(c)' /\ Planned(c)' = Planned(c)
    BY <1>1, <2>1 DEF Cleaning, Pending, Planned
  <2>4. (Scope(c) \cap OnDisk') \ late' \subseteq cleaner'.todo
    BY <1>1, <1>2, <2>1, <2>2 DEF Cleaning
  <2>5. \A o \in Books : Reach(rows[o].cites)' \subseteq Reach(rows[o].cites)
    BY <1>1, PathFacts, ReachShrinks
  <2>6. \A o \in Books, x \in Blobs :
          rows'[o].book /\ BlobPath(x) \in cleaner'.todo => x \notin Reach(rows[o].cites)'
    BY <1>1, <2>1, <2>5 DEF Cleaning
  <2>7. cleaner'.todo \subseteq Planned(c)'
    BY <2>1, <2>3 DEF Cleaning
  <2> QED
    BY <2>1, <2>3, <2>4, <2>6, <2>7 DEF Cleaning
<1> QED
  BY <1>4, <1>3, <1>5, <1>6

LEMMA StopKeeps ==
  ASSUME DeletionTypes, Gone, Cleaning, NothingLeftBehind, StopCleanup
  PROVE  Gone' /\ Cleaning' /\ NothingLeftBehind'
<1>1. /\ UNCHANGED <<rows, receipts, disk, late>>
      /\ cleaner'.book = NoBook /\ cleaner'.todo = {}
  BY DEF StopCleanup, Idle
<1> QED
  BY <1>1 DEF Gone, Pending, Planned, NothingLeftBehind, OnDisk, Cleaning

LEMMA FinishKeeps ==
  ASSUME DeletionTypes, Gone, Cleaning, NothingLeftBehind, FinishCleanup
  PROVE  Gone' /\ Cleaning' /\ NothingLeftBehind'
<1> DEFINE b == cleaner.book
           none == [p \in Paths |-> NoFile]
           r == [receipts[b] EXCEPT !.status = "completed", !.plan = none]
<1>1. /\ receipts' = [receipts EXCEPT ![b] = r]
      /\ UNCHANGED <<rows, disk, late>>
      /\ cleaner'.book = NoBook /\ cleaner'.todo = {}
      /\ b # NoBook /\ cleaner.todo = {}
  BY DEF FinishCleanup, DeletionTypes, Idle, Unlocked
<1>2. b \in Books /\ receipts[b] \in Receipts /\ receipts[b] # NoReceipt
  BY <1>1 DEF Cleaning, Pending, DeletionTypes
<1>3. r.status = "completed"
  BY <1>2 DEF Receipts
<1> HIDE DEF r
<1>4. /\ receipts'[b] = r
      /\ \A o \in Books \ {b} : receipts'[o] = receipts[o]
  BY <1>1, <1>2 DEF DeletionTypes
<1>5. \A o \in Books \ {b} : Planned(o)' = Planned(o) /\ (Pending(o)' <=> Pending(o))
  BY <1>4 DEF Planned, Pending
<1>6. Gone'
  BY <1>1, <1>2, <1>3, <1>4, <1>5 DEF Gone, Pending
<1>7. (Scope(b) \cap OnDisk) \ late = {}
  BY <1>1 DEF Cleaning
<1>8. NothingLeftBehind'
  BY <1>1, <1>4, <1>5, <1>7 DEF NothingLeftBehind, OnDisk
<1> QED
  BY <1>1, <1>6, <1>8 DEF Cleaning

\* Every step keeps what is safe.
LEMMA SafeStep ==
  DeletionTypes /\ Gone /\ Cleaning /\ NothingLeftBehind /\ [NextDeletion]_deletionVars
    => Gone' /\ Cleaning' /\ NothingLeftBehind'
<1> SUFFICES ASSUME DeletionTypes, Gone, Cleaning, NothingLeftBehind, [NextDeletion]_deletionVars
             PROVE  Gone' /\ Cleaning' /\ NothingLeftBehind'
  OBVIOUS
<1>1. \/ Meanwhile \/ StopCleanup \/ FinishCleanup
      \/ \E b \in Books : StartCleanup(b) \/ \E k \in DeletionKeys : DeleteBook(k, b)
      \/ \E p \in Paths : RemoveFile(p)
  BY DEF NextDeletion, Meanwhile
<1>2. CASE Meanwhile
  BY <1>2, QuietStep, QuietKeeps
<1> QED
  BY <1>1, <1>2, DeleteKeeps, StartKeeps, RemoveKeeps, StopKeeps, FinishKeeps

\* A command makes its book once.
LEMMA MadeStep ==
  DeletionTypes /\ Gone /\ Cleaning /\ Made /\ [NextDeletion]_deletionVars => Made'
<1> SUFFICES ASSUME DeletionTypes, Gone, Cleaning, Made, [NextDeletion]_deletionVars PROVE Made'
  OBVIOUS
<1> DEFINE Traced(b) == \/ commandKey[b] # "none" \/ receipts[b] # NoReceipt
                        \/ rows[b].book /\ rows[b].import = "none"
<1>a. \A b \in Books : rows[b] \in BookRows /\ created[b] \in Nat /\ created[b] <= 1
  BY DEF DeletionTypes, Made
<1>b. \A b \in Books : receipts[b] # NoReceipt => rows[b] = Absent
  BY DEF Gone
<1>c. (UNCHANGED created /\ \A b \in Books : Traced(b) => Traced(b)') => Made'
  BY DEF Made
<1>1. ASSUME NEW b \in Books,
             StageImport(b) \/ EditBook(b) \/ MoveCall(b) \/ QueueExport(b) \/ ClaimExport(b)
               \/ WriteExport(b) \/ TakeOverExport(b)
      PROVE  UNCHANGED created /\ \A o \in Books : Traced(o) => Traced(o)'
  <2>1. UNCHANGED <<created, commandKey, receipts>>
    BY <1>1 DEF StageImport, EditBook, MoveCall, QueueExport, ClaimExport, WriteExport, TakeOverExport
  <2>2. \A o \in Books \ {b} : rows'[o] = rows[o]
    BY <1>1 DEF StageImport, EditBook, MoveCall, QueueExport, ClaimExport, WriteExport,
       TakeOverExport, Row, DeletionTypes
  <2>3. rows[b].book => rows'[b].book /\ rows'[b].import = rows[b].import
    <3>1. rows[b].book => ~StageImport(b)
      BY RowFacts DEF StageImport
    <3>2. \A v : /\ [rows[b] EXCEPT !.text = v].book = rows[b].book
                 /\ [rows[b] EXCEPT !.text = v].import = rows[b].import
                 /\ [rows[b] EXCEPT !.task = v].book = rows[b].book
                 /\ [rows[b] EXCEPT !.task = v].import = rows[b].import
                 /\ [rows[b] EXCEPT !.call = v].book = rows[b].book
                 /\ [rows[b] EXCEPT !.call = v].import = rows[b].import
      BY <1>a DEF BookRows
    <3>3. CASE EditBook(b)
      BY <3>2, <3>3 DEF EditBook, Row, DeletionTypes
    <3>4. CASE MoveCall(b)
      BY <3>2, <3>4 DEF MoveCall, Row, DeletionTypes
    <3>5. CASE QueueExport(b) \/ ClaimExport(b) \/ TakeOverExport(b) \/ WriteExport(b)
      <4>1. rows' = rows \/ \E t \in {"queued", "running", "done"} : Row(b, "task", t)
        BY <3>5 DEF QueueExport, ClaimExport, TakeOverExport, WriteExport
      <4>2. rows' = rows \/ \E t : rows'[b] = [rows[b] EXCEPT !.task = t]
        BY ZenonT(60), <4>1 DEF Row, DeletionTypes
      <4> QED
        BY <3>2, <4>2
    <3> QED
      BY <1>1, <3>1, <3>3, <3>4, <3>5
  <2> QED
    BY <2>1, <2>2, <2>3
<1>2. ASSUME NEW b \in Books,
             \/ Backup(b) \/ SyncMirror(b) \/ TouchMirror(b) \/ StartCleanup(b)
             \/ \E k \in DeletionKeys : PreviewDeletion(k, b)
      PROVE  UNCHANGED created /\ \A o \in Books : Traced(o) => Traced(o)'
  BY <1>2 DEF Backup, SyncMirror, TouchMirror, StartCleanup, PreviewDeletion
<1>3. ASSUME NEW b \in Books, CreateBook(b) \/ CommitImport(b) PROVE Made'
  <2>1. created[b] = 0
    <3>1. commandKey[b] = "none" /\ receipts[b] = NoReceipt
      BY <1>3, <1>b, RowFacts DEF CreateBook, CommitImport, MayRun
    <3>2. ~(rows[b].book /\ rows[b].import = "none")
      BY <1>3, RowFacts DEF CreateBook, CommitImport
    <3> QED
      BY <1>a, <3>1, <3>2 DEF Made
  <2>2. created' = [created EXCEPT ![b] = @ + 1] /\ commandKey' = [commandKey EXCEPT ![b] = "saved"]
        /\ UNCHANGED receipts
    BY <1>3 DEF CreateBook, CommitImport
  <2>3. \A o \in Books \ {b} : rows'[o] = rows[o]
    BY <1>3 DEF CreateBook, CommitImport, DeletionTypes
  <2>4. created'[b] = 1 /\ commandKey'[b] = "saved"
    BY <2>1, <2>2 DEF DeletionTypes
  <2>5. \A o \in Books \ {b} : created'[o] = created[o] /\ commandKey'[o] = commandKey[o]
    BY <2>2 DEF DeletionTypes
  <2> QED
    BY <2>2, <2>3, <2>4, <2>5 DEF Made
<1>4. ASSUME NEW b \in Books, RestoreArchive(b) PROVE Made'
  <2>1. created' = [created EXCEPT ![b] = 1] /\ UNCHANGED <<commandKey, receipts>>
    BY <1>4 DEF RestoreArchive
  <2> DEFINE r == [rows[b] EXCEPT !.book = TRUE, !.cites = archive]
  <2>2. rows' = [rows EXCEPT ![b] = r] /\ rows[b].import = "none"
    BY <1>4, RowFacts DEF RestoreArchive, DeletionTypes
  <2>3. r.book = TRUE /\ r.import = "none"
    BY <1>a, <2>2 DEF BookRows
  <2> HIDE DEF r
  <2> QED
    BY <2>1, <2>2, <2>3 DEF Made, DeletionTypes
<1>5. ASSUME NEW b \in Books, NEW k \in DeletionKeys, DeleteBook(k, b) PROVE Made'
  <2> DEFINE r == [status |-> "cleanup_pending", key |-> k,
                   confirmed |-> seen[k], plan |-> Manifest(b)]
  <2>1. r.status = "cleanup_pending"
    OBVIOUS
  <2>2. receipts' = [receipts EXCEPT ![b] = r] /\ UNCHANGED created
        /\ rows' = [rows EXCEPT ![b] = Absent]
        /\ commandKey' = [commandKey EXCEPT ![b] = IF @ = "saved" THEN "retired" ELSE @]
    BY <1>5 DEF DeleteBook
  <2> HIDE DEF r
  <2>3. r # NoReceipt
    BY <2>1, RowFacts
  <2>4. /\ receipts'[b] = r
        /\ \A o \in Books \ {b} : rows'[o] = rows[o] /\ receipts'[o] = receipts[o]
                                  /\ commandKey'[o] = commandKey[o]
    BY <2>2 DEF DeletionTypes
  <2> QED
    BY <2>2, <2>3, <2>4 DEF Made
<1>6. ASSUME NEW p \in Paths, RemoveFile(p)
      PROVE  UNCHANGED created /\ \A o \in Books : Traced(o) => Traced(o)'
  BY <1>6 DEF RemoveFile
<1>7. CASE StopCleanup
  BY <1>7, <1>c DEF StopCleanup
<1>8. CASE FinishCleanup
  <2>1. receipts[cleaner.book] # NoReceipt /\ cleaner.book \in Books
    BY <1>8 DEF FinishCleanup, Unlocked, Cleaning, Pending, DeletionTypes
  <2> DEFINE c == cleaner.book
             none == [p \in Paths |-> NoFile]
             r == [receipts[c] EXCEPT !.status = "completed", !.plan = none]
  <2>2. receipts' = [receipts EXCEPT ![c] = r] /\ UNCHANGED <<created, commandKey, rows>>
    BY <1>8 DEF FinishCleanup, DeletionTypes
  <2>3. receipts[c] \in Receipts
    BY <2>1 DEF DeletionTypes
  <2>4. r.status = "completed"
    BY <2>3 DEF Receipts
  <2> HIDE DEF r
  <2>5. r # NoReceipt
    BY <2>4, RowFacts
  <2> QED
    BY <1>c, <2>1, <2>2, <2>5 DEF DeletionTypes
<1>9. CASE UNCHANGED deletionVars
  BY <1>9, <1>c DEF deletionVars
<1> HIDE DEF Traced
<1> QED
  BY <1>c, <1>1, <1>2, <1>3, <1>4, <1>5, <1>6, <1>7, <1>8, <1>9 DEF NextDeletion

LEMMA DeletionInvHolds == DeletionSpec => []DeletionInv
<1>1. InitDeletion => DeletionInv
  <2> SUFFICES ASSUME InitDeletion PROVE Gone /\ Cleaning /\ Made /\ NothingLeftBehind
    BY DeletionTypesInit DEF DeletionInv
  <2>1. \A b \in Books : receipts[b] = NoReceipt
    BY DEF InitDeletion
  <2>2. \A b \in Books : created[b] \in {0, 1} /\ (created[b] = 1 => commandKey[b] = "saved")
    BY DEF InitDeletion
  <2>3. cleaner.book = NoBook /\ cleaner.todo = {}
    BY DEF InitDeletion, Idle
  <2> QED
    BY <2>1, <2>2, <2>3 DEF Gone, Pending, Cleaning, Made, NothingLeftBehind
<1>2. DeletionInv /\ [NextDeletion]_deletionVars => DeletionInv'
  BY DeletionTypesStep, SafeStep, MadeStep DEF DeletionInv
<1> QED
  BY <1>1, <1>2, PTL DEF DeletionSpec

(* However often the cleanup stops, what is left of a deleted book is      *)
(* planned or late, and its command does not make it again.                *)
THEOREM DeletionSound == DeletionSpec => []DeletionIsSound
<1>1. DeletionInv => DeletionIsSound
  BY RowFacts DEF DeletionInv, DeletionIsSound, MadeOnce, Made, Gone
<1> QED
  BY <1>1, DeletionInvHolds, PTL

\* The only step that removes a file removes it rightly.
LEMMA RemovalRight ==
  ASSUME DeletionInv, NextDeletion, NEW p \in Paths, disk[p] # NoFile, disk'[p] = NoFile
  PROVE  AsConfirmed(p) /\ ~StillNeeded(p)
<1> USE DEF DeletionInv
<1>1. RemoveFile(p)
  <2>1. \A b \in Books : rows[b].text \in Nat /\ rows[b].cites \in SUBSET Blobs
    BY RowFacts, DeletionAssumption DEF DeletionTypes
  <2>2. ASSUME NEW b \in Books, StageImport(b) PROVE FALSE
    BY <2>2, FileFacts DEF StageImport, DeletionTypes
  <2>3. ASSUME NEW b \in Books, WriteExport(b) PROVE FALSE
    <3>1. exporter[b] \in SUBSET Blobs
      BY <2>3 DEF WriteExport, DeletionTypes
    <3> QED
      BY <2>3, <3>1, FileFacts DEF WriteExport, DeletionTypes
  <2>4. ASSUME NEW b \in Books, TakeOverExport(b) PROVE FALSE
    BY <2>1, <2>4, FileFacts DEF TakeOverExport, DeletionTypes
  <2>5. ASSUME NEW b \in Books, SyncMirror(b) PROVE FALSE
    BY <2>1, <2>5, FileFacts DEF SyncMirror
  <2>6. ASSUME NEW b \in Books, TouchMirror(b) PROVE FALSE
    <3> DEFINE q == <<"mirror", b>>
               f == [disk[q] EXCEPT !.text = MaxActs + 2]
    <3>1. q \in Paths
      BY PathFacts DEF Scope
    <3>2. disk' = [disk EXCEPT ![q] = f]
      BY <2>6 DEF TouchMirror
    <3>3. f.text = MaxActs + 2 /\ NoFile.text = 0
      BY <3>1 DEF DeletionTypes, Files, NoFile
    <3> HIDE DEF f
    <3>4. f # NoFile
      BY <3>3, DeletionAssumption
    <3> HIDE DEF q
    <3> QED
      BY <3>1, <3>2, <3>4 DEF DeletionTypes
  <2>7. ASSUME NEW q \in Paths, q # p, RemoveFile(q) PROVE FALSE
    BY <2>7 DEF RemoveFile, DeletionTypes
  <2>8. disk' # disk
    OBVIOUS
  <2>9. ASSUME NEW b \in Books,
               \/ CreateBook(b) \/ CommitImport(b) \/ Backup(b) \/ RestoreArchive(b)
               \/ EditBook(b) \/ MoveCall(b) \/ QueueExport(b) \/ ClaimExport(b)
               \/ StartCleanup(b)
               \/ \E k \in DeletionKeys : PreviewDeletion(k, b) \/ DeleteBook(k, b)
        PROVE  FALSE
    BY <2>8, <2>9 DEF CreateBook, CommitImport, Backup, RestoreArchive, EditBook, MoveCall,
       QueueExport, ClaimExport, StartCleanup, PreviewDeletion, DeleteBook
  <2>10. ~StopCleanup /\ ~FinishCleanup
    BY <2>8 DEF StopCleanup, FinishCleanup
  <2> QED
    BY <2>2, <2>3, <2>4, <2>5, <2>6, <2>7, <2>9, <2>10 DEF NextDeletion
<1> DEFINE c == cleaner.book
<1>2. p \in cleaner.todo /\ p \in OnDisk /\ disk' # disk
  BY <1>1 DEF RemoveFile, OnDisk
<1>3. disk[p] = receipts[c].plan[p]
  BY <1>1, <1>2 DEF RemoveFile, Unchanged
<1>4. c \in Books /\ Pending(c) /\ p \in Planned(c)
  <2>1. c # NoBook
    BY <1>2 DEF Cleaning
  <2> QED
    BY <1>2, <2>1 DEF Cleaning, DeletionTypes
<1>5. AsConfirmed(p)
  BY <1>3, <1>4 DEF AsConfirmed, Gone, Pending
<1>6. ~StillNeeded(p)
  <2> SUFFICES ASSUME NEW o \in Books, rows[o].book,
                      p \in Scope(o) \/ (p[1] = "blob" /\ p[2] \in Reach(rows[o].cites))
               PROVE  FALSE
    BY DEF StillNeeded
  <2>1. rows[c] = Absent /\ o # c
    BY <1>4, RowFacts DEF Gone, Pending
  <2>2. p[1] = "blob" \/ p \in Scope(c)
    BY <1>4 DEF Gone
  <2>3. CASE p \in Scope(o)
    BY <1>4, <2>1, <2>2, <2>3, PathFacts
  <2>4. CASE p[1] = "blob" /\ p[2] \in Reach(rows[o].cites)
    <3>1. PICK x \in Blobs : p = BlobPath(x)
      BY <2>4, PathFacts
    <3>2. p[2] = x
      BY <3>1, PathFacts
    <3> QED
      BY <1>2, <1>4, <2>4, <3>1, <3>2, DeletionAssumption DEF Cleaning
  <2> QED
    BY <2>3, <2>4
<1> QED
  BY <1>5, <1>6

(* Nothing is removed but what was confirmed, as it was confirmed, and     *)
(* nothing another book needs.                                             *)
THEOREM RemovedConfirmed == DeletionSpec => RemovedAsConfirmed
<1> DEFINE Right == \A p \in OnDisk : disk'[p] = NoFile => AsConfirmed(p) /\ ~StillNeeded(p)
<1>1. ASSUME DeletionInv, NextDeletion PROVE Right
  BY <1>1, RemovalRight DEF OnDisk
<1>2. DeletionInv /\ [NextDeletion]_deletionVars => [Right]_deletionVars
  BY <1>1
<1> QED
  BY <1>2, DeletionInvHolds, PTL DEF DeletionSpec, RemovedAsConfirmed

=============================================================================
