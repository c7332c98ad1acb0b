----------------------------- MODULE MCServices -----------------------------
(***************************************************************************)
(* The services around the generation kernel, checked side by side.  Each  *)
(* has tables and files of its own, and what they share is part of the     *)
(* module of each that reads it; so a behaviour explores one of them, and  *)
(* all others rest in an initial state.                                    *)
(***************************************************************************)
EXTENDS LocalTasks, ProjectDeletion, FormalVersions, KnowledgeIndex,
        ProviderProfiles, Maintenance, MCBudget, ProviderCall,
        ReferenceStyles, MCRequest, MCIntake, MCFacts, MCTemplates,
        SystemArchive, Reading, Retrieval, TLC

CONSTANTS v1, v2, t1, t2, t3, x, y, r1, r2, s1, s2, h1, h2, o1, d2

VARIABLE scope        \* the component a behaviour explores

MCCut == (v1 :> {t1, t2}) @@ (v2 :> {t2})
MCNested == {<<x, y>>}
MCHome == (s1 :> r1) @@ (s2 :> r2)
MCPassage(ch, at, points) ==
    [chapter |-> ch, start |-> at, kind |-> "talk", score |-> points]
MCTexts == [c1 |-> {MCPassage(1, 1, 3), MCPassage(1, 2, 2), MCPassage(2, 1, 1), MCPassage(3, 1, 3)}]
MCSpoilt == {<<"c1", 3>>}
MCMigration == (h1 :> 1) @@ (h2 :> 2)
MCAsked == [commit |-> h1, revision |-> 1]

(* A healthy book whose chapter got a new title, one that was damaged      *)
(* before that, and one with a damage that nobody can repair mechanically. *)
MCPublications ==
    LET told(titles, shape, fact) ==
            [i \in 1 .. Len(titles) |->
                [lists |-> {1}, titles |-> (1 :> titles[i]) @@ (2 :> "a"),
                 facts |-> (1 :> shape) @@ (2 :> fact)]]
    IN  {told(<<"a", "b">>, "list", "b"), told(<<"a", "b">>, "array", "b"),
         told(<<"a">>, "array", "wrapped")}

(* A book with two chapters, the first of which is cut in three, and a     *)
(* world whose entries name one another; two entries have earlier values.  *)
MCVersionTexts ==
    LET told(sort, id, ordinal, length, breaks) ==
            [kind |-> sort, id |-> id, ordinal |-> ordinal, length |-> length, breaks |-> breaks,
             text |-> id, digest |-> id]
        begun == {told("world_lore", "a", 0, 2, {}), told("world_lore", "b", 0, 1, {}),
                  told("chapter", "1", 1, 9, {2})}
    IN  (1 :> begun) @@ (2 :> begun \cup {told("chapter", "2", 2, 3, {}),
                                          told("world_lore", "c", 0, 1, {})})
MCMentions     == ("a" :> {"b"}) @@ ("b" :> {}) @@ ("c" :> {"a"}) @@ ("d" :> {})
MCPastMentions == ("b" :> {"d"}) @@ ("d" :> {})

servicesVars ==
    <<scope, vars, deletionVars, formalVars, knowledgeVars, profileVars,
      maintenanceVars, budgetVars, callVars, styleVars, requestVars,
      intakeVars, factsVars, templatesVars, archiveVars, readingVars,
      retrievalVars>>

InitServices ==
    /\ scope \in {"tasks", "deletion", "versions", "knowledge", "profiles",
                 "maintenance", "budget", "call", "styles", "request",
                 "intake", "mirror", "facts", "templates", "archives",
                 "reading", "retrieval"}
    /\ Init
    /\ scope = "tasks" \/ (documented = {1})
    /\ InitDeletion
    /\ InitFormal
    /\ InitKnowledge
    /\ scope = "knowledge" \/ (installed.manifest = 0)
    /\ InitProfiles
    /\ scope = "profiles" \/ (\A p \in Profiles, m \in Offered :
                                overlays[p][m] = NoOverlay /\ registry[p].contract.prices[m] = 1)
    /\ InitMaintenance
    /\ InitBudget
    /\ scope = "budget" \/ (design = OneUnit)
    /\ InitCall
    /\ scope = "call" \/ (wire.adapter = "chat" /\ wire.streams /\ wire.form = "stream")
    /\ InitStyles
    /\ InitRequest
    /\ scope = "request" \/ (opening.cast = {} /\ opening.spoken = {} /\ opening.cites["deed"] = {} /\ opening.names["deed"] = {}
                           /\ request.role = "reader" /\ inputLimit = 8)
    /\ InitIntake
    /\ FactsInit
    /\ InitTemplates
    /\ scope = "templates" \/ (pointer["legacy"] = NoBundle)
    /\ InitSystemArchive
    /\ scope = "archives" \/ (tree.head = Asked.commit /\ applied = Asked.revision
                                 /\ config = "plain")
    /\ InitReading
    /\ scope = "reading" \/ (Len(published) = 1)
    /\ InitRetrieval
    /\ scope = "mirror" \/ scope = "intake" \/ (books[1].style = Unstyled)

(* Versions without documents are met by rebuilds, as exports look at    *)
(* none; after a worker has died, while there is one task only.            *)
MissedByRebuilds ==
    \/ documented = 1 .. version
    \/ /\ \A t \in Tasks : task[t] = NoTask \/ Rebuild(t)
       /\ faults = 0 \/ \E t \in Tasks : task[t] = NoTask

(* Ticks are lost and fail, rebuilds are asked for and files are replaced  *)
(* under a tick while one version has an index; two versions share their   *)
(* pieces while all goes well, with files replaced when both are embedded. *)
TroubledAlone ==
    \/ Cardinality({v \in Editions : entry[v] # NoEntry}) = 1
    \/ /\ troubles = 0
       /\ \/ FilesThere = Whole(installed.manifest)
          \/ \A v \in Editions : entry[v].status = "ready"

TasksStep ==
    /\ scope = "tasks" /\ Next /\ MissedByRebuilds'
    /\ UNCHANGED <<scope, deletionVars, formalVars, knowledgeVars,
                   profileVars, maintenanceVars, budgetVars, callVars,
                   styleVars, requestVars, intakeVars, factsVars,
                   templatesVars, archiveVars, readingVars, retrievalVars>>

DeletionStep ==
    /\ scope = "deletion" /\ NextDeletion
    /\ UNCHANGED <<scope, vars, formalVars, knowledgeVars, profileVars,
                   maintenanceVars, budgetVars, callVars, styleVars,
                   requestVars, intakeVars, factsVars, templatesVars,
                   archiveVars, readingVars, retrievalVars>>

VersionsStep ==
    /\ scope = "versions" /\ NextFormal
    /\ UNCHANGED <<scope, vars, deletionVars, knowledgeVars, profileVars,
                   maintenanceVars, budgetVars, callVars, styleVars,
                   requestVars, intakeVars, factsVars, templatesVars,
                   archiveVars, readingVars, retrievalVars>>

KnowledgeStep ==
    /\ scope = "knowledge" /\ NextKnowledge /\ TroubledAlone'
    /\ UNCHANGED <<scope, vars, deletionVars, formalVars, profileVars,
                   maintenanceVars, budgetVars, callVars, styleVars,
                   requestVars, intakeVars, factsVars, templatesVars,
                   archiveVars, readingVars, retrievalVars>>

ProfilesStep ==
    /\ scope = "profiles" /\ NextProfiles
    /\ UNCHANGED <<scope, vars, deletionVars, formalVars, knowledgeVars,
                   maintenanceVars, budgetVars, callVars, styleVars,
                   requestVars, intakeVars, factsVars, templatesVars,
                   archiveVars, readingVars, retrievalVars>>

MaintenanceStep ==
    /\ scope = "maintenance" /\ NextMaintenance
    /\ UNCHANGED <<scope, vars, deletionVars, formalVars, knowledgeVars,
                   profileVars, budgetVars, callVars, styleVars, requestVars,
                   intakeVars, factsVars, templatesVars, archiveVars,
                   readingVars, retrievalVars>>

BudgetStep ==
    /\ scope = "budget" /\ NextBudget
    /\ UNCHANGED <<scope, vars, deletionVars, formalVars, knowledgeVars,
                   profileVars, maintenanceVars, callVars, styleVars,
                   requestVars, intakeVars, factsVars, templatesVars,
                   archiveVars, readingVars, retrievalVars>>

CallStep ==
    /\ scope = "call" /\ NextCall
    /\ UNCHANGED <<scope, vars, deletionVars, formalVars, knowledgeVars,
                   profileVars, maintenanceVars, budgetVars, styleVars,
                   requestVars, intakeVars, factsVars, templatesVars,
                   archiveVars, readingVars, retrievalVars>>

StylesStep ==
    /\ scope = "styles" /\ NextStyles
    /\ UNCHANGED <<scope, vars, deletionVars, formalVars, knowledgeVars,
                   profileVars, maintenanceVars, budgetVars, callVars,
                   requestVars, intakeVars, factsVars, templatesVars,
                   archiveVars, readingVars, retrievalVars>>

RequestStep ==
    /\ scope = "request" /\ NextRequest
    /\ UNCHANGED <<scope, vars, deletionVars, formalVars, knowledgeVars,
                   profileVars, maintenanceVars, budgetVars, callVars,
                   styleVars, intakeVars, factsVars, templatesVars,
                   archiveVars, readingVars, retrievalVars>>

IntakeStep ==
    /\ scope = "intake" /\ NextBooks
    /\ UNCHANGED <<scope, vars, deletionVars, formalVars, knowledgeVars,
                   profileVars, maintenanceVars, budgetVars, callVars,
                   styleVars, requestVars, factsVars, templatesVars,
                   archiveVars, readingVars, retrievalVars>>

MirrorStep ==
    /\ scope = "mirror" /\ NextMirror
    /\ UNCHANGED <<scope, vars, deletionVars, formalVars, knowledgeVars,
                   profileVars, maintenanceVars, budgetVars, callVars,
                   styleVars, requestVars, factsVars, templatesVars,
                   archiveVars, readingVars, retrievalVars>>

FactsStep ==
    /\ scope = "facts" /\ NextFacts
    /\ UNCHANGED <<scope, vars, deletionVars, formalVars, knowledgeVars,
                   profileVars, maintenanceVars, budgetVars, callVars,
                   styleVars, requestVars, intakeVars, templatesVars,
                   archiveVars, readingVars, retrievalVars>>

TemplatesStep ==
    /\ scope = "templates" /\ NextTemplates
    /\ UNCHANGED <<scope, vars, deletionVars, formalVars, knowledgeVars,
                   profileVars, maintenanceVars, budgetVars, callVars,
                   styleVars, requestVars, intakeVars, factsVars,
                   archiveVars, readingVars, retrievalVars>>

ArchivesStep ==
    /\ scope = "archives" /\ NextSystemArchive
    /\ UNCHANGED <<scope, vars, deletionVars, formalVars, knowledgeVars,
                   profileVars, maintenanceVars, budgetVars, callVars,
                   styleVars, requestVars, intakeVars, factsVars,
                   templatesVars, readingVars, retrievalVars>>

ReadingStep ==
    /\ scope = "reading" /\ NextReading
    /\ UNCHANGED <<scope, vars, deletionVars, formalVars, knowledgeVars,
                   profileVars, maintenanceVars, budgetVars, callVars,
                   styleVars, requestVars, intakeVars, factsVars,
                   templatesVars, archiveVars, retrievalVars>>

RetrievalStep ==
    /\ scope = "retrieval" /\ NextRetrieval
    /\ UNCHANGED <<scope, vars, deletionVars, formalVars, knowledgeVars,
                   profileVars, maintenanceVars, budgetVars, callVars,
                   styleVars, requestVars, intakeVars, factsVars,
                   templatesVars, archiveVars, readingVars>>

(* The rows, files and processes of every component are of their type.    *)
ServicesTypeOK ==
    /\ scope = "tasks" => TypeOK
    /\ scope = "deletion" => DeletionTypeOK
    /\ scope = "versions" => FormalTypeOK
    /\ scope = "knowledge" => KnowledgeTypeOK
    /\ scope = "profiles" => ProfilesTypeOK
    /\ scope = "maintenance" => MaintenanceTypeOK
    /\ scope = "budget" => BudgetTypeOK
    /\ scope = "call" => CallTypeOK
    /\ scope = "styles" => StylesTypeOK
    /\ scope = "request" => RequestTypeOK
    /\ scope = "intake" => IntakeTypeOK
    /\ scope = "mirror" => IntakeTypeOK
    /\ scope = "facts" => FactsTypeOK
    /\ scope = "templates" => TemplatesTypeOK
    /\ scope = "archives" => SystemArchiveTypeOK
    /\ scope = "reading" => ReadingTypeOK
    /\ scope = "retrieval" => RetrievalTypeOK

NextServices ==
    \/ TasksStep \/ DeletionStep \/ VersionsStep \/ KnowledgeStep
    \/ ProfilesStep \/ MaintenanceStep \/ BudgetStep \/ CallStep
    \/ StylesStep \/ RequestStep \/ IntakeStep \/ MirrorStep \/ FactsStep
    \/ TemplatesStep \/ ArchivesStep \/ ReadingStep \/ RetrievalStep

ServicesSpec ==
    /\ InitServices /\ [][NextServices]_servicesVars

=============================================================================
