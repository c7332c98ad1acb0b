----------------------------- MODULE SystemArchive -----------------------------
(***************************************************************************)
(* The archive of a whole system (scripts/system_archive.py, services/     *)
(* system_archive.py): one file with the database, the content directory,  *)
(* the runtime configuration and the repository, and the drill that        *)
(* restores it.  The guards that keep the application out are the subject  *)
(* of the module Maintenance; here they are one lease.                     *)
(*                                                                         *)
(* What no guard covers goes on meanwhile: a developer moves the           *)
(* repository, an operator edits the configuration, archives are removed   *)
(* and replaced, and commands fail or die between any two steps.           *)
(***************************************************************************)
EXTENDS Naturals, FiniteSets

CONSTANTS
    Assets,       \* what a row of the database may refer to in the content directory
    Commits,        \* commits of the repository
    Migration,      \* Migration[c]: the revision of the database that commit c brings
    Asked,          \* the commit and the revision an archive is asked for
    Outputs,        \* file names of archives
    Drills,         \* drills on one test database and one target directory
    MaxIncidents    \* search bound: changes of repository and configuration, archives
                    \* removed or damaged

ASSUME ArchiveAssumption ==
    /\ Asked.commit \in Commits /\ Asked.revision \in {Migration[c] : c \in Commits}
    /\ MaxIncidents \in Nat

VARIABLES
    applied,        \* the revision of the database
    tableRows,         \* rows of the database, by what they refer to
    content,        \* files of the content directory
    serving,        \* the application runs and has the lease
    tree,           \* the repository: its only branch and whether the worktree is clean
    config,         \* the runtime files beside the database
    making,         \* the command that makes an archive
    shelf,          \* archives under their final names
    drill,          \* the commands that restore
    testRows,       \* the test database
    testFiles,      \* the target directory
    incidents

archiveVars == <<applied, tableRows, content, serving, tree, config, making, shelf,
                 drill, testRows, testFiles, incidents>>

Configs == {"plain", "secret"}     \* text that looks like a credential is refused

(* An archive, and what the command that makes one has gathered so far.    *)
NoArchive   == [name |-> "absent", rows |-> {}, revisions |-> {}, heads |-> {}, files |-> {},
             config |-> "plain", moved |-> FALSE, intact |-> TRUE, decayed |-> FALSE]
NoMaking == [pc |-> "idle", file |-> NoArchive]
NoDrill  == [pc |-> "idle", file |-> NoArchive]

ArchiveFiles == [name : Outputs \cup {"absent"}, rows : SUBSET Assets,
                 revisions : SUBSET {Migration[c] : c \in Commits}, heads : SUBSET Commits,
                 files : SUBSET Assets, config : Configs,
                 moved : BOOLEAN, intact : BOOLEAN, decayed : BOOLEAN]
MakingSteps == {"idle", "clean", "checked", "dumped", "bundled", "clean again", "ready",
                "staged", "packed", "inspected"}
DrillSteps  == {"idle", "begun", "extract", "place", "restore", "restored"}

SystemArchiveTypeOK ==
    /\ applied \in {Migration[c] : c \in Commits}
    /\ tableRows \subseteq Assets /\ content \subseteq Assets
    /\ serving \in BOOLEAN
    /\ tree \in [head : Commits, clean : BOOLEAN]
    /\ config \in Configs
    /\ making.pc \in MakingSteps /\ making.file \in ArchiveFiles
    /\ shelf \in [Outputs -> ArchiveFiles]
    /\ \A d \in Drills : drill[d].pc \in DrillSteps /\ drill[d].file \in ArchiveFiles
    /\ testRows \in ArchiveFiles /\ testFiles \in ArchiveFiles
    /\ incidents \in 0 .. MaxIncidents

InitSystemArchive ==
    /\ applied \in {Migration[c] : c \in Commits}
    /\ tableRows = {} /\ content = {} /\ serving = FALSE
    /\ tree \in [head : Commits, clean : {TRUE}]
    /\ config \in Configs /\ making = NoMaking
    /\ shelf = [o \in Outputs |-> NoArchive]
    /\ drill = [d \in Drills |-> NoDrill]
    /\ testRows = NoArchive /\ testFiles = NoArchive
    /\ incidents = 0

-----------------------------------------------------------------------------
(* The application: a file before the row that refers to it, and the other *)
(* way round when it is removed.                                           *)

GuardedByDump == making.pc \in {"checked", "dumped"}
Guarded       == making # NoMaking

Serve ==
    /\ ~serving /\ ~Guarded /\ serving' = TRUE
    /\ UNCHANGED <<applied, tableRows, content, tree, config, making, shelf, drill, testRows, testFiles, incidents>>

StopServing ==
    /\ serving /\ serving' = FALSE
    /\ UNCHANGED <<applied, tableRows, content, tree, config, making, shelf, drill, testRows, testFiles, incidents>>

WriteContent(i) ==
    /\ serving /\ i \notin content /\ content' = content \cup {i}
    /\ UNCHANGED <<applied, tableRows, serving, tree, config, making, shelf, drill, testRows, testFiles, incidents>>

WriteRow(i) ==
    /\ serving /\ i \in content \ tableRows /\ tableRows' = tableRows \cup {i}
    /\ UNCHANGED <<applied, content, serving, tree, config, making, shelf, drill, testRows, testFiles, incidents>>

RemoveRow(i) ==
    /\ serving /\ i \in tableRows /\ tableRows' = tableRows \ {i}
    /\ UNCHANGED <<applied, content, serving, tree, config, making, shelf, drill, testRows, testFiles, incidents>>

RemoveContent(i) ==
    /\ serving /\ i \in content \ tableRows /\ content' = content \ {i}
    /\ UNCHANGED <<applied, tableRows, serving, tree, config, making, shelf, drill, testRows, testFiles, incidents>>

(* A developer and an operator, whom nothing keeps away.  "moved" records  *)
(* that a running command saw the repository change.                       *)
Incident == incidents < MaxIncidents /\ incidents' = incidents + 1

Edited ==
    /\ Incident
    /\ UNCHANGED <<applied, tableRows, content, serving, shelf, drill, testRows, testFiles>>

Noticed == making' = IF making = NoMaking THEN making ELSE [making EXCEPT !.file.moved = TRUE]

MoveHead(c) ==
    /\ tree' = [head |-> c, clean |-> TRUE] /\ tree' # tree
    /\ Noticed /\ Edited /\ UNCHANGED config

EditWorktree ==
    /\ tree' = [tree EXCEPT !.clean = ~@]
    /\ Noticed /\ Edited /\ UNCHANGED config

EditConfig ==
    /\ config' \in Configs \ {config}
    /\ Edited /\ UNCHANGED <<tree, making>>

-----------------------------------------------------------------------------
(* Making an archive.                                                      *)

Untouched == <<applied, tableRows, content, serving, tree, config, drill, testRows, testFiles>>
Gather(pc, file) == making' = [pc |-> pc, file |-> file]
Gathered == making.file

CleanRepository == tree = [head |-> Asked.commit, clean |-> TRUE]

(* The worktree's migrations: what an unfinished edit makes of them is open. *)
RightRevision ==
    /\ applied = Asked.revision
    /\ tree.clean => Migration[tree.head] = Asked.revision

BeginArchive(o) ==
    /\ making = NoMaking /\ ~serving /\ CleanRepository
    /\ Gather("clean", [NoArchive EXCEPT !.name = o])
    /\ UNCHANGED <<Untouched, shelf, incidents>>

CheckRevision ==
    /\ making.pc = "clean" /\ RightRevision /\ Gather("checked", Gathered)
    /\ UNCHANGED <<Untouched, shelf, incidents>>

DumpRows ==
    /\ making.pc = "checked"
    /\ Gather("dumped", [Gathered EXCEPT !.rows = tableRows, !.revisions = {applied}])
    /\ UNCHANGED <<Untouched, shelf, incidents>>

(* Every branch and the head, as they are now.                             *)
BundleRepository ==
    /\ making.pc = "dumped"
    /\ Gather("bundled", [Gathered EXCEPT !.heads = {tree.head}])
    /\ UNCHANGED <<Untouched, shelf, incidents>>

CheckAgain ==
    /\ making.pc = "bundled" /\ CleanRepository /\ Gather("clean again", Gathered)
    /\ UNCHANGED <<Untouched, shelf, incidents>>

CheckRevisionAgain ==
    /\ making.pc = "clean again" /\ RightRevision /\ Gather("ready", Gathered)
    /\ UNCHANGED <<Untouched, shelf, incidents>>

(* create: the output must be new and the bundle advertise the commit; then *)
(* everything is copied into a private directory.                          *)
Advertises(heads) == Asked.commit \in heads

StageFiles ==
    /\ making.pc = "ready" /\ shelf[Gathered.name] = NoArchive /\ Advertises(Gathered.heads)
    /\ Gather("staged", [Gathered EXCEPT !.files = content, !.config = config])
    /\ UNCHANGED <<Untouched, shelf, incidents>>

(* What is judged is the copy, which nobody can change any more.           *)
SourceIsPlain == config = "plain"
StagedIsPlain == Gathered.config = "plain"

(* The manifest and the file, under a temporary name.                      *)
Pack ==
    /\ making.pc = "staged" /\ StagedIsPlain
    /\ \/ Gather("packed", Gathered) /\ UNCHANGED incidents
       \/ /\ Incident
          /\ Gather("packed", [Gathered EXCEPT !.intact = FALSE])
    /\ UNCHANGED <<Untouched, shelf>>

(* inspect: the files and their digests are those of the manifest.         *)
PassesIfThere(file) == file # NoArchive
Passes(file)        == file # NoArchive /\ file.intact /\ ~file.decayed

InspectPacked ==
    /\ making.pc = "packed" /\ Passes(Gathered) /\ Gather("inspected", Gathered)
    /\ UNCHANGED <<Untouched, shelf, incidents>>

(* A link never replaces a file.                                           *)
LinkArchive ==
    /\ making.pc = "inspected" /\ shelf[Gathered.name] = NoArchive
    /\ shelf' = [shelf EXCEPT ![Gathered.name] = Gathered]
    /\ making' = NoMaking
    /\ UNCHANGED <<Untouched, incidents>>

(* Whatever a check refuses and wherever the command fails or dies: the    *)
(* lease goes, and temporary files go or stay behind under other names.    *)
AbandonArchive ==
    /\ making # NoMaking /\ making' = NoMaking
    /\ UNCHANGED <<Untouched, shelf, incidents>>

(* Archives are files like others.                                         *)
RemoveArchive(o) ==
    /\ shelf[o] # NoArchive /\ Incident /\ shelf' = [shelf EXCEPT ![o] = NoArchive]
    /\ UNCHANGED <<Untouched, making>>

DamageArchive(o) ==
    /\ shelf[o] # NoArchive /\ Incident
    /\ shelf' = [shelf EXCEPT ![o].decayed = TRUE]
    /\ UNCHANGED <<Untouched, making>>

-----------------------------------------------------------------------------
(* A drill: an inspected archive, an empty test database, an empty target. *)

Live == <<applied, tableRows, content, serving, tree, config, making, shelf, incidents>>
Doing(d, pc)         == drill[d].pc = pc
Advance(d, pc, file) == drill' = [drill EXCEPT ![d] = [pc |-> pc, file |-> file]]

BeginDrill(d, o) ==
    /\ Doing(d, "idle") /\ Passes(shelf[o]) /\ testRows = NoArchive
    /\ Advance(d, "begun", [NoArchive EXCEPT !.name = o])
    /\ UNCHANGED <<Live, testRows, testFiles>>

(* restore_files inspects the file of that name again, and reads it once   *)
(* more to extract it: a member whose digest is wrong cannot be read.      *)
InspectAgain(d) ==
    /\ Doing(d, "begun") /\ Passes(shelf[drill[d].file.name]) /\ testFiles = NoArchive
    /\ Advance(d, "extract", drill[d].file)
    /\ UNCHANGED <<Live, testRows, testFiles>>

Extract(d) ==
    LET file == shelf[drill[d].file.name] IN
    /\ Doing(d, "extract") /\ Passes(file)
    /\ Advance(d, "place", file)
    /\ UNCHANGED <<Live, testRows, testFiles>>

(* A target that is not empty any more cannot be removed.                  *)
PlaceAnyway(d) ==
    /\ Doing(d, "place")
    /\ testFiles' = drill[d].file /\ Advance(d, "restore", NoArchive)
    /\ UNCHANGED <<Live, testRows>>

PlaceFiles(d) ==
    /\ Doing(d, "place") /\ testFiles = NoArchive
    /\ testFiles' = drill[d].file /\ Advance(d, "restore", NoArchive)
    /\ UNCHANGED <<Live, testRows>>

(* pg_restore in one transaction: all the tables, or an error and none.    *)
RestoreInParts(d) ==
    /\ Doing(d, "restore") /\ testRows = NoArchive
    /\ testRows' \in {testFiles, [testFiles EXCEPT !.rows = {}]} /\ Advance(d, "idle", NoArchive)
    /\ UNCHANGED <<Live, testFiles>>

RestoreRows(d) ==
    /\ Doing(d, "restore") /\ testRows = NoArchive
    /\ testRows' = testFiles /\ Advance(d, "idle", NoArchive)
    /\ UNCHANGED <<Live, testFiles>>

AbandonDrill(d) ==
    /\ ~Doing(d, "idle") /\ Advance(d, "idle", NoArchive)
    /\ UNCHANGED <<Live, testRows, testFiles>>

(* The operator throws both away between two drills.                       *)
Dispose ==
    /\ \A d \in Drills : Doing(d, "idle")
    /\ testRows # NoArchive \/ testFiles # NoArchive
    /\ testRows' = NoArchive /\ testFiles' = NoArchive
    /\ UNCHANGED <<Live, drill>>

NextSystemArchive ==
    \/ Serve \/ StopServing
    \/ \E i \in Assets : WriteContent(i) \/ WriteRow(i) \/ RemoveRow(i) \/ RemoveContent(i)
    \/ \E c \in Commits : MoveHead(c)
    \/ EditWorktree \/ EditConfig
    \/ \E o \in Outputs : BeginArchive(o) \/ RemoveArchive(o) \/ DamageArchive(o)
    \/ CheckRevision \/ DumpRows \/ BundleRepository \/ CheckAgain \/ CheckRevisionAgain
    \/ StageFiles \/ Pack \/ InspectPacked \/ LinkArchive \/ AbandonArchive
    \/ \E d \in Drills, o \in Outputs : BeginDrill(d, o)
    \/ \E d \in Drills : InspectAgain(d) \/ Extract(d) \/ PlaceFiles(d) \/ RestoreRows(d)
                           \/ AbandonDrill(d)
    \/ Dispose

SystemArchiveSpec == InitSystemArchive /\ [][NextSystemArchive]_archiveVars

-----------------------------------------------------------------------------
(* Properties.                                                             *)

(* An archive under its final name is whole and can be restored: every row *)
(* of its dump finds its content, its bundle has the commit it names, and  *)
(* no credential is in it, whatever was edited while it was made; and the  *)
(* revision of its database is that of the commit, if the repository was   *)
(* left alone (system_archive.py create, _create_offline).                 *)
WholeArchive(file) ==
    /\ file.intact /\ file.rows \subseteq file.files
    /\ Asked.commit \in file.heads /\ file.revisions = {Asked.revision}
    /\ ~file.moved => Migration[Asked.commit] = Asked.revision
    /\ file.config = "plain"

(* A drill leaves the database as it was, or as the archive in its target  *)
(* has it, never a part of it or the rows of one archive with the files of *)
(* another (system_archive.py restore_files, restore_command).             *)
DrillIsWhole == testRows # NoArchive => testRows = testFiles /\ WholeArchive(testRows)

ArchivesAreSound ==
    /\ \A o \in Outputs : shelf[o] # NoArchive => WholeArchive(shelf[o])
    /\ DrillIsWhole

=============================================================================
