------------------------------ MODULE Maintenance ------------------------------
(***************************************************************************)
(* Offline maintenance (core/maintenance.py): the system archive, and the  *)
(* relocation of response receipts after the database got a new address,   *)
(* against live applications.                                              *)
(*                                                                         *)
(* An application holds the lease of its data directory while it lives,    *)
(* and one of them the generation lock of the database.  A tool takes the  *)
(* leases it needs, then, in one transaction, the generation lock and      *)
(* SHARE locks on all tables, and keeps them until its files are written.  *)
(* An application on another data directory is kept out by the database    *)
(* only: it may start, poll, and wait to write.                            *)
(***************************************************************************)
EXTENDS Naturals, FiniteSets

CONSTANTS
    Roots,          \* data directories
    Servers,        \* applications, each with a journal of its own
    Home,           \* Home[s]: the data directory of s
    Archived,       \* the directory the archive tool is called with
    Before, After,  \* the servers whose journals a relocation copies from and to
    Calls,          \* paid model calls
    Stranded,       \* those whose answers a dead server left in the first journal
    Jobs,           \* local tasks
    MaxAccidents,   \* search bound: deaths and lost database connections
    Nobody

ASSUME MaintenanceAssumption ==
    /\ Home \in [Servers -> Roots] /\ Archived \in Roots
    /\ {Before, After} \subseteq Servers /\ Before # After
    /\ Stranded \subseteq Calls
    /\ Servers \cap {"archive", "relocate", Nobody} = {}
    /\ Nobody \notin {"archive", "relocate"}
    /\ MaxAccidents \in Nat

VARIABLES
    lease,          \* storage_lease of each directory
    lock,           \* who holds the generation lock
    up,             \* applications that run
    row,            \* generation_calls
    sender,         \* the application that waits for the answer of a call
    job,            \* local_tasks
    receipt,        \* response journal of each server
    tool,           \* what each tool is doing
    accidents

maintenanceVars == <<lease, lock, up, row, sender, job, receipt, tool, accidents>>

Tools    == {"archive", "relocate"}
Inactive == [pc |-> "idle"]
Needed(t) == IF t = "archive" THEN {Archived} ELSE {Home[Before], Home[After]}

RowStates == {"none", "executing", "unknown", "saved"}
JobStates == {"none", "queued", "ended"}

MaintenanceTypeOK ==
    /\ lease \in [Roots -> Servers \cup Tools \cup {Nobody}]
    /\ lock \in Servers \cup Tools \cup {Nobody}
    /\ up \subseteq Servers /\ \A s \in up : lease[Home[s]] = s
    /\ row \in [Calls -> RowStates] /\ job \in [Jobs -> JobStates]
    /\ sender \in [Calls -> Servers \cup {Nobody}]
    /\ receipt \in [Servers -> SUBSET Calls]
    /\ \A t \in Tools : lock = t => \A r \in Needed(t) : lease[r] = t

InitMaintenance ==
    /\ lease = [r \in Roots |-> Nobody] /\ lock = Nobody /\ up = {}
    /\ row = [c \in Calls |-> IF c \in Stranded THEN "unknown" ELSE "none"]
    /\ sender = [c \in Calls |-> Nobody]
    /\ job = [j \in Jobs |-> "none"]
    /\ receipt = [s \in Servers |-> IF s = Before THEN Stranded ELSE {}]
    /\ tool = [t \in Tools |-> Inactive]
    /\ accidents = 0

database == <<row, job>>

-----------------------------------------------------------------------------
(* Applications.                                                           *)

(* SHARE locks keep every writer waiting, whatever directory it lives on.  *)
WritableAlways == TRUE
Writable       == lock \notin Tools

StartServer(s) ==
    /\ s \notin up /\ lease[Home[s]] = Nobody
    /\ lease' = [lease EXCEPT ![Home[s]] = s] /\ up' = up \cup {s}
    /\ UNCHANGED <<lock, database, sender, receipt, tool, accidents>>

Waiting(s) == \E c \in Calls : sender[c] = s

Gone(s) ==
    /\ lease' = [lease EXCEPT ![Home[s]] = Nobody] /\ up' = up \ {s}
    /\ lock' = IF lock = s THEN Nobody ELSE lock
    /\ sender' = [c \in Calls |-> IF sender[c] = s THEN Nobody ELSE sender[c]]
    /\ UNCHANGED <<database, receipt, tool>>

StopServer(s) ==
    /\ s \in up /\ ~Waiting(s) /\ Gone(s)
    /\ UNCHANGED accidents

Accident == accidents < MaxAccidents /\ accidents' = accidents + 1

KillServer(s) == s \in up /\ Accident /\ Gone(s)

(* Its connection is lost and the lock with it; the server runs on.        *)
LoseConnection(s) ==
    /\ lock = s /\ Accident
    /\ lock' = Nobody
    /\ UNCHANGED <<lease, up, database, sender, receipt, tool>>

(* The new owner settles the calls nobody of its own waits for; the journal *)
(* of another directory is not in its sight.                               *)
TakeOwnership(s) ==
    /\ s \in up /\ lock = Nobody /\ ~Waiting(s)
    /\ lock' = s
    /\ row' = [c \in Calls |-> IF row[c] = "executing" THEN "unknown" ELSE row[c]]
    /\ UNCHANGED <<lease, up, sender, job, receipt, tool, accidents>>

SendRequest(s, c) ==
    /\ lock = s /\ row[c] = "none"
    /\ row' = [row EXCEPT ![c] = "executing"] /\ sender' = [sender EXCEPT ![c] = s]
    /\ UNCHANGED <<lease, lock, up, job, receipt, tool, accidents>>

(* The answer is written to the journal before anything else.  The task    *)
(* that waited for it saves it and drops the receipt, whoever owns the     *)
(* lock by then; after a failure this is left to the owner's recovery.     *)
WriteReceipt(s, c) ==
    /\ sender[c] = s /\ c \notin receipt[s]
    /\ receipt' = [receipt EXCEPT ![s] = @ \cup {c}]
    /\ UNCHANGED <<lease, lock, up, database, sender, tool, accidents>>

Attends(s, c) == c \in receipt[s] /\ s \in {lock, sender[c]}

SaveAnswer(s, c) ==
    /\ Attends(s, c) /\ Writable /\ row[c] \in {"executing", "unknown"}
    /\ row' = [row EXCEPT ![c] = "saved"]
    /\ UNCHANGED <<lease, lock, up, sender, job, receipt, tool, accidents>>

DropReceipt(s, c) ==
    /\ Attends(s, c) /\ row[c] = "saved"
    /\ receipt' = [receipt EXCEPT ![s] = @ \ {c}]
    /\ sender' = [sender EXCEPT ![c] = Nobody]
    /\ UNCHANGED <<lease, lock, up, database, tool, accidents>>

GiveUp(s, c) ==
    /\ sender[c] = s /\ c \in receipt[s]
    /\ sender' = [sender EXCEPT ![c] = Nobody]
    /\ UNCHANGED <<lease, lock, up, database, receipt, tool, accidents>>

(* Local tasks need no generation lock.                                    *)
QueueJob(s, j) ==
    /\ s \in up /\ Writable /\ job[j] = "none"
    /\ job' = [job EXCEPT ![j] = "queued"]
    /\ UNCHANGED <<lease, lock, up, row, sender, receipt, tool, accidents>>

EndJob(s, j) ==
    /\ s \in up /\ Writable /\ job[j] = "queued"
    /\ job' = [job EXCEPT ![j] = "ended"]
    /\ UNCHANGED <<lease, lock, up, row, sender, receipt, tool, accidents>>

-----------------------------------------------------------------------------
(* The guards of a tool.                                                   *)

FreeTargetOnly(t) == lease[IF t = "archive" THEN Archived ELSE Home[After]] = Nobody
Free(t)           == \A r \in Needed(t) : lease[r] = Nobody

Lease(t) ==
    /\ tool[t].pc = (IF t = "archive" THEN "idle" ELSE "planned") /\ Free(t)
    /\ lease' = [r \in Roots |-> IF r \in Needed(t) THEN t ELSE lease[r]]
    /\ tool' = [tool EXCEPT ![t].pc = "leased"]
    /\ UNCHANGED <<lock, up, database, sender, receipt, accidents>>

ReleaseLeases(t) ==
    /\ lease' = [r \in Roots |-> IF lease[r] = t THEN Nobody ELSE lease[r]]
    /\ lock' = lock
    /\ tool' = [tool EXCEPT ![t] = Inactive]

Release(t) ==
    /\ lease' = [r \in Roots |-> IF lease[r] = t THEN Nobody ELSE lease[r]]
    /\ lock' = IF lock = t THEN Nobody ELSE lock
    /\ tool' = [tool EXCEPT ![t] = Inactive]

Active == (\E c \in Calls : row[c] = "executing") \/ (\E j \in Jobs : job[j] = "queued")

ProceedsIfFree(t) == lock = Nobody
Proceeds(t)       == lock = Nobody /\ (t = "archive" => ~Active)

Freeze(t) ==
    /\ tool[t].pc = "leased" /\ Proceeds(t)
    /\ lock' = t /\ tool' = [tool EXCEPT ![t].pc = "frozen"]
    /\ UNCHANGED <<lease, up, database, sender, receipt, accidents>>

Refuse(t) ==
    /\ tool[t].pc = "leased" /\ ~Proceeds(t) /\ Release(t)
    /\ UNCHANGED <<up, database, sender, receipt, accidents>>

KillTool(t) ==
    /\ tool[t] # Inactive /\ Accident /\ Release(t)
    /\ UNCHANGED <<up, database, sender, receipt>>

-----------------------------------------------------------------------------
(* The archive: rows, then files, then the finished file under its name.   *)

ThawedByDump == Nobody
FrozenByDump == lock

DumpDatabase ==
    /\ tool["archive"].pc = "frozen"
    /\ tool' = [tool EXCEPT !["archive"] = [pc |-> "dumped", rows |-> row, jobs |-> job]]
    /\ lock' = FrozenByDump
    /\ UNCHANGED <<lease, up, database, sender, receipt, accidents>>

(* What a dump and a copy of the files made now would restore.             *)
Dump         == tool["archive"]
CopiedFiles  == UNION {receipt[s] : s \in {x \in Servers : Home[x] = Archived}}

FinishArchive ==
    /\ Dump.pc = "dumped" /\ Release("archive")
    /\ UNCHANGED <<up, database, sender, receipt, accidents>>

-----------------------------------------------------------------------------
(* The relocation: a plan is approved as previewed, and computed again     *)
(* under the guards.  A receipt whose call was settled otherwise stops it. *)

Bound(c)  == row[c] \in {"executing", "unknown", "saved"}
Preview   == receipt[Before]

PlanRelocation ==
    /\ tool["relocate"] = Inactive /\ Preview # {} /\ \A c \in Preview : Bound(c)
    /\ tool' = [tool EXCEPT !["relocate"] = [pc |-> "planned", seen |-> Preview]]
    /\ UNCHANGED <<lease, lock, up, database, sender, receipt, accidents>>

CheckPlan ==
    /\ tool["relocate"].pc = "frozen"
    /\ IF tool["relocate"].seen = Preview /\ \A c \in Preview : Bound(c)
       THEN /\ tool' = [tool EXCEPT !["relocate"].pc = "copying"]
            /\ UNCHANGED <<lease, lock>>
       ELSE Release("relocate")
    /\ UNCHANGED <<up, database, sender, receipt, accidents>>

CopyReceipt(c) ==
    /\ tool["relocate"].pc = "copying" /\ c \in tool["relocate"].seen \ receipt[After]
    /\ receipt' = [receipt EXCEPT ![After] = @ \cup {c}]
    /\ UNCHANGED <<lease, lock, up, database, sender, tool, accidents>>

Copied == tool["relocate"].pc = "copying" /\ tool["relocate"].seen \subseteq receipt[After]

FinishRelocation ==
    /\ Copied /\ Release("relocate")
    /\ UNCHANGED <<up, database, sender, receipt, accidents>>

NextMaintenance ==
    \/ \E s \in Servers : StartServer(s) \/ StopServer(s) \/ KillServer(s)
                          \/ LoseConnection(s) \/ TakeOwnership(s)
    \/ \E s \in Servers, c \in Calls : SendRequest(s, c) \/ WriteReceipt(s, c)
                          \/ SaveAnswer(s, c) \/ DropReceipt(s, c) \/ GiveUp(s, c)
    \/ \E s \in Servers, j \in Jobs : QueueJob(s, j) \/ EndJob(s, j)
    \/ \E t \in Tools : Lease(t) \/ Freeze(t) \/ Refuse(t) \/ KillTool(t)
    \/ DumpDatabase \/ FinishArchive
    \/ PlanRelocation \/ CheckPlan \/ FinishRelocation
    \/ \E c \in Calls : CopyReceipt(c)

MaintenanceSpec == InitMaintenance /\ [][NextMaintenance]_maintenanceVars

-----------------------------------------------------------------------------
(* Properties.                                                             *)

(* When a relocation reports that it has copied the receipts, no paid      *)
(* answer is left that only the old journal has, however many servers were *)
(* up when it was previewed (response_migration.py apply_migration).       *)
RelocationComplete == Copied => receipt[Before] \subseteq receipt[After]

(* An archive holds no work under way, although applications on other      *)
(* directories live and queue tasks while it is written; and whenever it   *)
(* copies its files, every answer in the database is in the dump or, as a  *)
(* receipt, in the files: no answer is saved, and no receipt goes, between *)
(* the two (maintenance.py offline_database).                              *)
BackupIsIdle ==
    /\ \A c \in Calls : Dump.rows[c] # "executing"
    /\ \A j \in Jobs : Dump.jobs[j] # "queued"

BackupHasAnswers ==
    \A c \in Calls : row[c] = "saved" /\ c \notin CopiedFiles => Dump.rows[c] = "saved"

BackupIsWhole == Dump.pc = "dumped" => BackupIsIdle /\ BackupHasAnswers

(* The two tools that run while the application may: nothing paid for is   *)
(* lost by a relocation or missing in an archive.                          *)
OfflineToolsAreSafe == RelocationComplete /\ BackupIsWhole

=============================================================================
