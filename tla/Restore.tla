------------------------------ MODULE Restore ------------------------------
(***************************************************************************)
(* Backup and restore of an instance (cmd/web/backup.go, restore.go).      *)
(*                                                                         *)
(* A backup streams the allowlisted tables one after the other, each with  *)
(* a query of its own, while the instance goes on writing.  A restore is   *)
(* a pre-flight that stages the archive for the admin who uploaded it, and *)
(* an apply that replaces the whole content in one transaction: truncate,  *)
(* replay the rows in the archive's order under the schema's foreign keys, *)
(* drop the keys and sessions, resync the sequences, record the act last.  *)
(* A row is its table, its id and the rows its foreign keys name; what     *)
(* else it holds is dropped, but for a prober's pinned key and the secrets *)
(* a row may carry.                                                        *)
(***************************************************************************)
EXTENDS Naturals, Sequences, FiniteSets, SequencesExt

CONSTANTS
    Used,          \* the tables this instance writes
    Admin,         \* who may restore
    MaxId,         \* bound: ids a sequence hands out
    MaxRows,       \* bound: rows the handlers have written at once
    MaxRestores,   \* bound: archives applied
    WritesInDump,  \* whether the instance writes while a backup streams
    OlderArchives  \* whether archives of a build without the act table are kept

ASSUME RestoreAssumption == "act" \in Used /\ MaxId \in Nat

VARIABLES
    rows,      \* the business tables' rows
    seq,       \* the sequence behind each table's id
    epoch,     \* which content each act belongs to: 0, or the restore that began it
    running,   \* is a dispatch in flight
    dump,      \* the backup being streamed
    saved,     \* the archive the operator keeps
    staged,    \* what each admin has pre-flighted
    applying,  \* the archive of each apply that has passed its checks
    restores,  \* restores applied
    verdict    \* what the last apply answered

restoreVars == <<rows, seq, epoch, running, dump, saved, staged, applying, restores, verdict>>

NoArchive == [tables |-> <<>>, rows |-> <<>>]

\* The allowlist, in the order it is streamed and replayed.
backupTables == <<
    "account", "instance_config", "retention_settings", "seed", "exclusion",
    "cold_scan_scope", "zone_file", "admitted_name", "source_state", "vantage",
    "scan", "dispatch", "batch", "edge_fanout_observation", "certificate_material",
    "observation", "span", "seed_withdrawal", "verge_core_frequency_edit",
    "signal_instance", "annotation", "proposer_lookup", "proposal",
    "integration_state", "channel", "delivery", "message", "message_read",
    "report_schedule", "report_delivery", "report_notification", "personal_token",
    "sso_provider", "sso_identity", "act">>

\* The foreign keys a row of each table always carries (NOT NULL ... REFERENCES).
Parents(t) ==
    CASE t = "cold_scan_scope" -> {"seed"}
      [] t = "zone_file" -> {"seed"}
      [] t = "admitted_name" -> {"seed", "batch"}
      [] t = "dispatch" -> {"scan"}
      [] t = "batch" -> {"scan"}
      [] t \in {"edge_fanout_observation", "observation"} -> {"batch"}
      [] t = "proposal" -> {"proposer_lookup"}
      [] t = "delivery" -> {"message", "channel"}
      [] t = "message_read" -> {"account", "message"}
      [] t = "report_delivery" -> {"report_schedule"}
      [] t = "report_notification" -> {"report_delivery", "channel"}
      [] t = "personal_token" -> {"account"}
      [] t = "sso_identity" -> {"sso_provider", "account"}
      [] OTHER -> {}

\* The ones it may carry (a nullable column).
MayCite(t) ==
    CASE t = "batch" -> {"dispatch", "vantage"}
      [] t = "observation" -> {"vantage"}
      [] t = "span" -> {"vantage", "batch"}
      [] t = "message" -> {"batch"}
      [] t = "proposal" -> {"seed"}
      [] t = "report_schedule" -> {"account", "channel"}
      [] t = "integration_state" -> {"channel"}
      [] t = "exclusion" -> {"account", "proposal"}
      [] t = "seed_withdrawal" -> {"account", "batch"}
      [] t \in {"seed", "vantage", "verge_core_frequency_edit", "cold_scan_scope", "zone_file",
                "channel", "retention_settings", "proposer_lookup", "sso_provider",
                "instance_config"} -> {"account"}
      [] OTHER -> {}

\* The foreign keys of the tables this instance writes.
Owed == [t \in Used |-> Parents(t) \cap Used]
Columns == [t \in Used |-> Parents(t) \cup MayCite(t)]

Streams == SelectSeq(backupTables, LAMBDA t : t \in Used)
RowsOf(R, t) == {r \in R : r.table = t}
Key(r) == <<r.table, r.id>>
Held(R, cited) == cited \subseteq {Key(r) : r \in R}

RestoreInit ==
    /\ rows = {}
    /\ seq = [t \in Used |-> 0]
    /\ epoch = [i \in {} |-> 0]
    /\ running = FALSE
    /\ dump = NoArchive
    /\ saved = NoArchive
    /\ staged = [a \in Admin |-> NoArchive]
    /\ applying = [a \in Admin |-> NoArchive]
    /\ restores = 0
    /\ verdict = "none"

-----------------------------------------------------------------------------
(* The instance at work: any handler's insert, whose foreign keys hold, and *)
(* a prober that is provisioned.                                            *)

Streaming == dump # NoArchive

Redacted == {"account", "channel", "sso_provider"}

Row(t, i, cited) ==
    [table |-> t, id |-> i, cites |-> cited, secret |-> t \in Redacted, avail |-> "pending"]

InsertRow(t, cited) ==
    /\ Streaming => WritesInDump
    /\ seq[t] < MaxId /\ Cardinality(rows) < MaxRows
    /\ Held(rows, cited)
    /\ \A p \in Owed[t] : \E k \in cited : k[1] = p
    /\ \A k \in cited : k[1] \in Columns[t]
    /\ \A j, k \in cited : j[1] = k[1] => j = k
    /\ rows' = rows \cup {Row(t, seq[t] + 1, cited)}
    /\ seq' = [seq EXCEPT ![t] = @ + 1]
    /\ epoch' = IF t # "act" THEN epoch
                ELSE [i \in DOMAIN epoch \cup {seq[t] + 1} |-> IF i = seq[t] + 1 THEN restores ELSE epoch[i]]
    /\ UNCHANGED <<running, dump, saved, staged, applying, restores, verdict>>

\* A prober answers under its pinned host key and becomes available.
PinProber(r) ==
    /\ r \in RowsOf(rows, "vantage") /\ r.avail # "available"
    /\ Streaming => WritesInDump
    /\ rows' = (rows \ {r}) \cup {[r EXCEPT !.secret = TRUE, !.avail = "available"]}
    /\ UNCHANGED <<seq, epoch, running, dump, saved, staged, applying, restores, verdict>>

ToggleDispatch ==
    /\ running' = ~running
    /\ UNCHANGED <<rows, seq, epoch, dump, saved, staged, applying, restores, verdict>>

-----------------------------------------------------------------------------
(* Backup. *)

\* Reversible secrets stay behind; a vantage's keys are dropped by the replay.
redactBackupRow(r) == IF r.table \in Redacted THEN [r EXCEPT !.secret = FALSE] ELSE r

\* One query per table, in the allowlist's order; an older build knew no act.
dumpBackupTable(t) ==
    [dump EXCEPT !.tables = Append(@, t),
                 !.rows = @ \o SetToSeq({redactBackupRow(r) : r \in RowsOf(rows, t)})]

streamBackup ==
    /\ Len(dump.tables) < Len(Streams)
    /\ restores < MaxRestores
    /\ dump' = dumpBackupTable(Streams[Len(dump.tables) + 1])
    /\ UNCHANGED <<rows, seq, epoch, running, saved, staged, applying, restores, verdict>>

\* The stream has ended, with every table or, from an older build, before act.
backupDownload ==
    /\ \/ dump.tables = Streams
       \/ OlderArchives /\ Append(dump.tables, "act") = Streams
    /\ saved' = dump
    /\ dump' = NoArchive
    /\ UNCHANGED <<rows, seq, epoch, running, staged, applying, restores, verdict>>

-----------------------------------------------------------------------------
(* Restore. *)

backupTable == Range(backupTables)
backupAllowed(t) == t \in backupTable
preflightArchive(a) == \A i \in DOMAIN a.tables : backupAllowed(a.tables[i])

\* The upload is staged for its admin; sameSchema is the manifest's version
\* against the running one.
restorePreflight(a, sameSchema) ==
    /\ saved # NoArchive
    /\ LET refused == running \/ ~preflightArchive(saved) \/ ~sameSchema
       IN staged' = [staged EXCEPT ![a] = IF refused THEN NoArchive ELSE saved]
    /\ UNCHANGED <<rows, seq, epoch, running, dump, saved, applying, restores, verdict>>

\* Fifteen minutes pass.
StageExpires(a) ==
    /\ staged[a] # NoArchive
    /\ staged' = [staged EXCEPT ![a] = NoArchive]
    /\ UNCHANGED <<rows, seq, epoch, running, dump, saved, applying, restores, verdict>>

\* The apply's checks (a refused one changes nothing); the transaction is its own
\* step, and the instance moves between them.
restoreApply(a) ==
    /\ applying[a] = NoArchive
    /\ staged[a] # NoArchive /\ ~running
    /\ restores < MaxRestores
    /\ applying' = [applying EXCEPT ![a] = staged[a]]
    /\ UNCHANGED <<rows, seq, epoch, running, dump, saved, staged, restores, verdict>>

truncateTables(a) == Range(a.tables) \cup {"act"}

\* TRUNCATE ... CASCADE also empties every table that cites a truncated one.
Citing(T) == {t \in Used : Columns[t] \cap T # {}}
CascadeFrom ==
    [T \in SUBSET Used |-> {t \in Used : \A S \in SUBSET Used : T \cup Citing(S) \subseteq S => t \in S}]
Truncated(a) == CascadeFrom[truncateTables(a) \cap Used]

\* Row by row, each under the foreign keys of what is in the tables by then.
LoadsInOrder(a, kept) ==
    \A i \in DOMAIN a.rows :
        Held(kept \cup {a.rows[j] : j \in 1..i}, a.rows[i].cites)

\* An older archive may hold what is now redacted, and the keys a vantage was
\* archived with have no private half here.
resetProberKeys(r) ==
    [redactBackupRow(r) EXCEPT !.secret = FALSE, !.avail = IF @ = "available" THEN "pending" ELSE @]

\* The vantages that were available are marked unavailable, after the resync.
MarkReplayed(R) ==
    {[resetProberKeys(r) EXCEPT !.avail = IF r.avail = "available" THEN "unavailable" ELSE @] : r \in R}

MaxIdOf(R, t) ==
    IF RowsOf(R, t) = {} THEN 0
    ELSE CHOOSE i \in 1..MaxId : /\ \E r \in RowsOf(R, t) : r.id = i
                                 /\ \A r \in RowsOf(R, t) : r.id <= i
resyncIdentitySequences_Restarted(R) == [t \in Used |-> 0]
resyncIdentitySequences(R) == [t \in Used |-> MaxIdOf(R, t)]

\* The whole transaction: it commits with the act, or nothing moved.
replayArchive(a) ==
    LET emptied == Truncated(a)
        kept == {r \in rows : r.table \notin emptied}
        loaded == MarkReplayed(kept \cup Range(a.rows))
        ids == resyncIdentitySequences(loaded)
        break == Row("act", ids["act"] + 1, {})
        ok == /\ LoadsInOrder(a, kept)
              /\ Key(break) \notin {Key(r) : r \in loaded}
    IN \/ /\ ok /\ ids["act"] < MaxId
          /\ rows' = loaded \cup {break}
          /\ seq' = [ids EXCEPT !["act"] = @ + 1]
          /\ epoch' = [i \in {r.id : r \in RowsOf(rows', "act")} |->
                          IF i = break.id \/ \E r \in Range(a.rows) : Key(r) = <<"act", i>>
                          THEN restores + 1 ELSE epoch[i]]
          /\ restores' = restores + 1
          /\ verdict' = "restored"
       \/ /\ ~ok
          /\ verdict' = "apply"
          /\ UNCHANGED <<rows, seq, epoch, restores>>

applyRestore(a) ==
    /\ applying[a] # NoArchive
    /\ applying' = [applying EXCEPT ![a] = NoArchive]
    /\ replayArchive(applying[a])
    /\ staged' = [staged EXCEPT ![a] = IF verdict' = "restored" THEN NoArchive ELSE @]
    /\ UNCHANGED <<running, dump, saved>>

RestoreNext ==
    \/ \E t \in Used : \E cited \in SUBSET {Key(r) : r \in rows} : InsertRow(t, cited)
    \/ \E r \in rows : PinProber(r)
    \/ ToggleDispatch
    \/ streamBackup
    \/ backupDownload
    \/ \E a \in Admin, same \in BOOLEAN : restorePreflight(a, same)
    \/ \E a \in Admin : StageExpires(a) \/ restoreApply(a) \/ applyRestore(a)

RestoreSpec == RestoreInit /\ [][RestoreNext]_restoreVars

-----------------------------------------------------------------------------
\* No sequence falls behind the ids in its table, whatever was replayed over
\* it: the next insert of any handler, and of the restore's own act, is free
\* (resyncIdentitySequencesSQL).
SequencesAhead == \A r \in rows : r.id <= seq[r.table]

\* The act log tells one timeline: every act in it is the archive's, the
\* restore's or younger, also when the archive predates the act table
\* (truncateTables).
ActsOneTimeline == \A i \in DOMAIN epoch : epoch[i] = restores

\* An archive the backup wrote while nothing else wrote restores: the replay
\* in the allowlist's order meets no missing parent (backup.go, restore.go).
BackupRestores == verdict # "apply"

\* A restore leaves no half of the old instance: the sequences are the restored
\* rows' and the act log is one timeline (applyRestore).
RestoredWhole == SequencesAhead /\ ActsOneTimeline
=============================================================================
