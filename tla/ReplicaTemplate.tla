-------------------------- MODULE ReplicaTemplate --------------------------
(***************************************************************************)
(* SyncReplicaTemplate: the suspended PhysicalBackup from which the        *)
(* operator clones new replicas.  The MariaDB resource refers to it by     *)
(* name (staged) and is applied before it.  Nothing watches it.            *)
(***************************************************************************)
EXTENDS InstanceSync

VARIABLES
    tpl,        \* the template
    tplCache    \* and as the informer shows it

templateVars == <<tpl, tplCache>>

Template == [storage : Storage, deleting : BOOLEAN]

ASSUME TemplateAssumption == Absent \notin Template

TemplateTypeOK == tpl \in Template \cup {Absent} /\ tplCache \in Template \cup {Absent}

TemplateInit == tpl = Absent /\ tplCache = Absent

\* The Instance offers no storage: delete, whether or not there is one.
DropTemplate ==
    /\ pc = "template" /\ snap.storage = NoStorage
    /\ tpl' = IF tpl = Absent THEN Absent ELSE AfterDelete(tpl)
    /\ Continue("maxscale")
    /\ UNCHANGED <<syncVars, engineVars, tplCache>>

\* No MariaDB resource seen yet: nothing can own the template.
SkipTemplate ==
    /\ pc = "template" /\ snap.storage # NoStorage
    /\ Fresh(mdbCache, mdb) /\ mdbCache = Absent
    /\ Continue("maxscale")
    /\ UNCHANGED <<syncVars, engineVars, templateVars>>

TemplateStep ==
    /\ pc = "template" /\ snap.storage # NoStorage
    /\ Fresh(mdbCache, mdb) /\ mdbCache # Absent
    /\ UNCHANGED <<syncVars, engineVars, tplCache>>

\* buildOperatorS3 finds no BackupStorage.
StorageMissing ==
    /\ TemplateStep /\ snap.storage \in env.missing
    /\ Retry
    /\ UNCHANGED tpl

\* The storage is immutable: delete now, create in the next reconcile.
RecreateTemplate ==
    /\ TemplateStep /\ snap.storage \notin env.missing
    /\ Fresh(tplCache, tpl)
    /\ tplCache # Absent /\ tplCache.storage # snap.storage
    /\ tpl' = IF tpl = Absent THEN Absent ELSE AfterDelete(tpl)
    /\ Retry

\* variant: the storage of an existing template is not compared
KeepAnyTemplate ==
    /\ TemplateStep /\ snap.storage \notin env.missing
    /\ Fresh(tplCache, tpl)
    /\ IF tplCache = Absent /\ tpl = Absent
       THEN tpl' = [storage |-> snap.storage, deleting |-> FALSE]
       ELSE UNCHANGED tpl
    /\ IF tplCache = Absent /\ tpl # Absent THEN Retry ELSE Continue("maxscale")

\* CreateOrUpdate: one that was there and is not seen is an error, one that
\* is seen has nothing left to update.
KeepTemplate ==
    /\ TemplateStep /\ snap.storage \notin env.missing
    /\ Fresh(tplCache, tpl)
    /\ tplCache # Absent => tplCache.storage = snap.storage
    /\ IF tplCache = Absent /\ tpl = Absent
       THEN tpl' = [storage |-> snap.storage, deleting |-> FALSE]
       ELSE UNCHANGED tpl
    /\ IF tplCache = Absent /\ tpl # Absent THEN Retry ELSE Continue("maxscale")

SyncReplicaTemplate ==
    \/ DropTemplate \/ SkipTemplate \/ StorageMissing
    \/ RecreateTemplate \/ KeepTemplate

\* Finalizers are done, or the template went with the MariaDB that owns it.
FinalizeTemplate ==
    /\ tpl # Absent /\ (tpl.deleting \/ mdb = Absent)
    /\ tpl' = Absent
    /\ UNCHANGED <<syncVars, flow, engineVars, tplCache>>

TemplateCached ==
    /\ tplCache # tpl
    /\ tplCache' = tpl
    /\ UNCHANGED <<syncVars, flow, engineVars, tpl>>
=============================================================================
