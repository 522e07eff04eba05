------------------------------- MODULE Proxy -------------------------------
(***************************************************************************)
(* SyncMaxScale and its teardown, the connection details StatusMariaDB     *)
(* publishes once the servers and the proxy are ready, and the order in    *)
(* which CleanupMariaDB asks for deletions.                                *)
(*                                                                         *)
(* The details are read from Secrets the operator writes.  New watches no  *)
(* Secret: one that arrives queues nothing, and what it completes is only  *)
(* seen by a reconcile that something else asks for.                       *)
(***************************************************************************)
EXTENDS InstanceSync

VARIABLES
    mxs,         \* the MaxScale resource
    mxsCache,    \* and as the informer shows it
    published,   \* the connection details the owner sees
    secrets,     \* what a read of the operator's Secrets finds
    news         \* a Secret was written, and word of it is still on its way

secretVars == <<secrets, news>>
proxyVars == <<mxs, mxsCache, published, secretVars>>

MaxScale == [tls : BOOLEAN, ready : BOOLEAN, deleting : BOOLEAN]

\* userSecretName, and tlsCABundleSecretName of the MariaDB and the MaxScale.
Secret == {"credentials", "engineCA", "proxyCA"}

\* Where clients are sent and whether they are given a CA to verify it with.
Details == [host : {"engine", "proxy"}, tls : BOOLEAN]

ASSUME ProxyAssumption == Absent \notin MaxScale \cup Details

ProxyTypeOK ==
    /\ mxs \in MaxScale \cup {Absent} /\ mxsCache \in MaxScale \cup {Absent}
    /\ published \in Details \cup {Absent}
    /\ secrets \subseteq Secret /\ news \in BOOLEAN

ProxyInit ==
    /\ mxs = Absent /\ mxsCache = Absent /\ published = Absent
    /\ secrets = (IF env.legacy THEN {"credentials"} ELSE {}) /\ news = FALSE

\* MaxScale only accepts TLS clients once TLS is on, so it is on when required.
ProxyTLS(s) == s.tls = "required"

-----------------------------------------------------------------------------
\* tls is always declared, so it does not matter here who owned it before;
\* that migrateFieldOwnership may be refused is a SyncFails.
ApplyMaxScale ==
    /\ pc = "maxscale" /\ snap.proxy
    /\ mxs' = IF mxs = Absent
              THEN [tls |-> ProxyTLS(snap), ready |-> FALSE, deleting |-> FALSE]
              ELSE [mxs EXCEPT !.tls = ProxyTLS(snap)]
    /\ Continue("monitor")
    /\ UNCHANGED <<syncVars, engineVars, mxsCache, published, secretVars>>

\* The CA bundle of a MaxScale goes with the MaxScale that owns it.
ProxySecrets == IF mxs' = Absent THEN secrets \ {"proxyCA"} ELSE secrets

\* teardownMaxScale: an error when what it saw is gone.
TeardownMaxScale(next) ==
    /\ Fresh(mxsCache, mxs)
    /\ LET seen == mxsCache # Absent /\ ~mxsCache.deleting
       IN  /\ mxs' = IF seen /\ mxs # Absent THEN AfterDelete(mxs) ELSE mxs
           /\ IF seen /\ mxs = Absent THEN Retry ELSE Continue(next)
    /\ secrets' = ProxySecrets
    /\ UNCHANGED <<syncVars, engineVars, mxsCache, published, news>>

DisableProxy == pc = "maxscale" /\ ~snap.proxy /\ TeardownMaxScale("monitor")

SyncMaxScale == ApplyMaxScale \/ DisableProxy

\* variant: the servers are asked to go first
CleanupProxySkipped ==
    /\ pc = "cleanupProxy" /\ Continue("cleanupEngine")
    /\ UNCHANGED <<syncVars, engineVars, proxyVars>>

CleanupProxy == pc = "cleanupProxy" /\ TeardownMaxScale("cleanupEngine")

-----------------------------------------------------------------------------
(* StatusMariaDB and buildConnectionDetails. *)

\* Clients of the proxy follow what MaxScale is configured to do, clients of
\* the engine what the Instance asks for.
ClientTLS == IF snap.proxy THEN mxsCache.tls ELSE snap.tls # "off"

NeededSecrets ==
    {"credentials"}
    \cup (IF ClientTLS THEN {IF snap.proxy THEN "proxyCA" ELSE "engineCA"} ELSE {})

\* A Secret that is missing is no error: the Instance stays in Provisioning.
ConnectionDetails ==
    IF NeededSecrets \subseteq secrets
    THEN [host |-> IF snap.proxy THEN "proxy" ELSE "engine", tls |-> ClientTLS]
    ELSE Absent

ReadyMaxScale == mxsCache # Absent /\ mxsCache.ready

ReportStatus ==
    /\ pc = "status" /\ Fresh(mdbCache, mdb) /\ Fresh(mxsCache, mxs)
    /\ published' = IF /\ mdbCache # Absent /\ mdbCache.ready
                       /\ snap.proxy => ReadyMaxScale
                    THEN ConnectionDetails ELSE Absent
    /\ Continue("idle")
    /\ UNCHANGED <<syncVars, engineVars, mxs, mxsCache, secretVars>>

-----------------------------------------------------------------------------
(* The operator and the API machinery. *)

ProxyProgresses ==
    /\ mxs # Absent /\ ~mxs.deleting /\ ~mxs.ready /\ mdb # Absent /\ mdb.ready
    /\ mxs' = [mxs EXCEPT !.ready = TRUE]
    /\ UNCHANGED <<syncVars, flow, engineVars, mxsCache, published, secretVars>>

\* What asks for a Secret.
Due(k) ==
    CASE k = "credentials" -> mdb # Absent /\ ~mdb.deleting
      [] k = "engineCA" -> mdb # Absent /\ ~mdb.deleting /\ mdb.tls # "off"
      [] k = "proxyCA" -> mxs # Absent /\ ~mxs.deleting /\ mxs.tls

\* Before or after the resource that asks for it is ready.
IssueSecret(k) ==
    /\ Due(k) /\ k \notin secrets
    /\ secrets' = secrets \cup {k} /\ news' = (news \/ env.announces)
    /\ UNCHANGED <<syncVars, flow, engineVars, mxs, mxsCache, published>>

\* The operator's status of a watched resource moves with its Secrets, or the
\* runtime asks again by itself; not a watch of New.
SecretEvent ==
    /\ news
    /\ news' = FALSE /\ queued' = TRUE
    /\ UNCHANGED <<syncVars, pc, engineVars, mxs, mxsCache, published, secrets>>

\* Finalizers are done, or MaxScale went with the Instance that owns it.
FinalizeProxy ==
    /\ mxs # Absent /\ (mxs.deleting \/ pc = "gone")
    /\ mxs' = Absent /\ secrets' = ProxySecrets
    /\ UNCHANGED <<syncVars, flow, engineVars, mxsCache, published, news>>

\* variant: MaxScale is not watched
ProxyEventUnwatched ==
    /\ mxsCache # mxs
    /\ mxsCache' = mxs
    /\ UNCHANGED <<syncVars, flow, engineVars, mxs, published, secretVars>>

\* WatchOwned(MaxScale).
ProxyEvent ==
    /\ mxsCache # mxs
    /\ mxsCache' = mxs /\ queued' = TRUE
    /\ UNCHANGED <<syncVars, pc, engineVars, mxs, published, secretVars>>
=============================================================================
