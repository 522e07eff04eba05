---------------------------- MODULE ProviderSync ----------------------------
(***************************************************************************)
(* Sync, Status and Cleanup of provider.go from SyncMariaDB to             *)
(* SyncVMServiceScrape: one reconcile takes the steps of ReplicaTemplate,  *)
(* Proxy and Monitoring in turn and ends at the first error.  The steps    *)
(* that follow (scheduled backups, PITR, the data source) have modules of  *)
(* their own; here they are a failure before the status is reported.       *)
(***************************************************************************)
EXTENDS ReplicaTemplate, Proxy, Monitoring

vars == <<syncVars, flow, engineVars, templateVars, proxyVars, monitoringVars>>

TypeOK == SyncTypeOK /\ TemplateTypeOK /\ ProxyTypeOK /\ MonitoringTypeOK

Init == SyncInit /\ TemplateInit /\ ProxyInit /\ MonitoringInit

\* The calls of one reconcile.
SyncStep ==
    \/ /\ MigrateOwnership \/ ApplyMariaDB \/ CleanupEngine \/ ReleaseInstance
       /\ UNCHANGED <<templateVars, proxyVars, monitoringVars>>
    \/ SyncReplicaTemplate /\ UNCHANGED <<proxyVars, monitoringVars>>
    \/ /\ SyncMaxScale \/ ReportStatus \/ CleanupProxy
       /\ UNCHANGED <<templateVars, monitoringVars>>
    \/ SyncMonitoring /\ UNCHANGED <<templateVars, proxyVars>>

\* What the owner and the runtime do.
Runtime ==
    /\ \/ \E s \in Instance : UserEdit(s)
       \/ UserDelete \/ BeginSync \/ SyncFails
    /\ UNCHANGED <<templateVars, proxyVars, monitoringVars>>

\* What the operator, the converter, informers and the API server do.
EngineStep ==
    /\ EngineProgresses \/ FinalizeEngine \/ EngineEvent
    /\ UNCHANGED <<templateVars, proxyVars, monitoringVars>>

TemplateEnvStep ==
    /\ FinalizeTemplate \/ TemplateCached
    /\ UNCHANGED <<proxyVars, monitoringVars>>

ProxyEnvStep ==
    /\ \/ ProxyProgresses \/ FinalizeProxy \/ ProxyEvent
       \/ (\E k \in Secret : IssueSecret(k)) \/ SecretEvent
    /\ UNCHANGED <<templateVars, monitoringVars>>

MonitoringEnvStep ==
    /\ \/ OperatorReads \/ OperatorMonitors \/ FinalizeMonitor
       \/ Convert \/ FinalizeScrape
    /\ UNCHANGED <<templateVars, proxyVars>>

Next ==
    \/ SyncStep \/ Runtime \/ EngineStep
    \/ TemplateEnvStep \/ ProxyEnvStep \/ MonitoringEnvStep

\* A queued Instance is reconciled to the end and calls do not fail for ever;
\* the converter does not come between adoption and apply every time;
\* informers deliver, the operator works and deletions complete.  Neither the
\* owner nor the converter has to do anything.
Fairness ==
    /\ WF_vars(BeginSync /\ Runtime)
    /\ WF_vars(SyncStep)
    /\ <>[](pc # "failed")
    /\ SF_vars(ApplyScrape /\ SyncStep /\ scrape' # scrape)
    /\ WF_vars(EngineProgresses /\ EngineStep)
    /\ WF_vars(FinalizeEngine /\ EngineStep)
    /\ WF_vars(EngineEvent /\ EngineStep)
    /\ WF_vars(FinalizeTemplate /\ TemplateEnvStep)
    /\ WF_vars(TemplateCached /\ TemplateEnvStep)
    /\ WF_vars(ProxyProgresses /\ ProxyEnvStep)
    /\ WF_vars(FinalizeProxy /\ ProxyEnvStep)
    /\ WF_vars(ProxyEvent /\ ProxyEnvStep)
    /\ \A k \in Secret : WF_vars(IssueSecret(k) /\ ProxyEnvStep)
    /\ WF_vars(SecretEvent /\ ProxyEnvStep)
    /\ WF_vars(OperatorReads /\ MonitoringEnvStep)
    /\ WF_vars(OperatorMonitors /\ MonitoringEnvStep)
    /\ WF_vars(FinalizeMonitor /\ MonitoringEnvStep)
    /\ WF_vars(FinalizeScrape /\ MonitoringEnvStep)

SafetySpec == Init /\ [][Next]_vars

Spec == SafetySpec /\ Fairness

-----------------------------------------------------------------------------
(* What one reconcile leaves behind for the next, and for the others. *)

\* "MaxScale goes first so it stops managing the servers before they
\* disappear" (CleanupMariaDB): the servers are not asked to go while a
\* MaxScale is there that was not asked before, whichever call failed and
\* however far the interrupted Sync had come.
ProxyStopsFirst ==
    ~env.lag /\ (pc = "gone" \/ (mdb # Absent /\ mdb.deleting))
        => mxs = Absent \/ mxs.deleting

\* When the Instance stops offering a storage, the template goes only after
\* the MariaDB has stopped referring to it: the operator is never told to
\* clone replicas from a template the provider has taken away, not even
\* through a field an older provider wrote.
TemplateOutlivesReference ==
    [][pc = "template" /\ snap.storage = NoStorage /\ tpl # Absent /\ tpl' # tpl
         => mdb = Absent \/ ~mdb.staged]_tpl

\* Scrapes the converter made are left alone: such a scrape only goes with
\* the ServiceMonitor it was converted from.
ForeignScrapeKept ==
    [][scrape # Absent /\ scrape.by = "converter"
       /\ (scrape' = Absent \/ scrape'.deleting)
         => scrape.controller = "monitor" /\ monitor = Absent]_scrape

\* A scrape that was taken over stays the Instance's: neither the converter
\* nor the end of the ServiceMonitor takes it back while the Instance that is
\* being reconciled wants it.
AdoptedScrapeKept ==
    [][scrape # Absent /\ scrape.by = "provider" /\ ~scrape.deleting
       /\ scrape' # scrape
         => pc = "gone" \/ (pc = "scrape" /\ ~WantsScrape(snap))]_scrape

-----------------------------------------------------------------------------
(* Where a Sync that is left alone ends up. *)

Quiet == <>[][FALSE]_<<spec, deleted>>

\* All that is needed for one reconcile to run to its end.
Runs(s) == ~deleted /\ s.storage \notin env.missing

EngineSettled ==
    /\ mdb # Absent /\ mdb.metrics = MetricsOf(spec)
    /\ mdb.tls = spec.tls /\ mdb.staged = Staged(spec)

\* The details the Instance asks for, with a CA exactly if the place clients
\* are sent to uses TLS.
Wanted(s) ==
    [host |-> IF s.proxy THEN "proxy" ELSE "engine",
     tls |-> IF s.proxy THEN ProxyTLS(s) ELSE s.tls # "off"]

\* Once edits stop, clients are sent where the Instance asks for, and MaxScale
\* is only there when wanted.  A Secret that comes after the last reconcile
\* and that nothing tells of leaves clients without details, and this is the
\* only way to end without: they are never left with those of another place.
EndpointSettled ==
    /\ IF spec.proxy THEN mxs # Absent /\ mxs.tls = ProxyTLS(spec) ELSE mxs = Absent
    /\ \/ published = Wanted(spec)
       \/ ~env.announces /\ published = Absent

EndpointConverges == Quiet => <>[](Runs(spec) => EndpointSettled)

\* Once edits stop, the template is there, on the storage the Instance offers
\* first, exactly when the MariaDB refers to it.
TemplateSettled ==
    /\ EngineSettled
    /\ IF Staged(spec) THEN tpl = [storage |-> spec.storage, deleting |-> FALSE]
       ELSE tpl = Absent

TemplateConverges ==
    Quiet => <>[](Runs(spec) /\ ~env.finalizers /\ ~env.lag => TemplateSettled)

\* Once edits stop, the exporter is scraped by those the Instance names and
\* by no one else, with a converter at work on the same objects, and metrics
\* that were switched off are off.
MonitoringSettled ==
    /\ EngineSettled
    /\ MetricsOf(spec) = "unmonitored" => monitor = Absent
    /\ MetricsOf(spec) = "monitored" => monitor = "live"
    /\ IF WantsScrape(spec)
       THEN scrape = [controller |-> "Instance", by |-> "provider", deleting |-> FALSE]
       ELSE scrape # Absent => scrape.by = "converter"

MonitoringConverges ==
    Quiet => <>[](Runs(spec) /\ ~env.finalizers /\ ~env.busy => MonitoringSettled)

-----------------------------------------------------------------------------
(* Nothing is forgotten.  Only an error, an edit or an event of the MariaDB  *)
(* and the MaxScale starts another reconcile: when none is to come any more, *)
(* what the last one left has to be right.                                   *)

\* No reconcile runs or is queued, and the watches of New, those of MariaDB
\* and MaxScale, have nothing to deliver.
AtRest == pc = "idle" /\ ~queued /\ mdbCache = mdb /\ mxsCache = mxs

\* The operator has started what was declared, written the Secrets and
\* removed what was deleted, and what was to tell of a Secret has done so.
OperatorDone ==
    /\ mdb # Absent => mdb.ready
    /\ mxs # Absent => mxs.ready /\ ~mxs.deleting
    /\ \A k \in Secret : Due(k) => k \in secrets
    /\ ~news

\* It has read the metrics of the MariaDB and made the ServiceMonitor they ask for.
MonitoringDone ==
    /\ operatorView = MetricsSeen(mdb)
    /\ operatorView = "monitored" => monitor # Absent

\* Once nothing is left to start another reconcile and the operator is done,
\* clients are sent where the Instance asks for: no order in which servers,
\* proxy, credentials and CA bundles come, no failure and no outdated read
\* leaves the details of an earlier moment in place.  That there are details
\* at all rests on env.announces: errTLSCABundleNotReady and a missing
\* credentials Secret end in Provisioning, and no watch looks out for either.
EndpointAtRest == AtRest /\ OperatorDone => EndpointSettled

\* The template a MariaDB at rest refers to is there, on the storage the
\* Instance offers, although no event of a template ever starts a reconcile.
TemplateAtRest == AtRest /\ ~env.lag /\ ~env.finalizers => TemplateSettled

\* The scrape objects of an Instance at rest are those it asks for, although
\* two other programs write them and no event of theirs starts a reconcile.
MonitoringAtRest ==
    AtRest /\ MonitoringDone /\ ~env.busy /\ ~env.finalizers => MonitoringSettled

\* Nothing an Instance asks for is forgotten, by any step of Sync.
SettledAtRest == EndpointAtRest /\ TemplateAtRest /\ MonitoringAtRest

-----------------------------------------------------------------------------
\* A deleted Instance leaves nothing behind.
CleanupEnds ==
    deleted ~> /\ pc = "gone" /\ mdb = Absent /\ mxs = Absent
               /\ tpl = Absent /\ monitor = Absent
               /\ scrape # Absent => scrape.by = "converter"
=============================================================================
