---------------------------- MODULE Monitoring ----------------------------
(***************************************************************************)
(* SyncServiceMonitor and SyncVMServiceScrape.  Three programs write here: *)
(* the operator creates a ServiceMonitor and never deletes it, the         *)
(* VictoriaMetrics converter turns a ServiceMonitor into a VMServiceScrape *)
(* of the same name, and the provider deletes the one and takes over the   *)
(* other.  Neither object is watched.                                      *)
(***************************************************************************)
EXTENDS InstanceSync

VARIABLES
    monitor,     \* the ServiceMonitor: Absent, live or deleting
    scrape,      \* the VMServiceScrape
    operatorView \* spec.metrics as the operator's reconcile has read it

monitoringVars == <<monitor, scrape, operatorView>>

\* controller: which owner controls it; by: whose spec it holds.  The
\* provider's apply sets its spec and the ignore annotation in one call.
Scrape == [controller : {"none", "monitor", "Instance"},
           by : {"converter", "provider"}, deleting : BOOLEAN]

ASSUME MonitoringAssumption == Absent \notin Scrape \cup {"live", "deleting"}

MonitoringTypeOK ==
    /\ monitor \in {Absent, "live", "deleting"}
    /\ scrape \in Scrape \cup {Absent}
    /\ operatorView \in OperatorMetrics

MonitoringInit ==
    /\ monitor = Absent /\ scrape = Absent /\ operatorView = "off"

MetricsSeen(m) == IF m = Absent THEN "off" ELSE m.metrics

\* isVictoriaMetricsEnabled
WantsScrape(s) == s.metrics \in {"victoria", "both"}

Controlled(s) == s # Absent /\ s.controller = "Instance"

-----------------------------------------------------------------------------
(* SyncServiceMonitor. *)

\* Metrics are off or the ServiceMonitor is wanted.
KeepMonitor ==
    /\ pc = "monitor" /\ MetricsOf(snap) # "unmonitored"
    /\ Continue("scrape")
    /\ UNCHANGED <<syncVars, engineVars, monitoringVars>>

\* Only once the MariaDB that is seen shows it disabled; a MariaDB that is
\* not seen is an error.
DropMonitor ==
    /\ pc = "monitor" /\ MetricsOf(snap) = "unmonitored"
    /\ Fresh(mdbCache, mdb)
    /\ IF mdbCache # Absent /\ mdbCache.metrics = "unmonitored" /\ monitor = "live"
       THEN monitor' = IF env.finalizers THEN "deleting" ELSE Absent
       ELSE UNCHANGED monitor
    /\ IF mdbCache = Absent THEN Retry ELSE Continue("scrape")
    /\ UNCHANGED <<syncVars, engineVars, scrape, operatorView>>

-----------------------------------------------------------------------------
(* SyncVMServiceScrape. *)

\* variant: whatever is there is deleted
TeardownAnyScrape ==
    /\ pc = "scrape" /\ ~WantsScrape(snap)
    /\ scrape' = IF scrape # Absent /\ ~scrape.deleting
                 THEN AfterDelete(scrape) ELSE scrape
    /\ Continue("status")
    /\ UNCHANGED <<syncVars, engineVars, monitor, operatorView>>

\* teardownVMServiceScrape: only what the Instance controls.
TeardownScrape ==
    /\ pc = "scrape" /\ ~WantsScrape(snap)
    /\ scrape' = IF Controlled(scrape) /\ ~scrape.deleting
                 THEN AfterDelete(scrape) ELSE scrape
    /\ Continue("status")
    /\ UNCHANGED <<syncVars, engineVars, monitor, operatorView>>

\* Wait for the metrics just applied; then look who controls the scrape.
ReadScrape ==
    /\ pc = "scrape" /\ WantsScrape(snap)
    /\ Fresh(mdbCache, mdb)
    /\ \/ mdbCache = Absent /\ Retry
       \/ mdbCache # Absent /\ mdbCache.metrics = "off" /\ Continue("status")
       \/ /\ mdbCache # Absent /\ mdbCache.metrics # "off"
          /\ Continue(IF scrape # Absent /\ scrape.controller = "monitor"
                      THEN "adopt" ELSE "applyScrape")
    /\ UNCHANGED <<syncVars, engineVars, monitoringVars>>

\* variant: nothing is adopted
AdoptScrapeSkipped ==
    /\ pc = "adopt" /\ Continue("applyScrape")
    /\ UNCHANGED <<syncVars, engineVars, monitoringVars>>

\* adoptVMServiceScrape: the controller reference is patched away.
AdoptScrape ==
    /\ pc = "adopt"
    /\ IF scrape = Absent THEN Retry /\ UNCHANGED scrape
       ELSE /\ scrape' = [scrape EXCEPT !.controller = "none"]
            /\ Continue("applyScrape")
    /\ UNCHANGED <<syncVars, engineVars, monitor, operatorView>>

\* variant: the owner references are left as they are
ApplyScrapeUnowned ==
    /\ pc = "applyScrape"
    /\ scrape' = IF scrape = Absent
                 THEN [controller |-> "Instance", by |-> "provider", deleting |-> FALSE]
                 ELSE [scrape EXCEPT !.by = "provider"]
    /\ Continue("status")
    /\ UNCHANGED <<syncVars, engineVars, monitor, operatorView>>

\* The apply makes the Instance the controller: refused while another is.
ApplyScrape ==
    /\ pc = "applyScrape"
    /\ IF scrape # Absent /\ scrape.controller = "monitor"
       THEN Retry /\ UNCHANGED scrape
       ELSE /\ scrape' = [controller |-> "Instance", by |-> "provider",
                          deleting |-> scrape # Absent /\ scrape.deleting]
            /\ Continue("status")
    /\ UNCHANGED <<syncVars, engineVars, monitor, operatorView>>

SyncMonitoring ==
    \/ KeepMonitor \/ DropMonitor
    \/ TeardownScrape \/ ReadScrape \/ AdoptScrape \/ ApplyScrape

-----------------------------------------------------------------------------
(* The operator, the converter and garbage collection. *)

OperatorReads ==
    /\ operatorView # MetricsSeen(mdb)
    /\ operatorView' = MetricsSeen(mdb)
    /\ UNCHANGED <<syncVars, flow, engineVars, monitor, scrape>>

\* It creates the ServiceMonitor; a disabled one is only left alone.  Unless
\* it is busy, it knows at least what the provider's cache shows.
OperatorMonitors ==
    /\ operatorView = "monitored" /\ monitor = Absent /\ mdb # Absent
    /\ env.busy \/ operatorView \in {MetricsSeen(mdb), MetricsSeen(mdbCache)}
    /\ monitor' = "live"
    /\ UNCHANGED <<syncVars, flow, engineVars, scrape, operatorView>>

FinalizeMonitor ==
    /\ monitor = "deleting" \/ (monitor = "live" /\ mdb = Absent)
    /\ monitor' = Absent
    /\ UNCHANGED <<syncVars, flow, engineVars, scrape, operatorView>>

\* A scrape with the ignore annotation is not converted again.
Convert ==
    /\ env.converter # "off" /\ monitor = "live"
    /\ scrape # Absent => scrape.by = "converter" /\ ~scrape.deleting
    /\ scrape' = [controller |-> IF env.converter = "owning" THEN "monitor" ELSE "none",
                  by |-> "converter", deleting |-> FALSE]
    /\ scrape' # scrape
    /\ UNCHANGED <<syncVars, flow, engineVars, monitor, operatorView>>

\* Finalizers are done, or the owner is gone.
FinalizeScrape ==
    /\ scrape # Absent
    /\ \/ scrape.deleting
       \/ scrape.controller = "monitor" /\ monitor = Absent
       \/ scrape.controller = "Instance" /\ pc = "gone"
    /\ scrape' = Absent
    /\ UNCHANGED <<syncVars, flow, engineVars, monitor, operatorView>>
=============================================================================
