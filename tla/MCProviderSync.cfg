SPECIFICATION Spec
CONSTANTS
  Storage = {s1, s2}
  NoStorage = NoStorage
  Absent = Absent
  Scenario <- MCScenario
INVARIANTS ProxyStopsFirst SettledAtRest
PROPERTIES TemplateOutlivesReference ForeignScrapeKept AdoptedScrapeKept EndpointConverges TemplateConverges MonitoringConverges CleanupEnds
CHECK_DEADLOCK FALSE
