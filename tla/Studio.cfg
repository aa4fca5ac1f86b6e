SPECIFICATION Spec
CONSTANTS
  NODES <- SampleNodes
  EDGES <- SampleEdges
  DECISIONS <- SampleDecisions
  BOM_LINES <- SampleBom
  RISKS <- SampleRisks
  ASSUMPTIONS <- SampleAssumptions
  ROADMAP <- SampleRoadmap
  SOURCES <- SampleSources
  COMPONENT_OPTIONS <- SampleOptions
  ORG_CONSTRAINTS <- SampleConstraints
  ERROR_PATH <- SampleErrorPath
  SAMPLE_PACKAGES <- SamplePackages
  NoNode <- None
  Scales = {1, 10}
  Swappable = {"redis", "db"}
  Pointed <- Selections
  MaxChanges = 2
INVARIANTS TypeOK BillFollowsDiagram BlankOnlyWhenSwappedOut LinksOpen
PROPERTIES RemovedReturnsByFullReset
