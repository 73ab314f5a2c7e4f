SPECIFICATION Spec
CONSTANTS
  Projects = {A, B}
  Sources = {"erc"}
  Files = {sheet1, sheet2}
  SourceOf <- MCSourceOf
  MaxRuns = 2
  None = None
SYMMETRY Symmetry
INVARIANTS
  StoreInv
  LastGoodIsLatestRun
  FreshReportIsListed
  BarFollowsReports
