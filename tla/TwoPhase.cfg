SPECIFICATION FairSpec
CONSTANTS
  Deployments = {web, api, batch}
  SpotOnly = {batch}
  Faulty = {api}
  Failures = {"api", "rollout", "health"}
  Strategies = {"count"}
  DryRun = FALSE
  Stops = TRUE
INVARIANTS Inv ObserversDone SomebodyReports RollsOutWithStrategy
PROPERTIES EachIndependent EachSoundOneMigrates HandlerReturns
