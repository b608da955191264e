CONSTANTS
  Branch = {"topic"}
  First = 1
  MaxCommits = 5
  MaxRuns = 3
SPECIFICATION Spec
CHECK_DEADLOCK FALSE
INVARIANTS TypeOK TagsAreReleases RemoteTagsOnMain
PROPERTIES NoCommitLost
