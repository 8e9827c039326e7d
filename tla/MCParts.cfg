\* Tables, queries, tags and blocks, a note in its editor, mentions in one,
\* dangling links, the graph.
SPECIFICATION Spec
CONSTANTS
  k1 = k1  k2 = k2  f1 = f1  f2 = f2
  Key = {k1, k2}  FileOf <- FileOfKey  Load = {l1, l2}
  Bytes <- Sizes  Ceiling = 2  MaxText = 3  MaxClock = 4
  None = None
  Texts <- SomeTexts  Nums = {2, 10}  NumText <- Written  Rows = 3
  n1 = n1  n2 = n2  n3 = n3
  Note = {n1, n2, n3}  InitText <- SomeNotes
  TagMoves <- ChainOfTags  BlockMoves <- ChainOfIds
  Hasty = FALSE  LateUndo = FALSE
  RowLimit = 1  MaxRenames = 3  MaxWrites = 1  MaxTicks = 1  MaxFalls = 1
  e1 = e1  e2 = e2
  Foreign = {e1}  Rewrite = {e2}  Null = Null
  MaxTyped = 2  MaxOthers = 1  MaxVisits = 1  MaxReads = 1
  MaxFlushes = 2  MaxQueued = 1  MaxEvents = 1
  Drafts <- SomeDrafts  Width <- Widths
  Call = {c1}  Unhurried = TRUE
  MaxEdits = 1  MaxRelinks = 1  MaxMints = 1  MaxFetches = 2  NoList = NoList
  r1 = r1  r2 = r2
  Referrer = {r1, r2}  Notes <- SomeNames  Fold <- Folded  Bare = {"roadmap", "plan", "Plan"}
  LinkTexts = {{"plan"}, {"notes/plan"}}
  CandidateLimit = 2  GroupLimit = 1  MaxRepairs = 2  MaxTurns = 2
  FileId = {1, 2, 3}  Elsewhere <- GhostAndTag  InitIndex <- SomeIndex
  MaxChanges = 2  MaxRefreshes = 2
INVARIANTS Fresh UnderCeiling ExecutorsAgree MissingComesLast
INVARIANTS ShownAsMeant TablesFollow
INVARIANTS TypeOK CleanIsWritten NoEditForgotten PanelSettles
INVARIANTS RepairHolds GraphSettles
PROPERTIES ReloadsKeepUnsaved LinksWhatWasChosen
CHECK_DEADLOCK FALSE
