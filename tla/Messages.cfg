SPECIFICATION MCSpec
CONSTANTS
  Wires <- MCWires
  Routed <- MCRouted
  MaxHeader = 45
  MaxLength = 45
  Methods = {"GET", "POST", "HEAD", "OPTIONS"}
  MaxDigits = 2
  Apps <- MCApps
  Files <- MCFiles
  Targets <- MCTargets
  Asked <- MCAsked
  MaxPairs = 3
  Alphabets <- MCAlphabets
  MaxText = 6
  MaxDepth = 5
  MaxCopies = 2
  Assigned <- MCAssigned
  MaxAssigned = 3
INVARIANT HandledAsSent
INVARIANT NothingIsLost
INVARIANT ReadsDoNotMatter
INVARIANT LookupIsTheReference
INVARIANT PagesFindWhatTheyAsk
INVARIANT AnswersAreRouted
INVARIANT AnswersAreFramed
INVARIANT ContentsAreWhatIsLeft
INVARIANT LoadIsJson
INVARIANT DumpsLoadBack
INVARIANT ReadsAgree
CHECK_DEADLOCK FALSE
