SPECIFICATION Spec
CONSTANTS
  Attrs <- MCAttrs
  Subs <- MCSubs
  Schema <- MCSchema
  Scalars <- MCScalars
  Convert <- MCConvert
  Fold <- MCFold
  Nil = Nil
  Null = Null
  Bad = Bad
  Words <- MCWords
  Literals <- MCLiterals
  FoldedWord <- MCFoldedWord
  PathIn <- MCPathIn
  SuffixIn <- MCSuffixIn
  MaxDepth = 4
  None = None
  Common <- MCCommon
  CaseExact <- MCCaseExact
  Rank <- MCRank
  Float <- MCFloat
  Within <- MCWithin
  Returned <- MCReturned
  HiddenSubs <- MCHiddenSubs
  Boxes <- MCBoxes
  Wire <- MCWire
  Unknown = Unknown
  Texts <- MCTexts
  EditTokens <- MCEditTokens
  MaxEdits = 2
  Bodies <- MCBodies
  Projections <- MCProjections
INVARIANTS ParseExact PrintedReadsBack MatchSound ViewExact SendsBackWritable
CHECK_DEADLOCK FALSE
