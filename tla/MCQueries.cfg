SPECIFICATION Spec
CONSTANTS
  Units <- MCUnits
  MaxUnits = 5
  Text <- MCText
  Items <- MCItems
  Json = {"[1]"}
  Braces = {"{x}"}
  Numbers = {"1", "2"}
  Databases = {"d1", "d2"}
  Fields = {"a", "b"}
  Contents <- MCContents
  Related <- MCRelated
  Queries <- MCQueries
  Tallies <- MCTallies
  Searches <- MCSearches
  Weight <- MCWeight
  DocCount <- MCDocCount
  Pieces <- MCPieces
  MaxQueries = 3
INVARIANTS
  WhereIsGrammar
  FormsAgree
  AnswersAreExplained
  ShownIsWhatMatched
  GroupsPartition
CHECK_DEADLOCK FALSE
