SPECIFICATION Spec
CONSTANTS
  Row <- MCRow
  Query <- MCQuery
  TrueWord = 9
  NamespaceWord = 8
  Word = 6
INVARIANTS
  TypeOK
  CountedAsAsked
  ListedIsPage
