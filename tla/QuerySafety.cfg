\* Seven catalogs of five kinds of rows, every combination of the parameters.
SPECIFICATION Spec
CONSTANTS
  DefaultLimit = 2
  MaxLimit = 3
  Empty = ""
  Half <- MCHalf
  Text <- MCText
  Within <- MCWithin
  Name <- MCName
  Suffix <- MCSuffix
  GBName <- MCGBName
  Server <- MCServer
  Catalog <- MCCatalog
  Query <- MCQuery
  ConfiguredRAM = {}
  ConfiguredDisk <- MCDefaultDisk
  DefaultRAM <- MCDefaultRAM
  DefaultDisk <- MCDefaultDisk
INVARIANTS
  TypeOK
  ProblemsAll
  RowsMeant
  AnswerMeant
  BadPriceStays
