\* A scan of at most three pages of two servers, and uploads of six catalogs.
SPECIFICATION FairSpec
CONSTANTS
  City = {"a", "b", "c"}
  Catalog <- MCCatalog
  DefaultLimit = 1
  MaxLimit = 2
  ScanLimit = 2
  ScanPages = 3
INVARIANTS
  TypeOK
  ListComplete
  ListHonest
PROPERTIES
  ScanEnds
