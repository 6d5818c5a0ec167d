CONSTANTS
  own = own  mirror = mirror  oh = oh
  Scripts = {s1}
  Shells = {c1}
  Stores = {own, mirror}
  ReadOnly = {mirror}
  Hashes = {oh}
  Offers <- MCOffers
  Budgets <- MCBudgets
  MaxGen = 3
  MaxCrashes = 1
SPECIFICATION Spec
INVARIANTS TypeOK RootsBeforeView NumberFree ListingWorks
PROPERTIES RetentionKept
