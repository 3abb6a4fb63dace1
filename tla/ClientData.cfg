SPECIFICATION Spec
CONSTANTS
  Documents = {d1, d2}
  Clients <- MCClients
  LookupClients <- MCLookupClients
  AsOf <- MCAsOf
  MaxChanges = 1
  Null = Null
  NaN = NaN
  Blank = Blank
  None = None
SYMMETRY Symmetry
INVARIANTS
  TypeOK
  DashboardAddsUp
  IndicatorsCountWhatTheySay
  BatchTotalsAddUp
  LookupsAgree
