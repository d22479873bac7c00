SPECIFICATION ProjectionSpec
CONSTANTS
  Transactions = {1}
  CorePayloads <- MCCorePayloads
  Categorizations <- MCCategorizations
  Categories = {1}
  Subcategories = {1}
  Accounts = {1}
  Goals = {1}
  Names <- MCNames
  StartDays = {28}
  Amounts = {1}
  MAX_RETRIES = 1
  MaxEvents = 3
  MaxEntityEvents = 2
  MaxDisturbances = 1
INVARIANTS NewestWins Reconciles VectorFollows
CHECK_DEADLOCK FALSE
