SPECIFICATION Spec
CONSTANTS
  a1 = a1  a2 = a2  a3 = a3  a4 = a4
  Addresses = {a1, a2, a3, a4}
  NoAddress = none
  Balances = {1, 2}
  MaxCapacity = 3
  MaxLamports = 3
  StakeRent = 1
INVARIANTS ListTypeOK ListedOnce
PROPERTIES ImplementsStore LamportsKept
