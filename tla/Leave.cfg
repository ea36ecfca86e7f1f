SPECIFICATION Spec
CONSTANTS
    w1 = w1
    w2 = w2
    Worker <- MCWorker
    NoMem = NoMem
    Request = {1, 2}
    LastDay = 3
    Holiday = {2}
    Sub = {"ann"}
    Chain <- MCChain
    Allocation = {1, 2}
    MaxNegative = 0
    Races = {}
SYMMETRY MCSymmetry
INVARIANTS TypeOK BalanceMatches   ConsentHolds
 
