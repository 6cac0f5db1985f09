--------------------------- MODULE MCOrderGateway ---------------------------
EXTENDS OrderGateway, TLC

OrderSymmetry == Permutations(Ours)

============================================================================
