CONSTANT MaxArgs = 4
SPECIFICATION ParseSpec
INVARIANT LastValidWins
