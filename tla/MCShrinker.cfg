SPECIFICATION FairSpec
CONSTANT MaxChoices = 40
CONSTANT MaxDiscards = 2
CONSTANT Budget = 2
CONSTANT HalfRange = 4
CONSTANT DaySeconds = 2
CONSTANT Zones <- MCZones
CONSTANT Keep <- MCKeep
CONSTANT Apply <- MCApply
CONSTANT Identity <- MCIdentity
CONSTANT NextDraw <- MCNextDraw
CONSTANT Bodies <- MCBodies
CONSTANT Tapes <- MCTapes
CONSTANT Fillings <- MCFillings
CONSTANT Budgets <- MCBudgets
INVARIANT KeepsTheSmallest
INVARIANT ShrunkIsMinimal
INVARIANT BudgetIsShared
INVARIANT ExplanationsHold
PROPERTY ShrinkEnds
