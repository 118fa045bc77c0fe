CONSTANT MaxTasks <- MCMaxTasks
SPECIFICATION FairSpec
INVARIANTS StartIsNotForgotten
PROPERTIES StartLeadsToScan
