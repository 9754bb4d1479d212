CONSTANTS
  image1 = image1
  image2 = image2
  w1 = w1
  MaxCommands = 3
  Images <- TwoImages
  Workers <- OneWorker
SPECIFICATION Spec
INVARIANTS TypeOK InProgressMeansAllSent
PROPERTIES SuccessIsComplete LeftoversAreStuck
\* All commands may be executed and no scan be due.
CHECK_DEADLOCK FALSE
