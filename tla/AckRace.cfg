CONSTANT MaxSteps = 1
SPECIFICATION Spec
PROPERTY AckIsOfTheVectorReceived
CHECK_DEADLOCK FALSE
