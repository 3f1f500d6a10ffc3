SPECIFICATION LiveSpec
INVARIANTS OkMeansCommitted FaultIsReported StaysDismounted  NothingLeft
PROPERTIES  PressIsAnswered
