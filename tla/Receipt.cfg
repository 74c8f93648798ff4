SPECIFICATION Spec
CONSTANTS
  None = None
  AmountLen = 10
  LabelLen <- Lengths
  Alphabets <- AllAlphabets
  CodePages <- Pages
  BestFit = {"slovene", "dash"}
  Reservations <- ManyReservations
  Settings <- SomeSettings
INVARIANTS SameOnBothPrinters CancelledIsUnmistakable LayoutIsRestored LinesFit AverageIsFair
CHECK_DEADLOCK FALSE
