SPECIFICATION Spec
CONSTANTS
  LastYear = 2050
  Second = 50
INVARIANTS TimeOfDate DateOfTime DayOfYear BcdDays OffsetSteps ClockCorrected
