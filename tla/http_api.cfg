SPECIFICATION ApiSpec
CONSTANT
  MaxRebinds = 2
INVARIANTS
  RefreshTellsTheTruth ErrorsNameTheirCause SaveAnswersHonestly
