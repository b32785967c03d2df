\* Limits of 7 and 5 ticks, frames of every length, sleeps up to 4 ticks late.
SPECIFICATION LimiterSpec
CONSTANTS
    Targets = {0, 5, 7}
    Works = {0, 1, 2, 3, 4, 5, 6, 7, 9}
    Lates = {0, 1, 2, 3, 4}
    MaxTarget = 7
INVARIANTS LimiterTypeOK OnSchedule
PROPERTY LightGamesAreLimited
