\* A fresh runner, three boxes of jobs and one of Windows.  A runner that has stopped
\* itself while machines are left really stays down.
SPECIFICATION FairSpec
CONSTANTS
    ci1 = ci1
    ci2 = ci2
    ci3 = ci3
    win = win
    Box <- Boxes
    Windows = {win}
    CiBox <- CiBoxes
    Used = {ci1}
INVARIANTS TypeOK CleaningAlone ImageStays
PROPERTIES RoomIsMadeWithCare ServiceReturns
CHECK_DEADLOCK FALSE
