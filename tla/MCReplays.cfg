SPECIFICATION Spec
CONSTANT MaxChoices = 40
CONSTANT MaxDiscards = 2
CONSTANT Budget = 2
CONSTANT HalfRange = 4
CONSTANT DaySeconds = 2
CONSTANT MaxEdits = 1
CONSTANT Zones <- MCZones
CONSTANT Keep <- MCKeep
CONSTANT Apply <- MCApply
CONSTANT Identity <- MCIdentity
CONSTANT NextDraw <- MCNextDraw
CONSTANT Bodies <- MCBodies
CONSTANT Files <- MCFiles
CONSTANT Tapes <- MCTapes
CHECK_DEADLOCK FALSE
INVARIANT ReplayIsTheCase
INVARIANT RecordsAreAdmitted
INVARIANT OffersAreRecorded
INVARIANT OwnTraceIsFollowed
INVARIANT ReadFilesHaveValues
