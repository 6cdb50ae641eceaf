\* The configured frame counts.
SPECIFICATION FairSensorSpec
CONSTANTS
  ConfirmFrames = 3
  ReleaseFrames = 5
  MaxAge = 1
INVARIANTS SensorTypeOK TornSnapshotAgrees ClosedStaysDown
PROPERTIES FilterIsExact DeathNoticed
CHECK_DEADLOCK FALSE
