SPECIFICATION Spec
CONSTANTS
  ann = ann
  bob = bob
  Users = {ann, bob}
  Nobody = Nobody
  MaxPipeline = 2
  MaxWrites = 3
  MaxTurns = 2
INVARIANTS TypeOK PipelineHeadsQueue InFlight IdleIsUnneeded ResumedWhileStarting OwnCredentials AckedIsDurable OnlyRefusedDropped
PROPERTIES SentInOrder WritesSettle
CHECK_DEADLOCK FALSE
