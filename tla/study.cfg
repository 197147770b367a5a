SPECIFICATION Spec
CONSTANTS
  MaxFeatures = 3
  QueueCapacity = 2
  Place <- SixPlaces
  Stored <- Enrollments
  Imported = {1}
  Learnable = {5, 6}
  Met = {0}
  Probes <- Touches
INVARIANTS LearntSound QueueBounded QueueAgrees
