SPECIFICATION EnrollmentSpec
CONSTANTS
  MaxFeatures = 7
  Place <- SevenPlaces
  Touches <- OneOfEach
  Registration <- Registrations
  Meeting <- Neighbours
INVARIANTS EnrollmentTypeOK PublishedSound StepsAgreeWithWhole
