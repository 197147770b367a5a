SPECIFICATION Spec
CONSTANT Notice <- FingerNotices
CONSTANT Kinds = {"enroll"}
PROPERTY EndsAndTells
