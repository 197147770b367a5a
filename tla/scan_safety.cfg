SPECIFICATION Spec
CONSTANT Notice <- AllNotices
CONSTANT Kinds = {"enroll", "auth"}
INVARIANTS TypeOK CycleOrdered
PROPERTY ImplementsFrameCycle
