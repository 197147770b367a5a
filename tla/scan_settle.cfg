SPECIFICATION Spec
CONSTANT Notice <- AllNotices
CONSTANT Kinds = {"enroll"}
INVARIANT SettlementNotStranded
