SPECIFICATION Spec
INVARIANTS FreeSafety NoLeak
PROPERTY AbstractCall
