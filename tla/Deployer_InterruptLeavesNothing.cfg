CONSTANT NumNodes = 2
SPECIFICATION Spec
INVARIANT InterruptLeavesNothing
