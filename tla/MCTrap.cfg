SPECIFICATION Spec
CONSTANT Lines <- MCLines
INVARIANTS SegmentsFit
PROPERTIES InterruptTransparent OneFrameOnIst SyscallReturns RaisedIsDelivered
