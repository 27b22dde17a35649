SPECIFICATION Spec
CONSTANT Lines <- MCLines
INVARIANT CallsItsTarget
