SPECIFICATION Spec
CONSTANT Lines <- MCLines
INVARIANT NothingSingleSteps
