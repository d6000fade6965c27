\* IsLambda on a lambda's closure type and on five class types.
SPECIFICATION Spec
INVARIANT IsLambdaExact
CHECK_DEADLOCK FALSE
