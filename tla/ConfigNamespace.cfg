\* Two configs of one class whose tag types are declared in a namespace.
CONSTANTS
    Classes <- NamespacedClasses
    Tags <- NamespacedTags
SPECIFICATION Spec
INVARIANT FieldKeysUnique
CHECK_DEADLOCK FALSE
