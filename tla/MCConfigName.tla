--------------------------- MODULE MCConfigName ---------------------------
EXTENDS ConfigName

\* Classes and tags at namespace scope, spelled as gcc ("a") and as MSVC
\* ("struct b") demangle them; "a"/"ab" with "bb"/"b" join to the same text.
GlobalClasses == { <<"a">>, <<"a", "b">>, <<"S", "b">> }
GlobalTags == { <<"b">>, <<"b", "b">>, <<"C", "a">> }

\* Two tag types declared inside a namespace a, as a config of a class in
\* a namespace declares them.
NamespacedClasses == { <<"a">> }
NamespacedTags == { <<"a", ":", ":", "a">>, <<"a", ":", ":", "b">> }
=============================================================================
