-------------------------------- MODULE MCLeap --------------------------------
\* A numeric and a string array.  The pool holds the first program's array, and then not the slot of the string array, unless CLEAR is
\* said first.  The second program's tables do not fit the pool, but SAVE ... ALL has room for its session.  The third needs a package,
\* and a compile without it fails after the DIM; with it and the string array SAVE ... ALL has no room.  Segment 2 takes an entry of
\* each array but not with the second shape of the numeric one.
EXTENDS Leap

A == <<"a", 2>>
S == <<"s", 3>>
num(k) == <<<<"n", k>>>>
MCKeys == {A, S}
MCProgs == {<<<<"dim", A, 1, 0>>, <<"set", A, num(0), num(0) \o <<<<"a", A>>>> \o num(0) \o <<<<"=">>>>>>>>,
            <<<<"rem", 11>>, <<"dim", A, 1, 0>>>>, <<<<"dim", A, 2, 0>>, <<"CIRCLE", 1>>, <<"let", "x", num(1)>>>>}
MCSays == {<<<<"dim", S, 1, 3>>, <<"set", S, num(0), num(2)>>>>, <<<<"clear">>>>}
Shapes1 == [words |-> <<"CIRCLE", "FILL">>, len |-> 3, carry |-> FALSE]
Broken == [words |-> <<"MODE">>, len |-> 3, carry |-> TRUE]
MCCassettes == {package_file("p", Shapes1), package_file("p", Broken)}
=============================================================================
