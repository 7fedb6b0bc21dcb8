------------------------------ MODULE MCFacade ------------------------------
EXTENDS Facade

\* Two releases, the later one signed twice within its second.
MCPointers == {[version |-> 1, sig |-> 2], [version |-> 2, sig |-> 1],
               [version |-> 2, sig |-> 2]}
=============================================================================
