------------------------------ MODULE MCStreamIo ------------------------------
\* An instance of StreamIo for TLC.
EXTENDS StreamIo

OneOrder == {<<2>>}

Hint(demand, sequential) == [demand |-> demand, sequential |-> sequential]
AnyHint == {Hint(TRUE, TRUE), Hint(FALSE, FALSE)}
===============================================================================
