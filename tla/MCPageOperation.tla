--------------------------- MODULE MCPageOperation ---------------------------
\* Small instances of PageOperation: a reply to the address that is read, and one to
\* another, which do not fit into the buffer together.
EXTENDS PageOperation

MCReplies == {[kind |-> "answer", size |-> 1], [kind |-> "other", size |-> 2]}
==============================================================================
