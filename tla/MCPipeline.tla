----------------------------- MODULE MCPipeline -----------------------------
EXTENDS Pipeline

\* The default policy without a limit of rounds, the strict one with a limit, a forced one
\* behind the agent engine, and super-fast mode.
Lasting == [engine |-> "script", mode |-> "majority", min |-> 1, max |-> -1, force |-> TRUE,
            soft |-> TRUE, sift |-> TRUE, check |-> TRUE,
            look |-> FALSE, fast |-> FALSE]
Strict  == [engine |-> "script", mode |-> "all", min |-> 2, max |-> 2, force |-> FALSE,
            soft |-> FALSE, sift |-> TRUE, check |-> FALSE,
            look |-> TRUE, fast |-> FALSE]
Forced  == [engine |-> "agent", mode |-> "any", min |-> 1, max |-> 1, force |-> TRUE,
            soft |-> FALSE, sift |-> FALSE, check |-> FALSE,
            look |-> FALSE, fast |-> FALSE]
Quick   == [engine |-> "script", mode |-> "any", min |-> 1, max |-> 2, force |-> FALSE,
            soft |-> FALSE, sift |-> FALSE, check |-> FALSE, look |-> FALSE, fast |-> TRUE]
Settings == {Lasting, Strict, Forced, Quick}
=============================================================================
