-------------------------- MODULE MCWorkerThreads ---------------------------
EXTENDS WorkerThreads

CONSTANTS main, other

TwoClients == {main, other}

\* One routine for all threads, or two that meet in sync().
OneOrTwo == {{"loop"}, {"poll"}, {"once"}, {"loop", "once"}}

\* Those that support sync().
Syncing == {{"loop"}, {"once"}, {"loop", "once"}}

\* The main thread does what the demo and the tests do; another thread adds
\* workers meanwhile.  Both may call sync().
MainAndOther ==
  [c \in TwoClients |->
     IF c = main THEN {"pause", "sync", "wait", "stop", "join"} ELSE {"add", "sync"}]

\* The main thread syncs and stops alone.
MainSyncs ==
  [c \in TwoClients |-> IF c = main THEN {"sync", "stop"} ELSE {}]
=============================================================================
