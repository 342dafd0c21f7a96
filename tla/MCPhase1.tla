------------------------------ MODULE MCPhase1 ------------------------------
(***************************************************************************)
(* The model-checking instance of the calls of tests/p1test.c.             *)
(***************************************************************************)
EXTENDS MikabooqPointers

\* View: no call looks at what the one before it has returned.
Pointers == <<pointervars, history>>

\* State constraint: messages are queued while the root is the only process.
\* The lists of processes and those of messages have no cell in common.
OneTable ==
  \/ \A p \in Proc : p_parent[p] = NULL
  \/ \A t \in Tcb : list_empty(mem, msgs_of(t))
=============================================================================
