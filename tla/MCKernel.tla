------------------------------ MODULE MCKernel ------------------------------
(***************************************************************************)
(* The model-checking instances of the kernel.  Every run gives the        *)
(* constants its own values; what they share is here.                      *)
(***************************************************************************)
EXTENDS KernelMailbox

\* State constraint of the runs that combine preemption and termination: the
\* model is not followed past the first thread_free of a free descriptor,
\* which is where the lists stop meaning anything.
NotStale == ~stale
=============================================================================
