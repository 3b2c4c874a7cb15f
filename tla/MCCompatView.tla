----------------------------- MODULE MCCompatView -----------------------------
(* The same instances, with a backend that looks at the task.              *)
EXTENDS MCRollingTask, CompatView
===============================================================================
