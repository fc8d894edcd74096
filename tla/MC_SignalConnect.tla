-------------------------- MODULE MC_SignalConnect --------------------------
(* Instantiation of SignalConnect for TLC.                                  *)
EXTENDS SignalConnect

\* a build whose allocator hands out zeroed memory: promise_ starts null
MC_NullPromise == {"null"}
\* a build that leaves heap garbage (e.g. a debug heap fill pattern)
MC_AnyPromise == {"null", "garbage"}
=============================================================================
