---------------------------- MODULE MCDuckSubproc ----------------------------
(***************************************************************************)
(* Instances of DuckSubproc for TLC: two goroutines, three queries, so that *)
(* the drain can lag one whole query behind while a third one waits.        *)
(***************************************************************************)
EXTENDS DuckSubproc

CONSTANTS a, b, none
=============================================================================
