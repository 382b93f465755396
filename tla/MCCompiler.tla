----------------------------- MODULE MCCompiler -----------------------------
(***************************************************************************)
(* Instances of Compiler: one run with any options, runs that build two    *)
(* libraries, one importing the other, with edits, and two at a time.      *)
(***************************************************************************)
EXTENDS Compiler

CONSTANTS p, q, lib, mid, base, prog

O(format, check, jit, mlir_ir, from_string) ==
  [format |-> format, check |-> check, jit |-> jit, mlir_ir |-> mlir_ir,
   from_string |-> from_string]

AllOptions ==
  {O(f, c, j, m, s) : f \in {"static", "shared"}, c \in BOOLEAN,
                      j \in BOOLEAN, m \in BOOLEAN, s \in BOOLEAN}
Static == O("static", FALSE, FALSE, FALSE, FALSE)
Shared == O("shared", FALSE, FALSE, FALSE, FALSE)

MCScenarios ==
  {[procs |-> {p}, stems |-> {mid, prog}, options |-> AllOptions, versions |-> 1],
   [procs |-> {p}, stems |-> {lib, mid}, options |-> {Static}, versions |-> 2],
   [procs |-> {p, q}, stems |-> {lib, mid}, options |-> {Static}, versions |-> 1],
   [procs |-> {p}, stems |-> {mid}, options |-> {Static, Shared}, versions |-> 2],
   [procs |-> {p}, stems |-> {lib, mid}, options |-> {Static, Shared}, versions |-> 1],
   [procs |-> {p}, stems |-> {lib, mid, base}, options |-> {Static}, versions |-> 1],
   [procs |-> {p}, stems |-> {prog}, options |-> {Shared}, versions |-> 3]}

MCImports ==
  [s \in Stems |-> IF s \in {lib, prog} THEN <<mid>> ELSE IF s = mid THEN <<base>> ELSE <<>>]
=============================================================================
