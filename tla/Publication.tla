----------------------------- MODULE Publication -----------------------------
(***************************************************************************)
(* The outcome of one publish_bytes_atomic call as a function of what is   *)
(* stored under the name.  Modules that use files take a publication as    *)
(* one step and describe it with these two operators; ImmutableStore shows *)
(* that the code's sequence of system calls implements that step.          *)
(***************************************************************************)
CONSTANT Absent  \* "the file does not exist"

Answers == {"created", "identical", "conflict"}

\* "created": the call returns True.  "identical": it returns False.
\* "conflict": it raises PublishError.
Verdict(stored, bytes) ==
  IF stored = Absent THEN "created"
  ELSE IF stored = bytes THEN "identical" ELSE "conflict"

\* What the name holds after the call: the first payload, for good.
Stored(stored, bytes) == IF stored = Absent THEN bytes ELSE stored

==============================================================================
