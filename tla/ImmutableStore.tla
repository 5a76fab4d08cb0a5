--------------------------- MODULE ImmutableStore ---------------------------
(***************************************************************************)
(* artifacts.publish_bytes_atomic, system call by system call, for one     *)
(* target name and any number of concurrent callers.  A caller looks for   *)
(* the target, writes its payload to a private temporary, hard-links the   *)
(* temporary to the target and finally removes the temporary.  A process   *)
(* may crash, and the write may fail, anywhere in between.                 *)
(*                                                                         *)
(* The module also is the file-system semantics the other modules rely on: *)
(* they take a publication as one atomic step, which Refinement justifies. *)
(***************************************************************************)
EXTENDS Naturals, FiniteSets

CONSTANTS Publishers,  \* concurrent callers of publish_bytes_atomic(target, .)
          Payloads,    \* the byte strings they publish
          Absent,      \* a name without a file, a caller without a call
          Partial,     \* a file whose bytes are not all written
          MaxOrphans   \* bound: temporaries left behind by crashes

ASSUME StoreAssumption ==
  /\ Absent \notin Payloads
  /\ Partial \notin Payloads
  /\ Absent # Partial
  /\ MaxOrphans \in Nat

VARIABLES target,    \* bytes under the published name
          temporary, \* bytes in each caller's mkstemp file
          orphans,   \* number of temporaries whose owner crashed
          payload,   \* argument of the call in progress
          pc,        \* where each caller is in publish_bytes_atomic
          result     \* the answer once the call has decided

vars == <<target, temporary, orphans, payload, pc, result>>

Labels == {"idle", "check", "write", "link", "unlink", "leave"}
Results == {"none", "created", "identical", "conflict"}

TypeOK ==
  /\ target \in Payloads \cup {Absent}
  /\ temporary \in [Publishers -> Payloads \cup {Absent, Partial}]
  /\ orphans \in Nat
  /\ payload \in [Publishers -> Payloads \cup {Absent}]
  /\ pc \in [Publishers -> Labels]
  /\ result \in [Publishers -> Results]

Goto(p, from, to) ==
  /\ pc[p] = from
  /\ pc' = [pc EXCEPT ![p] = to]

\* The comparison made when the target is found to exist: identical bytes are
\* an idempotent resume (return False), other bytes raise PublishError.
Compare(bytes) == IF target = bytes THEN "identical" ELSE "conflict"

Init ==
  /\ target = Absent
  /\ temporary = [p \in Publishers |-> Absent]
  /\ orphans = 0
  /\ payload = [p \in Publishers |-> Absent]
  /\ pc = [p \in Publishers |-> "idle"]
  /\ result = [p \in Publishers |-> "none"]

Begin(p, bytes) ==
  /\ Goto(p, "idle", "check")
  /\ payload' = [payload EXCEPT ![p] = bytes]
  /\ UNCHANGED <<target, temporary, orphans, result>>

\* target.exists() and, when it does, read_bytes(): one step, because a target
\* that exists never changes again.
FindExisting(p) ==
  /\ target # Absent
  /\ Goto(p, "check", "leave")
  /\ result' = [result EXCEPT ![p] = Compare(payload[p])]
  /\ UNCHANGED <<target, temporary, orphans, payload>>

MakeTemporary(p) ==
  /\ target = Absent
  /\ Goto(p, "check", "write")
  /\ temporary' = [temporary EXCEPT ![p] = Partial]
  /\ UNCHANGED <<target, orphans, payload, result>>

\* write, flush, fsync
WriteTemporary(p) ==
  /\ Goto(p, "write", "link")
  /\ temporary' = [temporary EXCEPT ![p] = payload[p]]
  /\ UNCHANGED <<target, orphans, payload, result>>

\* (mutant) The loser of the race waits for the name to become free.
LinkWhenFree(p) ==
  /\ target = Absent
  /\ Goto(p, "link", "unlink")
  /\ target' = temporary[p]
  /\ result' = [result EXCEPT ![p] = "created"]
  /\ UNCHANGED <<temporary, orphans, payload>>

\* (mutant) The loser of the race does not compare the winner's bytes.
LinkLoserTrusting(p) ==
  /\ Goto(p, "link", "unlink")
  /\ target' = IF target = Absent THEN temporary[p] ELSE target
  /\ result' = [result EXCEPT ![p] =
                  IF target = Absent THEN "created" ELSE "identical"]
  /\ UNCHANGED <<temporary, orphans, payload>>

\* os.link creates the name or fails with FileExistsError, atomically.
Link(p) ==
  /\ Goto(p, "link", "unlink")
  /\ target' = IF target = Absent THEN temporary[p] ELSE target
  /\ result' = [result EXCEPT ![p] =
                  IF target = Absent THEN "created" ELSE Compare(payload[p])]
  /\ UNCHANGED <<temporary, orphans, payload>>

\* The finally block: the temporary is removed on every path that made one.
Unlink(p) ==
  /\ Goto(p, "unlink", "leave")
  /\ temporary' = [temporary EXCEPT ![p] = Absent]
  /\ UNCHANGED <<target, orphans, payload, result>>

Leave(p) ==
  /\ Goto(p, "leave", "idle")
  /\ payload' = [payload EXCEPT ![p] = Absent]
  /\ result'  = [result EXCEPT ![p] = "none"]
  /\ UNCHANGED <<target, temporary, orphans>>

\* (mutant) No finally block around the write.
WriteErrorNoFinally(p) ==
  /\ pc[p] \in {"check", "write", "link"}
  /\ pc' = [pc EXCEPT ![p] = "idle"]
  /\ payload' = [payload EXCEPT ![p] = Absent]
  /\ UNCHANGED <<target, temporary, orphans, result>>

\* A mkstemp, write or link that fails with OSError still runs the finally block; the
\* caller gets an exception that is not PublishError.
WriteError(p) ==
  /\ pc[p] \in {"check", "write", "link"}
  /\ pc' = [pc EXCEPT ![p] = "idle"]
  /\ temporary' = [temporary EXCEPT ![p] = Absent]
  /\ payload' = [payload EXCEPT ![p] = Absent]
  /\ UNCHANGED <<target, orphans, result>>

\* The process dies: its temporary, if it has one, stays in the directory.
Crash(p) ==
  /\ pc[p] # "idle"
  /\ orphans < MaxOrphans
  /\ orphans' = IF temporary[p] = Absent THEN orphans ELSE orphans + 1
  /\ temporary' = [temporary EXCEPT ![p] = Absent]
  /\ payload' = [payload EXCEPT ![p] = Absent]
  /\ result'  = [result EXCEPT ![p] = "none"]
  /\ pc' = [pc EXCEPT ![p] = "idle"]
  /\ UNCHANGED target

Step(p) ==
  \/ FindExisting(p)
  \/ MakeTemporary(p)
  \/ WriteTemporary(p)
  \/ Link(p)
  \/ Unlink(p)
  \/ Leave(p)

Next ==
  \E p \in Publishers :
    \/ \E bytes \in Payloads : Begin(p, bytes)
    \/ Step(p)
    \/ WriteError(p)
    \/ Crash(p)

Spec == Init /\ [][Next]_vars

\* A caller that is inside the function keeps executing unless it crashes.
FairSpec == Spec /\ \A p \in Publishers : WF_vars(Step(p))

------------------------------------------------------------------------------

\* Of the callers that are still inside the function at most one was told that
\* it created the file, and all that were told so published the bytes a reader
\* sees: True means "mine", for everybody at once.
OneCreator ==
  \A p, q \in Publishers :
    /\ (result[p] = "created" /\ result[q] = "created") => p = q
    /\ result[p] = "created" => target = payload[p]

\* False is never returned for bytes that differ from the stored ones, and
\* PublishError is never raised when the caller's bytes are the stored ones.
AnswersAgree ==
  \A p \in Publishers :
    /\ result[p] = "identical" => target = payload[p]
    /\ result[p] = "conflict"  => target \notin {payload[p], Absent}

\* A name that a reader has seen keeps its bytes for good, whoever publishes,
\* fails or crashes afterwards.
Immutable == [][target # Absent => target' = target]_vars

\* Temporaries are bounded by crashes: outside a call a caller owns none.
NoLeak ==
  \A p \in Publishers : temporary[p] # Absent => pc[p] \in {"write", "link", "unlink"}

\* Every call that is not killed ends.
CallsEnd == \A p \in Publishers : (pc[p] # "idle") ~> (pc[p] = "idle")

\* The function as its callers see it.
Abstract == INSTANCE WriteOnce WITH
  content <- target, request <- payload, answer <- result

\* publish_bytes_atomic implements the write-once register.
Refinement == Abstract!Spec

==============================================================================
