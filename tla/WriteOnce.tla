------------------------------ MODULE WriteOnce ------------------------------
(***************************************************************************)
(* What artifacts.publish_bytes_atomic promises to its callers: one file   *)
(* name is a register that is written at most once, atomically.  A call    *)
(* ends with exactly one of three answers:                                 *)
(*                                                                         *)
(*   "created"   - the function returned True, the caller's bytes are new; *)
(*   "identical" - it returned False, the same bytes were already there;   *)
(*   "conflict"  - it raised PublishError, other bytes were already there. *)
(*                                                                         *)
(* A call may also die without an answer (process crash, full disk).       *)
(***************************************************************************)
EXTENDS Publication

CONSTANTS Publishers,  \* threads and processes that publish under this name
          Payloads     \* the byte strings they publish; Absent is none of them

VARIABLES content,  \* what a reader of the name sees
          request,  \* the payload of the call each publisher is in
          answer    \* how that call was decided, "none" before that

vars == <<content, request, answer>>

Init ==
  /\ content = Absent
  /\ request = [p \in Publishers |-> Absent]
  /\ answer  = [p \in Publishers |-> "none"]

Call(p, payload) ==
  /\ request[p] = Absent
  /\ request' = [request EXCEPT ![p] = payload]
  /\ UNCHANGED <<content, answer>>

Decide(p) ==
  /\ request[p] # Absent
  /\ answer[p] = "none"
  /\ answer'  = [answer EXCEPT ![p] = Verdict(content, request[p])]
  /\ content' = Stored(content, request[p])
  /\ UNCHANGED request

Return(p) ==
  /\ answer[p] # "none"
  /\ request' = [request EXCEPT ![p] = Absent]
  /\ answer'  = [answer EXCEPT ![p] = "none"]
  /\ UNCHANGED content

\* The call ends without telling its caller anything.
Die(p) ==
  /\ request[p] # Absent
  /\ request' = [request EXCEPT ![p] = Absent]
  /\ answer'  = [answer EXCEPT ![p] = "none"]
  /\ UNCHANGED content

Next ==
  \E p \in Publishers :
    \/ \E payload \in Payloads : Call(p, payload)
    \/ Decide(p)
    \/ Return(p)
    \/ Die(p)

Spec == Init /\ [][Next]_vars

==============================================================================
