------------------------- MODULE ImmutableStoreProofs -------------------------
(***************************************************************************)
(* publish_bytes_atomic for every number of callers and every payload set: *)
(* the answers are truthful, the name is written once, and the function    *)
(* implements the write-once register its callers rely on.                 *)
(***************************************************************************)
EXTENDS ImmutableStore, TLAPS

\* What ties a caller's program counter to its argument, temporary and answer.
CallState(p) ==
  /\ pc[p] = "idle" <=> payload[p] = Absent
  /\ result[p] # "none" <=> pc[p] \in {"unlink", "leave"}
  /\ temporary[p] # Absent => pc[p] \in {"write", "link", "unlink"}
  /\ pc[p] = "link" => temporary[p] = payload[p]

IInv ==
  /\ TypeOK
  /\ \A p \in Publishers : CallState(p)
  /\ AnswersAgree
  /\ OneCreator

LEMMA InitIInv == Init => IInv
  BY StoreAssumption
     DEF Init, IInv, TypeOK, CallState, AnswersAgree, OneCreator, Labels, Results

\* Every step of the function, and every failure, preserves the invariant.
LEMMA NextIInv == IInv /\ [Next]_vars => IInv'
<1> SUFFICES ASSUME IInv, [Next]_vars PROVE IInv'
  OBVIOUS
<1> USE StoreAssumption DEF IInv, TypeOK, CallState, Labels, Results, Goto
<1>1. ASSUME NEW p \in Publishers, NEW bytes \in Payloads, Begin(p, bytes)
      PROVE  IInv'
  BY <1>1 DEF Begin, AnswersAgree, OneCreator
<1>2. ASSUME NEW p \in Publishers, FindExisting(p)
      PROVE  IInv'
  BY <1>2 DEF FindExisting, Compare, AnswersAgree, OneCreator
<1>3. ASSUME NEW p \in Publishers, MakeTemporary(p)
      PROVE  IInv'
  BY <1>3 DEF MakeTemporary, AnswersAgree, OneCreator
<1>4. ASSUME NEW p \in Publishers, WriteTemporary(p)
      PROVE  IInv'
  BY <1>4 DEF WriteTemporary, AnswersAgree, OneCreator
<1>5. ASSUME NEW p \in Publishers, Link(p)
      PROVE  IInv'
  BY <1>5 DEF Link, Compare, AnswersAgree, OneCreator
<1>6. ASSUME NEW p \in Publishers, Unlink(p)
      PROVE  IInv'
  BY <1>6 DEF Unlink, AnswersAgree, OneCreator
<1>7. ASSUME NEW p \in Publishers, Leave(p)
      PROVE  IInv'
  BY <1>7 DEF Leave, AnswersAgree, OneCreator
<1>8. ASSUME NEW p \in Publishers, WriteError(p)
      PROVE  IInv'
  BY <1>8 DEF WriteError, AnswersAgree, OneCreator
<1>9. ASSUME NEW p \in Publishers, Crash(p)
      PROVE  IInv'
  BY <1>9 DEF Crash, AnswersAgree, OneCreator
<1>10. CASE UNCHANGED vars
  BY <1>10 DEF vars, AnswersAgree, OneCreator
<1> QED
  BY <1>1, <1>2, <1>3, <1>4, <1>5, <1>6, <1>7, <1>8, <1>9, <1>10
     DEF Next, Step

\* The inductive invariant holds in every reachable state.
LEMMA Invariance == Spec => []IInv
  BY InitIInv, NextIInv, PTL DEF Spec

\* Type correctness for every instance of the constants.
THEOREM TypeCorrect == Spec => []TypeOK
  BY Invariance, PTL DEF IInv

\* True is returned to at most one of the callers that race for a name, and it
\* means that the stored bytes are the caller's (artifacts.py, os.link).
THEOREM CreatorIsUnique == Spec => []OneCreator
  BY Invariance, PTL DEF IInv

\* False and PublishError never misreport the stored bytes.
THEOREM AnswersAreTruthful == Spec => []AnswersAgree
  BY Invariance, PTL DEF IInv

\* However a call ends, its temporary is gone: only the callers that are between
\* mkstemp and the finally block own one.
THEOREM TemporariesAreOwned == Spec => []NoLeak
<1>1. IInv => NoLeak
  BY DEF IInv, CallState, NoLeak
<1> QED
  BY <1>1, Invariance, PTL

\* No step of any caller changes a name that already has bytes.
THEOREM NameIsWrittenOnce == Spec => Immutable
<1>1. [Next]_vars => [target # Absent => target' = target]_vars
  BY DEF Next, Step, Begin, FindExisting, MakeTemporary, WriteTemporary, Link,
         Unlink, Leave, WriteError, Crash, vars, Goto
<1> QED
  BY <1>1, PTL DEF Spec, Immutable

\* A step of the function is a step of the write-once register or a stutter:
\* finding the target and linking decide the call, the temporary is invisible.
LEMMA StepRefines == IInv /\ [Next]_vars => [Abstract!Next]_(Abstract!vars)
<1> SUFFICES ASSUME IInv, [Next]_vars PROVE [Abstract!Next]_(Abstract!vars)
  OBVIOUS
<1> USE StoreAssumption DEF IInv, TypeOK, CallState, Labels, Results, Goto
<1>1. ASSUME NEW p \in Publishers, NEW bytes \in Payloads, Begin(p, bytes)
      PROVE  Abstract!Call(p, bytes)
  BY <1>1 DEF Begin, Abstract!Call
<1>2. ASSUME NEW p \in Publishers, FindExisting(p)
      PROVE  Abstract!Decide(p)
  BY <1>2 DEF FindExisting, Compare, Abstract!Decide, Abstract!Verdict, Abstract!Stored
<1>3. ASSUME NEW p \in Publishers, Link(p)
      PROVE  Abstract!Decide(p)
  BY <1>3 DEF Link, Compare, Abstract!Decide, Abstract!Verdict, Abstract!Stored
<1>4. ASSUME NEW p \in Publishers, Leave(p)
      PROVE  Abstract!Return(p)
  BY <1>4 DEF Leave, Abstract!Return
<1>5. ASSUME NEW p \in Publishers, WriteError(p)
      PROVE  Abstract!Die(p)
  BY <1>5 DEF WriteError, Abstract!Die
<1>6. ASSUME NEW p \in Publishers, Crash(p)
      PROVE  Abstract!Die(p)
  BY <1>6 DEF Crash, Abstract!Die
<1>7. ASSUME NEW p \in Publishers,
             MakeTemporary(p) \/ WriteTemporary(p) \/ Unlink(p)
      PROVE  UNCHANGED Abstract!vars
  BY <1>7 DEF MakeTemporary, WriteTemporary, Unlink, Abstract!vars
<1>8. CASE UNCHANGED vars
  BY <1>8 DEF vars, Abstract!vars
<1> QED
  BY <1>1, <1>2, <1>3, <1>4, <1>5, <1>6, <1>7, <1>8
     DEF Next, Step, Abstract!Next

\* publish_bytes_atomic implements WriteOnce.
THEOREM ImplementsWriteOnce == Spec => Refinement
<1>1. Init => Abstract!Init
  BY DEF Init, Abstract!Init
<1> QED
  BY <1>1, StepRefines, Invariance, PTL DEF Spec, Refinement, Abstract!Spec
==============================================================================
