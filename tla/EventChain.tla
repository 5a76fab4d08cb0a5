------------------------------ MODULE EventChain ------------------------------
(***************************************************************************)
(* events.EventLog: one event per shard file, each with its sequence       *)
(* number and the hash of the event before it.  A hash stands for what it  *)
(* hashes, so an event is the sequence of payloads from the first event of *)
(* its chain up to its own: its length is the sequence number, and its     *)
(* front is the event whose hash it carries.                               *)
(***************************************************************************)
EXTENDS Naturals, Sequences

\* The shard files of the log that ends with an event.
Chain(event) == {SubSeq(event, 1, n) : n \in 1..Len(event)}

\* EventLog.read_verified raises unless, in file name order, the n-th event has
\* sequence n and carries the hash of the event before it.
Intact(shards) == \E head \in shards \cup {<<>>} : shards = Chain(head)

\* The event a verified log ends with, <<>> for an empty log.
LastEvent(shards) == CHOOSE head \in shards \cup {<<>>} : shards = Chain(head)

==============================================================================
