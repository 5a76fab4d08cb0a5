------------------------------ MODULE MCCuration ------------------------------
\* A small instance of Curation.  The constraint only cuts branches whose
\* interleavings other branches show.
EXTENDS Curation

\* Rows x and y present the same context and differ in behaviour, w has no
\* segments; the first file is replaced by one with as many rows.

MCText == << << <<"x", "bad", "z">>, <<"x", "w", "u">> >>, << <<"y", "u">> >> >>
MCContext == [x |-> 1, y |-> 1, z |-> 2, w |-> 3, u |-> 4]
MCBehaviour == [x |-> 1, y |-> 2, z |-> 1, w |-> 1, u |-> 1]
MCSegments == [x |-> 1, y |-> 1, z |-> 2, w |-> 0, u |-> 1]
MCOrder ==
  [id |-> [e \in EpisodeIds |-> 100 * e[1] + 10 * e[2] + e[3]],
   candidate |-> [e \in EpisodeIds |-> 100 * e[3] + 10 * e[2] + e[1]],
   canary |-> [e \in EpisodeIds |-> 999 - (100 * e[1] + 10 * e[2] + e[3])]]

\* An edit of a dataset file need not change its episodes.
MCContents == << << <<"a">>, <<"a">> >>, << <<"b">>, <<"b">> >> >>
MCEpisodeOf == [va |-> "a", va2 |-> "a", vb |-> "b"]
MCEpisodeRank == [a |-> 1, b |-> 2]
Member(e, v, d) ==
  [episode |-> e, verdict |-> v, review |-> [verdict |-> v, decision |-> d]]
MCMemberLists ==
  {Member("a", "va", "accept_for_gold"), Member("a", "va2", "reject")}
    \X {Member("b", v, "accept_for_gold") : v \in {"va", "va2", "vb"}}

\* Bounds: drawing is followed while no pilot runs and before rejected rows or
\* reports are published, from at most two audits and, for batches, with one set
\* of inputs; of worklists and of reports of a release one is followed.
Bounded ==
  /\ batches # {} \/ canaries # {} => <<stage, quarantines, pilots, worklists>> = <<"none", {}, {}, {}>>
  /\ worklists # {} => <<stage, pilots>> = <<"none", {}>> /\ Cardinality(worklists) = 1
  /\ \A b, c \in batches : <<b.files, b.audits, b.cap>> = <<c.files, c.audits, c.cap>>
  /\ Cardinality(audits) < 3
  /\ Cardinality(reports) < 2
==============================================================================
