-------------------------- MODULE MCLeafTranslation --------------------------
\* Two runners on one root, three calls between them (so that one runner can
\* come back after a crash while the other is still inside), two settings and a
\* third whose endpoint is refused, and one body of each kind the local contract
\* tells apart.
EXTENDS LeafTranslation

CONSTANTS good, research, bad

MCParse == [b \in {good, research, bad} |->
              CASE b = good     -> "translated"
                [] b = research -> "research_needed"
                [] b = bad      -> "invalid"]
==============================================================================
