---------------------------- MODULE MCRegistryNet ----------------------------
EXTENDS WebRegistry

\* A proof-of-work admission and the ghost key admission that upgrades it.
MCCores == {[ts |-> 2, sig |-> 1, tier |-> "pow"],
            [ts |-> 1, sig |-> 2, tier |-> "ghostkey"]}

\* Two nickname changes that were signed with the same version.
MCNicknames == {[version |-> 1, sig |-> 1], [version |-> 2, sig |-> 1],
                [version |-> 2, sig |-> 2]}
=============================================================================
