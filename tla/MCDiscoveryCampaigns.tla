------------------------ MODULE MCDiscoveryCampaigns -----------------------
\* Instances of DiscoveryCampaigns for TLC.
EXTENDS DiscoveryCampaigns, TLC

Symmetric == Permutations(Campaigns) \cup Permutations(Keys) \cup Permutations(Drafts)
=============================================================================
