----------------------- MODULE MCMembershipCollection -----------------------
EXTENDS MembershipCollection

MCMaxEntries == [s \in Sources |-> s]
=============================================================================
