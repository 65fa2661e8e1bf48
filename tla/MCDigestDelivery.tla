-------------------------- MODULE MCDigestDelivery --------------------------
EXTENDS DigestDelivery, TLC

CONSTANTS a, b, root, adm, tenant, s1, bad, r1, r2, run, web, job

MCDeployed == a :> Absent @@ b :> tenant
MCFirst == [profile |-> a :> s1 @@ b :> Absent, admins |-> {adm}]
MCHome == r1 :> web @@ r2 :> web @@ run :> job
MCAsks == {
    [who |-> adm, edit |-> [op |-> "update", old |-> a, email |-> a, scope |-> bad]],
    [who |-> root, edit |-> [op |-> "removeAdmin", principal |-> adm]]}
Symmetry == Permutations(Requests)
=============================================================================
