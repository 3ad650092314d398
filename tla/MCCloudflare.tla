---------------------------- MODULE MCCloudflare ----------------------------
(***************************************************************************)
(* Cloudflare on a small instance: two members, a zone and two groups,     *)
(* with policies that are understood and policies that are not.            *)
(***************************************************************************)
EXTENDS Cloudflare

Assign(p, access, name, target) ==
  [id |-> p, access |-> access, roles |-> {[id |-> "r", name |-> name]}, targets |-> {target}]

Allow == Assign("p", "allow", "n", "*")

OnZone == Assign("q", "allow", "n", "z")

\* More grants than there is room for, in the first case beside one of another subject.
Wide(roles) ==
  [id |-> "w", access |-> "allow", roles |-> {[id |-> r, name |-> "n"] : r \in roles},
   targets |-> {"*", "z"}]

Deny == Assign("d", "other", "n", "*")

\* The role of Allow under another name.
Renamed == Assign("q", "allow", "m", "*")

Member(id, status, policies) == [id |-> id, status |-> status, policies |-> policies]

Zone(ours, usable) == [id |-> "z", ours |-> ours, usable |-> usable]

Group(id, usable, policies) == [id |-> id, usable |-> usable, policies |-> policies]

InGroup(id, status) == [id |-> id, status |-> status]

A == Member("a", "accepted", {OnZone})

B == Member("b", "accepted", {})

MCPages ==
  [ members      |-> {<<>>, <<A>>, <<A, B>>, <<B>>, <<Member("a", "accepted", {Allow, Deny})>>,
                      <<Member("a", "pending", {})>>, <<Member("b", Bad, {})>>,
                      <<Member("b", "accepted", {Allow, Renamed})>>},
    zones        |-> {<<>>, <<Zone(TRUE, TRUE)>>, <<Zone(FALSE, TRUE)>>, <<Zone(TRUE, FALSE)>>,
                      <<[Zone(TRUE, TRUE) EXCEPT !.id = Bad]>>},
    groups       |-> {<<>>, <<Group("g", TRUE, {Allow}), Group("h", TRUE, {Deny})>>,
                      <<Group("g", FALSE, {Deny})>>, <<Group("h", TRUE, {Wide({"r", "s", "t"})})>>,
                      <<Group("h", TRUE, {Wide({"r", "s", "t", "u"})})>>},
    groupMembers |-> {<<>>, <<InGroup("a", "accepted")>>, <<InGroup("a", "pending")>>,
                      <<InGroup("b", Bad)>>,
                      <<InGroup("a", "accepted"), InGroup("b", "accepted")>>} ]

Total(count, pages) == [agrees |-> TRUE, count |-> count, pages |-> pages]

MCInfos ==
  {Total({}, {}), Total({1}, {}), Total({2}, {}), Total({3}, {}), Total({}, {1}), Total({}, {2}),
   Total({0}, {0}), Total({2}, {1}), Total({2}, {2}),
   [agrees |-> FALSE, count |-> {}, pages |-> {}]}

=============================================================================
