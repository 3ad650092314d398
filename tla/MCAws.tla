------------------------------- MODULE MCAws -------------------------------
(***************************************************************************)
(* Aws on small instances.                                                 *)
(***************************************************************************)
EXTENDS Aws

Entry(kind, id, name) ==
  [kind |-> kind, id |-> id, name |-> name, usable |-> TRUE, groups |-> {}, attached |-> {},
   inline |-> <<>>]

UserRow == [Entry("user", "u", "u") EXCEPT !.groups = {"g"}, !.attached = {<<"p", TRUE>>}]

GroupRow == [Entry("group", "1", "g") EXCEPT !.inline = <<"i">>]

PolicyRow == Entry("policy", "2", "p")

\* A user in her group with her policy; rows that say something else of them; rows
\* of one name; rows that are not usable, and names that are not or are there twice.
MCOutputs ==
  {<<>>, <<UserRow>>, <<GroupRow>>, <<PolicyRow>>, <<UserRow, GroupRow, PolicyRow>>,
   <<[UserRow EXCEPT !.attached = {}]>>, <<[GroupRow EXCEPT !.id = "3"]>>,
   <<[PolicyRow EXCEPT !.id = "4"]>>, <<[GroupRow EXCEPT !.id = Unfit]>>,
   <<[UserRow EXCEPT !.usable = FALSE]>>, <<[GroupRow EXCEPT !.inline = <<"i", Unfit, "i">>]>>,
   <<[Entry("role", "5", "5") EXCEPT !.attached = {<<"p", FALSE>>}, !.inline = <<"i", "j">>]>>}

MCPages ==
  [ instances   |-> {<<"ours">>, <<"other">>, <<"moved">>},
    users       |-> {<<>>, <<"u">>, <<"u", Bad>>},
    groups      |-> {<<>>, <<"g">>, <<"u">>},
    members     |-> {<<[id |-> "m", user |-> "u"]>>,
                     <<[id |-> "m", user |-> "u"], [id |-> "k", user |-> "u"]>>},
    accounts    |-> {<<[id |-> "a", named |-> TRUE], [id |-> "b", named |-> FALSE]>>,
                     <<[id |-> "c", named |-> TRUE]>>, <<[id |-> "a", named |-> FALSE]>>},
    permissions |-> {<<>>, <<"p">>},
    assignments |-> {<<[kind |-> "USER", id |-> "u"]>>, <<[kind |-> "GROUP", id |-> "g"]>>,
                     <<[kind |-> "USER", id |-> "g"], [kind |-> "USER", id |-> "u"]>>} ]

=============================================================================
