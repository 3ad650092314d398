------------------------------ MODULE MCGitlab ------------------------------
(***************************************************************************)
(* Gitlab on a small instance: two users, of whom one is described in      *)
(* three ways, and a project that is listed by its group or by another.    *)
(***************************************************************************)
EXTENDS Gitlab

User(id, person, usable, level) ==
  [id |-> id, person |-> person, bot |-> level = 0, usable |-> usable, level |-> level]

Alice == User(5, "alice", TRUE, 30)
Renamed == User(5, "alicia", TRUE, 40)
Expired == User(5, "alice", FALSE, 30)
Nobody == User(0, "alice", TRUE, 30)
Bot == User(6, "bot", TRUE, 0)
NoName == User(6, Bad, TRUE, 30)

MCMemberPages ==
  { <<>>, <<Alice>>, <<Renamed>>, <<Expired>>, <<Bot>>, <<NoName>>, <<Alice, Bot>>,
    <<Bot, Renamed>>, <<Alice, Nobody>>, <<Alice, Bot, Expired>> }

MCProjectPages ==
  {<<>>, <<[id |-> 3, parent |-> 1]>>, <<[id |-> 3, parent |-> 8]>>}

Silent == [echo |-> "absent", next |-> -1, total |-> -1, link |-> "absent"]

MCHeaders ==
  { Silent,
    [Silent EXCEPT !.next = 2],
    [Silent EXCEPT !.total = 2, !.echo = "same"],
    [Silent EXCEPT !.link = "next"],
    [Silent EXCEPT !.next = 0, !.link = "next"] }

=============================================================================
