--------------------------- MODULE MCGithubClient ---------------------------
(***************************************************************************)
(* GithubClient on small instances.                                        *)
(***************************************************************************)
EXTENDS GithubClient

None == [is |-> "absent", seconds |-> 0]

Unreadable == [is |-> "unreadable", seconds |-> 0]

Wait(n) == [is |-> "wait", seconds |-> n]

\* No header, a short wait, one past the 60 seconds, a primary limit that
\* outlasts Retry-After, and one whose end cannot be read.
MCHeaders ==
  { [retryAfter |-> None, reset |-> None],
    [retryAfter |-> Wait(3), reset |-> None],
    [retryAfter |-> Wait(61), reset |-> None],
    [retryAfter |-> Wait(3), reset |-> Wait(20)],
    [retryAfter |-> Wait(3), reset |-> Unreadable] }

=============================================================================
