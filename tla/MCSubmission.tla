---------------------------- MODULE MCSubmission ----------------------------
EXTENDS Submission, TLC

CONSTANTS alice, bob, x, y

Symmetry == Permutations(Calls)

In(t, d, ttl, by, need) ==
  [template |-> t, dep |-> d, ttl |-> ttl, byCaller |-> by, needed |-> need]

\* A region from the caller's cached list, and an instance in that region.
Cascade == <<In("region", 0, 1, TRUE, FALSE), In("instance", 1, 0, TRUE, TRUE)>>
\* Two inputs with one list, the second to be cached for a shorter time.
Twins == <<In("region", 0, 2, FALSE, FALSE), In("region", 0, 1, FALSE, FALSE)>>

\* alice loses her regions when the service's state changes, bob gets his.
MCGrants ==
  << {<<"region", alice, Absent, x>>, <<"instance", alice, x, x>>},
     {<<"region", bob, Absent, x>>, <<"instance", bob, x, x>>,
      <<"instance", alice, x, x>>} >>
TwinGrants ==
  << {<<"region", NoOne, Absent, x>>, <<"region", NoOne, Absent, y>>}, {} >>

CascadePayloads ==
  {<<x, x>>, <<y, x>>, <<Absent, x>>, <<Other, Absent>>}
TwinPayloads == {<<x, Absent>>, <<Absent, y>>}
==============================================================================
