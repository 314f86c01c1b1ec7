---------------------------- MODULE MCQueryCancel ----------------------------
\* QueryCancel on a pool of two (the drivers' max_connections): the runs with a
\* query_id are q1 and q2, a third one has none and is only a bystander.
EXTENDS QueryCancel

CONSTANTS q1, q2, q3, k1, b1, b2, b3

MCTokened == {q1, q2}

=============================================================================
