----------------------------- MODULE MCService -----------------------------
\* Instances of Service for TLC.
EXTENDS Service, TLC

CONSTANTS dev, u, v, t1, t2

Local == {[bearer |-> NoToken, loopback |-> TRUE]}
Administration == [ops |-> {"device"}, callers |-> Local]
Paging == [ops |-> {"snapshot", "list", "delete"}, callers |-> Local]
Locking == [ops |-> {"token"}, callers |-> Callers]
MCWorkloads == {Administration, Paging, Locking}

\* .09, .10 and .11 of a second: the texts sort as .09, .11, .1
MCStamps == <<<<0, 9>>, <<1, 0>>, <<1, 1>>>>

ClientSymmetry == Permutations(Clients)

============================================================================
