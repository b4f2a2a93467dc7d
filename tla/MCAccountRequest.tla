-------------------------- MODULE MCAccountRequest --------------------------
(* An instance of AccountRequest for TLC: two tabs; the wanted account is  *)
(* on the second page of one group, and may join another.                  *)
EXTENDS AccountRequest

CONSTANTS t1, t2, g1, g2

MCRequest == {t1, t2}
MCGroup == {g1, g2}
MCAccount == {1, 2}
MCIdentityOf == [a \in MCAccount |-> 1]
MCFirstMembers == [g \in MCGroup |-> IF g = g1 THEN {1, 2} ELSE {1}]
Ask(action, method) == [action |-> action, method |-> method, account |-> 2]
MCAsks == {Ask("reset", "POST"), Ask("reset", "GET"), Ask("quota", "GET")}

=============================================================================
