--------------------------- MODULE MCCredentials ---------------------------
(***************************************************************************)
(* Small instances of Credentials for TLC: one BMC with two OperatorAdmins *)
(* and, in some runs, a ServiceAccount.                                    *)
(***************************************************************************)
EXTENDS Credentials, TLC

EitherAdmin == Permutations(Admins)

-----------------------------------------------------------------------------
(* Two beginnings of one run: a pair of admins whose credentials are       *)
(* proven, or one such admin and a ServiceAccount that was just made; the  *)
(* other users are not there.                                              *)

Beginning(proven, new) ==
    \E own \in [proven -> 2..(Cardinality(proven) + 1)] :
        /\ {own[u] : u \in proven} = 2..(Cardinality(proven) + 1)
        /\ users = [u \in Users |->
                       IF u \in proven
                       THEN [NewUser EXCEPT !.id = TRUE, !.spec = own[u],
                                            !.eff = own[u], !.observed = own[u]]
                       ELSE [NewUser EXCEPT !.exists = u \in new]]
        /\ made = [s \in 1..(Cardinality(proven) + 1) |->
                      IF s = Factory THEN FactorySecret
                      ELSE LET u == CHOOSE u \in proven : own[u] = s IN
                           [account |-> u, owner |-> u, label |-> 0,
                            bad |-> FALSE]]
        /\ live = DOMAIN made
        /\ password = [a \in Accounts |->
                          CASE a = Factory -> Factory
                            [] a \in proven -> own[a]
                            [] OTHER -> None]
        /\ cred \in {own[u] : u \in proven}
        /\ userQueue = proven \cup new

PairOrService ==
    /\ Beginning(Admins, {}) \/ \E x \in Admins : Beginning({x}, Services)
    /\ rotations = << >>
    /\ cache = Store
    /\ rotQueue = {}
    /\ userJob = Idle /\ rotJob = Idle
    /\ faults = 0

\* Bound: beside a ServiceAccount there is one rotation, of its own, or one fault
\* (a CONSTRAINT: what comes after more is not explored).
OneWithService ==
    \/ \A x \in Admins : users[x].exists
    \/ Len(rotations) + faults <= 1 /\ \A x \in Admins : ~users[x].due

MCSpec == PairOrService /\ [][Next]_vars
=============================================================================
