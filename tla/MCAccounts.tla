----------------------------- MODULE MCAccounts -----------------------------
(* Databases to start the server on.                                       *)
EXTENDS Accounts, TLC

CONSTANTS u1, u2, t1, t2, p1

(* A new installation.                                                     *)
Empty == [account |-> [u \in Users |-> None],
          roles |-> [u \in Users |-> [r \in Roles |-> None]],
          token |-> [t \in Tokens |-> None]]

(* An administrator, who has assigned all roles, and an auditor who has    *)
(* registered a key but has yet to change the password; others may come.   *)
Staffed ==
    [account |-> [u \in Users |->
        CASE u = u1 -> [active |-> TRUE, must |-> FALSE, key |-> "valid", password |-> p1]
          [] u = u2 -> [active |-> TRUE, must |-> TRUE, key |-> "valid", password |-> p1]
          [] OTHER  -> None],
     roles |-> [u \in Users |-> [r \in Roles |->
        IF <<u, r>> \in {<<u1, "ADMIN">>, <<u2, "AUDITOR">>} THEN u1 ELSE None]],
     token |-> [t \in Tokens |->
        CASE t = t1 -> [user |-> u1, state |-> "live"]
          [] t = t2 -> [user |-> u2, state |-> "live"]
          [] OTHER  -> None]]

EmptyOrStaffed == {Empty, Staffed}
JustEmpty == {Empty}

SlotSymmetry == Permutations(Slots)
=============================================================================
