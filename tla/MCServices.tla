----------------------------- MODULE MCServices -----------------------------
(***************************************************************************)
(* Small instances of the components around the documents for TLC, which   *)
(* explores one of them in each behaviour.  They share no variable.        *)
(***************************************************************************)
EXTENDS Notices, Postgres, LoginGate, Accounts, TLC

VARIABLE part   (* the component that runs                                  *)

serviceVars == <<part, vars, pgVars, loginVars, accountVars>>

CONSTANTS n1, n2, t1, t2, s1

(* Notices: a publisher on each of two processes, a stream on the first.   *)
(* The order of two events matters most when they come through Redis.      *)
TwoNodes  == (t1 :> n1) @@ (t2 :> n2) @@ (s1 :> n1)
OneAndTwo == (t1 :> 1) @@ (t2 :> 2)

ServicesInit ==
  /\ part \in {"notices", "postgres", "login", "accounts"}
  /\ Init /\ PostgresInit /\ LoginInit /\ AccountsInit

ServicesNext ==
  /\ \/ part = "notices"  /\ Next         /\ UNCHANGED <<pgVars, loginVars, accountVars>>
     \/ part = "postgres" /\ PostgresNext /\ UNCHANGED <<vars, loginVars, accountVars>>
     \/ part = "login"    /\ LoginNext    /\ UNCHANGED <<vars, pgVars, accountVars>>
     \/ part = "accounts" /\ AccountsNext /\ UNCHANGED <<vars, pgVars, loginVars>>
  /\ UNCHANGED part

(* The fairness of each component, for the one that runs: line i of it has *)
(* the i-th fair process of each, so that TLC has few formulas to keep.    *)
Lines == <<[thread |-> {t1}, conn |-> {n1}, old |-> {}],
           [thread |-> {t2}, conn |-> {n2}, old |-> {}],
           [thread |-> {},   conn |-> {},   old |-> {n1}],
           [thread |-> {},   conn |-> {},   old |-> {n2}]>>

Goes(l) ==
  \/ /\ part = "notices" /\ \E t \in l.thread : Publishes(t)
     /\ UNCHANGED <<part, pgVars, loginVars, accountVars>>
  \/ /\ part = "postgres"
     /\ (\E p \in l.conn : Run(p)) \/ (\E p \in l.old : CloseRetired(p))
     /\ UNCHANGED <<part, vars, loginVars, accountVars>>

ServicesSpec ==
  /\ ServicesInit /\ [][ServicesNext]_serviceVars
  /\ \A i \in DOMAIN Lines : WF_serviceVars(Goes(Lines[i]))
=============================================================================
