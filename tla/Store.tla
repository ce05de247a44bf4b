-------------------------------- MODULE Store --------------------------------
(***************************************************************************)
(* blob.Store, as its callers see it: a call is asked, takes effect at one *)
(* moment before it returns, and says what it did.  A put or a deletion    *)
(* that fails may have had its effect, and never any other.  R2Cache       *)
(* implements this with a bucket, a directory of copies and locks.         *)
(***************************************************************************)
CONSTANTS
  Caller,   (* those who call the store                                    *)
  Key       (* storage keys                                                *)

VARIABLES
  stored,   (* the keys with an object                                     *)
  call      (* what each caller asks for, and the answer when there is one *)

storeVars == <<stored, call>>

Op     == {"put", "path", "delete"}
Answer == {"ok", "absent", "failed"}

Asked(op, k) == [op |-> op, key |-> k, answer |-> "none"]
NoCall == Asked("none", CHOOSE k \in Key : TRUE)

Init ==
  /\ stored \in SUBSET Key
  /\ call = [c \in Caller |-> NoCall]

Pending(c, op) == call[c].op = op /\ call[c].answer = "none"
Says(c, a)     == call' = [call EXCEPT ![c].answer = a]

Ask(c, op, k) ==
  /\ call[c] = NoCall
  /\ call' = [call EXCEPT ![c] = Asked(op, k)]
  /\ UNCHANGED stored

\* A put has two steps: others may find the object before the put returns.
Write(c) ==
  /\ Pending(c, "put")
  /\ stored' = stored \cup {call[c].key}
  /\ UNCHANGED call

\* What was put, or is found, is there.
Have(c) ==
  /\ Pending(c, "put") \/ Pending(c, "path")
  /\ call[c].key \in stored
  /\ Says(c, "ok")
  /\ UNCHANGED stored

\* ErrNotFound.
Miss(c) ==
  /\ Pending(c, "path")
  /\ call[c].key \notin stored
  /\ Says(c, "absent")
  /\ UNCHANGED stored

Erase(c) ==
  /\ Pending(c, "delete")
  /\ stored' = stored \ {call[c].key}
  /\ Says(c, "ok")

Effects(c) ==
  CASE call[c].op = "put"    -> {stored, stored \cup {call[c].key}}
    [] call[c].op = "delete" -> {stored, stored \ {call[c].key}}
    [] OTHER                 -> {stored}

Fail(c) ==
  /\ call[c].op \in Op /\ call[c].answer = "none"
  /\ stored' \in Effects(c)
  /\ Says(c, "failed")

Return(c) ==
  /\ call[c].answer # "none"
  /\ call' = [call EXCEPT ![c] = NoCall]
  /\ UNCHANGED stored

Next ==
  \E c \in Caller :
    \/ \E op \in Op, k \in Key : Ask(c, op, k)
    \/ Write(c) \/ Have(c) \/ Miss(c) \/ Erase(c) \/ Fail(c) \/ Return(c)

Spec == Init /\ [][Next]_storeVars
=============================================================================
