----------------------------- MODULE AddressBook -----------------------------
(***************************************************************************)
(* What the permanent deposit addresses promise, without how it is kept:   *)
(* a book in which a user has at most one address and an address at most   *)
(* one user, from which nothing is ever struck out or changed, and of      *)
(* which a user is shown nothing but his own entry.  The requests and the  *)
(* migration script (AddressAllocation) are shown to implement this.       *)
(***************************************************************************)
CONSTANTS Users, Keys

VARIABLES
  entries,   \* whose address is which key
  told       \* the entries that were shown to their users

vars == <<entries, told>>

Entries == [user : Users, key : Keys]

(* The book is older than the process: it may have entries already. *)
Init ==
  /\ entries \subseteq Entries
  /\ \A e, f \in entries : (e.user = f.user \/ e.key = f.key) => e = f
  /\ told \subseteq entries

(* A user who has no address gets one that nobody has; he may be shown it  *)
(* in the same step (a request), or not (the script).                      *)
Enter(e) ==
  /\ \A f \in entries : f.user # e.user /\ f.key # e.key
  /\ entries' = entries \union {e}
  /\ told' \in {told, told \union {e}}

(* A user is shown the address he has. *)
Tell(e) ==
  /\ e \in entries
  /\ told' = told \union {e}
  /\ UNCHANGED entries

Next == \E e \in Entries : Enter(e) \/ Tell(e)

Spec == Init /\ [][Next]_vars
=============================================================================
