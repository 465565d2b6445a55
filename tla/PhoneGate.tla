------------------------------- MODULE PhoneGate -------------------------------
(***************************************************************************)
(* What the phone verification promises about its users, without requests, *)
(* versions, caches, retries and crashes: a user gets past it by entering  *)
(* a code that was sent to this user and stored, or because an             *)
(* administrator says so, and never falls back behind it.                  *)
(*                                                                         *)
(* Codes are sent, stored and entered in any order the handlers of         *)
(* InitVerification and VerifyPhoneCode may come to: a code may be stored  *)
(* after a later one, or for a user who has passed in the meantime.        *)
(***************************************************************************)
CONSTANTS
  Users,  \* the users
  Codes,  \* verification codes
  None    \* no code

VARIABLE gate  \* gate[u]: how far u has come, and with what

Gate == [stage    : {"waiting", "passed", "approved", "gone"},
         rejected : BOOLEAN,         \* whether the lookup of a phone has rejected u
         sent     : SUBSET Codes,    \* the codes sent to u
         stored   : SUBSET Codes,    \* the codes that have been stored for u at some time
         current  : Codes \cup {None},  \* the code stored now
         entered  : SUBSET Codes]    \* the codes u has entered

Closed == [stage |-> "waiting", rejected |-> FALSE, sent |-> {}, stored |-> {},
           current |-> None, entered |-> {}]

Init == gate = [u \in Users |-> Closed]

There(u) == gate[u].stage # "gone"

Becomes(u, g) == gate' = [gate EXCEPT ![u] = g]

\* A message with a new code goes out.
Send(u, c) ==
  /\ \A v \in Users : c \notin gate[v].sent
  /\ Becomes(u, [gate[u] EXCEPT !.sent = @ \cup {c}])

\* The user enters a code, which may be any.
Enter(u, c) == Becomes(u, [gate[u] EXCEPT !.entered = @ \cup {c}])

\* InitVerification stores what was sent.
Store(u, c) ==
  /\ There(u)
  /\ c \in gate[u].sent
  /\ Becomes(u, [gate[u] EXCEPT !.stored = @ \cup {c}, !.current = c])

\* VerifyPhoneCode accepts a code; whatever code is stored by then is used up.
Pass(u) ==
  /\ There(u)
  /\ gate[u].stored \cap gate[u].entered # {}
  /\ Becomes(u, [gate[u] EXCEPT !.stage = IF @ = "waiting" THEN "passed" ELSE @,
                                 !.current = None])

\* The lookup of a phone rejects the user, for good.
Reject(u) == There(u) /\ Becomes(u, [gate[u] EXCEPT !.rejected = TRUE])

\* An administrator spares the user the verification.
Approve(u) ==
  /\ gate[u].stage = "waiting"
  /\ Becomes(u, [gate[u] EXCEPT !.stage = "approved"])

\* The approval ends with a deactivation; the user need not be verified again.
Deactivate(u) ==
  /\ gate[u].stage = "approved"
  /\ Becomes(u, [gate[u] EXCEPT !.stage = "passed"])

\* The UserSignup is deleted, with what is stored in it.
Delete(u) ==
  /\ gate[u].stage = "waiting"
  /\ Becomes(u, [gate[u] EXCEPT !.stage = "gone", !.rejected = FALSE, !.current = None])

Next ==
  \E u \in Users :
    \/ \E c \in Codes : Send(u, c) \/ Enter(u, c) \/ Store(u, c)
    \/ Pass(u)
    \/ Reject(u)
    \/ Approve(u)
    \/ Deactivate(u)
    \/ Delete(u)

Spec == Init /\ [][Next]_gate

\* Nobody gets past the gate with a code sent to somebody else, and what is stored was sent.
GateHolds ==
  \A u \in Users :
    /\ gate[u].current \in gate[u].stored \cup {None}
    /\ gate[u].stored \subseteq gate[u].sent
    /\ \A v \in Users \ {u} : gate[u].sent \cap gate[v].sent = {}

=============================================================================
