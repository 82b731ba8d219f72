------------------------------ MODULE Sessions ------------------------------
(***************************************************************************)
(* WebServSessionList (src/session.cpp): the sessions that a cookie finds. *)
(* A session is known by its number: generateSessionId makes an id that no *)
(* other session has.  The list is a set, for it is searched by id.        *)
(***************************************************************************)
EXTENDS Integers

CONSTANT Timeout      \* DEFAULT_TIMEOUT_SECONDS, in units of time
ASSUME TimeoutAssumption == Timeout \in Nat

NoSession == 0
Ids == Nat \ {NoSession}

\* Ages are counted up to Timeout + 1: all that is older is as old.
Ages     == 0..(Timeout + 1)
Older(a) == IF a <= Timeout THEN a + 1 ELSE a

Sessions == [id : Ids, age : Ages]

\* getSession: it throws when the id is not in the list.
Found(list, id) == \E s \in list : s.id = id

\* createSession.
Created(list, id) == list \union {[id |-> id, age |-> 0]}

\* removeExpiredSessions: the age is that of the session's creation, for
\* nothing calls updateSessionTimeout.
WithoutExpired(list) == {s \in list : s.age <= Timeout}
=============================================================================
