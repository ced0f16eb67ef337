-------------------------------- MODULE Paging --------------------------------
(***************************************************************************)
(* The lists that clients page through: jobs, gallery, credit transactions *)
(* (core/pagination.py and the three list endpoints).  A page is a query   *)
(* for the newest rows before a cursor, and the next cursor is the last    *)
(* row's (created_at, id), of which only created_at is used.               *)
(*                                                                         *)
(* created_at is the time at which the inserting transaction began, so     *)
(* that all jobs of a pack, all its holds, and an image with its           *)
(* transparent variant are equally old.  The order of such rows is the     *)
(* database's choice.                                                      *)
(***************************************************************************)
EXTENDS Integers, FiniteSets

\* The rows that a query with a cursor may return; without one, before is in the future.
Before(rows, before) == {x \in rows : x.at < before}

\* One row more than the page holds is asked for, to know whether there are more.
HasMore(rows, before, limit) == Cardinality(Before(rows, before)) > limit

\* What a query can return: the newest rows, as many as fit, and the last of them.
Pages(rows, before, limit) ==
    {p \in [items: SUBSET Before(rows, before), last: Before(rows, before)] :
        /\ Cardinality(p.items) = IF HasMore(rows, before, limit) THEN limit
                                  ELSE Cardinality(Before(rows, before))
        /\ \A x \in p.items, y \in Before(rows, before) \ p.items : x.at >= y.at
        /\ p.last \in p.items /\ \A x \in p.items : x.at >= p.last.at}

\* The cursor that is made of the last item, and taken apart for the next query.
Cursor(p) == p.last.at

\* Walks[t] for all that a client can have been shown who begins before t and goes on
\* until there is no next cursor.
Walks(rows, limit, now) ==
    LET shown[t \in 0..now] ==
          IF Before(rows, t) = {} THEN {{}}
          ELSE UNION {IF HasMore(rows, t, limit)
                      THEN {p.items \cup rest : rest \in shown[Cursor(p)]}
                      ELSE {p.items} : p \in Pages(rows, t, limit)}
    IN  shown[now]
=============================================================================
