------------------------------ MODULE MCCourses ------------------------------
(* Instances of Courses for TLC.                                           *)
EXTENDS Courses, TLC

CONSTANTS u1, u2, KR, JP

Course(owner, public, completed, regions, tagged, date) ==
  [course |-> 0, owner |-> owner, public |-> public, completed |-> completed, likes |-> 0,
   views |-> 0, regions |-> regions, tagged |-> tagged, date |-> date]

BlogOn(c, owner) == [Course(owner, TRUE, FALSE, {}, {}, 1) EXCEPT !.course = c]

Rows(first, second) ==
  [p \in Ids |-> CASE p = 1 -> first [] p = 2 -> second [] OTHER -> NoPage]

\* A user whose visited countries follow from these rows.
World(rows, ops) ==
  [ops |-> ops, overlap |-> TRUE, page |-> rows,
   made |-> Cardinality({p \in Ids : rows[p] # NoPage}),
   visited |-> [u \in Users |-> [x \in Countries |->
     LET dates == {rows[p].date : p \in {q \in Ids : rows[q] # NoPage /\ rows[q].completed
                     /\ rows[q].owner = u /\ x \in rows[q].tagged \union rows[q].regions}}
     IN IF dates = {} THEN 0 ELSE CHOOSE d \in dates : \A e \in dates : e <= d]]]

OneByOne(w) == [w EXCEPT !.overlap = FALSE]

Korea(completed) == Course(u1, TRUE, completed, {KR}, {}, 1)

Both == Course(u1, FALSE, FALSE, {KR, JP}, {JP}, 2)

\* Likes with edits of a course; likes with views of a blog that is deleted with
\* or without its course; completing two courses at once; the same one by one,
\* with copies; courses that are completed, edited and deleted; blogs; blogs that are
\* written again while somebody views the one that was deleted.
Worlds ==
  { World(Rows(Korea(FALSE), NoPage), {"like", "unlike", "edit", "complete"}),
    World(Rows([Korea(TRUE) EXCEPT !.tagged = {KR}], BlogOn(1, u1)),
          {"like", "unlike", "view", "delete", "deleteBlog"}),
    World(Rows(Korea(FALSE), Both), {"complete", "delete"}),
    OneByOne(World(Rows(Korea(TRUE), Both), {"complete", "delete", "copy"})),
    World(Rows(Korea(TRUE), NoPage), {"complete", "edit", "copy"}),
    World(Rows(Korea(TRUE), NoPage), {"complete", "delete", "blog", "deleteBlog"}),
    World(Rows(Korea(TRUE), BlogOn(1, u1)), {"view", "blog", "deleteBlog"}) }

ClientSymmetry == Permutations(Clients)
=============================================================================
