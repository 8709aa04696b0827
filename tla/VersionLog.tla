------------------------------- MODULE VersionLog -------------------------------
(***************************************************************************)
(* What a versioned table row promises.  The application keeps every       *)
(* version of a row: (id, version) is the primary key, version_closed is   *)
(* set on every version but the current one, and a change is a new         *)
(* version.  This module is the abstract specification of one such id: a   *)
(* log whose last entry is the only open one, which grows at its end, and  *)
(* whose open entry alone may be edited in place.                          *)
(***************************************************************************)
EXTENDS Naturals

CONSTANTS Versions,   \* the version numbers, an interval from 0
          Contents    \* what a version may hold

VARIABLE log          \* [Versions -> [state, content]]

States == {"absent", "open", "closed"}

Entry == [state : States, content : Contents]

\* v is the one open entry of l: everything before it is closed and nothing follows it.
EndsAt(l, v) ==
  \A u \in Versions :
    l[u].state = (IF u < v THEN "closed" ELSE IF u = v THEN "open" ELSE "absent")

\* b continues a: a's open entry v is closed unchanged and b's entries v+1..w are new.
Continues(a, b) ==
  \E v, w \in Versions :
    /\ v < w
    /\ EndsAt(a, v)
    /\ EndsAt(b, w)
    /\ \A u \in Versions : u <= v => b[u].content = a[u].content

\* b is a with its open entry edited in place.
Edits(a, b) ==
  \E v \in Versions :
    /\ EndsAt(a, v)
    /\ EndsAt(b, v)
    /\ \A u \in Versions : u < v => b[u].content = a[u].content

-----------------------------------------------------------------------------

LogInit ==
  /\ log \in [Versions -> Entry]
  /\ EndsAt(log, 0)

LogNext ==
  /\ log' \in [Versions -> Entry]
  /\ Continues(log, log') \/ Edits(log, log')

LogSpec == LogInit /\ [][LogNext]_log

=============================================================================
