------------------------- MODULE MCServerConnection -------------------------
(* Small instances of ServerConnection.                                    *)
EXTENDS ServerConnection

CONSTANTS s1, s2, p1, q1

\* One root, idle or busy, and possibly a child of it.
MCServer(live, parent, busy, owner) ==
  [live |-> live, gone |-> {}, aborting |-> {}, parent |-> parent,
   status |-> [s \in Sessions |-> IF s \in busy THEN "busy" ELSE "idle"],
   owner |-> owner, asked |-> {r \in Requests : owner[r] # None}]

NoOwner == [r \in Requests |-> None]

NoParents == [s \in Sessions |-> None]

\* One idle root.
IdleRoot == {MCServer({s1}, NoParents, {}, NoOwner)}

\* A busy root.
BusyRoot == {MCServer({s1}, NoParents, {s1}, NoOwner)}

\* A busy root with a child that may be waiting for a request.
RootAndChild ==
  {MCServer({s1, s2}, [s \in Sessions |-> IF s = s2 THEN s1 ELSE None], {s1}, owner) :
     owner \in {NoOwner} \cup {[NoOwner EXCEPT ![r] = s2] : r \in Requests}}
=============================================================================
