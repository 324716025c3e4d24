------------------------------ MODULE SessionPages ------------------------------
(***************************************************************************)
(* How src/src/client.rs lists the sessions of a v2 server,                *)
(* OpenCodeV2Client::snapshot: one page after the other by the cursor that *)
(* the last one named, and which of them execute by a request of its own   *)
(* at the same time, while sessions come, go and are updated.              *)
(*                                                                         *)
(* The server (external) lists the sessions that were updated last first;  *)
(* its cursor is the time of the last session of the page.  A server that  *)
(* is at fault may name the cursor of any session, and so list one twice.  *)
(***************************************************************************)
EXTENDS Ordering, SequencesExt

CONSTANTS Sessions,   \* numbers, in the order of the IDs
          PageSize,   \* V2_SESSION_LIMIT
          MaxUpdates, \* bound: changes of the sessions (one if the server is at fault)
          NoPath      \* no directory is named

VARIABLES
  updated, \* when each session was updated; 0 where there is none
  active,  \* the sessions that execute
  clock,   \* the last update
  faulty,  \* the server's cursors lead anywhere
  shape,   \* of the entry of each session: [own, located, inner, outer]
  place,   \* the location of every page
  fetch    \* the listing in progress, or its end

pagesVars == <<updated, active, clock, faulty, shape, place, fetch>>
serverVars == <<updated, active, clock, faulty, shape, place>>

ASSUME PagesAssumption ==
  /\ Sessions \subseteq Nat \ {0} /\ IsFiniteSet(Sessions)
  /\ PageSize \in Nat \ {0} /\ MaxUpdates \in Nat

LastUpdate == MaxUpdates + Cardinality(Sessions)

-----------------------------------------------------------------------------
(* The server.                                                             *)

\* The sessions updated before the cursor, the last ones first.
Older(cursor) ==
  LET older == {s \in Sessions : updated[s] \in 1 .. cursor - 1}
  IN  InOrder(older, [s \in older |-> -updated[s]])

Page(cursor) == [i \in DOMAIN Older(cursor) \cap 1 .. PageSize |-> Older(cursor)[i]]

\* The cursors that the server may name; 0 for none.
NextCursors(cursor) ==
  IF faulty THEN {0} \cup Range(updated)
  ELSE IF Len(Older(cursor)) > PageSize THEN {updated[Last(Page(cursor))]}
  ELSE {0}

Changes ==
  /\ clock < (IF faulty THEN Cardinality(Sessions) + 1 ELSE LastUpdate)
  /\ clock' = clock + 1
  /\ UNCHANGED <<faulty, shape, place, fetch>>

\* A session is created, or goes on.
Touch(s) ==
  /\ Changes
  /\ updated' = [updated EXCEPT ![s] = clock + 1]
  /\ active' \in {active \cup {s}, active \ {s}}

Delete(s) ==
  /\ updated[s] > 0 /\ Changes
  /\ updated' = [updated EXCEPT ![s] = 0]
  /\ active' = active \ {s}

-----------------------------------------------------------------------------
(* snapshot                                                                *)

\* into_session: the directory of the session itself, of its location, of the
\* page; the location around an entry takes the place of the one inside.
Directory(entry, page) ==
  LET location == IF entry.located THEN entry.outer ELSE entry.inner
  IN  IF entry.own # NoPath THEN entry.own
      ELSE IF location # NoPath THEN location
      ELSE page

\* Mutant of Repeated: the cursors are not remembered.
RepeatedNever(cursor) == FALSE

Repeated(cursor) == cursor \in fetch.cursors

\* OpenCodeV2Client::sessions, one round.
FetchPage ==
  /\ fetch.step = "pages"
  /\ \E next \in NextCursors(fetch.cursor) :
       LET page == Page(fetch.cursor)
       IN  fetch' = [fetch EXCEPT
                       !.got = @ \o [i \in DOMAIN page |->
                                       [id |-> page[i], directory |-> Directory(shape[page[i]], place)]],
                       !.step = IF next = 0 THEN "listed" ELSE IF Repeated(next) THEN "looped" ELSE @,
                       !.cursors = @ \cup {next}, !.cursor = next, !.pages = @ + 1]
  /\ UNCHANGED serverVars

\* active_sessions, at any time meanwhile.
FetchActive ==
  /\ fetch.step \in {"pages", "listed"} /\ ~fetch.asked
  /\ fetch' = [fetch EXCEPT !.asked = TRUE, !.active = active]
  /\ UNCHANGED serverVars

\* One request fails, and so does the snapshot.
FetchFails ==
  /\ fetch.step = "pages" \/ (fetch.step = "listed" /\ ~fetch.asked)
  /\ fetch' = [fetch EXCEPT !.step = "failed"]
  /\ UNCHANGED serverVars

\* Mutant of Distinct: not sorted, so that only neighbours are compared.
DistinctUnsorted(got) ==
  LET kept == SetToSortSeq({i \in DOMAIN got : i = 1 \/ got[i - 1].id # got[i].id}, <)
  IN  [n \in DOMAIN kept |-> got[kept[n]]]

\* Sorted by ID; of those with one ID the first that was fetched.
Distinct(got) ==
  LET first == {i \in DOMAIN got : \A j \in 1 .. i - 1 : got[j].id # got[i].id}
      kept == InOrder(first, [i \in first |-> got[i].id])
  IN  [n \in DOMAIN kept |-> got[kept[n]]]

Assemble ==
  /\ fetch.step = "listed" /\ fetch.asked
  /\ fetch' = [fetch EXCEPT !.step = "done", !.got = Distinct(fetch.got)]
  /\ UNCHANGED serverVars

Status(s) == IF s \in fetch.active THEN "busy" ELSE "idle"

-----------------------------------------------------------------------------
\* In this order the sessions were updated; the others are not there yet.
PagesInit(order, fault, shapes, location) ==
  /\ updated = [s \in Sessions |->
                  IF \E i \in DOMAIN order : order[i] = s
                  THEN CHOOSE i \in DOMAIN order : order[i] = s ELSE 0]
  /\ active \in {{}, {order[1]}}
  /\ clock = Cardinality(Sessions)
  /\ faulty = fault /\ shape = shapes /\ place = location
  /\ fetch = [step |-> "pages", cursor |-> LastUpdate + 1, cursors |-> {}, pages |-> 0,
              got |-> <<>>, asked |-> FALSE, active |-> {}]

PagesNext ==
  \/ \E s \in Sessions : Touch(s) \/ Delete(s)
  \/ FetchPage \/ FetchActive \/ FetchFails \/ Assemble

-----------------------------------------------------------------------------
(* Property.                                                               *)

\* Whatever becomes of the sessions between the pages: the listing ends, with
\* the answer of a server at fault too; each session is in the list once; one
\* that nothing happened to since the first request is in it, with the status
\* that it has; and the directory of the page stands in for none that an entry
\* names.
SessionsFetched ==
  /\ fetch.pages <= LastUpdate + 2
  /\ fetch.step = "looped" => faulty
  /\ fetch.step = "done" =>
       /\ \A i, j \in DOMAIN fetch.got : i < j => fetch.got[i].id < fetch.got[j].id
       /\ \A s \in Sessions :
            ~faulty /\ updated[s] \in 1 .. Cardinality(Sessions) =>
              /\ \E i \in DOMAIN fetch.got : fetch.got[i].id = s
              /\ Status(s) = "busy" <=> s \in active
       /\ \A i \in DOMAIN fetch.got :
            LET entry == shape[fetch.got[i].id]
                names == {entry.own, IF entry.located THEN entry.outer ELSE entry.inner} \ {NoPath}
            IN  names # {} => fetch.got[i].directory \in names
=================================================================================
