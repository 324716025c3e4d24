--------------------------- MODULE Dashboard_proofs ---------------------------
(***************************************************************************)
(* Proofs about Dashboard: the invariant of the rows the dashboard keeps,  *)
(* and what follows from it for every set of servers, sessions, terminals, *)
(* projections and samples.                                                *)
(*                                                                         *)
(* IInv has a part for each thing that may go wrong: what the dashboard is *)
(* made of (Formed), what it knows of the servers (Follows), how terminals *)
(* and roots share the rows (Resolved), the times of the rows (Clocked),   *)
(* the selection (Chosen) and the dismissals.  Each operation of           *)
(* DashboardModel has a lemma on its Outcome: the next dashboard is Good,  *)
(* its rows have Turned as they may, and pairs stick.  The steps of        *)
(* Dashboard are those operations followed by normalize_rows.              *)
(***************************************************************************)
EXTENDS Dashboard, FiniteSetTheorems, TLAPS

-----------------------------------------------------------------------------
(* The dashboard, part by part.                                            *)

Fields == {"rows", "projections", "attachments", "v1Focus", "sticky", "endpoints", "v2",
           "connected", "lastNonBusy", "pendingReady", "selected"}

RowFields == {"busy", "background", "questions", "permissions", "generation", "stale",
              "attachmentStale", "lastNonBusy", "firstBusy", "frozen", "dismissed",
              "category", "tui", "focus"}

Projected(ss) == DOMAIN ss \subseteq Sessions /\ \A s \in DOMAIN ss : ss[s] \in Session

Paired(sticky, tuis) ==
  /\ DOMAIN sticky \subseteq DOMAIN tuis
  /\ \A t, u \in DOMAIN sticky : sticky[t] = sticky[u] => t = u

\* What a dashboard is made of.
Formed(d) ==
  /\ DOMAIN d = Fields
  /\ \A k \in DOMAIN d.rows : /\ k \in Instances \X (Sessions \cup Tuis)
                              /\ DOMAIN d.rows[k] = RowFields
                              /\ d.rows[k].busy \in BOOLEAN /\ d.rows[k].stale \in BOOLEAN
                              /\ k[1] \in DOMAIN d.projections
  /\ DOMAIN d.attachments = Instances /\ DOMAIN d.sticky = Instances
  /\ \A i \in Instances : /\ DOMAIN d.attachments[i] \subseteq Tuis
                          /\ Paired(d.sticky[i], d.attachments[i])
  /\ \A i \in DOMAIN d.projections : i \in Instances /\ Projected(d.projections[i])
  /\ \A k \in d.pendingReady :
       /\ k \in Instances \X Sessions /\ k[1] \notin V2
       /\ k[1] \in DOMAIN d.projections => k[2] \notin DOMAIN d.projections[k[1]]

\* What the dashboard knows of the servers is what the monitor has said.
Follows(d, mon) ==
  LET there == {i \in Instances : mon[i] # "absent"}
  IN  /\ \A i, j \in there : EndpointOf[i] = EndpointOf[j] => i = j
      /\ \A e \in DOMAIN d.endpoints :
           d.endpoints[e] \in there /\ EndpointOf[d.endpoints[e]] = e
      /\ \A i \in there : EndpointOf[i] \in DOMAIN d.endpoints
      /\ d.v2 = there \cap V2
      /\ d.connected = {i \in Instances : mon[i] = "connected"}
      /\ DOMAIN d.projections \subseteq there
      /\ \A k \in d.pendingReady : k[1] \in there

\* The rows of a v1 server.
V1Row(d, k) ==
  /\ d.rows[k].category = "v1" /\ (d.rows[k].focus <=> k[1] \in d.v1Focus)
  /\ k[1] \in DOMAIN d.projections /\ k[2] \in DOMAIN d.projections[k[1]]

V2Row(d, k) ==
  LET row    == d.rows[k]
      tuis   == d.attachments[k[1]]
      sticky == d.sticky[k[1]]
  IN  \/ /\ row.category = "attached"
         /\ k[2] \in Sessions
         /\ row.tui \in DOMAIN tuis \cap DOMAIN sticky /\ sticky[row.tui] = k[2]
         /\ row.focus = tuis[row.tui].focus /\ row.attachmentStale = tuis[row.tui].stale
      \/ /\ row.category = "headless"
         /\ k[2] \in Sessions
         /\ row.tui = None /\ ~row.focus
      \/ /\ row.category \in {"ambiguous", "unresolved"}
         /\ row.tui = k[2] /\ row.tui \in DOMAIN tuis \ DOMAIN sticky /\ ~row.focus

Attributed(d, i) ==
  LET ss   == d.projections[i]
      tuis == d.attachments[i]
  IN  /\ \A t \in DOMAIN tuis : \E k \in Of(d.rows, i) : d.rows[k].tui = t
      /\ \A r \in ActiveRoots(ss) : <<i, r>> \in DOMAIN d.rows
      /\ \A c \in ExplicitClaims(ss, tuis) :
           ~Rivalled(ExplicitClaims(ss, tuis), c) =>
             <<i, c[2]>> \in DOMAIN d.rows /\ d.rows[<<i, c[2]>>].tui = c[1]

ResolvedAt(d, i) ==
  /\ \A k \in Of(d.rows, i) : IF i \in V2 THEN V2Row(d, k) ELSE V1Row(d, k)
  /\ i \in V2 /\ i \in DOMAIN d.projections => Attributed(d, i)

Resolved(d) == \A i \in Instances : ResolvedAt(d, i)

Chosen(d) ==
  /\ d.selected \in 0 .. Cardinality(DOMAIN d.rows)
  /\ d.selected = 0 <=> DOMAIN d.rows = {}

Past(time, t) == time = None \/ time \in 0 .. t

\* The times of a row, without what its server makes of them.
Timed(row, t) ==
  /\ Past(row.lastNonBusy, t) /\ Past(row.firstBusy, t) /\ Past(row.frozen, t)
  /\ ~row.busy => row.frozen = None
  /\ row.busy => Baseline(row) # None

\* The counter of a row that works runs or is frozen.
TimeSound(row, t, runs) ==
  /\ Timed(row, t)
  /\ row.busy => (row.frozen = None <=> runs)
  /\ runs => ~row.stale

Clocked(d, t, running) ==
  /\ t \in Nat
  /\ \A k \in DOMAIN d.lastNonBusy : d.lastNonBusy[k] \in 0 .. t
  /\ \A k \in DOMAIN d.rows : k[1] \notin V2 => TimeSound(d.rows[k], t, k[1] \in running)

-----------------------------------------------------------------------------
(* Numbers and roots.                                                      *)

\* A set of numbers that has one has a least one.
LEMMA NatMin == ASSUME NEW T \in SUBSET Nat, T # {} PROVE \E n \in T : \A k \in T : n <= k
<1>1. PICK t \in T : t \in Nat
  OBVIOUS
<1> DEFINE S == 0 .. t
           W == {0 .. k : k \in {x \in T : x <= t}}
<1>2. IsFiniteSet(S)
  BY <1>1, FS_Interval
<1>3. IsWellFoundedOn(StrictSubsetOrdering(S), SUBSET S)
  BY <1>2, FS_StrictSubsetOrderingWellFounded, FS_FiniteSubsetsOfFinite, Zenon
<1>4. W \subseteq SUBSET S /\ W # {}
  BY <1>1
<1>5. \E x \in W : \A y \in W : ~ (<<y, x>> \in StrictSubsetOrdering(S))
  <2> HIDE DEF W, S
  <2> QED BY <1>3, <1>4, WFMin
<1>6. PICK x \in W : \A y \in W : ~(y \subseteq x /\ y # x)
  BY <1>4, <1>5 DEF StrictSubsetOrdering
<1>7. PICK n \in T : n <= t /\ x = 0 .. n
  BY <1>6
<1>8. ASSUME NEW k \in T, ~(n <= k) PROVE FALSE
  <2>1. k <= t /\ k < n /\ k \in Nat /\ n \in Nat
    BY <1>1, <1>7, <1>8
  <2>2. (0 .. k) \in W
    BY <2>1
  <2>3. 0 .. k \subseteq 0 .. n /\ n \in 0 .. n /\ n \notin 0 .. k
    BY <2>1
  <2> QED BY <1>6, <1>7, <2>2, <2>3
<1> QED BY <1>7, <1>8

\* A set of numbers with 0 and every successor has them all.
LEMMA NatClosed ==
  ASSUME NEW T \in SUBSET Nat, 0 \in T, \A n \in T : n + 1 \in T
  PROVE  T = Nat
<1> DEFINE U == Nat \ T
<1> SUFFICES ASSUME U # {} PROVE FALSE
  OBVIOUS
<1>1. PICK n \in U : \A k \in U : n <= k
  BY NatMin
<1>2. n # 0 /\ n - 1 \in Nat /\ n - 1 \in T
  BY <1>1
<1> QED BY <1>2

Climb(ss, x) == LET p == ss[x].parent IN IF p \in DOMAIN ss THEN p ELSE x

\* The walk up the parents stays among the sessions that are projected.
LEMMA RootProjected ==
  ASSUME NEW ss, IsFiniteSet(DOMAIN ss), NEW s \in DOMAIN ss
  PROVE  ResolveRoot(ss, s) \in DOMAIN ss
<1> DEFINE N == Cardinality(DOMAIN ss)
           D == DOMAIN ss
           W(n) == {f \in [0 .. n -> D] :
                      \A i \in 0 .. n : f[i] = IF i = 0 THEN s ELSE Climb(ss, f[i - 1])}
           T == {n \in Nat : W(n) # {}}
<1>0. N \in Nat
  BY FS_CardinalityType
<1>1. \A x \in D : Climb(ss, x) \in D
  BY DEF Climb
<1>2. 0 \in T
  <2>1. [i \in 0 .. 0 |-> s] \in W(0)
    OBVIOUS
  <2> QED BY <2>1
<1>3. ASSUME NEW n \in Nat, W(n) # {} PROVE W(n + 1) # {}
  <2>1. PICK f \in W(n) : TRUE
    BY <1>3
  <2> DEFINE e == [i \in 0 .. n + 1 |-> IF i = n + 1 THEN Climb(ss, f[n]) ELSE f[i]]
  <2>2. e \in [0 .. n + 1 -> D]
    <3>1. \A i \in 0 .. n : f[i] \in D
      BY <2>1
    <3> QED BY <1>1, <3>1
  <2>3. ASSUME NEW i \in 0 .. n + 1 PROVE e[i] = IF i = 0 THEN s ELSE Climb(ss, e[i - 1])
    <3>1. CASE i = n + 1
      <4>1. e[n] = f[n] /\ i # 0 /\ i - 1 = n
        BY <3>1
      <4> QED BY <3>1, <4>1
    <3>2. CASE i # n + 1
      <4>1. e[i] = f[i] /\ i \in 0 .. n /\ (i # 0 => e[i - 1] = f[i - 1])
        BY <3>2
      <4>2. f[i] = IF i = 0 THEN s ELSE Climb(ss, f[i - 1])
        BY <2>1, <4>1
      <4> HIDE DEF e
      <4> QED BY <4>1, <4>2
    <3> QED BY <3>1, <3>2
  <2> HIDE DEF e
  <2> QED BY <2>2, <2>3
<1>4. W(N) # {}
  <2> HIDE DEF W, N
  <2>1. ASSUME NEW n \in T PROVE n + 1 \in T
    BY <1>3
  <2>2. T = Nat
    <3> HIDE DEF T
    <3> QED BY <1>2, <2>1, NatClosed DEF T
  <2> QED BY <1>0, <2>2
<1>5. PICK f \in W(N) : TRUE
  BY <1>4
<1>6. f = [n \in 0 .. N |-> IF n = 0 THEN s ELSE Climb(ss, f[n - 1])]
  BY <1>5
<1> DEFINE up[n \in 0 .. N] == IF n = 0 THEN s ELSE Climb(ss, up[n - 1])
<1>7. up = CHOOSE g : g = [n \in 0 .. N |-> IF n = 0 THEN s ELSE Climb(ss, g[n - 1])]
  BY DEF up
<1>8. ResolveRoot(ss, s) = IF ss[up[N]].parent = None THEN up[N] ELSE s
  BY Zenon DEF ResolveRoot, Climb, up
<1> HIDE DEF up
<1>9. up = [n \in 0 .. N |-> IF n = 0 THEN s ELSE Climb(ss, up[n - 1])]
  BY <1>6, <1>7
<1> DEFINE R == {n \in Nat : n \in 0 .. N => up[n] \in D}
<1>10. R = Nat
  <2>1. 0 \in R
    BY <1>0, <1>9
  <2>2. ASSUME NEW n \in R PROVE n + 1 \in R
    <3>1. CASE n + 1 \in 0 .. N
      <4>1. n \in 0 .. N /\ up[n + 1] = Climb(ss, up[(n + 1) - 1]) /\ (n + 1) - 1 = n
        BY <1>0, <1>9, <3>1
      <4> QED BY <1>1, <2>2, <4>1
    <3> QED BY <3>1
  <2> HIDE DEF R
  <2> QED BY <2>1, <2>2, NatClosed DEF R
<1>11. up[N] \in D
  BY <1>0, <1>10
<1> QED BY <1>8, <1>11

\* A projection is finite, and its roots are sessions of it.
LEMMA ProjectedRoots ==
  ASSUME NEW ss, Projected(ss)
  PROVE  /\ IsFiniteSet(DOMAIN ss)
         /\ Roots(ss) \subseteq DOMAIN ss /\ Roots(ss) \subseteq Sessions
         /\ None \notin Roots(ss) /\ IsFiniteSet(Roots(ss))
         /\ \A s \in DOMAIN ss : ResolveRoot(ss, s) \in Roots(ss)
<1>1. IsFiniteSet(DOMAIN ss)
  BY FS_Subset, ResolutionAssumption DEF Projected
<1>2. \A s \in DOMAIN ss : ResolveRoot(ss, s) \in DOMAIN ss
  BY <1>1, RootProjected
<1>3. Roots(ss) \subseteq DOMAIN ss
  BY <1>2 DEF Roots
<1> QED BY <1>1, <1>3, FS_Subset, ResolutionAssumption DEF Roots, Projected

-----------------------------------------------------------------------------
(* The rounds of resolve_tuis.                                             *)

\* TheOnly picks the member of a set that has one.
LEMMA OnlyOne ==
  ASSUME NEW S, IsFiniteSet(S)
  PROVE  /\ Cardinality(S) = 1 => TheOnly(S) \in S /\ S = {TheOnly(S)}
         /\ TheOnly(S) \in S \cup {None}
<1>1. CASE Cardinality(S) = 1
  <2>1. PICK x : S = {x}
    BY <1>1, FS_Singleton
  <2> QED BY <1>1, <2>1 DEF TheOnly
<1>2. CASE Cardinality(S) # 1
  BY <1>2 DEF TheOnly
<1> QED BY <1>1, <1>2

\* What a terminal is attached to by itself is a root that is projected.
LEMMA FallbackRoot ==
  ASSUME NEW ss, Projected(ss), NEW tui
  PROVE  LET f == Fallback(ss, tui)
         IN  /\ f.kind \in {"attached", "ambiguous", "unresolved"}
             /\ f.kind = "attached" => f.root \in Roots(ss)
<1> DEFINE located == LocationRoots(ss, tui)
           latest == TheOnly(Latest(ss, located))
<1>1. located \subseteq Roots(ss)
  BY DEF LocationRoots, Roots
<1>2. Latest(ss, located) \subseteq located
  BY DEF Latest
<1>3. IsFiniteSet(located) /\ IsFiniteSet(Latest(ss, located))
  BY <1>1, <1>2, ProjectedRoots, FS_Subset
<1>4. Cardinality(located) = 1 => TheOnly(located) \in Roots(ss)
  BY <1>1, <1>3, OnlyOne
<1>5. latest # None => latest \in Roots(ss)
  BY <1>1, <1>2, <1>3, OnlyOne
<1>6. tui.explicit \in DOMAIN ss => ResolveRoot(ss, tui.explicit) \in Roots(ss)
  BY ProjectedRoots
<1> HIDE DEF located, latest
<1>7. CASE tui.explicit = None
  <2>1. Fallback(ss, tui) = Located(ss, tui, located)
    BY <1>7 DEF Fallback, located
  <2>2. Located(ss, tui, located) =
          IF located = {} THEN Unresolved(FALSE, None)
          ELSE IF Cardinality(located) = 1 THEN Attached(TheOnly(located))
          ELSE IF tui.continue /\ latest # None THEN Attached(latest)
          ELSE Unresolved(TRUE, IF TheOnly(located \cap ActiveRoots(ss)) # None
                                THEN TheOnly(located \cap ActiveRoots(ss)) ELSE latest)
    BY DEF Located, latest
  <2> QED BY <1>4, <1>5, <2>1, <2>2 DEF Attached, Unresolved
<1>8. CASE tui.explicit # None
  BY <1>6, <1>8 DEF Fallback, Attached, Unresolved
<1> QED BY <1>7, <1>8

\* Claims: of a terminal one at most, on a root that there is.
Claims(claims, terminals, ss) ==
  /\ claims \subseteq terminals \X Roots(ss)
  /\ \A c, d \in claims : c[1] = d[1] => c = d

\* A terminal with one claim at most claims the root of it.
LEMMA ClaimedRoot ==
  ASSUME NEW ss, NEW D, NEW claims, Claims(claims, D, ss), NEW c \in claims
  PROVE  c = <<c[1], c[2]>> /\ c[1] \in D /\ c[2] \in Roots(ss) /\ Claimed(claims, c[1]) = c[2]
<1>1. c = <<c[1], c[2]>> /\ c[1] \in D /\ c[2] \in Roots(ss)
  BY DEF Claims
<1>2. \E d \in claims : d[1] = c[1]
  OBVIOUS
<1>3. (CHOOSE d \in claims : d[1] = c[1]) = c
  BY <1>2 DEF Claims
<1> QED BY <1>1, <1>3 DEF Claimed

\* What a round starts from and leaves: what is resolved so far, the roots it
\* uses, each for one terminal, and the pairs that stick, for what is
\* resolved just these.
Sorted(st, D, ss) ==
  /\ DOMAIN st = {"resolved", "used", "sticky"}
  /\ DOMAIN st.resolved \subseteq D
  /\ \A t \in DOMAIN st.sticky : t \in D /\ st.sticky[t] \in Roots(ss)
  /\ \A t \in DOMAIN st.resolved :
       /\ st.resolved[t].kind \in {"attached", "ambiguous", "unresolved"}
       /\ st.resolved[t].kind = "attached" <=> t \in DOMAIN st.sticky
       /\ st.resolved[t].kind = "attached" =>
            st.sticky[t] = st.resolved[t].root /\ st.resolved[t].root \in st.used
  /\ \A t, u \in DOMAIN st.resolved :
       /\ st.resolved[t].kind = "attached" /\ st.resolved[u].kind = "attached"
       /\ st.resolved[t].root = st.resolved[u].root
       => t = u

IsPut(h, f, g) ==
  /\ DOMAIN h = DOMAIN f \cup DOMAIN g
  /\ \A k \in DOMAIN g : h[k] = g[k]
  /\ \A k \in DOMAIN f \ DOMAIN g : h[k] = f[k]

IsPart(h, f, keys) == DOMAIN h = keys /\ \A k \in keys : h[k] = f[k]

\* What Put makes of two functions.
LEMMA PutFacts == ASSUME NEW f, NEW g PROVE IsPut(Put(f, g), f, g)
BY DEF Put, IsPut

\* What Drop and Keep leave of a function.
LEMMA DropFacts ==
  ASSUME NEW f, NEW keys
  PROVE  IsPart(Drop(f, keys), f, DOMAIN f \ keys) /\ IsPart(Keep(f, keys), f, DOMAIN f \cap keys)
BY DEF Drop, Keep, IsPart

\* A round resolves who claims, and nobody else.
RoundFacts(st, claims, next) ==
  /\ DOMAIN next.resolved = DOMAIN st.resolved \cup {c[1] : c \in claims}
  /\ \A t \in DOMAIN st.resolved : next.resolved[t] = st.resolved[t]
  /\ \A c \in claims : next.resolved[c[1]] = IF c \in Won(st, claims) THEN Attached(c[2])
                                             ELSE Unresolved(TRUE, c[2])
  /\ next.used = st.used \cup {c[2] : c \in Won(st, claims)}
  /\ \A t : (\A c \in claims : c[1] # t) =>
       /\ t \in DOMAIN next.sticky <=> t \in DOMAIN st.sticky
       /\ t \in DOMAIN st.sticky => next.sticky[t] = st.sticky[t]
  /\ \A c \in claims : /\ c[1] \in DOMAIN next.sticky <=> c \in Won(st, claims)
                       /\ c \in Won(st, claims) => next.sticky[c[1]] = c[2]

\* apply_claims: a round resolves who claims, keeps what earlier rounds resolved,
\* and keeps the roots of the attached terminals apart and among the used ones.
LEMMA Round ==
  ASSUME NEW ss, NEW D, NEW st, Sorted(st, D, ss),
         NEW claims, Claims(claims, D \ DOMAIN st.resolved, ss)
  PROVE  /\ RoundFacts(st, claims, ApplyClaims(st, claims))
         /\ Sorted(ApplyClaims(st, claims), D, ss)
<1> DEFINE next == ApplyClaims(st, claims)
           W == Won(st, claims)
           won == {c[1] : c \in W}
           lost == {c[1] : c \in claims} \ won
           R == [t \in won \cup lost |-> IF t \in won THEN Attached(Claimed(claims, t))
                                         ELSE Unresolved(TRUE, Claimed(claims, t))]
           S == [t \in won |-> Claimed(claims, t)]
<1>1. next = [resolved |-> Put(st.resolved, R), used |-> st.used \cup {Claimed(claims, t) : t \in won},
              sticky |-> Put(Drop(st.sticky, lost), S)]
  BY DEF ApplyClaims
<1>2. \A c \in claims : c = <<c[1], c[2]>> /\ c[1] \in D \ DOMAIN st.resolved /\ c[2] \in Roots(ss)
                        /\ Claimed(claims, c[1]) = c[2]
  BY ClaimedRoot
<1>3. W \subseteq claims /\ \A c \in W : c[2] \notin st.used /\ \A d \in claims : d # c => d[2] # c[2]
  BY DEF Won, Rivalled
<1>4. \A c, d \in claims : c[1] = d[1] => c = d
  BY DEF Claims
<1>5. \A c \in claims : c[1] \in won <=> c \in W
  BY <1>3, <1>4
<1>6. won \cup lost = {c[1] : c \in claims}
  BY <1>3
<1> HIDE DEF next, W
<1>7. /\ next.resolved = Put(st.resolved, R) /\ next.sticky = Put(Drop(st.sticky, lost), S)
      /\ next.used = st.used \cup {Claimed(claims, t) : t \in won}
      /\ DOMAIN next = {"resolved", "used", "sticky"}
  BY <1>1
<1>8. DOMAIN R = {c[1] : c \in claims} /\ DOMAIN S = won
  BY <1>6
<1>9. \A c \in claims : R[c[1]] = IF c \in W THEN Attached(c[2]) ELSE Unresolved(TRUE, c[2])
  BY <1>2, <1>5, <1>6
<1>10. \A c \in W : S[c[1]] = c[2]
  BY <1>2, <1>3
<1>11. {Claimed(claims, t) : t \in won} = {c[2] : c \in W}
  BY <1>2, <1>3
<1> HIDE DEF R, S
<1> HIDE DEF won, lost
<1>p. IsPut(next.resolved, st.resolved, R)
  BY <1>7, PutFacts
<1>q. IsPart(Drop(st.sticky, lost), st.sticky, DOMAIN st.sticky \ lost)
  BY DropFacts
<1>r. IsPut(next.sticky, Drop(st.sticky, lost), S)
  BY <1>7, PutFacts
<1>12. /\ DOMAIN next.resolved = DOMAIN st.resolved \cup {c[1] : c \in claims}
       /\ \A t \in DOMAIN st.resolved : next.resolved[t] = st.resolved[t]
       /\ \A c \in claims : next.resolved[c[1]] = R[c[1]]
  BY <1>2, <1>8, <1>p DEF IsPut
<1>13. DOMAIN next.sticky = (DOMAIN st.sticky \ lost) \cup won
  BY <1>8, <1>q, <1>r DEF IsPut, IsPart
<1>14. \A c \in W : next.sticky[c[1]] = c[2]
  BY <1>3, <1>5, <1>8, <1>10, <1>r DEF IsPut
<1>15. \A t \in DOMAIN st.sticky : t \notin won \cup lost => next.sticky[t] = st.sticky[t]
  BY <1>8, <1>q, <1>r DEF IsPut, IsPart
<1>16. \A c \in claims : c[1] \in DOMAIN next.sticky <=> c \in W
  <2> TAKE c \in claims
  <2>1. c[1] \in won \cup lost
    BY <1>6
  <2> QED BY <1>5, <1>13, <2>1
<1>17. ASSUME NEW t, \A c \in claims : c[1] # t
       PROVE  /\ t \in DOMAIN next.sticky <=> t \in DOMAIN st.sticky
              /\ t \in DOMAIN st.sticky => next.sticky[t] = st.sticky[t]
  BY <1>6, <1>13, <1>15, <1>17
<1>18. \A c \in claims : next.resolved[c[1]] = IF c \in W THEN Attached(c[2]) ELSE Unresolved(TRUE, c[2])
  BY <1>9, <1>12
<1>19. next.used = st.used \cup {c[2] : c \in W}
  BY <1>7, <1>11
<1>20. RoundFacts(st, claims, next)
  BY <1>12, <1>14, <1>16, <1>17, <1>18, <1>19 DEF RoundFacts, W
<1>21. \A t \in DOMAIN next.sticky : t \in D /\ next.sticky[t] \in Roots(ss)
  <2> TAKE t \in DOMAIN next.sticky
  <2>1. CASE \E c \in claims : c[1] = t
    BY <1>2, <1>3, <1>14, <1>16, <2>1
  <2>2. CASE \A c \in claims : c[1] # t
    BY <1>17, <2>2 DEF Sorted
  <2> QED BY <2>1, <2>2
<1>22. ASSUME NEW t \in DOMAIN next.resolved
       PROVE  /\ next.resolved[t].kind \in {"attached", "ambiguous", "unresolved"}
              /\ next.resolved[t].kind = "attached" <=> t \in DOMAIN next.sticky
              /\ next.resolved[t].kind = "attached" =>
                   /\ next.sticky[t] = next.resolved[t].root /\ next.resolved[t].root \in next.used
                   /\ \/ t \in DOMAIN st.resolved /\ next.resolved[t].root \in st.used
                      \/ \E c \in W : c[1] = t /\ next.resolved[t].root = c[2]
  <2>1. CASE \E c \in claims : c[1] = t
    <3>1. PICK c \in claims : c[1] = t
      BY <2>1
    <3>2. c \in W => next.resolved[t] = Attached(c[2]) /\ next.sticky[t] = c[2] /\ c[2] \in next.used
      BY <1>14, <1>18, <1>19, <3>1
    <3>3. c \notin W => next.resolved[t] = Unresolved(TRUE, c[2])
      BY <1>18, <3>1
    <3>4. t \in DOMAIN next.sticky <=> c \in W
      BY <1>16, <3>1
    <3> QED BY <3>1, <3>2, <3>3, <3>4 DEF Attached, Unresolved
  <2>2. CASE \A c \in claims : c[1] # t
    <3>1. t \in DOMAIN st.resolved /\ next.resolved[t] = st.resolved[t]
      BY <1>12, <1>22, <2>2
    <3> QED BY <1>17, <1>19, <2>2, <3>1 DEF Sorted
  <2> QED BY <2>1, <2>2
<1>23. ASSUME NEW t \in DOMAIN next.resolved, NEW u \in DOMAIN next.resolved,
              next.resolved[t].kind = "attached", next.resolved[u].kind = "attached",
              next.resolved[t].root = next.resolved[u].root
       PROVE  t = u
  <2>1. CASE t \in DOMAIN st.resolved /\ u \in DOMAIN st.resolved
    BY <1>12, <1>23, <2>1 DEF Sorted
  <2>2. CASE t \notin DOMAIN st.resolved /\ u \notin DOMAIN st.resolved
    BY <1>3, <1>22, <1>23, <2>2
  <2>3. CASE ~(t \in DOMAIN st.resolved <=> u \in DOMAIN st.resolved)
    <3>1. \A c \in W : c[1] \notin DOMAIN st.resolved
      BY <1>2, <1>3
    <3> QED BY <1>3, <1>22, <1>23, <2>3, <3>1
  <2> QED BY <2>1, <2>2, <2>3
<1>24. Sorted(next, D, ss)
  <2>1. DOMAIN next.resolved \subseteq D
    BY <1>2, <1>12 DEF Sorted
  <2> QED BY <1>7, <1>21, <1>22, <1>23, <2>1 DEF Sorted
<1> QED BY <1>20, <1>24 DEF next

Extends(next, st) ==
  /\ DOMAIN st.resolved \subseteq DOMAIN next.resolved
  /\ \A t \in DOMAIN st.resolved : next.resolved[t] = st.resolved[t]

\* apply_reciprocal_claims is a round like the others.
LEMMA Reciprocal ==
  ASSUME NEW ss, Projected(ss), NEW D, NEW st, Sorted(st, D, ss), NEW candidates,
         DOMAIN candidates = D, \A t \in D : candidates[t] \subseteq Roots(ss)
  PROVE  Sorted(ReciprocalRound(st, candidates), D, ss) /\ Extends(ReciprocalRound(st, candidates), st)
<1> DEFINE open == DOMAIN candidates \ DOMAIN st.resolved
           of == [t \in open |-> candidates[t] \ st.used]
           claims == {<<t, TheOnly(of[t])>> :
                        t \in {t \in open : /\ Cardinality(of[t]) = 1
                                            /\ \A u \in open \ {t} : TheOnly(of[t]) \notin of[u]}}
<1>1. ReciprocalRound(st, candidates) = ApplyClaims(st, claims)
  BY DEF ReciprocalRound
<1>2. ASSUME NEW t \in open, Cardinality(of[t]) = 1 PROVE TheOnly(of[t]) \in Roots(ss)
  <2>1. of[t] \subseteq Roots(ss)
    OBVIOUS
  <2>2. IsFiniteSet(of[t])
    BY <2>1, ProjectedRoots, FS_Subset
  <2> HIDE DEF of
  <2> QED BY <1>2, <2>1, <2>2, OnlyOne
<1>3. open = D \ DOMAIN st.resolved
  OBVIOUS
<1> HIDE DEF of, open
<1>4. Claims(claims, D \ DOMAIN st.resolved, ss)
  BY <1>2, <1>3 DEF Claims
<1> HIDE DEF claims
<1>5. RoundFacts(st, claims, ApplyClaims(st, claims)) /\ Sorted(ApplyClaims(st, claims), D, ss)
  BY <1>4, Round
<1> QED BY <1>1, <1>5 DEF RoundFacts, Extends

IsResolution(ss, tuis, r) ==
  /\ DOMAIN r = {"resolved", "sticky"}
  /\ DOMAIN r.resolved = DOMAIN tuis
  /\ \A t \in DOMAIN tuis :
       /\ r.resolved[t].kind \in {"attached", "ambiguous", "unresolved"}
       /\ r.resolved[t].kind = "attached" => r.resolved[t].root \in Roots(ss)
       /\ r.resolved[t].kind = "attached" <=> t \in DOMAIN r.sticky
  /\ \A t \in DOMAIN r.sticky : t \in DOMAIN tuis /\ r.sticky[t] = r.resolved[t].root
  /\ \A t, u \in DOMAIN tuis :
       /\ r.resolved[t].kind = "attached" /\ r.resolved[u].kind = "attached"
       /\ r.resolved[t].root = r.resolved[u].root
       => t = u

\* What the command line says is done, and earlier pairs are kept.
Obeys(ss, tuis, r) ==
  \A c \in ExplicitClaims(ss, tuis) :
    ~Rivalled(ExplicitClaims(ss, tuis), c) =>
      c[1] \in DOMAIN tuis /\ r.resolved[c[1]] = Attached(c[2])

Keeps(ss, tuis, sticky, r) ==
  \A t \in DOMAIN sticky :
    /\ sticky[t] \in Roots(ss) /\ t \notin Misdirected(ss, tuis)
    /\ \A c \in ExplicitClaims(ss, tuis) : c[1] = t <=> c[2] = sticky[t]
    => r.resolved[t] = Attached(sticky[t])

\* The claims of the command line are one to a terminal, and of none misdirected.
LEMMA ExplicitFacts ==
  ASSUME NEW ss, Projected(ss), NEW tuis
  PROVE  Claims(ExplicitClaims(ss, tuis), DOMAIN tuis \ Misdirected(ss, tuis), ss)
<1>1. ASSUME NEW t \in DOMAIN tuis, Fallback(ss, tuis[t]).kind = "attached"
      PROVE  t \notin Misdirected(ss, tuis) /\ Fallback(ss, tuis[t]).root \in Roots(ss)
  <2>1. Fallback(ss, tuis[t]).root \in Roots(ss)
    BY <1>1, FallbackRoot
  <2>2. tuis[t].explicit \notin DOMAIN ss \cup {None} => Fallback(ss, tuis[t]).kind = "unresolved"
    BY DEF Fallback, Unresolved
  <2> QED BY <1>1, <2>1, <2>2 DEF Misdirected
<1> QED BY <1>1 DEF ExplicitClaims, Claims

\* resolve_tuis: every terminal is resolved, no root is given twice, the command
\* line is obeyed and accepted pairs are kept.
LEMMA Resolution ==
  ASSUME NEW ss, Projected(ss), NEW tuis, NEW sticky, Paired(sticky, tuis)
  PROVE  LET r == ResolveTuis(ss, tuis, sticky)
         IN  IsResolution(ss, tuis, r) /\ Obeys(ss, tuis, r) /\ Keeps(ss, tuis, sticky, r)
<1> DEFINE D == DOMAIN tuis
           known == Keep(sticky, {t \in DOMAIN sticky : sticky[t] \in Roots(ss)})
           missing == Misdirected(ss, tuis)
           told == ExplicitClaims(ss, tuis)
           st0 == [resolved |-> [t \in missing |-> Unresolved(FALSE, None)], used |-> {},
                   sticky |-> Drop(known, missing)]
           st1 == ApplyClaims(st0, told)
           old == {<<t, st1.sticky[t]>> : t \in (D \cap DOMAIN st1.sticky) \ DOMAIN st1.resolved}
           st2 == ApplyClaims(st1, old)
           located == [t \in D |-> LocationRoots(ss, tuis[t])]
           active == [t \in D |-> located[t] \cap ActiveRoots(ss)]
           st3 == ReciprocalRound(st2, located)
           st4 == ReciprocalRound(st3, active)
           r == Completed(ss, tuis, st4)
<1>0. ResolveTuis(ss, tuis, sticky) = r
  BY DEF ResolveTuis, Rounds, ExplicitRound, StickyRound
<1>1. /\ missing \subseteq D
      /\ IsPart(known, sticky, DOMAIN sticky \cap {t \in DOMAIN sticky : sticky[t] \in Roots(ss)})
      /\ IsPart(Drop(known, missing), known, DOMAIN known \ missing)
  BY DropFacts DEF Misdirected
<1>2. \A t : /\ t \in DOMAIN st0.sticky <=>
                  t \in DOMAIN sticky /\ sticky[t] \in Roots(ss) /\ t \notin missing
             /\ t \in DOMAIN st0.sticky => st0.sticky[t] = sticky[t]
  BY <1>1 DEF IsPart
<1>3. DOMAIN st0.resolved = missing /\ \A t \in missing : st0.resolved[t].kind = "unresolved"
  BY DEF Unresolved
<1>4. st0.used = {} /\ DOMAIN st0 = {"resolved", "used", "sticky"}
  OBVIOUS
<1> HIDE DEF st0, known, missing, told
<1>5. Sorted(st0, D, ss)
  BY <1>1, <1>2, <1>3, <1>4 DEF Sorted, Paired
<1>6. Claims(told, D \ DOMAIN st0.resolved, ss)
  BY <1>3, ExplicitFacts DEF told, missing
<1>7. RoundFacts(st0, told, st1) /\ Sorted(st1, D, ss)
  BY <1>5, <1>6, Round
<1> HIDE DEF st1
<1>8. Claims(old, D \ DOMAIN st1.resolved, ss)
  BY <1>7 DEF Claims, Sorted
<1>9. old = {<<t, st1.sticky[t]>> : t \in DOMAIN st1.sticky \ DOMAIN st1.resolved}
  BY <1>7 DEF Sorted
<1> HIDE DEF old
<1>10. RoundFacts(st1, old, st2) /\ Sorted(st2, D, ss)
  BY <1>7, <1>8, Round
<1> HIDE DEF st2
<1>11. /\ DOMAIN located = D /\ \A t \in D : located[t] \subseteq Roots(ss)
       /\ DOMAIN active = D /\ \A t \in D : active[t] \subseteq Roots(ss)
  BY DEF LocationRoots, Roots
<1> HIDE DEF located, active
<1>12. Sorted(st3, D, ss) /\ Extends(st3, st2)
  BY <1>10, <1>11, Reciprocal
<1> HIDE DEF st3
<1>13. Sorted(st4, D, ss) /\ Extends(st4, st3)
  BY <1>11, <1>12, Reciprocal
<1> HIDE DEF st4
<1> DEFINE left == D \ DOMAIN st4.resolved
           rest == [t \in left |-> Unclaimed(Fallback(ss, tuis[t]))]
<1>14. /\ r.resolved = Put(st4.resolved, rest) /\ r.sticky = Drop(st4.sticky, left)
       /\ DOMAIN r = {"resolved", "sticky"} /\ DOMAIN rest = left
  BY DEF Completed
<1>15. \A t \in left : rest[t].kind \in {"ambiguous", "unresolved"}
  BY FallbackRoot DEF Unclaimed, Unresolved
<1> HIDE DEF r, rest, left
<1>16. IsPut(r.resolved, st4.resolved, rest) /\ IsPart(r.sticky, st4.sticky, DOMAIN st4.sticky \ left)
  BY <1>14, PutFacts, DropFacts
<1>17. /\ DOMAIN r.resolved = D
       /\ \A t \in DOMAIN st4.resolved : t \in D /\ r.resolved[t] = st4.resolved[t]
       /\ \A t \in D : t \notin DOMAIN st4.resolved => r.resolved[t].kind \in {"ambiguous", "unresolved"}
       /\ \A t : t \in DOMAIN r.sticky <=> t \in DOMAIN st4.sticky /\ t \in DOMAIN st4.resolved
       /\ \A t \in DOMAIN r.sticky : r.sticky[t] = st4.sticky[t]
  BY <1>13, <1>14, <1>15, <1>16 DEF IsPut, IsPart, Sorted, left
<1>18. IsResolution(ss, tuis, r)
  BY <1>13, <1>14, <1>17 DEF IsResolution, Sorted
<1>19. \A t \in DOMAIN st2.resolved : t \in D /\ r.resolved[t] = st2.resolved[t]
  BY <1>12, <1>13, <1>17 DEF Extends
<1>20. \A t \in DOMAIN st1.resolved : t \in D /\ r.resolved[t] = st1.resolved[t]
  BY <1>10, <1>19 DEF RoundFacts
<1>21. ASSUME NEW c \in told, ~Rivalled(told, c)
       PROVE  c[1] \in DOMAIN st1.resolved /\ st1.resolved[c[1]] = Attached(c[2])
  <2>1. c \in Won(st0, told)
    BY <1>4, <1>21 DEF Won
  <2> QED BY <1>7, <1>21, <2>1 DEF RoundFacts
<1>22. Obeys(ss, tuis, r)
  BY <1>20, <1>21 DEF Obeys, told
<1>23. ASSUME NEW t \in DOMAIN sticky, sticky[t] \in Roots(ss), t \notin missing,
              \A c \in told : c[1] = t <=> c[2] = sticky[t]
       PROVE  r.resolved[t] = Attached(sticky[t])
  <2>1. CASE \E c \in told : c[1] = t
    <3>1. PICK c \in told : c[1] = t
      BY <2>1
    <3>2. c[2] = sticky[t]
      BY <1>23, <3>1
    <3>3. ~Rivalled(told, c)
      BY <1>6, <1>23, <3>1, <3>2 DEF Rivalled, Claims
    <3> QED BY <1>20, <1>21, <3>1, <3>2, <3>3
  <2>2. CASE \A c \in told : c[1] # t
    <3>1. t \in DOMAIN st1.sticky /\ st1.sticky[t] = sticky[t]
      BY <1>2, <1>7, <1>23, <2>2 DEF RoundFacts
    <3>2. t \notin DOMAIN st1.resolved
      BY <1>3, <1>7, <1>23, <2>2 DEF RoundFacts
    <3>3. <<t, sticky[t]>> \in old
      BY <1>9, <3>1, <3>2
    <3>4. sticky[t] \notin st1.used
      <4>1. \A c \in told : c[2] # sticky[t]
        BY <1>23, <2>2
      <4> QED BY <1>4, <1>7, <4>1 DEF RoundFacts, Won
    <3>5. ASSUME NEW d \in old, d[2] = sticky[t] PROVE d = <<t, sticky[t]>>
      <4>1. PICK u \in DOMAIN st1.sticky \ DOMAIN st1.resolved : d = <<u, st1.sticky[u]>>
        BY <1>9
      <4>2. \A c \in told : c[1] # u
        BY <1>7, <4>1 DEF RoundFacts
      <4>3. u \in DOMAIN sticky /\ st1.sticky[u] = sticky[u]
        BY <1>2, <1>7, <4>1, <4>2 DEF RoundFacts
      <4>4. sticky[u] = sticky[t]
        BY <3>5, <4>1, <4>3
      <4> QED BY <4>1, <4>3, <4>4 DEF Paired
    <3>6. <<t, sticky[t]>> \in Won(st1, old)
      BY <3>3, <3>4, <3>5 DEF Won, Rivalled
    <3>7. t \in DOMAIN st2.resolved /\ st2.resolved[t] = Attached(sticky[t])
      <4>1. PICK c \in old : c = <<t, sticky[t]>> /\ c \in Won(st1, old)
        BY <3>3, <3>6
      <4>2. c[1] = t /\ c[2] = sticky[t]
        BY <4>1
      <4>3. c[1] \in DOMAIN st2.resolved /\ st2.resolved[c[1]] = Attached(c[2])
        BY <1>10, <4>1 DEF RoundFacts
      <4> QED BY <4>2, <4>3
    <3> QED BY <1>19, <3>7
  <2> QED BY <2>1, <2>2
<1>24. Keeps(ss, tuis, sticky, r)
  BY <1>23 DEF Keeps, told, missing
<1> QED BY <1>0, <1>18, <1>22, <1>24

-----------------------------------------------------------------------------
(* The order of the rows and the selection.                                *)

\* compare_rows orders the rows: it is irreflexive, total and transitive.
LEMMA BeforeOrders ==
  ASSUME NEW rows, DOMAIN rows \subseteq Instances \X (Sessions \cup Tuis),
         NEW j \in DOMAIN rows, NEW k \in DOMAIN rows
  PROVE  /\ ~Before(rows, j, j)
         /\ j # k => Before(rows, j, k) \/ Before(rows, k, j)
         /\ \A h \in DOMAIN rows : Before(rows, h, j) /\ Before(rows, j, k) => Before(rows, h, k)
<1>1. \A h \in DOMAIN rows : h = <<h[1], h[2]>> /\ h[1] \in Nat /\ h[2] \in Nat
  BY ModelAssumption
<1>2. \A h \in DOMAIN rows : Group(rows[h]) \in Nat
  BY DEF Group
<1> QED BY <1>1, <1>2 DEF Before

\* The places of the rows are the numbers from 1 on, each of one row.
LEMMA PlacesCount ==
  ASSUME NEW rows, DOMAIN rows \subseteq Instances \X (Sessions \cup Tuis),
         IsFiniteSet(DOMAIN rows)
  PROVE  /\ \A k \in DOMAIN rows : Place(rows, k) \in 1 .. Cardinality(DOMAIN rows)
         /\ \A j, k \in DOMAIN rows : Place(rows, j) = Place(rows, k) => j = k
         /\ \A n \in 1 .. Cardinality(DOMAIN rows) : \E k \in DOMAIN rows : Place(rows, k) = n
<1> DEFINE R == DOMAIN rows
           N == Cardinality(R)
           B(k) == {j \in R : Before(rows, j, k)}
           f == [k \in R |-> Place(rows, k)]
<1>0. N \in Nat
  BY FS_CardinalityType
<1>1. \A k \in R : IsFiniteSet(B(k)) /\ Cardinality(B(k)) \in Nat
  BY FS_Subset, FS_CardinalityType
<1>2. ASSUME NEW k \in R PROVE Place(rows, k) \in 1 .. N
  <2>1. B(k) \subseteq R \ {k}
    BY BeforeOrders
  <2>2. IsFiniteSet(R \ {k}) /\ Cardinality(R \ {k}) = N - 1
    BY FS_RemoveElement
  <2>3. Cardinality(B(k)) <= N - 1
    BY <2>1, <2>2, FS_Subset
  <2>4. Place(rows, k) = Cardinality(B(k)) + 1
    BY DEF Place
  <2>5. Cardinality(B(k)) \in Nat
    BY <1>1
  <2> HIDE DEF B, N
  <2> QED BY <1>0, <2>3, <2>4, <2>5
<1>3. ASSUME NEW j \in R, NEW k \in R, Before(rows, j, k) PROVE Place(rows, j) < Place(rows, k)
  <2>1. B(j) \subseteq B(k) \ {j}
    BY <1>3, BeforeOrders
  <2>2. j \in B(k)
    BY <1>3
  <2>3. IsFiniteSet(B(k) \ {j}) /\ Cardinality(B(k) \ {j}) = Cardinality(B(k)) - 1
    BY <1>1, <2>2, FS_RemoveElement
  <2>4. Cardinality(B(j)) <= Cardinality(B(k)) - 1
    BY <2>1, <2>3, FS_Subset
  <2>5. Place(rows, j) = Cardinality(B(j)) + 1 /\ Place(rows, k) = Cardinality(B(k)) + 1
    BY DEF Place
  <2>6. Cardinality(B(j)) \in Nat /\ Cardinality(B(k)) \in Nat
    BY <1>1
  <2> HIDE DEF B
  <2> QED BY <2>4, <2>5, <2>6
<1>4. ASSUME NEW j \in R, NEW k \in R, Place(rows, j) = Place(rows, k) PROVE j = k
  <2>1. Place(rows, j) \in Nat /\ Place(rows, k) \in Nat
    BY <1>0, <1>2
  <2>2. j # k => Before(rows, j, k) \/ Before(rows, k, j)
    BY BeforeOrders
  <2> QED BY <1>3, <1>4, <2>1, <2>2
<1>5. ASSUME NEW n \in 1 .. N PROVE \E k \in R : Place(rows, k) = n
  <2>1. f \in Injection(R, 1 .. N)
    BY <1>2, <1>4 DEF Injection, IsInjective
  <2>2. IsFiniteSet(1 .. N) /\ Cardinality(1 .. N) = N
    BY <1>0, FS_Interval
  <2>3. f \in Surjection(R, 1 .. N)
    BY <2>1, <2>2, FS_Injection
  <2> QED BY <2>3 DEF Surjection
<1> QED BY <1>2, <1>4, <1>5

FineRows(rows) == DOMAIN rows \subseteq Instances \X (Sessions \cup Tuis)

\* There are finitely many rows.
LEMMA RowsFinite == ASSUME NEW rows, FineRows(rows) PROVE IsFiniteSet(DOMAIN rows) /\ Cardinality(DOMAIN rows) \in Nat
<1>1. IsFiniteSet(Sessions \cup Tuis)
  BY ResolutionAssumption, ModelAssumption, FS_Union
<1>2. IsFiniteSet(Instances \X (Sessions \cup Tuis))
  BY <1>1, ModelAssumption, FS_Product
<1> QED BY <1>2, FS_Subset, FS_CardinalityType DEF FineRows

\* The selected row is one there is.
LEMMA SelectedIsRow ==
  ASSUME NEW d, FineRows(d.rows), Chosen(d)
  PROVE  /\ d.selected # 0 => SelectedKey(d) \in DOMAIN d.rows /\ Place(d.rows, SelectedKey(d)) = d.selected
         /\ d.selected = 0 => SelectedKey(d) = <<>> /\ DOMAIN d.rows = {}
         /\ \A k \in DOMAIN d.rows : Place(d.rows, k) = d.selected => SelectedKey(d) = k
<1>1. IsFiniteSet(DOMAIN d.rows) /\ Cardinality(DOMAIN d.rows) \in Nat
  BY RowsFinite
<1>2. d.selected # 0 => \E k \in DOMAIN d.rows : Place(d.rows, k) = d.selected
  BY <1>1, PlacesCount DEF Chosen, FineRows
<1>3. d.selected # 0 => SelectedKey(d) \in DOMAIN d.rows /\ Place(d.rows, SelectedKey(d)) = d.selected
  BY <1>2 DEF SelectedKey
<1>4. d.selected = 0 => SelectedKey(d) = <<>> /\ DOMAIN d.rows = {}
  BY DEF SelectedKey, Chosen
<1>5. ASSUME NEW k \in DOMAIN d.rows, Place(d.rows, k) = d.selected PROVE SelectedKey(d) = k
  BY <1>1, <1>3, <1>4, <1>5, PlacesCount DEF FineRows
<1> QED BY <1>3, <1>4, <1>5

\* Two dashboards that differ in what is selected.
Alike(d, e) ==
  /\ DOMAIN e = DOMAIN d
  /\ e.rows = d.rows /\ e.projections = d.projections /\ e.attachments = d.attachments
  /\ e.v1Focus = d.v1Focus /\ e.sticky = d.sticky /\ e.endpoints = d.endpoints /\ e.v2 = d.v2
  /\ e.connected = d.connected /\ e.lastNonBusy = d.lastNonBusy /\ e.pendingReady = d.pendingReady

\* normalize_rows selects a row there is, the one of its key if that is there,
\* and changes nothing else.
LEMMA NormalizeFacts ==
  ASSUME NEW d, DOMAIN d = Fields, FineRows(d.rows), NEW key, d.selected \in Nat
  PROVE  LET e == Normalize(d, key)
         IN  Alike(d, e) /\ Chosen(e) /\ (key \in DOMAIN d.rows => SelectedKey(e) = key)
<1> DEFINE e == Normalize(d, key)
           at == IF key \in DOMAIN d.rows THEN Place(d.rows, key) ELSE d.selected
           N == Cardinality(DOMAIN d.rows)
<1>1. e = [d EXCEPT !.selected = Clamped(d, at)]
  BY DEF Normalize
<1>2. Alike(d, e) /\ e.selected = Clamped(d, at)
  BY <1>1 DEF Alike, Fields
<1>3. IsFiniteSet(DOMAIN d.rows) /\ N \in Nat /\ (N = 0 <=> DOMAIN d.rows = {})
  BY RowsFinite, FS_EmptySet
<1>4. key \in DOMAIN d.rows => at \in 1 .. N
  BY <1>3, PlacesCount DEF FineRows
<1>5. at \in Nat
  BY <1>3, <1>4
<1> HIDE DEF at, e
<1>6. DOMAIN d.rows # {} => Clamped(d, at) \in 1 .. N /\ (at \in 1 .. N => Clamped(d, at) = at)
  BY <1>3, <1>5 DEF Clamped, Least
<1>7. DOMAIN d.rows = {} => Clamped(d, at) = 0
  BY DEF Clamped
<1>8. e.rows = d.rows
  BY <1>2 DEF Alike
<1>9. Chosen(e)
  BY <1>2, <1>3, <1>6, <1>7, <1>8 DEF Chosen
<1>10. ASSUME key \in DOMAIN d.rows PROVE SelectedKey(e) = key
  <2>1. e.selected = Place(e.rows, key) /\ key \in DOMAIN e.rows
    BY <1>2, <1>4, <1>6, <1>8, <1>10 DEF at
  <2>2. FineRows(e.rows)
    BY <1>8 DEF FineRows
  <2> QED BY <1>9, <2>1, <2>2, SelectedIsRow
<1> QED BY <1>2, <1>9, <1>10 DEF e

-----------------------------------------------------------------------------
(* One row.                                                                *)

Loose == {"ambiguous", "unresolved"}

\* What occurs at a row depends on these of its fields.
LEMMA OccurrenceReads ==
  ASSUME NEW a, NEW b,
         a.questions = b.questions, a.permissions = b.permissions, a.busy = b.busy,
         a.background = b.background, a.generation = b.generation,
         a.category \in Loose <=> b.category \in Loose
  PROVE  Occurrence(a) = Occurrence(b)
BY DEF Occurrence, Loose

\* A row before and after, as far as a dismissal goes.
StandsOn(row, next, updated) ==
  IsDismissed(next) <=> /\ IsDismissed(row) /\ Occurrence(next) = Occurrence(row)
                        /\ updated => ~next.busy

\* The counter of a row neither loses nor gains.
Even(row, next, t) ==
  Elapsed(row, t) # None /\ Elapsed(next, t) # None => Elapsed(next, t) = Elapsed(row, t)

RowTyped(row) == DOMAIN row = RowFields /\ row.busy \in BOOLEAN /\ row.stale \in BOOLEAN

\* A row that occurs and is dismissed as before stands.
LEMMA SameStands ==
  ASSUME NEW row, NEW next, next.dismissed = row.dismissed, Occurrence(next) = Occurrence(row)
  PROVE  StandsOn(row, next, FALSE)
BY DEF StandsOn, IsDismissed

\* What update_row changes.
IsUpdated(row, aggregate, t, n) ==
  /\ RowTyped(n)
  /\ n.busy = aggregate.busy /\ n.background = aggregate.background
  /\ n.questions = aggregate.questions /\ n.permissions = aggregate.permissions
  /\ n.generation = row.generation /\ n.stale = row.stale /\ n.category = row.category
  /\ n.tui = row.tui /\ n.focus = row.focus /\ n.attachmentStale = row.attachmentStale
  /\ n.dismissed = IF aggregate.busy \/ Occurrence(row) # Occurrence(n) THEN <<>> ELSE row.dismissed
  /\ n.lastNonBusy = Retimed(row, aggregate.busy, t).lastNonBusy
  /\ n.firstBusy = Retimed(row, aggregate.busy, t).firstBusy
  /\ n.frozen = Retimed(row, aggregate.busy, t).frozen

\* The times of update_row are all that Retimed changes.
LEMMA RetimedKeeps ==
  ASSUME NEW row, RowTyped(row), NEW busy \in BOOLEAN, NEW t
  PROVE  LET n == Retimed(row, busy, t)
         IN  /\ DOMAIN n = RowFields
             /\ \A f \in RowFields \ {"lastNonBusy", "firstBusy", "frozen"} : n[f] = row[f]
BY DEF Retimed, RowTyped, RowFields

\* update_row changes what IsUpdated says.
LEMMA Updates ==
  ASSUME NEW row, RowTyped(row), NEW aggregate, aggregate.busy \in BOOLEAN, NEW t
  PROVE  IsUpdated(row, aggregate, t, UpdateRow(row, aggregate, t))
<1> DEFINE timed == Retimed(row, aggregate.busy, t)
           shown == [timed EXCEPT
                       !.busy = aggregate.busy, !.background = aggregate.background,
                       !.questions = aggregate.questions, !.permissions = aggregate.permissions]
           n == [shown EXCEPT !.dismissed =
                   IF aggregate.busy \/ Occurrence(row) # Occurrence(shown) THEN <<>> ELSE @]
<1>1. UpdateRow(row, aggregate, t) = n
  BY DEF UpdateRow
<1>2. /\ DOMAIN timed = RowFields
      /\ \A f \in RowFields \ {"lastNonBusy", "firstBusy", "frozen"} : timed[f] = row[f]
  BY RetimedKeeps
<1> HIDE DEF timed
<1>3. /\ DOMAIN shown = RowFields
      /\ \A f \in RowFields \ {"busy", "background", "questions", "permissions"} : shown[f] = timed[f]
      /\ shown.busy = aggregate.busy /\ shown.background = aggregate.background
      /\ shown.questions = aggregate.questions /\ shown.permissions = aggregate.permissions
  BY <1>2 DEF RowFields
<1> HIDE DEF shown
<1>4. /\ DOMAIN n = RowFields
      /\ \A f \in RowFields \ {"dismissed"} : n[f] = shown[f]
      /\ n.dismissed = IF aggregate.busy \/ Occurrence(row) # Occurrence(shown) THEN <<>> ELSE shown.dismissed
  BY <1>3 DEF RowFields
<1> HIDE DEF n
<1>5. Occurrence(n) = Occurrence(shown)
  <2>1. /\ n.questions = shown.questions /\ n.permissions = shown.permissions /\ n.busy = shown.busy
        /\ n.background = shown.background /\ n.generation = shown.generation
        /\ n.category = shown.category
    BY <1>4 DEF RowFields
  <2> QED BY <2>1, OccurrenceReads
<1>6. n.lastNonBusy = timed.lastNonBusy /\ n.firstBusy = timed.firstBusy /\ n.frozen = timed.frozen
  BY <1>3, <1>4 DEF RowFields
<1>7. /\ n.generation = row.generation /\ n.stale = row.stale /\ n.category = row.category
      /\ n.tui = row.tui /\ n.focus = row.focus /\ n.attachmentStale = row.attachmentStale
      /\ n.busy = aggregate.busy /\ n.background = aggregate.background
      /\ n.questions = aggregate.questions /\ n.permissions = aggregate.permissions
  BY <1>2, <1>3, <1>4 DEF RowFields
<1>8. n.dismissed = IF aggregate.busy \/ Occurrence(row) # Occurrence(n) THEN <<>> ELSE row.dismissed
  BY <1>2, <1>3, <1>4, <1>5 DEF RowFields
<1>9. RowTyped(n)
  BY <1>4, <1>7 DEF RowTyped
<1> QED BY <1>1, <1>6, <1>7, <1>8, <1>9 DEF IsUpdated, timed

\* An update leaves a dismissal alone if the row goes on to ask the same and
\* does not work.
LEMMA UpdateStands ==
  ASSUME NEW row, NEW aggregate, NEW t, NEW n, IsUpdated(row, aggregate, t, n),
         NEW e, e.dismissed = n.dismissed, e.busy = n.busy, Occurrence(e) = Occurrence(n)
  PROVE  StandsOn(row, e, TRUE)
BY DEF IsUpdated, StandsOn, IsDismissed

\* update_row keeps the times of a row in the past and its counter where it stood,
\* and leaves none frozen.
LEMMA UpdateTimed ==
  ASSUME NEW t \in Nat, NEW row, RowTyped(row), Timed(row, t),
         NEW aggregate, aggregate.busy \in BOOLEAN,
         NEW n, IsUpdated(row, aggregate, t, n)
  PROVE  Timed(n, t) /\ n.frozen = None /\ Even(row, n, t)
<1>0. None \notin Nat /\ RowFields = DOMAIN row
  BY ModelAssumption DEF RowTyped
<1>1. CASE ~aggregate.busy
  <2>1. n.lastNonBusy = t /\ n.firstBusy = None /\ n.frozen = None /\ ~n.busy
    BY <1>0, <1>1 DEF IsUpdated, Retimed, RowFields
  <2> QED BY <1>0, <2>1 DEF Timed, Past, Even, Elapsed
<1>2. CASE aggregate.busy /\ row.frozen # None
  <2>1. /\ n.lastNonBusy = IF row.lastNonBusy # None THEN t - row.frozen ELSE None
        /\ n.firstBusy = IF row.lastNonBusy = None /\ row.firstBusy # None THEN t - row.frozen ELSE row.firstBusy
        /\ n.frozen = None /\ n.busy
    BY <1>0, <1>2 DEF IsUpdated, Retimed, RowFields
  <2>2. row.frozen \in 0 .. t /\ row.busy /\ Baseline(row) # None
    BY <1>2 DEF Timed, Past, RowTyped
  <2>3. t - row.frozen \in 0 .. t /\ t - row.frozen # None /\ t - (t - row.frozen) = row.frozen
    BY <1>0, <2>2
  <2>4. Baseline(n) = t - row.frozen
    BY <2>1, <2>2, <2>3 DEF Baseline
  <2>5. Timed(n, t)
    BY <2>1, <2>3, <2>4 DEF Timed, Past
  <2>6. Elapsed(row, t) = row.frozen /\ Elapsed(n, t) = t - (t - row.frozen)
    BY <1>2, <2>1, <2>2, <2>3, <2>4 DEF Elapsed
  <2> QED BY <2>1, <2>3, <2>5, <2>6 DEF Even
<1>3. CASE aggregate.busy /\ row.frozen = None
  <2>1. /\ n.lastNonBusy = row.lastNonBusy /\ n.frozen = None /\ n.busy
        /\ n.firstBusy = IF ~row.busy /\ row.lastNonBusy = None THEN t ELSE row.firstBusy
    BY <1>0, <1>3 DEF IsUpdated, Retimed, RowFields
  <2>2. Timed(n, t)
    BY <1>0, <2>1 DEF Timed, Past, Baseline, RowTyped
  <2>3. row.busy => Baseline(n) = Baseline(row)
    BY <2>1 DEF Baseline
  <2>4. row.busy => Elapsed(n, t) = Elapsed(row, t)
    BY <1>3, <2>1, <2>3 DEF Elapsed
  <2>5. ~row.busy => Elapsed(row, t) = None
    BY DEF Elapsed
  <2> QED BY <2>1, <2>2, <2>4, <2>5 DEF Even, RowTyped
<1> QED BY <1>1, <1>2, <1>3

IsNewRow(n, aggregate, t) ==
  /\ RowTyped(n) /\ n.dismissed = <<>> /\ n.category = "v1" /\ n.stale = FALSE
  /\ n.busy = aggregate.busy /\ n.background = aggregate.background
  /\ n.questions = aggregate.questions /\ n.permissions = aggregate.permissions
  /\ n.tui = None /\ n.focus = FALSE /\ n.attachmentStale = FALSE
  /\ Timed(n, t) /\ n.frozen = None

\* new_row is a row that is not dismissed, with times in the past.
LEMMA NewRowFacts ==
  ASSUME NEW aggregate, aggregate.busy \in BOOLEAN, NEW last, NEW t \in Nat, Past(last, t)
  PROVE  IsNewRow(NewRow(aggregate, last, t), aggregate, t)
<1>0. None \notin Nat
  BY ModelAssumption
<1> DEFINE n == NewRow(aggregate, last, t)
<1>1. /\ RowTyped(n) /\ n.dismissed = <<>> /\ n.category = "v1" /\ n.stale = FALSE
      /\ n.busy = aggregate.busy /\ n.background = aggregate.background
      /\ n.questions = aggregate.questions /\ n.permissions = aggregate.permissions
      /\ n.tui = None /\ n.focus = FALSE /\ n.attachmentStale = FALSE
      /\ n.frozen = None /\ n.lastNonBusy = last
      /\ n.firstBusy = IF aggregate.busy /\ last = None THEN t ELSE None
  BY DEF NewRow, RowTyped, RowFields
<1> HIDE DEF n
<1>3. Timed(n, t)
  BY <1>0, <1>1 DEF Timed, Past, Baseline
<1> QED BY <1>1, <1>3 DEF n, IsNewRow

-----------------------------------------------------------------------------
(* What an operation comes to.                                             *)

\* What is attributed of one instance is the same.
KeptAt(d, e, i) ==
  /\ Of(e.rows, i) = Of(d.rows, i)
  /\ \A k \in Of(d.rows, i) :
       /\ e.rows[k].category = d.rows[k].category /\ e.rows[k].tui = d.rows[k].tui
       /\ e.rows[k].focus = d.rows[k].focus /\ e.rows[k].attachmentStale = d.rows[k].attachmentStale
  /\ i \in DOMAIN e.projections <=> i \in DOMAIN d.projections
  /\ i \in DOMAIN d.projections => e.projections[i] = d.projections[i]
  /\ e.attachments[i] = d.attachments[i] /\ e.sticky[i] = d.sticky[i]
  /\ i \in e.v1Focus <=> i \in d.v1Focus

\* A terminal keeps its root.
SticksAt(d, e, i) ==
  i \in V2 /\ i \in DOMAIN e.projections =>
    \A k \in Of(d.rows, i) :
      LET t == d.rows[k].tui
      IN  /\ d.rows[k].category = "attached"
          /\ t \in DOMAIN e.attachments[i] /\ k[2] \in Roots(e.projections[i])
          /\ t \notin Misdirected(e.projections[i], e.attachments[i])
          /\ \A c \in ExplicitClaims(e.projections[i], e.attachments[i]) : c[1] = t <=> c[2] = k[2]
          => k \in DOMAIN e.rows /\ e.rows[k].tui = t

\* The dismissals of the rows in `over' are over, as those of new rows.
Turned(rows, next, updated, over, t) ==
  \A k \in DOMAIN next :
    /\ IF k \in DOMAIN rows \ over THEN StandsOn(rows[k], next[k], k[1] \in updated)
       ELSE ~IsDismissed(next[k])
    /\ k \in DOMAIN rows /\ k[1] \notin V2 => Even(rows[k], next[k], t)

Good(d, mon, running, t) ==
  Formed(d) /\ Follows(d, mon) /\ Resolved(d) /\ Clocked(d, t, running)

\* What an operation on the dashboard comes to.
Outcome(d, e, mon, running, updated, over, t) ==
  /\ Good(e, mon, running, t)
  /\ Turned(d.rows, e.rows, updated, over, t)
  /\ \A i \in Instances : SticksAt(d, e, i)

\* The row of an instance whose attribution is kept is as sound as it was.
LEMMA KeptRow ==
  ASSUME NEW d, NEW e, NEW i, KeptAt(d, e, i), NEW k \in Of(d.rows, i)
  PROVE  /\ V1Row(d, k) => V1Row(e, k)
         /\ V2Row(d, k) => V2Row(e, k)
<1>1. /\ k[1] = i /\ e.attachments[i] = d.attachments[i] /\ e.sticky[i] = d.sticky[i]
      /\ i \in e.v1Focus <=> i \in d.v1Focus
      /\ i \in DOMAIN e.projections <=> i \in DOMAIN d.projections
      /\ i \in DOMAIN d.projections => e.projections[i] = d.projections[i]
      /\ e.rows[k].category = d.rows[k].category /\ e.rows[k].tui = d.rows[k].tui
      /\ e.rows[k].focus = d.rows[k].focus /\ e.rows[k].attachmentStale = d.rows[k].attachmentStale
  BY DEF KeptAt, Of
<1>2. V1Row(d, k) => V1Row(e, k)
  BY <1>1 DEF V1Row
<1>3. V2Row(d, k) => V2Row(e, k)
  BY <1>1 DEF V2Row
<1> QED BY <1>2, <1>3

\* An instance whose attribution is kept is resolved as before, and pairs stick.
LEMMA KeptResolved ==
  ASSUME NEW d, NEW e, NEW i, KeptAt(d, e, i), ResolvedAt(d, i)
  PROVE  ResolvedAt(e, i) /\ SticksAt(d, e, i)
<1>0. /\ Of(e.rows, i) = Of(d.rows, i)
      /\ i \in DOMAIN e.projections <=> i \in DOMAIN d.projections
      /\ i \in DOMAIN d.projections => e.projections[i] = d.projections[i]
      /\ e.attachments[i] = d.attachments[i]
      /\ \A k \in Of(d.rows, i) : e.rows[k].tui = d.rows[k].tui
  BY DEF KeptAt
<1>1. \A k \in Of(e.rows, i) : IF i \in V2 THEN V2Row(e, k) ELSE V1Row(e, k)
  BY <1>0, KeptRow DEF ResolvedAt
<1>2. ASSUME i \in V2, i \in DOMAIN e.projections PROVE Attributed(e, i)
  <2>1. Attributed(d, i)
    BY <1>0, <1>2 DEF ResolvedAt
  <2>2. \A x : <<i, x>> \in DOMAIN e.rows <=> <<i, x>> \in DOMAIN d.rows
    BY <1>0 DEF Of
  <2>3. \A x : <<i, x>> \in DOMAIN d.rows => e.rows[<<i, x>>].tui = d.rows[<<i, x>>].tui
    BY <1>0 DEF Of
  <2> QED BY <1>0, <1>2, <2>1, <2>2, <2>3 DEF Attributed
<1>3. SticksAt(d, e, i)
  BY <1>0 DEF SticksAt, Of
<1> QED BY <1>1, <1>2, <1>3 DEF ResolvedAt

\* So it is of all of them together.
LEMMA AllKept ==
  ASSUME NEW d, NEW e, Resolved(d), \A i \in Instances : KeptAt(d, e, i)
  PROVE  Resolved(e) /\ \A i \in Instances : SticksAt(d, e, i)
BY KeptResolved DEF Resolved

\* A dashboard that differs in what is selected keeps every attribution.
LEMMA AlikeKept == ASSUME NEW d, NEW e, Alike(d, e), NEW i PROVE KeptAt(d, e, i)
BY DEF Alike, KeptAt

\* It is as good as the other.
LEMMA AlikeGood ==
  ASSUME NEW d, NEW e, Alike(d, e), NEW mon, NEW running, NEW t, Good(d, mon, running, t)
  PROVE  Good(e, mon, running, t)
<1>1. Formed(e)
  BY DEF Good, Alike, Formed
<1>2. Follows(e, mon)
  BY DEF Good, Alike, Follows
<1>3. Resolved(e)
  BY AlikeKept, AllKept DEF Good
<1>4. Clocked(e, t, running)
  BY DEF Good, Alike, Clocked
<1> QED BY <1>1, <1>2, <1>3, <1>4 DEF Good

\* The rows of a dashboard are keyed as rows are.
LEMMA FormedRows == ASSUME NEW d, Formed(d) PROVE FineRows(d.rows) /\ DOMAIN d = Fields
BY DEF Formed, FineRows

\* Normalising the rows moves the selection, and nothing else.
LEMMA NormalizedOutcome ==
  ASSUME NEW d, NEW e, NEW mon, NEW running, NEW updated, NEW over, NEW t,
         Outcome(d, e, mon, running, updated, over, t), e.selected \in Nat, NEW key
  PROVE  LET n == Normalize(e, key)
         IN  /\ Outcome(d, n, mon, running, updated, over, t) /\ Chosen(n)
             /\ key \in DOMAIN n.rows => SelectedKey(n) = key
<1> DEFINE n == Normalize(e, key)
<1>1. Good(e, mon, running, t) /\ FineRows(e.rows) /\ DOMAIN e = Fields
  BY FormedRows DEF Outcome, Good
<1>2. Alike(e, n) /\ Chosen(n) /\ (key \in DOMAIN e.rows => SelectedKey(n) = key)
  BY <1>1, NormalizeFacts
<1> HIDE DEF n
<1>3. Good(n, mon, running, t)
  BY <1>1, <1>2, AlikeGood
<1>4. /\ n.rows = e.rows /\ n.projections = e.projections /\ n.attachments = e.attachments
  BY <1>2 DEF Alike
<1>5. Turned(d.rows, n.rows, updated, over, t)
  BY <1>4 DEF Outcome
<1>6. \A i \in Instances : SticksAt(d, n, i)
  BY <1>4 DEF Outcome, SticksAt
<1> QED BY <1>2, <1>3, <1>4, <1>5, <1>6 DEF Outcome, n

-----------------------------------------------------------------------------
(* Servers come, connect and go.                                           *)

Monitored(mon) == mon \in [Instances -> {"absent", "found", "connected", "disconnected"}]

There(mon) == {i \in Instances : mon[i] # "absent"}

\* No other instance is at the endpoint: nothing is removed.
LEMMA SettleFacts ==
  ASSUME NEW d, NEW mon, Formed(d), Follows(d, mon), NEW i \in Instances,
         \A j \in There(mon) : EndpointOf[j] = EndpointOf[i] => j = i
  PROVE  LET e == Settle(d, i)
         IN  /\ DOMAIN e = Fields
             /\ \A f \in Fields \ {"endpoints"} : e[f] = d[f]
             /\ DOMAIN e.endpoints = DOMAIN d.endpoints \cup {EndpointOf[i]}
             /\ \A x \in DOMAIN e.endpoints :
                  e.endpoints[x] = IF x = EndpointOf[i] THEN i ELSE d.endpoints[x]
<1> DEFINE at == EndpointOf[i]
           g == [x \in {at} |-> i]
<1>1. at \in DOMAIN d.endpoints => d.endpoints[at] = i
  BY DEF Follows, There
<1>2. Settle(d, i) = [d EXCEPT !.endpoints = Put(@, g)]
  BY <1>1 DEF Settle
<1>3. IsPut(Put(d.endpoints, g), d.endpoints, g)
  BY PutFacts
<1>4. DOMAIN d = Fields
  BY DEF Formed
<1> HIDE DEF g
<1>5. /\ DOMAIN Settle(d, i) = Fields
      /\ \A f \in Fields \ {"endpoints"} : Settle(d, i)[f] = d[f]
      /\ Settle(d, i).endpoints = Put(d.endpoints, g)
  BY <1>2, <1>4 DEF Fields
<1>6. DOMAIN g = {at} /\ g[at] = i
  BY DEF g
<1> QED BY <1>3, <1>5, <1>6 DEF IsPut

\* The rows are the same, and nothing is updated.
LEMMA SameTurned ==
  ASSUME NEW rows, NEW next, NEW t, DOMAIN next = DOMAIN rows, \A k \in DOMAIN rows : next[k] = rows[k]
  PROVE  Turned(rows, next, {}, {}, t)
BY DEF Turned, StandsOn, Even

\* A server is found: what is known of it is its endpoint and its protocol.
LEMMA FindOutcome ==
  ASSUME NEW d, NEW mon, NEW running, NEW t, Good(d, mon, running, t), Monitored(mon),
         NEW i \in Instances, mon[i] = "absent", \A j \in There(mon) : EndpointOf[j] # EndpointOf[i]
  PROVE  LET s == Settle(d, i)
             e == [s EXCEPT !.v2 = IF i \in V2 THEN @ \cup {i} ELSE @ \ {i}]
         IN  Outcome(d, e, [mon EXCEPT ![i] = "found"], running, {}, {}, t) /\ e.selected = d.selected
<1> DEFINE s == Settle(d, i)
           e == [s EXCEPT !.v2 = IF i \in V2 THEN @ \cup {i} ELSE @ \ {i}]
           after == [mon EXCEPT ![i] = "found"]
<1>1. Formed(d) /\ Follows(d, mon) /\ Resolved(d) /\ Clocked(d, t, running)
  BY DEF Good
<1>2. /\ DOMAIN s = Fields
      /\ \A f \in Fields \ {"endpoints"} : s[f] = d[f]
      /\ DOMAIN s.endpoints = DOMAIN d.endpoints \cup {EndpointOf[i]}
      /\ \A x \in DOMAIN s.endpoints :
           s.endpoints[x] = IF x = EndpointOf[i] THEN i ELSE d.endpoints[x]
  BY <1>1, SettleFacts
<1> HIDE DEF s
<1>3. /\ DOMAIN e = Fields
      /\ \A f \in Fields \ {"endpoints", "v2"} : e[f] = d[f]
      /\ e.endpoints = s.endpoints
      /\ e.v2 = IF i \in V2 THEN d.v2 \cup {i} ELSE d.v2 \ {i}
  BY <1>2 DEF Fields
<1> HIDE DEF e
<1>4. /\ e.rows = d.rows /\ e.projections = d.projections /\ e.attachments = d.attachments
      /\ e.v1Focus = d.v1Focus /\ e.sticky = d.sticky /\ e.connected = d.connected
      /\ e.lastNonBusy = d.lastNonBusy /\ e.pendingReady = d.pendingReady /\ e.selected = d.selected
  BY <1>3 DEF Fields
<1>5. Formed(e)
  BY <1>1, <1>3, <1>4 DEF Formed
<1>6. There(after) = There(mon) \cup {i} /\ after[i] = "found"
      /\ \A j \in Instances \ {i} : after[j] = mon[j]
  BY DEF There, Monitored
<1> HIDE DEF after
<1>7. Follows(e, after)
  <2>1. \A x, y \in There(after) : EndpointOf[x] = EndpointOf[y] => x = y
    BY <1>1, <1>6 DEF Follows, There
  <2>2. \A x \in DOMAIN e.endpoints : e.endpoints[x] \in There(after) /\ EndpointOf[e.endpoints[x]] = x
    BY <1>1, <1>2, <1>3, <1>6 DEF Follows, There
  <2>3. \A x \in There(after) : EndpointOf[x] \in DOMAIN e.endpoints
    BY <1>1, <1>2, <1>3, <1>6 DEF Follows, There
  <2>4. e.v2 = There(after) \cap V2
    BY <1>1, <1>3, <1>6 DEF Follows, There
  <2>5. e.connected = {x \in Instances : after[x] = "connected"}
    BY <1>1, <1>4, <1>6 DEF Follows
  <2>6. DOMAIN e.projections \subseteq There(after) /\ \A k \in e.pendingReady : k[1] \in There(after)
    BY <1>1, <1>4, <1>6 DEF Follows, There
  <2> QED BY <2>1, <2>2, <2>3, <2>4, <2>5, <2>6 DEF Follows, There
<1>8. \A j \in Instances : KeptAt(d, e, j)
  BY <1>4 DEF KeptAt
<1>9. Resolved(e) /\ \A j \in Instances : SticksAt(d, e, j)
  BY <1>1, <1>8, AllKept
<1>10. Clocked(e, t, running)
  BY <1>1, <1>4 DEF Clocked
<1>11. Turned(d.rows, e.rows, {}, {}, t)
  BY <1>4, SameTurned
<1>12. Outcome(d, e, after, running, {}, {}, t) /\ e.selected = d.selected
  BY <1>4, <1>5, <1>7, <1>9, <1>10, <1>11 DEF Outcome, Good
<1> QED BY <1>12 DEF e, s, after

\* What StaleRow changes of a row.
LEMMA StaleRowFacts ==
  ASSUME NEW row, RowTyped(row), NEW stale \in BOOLEAN, NEW t
  PROVE  LET n == StaleRow(row, stale, t)
         IN  /\ RowTyped(n) /\ n.stale = stale /\ n.busy = row.busy
             /\ n.frozen = IF stale /\ ~row.stale /\ row.frozen = None THEN Elapsed(row, t) ELSE row.frozen
             /\ n.lastNonBusy = row.lastNonBusy /\ n.firstBusy = row.firstBusy
             /\ n.category = row.category /\ n.tui = row.tui /\ n.focus = row.focus
             /\ n.attachmentStale = row.attachmentStale /\ n.dismissed = row.dismissed
             /\ Occurrence(n) = Occurrence(row)
<1> DEFINE n == StaleRow(row, stale, t)
<1>1. /\ RowTyped(n) /\ n.stale = stale /\ n.busy = row.busy
      /\ n.frozen = IF stale /\ ~row.stale /\ row.frozen = None THEN Elapsed(row, t) ELSE row.frozen
      /\ n.lastNonBusy = row.lastNonBusy /\ n.firstBusy = row.firstBusy
      /\ n.category = row.category /\ n.tui = row.tui /\ n.focus = row.focus
      /\ n.attachmentStale = row.attachmentStale /\ n.dismissed = row.dismissed
      /\ n.questions = row.questions /\ n.permissions = row.permissions
      /\ n.background = row.background /\ n.generation = row.generation
  BY DEF StaleRow, RowTyped, RowFields
<1> HIDE DEF n
<1>2. Occurrence(n) = Occurrence(row)
  BY <1>1, OccurrenceReads
<1> QED BY <1>1, <1>2 DEF n

\* set_stale changes the rows of one instance.
LEMMA SetStaleFacts ==
  ASSUME NEW d, DOMAIN d = Fields, NEW i, NEW stale \in BOOLEAN, NEW t
  PROVE  LET e == SetStale(d, i, stale, t)
         IN  /\ DOMAIN e = Fields
             /\ \A f \in Fields \ {"rows"} : e[f] = d[f]
             /\ DOMAIN e.rows = DOMAIN d.rows
             /\ \A k \in DOMAIN d.rows :
                  e.rows[k] = IF k[1] = i THEN StaleRow(d.rows[k], stale, t) ELSE d.rows[k]
<1> DEFINE R == [k \in DOMAIN d.rows |->
                   IF k[1] = i THEN StaleRow(d.rows[k], stale, t) ELSE d.rows[k]]
<1>1. SetStale(d, i, stale, t) = [d EXCEPT !.rows = R]
  BY DEF SetStale
<1>2. DOMAIN R = DOMAIN d.rows /\ \A k \in DOMAIN d.rows :
        R[k] = IF k[1] = i THEN StaleRow(d.rows[k], stale, t) ELSE d.rows[k]
  OBVIOUS
<1> HIDE DEF R
<1> QED BY <1>1, <1>2 DEF Fields

\* The counter of a row whose server connects, or is lost, stands still.
LEMMA StaleTimes ==
  ASSUME NEW t \in Nat, NEW row, RowTyped(row), NEW runs \in BOOLEAN, TimeSound(row, t, runs),
         NEW stale \in BOOLEAN, ~stale => ~runs
  PROVE  LET n == StaleRow(row, stale, t)
         IN  TimeSound(n, t, FALSE) /\ Even(row, n, t)
<1> DEFINE n == StaleRow(row, stale, t)
<1>0. None \notin Nat
  BY ModelAssumption
<1>1. /\ n.stale = stale /\ n.busy = row.busy
      /\ n.frozen = IF stale /\ ~row.stale /\ row.frozen = None THEN Elapsed(row, t) ELSE row.frozen
      /\ n.lastNonBusy = row.lastNonBusy /\ n.firstBusy = row.firstBusy
  BY StaleRowFacts
<1> HIDE DEF n
<1>2. Baseline(n) = Baseline(row)
  BY <1>1 DEF Baseline
<1>3. CASE ~row.busy
  BY <1>1, <1>2, <1>3 DEF TimeSound, Timed, Past, Elapsed, Even, n
<1>4. CASE row.busy
  <2>1. Baseline(row) \in 0 .. t /\ Baseline(row) # None
    BY <1>4 DEF TimeSound, Timed, Past, Baseline
  <2>2. CASE row.frozen # None
    BY <1>1, <1>2, <1>4, <2>1, <2>2 DEF TimeSound, Timed, Past, Elapsed, Even, n
  <2>3. CASE row.frozen = None
    <3>1. runs /\ stale /\ ~row.stale
      BY <1>4, <2>3 DEF TimeSound
    <3>2. Elapsed(row, t) = t - Baseline(row) /\ t - Baseline(row) \in 0 .. t
      BY <1>4, <2>1, <2>3 DEF Elapsed
    <3>3. n.frozen = t - Baseline(row) /\ n.frozen # None
      BY <1>0, <1>1, <2>3, <3>1, <3>2
    <3>4. Elapsed(n, t) = Elapsed(row, t)
      BY <1>1, <1>4, <3>2, <3>3 DEF Elapsed
    <3>5. TimeSound(n, t, FALSE)
      BY <1>1, <1>2, <1>4, <2>1, <3>2, <3>3 DEF TimeSound, Timed, Past
    <3> QED BY <3>4, <3>5 DEF Even, n
  <2> QED BY <2>2, <2>3
<1> QED BY <1>3, <1>4

\* A server that is there is known.
LEMMA ThereKnown ==
  ASSUME NEW d, NEW mon, Follows(d, mon), NEW i \in There(mon)
  PROVE  Known(d, i)
<1>1. EndpointOf[i] \in DOMAIN d.endpoints
  BY DEF Follows, There
<1>2. d.endpoints[EndpointOf[i]] \in There(mon) /\ EndpointOf[d.endpoints[EndpointOf[i]]] = EndpointOf[i]
  BY <1>1 DEF Follows, There
<1>3. d.endpoints[EndpointOf[i]] = i
  BY <1>2 DEF Follows, There
<1> QED BY <1>1, <1>3 DEF Known

\* A server connects, or is lost: its rows are told so, and their counters
\* stand still.
LEMMA StaleOutcome ==
  ASSUME NEW d, NEW mon, NEW running, NEW t, Good(d, mon, running, t), Monitored(mon),
         NEW i \in There(mon), NEW stale \in BOOLEAN, ~stale => i \notin running
  PROVE  LET c == [d EXCEPT !.connected = IF stale THEN @ \ {i} ELSE @ \cup {i}]
             e == SetStale(c, i, stale, t)
         IN  /\ Outcome(d, e, [mon EXCEPT ![i] = IF stale THEN "disconnected" ELSE "connected"],
                        running \ {i}, {}, {}, t)
             /\ e.selected = d.selected
<1> DEFINE c == [d EXCEPT !.connected = IF stale THEN @ \ {i} ELSE @ \cup {i}]
           e == SetStale(c, i, stale, t)
           after == [mon EXCEPT ![i] = IF stale THEN "disconnected" ELSE "connected"]
<1>1. Formed(d) /\ Follows(d, mon) /\ Resolved(d) /\ Clocked(d, t, running) /\ DOMAIN d = Fields
  BY DEF Good, Formed
<1>2. /\ DOMAIN c = Fields
      /\ \A f \in Fields \ {"connected"} : c[f] = d[f]
      /\ c.connected = IF stale THEN d.connected \ {i} ELSE d.connected \cup {i}
  BY <1>1 DEF Fields
<1> HIDE DEF c
<1>3. /\ DOMAIN e = Fields
      /\ \A f \in Fields \ {"rows"} : e[f] = c[f]
      /\ DOMAIN e.rows = DOMAIN c.rows
      /\ \A k \in DOMAIN c.rows :
           e.rows[k] = IF k[1] = i THEN StaleRow(c.rows[k], stale, t) ELSE c.rows[k]
  BY <1>2, SetStaleFacts
<1> HIDE DEF e
<1>4. /\ e.projections = d.projections /\ e.attachments = d.attachments /\ e.v2 = d.v2
      /\ e.v1Focus = d.v1Focus /\ e.sticky = d.sticky /\ e.endpoints = d.endpoints
      /\ e.lastNonBusy = d.lastNonBusy /\ e.pendingReady = d.pendingReady /\ e.selected = d.selected
      /\ e.connected = IF stale THEN d.connected \ {i} ELSE d.connected \cup {i}
      /\ DOMAIN e.rows = DOMAIN d.rows
      /\ \A k \in DOMAIN d.rows :
           e.rows[k] = IF k[1] = i THEN StaleRow(d.rows[k], stale, t) ELSE d.rows[k]
  BY <1>2, <1>3 DEF Fields
<1>5. \A k \in DOMAIN d.rows : RowTyped(d.rows[k])
  BY <1>1 DEF Formed, RowTyped
<1>6. \A k \in DOMAIN d.rows :
        /\ RowTyped(e.rows[k])
        /\ e.rows[k].category = d.rows[k].category /\ e.rows[k].tui = d.rows[k].tui
        /\ e.rows[k].focus = d.rows[k].focus
        /\ e.rows[k].attachmentStale = d.rows[k].attachmentStale
        /\ e.rows[k].dismissed = d.rows[k].dismissed
        /\ Occurrence(e.rows[k]) = Occurrence(d.rows[k])
  <2> TAKE k \in DOMAIN d.rows
  <2>1. CASE k[1] = i
    <3>1. e.rows[k] = StaleRow(d.rows[k], stale, t)
      BY <1>4, <2>1
    <3> QED BY <1>5, <3>1, StaleRowFacts
  <2>2. CASE k[1] # i
    <3>1. e.rows[k] = d.rows[k]
      BY <1>4, <2>2
    <3> QED BY <1>5, <3>1
  <2> QED BY <2>1, <2>2
<1>7. Formed(e)
  <2>1. \A k \in DOMAIN e.rows : /\ k \in Instances \X (Sessions \cup Tuis)
                                 /\ DOMAIN e.rows[k] = RowFields
                                 /\ e.rows[k].busy \in BOOLEAN /\ e.rows[k].stale \in BOOLEAN
                                 /\ k[1] \in DOMAIN e.projections
    BY <1>1, <1>4, <1>6 DEF Formed, RowTyped
  <2> QED BY <1>1, <1>3, <1>4, <2>1 DEF Formed
<1>8. /\ There(after) = There(mon) /\ after[i] = IF stale THEN "disconnected" ELSE "connected"
      /\ \A j \in Instances \ {i} : after[j] = mon[j]
  BY DEF There, Monitored
<1> HIDE DEF after
<1>9. Follows(e, after)
  <2>1. e.connected = {x \in Instances : after[x] = "connected"}
    BY <1>1, <1>4, <1>8 DEF Follows, There
  <2> QED BY <1>1, <1>4, <1>8, <2>1 DEF Follows, There
<1>10. \A j \in Instances : KeptAt(d, e, j)
  BY <1>4, <1>6 DEF KeptAt, Of
<1>11. Resolved(e) /\ \A j \in Instances : SticksAt(d, e, j)
  BY <1>1, <1>10, AllKept
<1>12. \A k \in DOMAIN d.rows : k[1] \notin V2 =>
         TimeSound(e.rows[k], t, k[1] \in running \ {i}) /\ Even(d.rows[k], e.rows[k], t)
  <2> SUFFICES ASSUME NEW k \in DOMAIN d.rows, k[1] \notin V2
               PROVE  TimeSound(e.rows[k], t, k[1] \in running \ {i}) /\ Even(d.rows[k], e.rows[k], t)
    OBVIOUS
  <2>1. TimeSound(d.rows[k], t, k[1] \in running) /\ t \in Nat
    BY <1>1 DEF Clocked
  <2>2. CASE k[1] = i
    <3>1. e.rows[k] = StaleRow(d.rows[k], stale, t)
      BY <1>4, <2>2
    <3>2. PICK runs \in BOOLEAN : runs <=> k[1] \in running
      OBVIOUS
    <3>5. TimeSound(d.rows[k], t, runs) /\ (~stale => ~runs)
      BY <2>1, <2>2, <3>2 DEF TimeSound
    <3>6. RowTyped(d.rows[k]) /\ t \in Nat
      BY <1>5, <2>1
    <3>3. TimeSound(e.rows[k], t, FALSE) /\ Even(d.rows[k], e.rows[k], t)
      BY <3>1, <3>5, <3>6, StaleTimes
    <3>4. (k[1] \in running \ {i}) = FALSE
      BY <2>2
    <3> QED BY <3>3, <3>4
  <2>3. CASE k[1] # i
    <3>1. e.rows[k] = d.rows[k] /\ (k[1] \in running \ {i}) = (k[1] \in running)
      BY <1>4, <2>3
    <3> QED BY <2>1, <3>1 DEF Even
  <2> QED BY <2>2, <2>3
<1>13. Clocked(e, t, running \ {i})
  BY <1>1, <1>4, <1>12 DEF Clocked
<1>14. Turned(d.rows, e.rows, {}, {}, t)
  <2>1. \A k \in DOMAIN d.rows : StandsOn(d.rows[k], e.rows[k], FALSE)
    BY <1>6, SameStands
  <2> QED BY <1>4, <1>12, <2>1 DEF Turned, StandsOn
<1>15. Outcome(d, e, after, running \ {i}, {}, {}, t) /\ e.selected = d.selected
  BY <1>4, <1>7, <1>9, <1>11, <1>13, <1>14 DEF Outcome, Good
<1> QED BY <1>15 DEF e, c, after

\* A server is removed, with all there is of it.
LEMMA RemoveOutcome ==
  ASSUME NEW d, NEW mon, NEW running, NEW t, Good(d, mon, running, t), Monitored(mon),
         NEW i \in There(mon)
  PROVE  LET e == RemoveInstance(d, i)
         IN  /\ Outcome(d, e, [mon EXCEPT ![i] = "absent"], running \ {i}, {}, {}, t)
             /\ e.selected = d.selected
<1> DEFINE e == RemoveInstance(d, i)
           after == [mon EXCEPT ![i] = "absent"]
           ends == {x \in DOMAIN d.endpoints : d.endpoints[x] = i}
<1>1. Formed(d) /\ Follows(d, mon) /\ Resolved(d) /\ Clocked(d, t, running) /\ DOMAIN d = Fields
  BY DEF Good, Formed
<1>2. /\ DOMAIN e = Fields
      /\ e.rows = Drop(d.rows, Of(d.rows, i)) /\ e.projections = Drop(d.projections, {i})
      /\ e.attachments = [d.attachments EXCEPT ![i] = Empty] /\ e.v1Focus = d.v1Focus \ {i}
      /\ e.sticky = [d.sticky EXCEPT ![i] = Empty] /\ e.connected = d.connected \ {i}
      /\ e.lastNonBusy = Drop(d.lastNonBusy, Of(d.lastNonBusy, i))
      /\ e.pendingReady = {k \in d.pendingReady : k[1] # i}
      /\ e.endpoints = Drop(d.endpoints, ends)
      /\ e.v2 = d.v2 \ {i} /\ e.selected = d.selected
  BY <1>1 DEF RemoveInstance, Forget, Fields
<1> HIDE DEF e
<1>3. /\ IsPart(e.rows, d.rows, DOMAIN d.rows \ Of(d.rows, i))
      /\ IsPart(e.projections, d.projections, DOMAIN d.projections \ {i})
      /\ IsPart(e.lastNonBusy, d.lastNonBusy, DOMAIN d.lastNonBusy \ Of(d.lastNonBusy, i))
      /\ IsPart(e.endpoints, d.endpoints, DOMAIN d.endpoints \ ends)
  <2> HIDE DEF ends
  <2>1. \A f, keys : IsPart(Drop(f, keys), f, DOMAIN f \ keys)
    BY DropFacts
  <2> QED BY <1>2, <2>1
<1>4. /\ DOMAIN e.rows = {k \in DOMAIN d.rows : k[1] # i}
      /\ \A k \in DOMAIN e.rows : e.rows[k] = d.rows[k]
      /\ DOMAIN e.projections = DOMAIN d.projections \ {i}
      /\ \A j \in DOMAIN e.projections : e.projections[j] = d.projections[j]
      /\ \A k \in DOMAIN e.lastNonBusy : k \in DOMAIN d.lastNonBusy /\ e.lastNonBusy[k] = d.lastNonBusy[k]
      /\ DOMAIN e.endpoints = {x \in DOMAIN d.endpoints : d.endpoints[x] # i}
      /\ \A x \in DOMAIN e.endpoints : e.endpoints[x] = d.endpoints[x]
  BY <1>3 DEF IsPart, Of
<1>5. /\ DOMAIN e.attachments = Instances /\ DOMAIN e.sticky = Instances
      /\ e.attachments[i] = Empty /\ e.sticky[i] = Empty
      /\ \A j \in Instances \ {i} : e.attachments[j] = d.attachments[j] /\ e.sticky[j] = d.sticky[j]
  BY <1>1, <1>2 DEF Formed, There
<1>6. Formed(e)
  <2>1. \A j \in Instances : DOMAIN e.attachments[j] \subseteq Tuis
                             /\ Paired(e.sticky[j], e.attachments[j])
    <3>1. DOMAIN Empty \subseteq Tuis /\ Paired(Empty, Empty)
      BY DEF Empty, Paired
    <3> QED BY <1>1, <1>5, <3>1 DEF Formed
  <2>2. \A k \in DOMAIN e.rows : /\ k \in Instances \X (Sessions \cup Tuis)
                                 /\ DOMAIN e.rows[k] = RowFields
                                 /\ e.rows[k].busy \in BOOLEAN /\ e.rows[k].stale \in BOOLEAN
                                 /\ k[1] \in DOMAIN e.projections
    BY <1>1, <1>4 DEF Formed
  <2>3. \A k \in e.pendingReady :
          /\ k \in Instances \X Sessions /\ k[1] \notin V2
          /\ k[1] \in DOMAIN e.projections => k[2] \notin DOMAIN e.projections[k[1]]
    BY <1>1, <1>2, <1>4 DEF Formed
  <2>4. \A j \in DOMAIN e.projections : j \in Instances /\ Projected(e.projections[j])
    BY <1>1, <1>4 DEF Formed
  <2> QED BY <1>2, <1>5, <2>1, <2>2, <2>3, <2>4 DEF Formed
<1>7. /\ There(after) = There(mon) \ {i} /\ after[i] = "absent"
      /\ \A j \in Instances \ {i} : after[j] = mon[j]
  BY DEF There, Monitored
<1> HIDE DEF after
<1>8. Follows(e, after)
  <2>1. \A x, y \in There(after) : EndpointOf[x] = EndpointOf[y] => x = y
    BY <1>1, <1>7 DEF Follows, There
  <2>2. \A x \in DOMAIN e.endpoints : e.endpoints[x] \in There(after) /\ EndpointOf[e.endpoints[x]] = x
    BY <1>1, <1>4, <1>7 DEF Follows, There
  <2>3. \A x \in There(after) : EndpointOf[x] \in DOMAIN e.endpoints
    <3> TAKE x \in There(after)
    <3>1. x \in There(mon) /\ x # i
      BY <1>7
    <3>2. d.endpoints[EndpointOf[x]] = x /\ EndpointOf[x] \in DOMAIN d.endpoints
      BY <1>1, <3>1, ThereKnown DEF Known
    <3> QED BY <1>4, <3>1, <3>2
  <2>4. e.v2 = There(after) \cap V2
    BY <1>1, <1>2, <1>7 DEF Follows, There
  <2>5. e.connected = {x \in Instances : after[x] = "connected"}
    BY <1>1, <1>2, <1>7 DEF Follows
  <2>6. DOMAIN e.projections \subseteq There(after) /\ \A k \in e.pendingReady : k[1] \in There(after)
    BY <1>1, <1>2, <1>4, <1>7 DEF Follows, There
  <2> QED BY <2>1, <2>2, <2>3, <2>4, <2>5, <2>6 DEF Follows, There
<1>9. ASSUME NEW j \in Instances PROVE ResolvedAt(e, j) /\ SticksAt(d, e, j)
  <2>1. CASE j = i
    <3>1. Of(e.rows, j) = {} /\ j \notin DOMAIN e.projections
      BY <1>4, <2>1 DEF Of
    <3> QED BY <3>1 DEF ResolvedAt, SticksAt
  <2>2. CASE j # i
    <3>2. Of(e.rows, j) = Of(d.rows, j) /\ \A k \in Of(d.rows, j) : e.rows[k] = d.rows[k]
      BY <1>4, <2>2 DEF Of
    <3>3. j \in e.v1Focus <=> j \in d.v1Focus
      BY <1>2, <2>2
    <3>4. j \in DOMAIN e.projections <=> j \in DOMAIN d.projections
      BY <1>4, <2>2
    <3>1. KeptAt(d, e, j)
      BY <1>4, <1>5, <2>2, <3>2, <3>3, <3>4 DEF KeptAt
    <3> QED BY <1>1, <3>1, KeptResolved DEF Resolved
  <2> QED BY <2>1, <2>2
<1>10. Clocked(e, t, running \ {i})
  <2>1. \A k \in DOMAIN e.rows : k[1] \notin V2 => TimeSound(e.rows[k], t, k[1] \in running \ {i})
    <3> SUFFICES ASSUME NEW k \in DOMAIN e.rows, k[1] \notin V2
                 PROVE  TimeSound(e.rows[k], t, k[1] \in running \ {i})
      OBVIOUS
    <3>1. TimeSound(d.rows[k], t, k[1] \in running) /\ e.rows[k] = d.rows[k]
      BY <1>1, <1>4 DEF Clocked
    <3>2. (k[1] \in running \ {i}) = (k[1] \in running)
      BY <1>4
    <3> QED BY <3>1, <3>2
  <2> QED BY <1>1, <1>4, <2>1 DEF Clocked
<1>11. Turned(d.rows, e.rows, {}, {}, t)
  BY <1>4 DEF Turned, StandsOn, Even
<1>12. Outcome(d, e, after, running \ {i}, {}, {}, t) /\ e.selected = d.selected
  BY <1>2, <1>6, <1>8, <1>9, <1>10, <1>11 DEF Outcome, Good, Resolved
<1> QED BY <1>12 DEF e, after

-----------------------------------------------------------------------------
(* A ready.                                                                *)

\* The roots of which a ready gives a row.
Admits(d, i, roots) ==
  IF i \in d.v2 \/ i \notin DOMAIN d.projections THEN {}
  ELSE {k \in ({i} \X roots) \ DOMAIN d.rows : k[2] \in DOMAIN d.projections[i]}

IsReadied(d, i, roots, t, e) ==
  /\ DOMAIN e = Fields
  /\ \A f \in Fields \ {"lastNonBusy", "rows", "pendingReady"} : e[f] = d[f]
  /\ DOMAIN e.rows = DOMAIN d.rows \cup Admits(d, i, roots)
  /\ \A k \in DOMAIN e.rows :
       e.rows[k] = IF k \notin {i} \X roots THEN d.rows[k]
                   ELSE IF k \in DOMAIN d.rows THEN Readied(d.rows[k], t) ELSE ReadyRow(d, i, t)
  /\ \A k \in DOMAIN e.lastNonBusy :
       \/ e.lastNonBusy[k] = t
       \/ k \in DOMAIN d.lastNonBusy /\ e.lastNonBusy[k] = d.lastNonBusy[k]
  /\ e.pendingReady = d.pendingReady \cup
       (IF i \in d.v2 THEN {} ELSE ({i} \X roots) \ (DOMAIN d.rows \cup Admits(d, i, roots)))

\* What apply_ready changes of a dashboard.
LEMMA ReadyFacts ==
  ASSUME NEW d, DOMAIN d = Fields, NEW i, NEW roots, NEW t
  PROVE  IsReadied(d, i, roots, t, ApplyReady(d, i, roots, t))
<1> DEFINE ready == {i} \X roots
           shown == ready \cap DOMAIN d.rows
           new == IF i \in d.v2 \/ i \notin DOMAIN d.projections THEN {}
                  ELSE {k \in ready \ shown : k[2] \in DOMAIN d.projections[i]}
           early == IF i \in d.v2 THEN {} ELSE ready \ (shown \cup new)
           seen == [k \in ready |-> t]
           fresh == [k \in shown \cup new |->
                       IF k \in shown THEN Readied(d.rows[k], t) ELSE ReadyRow(d, i, t)]
           e == ApplyReady(d, i, roots, t)
<1>1. e = [d EXCEPT !.lastNonBusy = Put(@, seen), !.rows = Put(@, fresh), !.pendingReady = @ \cup early]
  BY DEF ApplyReady
<1>2. new = Admits(d, i, roots)
  BY DEF Admits
<1>3. early = IF i \in d.v2 THEN {} ELSE ready \ (DOMAIN d.rows \cup Admits(d, i, roots))
  BY <1>2
<1>4. /\ DOMAIN fresh = shown \cup new
      /\ \A k \in shown \cup new : fresh[k] = IF k \in shown THEN Readied(d.rows[k], t) ELSE ReadyRow(d, i, t)
      /\ DOMAIN seen = ready /\ \A k \in ready : seen[k] = t
  OBVIOUS
<1>5. new \subseteq ready /\ new \cap DOMAIN d.rows = {}
  OBVIOUS
<1> HIDE DEF e, seen, fresh, early, new
<1>6. /\ DOMAIN e = Fields
      /\ \A f \in Fields \ {"lastNonBusy", "rows", "pendingReady"} : e[f] = d[f]
      /\ e.rows = Put(d.rows, fresh) /\ e.lastNonBusy = Put(d.lastNonBusy, seen)
      /\ e.pendingReady = d.pendingReady \cup early
  BY <1>1 DEF Fields
<1>7. IsPut(e.rows, d.rows, fresh) /\ IsPut(e.lastNonBusy, d.lastNonBusy, seen)
  BY <1>6, PutFacts
<1>8. DOMAIN e.rows = DOMAIN d.rows \cup new
  BY <1>4, <1>7 DEF IsPut
<1>9. ASSUME NEW k \in DOMAIN e.rows
      PROVE  e.rows[k] = IF k \notin ready THEN d.rows[k]
                         ELSE IF k \in DOMAIN d.rows THEN Readied(d.rows[k], t) ELSE ReadyRow(d, i, t)
  <2>1. CASE k \notin ready
    BY <1>4, <1>5, <1>7, <1>8, <2>1 DEF IsPut
  <2>2. CASE k \in ready
    <3>1. k \in shown \cup new /\ (k \in shown <=> k \in DOMAIN d.rows)
      BY <1>8, <2>2
    <3>2. e.rows[k] = fresh[k]
      BY <1>4, <1>7, <3>1 DEF IsPut
    <3> QED BY <1>4, <2>2, <3>1, <3>2
  <2> QED BY <2>1, <2>2
<1>10. \A k \in DOMAIN e.lastNonBusy :
         \/ e.lastNonBusy[k] = t
         \/ k \in DOMAIN d.lastNonBusy /\ e.lastNonBusy[k] = d.lastNonBusy[k]
  BY <1>4, <1>7 DEF IsPut
<1> QED BY <1>2, <1>3, <1>6, <1>8, <1>9, <1>10 DEF IsReadied, e

\* A row that a ready admits, or that it finds.
IsReadyRow(n, focus, t) ==
  /\ RowTyped(n) /\ ~n.busy /\ n.stale = FALSE /\ n.category = "v1"
  /\ n.focus <=> focus
  /\ ~IsDismissed(n) /\ TimeSound(n, t, FALSE) /\ n.frozen = None /\ Elapsed(n, t) = None

IsReadiedRow(row, n, t) ==
  /\ RowTyped(n) /\ ~n.busy /\ n.stale = row.stale /\ n.category = row.category
  /\ n.tui = row.tui /\ n.focus = row.focus /\ n.attachmentStale = row.attachmentStale
  /\ ~IsDismissed(n) /\ TimeSound(n, t, FALSE) /\ n.frozen = None /\ Elapsed(n, t) = None

\* The row that a ready admits is not dismissed, and its counter does not run.
LEMMA ReadyRowFacts ==
  ASSUME NEW d, NEW i, NEW t \in Nat
  PROVE  IsReadyRow(ReadyRow(d, i, t), i \in d.v1Focus, t)
<1> DEFINE none == [busy |-> FALSE, background |-> 0, questions |-> {}, permissions |-> {}]
           r == NewRow(none, t, t)
           n == ReadyRow(d, i, t)
<1>1. none.busy = FALSE
  OBVIOUS
<1>2. Past(t, t)
  BY DEF Past
<1>0. none.busy \in BOOLEAN
  BY <1>1
<1> HIDE DEF none
<1>3. RowTyped(r) /\ r.dismissed = <<>> /\ r.category = "v1" /\ r.stale = FALSE /\ ~r.busy /\ Timed(r, t) /\ r.frozen = None
  <2>1. IsNewRow(r, none, t)
    BY <1>0, <1>2, NewRowFacts
  <2> QED BY <1>1, <2>1 DEF IsNewRow
<1>4. n = [r EXCEPT !.generation = 1, !.focus = i \in d.v1Focus]
  BY DEF ReadyRow, none
<1> HIDE DEF r, n
<1>5. /\ RowTyped(n) /\ n.dismissed = <<>> /\ n.category = "v1" /\ n.stale = FALSE /\ ~n.busy
      /\ n.frozen = None /\ (n.focus <=> i \in d.v1Focus)
      /\ n.lastNonBusy = r.lastNonBusy /\ n.firstBusy = r.firstBusy
  BY <1>3, <1>4 DEF RowTyped, RowFields
<1>6. TimeSound(n, t, FALSE)
  BY <1>3, <1>5 DEF TimeSound, Timed
<1>7. ~IsDismissed(n) /\ Elapsed(n, t) = None
  BY <1>5 DEF IsDismissed, Elapsed
<1> QED BY <1>5, <1>6, <1>7 DEF n, IsReadyRow

\* A row that is ready is not dismissed, and its counter does not run.
LEMMA ReadiedFacts ==
  ASSUME NEW row, RowTyped(row), NEW t \in Nat
  PROVE  IsReadiedRow(row, Readied(row, t), t)
<1> DEFINE n == Readied(row, t)
<1>1. /\ RowTyped(n) /\ ~n.busy /\ n.stale = row.stale /\ n.category = row.category
      /\ n.tui = row.tui /\ n.focus = row.focus /\ n.attachmentStale = row.attachmentStale
      /\ n.dismissed = <<>> /\ n.lastNonBusy = t /\ n.firstBusy = None /\ n.frozen = None
  BY DEF Readied, RowTyped, RowFields
<1> HIDE DEF n
<1>2. ~IsDismissed(n) /\ Elapsed(n, t) = None
  BY <1>1 DEF IsDismissed, Elapsed
<1>3. TimeSound(n, t, FALSE)
  BY <1>1 DEF TimeSound, Timed, Past
<1> QED BY <1>1, <1>2, <1>3 DEF n, IsReadiedRow

\* The rows but one are the same.
Elsewhere(rows, next, key) ==
  \A k \in DOMAIN rows : k \in DOMAIN next /\ (k # key => next[k] = rows[k])

\* A ready is announced.
LEMMA ReadyOutcome ==
  ASSUME NEW d, NEW mon, NEW running, NEW t, Good(d, mon, running, t), Monitored(mon),
         NEW i \in There(mon), NEW root \in Sessions
  PROVE  LET e == ApplyReady(d, i, {root}, t)
         IN  /\ Outcome(d, e, mon, running, {}, {<<i, root>>}, t) /\ e.selected = d.selected
             /\ Elsewhere(d.rows, e.rows, <<i, root>>)
<1> DEFINE e == ApplyReady(d, i, {root}, t)
           k0 == <<i, root>>
           new == Admits(d, i, {root})
<1>1. Formed(d) /\ Follows(d, mon) /\ Resolved(d) /\ Clocked(d, t, running) /\ DOMAIN d = Fields
  BY DEF Good, Formed
<1>2. {i} \X {root} = {k0} /\ i \in Instances /\ t \in Nat /\ (i \in d.v2 <=> i \in V2)
  BY <1>1 DEF There, Clocked, Follows
<1>3. IsReadied(d, i, {root}, t, e)
  BY <1>1, ReadyFacts
<1> HIDE DEF e
<1>4. /\ e.projections = d.projections /\ e.attachments = d.attachments /\ e.v2 = d.v2
      /\ e.v1Focus = d.v1Focus /\ e.sticky = d.sticky /\ e.endpoints = d.endpoints
      /\ e.connected = d.connected /\ e.selected = d.selected /\ DOMAIN e = Fields
  BY <1>3 DEF IsReadied, Fields
<1>5. new \subseteq {k0} /\ new \cap DOMAIN d.rows = {}
      /\ (new # {} => i \notin V2 /\ i \in DOMAIN d.projections /\ root \in DOMAIN d.projections[i])
  BY <1>2 DEF Admits
<1>6. /\ DOMAIN e.rows = DOMAIN d.rows \cup new
      /\ \A k \in DOMAIN e.rows :
           e.rows[k] = IF k # k0 THEN d.rows[k]
                       ELSE IF k \in DOMAIN d.rows THEN Readied(d.rows[k], t) ELSE ReadyRow(d, i, t)
      /\ e.pendingReady = d.pendingReady \cup
           (IF i \in d.v2 THEN {} ELSE {k0} \ (DOMAIN d.rows \cup new))
      /\ \A k \in DOMAIN e.lastNonBusy :
           \/ e.lastNonBusy[k] = t
           \/ k \in DOMAIN d.lastNonBusy /\ e.lastNonBusy[k] = d.lastNonBusy[k]
  BY <1>2, <1>3 DEF IsReadied
<1> HIDE DEF new
<1>7. \A k \in DOMAIN d.rows : RowTyped(d.rows[k])
  BY <1>1 DEF Formed, RowTyped
<1>8. ASSUME NEW k \in DOMAIN d.rows, k # k0
      PROVE  k \in DOMAIN e.rows /\ e.rows[k] = d.rows[k]
  BY <1>6, <1>8
<1>9. ASSUME k0 \in DOMAIN d.rows
      PROVE  k0 \in DOMAIN e.rows /\ IsReadiedRow(d.rows[k0], e.rows[k0], t)
  <2>1. k0 \in DOMAIN e.rows /\ e.rows[k0] = Readied(d.rows[k0], t)
    BY <1>6, <1>9
  <2>2. RowTyped(d.rows[k0]) /\ t \in Nat
    BY <1>2, <1>7, <1>9
  <2> QED BY <2>1, <2>2, ReadiedFacts
<1>10. ASSUME NEW k \in DOMAIN e.rows, k \notin DOMAIN d.rows
       PROVE  /\ k = k0 /\ IsReadyRow(e.rows[k], i \in d.v1Focus, t) /\ i \notin V2
              /\ i \in DOMAIN d.projections /\ root \in DOMAIN d.projections[i]
  <2>1. /\ k = k0 /\ e.rows[k] = ReadyRow(d, i, t) /\ i \notin V2
        /\ i \in DOMAIN d.projections /\ root \in DOMAIN d.projections[i]
    BY <1>5, <1>6, <1>10
  <2> QED BY <1>2, <2>1, ReadyRowFacts
<1>11. Formed(e)
  <2>1. \A k \in DOMAIN e.rows : /\ k \in Instances \X (Sessions \cup Tuis)
                                 /\ RowTyped(e.rows[k]) /\ k[1] \in DOMAIN e.projections
    <3> TAKE k \in DOMAIN e.rows
    <3>1. CASE k \in DOMAIN d.rows /\ k # k0
      BY <1>1, <1>4, <1>7, <1>8, <3>1 DEF Formed
    <3>2. CASE k \in DOMAIN d.rows /\ k = k0
      <4>1. RowTyped(e.rows[k])
        BY <1>9, <3>2 DEF IsReadiedRow
      <4> QED BY <1>1, <1>4, <3>2, <4>1 DEF Formed
    <3>3. CASE k \notin DOMAIN d.rows
      <4>1. k = k0 /\ RowTyped(e.rows[k]) /\ i \in DOMAIN e.projections
        BY <1>4, <1>10, <3>3 DEF IsReadyRow
      <4> QED BY <1>2, <4>1
    <3> QED BY <3>1, <3>2, <3>3
  <2>2. \A k \in e.pendingReady :
          /\ k \in Instances \X Sessions /\ k[1] \notin V2
          /\ k[1] \in DOMAIN e.projections => k[2] \notin DOMAIN e.projections[k[1]]
    <3> TAKE k \in e.pendingReady
    <3>1. CASE k \in d.pendingReady
      BY <1>1, <1>4, <3>1 DEF Formed
    <3>2. CASE k \notin d.pendingReady
      <4>1. k = k0 /\ i \notin d.v2 /\ k0 \notin DOMAIN d.rows /\ k0 \notin new
        BY <1>6, <3>2
      <4>2. i \in DOMAIN d.projections => root \notin DOMAIN d.projections[i]
        BY <1>2, <4>1 DEF new, Admits
      <4> QED BY <1>2, <1>4, <4>1, <4>2
    <3> QED BY <3>1, <3>2
  <2> QED BY <1>1, <1>4, <2>1, <2>2 DEF Formed, RowTyped
<1>12. Follows(e, mon)
  <2>1. \A k \in e.pendingReady : k[1] \in There(mon)
    BY <1>1, <1>2, <1>6 DEF Follows, There
  <2> QED BY <1>1, <1>4, <2>1 DEF Follows, There
<1>13. \A j \in Instances : ResolvedAt(e, j) /\ SticksAt(d, e, j)
  <2> TAKE j \in Instances
  <2>1. CASE j \in V2 \/ j # i
    <3>1. Of(e.rows, j) = Of(d.rows, j)
      BY <1>5, <1>6, <2>1 DEF Of
    <3>2. \A k \in Of(d.rows, j) :
            /\ e.rows[k].category = d.rows[k].category /\ e.rows[k].tui = d.rows[k].tui
            /\ e.rows[k].focus = d.rows[k].focus
            /\ e.rows[k].attachmentStale = d.rows[k].attachmentStale
      BY <1>8, <1>9 DEF Of, IsReadiedRow
    <3>3. KeptAt(d, e, j)
      BY <1>4, <3>1, <3>2 DEF KeptAt
    <3> QED BY <1>1, <3>3, KeptResolved DEF Resolved
  <2>2. CASE j \notin V2 /\ j = i
    <3>1. \A k \in Of(e.rows, j) : V1Row(e, k)
      <4> TAKE k \in Of(e.rows, j)
      <4>1. k \in DOMAIN e.rows /\ k[1] = i
        BY <2>2 DEF Of
      <4>2. k \in DOMAIN d.rows => V1Row(d, k)
        BY <1>1, <2>2, <4>1 DEF Resolved, ResolvedAt, Of
      <4>3. CASE k \in DOMAIN d.rows /\ k # k0
        BY <1>4, <1>8, <4>2, <4>3 DEF V1Row
      <4>4. CASE k \in DOMAIN d.rows /\ k = k0
        BY <1>4, <1>9, <4>2, <4>4 DEF V1Row, IsReadiedRow
      <4>5. CASE k \notin DOMAIN d.rows
        <5>1. e.rows[k].category = "v1" /\ (e.rows[k].focus <=> i \in d.v1Focus)
          BY <1>10, <4>1, <4>5 DEF IsReadyRow
        <5> QED BY <1>4, <1>10, <4>1, <4>5, <5>1 DEF V1Row
      <4> QED BY <4>3, <4>4, <4>5
    <3> QED BY <2>2, <3>1 DEF ResolvedAt, SticksAt
  <2> QED BY <2>1, <2>2
<1>14. Clocked(e, t, running)
  <2>1. ASSUME NEW k \in DOMAIN e.rows, k[1] \notin V2 PROVE TimeSound(e.rows[k], t, k[1] \in running)
    <3>1. CASE k \in DOMAIN d.rows /\ k # k0
      BY <1>1, <1>8, <2>1, <3>1 DEF Clocked
    <3>2. CASE k \in DOMAIN d.rows /\ k = k0
      <4>2. TimeSound(d.rows[k], t, k[1] \in running)
        BY <1>1, <2>1, <3>2 DEF Clocked
      <4>3. TimeSound(e.rows[k], t, FALSE) /\ ~e.rows[k].busy /\ e.rows[k].stale = d.rows[k].stale
        BY <1>9, <3>2 DEF IsReadiedRow
      <4> QED BY <4>2, <4>3 DEF TimeSound
    <3>3. CASE k \notin DOMAIN d.rows
      <4>1. TimeSound(e.rows[k], t, FALSE) /\ ~e.rows[k].busy /\ e.rows[k].stale = FALSE
        BY <1>10, <3>3 DEF IsReadyRow
      <4> QED BY <4>1 DEF TimeSound
    <3> QED BY <3>1, <3>2, <3>3
  <2>2. \A k \in DOMAIN e.lastNonBusy : e.lastNonBusy[k] \in 0 .. t
    BY <1>1, <1>2, <1>6 DEF Clocked
  <2> QED BY <1>2, <2>1, <2>2 DEF Clocked
<1>15. Turned(d.rows, e.rows, {}, {k0}, t)
  <2>1. ASSUME NEW k \in DOMAIN e.rows
        PROVE  /\ IF k \in DOMAIN d.rows \ {k0} THEN StandsOn(d.rows[k], e.rows[k], FALSE)
                  ELSE ~IsDismissed(e.rows[k])
               /\ k \in DOMAIN d.rows => Even(d.rows[k], e.rows[k], t)
    <3>1. CASE k \in DOMAIN d.rows /\ k # k0
      BY <1>8, <3>1 DEF StandsOn, Even
    <3>2. CASE k \in DOMAIN d.rows /\ k = k0
      <4>1. ~IsDismissed(e.rows[k]) /\ Elapsed(e.rows[k], t) = None
        BY <1>9, <3>2 DEF IsReadiedRow
      <4> QED BY <3>2, <4>1 DEF Even
    <3>3. CASE k \notin DOMAIN d.rows
      BY <1>10, <3>3 DEF IsReadyRow
    <3> QED BY <3>1, <3>2, <3>3
  <2> QED BY <2>1 DEF Turned, StandsOn
<1>16. Outcome(d, e, mon, running, {}, {k0}, t) /\ e.selected = d.selected
  BY <1>4, <1>11, <1>12, <1>13, <1>14, <1>15 DEF Outcome, Good, Resolved
<1>17. Elsewhere(d.rows, e.rows, k0)
  BY <1>8, <1>9 DEF Elsewhere
<1> QED BY <1>16, <1>17 DEF e

-----------------------------------------------------------------------------
(* The rows of a v2 server.                                                *)

\* The row of a root, as it is or anew.
IsRefreshed(d, k, aggregate, t, n) ==
  IF k \in DOMAIN d.rows THEN IsUpdated(d.rows[k], aggregate, t, n) ELSE IsNewRow(n, aggregate, t)

\* What a row is refreshed from.
Timely(d, t) ==
  /\ t \in Nat /\ \A k \in DOMAIN d.rows : RowTyped(d.rows[k])
  /\ \A k \in DOMAIN d.lastNonBusy : d.lastNonBusy[k] \in 0 .. t

\* The row of a root is updated if there is one, and new otherwise.
LEMMA RefreshedFacts ==
  ASSUME NEW d, NEW t, Timely(d, t), NEW k, NEW aggregate, aggregate.busy \in BOOLEAN
  PROVE  IsRefreshed(d, k, aggregate, t, Refreshed(d, k, aggregate, t))
<1>1. CASE k \in DOMAIN d.rows
  <2>1. IsUpdated(d.rows[k], aggregate, t, UpdateRow(d.rows[k], aggregate, t))
    BY <1>1, Updates DEF Timely
  <2> QED BY <1>1, <2>1 DEF IsRefreshed, Refreshed
<1>2. CASE k \notin DOMAIN d.rows
  <2>1. Past(LastSeen(d, k), t)
    BY DEF Past, LastSeen, Timely
  <2>2. IsNewRow(NewRow(aggregate, LastSeen(d, k), t), aggregate, t)
    BY <2>1, NewRowFacts DEF Timely
  <2> QED BY <1>2, <2>2 DEF IsRefreshed, Refreshed
<1> QED BY <1>1, <1>2

\* A row before, if there was one, and after.
Stands(rows, k, n) ==
  IF k \in DOMAIN rows THEN StandsOn(rows[k], n, TRUE) ELSE ~IsDismissed(n)

\* What else than its terminal a row shows is what was refreshed.
LEMMA ShownStands ==
  ASSUME NEW d, NEW k, NEW aggregate, NEW t, NEW x, IsRefreshed(d, k, aggregate, t, x),
         k \in DOMAIN d.rows => d.rows[k].category \notin Loose,
         NEW n, n.category \notin Loose, n.dismissed = x.dismissed, n.busy = x.busy,
         n.background = x.background, n.questions = x.questions, n.permissions = x.permissions,
         n.generation = x.generation
  PROVE  Stands(d.rows, k, n)
<1>1. CASE k \in DOMAIN d.rows
  <2>1. IsUpdated(d.rows[k], aggregate, t, x)
    BY <1>1 DEF IsRefreshed
  <2>2. x.category \notin Loose
    BY <1>1, <2>1 DEF IsUpdated
  <2>3. Occurrence(n) = Occurrence(x)
    BY <2>2, OccurrenceReads
  <2> QED BY <1>1, <2>1, <2>3, UpdateStands DEF Stands
<1>2. CASE k \notin DOMAIN d.rows
  BY <1>2 DEF IsRefreshed, IsNewRow, Stands, IsDismissed
<1> QED BY <1>1, <1>2

\* Either way it is a row.
LEMMA RefreshedTyped ==
  ASSUME NEW d, NEW k, NEW aggregate, NEW t, NEW x, IsRefreshed(d, k, aggregate, t, x)
  PROVE  RowTyped(x)
BY DEF IsRefreshed, IsUpdated, IsNewRow

\* A root works or does not.
LEMMA AggregateBusy == ASSUME NEW ss, NEW root, NEW v2 PROVE Aggregate(ss, root, v2).busy \in BOOLEAN
BY DEF Aggregate, IsActive

\* The terminal of each root that has one.
HolderFacts(ss, tuis, r, holder) ==
  /\ DOMAIN holder \subseteq Roots(ss)
  /\ \A x \in DOMAIN holder : /\ holder[x] \in DOMAIN tuis
                              /\ r.resolved[holder[x]].kind = "attached"
                              /\ r.resolved[holder[x]].root = x
  /\ \A t \in DOMAIN tuis : r.resolved[t].kind = "attached" =>
       r.resolved[t].root \in DOMAIN holder /\ holder[r.resolved[t].root] = t

\* Holder inverts the attachments.
LEMMA HolderIs ==
  ASSUME NEW ss, NEW tuis, NEW r, IsResolution(ss, tuis, r)
  PROVE  HolderFacts(ss, tuis, r, Holder(r.resolved))
<1> DEFINE attached == {t \in DOMAIN r.resolved : r.resolved[t].kind = "attached"}
           H == Holder(r.resolved)
<1>1. /\ DOMAIN H = {r.resolved[t].root : t \in attached}
      /\ \A x \in DOMAIN H : H[x] = CHOOSE t \in attached : r.resolved[t].root = x
  BY DEF Holder
<1>2. attached = {t \in DOMAIN tuis : r.resolved[t].kind = "attached"}
  BY DEF IsResolution
<1> HIDE DEF attached, H
<1>3. \A x \in DOMAIN H : H[x] \in attached /\ r.resolved[H[x]].root = x
  BY <1>1
<1>4. \A t \in attached : r.resolved[t].root \in DOMAIN H
  BY <1>1
<1>5. \A t, u \in attached : r.resolved[t].root = r.resolved[u].root => t = u
  BY <1>2 DEF IsResolution
<1>6. \A t \in attached : H[r.resolved[t].root] = t
  BY <1>3, <1>4, <1>5
<1>7. \A t \in attached : r.resolved[t].root \in Roots(ss)
  BY <1>2 DEF IsResolution
<1>8. DOMAIN H \subseteq Roots(ss)
  BY <1>1, <1>7
<1> QED BY <1>2, <1>3, <1>4, <1>6, <1>8 DEF HolderFacts, H

\* A root that works, or one of whose sessions does, is shown without a
\* terminal.
LEMMA ActiveWorks ==
  ASSUME NEW ss, Projected(ss), NEW r \in ActiveRoots(ss)
  PROVE  r \in Roots(ss) /\ Works(Aggregate(ss, r, TRUE))
<1>1. PICK s \in DOMAIN ss : IsActive(ss, s) /\ r = ResolveRoot(ss, s)
  BY DEF ActiveRoots
<1>2. r \in Roots(ss)
  BY <1>1 DEF Roots
<1> DEFINE below == {x \in Tree(ss, r) \ {r} : IsActive(ss, x)}
           sum == Aggregate(ss, r, TRUE)
<1>3. sum.busy = IsActive(ss, r) /\ sum.background = Cardinality(below)
  BY DEF Aggregate
<1>4. CASE s = r
  BY <1>1, <1>2, <1>3, <1>4 DEF Works
<1>5. CASE s # r
  <2>1. s \in below
    BY <1>1, <1>5 DEF Tree
  <2>2. IsFiniteSet(below)
    BY ProjectedRoots, FS_Subset DEF Tree
  <2>3. Cardinality(below) \in Nat /\ Cardinality(below) # 0
    BY <2>1, <2>2, FS_EmptySet, FS_CardinalityType
  <2> HIDE DEF below, sum
  <2>4. sum.background > 0
    BY <1>3, <2>3
  <2>5. Works(sum)
    BY <2>4 DEF Works
  <2> QED BY <1>2, <2>5 DEF sum
<1> QED BY <1>4, <1>5

Same(x, n) ==
  /\ RowTyped(n)
  /\ n.dismissed = x.dismissed /\ n.busy = x.busy /\ n.background = x.background
  /\ n.questions = x.questions /\ n.permissions = x.permissions /\ n.generation = x.generation

\* What the row of an attached terminal shows of it.
LEMMA AttachedRowFacts ==
  ASSUME NEW x, RowTyped(x), NEW t, NEW tui
  PROVE  LET n == AttachedRow(x, t, tui)
         IN  Same(x, n) /\ n.category = "attached" /\ n.tui = t /\ n.focus = tui.focus /\ n.attachmentStale = tui.stale
BY DEF AttachedRow, RowTyped, RowFields, Same

\* What the row of a root without a terminal shows.
LEMMA HeadlessRowFacts ==
  ASSUME NEW x, RowTyped(x)
  PROVE  LET n == HeadlessRow(x)
         IN  Same(x, n) /\ n.category = "headless" /\ n.tui = None /\ n.focus = FALSE
BY DEF HeadlessRow, RowTyped, RowFields, Same

IsLooseRow(n, kind, t) ==
  RowTyped(n) /\ n.category = kind /\ n.tui = t /\ n.focus = FALSE /\ Occurrence(n) = <<>>

\* What the row of a terminal without a root shows.
LEMMA LooseRowFacts ==
  ASSUME NEW kind \in Loose, NEW t, NEW tui
  PROVE  IsLooseRow(LooseRow(kind, t, tui), kind, t)
<1> DEFINE none == [busy |-> FALSE, background |-> 0, questions |-> {}, permissions |-> {}]
           x == NewRow(none, None, 0)
           n == LooseRow(kind, t, tui)
<1>1. none.busy \in BOOLEAN /\ none.questions = {} /\ none.permissions = {} /\ Past(None, 0)
  BY DEF Past
<1>2. n = [x EXCEPT !.category = kind, !.tui = t, !.attachmentStale = tui.stale]
  BY DEF LooseRow
<1> HIDE DEF none
<1>3. IsNewRow(x, none, 0)
  BY <1>1, NewRowFacts
<1> HIDE DEF x, n
<1>4. /\ RowTyped(n) /\ n.category = kind /\ n.tui = t /\ n.focus = FALSE
      /\ n.questions = {} /\ n.permissions = {}
  BY <1>1, <1>2, <1>3 DEF IsNewRow, RowTyped, RowFields
<1>5. Occurrence(n) = <<>>
  BY <1>4 DEF Occurrence, Loose
<1> QED BY <1>4, <1>5 DEF IsLooseRow, n

\* What an instance is rebuilt from.
Rebuildable(d, i, t) ==
  /\ DOMAIN d = Fields /\ i \in Instances /\ i \in DOMAIN d.projections /\ Projected(d.projections[i])
  /\ DOMAIN d.attachments = Instances /\ DOMAIN d.attachments[i] \subseteq Tuis
  /\ DOMAIN d.sticky = Instances /\ Paired(d.sticky[i], d.attachments[i])
  /\ \A k \in DOMAIN d.rows : k \in Instances \X (Sessions \cup Tuis) /\ RowTyped(d.rows[k])
  /\ \A k \in Of(d.rows, i) : k[2] \in Sessions => d.rows[k].category \notin Loose
  /\ t \in Nat /\ \A k \in DOMAIN d.lastNonBusy : d.lastNonBusy[k] \in 0 .. t

\* What it is rebuilt to.
Replaced(d, i, e) ==
  /\ DOMAIN e = Fields
  /\ \A f \in Fields \ {"rows", "sticky"} : e[f] = d[f]
  /\ \A k : k[1] # i => /\ k \in DOMAIN e.rows <=> k \in DOMAIN d.rows
                        /\ k \in DOMAIN d.rows => e.rows[k] = d.rows[k]
  /\ DOMAIN e.sticky = Instances
  /\ \A j \in Instances \ {i} : e.sticky[j] = d.sticky[j]

RebuiltAt(d, i, e) ==
  /\ \A k \in Of(e.rows, i) : /\ k \in Instances \X (Sessions \cup Tuis) /\ RowTyped(e.rows[k])
                              /\ V2Row(e, k) /\ Stands(d.rows, k, e.rows[k])
  /\ Attributed(e, i) /\ Paired(e.sticky[i], e.attachments[i])
  /\ \A t \in DOMAIN d.sticky[i] :
       /\ d.sticky[i][t] \in Roots(d.projections[i])
       /\ t \notin Misdirected(d.projections[i], d.attachments[i])
       /\ \A c \in ExplicitClaims(d.projections[i], d.attachments[i]) : c[1] = t <=> c[2] = d.sticky[i][t]
       => <<i, d.sticky[i][t]>> \in DOMAIN e.rows /\ e.rows[<<i, d.sticky[i][t]>>].tui = t

\* rebuild_v2_rows: the rows of one server are sound, nothing is hidden, the
\* accepted pairs are kept, and the rows of the others are as they were.
LEMMA RebuildFacts ==
  ASSUME NEW d, NEW i, NEW t, Rebuildable(d, i, t)
  PROVE  LET e == RebuildV2Rows(d, i, t) IN Replaced(d, i, e) /\ RebuiltAt(d, i, e)
<1> DEFINE ss == d.projections[i]
           tuis == d.attachments[i]
           sticky == d.sticky[i]
           r == ResolveTuis(ss, tuis, sticky)
           holder == Holder(r.resolved)
           S == SessionRows(d, i, holder, t)
           L == LooseRows(d, i, r.resolved)
           F == Forget(d.rows, i)
           e == RebuildV2Rows(d, i, t)
           headless == {x \in Roots(ss) \ DOMAIN holder : Works(Aggregate(ss, x, TRUE))}
           loose == {x \in DOMAIN r.resolved : r.resolved[x].kind # "attached"}
           row(k) == Refreshed(d, k, Aggregate(ss, k[2], TRUE), t)
<1>1. IsResolution(ss, tuis, r) /\ Obeys(ss, tuis, r) /\ Keeps(ss, tuis, sticky, r)
  BY Resolution DEF Rebuildable
<1>2. e = [d EXCEPT !.rows = Put(Put(F, S), L), !.sticky[i] = r.sticky]
  BY DEF RebuildV2Rows, Rebuilt, Rebuildable
<1>3. HolderFacts(ss, tuis, r, holder)
  BY <1>1, HolderIs
<1>4. /\ DOMAIN S = {i} \X (DOMAIN holder \cup headless)
      /\ \A k \in DOMAIN S : S[k] = IF k[2] \in DOMAIN holder
                                    THEN AttachedRow(row(k), holder[k[2]], tuis[holder[k[2]]])
                                    ELSE HeadlessRow(row(k))
  BY DEF SessionRows
<1>5. /\ DOMAIN L = {i} \X loose
      /\ \A k \in DOMAIN L : L[k] = LooseRow(r.resolved[k[2]].kind, k[2], tuis[k[2]])
  BY DEF LooseRows
<1>6. \A k \in {i} \X Roots(ss) : IsRefreshed(d, k, Aggregate(ss, k[2], TRUE), t, row(k))
  <2>1. Timely(d, t)
    BY DEF Rebuildable, Timely
  <2> TAKE k \in {i} \X Roots(ss)
  <2> DEFINE sum == Aggregate(ss, k[2], TRUE)
  <2>3. sum.busy \in BOOLEAN
    BY AggregateBusy
  <2> HIDE DEF sum
  <2>4. IsRefreshed(d, k, sum, t, Refreshed(d, k, sum, t))
    BY <2>1, <2>3, RefreshedFacts
  <2> QED BY <2>4 DEF sum
<1>7. /\ Roots(ss) \subseteq Sessions /\ None \notin Roots(ss) /\ DOMAIN holder \cup headless \subseteq Roots(ss)
      /\ loose \subseteq DOMAIN tuis /\ DOMAIN tuis \subseteq Tuis /\ Sessions \cap Tuis = {}
      /\ \A x \in loose : r.resolved[x].kind \in Loose
  BY <1>1, <1>3, ProjectedRoots, ModelAssumption DEF HolderFacts, IsResolution, Rebuildable, Loose
<1>8. \A x \in ActiveRoots(ss) : x \in DOMAIN holder \cup headless
  BY ActiveWorks DEF Rebuildable
<1>9. \A x \in DOMAIN tuis : r.resolved[x].kind # "attached" => x \in loose
  BY <1>1 DEF IsResolution
<1> HIDE DEF S, L, holder, headless, loose, r
<1>10. /\ DOMAIN e = Fields /\ \A f \in Fields \ {"rows", "sticky"} : e[f] = d[f]
       /\ e.rows = Put(Put(F, S), L) /\ e.sticky = [d.sticky EXCEPT ![i] = r.sticky]
  BY <1>2 DEF Fields, Rebuildable
<1> HIDE DEF e
<1>11. IsPut(e.rows, Put(F, S), L) /\ IsPut(Put(F, S), F, S)
  BY <1>10, PutFacts
<1>12. DOMAIN F = {k \in DOMAIN d.rows : k[1] # i} /\ \A k \in DOMAIN F : F[k] = d.rows[k]
  <2>1. IsPart(F, d.rows, DOMAIN d.rows \ Of(d.rows, i))
    BY DropFacts DEF Forget
  <2> QED BY <2>1 DEF IsPart, Of
<1> HIDE DEF F
<1>13. DOMAIN S \cap DOMAIN L = {}
  BY <1>4, <1>5, <1>7
<1>14. /\ DOMAIN e.rows = DOMAIN F \cup DOMAIN S \cup DOMAIN L
       /\ \A k \in DOMAIN S : e.rows[k] = S[k]
       /\ \A k \in DOMAIN L : e.rows[k] = L[k]
       /\ \A k \in DOMAIN F : k \notin DOMAIN S \cup DOMAIN L => e.rows[k] = F[k]
  BY <1>11, <1>13 DEF IsPut
<1>15. Of(e.rows, i) = DOMAIN S \cup DOMAIN L
  BY <1>4, <1>5, <1>12, <1>14 DEF Of
<1>16. /\ DOMAIN e.sticky = Instances /\ e.sticky[i] = r.sticky
       /\ \A j \in Instances \ {i} : e.sticky[j] = d.sticky[j]
  BY <1>10 DEF Rebuildable
<1>17. e.projections = d.projections /\ e.attachments = d.attachments
  BY <1>10 DEF Fields
<1>18. Replaced(d, i, e)
  <2>1. ASSUME NEW k, k[1] # i
        PROVE  /\ k \in DOMAIN e.rows <=> k \in DOMAIN d.rows
               /\ k \in DOMAIN d.rows => e.rows[k] = d.rows[k]
    <3>1. k \notin DOMAIN S /\ k \notin DOMAIN L
      BY <1>4, <1>5, <2>1
    <3> QED BY <1>12, <1>14, <2>1, <3>1
  <2> QED BY <1>10, <1>16, <2>1 DEF Replaced
\* The row of a root.
<1>19. ASSUME NEW x \in DOMAIN holder \cup headless
       PROVE  LET k == <<i, x>>
              IN  /\ k \in Of(e.rows, i) /\ k \in Instances \X (Sessions \cup Tuis) /\ RowTyped(e.rows[k])
                  /\ Stands(d.rows, k, e.rows[k])
                  /\ x \in DOMAIN holder =>
                       /\ e.rows[k].category = "attached" /\ e.rows[k].tui = holder[x]
                       /\ e.rows[k].focus = tuis[holder[x]].focus
                       /\ e.rows[k].attachmentStale = tuis[holder[x]].stale
                  /\ x \notin DOMAIN holder =>
                       e.rows[k].category = "headless" /\ e.rows[k].tui = None /\ e.rows[k].focus = FALSE
  <2> DEFINE k == <<i, x>>
  <2>1. k \in DOMAIN S /\ k[1] = i /\ k[2] = x /\ x \in Roots(ss) /\ i \in Instances
    BY <1>4, <1>7 DEF Rebuildable
  <2> HIDE DEF k
  <2>2. e.rows[k] = S[k] /\ k \in Of(e.rows, i)
    BY <1>14, <1>15, <2>1
  <2>3. IsRefreshed(d, k, Aggregate(ss, x, TRUE), t, row(k))
    BY <1>6, <2>1 DEF k
  <2>4. RowTyped(row(k))
    BY <2>3, RefreshedTyped
  <2> DEFINE y == row(k)
  <2>5. S[k] = IF x \in DOMAIN holder THEN AttachedRow(y, holder[x], tuis[holder[x]]) ELSE HeadlessRow(y)
    BY <1>4, <2>1
  <2> HIDE DEF y
  <2>6. /\ Same(y, S[k])
        /\ x \in DOMAIN holder =>
             /\ S[k].category = "attached" /\ S[k].tui = holder[x]
             /\ S[k].focus = tuis[holder[x]].focus /\ S[k].attachmentStale = tuis[holder[x]].stale
        /\ x \notin DOMAIN holder =>
             S[k].category = "headless" /\ S[k].tui = None /\ S[k].focus = FALSE
    <3>0. RowTyped(y)
      BY <2>4 DEF y
    <3>1. CASE x \in DOMAIN holder
      <4>1. S[k] = AttachedRow(y, holder[x], tuis[holder[x]])
        BY <2>5, <3>1
      <4> QED BY <3>0, <3>1, <4>1, AttachedRowFacts
    <3>2. CASE x \notin DOMAIN holder
      <4>1. S[k] = HeadlessRow(y)
        BY <2>5, <3>2
      <4> QED BY <3>0, <3>2, <4>1, HeadlessRowFacts
    <3> QED BY <3>1, <3>2
  <2>7. k \in DOMAIN d.rows => d.rows[k].category \notin Loose
    BY <1>7, <2>1 DEF Rebuildable, Of
  <2>8. Stands(d.rows, k, S[k])
    <3>1. S[k].category \notin Loose
      BY <2>6 DEF Loose
    <3>2. IsRefreshed(d, k, Aggregate(ss, x, TRUE), t, y)
      BY <2>3 DEF y
    <3> QED BY <2>6, <2>7, <3>1, <3>2, ShownStands DEF Same
  <2>9. RowTyped(S[k])
    BY <2>6 DEF Same
  <2>10. k \in Instances \X (Sessions \cup Tuis)
    BY <1>7, <2>1 DEF k
  <2> QED BY <2>2, <2>6, <2>8, <2>9, <2>10 DEF k
\* The row of a terminal that has none.
<1>20. ASSUME NEW x \in loose
       PROVE  LET k == <<i, x>>
              IN  /\ k \in Of(e.rows, i) /\ k \in Instances \X (Sessions \cup Tuis) /\ RowTyped(e.rows[k])
                  /\ Stands(d.rows, k, e.rows[k])
                  /\ e.rows[k].category \in Loose /\ e.rows[k].tui = x /\ e.rows[k].focus = FALSE
  <2> DEFINE k == <<i, x>>
  <2>1. k \in DOMAIN L /\ k[1] = i /\ k[2] = x /\ i \in Instances /\ x \in Tuis
    BY <1>5, <1>7 DEF Rebuildable
  <2>2. k \in Instances \X (Sessions \cup Tuis)
    BY <2>1
  <2> HIDE DEF k
  <2>3. e.rows[k] = L[k] /\ k \in Of(e.rows, i)
    BY <1>14, <1>15, <2>1
  <2>4. L[k] = LooseRow(r.resolved[x].kind, x, tuis[x]) /\ r.resolved[x].kind \in Loose
    BY <1>5, <1>7, <2>1
  <2>5. IsLooseRow(L[k], r.resolved[x].kind, x)
    BY <2>4, LooseRowFacts
  <2>6. Stands(d.rows, k, L[k])
    BY <2>5 DEF IsLooseRow, Stands, StandsOn, IsDismissed
  <2> QED BY <2>2, <2>3, <2>4, <2>5, <2>6 DEF k, IsLooseRow
<1>21. \A k \in Of(e.rows, i) : \/ \E x \in DOMAIN holder \cup headless : k = <<i, x>>
                                \/ \E x \in loose : k = <<i, x>>
  BY <1>4, <1>5, <1>15
<1>22. Paired(e.sticky[i], e.attachments[i])
  BY <1>1, <1>16, <1>17 DEF IsResolution, Paired
<1>23. ASSUME NEW k \in Of(e.rows, i)
       PROVE  /\ k \in Instances \X (Sessions \cup Tuis) /\ RowTyped(e.rows[k])
              /\ V2Row(e, k) /\ Stands(d.rows, k, e.rows[k])
  <2>1. CASE \E x \in DOMAIN holder : k = <<i, x>>
    <3>1. PICK x \in DOMAIN holder : k = <<i, x>>
      BY <2>1
    <3>2. /\ e.rows[k].category = "attached" /\ e.rows[k].tui = holder[x]
          /\ e.rows[k].focus = tuis[holder[x]].focus
          /\ e.rows[k].attachmentStale = tuis[holder[x]].stale
      BY <1>19, <3>1
    <3>3. holder[x] \in DOMAIN tuis /\ holder[x] \in DOMAIN r.sticky /\ r.sticky[holder[x]] = x
      BY <1>1, <1>3 DEF HolderFacts, IsResolution
    <3>4. k[1] = i /\ k[2] = x /\ x \in Sessions
      BY <1>7, <3>1
    <3>5. V2Row(e, k)
      BY <1>16, <1>17, <3>2, <3>3, <3>4 DEF V2Row
    <3> QED BY <1>19, <3>1, <3>5
  <2>2. CASE \E x \in headless : k = <<i, x>> /\ x \notin DOMAIN holder
    <3>1. PICK x \in headless : k = <<i, x>> /\ x \notin DOMAIN holder
      BY <2>2
    <3>2. e.rows[k].category = "headless" /\ e.rows[k].tui = None /\ e.rows[k].focus = FALSE
      BY <1>19, <3>1
    <3>3. k[2] \in Sessions
      BY <1>7, <3>1
    <3>4. V2Row(e, k)
      BY <3>2, <3>3 DEF V2Row
    <3> QED BY <1>19, <3>1, <3>4
  <2>3. CASE \E x \in loose : k = <<i, x>>
    <3>1. PICK x \in loose : k = <<i, x>>
      BY <2>3
    <3>2. e.rows[k].category \in Loose /\ e.rows[k].tui = x /\ e.rows[k].focus = FALSE
      BY <1>20, <3>1
    <3>3. x \in DOMAIN tuis /\ x \notin DOMAIN r.sticky
      BY <1>1, <1>7 DEF IsResolution, loose
    <3>4. k[1] = i /\ k[2] = x
      BY <3>1
    <3>5. V2Row(e, k)
      BY <1>16, <1>17, <3>2, <3>3, <3>4 DEF V2Row, Loose
    <3> QED BY <1>20, <3>1, <3>5
  <2> QED BY <1>21, <2>1, <2>2, <2>3
\* An attached terminal has the row of its root.
<1>24. ASSUME NEW x \in DOMAIN tuis, r.resolved[x].kind = "attached"
       PROVE  <<i, r.resolved[x].root>> \in DOMAIN e.rows /\ e.rows[<<i, r.resolved[x].root>>].tui = x
  <2>1. r.resolved[x].root \in DOMAIN holder /\ holder[r.resolved[x].root] = x
    BY <1>3, <1>24 DEF HolderFacts
  <2> QED BY <1>19, <2>1 DEF Of
<1>25. Attributed(e, i)
  <2>1. \A x \in DOMAIN tuis : \E k \in Of(e.rows, i) : e.rows[k].tui = x
    <3> TAKE x \in DOMAIN tuis
    <3>1. CASE r.resolved[x].kind = "attached"
      <4>1. <<i, r.resolved[x].root>> \in Of(e.rows, i) /\ e.rows[<<i, r.resolved[x].root>>].tui = x
        BY <1>24, <3>1 DEF Of
      <4> QED BY <4>1
    <3>2. CASE r.resolved[x].kind # "attached"
      <4>1. <<i, x>> \in Of(e.rows, i) /\ e.rows[<<i, x>>].tui = x
        BY <1>9, <1>20, <3>2
      <4> QED BY <4>1
    <3> QED BY <3>1, <3>2
  <2>2. \A x \in ActiveRoots(ss) : <<i, x>> \in DOMAIN e.rows
    BY <1>8, <1>19 DEF Of
  <2>3. \A c \in ExplicitClaims(ss, tuis) :
          ~Rivalled(ExplicitClaims(ss, tuis), c) =>
            <<i, c[2]>> \in DOMAIN e.rows /\ e.rows[<<i, c[2]>>].tui = c[1]
    <3> SUFFICES ASSUME NEW c \in ExplicitClaims(ss, tuis), ~Rivalled(ExplicitClaims(ss, tuis), c)
                 PROVE  <<i, c[2]>> \in DOMAIN e.rows /\ e.rows[<<i, c[2]>>].tui = c[1]
      OBVIOUS
    <3>1. c[1] \in DOMAIN tuis /\ r.resolved[c[1]] = Attached(c[2])
      BY <1>1 DEF Obeys
    <3>2. r.resolved[c[1]].kind = "attached" /\ r.resolved[c[1]].root = c[2]
      BY <3>1 DEF Attached
    <3> QED BY <1>24, <3>1, <3>2
  <2> QED BY <1>17, <2>1, <2>2, <2>3 DEF Attributed
<1>26. ASSUME NEW x \in DOMAIN sticky, sticky[x] \in Roots(ss), x \notin Misdirected(ss, tuis),
              \A c \in ExplicitClaims(ss, tuis) : c[1] = x <=> c[2] = sticky[x]
       PROVE  <<i, sticky[x]>> \in DOMAIN e.rows /\ e.rows[<<i, sticky[x]>>].tui = x
  <2>1. r.resolved[x] = Attached(sticky[x]) /\ x \in DOMAIN tuis
    BY <1>1, <1>26 DEF Keeps, Paired, Rebuildable
  <2> QED BY <1>24, <2>1 DEF Attached
<1>27. RebuiltAt(d, i, e)
  BY <1>22, <1>23, <1>25, <1>26 DEF RebuiltAt
<1> QED BY <1>18, <1>27 DEF e

-----------------------------------------------------------------------------
(* A projection.                                                           *)

\* A dashboard that has got a projection of a server, and not yet its rows.
Held(d, i, ss, t) ==
  LET settled == Settle(d, i)
      held    == [settled EXCEPT !.connected = @ \cup {i}, !.projections = Put(@, [j \in {i} |-> ss])]
  IN  [held EXCEPT !.lastNonBusy = SeenIdle(held, i, ss, t)]

IsHeld(d, i, ss, t, h) ==
  /\ DOMAIN h = Fields
  /\ h.rows = d.rows /\ h.attachments = d.attachments /\ h.v1Focus = d.v1Focus /\ h.sticky = d.sticky
  /\ h.v2 = d.v2 /\ h.pendingReady = d.pendingReady /\ h.selected = d.selected
  /\ h.connected = d.connected
  /\ DOMAIN h.endpoints = DOMAIN d.endpoints
  /\ \A x \in DOMAIN d.endpoints : h.endpoints[x] = d.endpoints[x]
  /\ DOMAIN h.projections = DOMAIN d.projections \cup {i} /\ h.projections[i] = ss
  /\ \A j \in DOMAIN d.projections \ {i} : h.projections[j] = d.projections[j]
  /\ \A k \in DOMAIN h.lastNonBusy :
       \/ h.lastNonBusy[k] = t
       \/ k \in DOMAIN d.lastNonBusy /\ h.lastNonBusy[k] = d.lastNonBusy[k]

\* What a dashboard is made to hold of a projection.
LEMMA HeldFacts ==
  ASSUME NEW d, NEW mon, Formed(d), Follows(d, mon), NEW i \in Instances, mon[i] = "connected",
         NEW ss, NEW t
  PROVE  IsHeld(d, i, ss, t, Held(d, i, ss, t))
<1> DEFINE settled == Settle(d, i)
           new == [j \in {i} |-> ss]
           held == [settled EXCEPT !.connected = @ \cup {i}, !.projections = Put(@, new)]
           h == [held EXCEPT !.lastNonBusy = SeenIdle(held, i, ss, t)]
<1>1. \A j \in There(mon) : EndpointOf[j] = EndpointOf[i] => j = i
  BY DEF Follows, There
<1>2. /\ DOMAIN settled = Fields
      /\ \A f \in Fields \ {"endpoints"} : settled[f] = d[f]
      /\ DOMAIN settled.endpoints = DOMAIN d.endpoints \cup {EndpointOf[i]}
      /\ \A x \in DOMAIN settled.endpoints :
           settled.endpoints[x] = IF x = EndpointOf[i] THEN i ELSE d.endpoints[x]
  BY <1>1, SettleFacts
<1>3. i \in There(mon) /\ i \in d.connected
  BY DEF Follows, There
<1>4. EndpointOf[i] \in DOMAIN d.endpoints /\ d.endpoints[EndpointOf[i]] = i
  BY <1>3, ThereKnown DEF Known
<1> HIDE DEF settled, new
<1>5. /\ DOMAIN held = Fields
      /\ \A f \in Fields \ {"connected", "projections"} : held[f] = settled[f]
      /\ held.connected = settled.connected \cup {i}
      /\ held.projections = Put(settled.projections, new)
  BY <1>2 DEF Fields
<1> DEFINE idle == {r \in Roots(ss) : ~Aggregate(ss, r, i \in held.v2).busy}
           seen == [k \in {i} \X idle |-> t]
           gone == {k \in Of(held.lastNonBusy, i) : k[2] \notin Roots(ss)}
<1>6. SeenIdle(held, i, ss, t) = Put(Drop(held.lastNonBusy, gone), seen)
  BY DEF SeenIdle
<1> HIDE DEF held
<1>7. /\ DOMAIN h = Fields /\ \A f \in Fields \ {"lastNonBusy"} : h[f] = held[f]
      /\ h.lastNonBusy = Put(Drop(held.lastNonBusy, gone), seen)
  BY <1>5, <1>6 DEF Fields
<1>8. DOMAIN seen = {i} \X idle /\ \A k \in DOMAIN seen : seen[k] = t
  OBVIOUS
<1> HIDE DEF h, seen, gone, idle
<1>9. /\ IsPut(h.lastNonBusy, Drop(held.lastNonBusy, gone), seen)
      /\ IsPart(Drop(held.lastNonBusy, gone), held.lastNonBusy, DOMAIN held.lastNonBusy \ gone)
      /\ IsPut(held.projections, settled.projections, new)
  <2>1. \A f, g : IsPut(Put(f, g), f, g)
    BY PutFacts
  <2>2. \A f, keys : IsPart(Drop(f, keys), f, DOMAIN f \ keys)
    BY DropFacts
  <2> QED BY <1>5, <1>7, <2>1, <2>2
<1>10. held.lastNonBusy = d.lastNonBusy /\ settled.projections = d.projections
  BY <1>2, <1>5 DEF Fields
<1>11. \A k \in DOMAIN h.lastNonBusy :
         \/ h.lastNonBusy[k] = t
         \/ k \in DOMAIN d.lastNonBusy /\ h.lastNonBusy[k] = d.lastNonBusy[k]
  BY <1>8, <1>9, <1>10 DEF IsPut, IsPart
<1>12. h.projections = held.projections
  BY <1>7 DEF Fields
<1>13. DOMAIN new = {i} /\ new[i] = ss
  BY DEF new
<1>14. /\ DOMAIN h.projections = DOMAIN d.projections \cup {i} /\ h.projections[i] = ss
       /\ \A j \in DOMAIN d.projections \ {i} : h.projections[j] = d.projections[j]
  BY <1>9, <1>10, <1>12, <1>13 DEF IsPut
<1>15. /\ h.rows = d.rows /\ h.attachments = d.attachments /\ h.v1Focus = d.v1Focus /\ h.sticky = d.sticky
       /\ h.v2 = d.v2 /\ h.pendingReady = d.pendingReady /\ h.selected = d.selected
       /\ h.endpoints = settled.endpoints /\ h.connected = d.connected \cup {i}
  BY <1>2, <1>5, <1>7 DEF Fields
<1>16. IsHeld(d, i, ss, t, h)
  BY <1>2, <1>3, <1>4, <1>7, <1>11, <1>14, <1>15 DEF IsHeld
<1> QED BY <1>16 DEF h, held, settled, new, Held

\* What an instance projects is there, and nothing else of the others.
LEMMA HeldKeeps ==
  ASSUME NEW d, NEW mon, NEW running, NEW t, Good(d, mon, running, t),
         NEW i \in Instances, mon[i] = "connected", NEW ss, Projected(ss),
         NEW h, IsHeld(d, i, ss, t, h)
  PROVE  /\ Follows(h, mon)
         /\ t \in Nat /\ \A k \in DOMAIN h.lastNonBusy : h.lastNonBusy[k] \in 0 .. t
         /\ \A j \in DOMAIN h.projections : j \in Instances /\ Projected(h.projections[j])
         /\ Timely(h, t)
<1>1. Formed(d) /\ Follows(d, mon) /\ Clocked(d, t, running)
  BY DEF Good
<1>2. Follows(h, mon)
  <2>1. DOMAIN h.projections \subseteq There(mon)
    BY <1>1 DEF IsHeld, Follows, There
  <2>2. \A x \in DOMAIN h.endpoints : h.endpoints[x] \in There(mon) /\ EndpointOf[h.endpoints[x]] = x
    BY <1>1 DEF IsHeld, Follows, There
  <2>3. \A x \in There(mon) : EndpointOf[x] \in DOMAIN h.endpoints
    BY <1>1 DEF IsHeld, Follows, There
  <2>4. /\ h.v2 = There(mon) \cap V2 /\ h.connected = {x \in Instances : mon[x] = "connected"}
        /\ \A k \in h.pendingReady : k[1] \in There(mon)
    BY <1>1 DEF IsHeld, Follows, There
  <2> QED BY <1>1, <2>1, <2>2, <2>3, <2>4 DEF Follows, There
<1>3. t \in Nat /\ \A k \in DOMAIN h.lastNonBusy : h.lastNonBusy[k] \in 0 .. t
  BY <1>1 DEF IsHeld, Clocked
<1>4. \A j \in DOMAIN h.projections : j \in Instances /\ Projected(h.projections[j])
  BY <1>1 DEF IsHeld, Formed
<1>5. \A k \in DOMAIN h.rows : RowTyped(h.rows[k])
  BY <1>1 DEF IsHeld, Formed, RowTyped
<1> QED BY <1>2, <1>3, <1>4, <1>5 DEF Timely

\* A v2 server projects.
LEMMA ProjectV2 ==
  ASSUME NEW d, NEW mon, NEW running, NEW t, Good(d, mon, running, t),
         NEW i \in Instances, mon[i] = "connected", i \in V2, NEW ss, Projected(ss)
  PROVE  LET e == RebuildV2Rows(Held(d, i, ss, t), i, t)
         IN  Outcome(d, e, mon, running \cup {i}, {i}, {}, t) /\ e.selected = d.selected
<1> DEFINE h == Held(d, i, ss, t)
           e == RebuildV2Rows(h, i, t)
<1>1. Formed(d) /\ Follows(d, mon) /\ Resolved(d) /\ Clocked(d, t, running)
  BY DEF Good
<1>2. IsHeld(d, i, ss, t, h)
  BY <1>1, HeldFacts
<1> HIDE DEF h
<1>3. /\ Follows(h, mon) /\ t \in Nat
      /\ \A k \in DOMAIN h.lastNonBusy : h.lastNonBusy[k] \in 0 .. t
      /\ \A j \in DOMAIN h.projections : j \in Instances /\ Projected(h.projections[j])
      /\ \A k \in DOMAIN h.rows : RowTyped(h.rows[k])
  BY <1>2, HeldKeeps DEF Timely
<1>4. h.rows = d.rows /\ h.attachments = d.attachments /\ h.sticky = d.sticky /\ h.projections[i] = ss
  BY <1>2 DEF IsHeld
<1>5. \A k \in Of(d.rows, i) : V2Row(d, k)
  BY <1>1 DEF Resolved, ResolvedAt
<1>6. Rebuildable(h, i, t)
  <2>1. \A k \in Of(h.rows, i) : k[2] \in Sessions => h.rows[k].category \notin Loose
    <3> SUFFICES ASSUME NEW k \in Of(d.rows, i), k[2] \in Sessions
                 PROVE  d.rows[k].category \notin Loose
      BY <1>4
    <3>1. k[2] \notin Tuis
      BY ModelAssumption
    <3>2. DOMAIN d.attachments[i] \subseteq Tuis /\ k[1] = i
      BY <1>1 DEF Formed, Of
    <3> QED BY <1>5, <3>1, <3>2 DEF V2Row, Loose
  <2>2. /\ DOMAIN d.attachments = Instances /\ DOMAIN d.attachments[i] \subseteq Tuis
        /\ DOMAIN d.sticky = Instances /\ Paired(d.sticky[i], d.attachments[i])
        /\ \A k \in DOMAIN d.rows : k \in Instances \X (Sessions \cup Tuis)
    BY <1>1 DEF Formed
  <2>3. DOMAIN h = Fields /\ i \in DOMAIN h.projections
    BY <1>2 DEF IsHeld
  <2> QED BY <1>3, <1>4, <2>1, <2>2, <2>3 DEF Rebuildable
<1>7. Replaced(h, i, e) /\ RebuiltAt(h, i, e)
  BY <1>6, RebuildFacts
<1> HIDE DEF e
<1>8. /\ DOMAIN e = Fields
      /\ e.projections = h.projections /\ e.attachments = h.attachments /\ e.v1Focus = h.v1Focus
      /\ e.endpoints = h.endpoints /\ e.v2 = h.v2 /\ e.connected = h.connected
      /\ e.lastNonBusy = h.lastNonBusy /\ e.pendingReady = h.pendingReady /\ e.selected = h.selected
  BY <1>7 DEF Replaced, Fields
<1>9. \A k : k[1] # i => /\ k \in DOMAIN e.rows <=> k \in DOMAIN d.rows
                         /\ k \in DOMAIN d.rows => e.rows[k] = d.rows[k]
  BY <1>4, <1>7 DEF Replaced
<1>10. Follows(e, mon)
  BY <1>3, <1>8 DEF Follows
<1>11. /\ h.v1Focus = d.v1Focus /\ h.pendingReady = d.pendingReady
       /\ DOMAIN h.projections = DOMAIN d.projections \cup {i}
       /\ \A j \in DOMAIN d.projections \ {i} : h.projections[j] = d.projections[j]
  BY <1>2 DEF IsHeld
<1>12. Formed(e)
  <2>1. \A k \in DOMAIN e.rows : /\ k \in Instances \X (Sessions \cup Tuis)
                                 /\ RowTyped(e.rows[k]) /\ k[1] \in DOMAIN e.projections
    <3> TAKE k \in DOMAIN e.rows
    <3>1. CASE k[1] = i
      <4>1. k \in Of(e.rows, i)
        BY <3>1 DEF Of
      <4> QED BY <1>7, <1>8, <1>11, <3>1, <4>1 DEF RebuiltAt
    <3>2. CASE k[1] # i
      <4>1. k \in DOMAIN d.rows /\ e.rows[k] = d.rows[k]
        BY <1>9, <3>2
      <4> QED BY <1>1, <1>8, <1>11, <4>1 DEF Formed, RowTyped
    <3> QED BY <3>1, <3>2
  <2>2. \A k \in e.pendingReady :
          /\ k \in Instances \X Sessions /\ k[1] \notin V2
          /\ k[1] \in DOMAIN e.projections => k[2] \notin DOMAIN e.projections[k[1]]
    BY <1>1, <1>8, <1>11 DEF Formed
  <2>3. \A j \in Instances : DOMAIN e.attachments[j] \subseteq Tuis /\ Paired(e.sticky[j], e.attachments[j])
    <3> TAKE j \in Instances
    <3>1. DOMAIN e.attachments[j] \subseteq Tuis
      BY <1>1, <1>4, <1>8 DEF Formed
    <3>2. CASE j = i
      BY <1>7, <3>1, <3>2 DEF RebuiltAt
    <3>3. CASE j # i
      <4>1. e.sticky[j] = d.sticky[j]
        BY <1>4, <1>7, <3>3 DEF Replaced
      <4> QED BY <1>1, <1>4, <1>8, <3>1, <4>1 DEF Formed
    <3> QED BY <3>2, <3>3
  <2>4. DOMAIN e.attachments = Instances /\ DOMAIN e.sticky = Instances
    BY <1>1, <1>4, <1>7, <1>8 DEF Formed, Replaced
  <2>5. \A j \in DOMAIN e.projections : j \in Instances /\ Projected(e.projections[j])
    BY <1>3, <1>8
  <2> QED BY <1>8, <2>1, <2>2, <2>3, <2>4, <2>5 DEF Formed, RowTyped
<1>13. ASSUME NEW j \in Instances PROVE ResolvedAt(e, j) /\ SticksAt(d, e, j)
  <2>1. CASE j # i
    <3>1. Of(e.rows, j) = Of(d.rows, j) /\ \A k \in Of(d.rows, j) : e.rows[k] = d.rows[k]
      BY <1>9, <2>1 DEF Of
    <3>2. e.attachments[j] = d.attachments[j] /\ e.sticky[j] = d.sticky[j]
      BY <1>4, <1>7, <1>8, <2>1 DEF Replaced
    <3>3. /\ j \in DOMAIN e.projections <=> j \in DOMAIN d.projections
          /\ j \in DOMAIN d.projections => e.projections[j] = d.projections[j]
          /\ e.v1Focus = d.v1Focus
      BY <1>8, <1>11, <2>1
    <3>4. KeptAt(d, e, j)
      BY <3>1, <3>2, <3>3 DEF KeptAt
    <3> QED BY <1>1, <3>4, KeptResolved DEF Resolved
  <2>2. CASE j = i
    <3>1. ResolvedAt(e, j)
      BY <1>7, <2>2 DEF ResolvedAt, RebuiltAt
    <3>2. SticksAt(d, e, j)
      <4> SUFFICES ASSUME NEW k \in Of(d.rows, i), d.rows[k].category = "attached",
                          k[2] \in Roots(ss),
                          d.rows[k].tui \notin Misdirected(ss, d.attachments[i]),
                          \A c \in ExplicitClaims(ss, d.attachments[i]) :
                            c[1] = d.rows[k].tui <=> c[2] = k[2]
                   PROVE  k \in DOMAIN e.rows /\ e.rows[k].tui = d.rows[k].tui
        BY <1>4, <1>8, <2>2 DEF SticksAt
      <4>1. k[1] = i /\ k = <<i, k[2]>>
        BY <1>1 DEF Of, Formed
      <4>2. d.rows[k].tui \in DOMAIN d.sticky[i] /\ d.sticky[i][d.rows[k].tui] = k[2]
        BY <1>5, <4>1 DEF V2Row
      <4>3. <<i, k[2]>> \in DOMAIN e.rows /\ e.rows[<<i, k[2]>>].tui = d.rows[k].tui
        BY <1>4, <1>7, <4>2 DEF RebuiltAt
      <4> QED BY <4>1, <4>3
    <3> QED BY <3>1, <3>2
  <2> QED BY <2>1, <2>2
<1>14. Clocked(e, t, running \cup {i})
  <2>1. ASSUME NEW k \in DOMAIN e.rows, k[1] \notin V2
        PROVE  TimeSound(e.rows[k], t, k[1] \in running \cup {i})
    <3>1. k[1] # i
      BY <2>1
    <3>2. k \in DOMAIN d.rows /\ e.rows[k] = d.rows[k] /\ ((k[1] \in running \cup {i}) = (k[1] \in running))
      BY <1>9, <3>1
    <3>3. TimeSound(d.rows[k], t, k[1] \in running)
      BY <1>1, <2>1, <3>2 DEF Clocked
    <3> QED BY <3>2, <3>3
  <2> QED BY <1>3, <1>8, <2>1 DEF Clocked
<1>15. Turned(d.rows, e.rows, {i}, {}, t)
  <2> SUFFICES ASSUME NEW k \in DOMAIN e.rows
               PROVE  /\ IF k \in DOMAIN d.rows THEN StandsOn(d.rows[k], e.rows[k], k[1] \in {i})
                         ELSE ~IsDismissed(e.rows[k])
                      /\ k \in DOMAIN d.rows /\ k[1] \notin V2 => Even(d.rows[k], e.rows[k], t)
    BY DEF Turned
  <2>1. CASE k[1] = i
    <3>1. Stands(d.rows, k, e.rows[k])
      BY <1>4, <1>7, <2>1 DEF RebuiltAt, Of
    <3> QED BY <2>1, <3>1 DEF Stands, StandsOn
  <2>2. CASE k[1] # i
    <3>1. k \in DOMAIN d.rows /\ e.rows[k] = d.rows[k]
      BY <1>9, <2>2
    <3> QED BY <2>2, <3>1 DEF StandsOn, Even
  <2> QED BY <2>1, <2>2
<1>16. e.selected = d.selected
  BY <1>2, <1>8 DEF IsHeld
<1>17. Outcome(d, e, mon, running \cup {i}, {i}, {}, t) /\ e.selected = d.selected
  BY <1>10, <1>12, <1>13, <1>14, <1>15, <1>16 DEF Outcome, Good, Resolved
<1> QED BY <1>17 DEF e, h

\* A row of a v1 server that has projected, before its server's staleness.
FreshV1(d, i, ss, k, n, t) ==
  /\ k \in {i} \X DOMAIN ss
  /\ RowTyped(n) /\ n.category = "v1" /\ (n.focus <=> i \in d.v1Focus)
  /\ Timed(n, t) /\ n.frozen = None
  /\ Stands(d.rows, k, n)
  /\ k \in DOMAIN d.rows => Even(d.rows[k], n, t)

\* Whether a row can be focused is all that changes of it.
LEMMA FocusedFacts ==
  ASSUME NEW x, RowTyped(x), NEW focus
  PROVE  LET n == [x EXCEPT !.focus = focus]
         IN  /\ Same(x, n) /\ n.category = x.category /\ n.focus = focus /\ n.frozen = x.frozen
             /\ n.lastNonBusy = x.lastNonBusy /\ n.firstBusy = x.firstBusy
BY DEF RowTyped, RowFields, Same

\* A root of a v1 server that projects has a row as sound as FreshV1 has it.
LEMMA FreshFacts ==
  ASSUME NEW d, NEW i, NEW ss, NEW t, Timely(d, t), NEW k \in {i} \X DOMAIN ss,
         NEW aggregate, NEW x, IsRefreshed(d, k, aggregate, t, x), aggregate.busy \in BOOLEAN,
         k \in DOMAIN d.rows => d.rows[k].category = "v1" /\ Timed(d.rows[k], t)
  PROVE  FreshV1(d, i, ss, k, [x EXCEPT !.focus = i \in d.v1Focus], t)
<1> DEFINE n == [x EXCEPT !.focus = i \in d.v1Focus]
<1>1. RowTyped(x)
  BY RefreshedTyped
<1>2. /\ Same(x, n) /\ n.category = x.category /\ (n.focus <=> i \in d.v1Focus) /\ n.frozen = x.frozen
      /\ n.lastNonBusy = x.lastNonBusy /\ n.firstBusy = x.firstBusy
  <2> DEFINE f == i \in d.v1Focus
  <2>1. n = [x EXCEPT !.focus = f]
    OBVIOUS
  <2> HIDE DEF f, n
  <2>2. /\ Same(x, n) /\ n.category = x.category /\ n.focus = f /\ n.frozen = x.frozen
        /\ n.lastNonBusy = x.lastNonBusy /\ n.firstBusy = x.firstBusy
    BY <1>1, <2>1, FocusedFacts
  <2> QED BY <2>2 DEF f
<1> HIDE DEF n
<1>3. x.category = "v1"
  BY DEF IsRefreshed, IsUpdated, IsNewRow
<1>4. Stands(d.rows, k, n)
  <2>1. n.category \notin Loose /\ (k \in DOMAIN d.rows => d.rows[k].category \notin Loose)
    BY <1>2, <1>3 DEF Loose
  <2> QED BY <1>2, <2>1, ShownStands DEF Same
<1>5. Timed(x, t) /\ x.frozen = None /\ (k \in DOMAIN d.rows => Even(d.rows[k], x, t))
  <2>1. CASE k \in DOMAIN d.rows
    <3>1. IsUpdated(d.rows[k], aggregate, t, x) /\ RowTyped(d.rows[k]) /\ t \in Nat /\ Timed(d.rows[k], t)
      BY <2>1 DEF IsRefreshed, Timely
    <3> QED BY <3>1, UpdateTimed
  <2>2. CASE k \notin DOMAIN d.rows
    BY <2>2 DEF IsRefreshed, IsNewRow
  <2> QED BY <2>1, <2>2
<1>6. n.busy = x.busy /\ Baseline(n) = Baseline(x)
  BY <1>2 DEF Same, Baseline
<1>7. Timed(n, t)
  BY <1>2, <1>5, <1>6 DEF Timed
<1>8. k \in DOMAIN d.rows => Even(d.rows[k], n, t)
  BY <1>2, <1>5, <1>6 DEF Even, Elapsed
<1> QED BY <1>2, <1>3, <1>4, <1>5, <1>7, <1>8 DEF FreshV1, Same, n

\* It stays so when its server is no longer stale, and then its counter runs.
LEMMA StaleFresh ==
  ASSUME NEW d, NEW i, NEW ss, NEW k, NEW n, NEW t, FreshV1(d, i, ss, k, n, t)
  PROVE  LET s == StaleRow(n, FALSE, t)
         IN  FreshV1(d, i, ss, k, s, t) /\ TimeSound(s, t, TRUE)
<1>1. PICK stale \in BOOLEAN : ~stale
  OBVIOUS
<1> DEFINE s == StaleRow(n, stale, t)
<1>2. RowTyped(n)
  BY DEF FreshV1
<1>3. /\ RowTyped(s) /\ s.stale = stale /\ s.busy = n.busy
      /\ s.frozen = IF stale /\ ~n.stale /\ n.frozen = None THEN Elapsed(n, t) ELSE n.frozen
      /\ s.lastNonBusy = n.lastNonBusy /\ s.firstBusy = n.firstBusy
      /\ s.category = n.category /\ s.focus = n.focus /\ s.dismissed = n.dismissed
      /\ Occurrence(s) = Occurrence(n)
  BY <1>2, StaleRowFacts
<1> HIDE DEF s
<1>4. s.frozen = n.frozen /\ s.stale = FALSE
  BY <1>1, <1>3
<1>5. Baseline(s) = Baseline(n) /\ Elapsed(s, t) = Elapsed(n, t)
  BY <1>3, <1>4 DEF Baseline, Elapsed
<1>6. Timed(s, t)
  BY <1>3, <1>4, <1>5 DEF Timed, FreshV1
<1>7. IsDismissed(s) <=> IsDismissed(n)
  BY <1>3 DEF IsDismissed
<1>8. Stands(d.rows, k, s)
  BY <1>3, <1>4, <1>7 DEF FreshV1, Stands, StandsOn
<1>9. k \in DOMAIN d.rows => Even(d.rows[k], s, t)
  BY <1>5 DEF FreshV1, Even
<1>10. FreshV1(d, i, ss, k, s, t) /\ TimeSound(s, t, TRUE)
  BY <1>3, <1>4, <1>6, <1>8, <1>9 DEF FreshV1, TimeSound
<1>11. stale = FALSE
  BY <1>1
<1> QED BY <1>10, <1>11 DEF s

\* What is done of a v1 server that projects, on the rows.
V1Projected(d, i, ss, t) ==
  LET h == Held(d, i, ss, t)
  IN  SetStale(ApplyPending([h EXCEPT !.rows = V1Rows(h, i, ss, t)], i, t), i, FALSE, t)

\* The rows of the others are the same, and the pending readies of the server
\* are of sessions it does not project.
IsV1Projected(d, i, ss, t, e) ==
  LET h == Held(d, i, ss, t)
  IN  /\ DOMAIN e = Fields
      /\ \A f \in Fields \ {"rows", "lastNonBusy", "pendingReady"} : e[f] = h[f]
      /\ \A k : k[1] # i => /\ k \in DOMAIN e.rows <=> k \in DOMAIN d.rows
                            /\ k \in DOMAIN d.rows => e.rows[k] = d.rows[k]
      /\ \A k \in Of(e.rows, i) : FreshV1(d, i, ss, k, e.rows[k], t) /\ TimeSound(e.rows[k], t, TRUE)
      /\ \A k \in DOMAIN e.lastNonBusy : e.lastNonBusy[k] \in 0 .. t
      /\ \A k \in e.pendingReady : k \in d.pendingReady /\ (k[1] = i => k[2] \notin DOMAIN ss)

\* The rows of a v1 server that projects, with its remembered readies applied.
LEMMA V1ProjectedFacts ==
  ASSUME NEW d, NEW mon, NEW running, NEW t, Good(d, mon, running, t),
         NEW i \in Instances, mon[i] = "connected", i \notin V2, NEW ss, Projected(ss)
  PROVE  IsV1Projected(d, i, ss, t, V1Projected(d, i, ss, t))
<1> DEFINE h == Held(d, i, ss, t)
           admitted == {r \in Roots(ss) : Admitted(h, i, ss, r)}
           sum(k) == Aggregate(ss, k[2], FALSE)
           V == [k \in {i} \X admitted |->
                   [Refreshed(h, k, sum(k), t) EXCEPT !.focus = i \in h.v1Focus]]
           F == Forget(h.rows, i)
           a == [h EXCEPT !.rows = V1Rows(h, i, ss, t)]
           pending == {k \in a.pendingReady : k[1] = i}
           roots == {k[2] : k \in pending}
           b == [a EXCEPT !.pendingReady = @ \ pending]
           c == ApplyReady(b, i, roots, t)
           e == SetStale(c, i, FALSE, t)
<1>1. Formed(d) /\ Follows(d, mon) /\ Resolved(d) /\ Clocked(d, t, running)
  BY DEF Good
<1>2. IsHeld(d, i, ss, t, h)
  BY <1>1, HeldFacts
<1>3. V1Projected(d, i, ss, t) = e
  BY DEF V1Projected, ApplyPending
<1>4. V1Rows(h, i, ss, t) = Put(F, V)
  BY DEF V1Rows
<1>5. DOMAIN V = {i} \X admitted /\ \A k \in DOMAIN V : V[k] = [Refreshed(h, k, sum(k), t) EXCEPT !.focus = i \in h.v1Focus]
  OBVIOUS
<1>6. admitted \subseteq DOMAIN ss
  BY ProjectedRoots
<1> HIDE DEF h, V, F, admitted
<1>7. Follows(h, mon) /\ t \in Nat /\ Timely(h, t)
  BY <1>2, HeldKeeps
<1>8. h.rows = d.rows /\ h.v1Focus = d.v1Focus /\ h.pendingReady = d.pendingReady
      /\ i \in DOMAIN h.projections /\ h.projections[i] = ss /\ DOMAIN h = Fields /\ h.v2 = d.v2
  BY <1>2 DEF IsHeld
<1>9. i \notin d.v2
  BY <1>1 DEF Follows
<1>10. \A k \in Of(d.rows, i) : /\ d.rows[k].category = "v1" /\ k \in {i} \X Sessions
                                /\ i \in DOMAIN d.projections /\ k[2] \in DOMAIN d.projections[i]
                                /\ Timed(d.rows[k], t)
  <2> SUFFICES ASSUME NEW k \in Of(d.rows, i)
               PROVE  /\ d.rows[k].category = "v1" /\ k \in {i} \X Sessions
                      /\ i \in DOMAIN d.projections /\ k[2] \in DOMAIN d.projections[i]
                      /\ Timed(d.rows[k], t)
    OBVIOUS
  <2>1. V1Row(d, k) /\ k[1] = i /\ k \in DOMAIN d.rows
    BY <1>1 DEF Resolved, ResolvedAt, Of
  <2>2. TimeSound(d.rows[k], t, k[1] \in running)
    BY <1>1, <2>1 DEF Clocked
  <2>3. k \in Instances \X (Sessions \cup Tuis) /\ (i \in DOMAIN d.projections => DOMAIN d.projections[i] \subseteq Sessions)
    BY <1>1, <2>1 DEF Formed, Projected
  <2> QED BY <2>1, <2>2, <2>3 DEF V1Row, TimeSound
\* The rows that the projection admits.
<1>11. ASSUME NEW k \in DOMAIN V PROVE FreshV1(d, i, ss, k, V[k], t)
  <2> DEFINE agg == sum(k)
             x == Refreshed(h, k, agg, t)
  <2>1. k \in {i} \X DOMAIN ss /\ k[1] = i
    BY <1>5, <1>6
  <2>2. V[k] = [x EXCEPT !.focus = i \in h.v1Focus]
    BY <1>5
  <2>3. agg.busy \in BOOLEAN
    BY AggregateBusy
  <2> HIDE DEF agg
  <2>4. IsRefreshed(h, k, agg, t, x)
    BY <1>7, <2>3, RefreshedFacts
  <2> HIDE DEF x
  <2>5. k \in DOMAIN h.rows => h.rows[k].category = "v1" /\ Timed(h.rows[k], t)
    BY <1>8, <1>10, <2>1 DEF Of
  <2>6. FreshV1(h, i, ss, k, V[k], t)
    BY <1>7, <2>1, <2>2, <2>3, <2>4, <2>5, FreshFacts
  <2> QED BY <1>8, <2>6 DEF FreshV1
<1>12. DOMAIN F = {k \in DOMAIN d.rows : k[1] # i} /\ \A k \in DOMAIN F : F[k] = d.rows[k]
  <2>1. IsPart(F, h.rows, DOMAIN h.rows \ Of(h.rows, i))
    BY DropFacts DEF Forget, F
  <2> QED BY <1>8, <2>1 DEF IsPart, Of
<1>13. IsPut(Put(F, V), F, V)
  BY PutFacts
<1>14. /\ DOMAIN a = Fields /\ \A f \in Fields \ {"rows"} : a[f] = h[f]
       /\ a.rows = Put(F, V)
  BY <1>4, <1>8 DEF Fields
<1> HIDE DEF a
<1>15. a.pendingReady = d.pendingReady
  BY <1>8, <1>14 DEF Fields
<1>16. /\ DOMAIN b = Fields /\ \A f \in Fields \ {"rows", "pendingReady"} : b[f] = h[f]
       /\ b.rows = Put(F, V) /\ b.pendingReady = d.pendingReady \ pending
  BY <1>14, <1>15 DEF Fields
<1>17. pending = {k \in d.pendingReady : k[1] = i}
  BY <1>15
<1>18. {i} \X roots = pending
  <2>1. \A k \in pending : k = <<i, k[2]>>
    BY <1>1, <1>17 DEF Formed
  <2> QED BY <2>1
<1> HIDE DEF b, pending, roots
<1>19. IsReadied(b, i, roots, t, c)
  BY <1>16, ReadyFacts
<1> HIDE DEF c
<1>20. /\ b.projections = h.projections /\ b.v2 = d.v2 /\ b.v1Focus = d.v1Focus
       /\ b.lastNonBusy = h.lastNonBusy
  BY <1>8, <1>16 DEF Fields
<1>21. Admits(b, i, roots) = {k \in pending \ DOMAIN b.rows : k[2] \in DOMAIN ss}
  BY <1>8, <1>9, <1>18, <1>20 DEF Admits
<1>22. /\ DOMAIN b.rows = DOMAIN F \cup DOMAIN V
       /\ \A k \in DOMAIN V : b.rows[k] = V[k]
       /\ \A k \in DOMAIN F : k \notin DOMAIN V => b.rows[k] = F[k]
  BY <1>13, <1>16 DEF IsPut
<1>23. /\ DOMAIN c = Fields
       /\ \A f \in Fields \ {"lastNonBusy", "rows", "pendingReady"} : c[f] = b[f]
       /\ DOMAIN c.rows = DOMAIN b.rows \cup Admits(b, i, roots)
       /\ \A k \in DOMAIN c.rows :
            c.rows[k] = IF k \notin pending THEN b.rows[k]
                        ELSE IF k \in DOMAIN b.rows THEN Readied(b.rows[k], t) ELSE ReadyRow(b, i, t)
       /\ \A k \in DOMAIN c.lastNonBusy :
            \/ c.lastNonBusy[k] = t
            \/ k \in DOMAIN b.lastNonBusy /\ c.lastNonBusy[k] = b.lastNonBusy[k]
       /\ c.pendingReady = b.pendingReady \cup (pending \ (DOMAIN b.rows \cup Admits(b, i, roots)))
  BY <1>9, <1>18, <1>19, <1>20 DEF IsReadied
\* The rows that were not there before are not those of a pending ready.
<1>24. \A k \in pending : k \notin DOMAIN d.rows
  <2> SUFFICES ASSUME NEW k \in pending, k \in DOMAIN d.rows PROVE FALSE
    OBVIOUS
  <2>1. k \in Of(d.rows, i) /\ k \in d.pendingReady /\ k[1] = i
    BY <1>17 DEF Of
  <2> QED BY <1>1, <1>10, <2>1 DEF Formed
<1>25. ASSUME NEW k \in DOMAIN c.rows, k[1] = i PROVE FreshV1(d, i, ss, k, c.rows[k], t)
  <2>1. k \notin DOMAIN F
    BY <1>12, <1>25
  <2>2. CASE k \notin pending
    <3>1. k \in DOMAIN V /\ c.rows[k] = V[k]
      BY <1>21, <1>22, <1>23, <2>1, <2>2
    <3> QED BY <1>11, <3>1
  <2>3. CASE k \in pending /\ k \in DOMAIN b.rows
    <3>1. k \in DOMAIN V /\ c.rows[k] = Readied(V[k], t)
      BY <1>22, <1>23, <2>1, <2>3
    <3>2. FreshV1(d, i, ss, k, V[k], t) /\ k \notin DOMAIN d.rows
      BY <1>11, <1>24, <2>3, <3>1
    <3>3. IsReadiedRow(V[k], c.rows[k], t)
      BY <1>7, <3>1, <3>2, ReadiedFacts DEF FreshV1
    <3> QED BY <3>2, <3>3 DEF FreshV1, IsReadiedRow, Stands, TimeSound
  <2>4. CASE k \in pending /\ k \notin DOMAIN b.rows
    <3>1. c.rows[k] = ReadyRow(b, i, t) /\ k \in Admits(b, i, roots)
      BY <1>23, <2>4
    <3>2. IsReadyRow(c.rows[k], i \in b.v1Focus, t)
      BY <1>7, <3>1, ReadyRowFacts
    <3>3. k \in {i} \X DOMAIN ss /\ k \notin DOMAIN d.rows
      BY <1>18, <1>21, <1>24, <2>4, <3>1
    <3> QED BY <1>20, <3>2, <3>3 DEF FreshV1, IsReadyRow, Stands, TimeSound
  <2> QED BY <2>2, <2>3, <2>4
<1>26. /\ DOMAIN e = Fields
       /\ \A f \in Fields \ {"rows"} : e[f] = c[f]
       /\ DOMAIN e.rows = DOMAIN c.rows
       /\ \A k \in DOMAIN c.rows :
            e.rows[k] = IF k[1] = i THEN StaleRow(c.rows[k], FALSE, t) ELSE c.rows[k]
  <2> DEFINE no == FALSE
             n == SetStale(c, i, no, t)
  <2>1. DOMAIN c = Fields /\ no \in BOOLEAN /\ e = n
    BY <1>23
  <2> HIDE DEF no
  <2>2. /\ DOMAIN n = Fields
        /\ \A f \in Fields \ {"rows"} : n[f] = c[f]
        /\ DOMAIN n.rows = DOMAIN c.rows
        /\ \A k \in DOMAIN c.rows :
             n.rows[k] = IF k[1] = i THEN StaleRow(c.rows[k], no, t) ELSE c.rows[k]
    BY <2>1, SetStaleFacts
  <2> QED BY <2>1, <2>2 DEF no
<1> HIDE DEF e
<1>27. \A f \in Fields \ {"rows", "lastNonBusy", "pendingReady"} : e[f] = h[f]
  BY <1>16, <1>23, <1>26
<1>28. ASSUME NEW k, k[1] # i
       PROVE  /\ k \in DOMAIN e.rows <=> k \in DOMAIN d.rows
              /\ k \in DOMAIN d.rows => e.rows[k] = d.rows[k]
  <2>1. k \notin pending /\ k \notin DOMAIN V /\ k \notin Admits(b, i, roots)
    BY <1>5, <1>17, <1>21, <1>28
  <2>2. k \in DOMAIN e.rows <=> k \in DOMAIN d.rows
    BY <1>12, <1>22, <1>23, <1>26, <1>28, <2>1
  <2>3. ASSUME k \in DOMAIN d.rows PROVE e.rows[k] = d.rows[k]
    <3>1. k \in DOMAIN F /\ k \in DOMAIN c.rows /\ F[k] = d.rows[k]
      BY <1>12, <1>22, <1>23, <1>28, <2>3
    <3>2. e.rows[k] = c.rows[k] /\ c.rows[k] = b.rows[k] /\ b.rows[k] = F[k]
      BY <1>22, <1>23, <1>26, <1>28, <2>1, <3>1
    <3> QED BY <3>1, <3>2
  <2> QED BY <2>2, <2>3
<1>29. \A k \in Of(e.rows, i) : FreshV1(d, i, ss, k, e.rows[k], t) /\ TimeSound(e.rows[k], t, TRUE)
  <2> TAKE k \in Of(e.rows, i)
  <2>1. k \in DOMAIN c.rows /\ k[1] = i /\ e.rows[k] = StaleRow(c.rows[k], FALSE, t)
    BY <1>26 DEF Of
  <2>2. FreshV1(d, i, ss, k, c.rows[k], t)
    BY <1>25, <2>1
  <2> QED BY <2>1, <2>2, StaleFresh
<1>30. \A k \in DOMAIN e.lastNonBusy : e.lastNonBusy[k] \in 0 .. t
  <2>1. e.lastNonBusy = c.lastNonBusy
    BY <1>26 DEF Fields
  <2>2. \A k \in DOMAIN h.lastNonBusy : h.lastNonBusy[k] \in 0 .. t
    BY <1>7 DEF Timely
  <2>3. t \in 0 .. t
    BY <1>7
  <2> QED BY <1>20, <1>23, <2>1, <2>2, <2>3
<1>31. \A k \in e.pendingReady : k \in d.pendingReady /\ (k[1] = i => k[2] \notin DOMAIN ss)
  <2> TAKE k \in e.pendingReady
  <2>1. e.pendingReady = c.pendingReady
    BY <1>26 DEF Fields
  <2>2. CASE k \in b.pendingReady
    BY <1>16, <1>17, <2>2
  <2>3. CASE k \notin b.pendingReady
    <3>1. k \in pending /\ k \notin DOMAIN b.rows /\ k \notin Admits(b, i, roots)
      BY <1>23, <2>1, <2>3
    <3> QED BY <1>17, <1>21, <3>1
  <2> QED BY <2>2, <2>3
<1>32. IsV1Projected(d, i, ss, t, e)
  BY <1>26, <1>27, <1>28, <1>29, <1>30, <1>31 DEF IsV1Projected, h
<1> QED BY <1>3, <1>32 DEF e, c, b, a, h

\* A v1 server projects.
LEMMA ProjectV1 ==
  ASSUME NEW d, NEW mon, NEW running, NEW t, Good(d, mon, running, t),
         NEW i \in Instances, mon[i] = "connected", i \notin V2, NEW ss, Projected(ss)
  PROVE  LET e == V1Projected(d, i, ss, t)
         IN  Outcome(d, e, mon, running \cup {i}, {i}, {}, t) /\ e.selected = d.selected
<1> DEFINE h == Held(d, i, ss, t)
           e == V1Projected(d, i, ss, t)
<1>1. Formed(d) /\ Follows(d, mon) /\ Resolved(d) /\ Clocked(d, t, running)
  BY DEF Good
<1>2. IsHeld(d, i, ss, t, h)
  BY <1>1, HeldFacts
<1>3. IsV1Projected(d, i, ss, t, e)
  BY V1ProjectedFacts
<1> HIDE DEF e
<1>4. /\ DOMAIN e = Fields
      /\ \A f \in Fields \ {"rows", "lastNonBusy", "pendingReady"} : e[f] = h[f]
      /\ \A k : k[1] # i => /\ k \in DOMAIN e.rows <=> k \in DOMAIN d.rows
                            /\ k \in DOMAIN d.rows => e.rows[k] = d.rows[k]
      /\ \A k \in Of(e.rows, i) : FreshV1(d, i, ss, k, e.rows[k], t) /\ TimeSound(e.rows[k], t, TRUE)
      /\ \A k \in DOMAIN e.lastNonBusy : e.lastNonBusy[k] \in 0 .. t
      /\ \A k \in e.pendingReady : k \in d.pendingReady /\ (k[1] = i => k[2] \notin DOMAIN ss)
  BY <1>3 DEF IsV1Projected
<1> HIDE DEF h
<1>5. /\ Follows(h, mon) /\ t \in Nat
      /\ \A j \in DOMAIN h.projections : j \in Instances /\ Projected(h.projections[j])
  BY <1>2, HeldKeeps
<1>6. /\ e.projections = h.projections /\ e.attachments = d.attachments /\ e.v1Focus = d.v1Focus
      /\ e.sticky = d.sticky /\ e.endpoints = h.endpoints /\ e.v2 = h.v2
      /\ e.connected = h.connected /\ e.selected = d.selected
      /\ DOMAIN h.projections = DOMAIN d.projections \cup {i} /\ h.projections[i] = ss
      /\ \A j \in DOMAIN d.projections \ {i} : h.projections[j] = d.projections[j]
  BY <1>2, <1>4 DEF IsHeld, Fields
<1>7. DOMAIN ss \subseteq Sessions
  BY DEF Projected
<1>8. Formed(e)
  <2>1. \A k \in DOMAIN e.rows : /\ k \in Instances \X (Sessions \cup Tuis)
                                 /\ RowTyped(e.rows[k]) /\ k[1] \in DOMAIN e.projections
    <3> TAKE k \in DOMAIN e.rows
    <3>1. CASE k[1] = i
      <4>1. FreshV1(d, i, ss, k, e.rows[k], t)
        BY <1>4, <3>1 DEF Of
      <4>2. RowTyped(e.rows[k]) /\ k \in {i} \X DOMAIN ss
        BY <4>1 DEF FreshV1
      <4> QED BY <1>6, <1>7, <3>1, <4>2
    <3>2. CASE k[1] # i
      <4>1. k \in DOMAIN d.rows /\ e.rows[k] = d.rows[k]
        BY <1>4, <3>2
      <4> QED BY <1>1, <1>6, <4>1 DEF Formed, RowTyped
    <3> QED BY <3>1, <3>2
  <2>2. \A k \in e.pendingReady :
          /\ k \in Instances \X Sessions /\ k[1] \notin V2
          /\ k[1] \in DOMAIN e.projections => k[2] \notin DOMAIN e.projections[k[1]]
    BY <1>1, <1>4, <1>6 DEF Formed
  <2>3. \A j \in DOMAIN e.projections : j \in Instances /\ Projected(e.projections[j])
    BY <1>5, <1>6
  <2> QED BY <1>1, <1>4, <1>6, <2>1, <2>2, <2>3 DEF Formed, RowTyped
<1>9. Follows(e, mon)
  <2>1. \A k \in e.pendingReady : k[1] \in There(mon)
    BY <1>1, <1>4 DEF Follows, There
  <2> QED BY <1>5, <1>6, <2>1 DEF Follows, There
<1>10. ASSUME NEW j \in Instances PROVE ResolvedAt(e, j) /\ SticksAt(d, e, j)
  <2>1. CASE j # i
    <3>1. Of(e.rows, j) = Of(d.rows, j) /\ \A k \in Of(d.rows, j) : e.rows[k] = d.rows[k]
      BY <1>4, <2>1 DEF Of
    <3>2. /\ j \in DOMAIN e.projections <=> j \in DOMAIN d.projections
          /\ j \in DOMAIN d.projections => e.projections[j] = d.projections[j]
      BY <1>6, <2>1
    <3>3. KeptAt(d, e, j)
      BY <1>6, <3>1, <3>2 DEF KeptAt
    <3> QED BY <1>1, <3>3, KeptResolved DEF Resolved
  <2>2. CASE j = i
    <3>1. \A k \in Of(e.rows, i) : V1Row(e, k)
      <4> TAKE k \in Of(e.rows, i)
      <4>1. k \in {i} \X DOMAIN ss /\ e.rows[k].category = "v1" /\ (e.rows[k].focus <=> i \in d.v1Focus)
        BY <1>4 DEF FreshV1
      <4>2. k[1] = i /\ k[2] \in DOMAIN ss
        BY <4>1
      <4> QED BY <1>6, <4>1, <4>2 DEF V1Row
    <3> QED BY <2>2, <3>1 DEF ResolvedAt, SticksAt
  <2> QED BY <2>1, <2>2
<1>11. Clocked(e, t, running \cup {i})
  <2>1. ASSUME NEW k \in DOMAIN e.rows, k[1] \notin V2
        PROVE  TimeSound(e.rows[k], t, k[1] \in running \cup {i})
    <3>1. CASE k[1] = i
      <4>1. TimeSound(e.rows[k], t, TRUE)
        BY <1>4, <3>1 DEF Of
      <4> QED BY <3>1, <4>1 DEF TimeSound
    <3>2. CASE k[1] # i
      <4>1. k \in DOMAIN d.rows /\ e.rows[k] = d.rows[k] /\ ((k[1] \in running \cup {i}) = (k[1] \in running))
        BY <1>4, <3>2
      <4>2. TimeSound(d.rows[k], t, k[1] \in running)
        BY <1>1, <2>1, <4>1 DEF Clocked
      <4> QED BY <4>1, <4>2
    <3> QED BY <3>1, <3>2
  <2> QED BY <1>4, <1>5, <2>1 DEF Clocked
<1>12. Turned(d.rows, e.rows, {i}, {}, t)
  <2> SUFFICES ASSUME NEW k \in DOMAIN e.rows
               PROVE  /\ IF k \in DOMAIN d.rows THEN StandsOn(d.rows[k], e.rows[k], k[1] \in {i})
                         ELSE ~IsDismissed(e.rows[k])
                      /\ k \in DOMAIN d.rows => Even(d.rows[k], e.rows[k], t)
    BY DEF Turned
  <2>1. CASE k[1] = i
    <3>1. FreshV1(d, i, ss, k, e.rows[k], t)
      BY <1>4, <2>1 DEF Of
    <3> QED BY <2>1, <3>1 DEF FreshV1, Stands, StandsOn
  <2>2. CASE k[1] # i
    <3>1. k \in DOMAIN d.rows /\ e.rows[k] = d.rows[k]
      BY <1>4, <2>2
    <3> QED BY <2>2, <3>1 DEF StandsOn, Even
  <2> QED BY <2>1, <2>2
<1>13. Outcome(d, e, mon, running \cup {i}, {i}, {}, t) /\ e.selected = d.selected
  BY <1>6, <1>8, <1>9, <1>10, <1>11, <1>12 DEF Outcome, Good, Resolved
<1> QED BY <1>13 DEF e

\* apply_projection, of a server of either protocol.
LEMMA ProjectOutcome ==
  ASSUME NEW d, NEW mon, NEW running, NEW t, Good(d, mon, running, t),
         NEW i \in Instances, mon[i] = "connected", NEW ss, Projected(ss)
  PROVE  LET e == ApplyProjection(d, i, ss, t)
         IN  Outcome(d, e, mon, running \cup {i}, {i}, {}, t) /\ e.selected = d.selected
<1>1. i \in d.v2 <=> i \in V2
  BY DEF Good, Follows
<1>2. CASE i \in V2
  <2>1. ApplyProjection(d, i, ss, t) = RebuildV2Rows(Held(d, i, ss, t), i, t)
    BY <1>1, <1>2 DEF ApplyProjection, Held
  <2> QED BY <1>2, <2>1, ProjectV2
<1>3. CASE i \notin V2
  <2>1. ApplyProjection(d, i, ss, t) = V1Projected(d, i, ss, t)
    BY <1>1, <1>3 DEF ApplyProjection, Held, V1Projected
  <2> QED BY <1>3, <2>1, ProjectV1
<1> QED BY <1>2, <1>3

-----------------------------------------------------------------------------
(* A sample.                                                               *)

\* What the sampler may find.
Sampling(s) ==
  /\ DOMAIN s.tuis = Instances /\ s.v1Focus \subseteq Instances \ V2
  /\ \A i \in Instances : DOMAIN s.tuis[i] \subseteq Tuis

\* A dashboard that has got a sample, and not yet the rows of the v2 servers.
Sampled(d, s) ==
  [d EXCEPT !.v1Focus = s.v1Focus, !.attachments = s.tuis,
            !.sticky = [i \in Instances |-> Keep(@[i], DOMAIN s.tuis[i])],
            !.rows = [k \in DOMAIN @ |->
                        IF @[k].category = "v1"
                        THEN [@[k] EXCEPT !.focus = k[1] \in s.v1Focus] ELSE @[k]]]

\* A row of a v1 server is the same but for what can be focused.
Refocused(row, n, focus) ==
  /\ RowTyped(n) /\ n.category = row.category /\ (n.focus <=> focus)
  /\ n.stale = row.stale
  /\ \A t : TimeSound(row, t, TRUE) => TimeSound(n, t, TRUE)
  /\ \A t : TimeSound(row, t, FALSE) => TimeSound(n, t, FALSE)
  /\ StandsOn(row, n, FALSE) /\ \A t : Even(row, n, t)

IsSampled(d, s, q) ==
  /\ DOMAIN q = Fields
  /\ \A f \in Fields \ {"v1Focus", "attachments", "sticky", "rows"} : q[f] = d[f]
  /\ q.v1Focus = s.v1Focus /\ q.attachments = s.tuis
  /\ DOMAIN q.sticky = Instances
  /\ \A i \in Instances : IsPart(q.sticky[i], d.sticky[i], DOMAIN d.sticky[i] \cap DOMAIN s.tuis[i])
  /\ DOMAIN q.rows = DOMAIN d.rows
  /\ \A k \in DOMAIN d.rows : IF d.rows[k].category = "v1"
                              THEN Refocused(d.rows[k], q.rows[k], k[1] \in s.v1Focus)
                              ELSE q.rows[k] = d.rows[k]

\* A sample changes no more of a v1 row than whether it can be focused.
LEMMA RefocusedFacts ==
  ASSUME NEW row, RowTyped(row), NEW focus
  PROVE  Refocused(row, [row EXCEPT !.focus = focus], focus)
<1> DEFINE n == [row EXCEPT !.focus = focus]
<1>1. /\ DOMAIN n = RowFields /\ n.focus = focus
      /\ \A f \in RowFields \ {"focus"} : n[f] = row[f]
  BY DEF RowTyped, RowFields
<1> HIDE DEF n
<1>2. /\ n.busy = row.busy /\ n.background = row.background /\ n.questions = row.questions
      /\ n.permissions = row.permissions /\ n.generation = row.generation /\ n.stale = row.stale
      /\ n.lastNonBusy = row.lastNonBusy /\ n.firstBusy = row.firstBusy /\ n.frozen = row.frozen
      /\ n.dismissed = row.dismissed /\ n.category = row.category
  BY <1>1 DEF RowFields
<1>3. RowTyped(n)
  BY <1>1, <1>2 DEF RowTyped
<1>4. Occurrence(n) = Occurrence(row) /\ Baseline(n) = Baseline(row)
  BY <1>2, OccurrenceReads DEF Baseline
<1>5. StandsOn(row, n, FALSE)
  BY <1>2, <1>4, SameStands
<1>6. \A t : Elapsed(n, t) = Elapsed(row, t)
  BY <1>2, <1>4 DEF Elapsed
<1>7. \A t : Even(row, n, t)
  BY <1>6 DEF Even
<1>8. \A t : Timed(row, t) => Timed(n, t)
  BY <1>2, <1>4 DEF Timed
<1>9. \A t : TimeSound(row, t, TRUE) => TimeSound(n, t, TRUE)
  BY <1>2, <1>8 DEF TimeSound
<1>10. \A t : TimeSound(row, t, FALSE) => TimeSound(n, t, FALSE)
  BY <1>2, <1>8 DEF TimeSound
<1>11. Refocused(row, n, focus)
  BY <1>1, <1>2, <1>3, <1>5, <1>7, <1>9, <1>10 DEF Refocused
<1> QED BY <1>11 DEF n

\* What a sample changes before the v2 rows are rebuilt.
LEMMA SampledFacts ==
  ASSUME NEW d, Formed(d), NEW s, Sampling(s)
  PROVE  IsSampled(d, s, Sampled(d, s))
<1> DEFINE q == Sampled(d, s)
           kept == [i \in Instances |-> Keep(d.sticky[i], DOMAIN s.tuis[i])]
           rows == [k \in DOMAIN d.rows |->
                      IF d.rows[k].category = "v1"
                      THEN [d.rows[k] EXCEPT !.focus = k[1] \in s.v1Focus] ELSE d.rows[k]]
<1>1. DOMAIN d = Fields
  BY DEF Formed
<1>2. q = [d EXCEPT !.v1Focus = s.v1Focus, !.attachments = s.tuis, !.sticky = kept, !.rows = rows]
  BY <1>1 DEF Sampled, Fields
<1>3. /\ DOMAIN kept = Instances
      /\ \A i \in Instances : kept[i] = Keep(d.sticky[i], DOMAIN s.tuis[i])
  OBVIOUS
<1>4. /\ DOMAIN rows = DOMAIN d.rows
      /\ \A k \in DOMAIN d.rows :
           rows[k] = IF d.rows[k].category = "v1"
                     THEN [d.rows[k] EXCEPT !.focus = k[1] \in s.v1Focus] ELSE d.rows[k]
  OBVIOUS
<1> HIDE DEF kept, rows, q
<1>5. /\ DOMAIN q = Fields
      /\ \A f \in Fields \ {"v1Focus", "attachments", "sticky", "rows"} : q[f] = d[f]
      /\ q.v1Focus = s.v1Focus /\ q.attachments = s.tuis /\ q.sticky = kept /\ q.rows = rows
  BY <1>1, <1>2 DEF Fields
<1>6. \A i \in Instances : IsPart(kept[i], d.sticky[i], DOMAIN d.sticky[i] \cap DOMAIN s.tuis[i])
  <2>1. \A f, keys : IsPart(Keep(f, keys), f, DOMAIN f \cap keys)
    BY DropFacts
  <2> QED BY <1>3, <2>1
<1>7. ASSUME NEW k \in DOMAIN d.rows
      PROVE  IF d.rows[k].category = "v1"
             THEN Refocused(d.rows[k], rows[k], k[1] \in s.v1Focus) ELSE rows[k] = d.rows[k]
  <2>1. CASE d.rows[k].category = "v1"
    <3> DEFINE row == d.rows[k]
               f == k[1] \in s.v1Focus
    <3>1. RowTyped(row) /\ rows[k] = [row EXCEPT !.focus = f]
      BY <1>4, <2>1 DEF Formed, RowTyped
    <3> HIDE DEF row, f
    <3>2. Refocused(row, rows[k], f)
      BY <3>1, RefocusedFacts
    <3> QED BY <2>1, <3>2 DEF row, f
  <2>2. CASE d.rows[k].category # "v1"
    BY <1>4, <2>2
  <2> QED BY <2>1, <2>2
<1>8. IsSampled(d, s, q)
  BY <1>3, <1>4, <1>5, <1>6, <1>7 DEF IsSampled
<1> QED BY <1>8 DEF q

\* Each v2 server has what its own rebuild makes of it.
IsRebuilt(q, e, t) ==
  LET managed == DOMAIN q.projections \cap q.v2
  IN  /\ DOMAIN e = Fields
      /\ \A f \in Fields \ {"rows", "sticky"} : e[f] = q[f]
      /\ DOMAIN e.sticky = Instances
      /\ \A i \in Instances \ managed : e.sticky[i] = q.sticky[i]
      /\ \A i \in Instances \cap managed : e.sticky[i] = RebuildV2Rows(q, i, t).sticky[i]
      /\ \A k : k[1] \notin managed => /\ k \in DOMAIN e.rows <=> k \in DOMAIN q.rows
                                       /\ k \in DOMAIN q.rows => e.rows[k] = q.rows[k]
      /\ \A k : k[1] \in managed =>
           /\ k \in DOMAIN e.rows <=> k \in DOMAIN RebuildV2Rows(q, k[1], t).rows
           /\ k \in DOMAIN e.rows => e.rows[k] = RebuildV2Rows(q, k[1], t).rows[k]

\* RebuildAll gives each v2 server the rows of its own rebuild, and no other.
LEMMA RebuildAllFacts ==
  ASSUME NEW q, DOMAIN q = Fields, DOMAIN q.sticky = Instances, NEW t
  PROVE  IsRebuilt(q, RebuildAll(q, t), t)
<1> DEFINE managed == DOMAIN q.projections \cap q.v2
           built == {[of |-> i, model |-> RebuildV2Rows(q, i, t)] : i \in managed}
           Model(i) == (CHOOSE b \in built : b.of = i).model
           gone == {k \in DOMAIN q.rows : k[1] \in managed}
           new == [k \in UNION {Of(Model(i).rows, i) : i \in managed} |-> Model(k[1]).rows[k]]
           sticky == [i \in Instances |-> IF i \in managed THEN Model(i).sticky[i] ELSE q.sticky[i]]
           e == RebuildAll(q, t)
<1>1. e = [q EXCEPT !.rows = Put(Drop(q.rows, gone), new), !.sticky = sticky]
  BY DEF RebuildAll, Fields
<1>2. \A i \in managed : Model(i) = RebuildV2Rows(q, i, t)
  <2> TAKE i \in managed
  <2> DEFINE M(j) == RebuildV2Rows(q, j, t)
             c == CHOOSE b \in built : b.of = i
  <2>1. built = {[of |-> j, model |-> M(j)] : j \in managed}
    OBVIOUS
  <2> HIDE DEF M, built, managed
  <2>2. \E b \in built : b.of = i
    <3> DEFINE b == [of |-> i, model |-> M(i)]
    <3>1. b \in built /\ b.of = i
      BY <2>1
    <3> HIDE DEF b
    <3> QED BY <3>1
  <2>3. c \in built /\ c.of = i
    BY <2>2
  <2> HIDE DEF c
  <2>4. c.model = M(i)
    BY <2>1, <2>3
  <2> QED BY <2>4 DEF c, M
<1> HIDE DEF Model
<1>3. /\ DOMAIN new = UNION {Of(Model(i).rows, i) : i \in managed}
      /\ \A k \in DOMAIN new : new[k] = Model(k[1]).rows[k]
  OBVIOUS
<1>4. /\ DOMAIN sticky = Instances
      /\ \A i \in Instances \ managed : sticky[i] = q.sticky[i]
      /\ \A i \in Instances \cap managed : sticky[i] = RebuildV2Rows(q, i, t).sticky[i]
  BY <1>2
<1> HIDE DEF e, new, sticky, gone
<1>5. /\ DOMAIN e = Fields /\ \A f \in Fields \ {"rows", "sticky"} : e[f] = q[f]
      /\ e.rows = Put(Drop(q.rows, gone), new) /\ e.sticky = sticky
  BY <1>1 DEF Fields
<1>6. IsPut(e.rows, Drop(q.rows, gone), new) /\ IsPart(Drop(q.rows, gone), q.rows, DOMAIN q.rows \ gone)
  BY <1>5, PutFacts, DropFacts
<1>7. /\ DOMAIN e.rows = (DOMAIN q.rows \ gone) \cup DOMAIN new
      /\ \A k \in DOMAIN new : e.rows[k] = new[k]
      /\ \A k \in DOMAIN q.rows \ gone : k \notin DOMAIN new => e.rows[k] = q.rows[k]
  BY <1>6 DEF IsPut, IsPart
<1>8. \A k : k \in gone <=> k \in DOMAIN q.rows /\ k[1] \in managed
  BY DEF gone
<1> HIDE DEF managed
<1>9. \A k : k \in DOMAIN new <=> k[1] \in managed /\ k \in DOMAIN Model(k[1]).rows
  BY <1>3 DEF Of
<1>10. ASSUME NEW k, k[1] \notin managed
       PROVE  /\ k \in DOMAIN e.rows <=> k \in DOMAIN q.rows
              /\ k \in DOMAIN q.rows => e.rows[k] = q.rows[k]
  BY <1>7, <1>8, <1>9, <1>10
<1>11. ASSUME NEW k, k[1] \in managed
       PROVE  /\ k \in DOMAIN e.rows <=> k \in DOMAIN RebuildV2Rows(q, k[1], t).rows
              /\ k \in DOMAIN e.rows => e.rows[k] = RebuildV2Rows(q, k[1], t).rows[k]
  <2>1. Model(k[1]) = RebuildV2Rows(q, k[1], t)
    BY <1>2, <1>11
  <2>2. k \in DOMAIN e.rows <=> k \in DOMAIN new
    BY <1>7, <1>8, <1>11
  <2>3. k \in DOMAIN new <=> k \in DOMAIN Model(k[1]).rows
    BY <1>9, <1>11
  <2>4. k \in DOMAIN new => e.rows[k] = Model(k[1]).rows[k]
    BY <1>3, <1>7
  <2> QED BY <2>1, <2>2, <2>3, <2>4
<1>12. IsRebuilt(q, e, t)
  BY <1>4, <1>5, <1>10, <1>11 DEF IsRebuilt, managed
<1> QED BY <1>12 DEF e

\* apply_attachments: a sample of the terminals, however late it comes.
LEMMA SampleOutcome ==
  ASSUME NEW d, NEW mon, NEW running, NEW t, Good(d, mon, running, t), NEW s, Sampling(s)
  PROVE  LET e == RebuildAll(Sampled(d, s), t)
         IN  Outcome(d, e, mon, running, d.v2, {}, t) /\ e.selected = d.selected
<1> DEFINE q == Sampled(d, s)
           e == RebuildAll(q, t)
           managed == DOMAIN q.projections \cap q.v2
           M(i) == RebuildV2Rows(q, i, t)
<1>1. Formed(d) /\ Follows(d, mon) /\ Resolved(d) /\ Clocked(d, t, running)
  BY DEF Good
<1>2. IsSampled(d, s, q)
  BY <1>1, SampledFacts
<1> HIDE DEF q
<1>3. /\ q.projections = d.projections /\ q.endpoints = d.endpoints /\ q.v2 = d.v2
      /\ q.connected = d.connected /\ q.lastNonBusy = d.lastNonBusy
      /\ q.pendingReady = d.pendingReady /\ q.selected = d.selected
      /\ q.v1Focus = s.v1Focus /\ q.attachments = s.tuis /\ DOMAIN q.rows = DOMAIN d.rows
  BY <1>2 DEF IsSampled, Fields
<1>4. DOMAIN q = Fields /\ DOMAIN q.sticky = Instances
  BY <1>2 DEF IsSampled
<1>5. IsRebuilt(q, e, t)
  BY <1>4, RebuildAllFacts
<1> HIDE DEF e
<1>6. /\ DOMAIN e = Fields
      /\ e.projections = d.projections /\ e.endpoints = d.endpoints /\ e.v2 = d.v2
      /\ e.connected = d.connected /\ e.lastNonBusy = d.lastNonBusy
      /\ e.pendingReady = d.pendingReady /\ e.selected = d.selected
      /\ e.v1Focus = s.v1Focus /\ e.attachments = s.tuis /\ DOMAIN e.sticky = Instances
  BY <1>3, <1>5 DEF IsRebuilt, Fields
<1>7. /\ \A i \in Instances \ managed : e.sticky[i] = q.sticky[i]
      /\ \A i \in Instances \cap managed : e.sticky[i] = M(i).sticky[i]
      /\ \A k : k[1] \notin managed => /\ k \in DOMAIN e.rows <=> k \in DOMAIN q.rows
                                       /\ k \in DOMAIN q.rows => e.rows[k] = q.rows[k]
      /\ \A k : k[1] \in managed => /\ k \in DOMAIN e.rows <=> k \in DOMAIN M(k[1]).rows
                                    /\ k \in DOMAIN e.rows => e.rows[k] = M(k[1]).rows[k]
  BY <1>5 DEF IsRebuilt
<1>8. \A i : i \in managed <=> i \in DOMAIN d.projections /\ i \in V2
  BY <1>1, <1>3 DEF Follows, Formed
<1>9. \A i \in managed : i \in Instances
  BY <1>1, <1>8 DEF Formed
<1> HIDE DEF managed
\* The rows of the v2 servers are as they were, and can be rebuilt.
<1>10. ASSUME NEW k \in DOMAIN d.rows, k[1] \in V2 PROVE q.rows[k] = d.rows[k] /\ V2Row(d, k)
  <2>1. V2Row(d, k)
    BY <1>1, <1>10 DEF Resolved, ResolvedAt, Of, Formed
  <2>2. d.rows[k].category # "v1"
    BY <2>1 DEF V2Row
  <2> QED BY <1>2, <2>1, <2>2 DEF IsSampled
<1>11. ASSUME NEW k \in DOMAIN d.rows, k[1] \notin V2
       PROVE  Refocused(d.rows[k], q.rows[k], k[1] \in s.v1Focus) /\ V1Row(d, k)
  <2>1. V1Row(d, k)
    BY <1>1, <1>11 DEF Resolved, ResolvedAt, Of, Formed
  <2>2. d.rows[k].category = "v1"
    BY <2>1 DEF V1Row
  <2> QED BY <1>2, <2>1, <2>2 DEF IsSampled
<1>12. \A k \in DOMAIN d.rows : RowTyped(q.rows[k])
  BY <1>1, <1>10, <1>11 DEF Formed, RowTyped, Refocused
<1>13. \A i \in Instances : Paired(q.sticky[i], q.attachments[i]) /\ DOMAIN q.attachments[i] \subseteq Tuis
  <2> TAKE i \in Instances
  <2>1. IsPart(q.sticky[i], d.sticky[i], DOMAIN d.sticky[i] \cap DOMAIN s.tuis[i])
    BY <1>2 DEF IsSampled
  <2>2. Paired(d.sticky[i], d.attachments[i])
    BY <1>1 DEF Formed
  <2>3. Paired(q.sticky[i], s.tuis[i])
    BY <2>1, <2>2 DEF Paired, IsPart
  <2> QED BY <1>3, <2>3 DEF Sampling
<1>14. ASSUME NEW i \in managed PROVE Replaced(q, i, M(i)) /\ RebuiltAt(q, i, M(i))
  <2>1. Rebuildable(q, i, t)
    <3>1. i \in Instances /\ i \in V2 /\ i \in DOMAIN q.projections /\ Projected(q.projections[i])
      BY <1>1, <1>3, <1>8, <1>9 DEF Formed
    <3>2. DOMAIN q.attachments = Instances
      BY <1>3 DEF Sampling
    <3>3. \A k \in Of(q.rows, i) : k[2] \in Sessions => q.rows[k].category \notin Loose
      <4> SUFFICES ASSUME NEW k \in Of(q.rows, i), k[2] \in Sessions
                   PROVE  q.rows[k].category \notin Loose
        OBVIOUS
      <4>1. k \in DOMAIN d.rows /\ k[1] = i /\ k[2] \notin Tuis /\ DOMAIN d.attachments[i] \subseteq Tuis
        BY <1>1, <1>3, <3>1, ModelAssumption DEF Of, Formed
      <4>2. q.rows[k] = d.rows[k] /\ V2Row(d, k)
        BY <1>10, <3>1, <4>1
      <4> QED BY <4>1, <4>2 DEF V2Row, Loose
    <3>4. \A k \in DOMAIN q.rows : k \in Instances \X (Sessions \cup Tuis) /\ RowTyped(q.rows[k])
      BY <1>1, <1>3, <1>12 DEF Formed
    <3>5. t \in Nat /\ \A k \in DOMAIN q.lastNonBusy : q.lastNonBusy[k] \in 0 .. t
      BY <1>1, <1>3 DEF Clocked
    <3> QED BY <1>4, <1>13, <3>1, <3>2, <3>3, <3>4, <3>5 DEF Rebuildable
  <2> QED BY <2>1, RebuildFacts
<1> HIDE DEF M
<1>15. ASSUME NEW i \in managed, NEW k, k[1] = i
       PROVE  /\ k \in DOMAIN e.rows <=> k \in DOMAIN M(i).rows
              /\ k \in DOMAIN e.rows => e.rows[k] = M(i).rows[k]
  BY <1>7, <1>15
<1>16. ASSUME NEW k \in DOMAIN e.rows, k[1] \in managed
       PROVE  /\ k \in Instances \X (Sessions \cup Tuis) /\ RowTyped(e.rows[k])
              /\ Stands(d.rows, k, e.rows[k])
  <2>1. k \in Of(M(k[1]).rows, k[1]) /\ e.rows[k] = M(k[1]).rows[k]
    BY <1>7, <1>16 DEF Of
  <2>2. k \in Instances \X (Sessions \cup Tuis) /\ RowTyped(e.rows[k]) /\ Stands(q.rows, k, e.rows[k])
    BY <1>14, <1>16, <2>1 DEF RebuiltAt
  <2>3. k \in DOMAIN d.rows => q.rows[k] = d.rows[k]
    BY <1>8, <1>10, <1>16
  <2> QED BY <1>3, <2>2, <2>3 DEF Stands
\* Nobody else has rows but the v1 servers.
<1>17. ASSUME NEW k \in DOMAIN e.rows, k[1] \notin managed
       PROVE  /\ k \in DOMAIN d.rows /\ k[1] \notin V2 /\ V1Row(d, k)
              /\ Refocused(d.rows[k], e.rows[k], k[1] \in s.v1Focus)
  <2>1. k \in DOMAIN d.rows /\ e.rows[k] = q.rows[k]
    BY <1>3, <1>7, <1>17
  <2>2. k[1] \notin V2
    BY <1>1, <1>8, <1>17, <2>1 DEF Formed
  <2> QED BY <1>11, <2>1, <2>2
<1>18. Formed(e)
  <2>1. \A k \in DOMAIN e.rows : /\ k \in Instances \X (Sessions \cup Tuis)
                                 /\ RowTyped(e.rows[k]) /\ k[1] \in DOMAIN e.projections
    <3> TAKE k \in DOMAIN e.rows
    <3>1. CASE k[1] \in managed
      BY <1>6, <1>8, <1>16, <3>1
    <3>2. CASE k[1] \notin managed
      BY <1>1, <1>6, <1>17, <3>2 DEF Formed, Refocused
    <3> QED BY <3>1, <3>2
  <2>2. \A i \in Instances : DOMAIN e.attachments[i] \subseteq Tuis /\ Paired(e.sticky[i], e.attachments[i])
    <3> TAKE i \in Instances
    <3>1. DOMAIN e.attachments[i] \subseteq Tuis /\ e.attachments = q.attachments
      BY <1>3, <1>6, <1>13
    <3>2. CASE i \in managed
      <4>1. Paired(M(i).sticky[i], M(i).attachments[i]) /\ M(i).attachments = q.attachments
        BY <1>14, <3>2 DEF RebuiltAt, Replaced, Fields
      <4> QED BY <1>7, <3>1, <3>2, <4>1
    <3>3. CASE i \notin managed
      BY <1>7, <1>13, <3>1, <3>3
    <3> QED BY <3>2, <3>3
  <2>3. DOMAIN e.attachments = Instances /\ DOMAIN e.sticky = Instances
    BY <1>6 DEF Sampling
  <2>4. \A k \in e.pendingReady :
          /\ k \in Instances \X Sessions /\ k[1] \notin V2
          /\ k[1] \in DOMAIN e.projections => k[2] \notin DOMAIN e.projections[k[1]]
    BY <1>1, <1>6 DEF Formed
  <2>5. \A i \in DOMAIN e.projections : i \in Instances /\ Projected(e.projections[i])
    BY <1>1, <1>6 DEF Formed
  <2> QED BY <1>6, <2>1, <2>2, <2>3, <2>4, <2>5 DEF Formed, RowTyped
<1>19. Follows(e, mon)
  BY <1>1, <1>6 DEF Follows
<1>20. ASSUME NEW i \in managed PROVE ResolvedAt(e, i) /\ SticksAt(d, e, i)
  <2>1. KeptAt(M(i), e, i)
    <3>1. Of(e.rows, i) = Of(M(i).rows, i) /\ \A k \in Of(e.rows, i) : e.rows[k] = M(i).rows[k]
      BY <1>15 DEF Of
    <3>2. /\ M(i).projections = q.projections /\ M(i).attachments = q.attachments
          /\ M(i).v1Focus = q.v1Focus
      BY <1>14 DEF Replaced, Fields
    <3>3. e.sticky[i] = M(i).sticky[i]
      BY <1>7, <1>9
    <3> QED BY <1>3, <1>6, <3>1, <3>2, <3>3 DEF KeptAt
  <2>2. ResolvedAt(M(i), i)
    BY <1>8, <1>14 DEF ResolvedAt, RebuiltAt
  <2>3. ResolvedAt(e, i)
    BY <2>1, <2>2, KeptResolved
  <2> DEFINE ss == d.projections[i]
  <2>4. SticksAt(d, e, i)
    <3> SUFFICES ASSUME NEW k \in Of(d.rows, i), d.rows[k].category = "attached",
                        d.rows[k].tui \in DOMAIN s.tuis[i], k[2] \in Roots(ss),
                        d.rows[k].tui \notin Misdirected(ss, s.tuis[i]),
                        \A c \in ExplicitClaims(ss, s.tuis[i]) :
                          c[1] = d.rows[k].tui <=> c[2] = k[2]
                 PROVE  k \in DOMAIN e.rows /\ e.rows[k].tui = d.rows[k].tui
      BY <1>6 DEF SticksAt
    <3> DEFINE x == d.rows[k].tui
    <3>1. k[1] = i /\ k = <<i, k[2]>> /\ k \in DOMAIN d.rows /\ i \in V2 /\ i \in Instances
      BY <1>1, <1>8, <1>9 DEF Of, Formed
    <3>2. x \in DOMAIN d.sticky[i] /\ d.sticky[i][x] = k[2]
      BY <1>10, <3>1 DEF V2Row
    <3>3. x \in DOMAIN q.sticky[i] /\ q.sticky[i][x] = k[2]
      BY <1>2, <3>1, <3>2 DEF IsSampled, IsPart
    <3> HIDE DEF x
    <3>4. /\ x \notin Misdirected(q.projections[i], q.attachments[i])
          /\ \A c \in ExplicitClaims(q.projections[i], q.attachments[i]) : c[1] = x <=> c[2] = k[2]
          /\ k[2] \in Roots(q.projections[i])
      BY <1>3 DEF x
    <3> DEFINE y == q.sticky[i][x]
    <3>8. y = k[2]
      BY <3>3
    <3> HIDE DEF y
    <3>9. /\ y \in Roots(q.projections[i]) /\ x \notin Misdirected(q.projections[i], q.attachments[i])
          /\ \A c \in ExplicitClaims(q.projections[i], q.attachments[i]) : c[1] = x <=> c[2] = y
      BY <3>4, <3>8
    <3>10. <<i, y>> \in DOMAIN M(i).rows /\ M(i).rows[<<i, y>>].tui = x
      BY <1>14, <3>3, <3>9 DEF RebuiltAt, y
    <3>5. <<i, k[2]>> \in DOMAIN M(i).rows /\ M(i).rows[<<i, k[2]>>].tui = x
      BY <3>8, <3>10
    <3>6. k \in DOMAIN M(i).rows /\ M(i).rows[k].tui = x
      BY <3>1, <3>5
    <3>7. k \in DOMAIN e.rows /\ e.rows[k].tui = x
      BY <1>15, <3>1, <3>6
    <3> QED BY <3>7 DEF x
  <2> QED BY <2>3, <2>4
<1>21. ASSUME NEW i \in Instances, i \notin managed PROVE ResolvedAt(e, i) /\ SticksAt(d, e, i)
  <2>1. ~(i \in V2 /\ i \in DOMAIN e.projections)
    BY <1>6, <1>8, <1>21
  <2>2. ASSUME NEW k \in Of(e.rows, i) PROVE i \notin V2 /\ V1Row(e, k)
    <3>1. /\ k[1] = i /\ k \in DOMAIN d.rows /\ k[1] \notin V2 /\ V1Row(d, k)
          /\ Refocused(d.rows[k], e.rows[k], k[1] \in s.v1Focus)
      BY <1>17, <1>21 DEF Of
    <3> QED BY <1>6, <3>1 DEF V1Row, Refocused
  <2> QED BY <2>1, <2>2 DEF ResolvedAt, SticksAt
<1>22. Clocked(e, t, running)
  <2>1. ASSUME NEW k \in DOMAIN e.rows, k[1] \notin V2
        PROVE  TimeSound(e.rows[k], t, k[1] \in running)
    <3>1. k \in DOMAIN d.rows /\ Refocused(d.rows[k], e.rows[k], k[1] \in s.v1Focus)
      BY <1>8, <1>17, <2>1
    <3>2. TimeSound(d.rows[k], t, k[1] \in running)
      BY <1>1, <2>1, <3>1 DEF Clocked
    <3>3. CASE k[1] \in running
      <4>1. (k[1] \in running) = TRUE
        BY <3>3
      <4> QED BY <3>1, <3>2, <4>1 DEF Refocused
    <3>4. CASE k[1] \notin running
      <4>1. (k[1] \in running) = FALSE
        BY <3>4
      <4> QED BY <3>1, <3>2, <4>1 DEF Refocused
    <3> QED BY <3>3, <3>4
  <2> QED BY <1>1, <1>6, <2>1 DEF Clocked
<1>23. Turned(d.rows, e.rows, d.v2, {}, t)
  <2> SUFFICES ASSUME NEW k \in DOMAIN e.rows
               PROVE  /\ IF k \in DOMAIN d.rows THEN StandsOn(d.rows[k], e.rows[k], k[1] \in d.v2)
                         ELSE ~IsDismissed(e.rows[k])
                      /\ k \in DOMAIN d.rows /\ k[1] \notin V2 => Even(d.rows[k], e.rows[k], t)
    BY DEF Turned
  <2>1. CASE k[1] \in managed
    <3>1. Stands(d.rows, k, e.rows[k]) /\ k[1] \in V2 /\ k[1] \in d.v2
      BY <1>1, <1>8, <1>16, <2>1 DEF Follows
    <3> QED BY <3>1 DEF Stands, StandsOn
  <2>2. CASE k[1] \notin managed
    <3>1. k \in DOMAIN d.rows /\ Refocused(d.rows[k], e.rows[k], k[1] \in s.v1Focus) /\ k[1] \notin d.v2
      BY <1>1, <1>17, <2>2 DEF Follows
    <3>2. StandsOn(d.rows[k], e.rows[k], FALSE) /\ Even(d.rows[k], e.rows[k], t)
      BY <3>1 DEF Refocused
    <3> QED BY <3>1, <3>2 DEF StandsOn
  <2> QED BY <2>1, <2>2
<1>24. Outcome(d, e, mon, running, d.v2, {}, t) /\ e.selected = d.selected
  BY <1>6, <1>18, <1>19, <1>20, <1>21, <1>22, <1>23 DEF Outcome, Good, Resolved
<1> QED BY <1>24 DEF e, q

-----------------------------------------------------------------------------
(* Dismissals.                                                             *)

\* What is dismissed of rows.
Dismissed(rows) == {<<k, Occurrence(rows[k])>> : k \in {k \in DOMAIN rows : IsDismissed(rows[k])}}

\* What it is to be dismissed.
LEMMA DismissedIs ==
  ASSUME NEW rows, NEW p
  PROVE  p \in Dismissed(rows) <=>
           \E k \in DOMAIN rows : IsDismissed(rows[k]) /\ p = <<k, Occurrence(rows[k])>>
BY DEF Dismissed

\* The dismissals that stand are those the rows show.
LEMMA StandingTurned ==
  ASSUME NEW rows, NEW e, NEW updated, NEW t, Turned(rows, e.rows, updated, {}, t)
  PROVE  Standing(e, updated, Dismissed(rows)) = Dismissed(e.rows)
<1> DEFINE next == e.rows
<1>0. \A k \in DOMAIN next : IF k \in DOMAIN rows THEN StandsOn(rows[k], next[k], k[1] \in updated)
                             ELSE ~IsDismissed(next[k])
  BY DEF Turned
<1>1. ASSUME NEW p \in Standing(e, updated, Dismissed(rows)) PROVE p \in Dismissed(next)
  <2>1. /\ p \in Dismissed(rows) /\ p[1] \in DOMAIN next /\ Occurrence(next[p[1]]) = p[2]
        /\ p[1][1] \in updated => ~next[p[1]].busy
    BY <1>1 DEF Standing
  <2>2. PICK k \in DOMAIN rows : IsDismissed(rows[k]) /\ p = <<k, Occurrence(rows[k])>>
    BY <2>1, DismissedIs
  <2>3. /\ k \in DOMAIN next /\ Occurrence(next[k]) = Occurrence(rows[k])
        /\ k[1] \in updated => ~next[k].busy
    BY <2>1, <2>2
  <2>4. IsDismissed(next[k]) /\ p = <<k, Occurrence(next[k])>>
    BY <1>0, <2>2, <2>3 DEF StandsOn
  <2> QED BY <2>3, <2>4, DismissedIs
<1>2. ASSUME NEW p \in Dismissed(next) PROVE p \in Standing(e, updated, Dismissed(rows))
  <2>1. PICK k \in DOMAIN next : IsDismissed(next[k]) /\ p = <<k, Occurrence(next[k])>>
    BY <1>2, DismissedIs
  <2>2. /\ k \in DOMAIN rows /\ IsDismissed(rows[k]) /\ Occurrence(next[k]) = Occurrence(rows[k])
        /\ k[1] \in updated => ~next[k].busy
    BY <1>0, <2>1 DEF StandsOn
  <2>3. p \in Dismissed(rows)
    BY <2>1, <2>2, DismissedIs
  <2> QED BY <2>1, <2>2, <2>3 DEF Standing
<1> QED BY <1>1, <1>2 DEF Standing

\* Another dismissal of a row is the user's, and moves nothing.
LEMMA Marked ==
  ASSUME NEW d, NEW mon, NEW running, NEW t, Good(d, mon, running, t), Chosen(d),
         NEW key \in DOMAIN d.rows, NEW x
  PROVE  LET e == [d EXCEPT !.rows[key].dismissed = x]
         IN  /\ Good(e, mon, running, t) /\ Chosen(e) /\ SelectedKey(e) = SelectedKey(d)
             /\ \A i \in Instances : SticksAt(d, e, i)
             /\ DOMAIN e.rows = DOMAIN d.rows
             /\ \A k \in DOMAIN d.rows : /\ Occurrence(e.rows[k]) = Occurrence(d.rows[k])
                                         /\ e.rows[k].dismissed = IF k = key THEN x ELSE d.rows[k].dismissed
                                         /\ Even(d.rows[k], e.rows[k], t)
<1> DEFINE e == [d EXCEPT !.rows[key].dismissed = x]
           marked == [d.rows[key] EXCEPT !.dismissed = x]
<1>1. Formed(d) /\ Follows(d, mon) /\ Resolved(d) /\ Clocked(d, t, running) /\ DOMAIN d = Fields
  BY DEF Good, Formed
<1>2. e = [d EXCEPT !.rows = [d.rows EXCEPT ![key] = marked]]
  BY <1>1 DEF Fields
<1>3. DOMAIN d.rows[key] = RowFields
  BY <1>1 DEF Formed
<1>4. DOMAIN marked = RowFields /\ marked.dismissed = x /\ \A f \in RowFields \ {"dismissed"} : marked[f] = d.rows[key][f]
  BY <1>3 DEF RowFields
<1> HIDE DEF e, marked
<1>5. /\ DOMAIN e = Fields /\ e.rows = [d.rows EXCEPT ![key] = marked]
      /\ e.projections = d.projections /\ e.attachments = d.attachments
      /\ e.v1Focus = d.v1Focus /\ e.sticky = d.sticky /\ e.endpoints = d.endpoints /\ e.v2 = d.v2
      /\ e.connected = d.connected /\ e.lastNonBusy = d.lastNonBusy /\ e.pendingReady = d.pendingReady
      /\ e.selected = d.selected
  BY <1>1, <1>2 DEF Fields
<1>6. DOMAIN e.rows = DOMAIN d.rows /\ \A k \in DOMAIN d.rows : e.rows[k] = IF k = key THEN marked ELSE d.rows[k]
  BY <1>5
<1>7. \A k \in DOMAIN d.rows :
        /\ e.rows[k].busy = d.rows[k].busy /\ e.rows[k].background = d.rows[k].background
        /\ e.rows[k].questions = d.rows[k].questions /\ e.rows[k].permissions = d.rows[k].permissions
        /\ e.rows[k].generation = d.rows[k].generation /\ e.rows[k].stale = d.rows[k].stale
        /\ e.rows[k].lastNonBusy = d.rows[k].lastNonBusy /\ e.rows[k].firstBusy = d.rows[k].firstBusy
        /\ e.rows[k].frozen = d.rows[k].frozen /\ e.rows[k].category = d.rows[k].category
        /\ e.rows[k].tui = d.rows[k].tui /\ e.rows[k].focus = d.rows[k].focus
        /\ e.rows[k].attachmentStale = d.rows[k].attachmentStale
        /\ e.rows[k].dismissed = IF k = key THEN x ELSE d.rows[k].dismissed
        /\ DOMAIN e.rows[k] = DOMAIN d.rows[k]
  BY <1>3, <1>4, <1>6 DEF RowFields
<1>8. Formed(e)
  BY <1>1, <1>5, <1>6, <1>7 DEF Formed
<1>9. Follows(e, mon)
  BY <1>1, <1>5 DEF Follows
<1>10. \A i \in Instances : KeptAt(d, e, i)
  BY <1>5, <1>6, <1>7 DEF KeptAt, Of
<1>11. Resolved(e) /\ \A i \in Instances : SticksAt(d, e, i)
  BY <1>1, <1>10, AllKept
<1>12. \A k \in DOMAIN d.rows : Baseline(e.rows[k]) = Baseline(d.rows[k])
  BY <1>7 DEF Baseline
<1>13. \A k \in DOMAIN d.rows : Even(d.rows[k], e.rows[k], t)
  BY <1>7, <1>12 DEF Even, Elapsed
<1>14. \A k \in DOMAIN d.rows : Occurrence(e.rows[k]) = Occurrence(d.rows[k])
  BY <1>7, OccurrenceReads
<1>15. Clocked(e, t, running)
  <2>1. ASSUME NEW k \in DOMAIN e.rows, k[1] \notin V2
        PROVE  TimeSound(e.rows[k], t, k[1] \in running)
    <3>1. TimeSound(d.rows[k], t, k[1] \in running) /\ k \in DOMAIN d.rows
      BY <1>1, <1>6, <2>1 DEF Clocked
    <3> QED BY <1>7, <1>12, <3>1 DEF TimeSound, Timed
  <2> QED BY <1>1, <1>5, <2>1 DEF Clocked
<1>16. \A j, k \in DOMAIN d.rows : Before(e.rows, j, k) <=> Before(d.rows, j, k)
  BY <1>7 DEF Before, Group
<1>17. \A k \in DOMAIN d.rows : Place(e.rows, k) = Place(d.rows, k)
  <2> TAKE k \in DOMAIN d.rows
  <2>1. {j \in DOMAIN e.rows : Before(e.rows, j, k)} = {j \in DOMAIN d.rows : Before(d.rows, j, k)}
    BY <1>6, <1>16
  <2> QED BY <2>1 DEF Place
<1>18. Chosen(e)
  BY <1>5, <1>6 DEF Chosen
<1>19. SelectedKey(e) = SelectedKey(d)
  <2>1. FineRows(d.rows) /\ FineRows(e.rows)
    BY <1>1, <1>8, FormedRows
  <2>2. CASE d.selected = 0
    BY <1>5, <2>2 DEF SelectedKey
  <2>3. CASE d.selected # 0
    <3>1. SelectedKey(d) \in DOMAIN d.rows /\ Place(d.rows, SelectedKey(d)) = d.selected
      BY <2>1, <2>3, SelectedIsRow
    <3>2. Place(e.rows, SelectedKey(d)) = e.selected
      BY <1>5, <1>17, <3>1
    <3> QED BY <1>6, <1>18, <2>1, <3>1, <3>2, SelectedIsRow
  <2> QED BY <2>2, <2>3
<1>20. Good(e, mon, running, t)
  BY <1>8, <1>9, <1>11, <1>15 DEF Good
<1> QED BY <1>6, <1>7, <1>11, <1>13, <1>14, <1>18, <1>19, <1>20 DEF e

-----------------------------------------------------------------------------
(* The invariant, step by step.                                            *)

\* The inductive invariant.
IInv ==
  /\ Monitored(monitor)
  /\ \A i \in current : i \in Instances /\ monitor[i] = "connected"
  /\ Good(m, monitor, current, now) /\ Chosen(m)
  /\ DismissalLasts

SelectionStays ==
  SelectedKey(m) \in DOMAIN m'.rows /\ SelectedKey(m') # SelectedKey(m) => m'.rows = m.rows

\* What a step keeps.
Steady ==
  /\ \A i \in Instances : SticksAt(m, m', i)
  /\ SelectionStays
  /\ \A k \in DOMAIN m.rows : k[1] \notin V2 => CounterRuns(k)

\* A counter that neither loses nor gains while no time passes freezes as it should.
LEMMA EvenRuns ==
  ASSUME now \in Nat, now' = now, NEW k, k \in DOMAIN m'.rows => Even(m.rows[k], m'.rows[k], now),
         Clocked(m, now, current), k \in DOMAIN m.rows, k[1] \notin V2
  PROVE  CounterRuns(k)
<1> DEFINE before == Elapsed(m.rows[k], now)
           after == Elapsed(m'.rows[k], now)
           passed == IF k[1] \in current THEN now' - now ELSE 0
<1>1. passed = 0
  OBVIOUS
<1>2. before # None => before \in Int
  <2>1. TimeSound(m.rows[k], now, k[1] \in current)
    BY DEF Clocked
  <2>2. Timed(m.rows[k], now)
    BY <2>1 DEF TimeSound
  <2> QED BY <2>2 DEF Timed, Past, Elapsed, Baseline
<1>3. ASSUME k \in DOMAIN m'.rows, before # None, after # None PROVE after = before
  BY <1>3 DEF Even
<1> HIDE DEF before, after, passed
<1>4. ASSUME k \in DOMAIN m'.rows, before # None, after # None PROVE after = before + passed
  BY <1>1, <1>2, <1>3, <1>4
<1> QED BY <1>4 DEF CounterRuns, before, after, passed

\* An operation with a good outcome, followed by normalize_rows, is a good step.
LEMMA OutcomeStep ==
  ASSUME IInv, NEW e, NEW updated, Outcome(m, e, monitor', current', updated, {}, now),
         e.selected = m.selected, m' = Normalize(e, SelectedKey(m)),
         put' = Standing(m', updated, put), now' = now,
         Monitored(monitor'), \A i \in current' : i \in Instances /\ monitor'[i] = "connected"
  PROVE  IInv' /\ Steady
<1>1. m.selected \in Nat /\ Clocked(m, now, current) /\ now \in Nat
  BY DEF IInv, Chosen, Good, Clocked
<1>2. /\ Outcome(m, m', monitor', current', updated, {}, now) /\ Chosen(m')
      /\ SelectedKey(m) \in DOMAIN m'.rows => SelectedKey(m') = SelectedKey(m)
  <2> DEFINE key == SelectedKey(m)
             n == Normalize(e, key)
  <2>1. e.selected \in Nat
    BY <1>1
  <2> HIDE DEF key
  <2>2. /\ Outcome(m, n, monitor', current', updated, {}, now) /\ Chosen(n)
        /\ key \in DOMAIN n.rows => SelectedKey(n) = key
    BY <2>1, NormalizedOutcome
  <2>3. m' = n
    BY DEF key
  <2> QED BY <2>2, <2>3 DEF key
<1>3. put = Dismissed(m.rows)
  BY DEF IInv, DismissalLasts, Dismissed
<1>4. put' = Dismissed(m'.rows)
  <2>1. Turned(m.rows, m'.rows, updated, {}, now)
    BY <1>2 DEF Outcome
  <2> QED BY <1>3, <2>1, StandingTurned
<1>5. DismissalLasts'
  BY <1>4 DEF DismissalLasts, Dismissed
<1>6. IInv'
  BY <1>2, <1>5 DEF IInv, Outcome
<1>7. ASSUME NEW k \in DOMAIN m.rows, k[1] \notin V2 PROVE CounterRuns(k)
  <2>1. k \in DOMAIN m'.rows => Even(m.rows[k], m'.rows[k], now)
    BY <1>2, <1>7 DEF Outcome, Turned
  <2> QED BY <1>1, <1>7, <2>1, EvenRuns
<1>8. Steady
  BY <1>2, <1>7 DEF Steady, SelectionStays, Outcome
<1> QED BY <1>6, <1>8

\* monitor: a server is found.
LEMMA FindStep == ASSUME IInv, NEW i \in Instances, Find(i) PROVE IInv' /\ Steady
<1> DEFINE s == Settle(m, i)
           e == [s EXCEPT !.v2 = IF i \in V2 THEN @ \cup {i} ELSE @ \ {i}]
<1>1. /\ monitor[i] = "absent" /\ monitor' = [monitor EXCEPT ![i] = "found"]
      /\ m' = ServerFound(m, i) /\ put' = Standing(m', {}, put) /\ now' = now /\ current' = current
      /\ \A j \in There(monitor) : EndpointOf[j] # EndpointOf[i]
  BY DEF Find, Moves, Occurs, Present, There
<1>2. Monitored(monitor) /\ Good(m, monitor, current, now)
  BY DEF IInv
<1>3. m' = Normalize(e, SelectedKey(m))
  BY <1>1 DEF ServerFound
<1>4. Outcome(m, e, monitor', current', {}, {}, now) /\ e.selected = m.selected
  BY <1>1, <1>2, FindOutcome
<1> HIDE DEF e
<1>5. Monitored(monitor') /\ \A j \in current' : j \in Instances /\ monitor'[j] = "connected"
  BY <1>1 DEF IInv, Monitored
<1> QED BY <1>1, <1>3, <1>4, <1>5, OutcomeStep

\* monitor: a server connects.
LEMMA ConnectStep == ASSUME IInv, NEW i \in Instances, Connect(i) PROVE IInv' /\ Steady
<1> DEFINE stale == FALSE
           c == [m EXCEPT !.connected = IF stale THEN @ \ {i} ELSE @ \cup {i}]
           e == SetStale(c, i, stale, now)
           after == [monitor EXCEPT ![i] = IF stale THEN "disconnected" ELSE "connected"]
<1>1. /\ monitor[i] \in {"found", "disconnected"} /\ monitor' = [monitor EXCEPT ![i] = "connected"]
      /\ m' = Connected(m, i, now) /\ put' = Standing(m', {}, put) /\ now' = now /\ current' = current
  BY DEF Connect, Moves, Occurs
<1>2. Monitored(monitor) /\ Good(m, monitor, current, now) /\ i \in There(monitor)
  BY <1>1 DEF IInv, There
<1>3. Known(m, i) /\ i \notin current
  BY <1>1, <1>2, ThereKnown DEF Good, IInv
<1>4. m' = Normalize(e, SelectedKey(m)) /\ monitor' = after /\ current' = current \ {i}
  BY <1>1, <1>3 DEF Connected
<1>5. Outcome(m, e, after, current \ {i}, {}, {}, now) /\ e.selected = m.selected
  <2>1. stale \in BOOLEAN /\ (~stale => i \notin current)
    BY <1>3
  <2> HIDE DEF stale
  <2> QED BY <1>2, <2>1, StaleOutcome
<1> HIDE DEF e, after
<1>6. Monitored(monitor') /\ \A j \in current' : j \in Instances /\ monitor'[j] = "connected"
  BY <1>1 DEF IInv, Monitored
<1> QED BY <1>1, <1>4, <1>5, <1>6, OutcomeStep

\* monitor: a connection is lost.
LEMMA BreakStep == ASSUME IInv, NEW i \in Instances, Break(i) PROVE IInv' /\ Steady
<1> DEFINE stale == TRUE
           c == [m EXCEPT !.connected = IF stale THEN @ \ {i} ELSE @ \cup {i}]
           e == SetStale(c, i, stale, now)
           after == [monitor EXCEPT ![i] = IF stale THEN "disconnected" ELSE "connected"]
<1>1. /\ monitor[i] = "connected" /\ monitor' = [monitor EXCEPT ![i] = "disconnected"]
      /\ m' = Disconnected(m, i, now) /\ put' = Standing(m', {}, put) /\ now' = now
      /\ current' = current \ {i}
  BY DEF Break, Moves, Occurs
<1>2. Monitored(monitor) /\ Good(m, monitor, current, now) /\ i \in There(monitor)
  BY <1>1 DEF IInv, There
<1>3. Known(m, i)
  BY <1>2, ThereKnown DEF Good
<1>4. m' = Normalize(e, SelectedKey(m)) /\ monitor' = after
  BY <1>1, <1>3 DEF Disconnected
<1>5. Outcome(m, e, after, current \ {i}, {}, {}, now) /\ e.selected = m.selected
  <2>1. stale \in BOOLEAN /\ (~stale => i \notin current)
    OBVIOUS
  <2> HIDE DEF stale
  <2> QED BY <1>2, <2>1, StaleOutcome
<1> HIDE DEF e, after
<1>6. Monitored(monitor') /\ \A j \in current' : j \in Instances /\ monitor'[j] = "connected"
  BY <1>1 DEF IInv, Monitored
<1> QED BY <1>1, <1>4, <1>5, <1>6, OutcomeStep

\* monitor: a server is removed.
LEMMA RemoveStep == ASSUME IInv, NEW i \in Instances, Remove(i) PROVE IInv' /\ Steady
<1> DEFINE e == RemoveInstance(m, i)
           after == [monitor EXCEPT ![i] = "absent"]
<1>1. /\ monitor[i] # "absent" /\ monitor' = after
      /\ m' = Normalize(e, SelectedKey(m)) /\ put' = Standing(m', {}, put) /\ now' = now
      /\ current' = current \ {i}
  BY DEF Remove, Moves, Occurs, ServerRemoved
<1>2. Monitored(monitor) /\ Good(m, monitor, current, now) /\ i \in There(monitor)
  BY <1>1 DEF IInv, There
<1>3. Outcome(m, e, after, current \ {i}, {}, {}, now) /\ e.selected = m.selected
  BY <1>2, RemoveOutcome
<1>4. Monitored(monitor') /\ \A j \in current' : j \in Instances /\ monitor'[j] = "connected"
  BY <1>1 DEF IInv, Monitored
<1> HIDE DEF e, after
<1> QED BY <1>1, <1>3, <1>4, OutcomeStep

\* monitor: a server projects.
LEMMA ProjectStep ==
  ASSUME IInv, NEW i \in Instances, NEW ss \in Projections[i], Project(i, ss) PROVE IInv' /\ Steady
<1> DEFINE e == ApplyProjection(m, i, ss, now)
<1>1. /\ monitor[i] = "connected" /\ monitor' = monitor
      /\ m' = Normalize(e, SelectedKey(m)) /\ put' = Standing(m', {i}, put) /\ now' = now
      /\ current' = current \cup {i}
  BY DEF Project, Occurs, StateProjection
<1>2. Monitored(monitor) /\ Good(m, monitor, current, now)
  BY DEF IInv
<1>3. Projected(ss)
  BY DashboardAssumption DEF Projected
<1>4. Outcome(m, e, monitor, current \cup {i}, {i}, {}, now) /\ e.selected = m.selected
  BY <1>1, <1>2, <1>3, ProjectOutcome
<1>5. Monitored(monitor') /\ \A j \in current' : j \in Instances /\ monitor'[j] = "connected"
  BY <1>1 DEF IInv
<1> HIDE DEF e
<1> QED BY <1>1, <1>4, <1>5, OutcomeStep

\* The sampler: the terminals there are.
LEMMA SampleStep == ASSUME IInv, NEW s \in Samples, Sample(s) PROVE IInv' /\ Steady
<1> DEFINE e == RebuildAll(Sampled(m, s), now)
<1>1. /\ monitor' = monitor /\ current' = current /\ now' = now
      /\ m' = ApplyAttachments(m, s, now) /\ put' = Standing(m', m.v2, put)
  BY DEF Sample, Occurs
<1>2. Monitored(monitor) /\ Good(m, monitor, current, now)
  BY DEF IInv
<1>3. m' = Normalize(e, SelectedKey(m))
  BY <1>1 DEF ApplyAttachments, Sampled
<1>4. Sampling(s)
  BY DashboardAssumption DEF Sampling
<1>5. Outcome(m, e, monitor, current, m.v2, {}, now) /\ e.selected = m.selected
  BY <1>2, <1>4, SampleOutcome
<1>6. Monitored(monitor') /\ \A j \in current' : j \in Instances /\ monitor'[j] = "connected"
  BY <1>1 DEF IInv
<1> HIDE DEF e
<1> QED BY <1>1, <1>3, <1>5, <1>6, OutcomeStep

\* monitor: a session is ready.
LEMMA AnnounceStep ==
  ASSUME IInv, NEW i \in Instances, NEW root \in Sessions, Announce(i, root) PROVE IInv' /\ Steady
<1> DEFINE e == ApplyReady(m, i, {root}, now)
           key == SelectedKey(m)
           k0 == <<i, root>>
<1>1. /\ monitor[i] = "connected" /\ monitor' = monitor /\ current' = current /\ now' = now
      /\ m' = Ready(m, i, root, now) /\ put' = {p \in put : p[1] # k0}
  BY DEF Announce
<1>2. Monitored(monitor) /\ Good(m, monitor, current, now) /\ i \in There(monitor) /\ m.selected \in Nat
  BY <1>1 DEF IInv, There, Chosen
<1>3. Known(m, i)
  BY <1>2, ThereKnown DEF Good
<1>4. m' = Normalize(e, key)
  BY <1>1, <1>3 DEF Ready
<1>5. /\ Outcome(m, e, monitor, current, {}, {k0}, now) /\ e.selected = m.selected
      /\ \A k \in DOMAIN m.rows : k \in DOMAIN e.rows /\ (k # k0 => e.rows[k] = m.rows[k])
  <2>1. /\ Outcome(m, e, monitor, current, {}, {k0}, now) /\ e.selected = m.selected
        /\ Elsewhere(m.rows, e.rows, k0)
    BY <1>2, ReadyOutcome
  <2> HIDE DEF e, k0
  <2> QED BY <2>1 DEF Elsewhere
<1>6. FineRows(e.rows) /\ DOMAIN e = Fields /\ e.selected \in Nat
  BY <1>2, <1>5, FormedRows DEF Outcome, Good
<1> HIDE DEF e, key
<1>7. /\ Outcome(m, m', monitor, current, {}, {k0}, now) /\ Chosen(m')
      /\ key \in DOMAIN m'.rows => SelectedKey(m') = key
  BY <1>4, <1>5, <1>6, NormalizedOutcome
<1>8. m'.rows = e.rows
  <2>1. Alike(e, m')
    BY <1>4, <1>6, NormalizeFacts
  <2> QED BY <2>1 DEF Alike
<1> HIDE DEF k0
<1>9. \A k \in DOMAIN m'.rows : IF k \in DOMAIN m.rows \ {k0} THEN m'.rows[k] = m.rows[k]
                                ELSE ~IsDismissed(m'.rows[k])
  BY <1>5, <1>7, <1>8 DEF Outcome, Turned
<1>10. put = Dismissed(m.rows)
  BY DEF IInv, DismissalLasts, Dismissed
<1>11. put' = Dismissed(m'.rows)
  <2>1. ASSUME NEW p \in put' PROVE p \in Dismissed(m'.rows)
    <3>1. p \in Dismissed(m.rows) /\ p[1] # k0
      BY <1>1, <1>10, <2>1 DEF k0
    <3>2. PICK k \in DOMAIN m.rows : IsDismissed(m.rows[k]) /\ p = <<k, Occurrence(m.rows[k])>>
      BY <3>1, DismissedIs
    <3>3. k # k0 /\ k \in DOMAIN m'.rows
      BY <1>5, <1>8, <3>1, <3>2
    <3>4. m'.rows[k] = m.rows[k]
      BY <1>9, <3>2, <3>3
    <3> QED BY <3>2, <3>3, <3>4, DismissedIs
  <2>2. ASSUME NEW p \in Dismissed(m'.rows) PROVE p \in put'
    <3>1. PICK k \in DOMAIN m'.rows : IsDismissed(m'.rows[k]) /\ p = <<k, Occurrence(m'.rows[k])>>
      BY <2>2, DismissedIs
    <3>2. k \in DOMAIN m.rows /\ k # k0 /\ m'.rows[k] = m.rows[k]
      BY <1>9, <3>1
    <3>3. p \in Dismissed(m.rows) /\ p[1] # k0
      BY <3>1, <3>2, DismissedIs
    <3> QED BY <1>1, <1>10, <3>3 DEF k0
  <2> QED BY <1>1, <2>1, <2>2
<1>12. DismissalLasts'
  BY <1>11 DEF DismissalLasts, Dismissed
<1>13. IInv'
  BY <1>1, <1>7, <1>12 DEF IInv, Outcome
<1>14. ASSUME NEW k \in DOMAIN m.rows, k[1] \notin V2 PROVE CounterRuns(k)
  <2>1. k \in DOMAIN m'.rows => Even(m.rows[k], m'.rows[k], now)
    BY <1>7, <1>14 DEF Outcome, Turned
  <2>2. Clocked(m, now, current) /\ now \in Nat
    BY <1>2 DEF Good, Clocked
  <2> QED BY <1>1, <1>14, <2>1, <2>2, EvenRuns
<1>15. Steady
  BY <1>7, <1>14 DEF Steady, SelectionStays, Outcome, key
<1> QED BY <1>13, <1>15

\* What is there stays there when nothing happens to it.
LEMMA SelfKept == ASSUME NEW d, NEW e, Alike(d, e), Resolved(d) PROVE \A i \in Instances : SticksAt(d, e, i)
BY AlikeKept, AllKept

\* A row that is not touched keeps its counter.
LEMMA EvenSelf == ASSUME NEW row, NEW t PROVE Even(row, row, t)
BY DEF Even

\* The clock: a counter that runs goes on, and another one stands.
LEMMA TickStep == ASSUME IInv, Tick PROVE IInv' /\ Steady
<1>1. now' = now + 1 /\ m' = m /\ monitor' = monitor /\ current' = current /\ put' = put
  BY DEF Tick
<1>2. Good(m, monitor, current, now) /\ now \in Nat /\ Resolved(m) /\ Clocked(m, now, current)
  BY DEF IInv, Good, Clocked
<1>3. None \notin Nat
  BY ModelAssumption
<1>4. \A x : Past(x, now) => Past(x, now + 1)
  BY <1>2 DEF Past
<1>5. \A row : Timed(row, now) => Timed(row, now + 1)
  BY <1>4 DEF Timed
<1>6. Clocked(m, now + 1, current)
  <2>1. \A k \in DOMAIN m.lastNonBusy : m.lastNonBusy[k] \in 0 .. now + 1
    BY <1>2 DEF Clocked
  <2>2. \A k \in DOMAIN m.rows : k[1] \notin V2 => TimeSound(m.rows[k], now + 1, k[1] \in current)
    BY <1>2, <1>5 DEF Clocked, TimeSound
  <2> QED BY <1>2, <2>1, <2>2 DEF Clocked
<1>7. IInv'
  <2>1. DismissalLasts'
    BY <1>1 DEF IInv, DismissalLasts
  <2>2. Good(m, monitor, current, now + 1)
    BY <1>2, <1>6 DEF Good
  <2> QED BY <1>1, <2>1, <2>2 DEF IInv
<1>8. ASSUME NEW k \in DOMAIN m.rows, k[1] \notin V2 PROVE CounterRuns(k)
  <2> DEFINE row == m.rows[k]
             runs == k[1] \in current
             passed == IF runs THEN now' - now ELSE 0
  <2>1. TimeSound(row, now, runs) /\ RowTyped(row)
    BY <1>2, <1>8 DEF Clocked, Good, Formed, RowTyped
  <2>2. m'.rows[k] = row
    BY <1>1
  <2>3. passed = IF runs THEN 1 ELSE 0
    BY <1>1, <1>2
  <2> HIDE DEF row, runs, passed
  <2>4. Elapsed(row, now) # None => Elapsed(row, now + 1) = Elapsed(row, now) + passed
    <3>1. CASE ~row.busy
      BY <3>1 DEF Elapsed
    <3>2. CASE row.busy /\ runs
      <4>1. row.frozen = None /\ Baseline(row) \in 0 .. now /\ Baseline(row) # None
        BY <2>1, <3>2 DEF TimeSound, Timed, Past, Baseline
      <4> QED BY <1>2, <2>3, <3>2, <4>1 DEF Elapsed
    <3>3. CASE row.busy /\ ~runs
      <4>1. row.frozen # None /\ row.frozen \in 0 .. now
        BY <2>1, <3>3 DEF TimeSound, Timed, Past
      <4> QED BY <1>2, <2>3, <3>3, <4>1 DEF Elapsed
    <3> QED BY <2>1, <3>1, <3>2, <3>3 DEF RowTyped
  <2>5. Elapsed(m'.rows[k], now') = Elapsed(row, now + 1)
    BY <1>1, <2>2
  <2> QED BY <2>4, <2>5 DEF CounterRuns, row, runs, passed
<1>9. Steady
  <2>1. Alike(m, m')
    BY <1>1 DEF Alike
  <2>2. \A i \in Instances : SticksAt(m, m', i)
    BY <1>2, <2>1, SelfKept
  <2> QED BY <1>1, <1>8, <2>2 DEF Steady, SelectionStays
<1> QED BY <1>7, <1>9

\* The user moves the selection.
LEMMA MoveStep == ASSUME IInv, NEW down \in BOOLEAN, Move(down) PROVE IInv' /\ Steady
<1> DEFINE N == Cardinality(DOMAIN m.rows)
           to == IF down THEN Least(m.selected + 1, N) ELSE IF m.selected > 1 THEN m.selected - 1 ELSE 1
<1>1. m' = MoveSelection(m, down) /\ monitor' = monitor /\ current' = current /\ put' = put /\ now' = now
  BY DEF Move, UserStep
<1>2. /\ Good(m, monitor, current, now) /\ now \in Nat /\ Resolved(m) /\ Clocked(m, now, current)
      /\ Formed(m) /\ DOMAIN m = Fields /\ Chosen(m)
  BY DEF IInv, Good, Clocked, Formed
<1>3. N \in Nat /\ (N = 0 <=> DOMAIN m.rows = {})
  <2>1. IsFiniteSet(DOMAIN m.rows)
    BY <1>2, FormedRows, RowsFinite
  <2> QED BY <2>1, FS_EmptySet, FS_CardinalityType
<1>4. Alike(m, m') /\ Chosen(m')
  <2>1. CASE DOMAIN m.rows = {}
    BY <1>1, <1>2, <2>1 DEF MoveSelection, Alike
  <2>2. CASE DOMAIN m.rows # {}
    <3>1. m' = [m EXCEPT !.selected = to]
      BY <1>1, <2>2 DEF MoveSelection
    <3>2. m.selected \in 1 .. N
      BY <1>2, <1>3, <2>2 DEF Chosen
    <3>3. to \in 1 .. N
      BY <1>3, <3>2 DEF Least
    <3> HIDE DEF to
    <3>4. Alike(m, m') /\ m'.selected = to
      BY <1>2, <3>1 DEF Alike, Fields
    <3>5. m'.rows = m.rows
      BY <3>4 DEF Alike
    <3> QED BY <1>3, <2>2, <3>3, <3>4, <3>5 DEF Chosen
  <2> QED BY <2>1, <2>2
<1>5. m'.rows = m.rows
  BY <1>4 DEF Alike
<1>6. IInv'
  <2>1. DismissalLasts'
    BY <1>1, <1>5 DEF IInv, DismissalLasts
  <2>2. Good(m', monitor, current, now)
    BY <1>2, <1>4, AlikeGood
  <2> QED BY <1>1, <1>4, <2>1, <2>2 DEF IInv
<1>7. Steady
  <2>1. \A i \in Instances : SticksAt(m, m', i)
    BY <1>2, <1>4, SelfKept
  <2>2. \A k \in DOMAIN m.rows : k[1] \notin V2 => CounterRuns(k)
    BY <1>1, <1>2, <1>5, EvenSelf, EvenRuns
  <2> QED BY <1>5, <2>1, <2>2 DEF Steady, SelectionStays
<1> QED BY <1>6, <1>7

\* Nothing happens.
LEMMA StutterStep == ASSUME IInv, UNCHANGED vars PROVE IInv' /\ Steady
<1>1. m' = m /\ monitor' = monitor /\ current' = current /\ put' = put /\ now' = now
  BY DEF vars
<1>2. Good(m, monitor, current, now) /\ now \in Nat /\ Resolved(m) /\ Clocked(m, now, current)
  BY DEF IInv, Good, Clocked
<1>3. IInv'
  BY <1>1 DEF IInv, DismissalLasts
<1>4. \A i \in Instances : SticksAt(m, m', i)
  <2>1. Alike(m, m')
    BY <1>1 DEF Alike
  <2> QED BY <1>2, <2>1, SelfKept
<1>5. \A k \in DOMAIN m.rows : k[1] \notin V2 => CounterRuns(k)
  BY <1>1, <1>2, EvenSelf, EvenRuns
<1> QED BY <1>1, <1>3, <1>4, <1>5 DEF Steady, SelectionStays

\* The user dismisses the attention of a row, or has it again.
LEMMA MarkStep ==
  ASSUME IInv, NEW key \in DOMAIN m.rows, NEW x, m' = [m EXCEPT !.rows[key].dismissed = x],
         monitor' = monitor, current' = current, now' = now, put' = Dismissed(m'.rows)
  PROVE  IInv' /\ Steady
<1>1. /\ Good(m, monitor, current, now) /\ now \in Nat /\ Clocked(m, now, current) /\ Chosen(m)
  BY DEF IInv, Good, Clocked
<1>2. /\ Good(m', monitor, current, now) /\ Chosen(m') /\ SelectedKey(m') = SelectedKey(m)
      /\ \A i \in Instances : SticksAt(m, m', i)
      /\ \A k \in DOMAIN m.rows : Even(m.rows[k], m'.rows[k], now)
  BY <1>1, Marked
<1>3. DismissalLasts'
  BY DEF DismissalLasts, Dismissed
<1>4. IInv'
  BY <1>2, <1>3 DEF IInv
<1>5. \A k \in DOMAIN m.rows : k[1] \notin V2 => CounterRuns(k)
  BY <1>1, <1>2, EvenRuns
<1> QED BY <1>2, <1>4, <1>5 DEF Steady, SelectionStays

\* The user dismisses the attention of the selected row.
LEMMA DismissStep == ASSUME IInv, Dismiss PROVE IInv' /\ Steady
<1> DEFINE key == SelectedKey(m)
           selected == {k \in DOMAIN m.rows : k = key /\ Occurrence(m.rows[k]) # <<>>}
<1>1. /\ m' = DismissSelected(m) /\ monitor' = monitor /\ current' = current /\ now' = now
      /\ put' = put \cup {<<k, Occurrence(m.rows[k])>> : k \in selected}
  BY DEF Dismiss, UserStep
<1>2. Good(m, monitor, current, now) /\ Chosen(m) /\ FineRows(m.rows)
  BY FormedRows DEF IInv, Good
<1>3. /\ m.selected # 0 => key \in DOMAIN m.rows
      /\ m.selected = 0 => DOMAIN m.rows = {}
  BY <1>2, SelectedIsRow
<1>4. put = Dismissed(m.rows)
  BY DEF IInv, DismissalLasts, Dismissed
<1>5. CASE m.selected = 0 \/ Occurrence(m.rows[key]) = <<>>
  <2>1. m' = m
    BY <1>1, <1>5 DEF DismissSelected
  <2>2. selected = {}
    BY <1>3, <1>5
  <2>3. put' = put
    BY <1>1, <2>2
  <2>4. IInv' /\ \A i \in Instances : SticksAt(m, m', i)
    <3>1. Alike(m, m') /\ Resolved(m)
      BY <1>2, <2>1 DEF Alike, Good
    <3>2. IInv'
      BY <1>1, <2>1, <2>3 DEF IInv, DismissalLasts
    <3> QED BY <3>1, <3>2, SelfKept
  <2>5. \A k \in DOMAIN m.rows : k[1] \notin V2 => CounterRuns(k)
    BY <1>1, <1>2, <2>1, EvenSelf, EvenRuns DEF Good, Clocked
  <2> QED BY <2>1, <2>4, <2>5 DEF Steady, SelectionStays
<1>6. CASE m.selected # 0 /\ Occurrence(m.rows[key]) # <<>>
  <2> DEFINE x == Occurrence(m.rows[key])
  <2>1. m' = [m EXCEPT !.rows[key].dismissed = x] /\ key \in DOMAIN m.rows
    BY <1>1, <1>3, <1>6 DEF DismissSelected
  <2> HIDE DEF key
  <2>2. put' = Dismissed(m.rows) \cup {<<key, x>>}
    BY <1>1, <1>4, <1>6, <2>1
  <2>3. x # <<>>
    BY <1>6
  <2> HIDE DEF x
  <2>4. /\ DOMAIN m'.rows = DOMAIN m.rows
        /\ \A k \in DOMAIN m.rows : /\ Occurrence(m'.rows[k]) = Occurrence(m.rows[k])
                                    /\ m'.rows[k].dismissed = IF k = key THEN x ELSE m.rows[k].dismissed
    BY <1>2, <2>1, Marked
  <2>5. \A k \in DOMAIN m.rows : k # key => (IsDismissed(m'.rows[k]) <=> IsDismissed(m.rows[k]))
    BY <2>4 DEF IsDismissed
  <2>6. IsDismissed(m'.rows[key]) /\ Occurrence(m'.rows[key]) = x
    BY <2>1, <2>3, <2>4 DEF IsDismissed, x
  <2>7. ASSUME NEW p \in put' PROVE p \in Dismissed(m'.rows)
    <3>1. CASE p = <<key, x>>
      BY <2>1, <2>4, <2>6, <3>1, DismissedIs
    <3>2. CASE p # <<key, x>>
      <4>1. p \in Dismissed(m.rows)
        BY <2>2, <2>7, <3>2
      <4>2. PICK k \in DOMAIN m.rows : IsDismissed(m.rows[k]) /\ p = <<k, Occurrence(m.rows[k])>>
        BY <4>1, DismissedIs
      <4>3. k # key
        BY <3>2, <4>2 DEF x
      <4>4. k \in DOMAIN m'.rows /\ IsDismissed(m'.rows[k]) /\ p = <<k, Occurrence(m'.rows[k])>>
        BY <2>4, <2>5, <4>2, <4>3
      <4> QED BY <4>4, DismissedIs
    <3> QED BY <3>1, <3>2
  <2>8. ASSUME NEW p \in Dismissed(m'.rows) PROVE p \in put'
    <3>1. PICK k \in DOMAIN m'.rows : IsDismissed(m'.rows[k]) /\ p = <<k, Occurrence(m'.rows[k])>>
      BY <2>8, DismissedIs
    <3>2. CASE k = key
      BY <2>2, <2>6, <3>1, <3>2
    <3>3. CASE k # key
      <4>1. k \in DOMAIN m.rows /\ IsDismissed(m.rows[k]) /\ p = <<k, Occurrence(m.rows[k])>>
        BY <2>4, <2>5, <3>1, <3>3
      <4> QED BY <2>2, <4>1, DismissedIs
    <3> QED BY <3>2, <3>3
  <2>9. put' = Dismissed(m'.rows)
    <3>1. \A p : p \in put' <=> p \in Dismissed(m'.rows)
      BY <2>7, <2>8
    <3> HIDE DEF selected
    <3> DEFINE A == put'
               B == Dismissed(m'.rows)
    <3>2. \A p : p \in A <=> p \in B
      BY <3>1
    <3> HIDE DEF A, B
    <3>3. A = B
      BY <3>2
    <3> QED BY <3>3 DEF A, B
  <2> QED BY <1>1, <2>1, <2>9, MarkStep
<1> QED BY <1>5, <1>6

\* The user takes a dismissal back.
LEMMA RestoreStep == ASSUME IInv, Restore PROVE IInv' /\ Steady
<1> DEFINE key == SelectedKey(m)
           x == <<>>
<1>1. /\ m' = RestoreSelected(m) /\ monitor' = monitor /\ current' = current /\ now' = now
      /\ put' = {p \in put : p[1] # key}
  BY DEF Restore, UserStep
<1>2. Good(m, monitor, current, now) /\ Chosen(m) /\ FineRows(m.rows)
  BY FormedRows DEF IInv, Good
<1>3. /\ m.selected # 0 => key \in DOMAIN m.rows
      /\ m.selected = 0 => DOMAIN m.rows = {}
  BY <1>2, SelectedIsRow
<1>4. put = Dismissed(m.rows)
  BY DEF IInv, DismissalLasts, Dismissed
<1>5. CASE m.selected = 0 \/ ~IsDismissed(m.rows[key])
  <2>1. m' = m
    BY <1>1, <1>5 DEF RestoreSelected
  <2> HIDE DEF key
  <2>2. \A p \in put : p[1] # key
    <3> SUFFICES ASSUME NEW p \in Dismissed(m.rows) PROVE p[1] # key
      BY <1>4
    <3>1. PICK k \in DOMAIN m.rows : IsDismissed(m.rows[k]) /\ p = <<k, Occurrence(m.rows[k])>>
      BY DismissedIs
    <3> QED BY <1>3, <1>5, <3>1
  <2>3. put' = put
    BY <1>1, <2>2
  <2>4. IInv' /\ \A i \in Instances : SticksAt(m, m', i)
    <3>1. Alike(m, m') /\ Resolved(m)
      BY <1>2, <2>1 DEF Alike, Good
    <3>2. IInv'
      BY <1>1, <2>1, <2>3 DEF IInv, DismissalLasts
    <3> QED BY <3>1, <3>2, SelfKept
  <2>5. \A k \in DOMAIN m.rows : k[1] \notin V2 => CounterRuns(k)
    BY <1>1, <1>2, <2>1, EvenSelf, EvenRuns DEF Good, Clocked
  <2> QED BY <2>1, <2>4, <2>5 DEF Steady, SelectionStays
<1>6. CASE m.selected # 0 /\ IsDismissed(m.rows[key])
  <2>1. m' = [m EXCEPT !.rows[key].dismissed = x] /\ key \in DOMAIN m.rows
    BY <1>1, <1>3, <1>6 DEF RestoreSelected
  <2> HIDE DEF key
  <2>3. x = <<>>
    OBVIOUS
  <2> HIDE DEF x
  <2>4. /\ DOMAIN m'.rows = DOMAIN m.rows
        /\ \A k \in DOMAIN m.rows : /\ Occurrence(m'.rows[k]) = Occurrence(m.rows[k])
                                    /\ m'.rows[k].dismissed = IF k = key THEN x ELSE m.rows[k].dismissed
    BY <1>2, <2>1, Marked
  <2>5. \A k \in DOMAIN m.rows : k # key => (IsDismissed(m'.rows[k]) <=> IsDismissed(m.rows[k]))
    BY <2>4 DEF IsDismissed
  <2>6. ~IsDismissed(m'.rows[key])
    BY <2>1, <2>3, <2>4 DEF IsDismissed
  <2>7. ASSUME NEW p \in put' PROVE p \in Dismissed(m'.rows)
    <3>1. p \in Dismissed(m.rows) /\ p[1] # key
      BY <1>1, <1>4, <2>7 DEF key
    <3>2. PICK k \in DOMAIN m.rows : IsDismissed(m.rows[k]) /\ p = <<k, Occurrence(m.rows[k])>>
      BY <3>1, DismissedIs
    <3>3. k \in DOMAIN m'.rows /\ IsDismissed(m'.rows[k]) /\ p = <<k, Occurrence(m'.rows[k])>>
      BY <2>4, <2>5, <3>1, <3>2
    <3> QED BY <3>3, DismissedIs
  <2>8. ASSUME NEW p \in Dismissed(m'.rows) PROVE p \in put'
    <3>1. PICK k \in DOMAIN m'.rows : IsDismissed(m'.rows[k]) /\ p = <<k, Occurrence(m'.rows[k])>>
      BY <2>8, DismissedIs
    <3>2. k # key
      BY <2>6, <3>1
    <3>3. k \in DOMAIN m.rows /\ IsDismissed(m.rows[k]) /\ p = <<k, Occurrence(m.rows[k])>>
      BY <2>4, <2>5, <3>1, <3>2
    <3>4. p \in Dismissed(m.rows) /\ p[1] # key
      BY <3>2, <3>3, DismissedIs
    <3> QED BY <1>1, <1>4, <3>4 DEF key
  <2>9. put' = Dismissed(m'.rows)
    <3> DEFINE A == put'
               B == Dismissed(m'.rows)
    <3>2. \A p : p \in A <=> p \in B
      BY <2>7, <2>8
    <3> HIDE DEF A, B
    <3>3. A = B
      BY <3>2
    <3> QED BY <3>3 DEF A, B
  <2> QED BY <1>1, <2>1, <2>9, MarkStep
<1> QED BY <1>5, <1>6

-----------------------------------------------------------------------------
(* The theorems.                                                           *)

\* The dashboard starts from nothing, which is sound.
LEMMA Initially == ASSUME Init PROVE IInv
<1>1. /\ m = InitModel /\ now = 0 /\ monitor = [i \in Instances |-> "absent"]
      /\ current = {} /\ put = {}
  BY DEF Init
<1>2. /\ DOMAIN m = Fields /\ m.rows = Empty /\ m.projections = Empty /\ m.v1Focus = {}
      /\ m.attachments = [i \in Instances |-> Empty] /\ m.sticky = [i \in Instances |-> Empty]
      /\ m.endpoints = Empty /\ m.v2 = {} /\ m.connected = {} /\ m.lastNonBusy = Empty
      /\ m.pendingReady = {} /\ m.selected = 0
  BY <1>1 DEF InitModel, Fields
<1>3. DOMAIN Empty = {}
  BY DEF Empty
<1>4. \A i \in Instances : monitor[i] = "absent"
  BY <1>1
<1>5. DOMAIN m.rows = {} /\ DOMAIN m.projections = {} /\ DOMAIN m.endpoints = {} /\ DOMAIN m.lastNonBusy = {}
  BY <1>2, <1>3
<1>6. /\ DOMAIN m.attachments = Instances /\ DOMAIN m.sticky = Instances
      /\ \A i \in Instances : DOMAIN m.attachments[i] = {} /\ DOMAIN m.sticky[i] = {}
  BY <1>2, <1>3
<1>7. Formed(m)
  BY <1>2, <1>5, <1>6 DEF Formed, Paired
<1>8. Follows(m, monitor)
  BY <1>2, <1>4, <1>5 DEF Follows
<1>9. Resolved(m)
  BY <1>5 DEF Resolved, ResolvedAt, Of
<1>10. Clocked(m, now, current)
  BY <1>1, <1>5 DEF Clocked
<1>11. Chosen(m)
  BY <1>2, <1>5, FS_EmptySet DEF Chosen
<1>12. DismissalLasts
  BY <1>1, <1>5 DEF DismissalLasts
<1>13. Monitored(monitor)
  BY <1>1 DEF Monitored
<1> QED BY <1>1, <1>7, <1>8, <1>9, <1>10, <1>11, <1>12, <1>13 DEF IInv, Good

\* Every step keeps the invariant, and is steady.
LEMMA Stepwise == ASSUME IInv, [Next]_vars PROVE IInv' /\ Steady
<1>1. CASE \E i \in Instances : MonitorEvent(i)
  BY <1>1, FindStep, ConnectStep, BreakStep, RemoveStep, ProjectStep, AnnounceStep DEF MonitorEvent
<1>2. CASE \E s \in Samples : Sample(s)
  BY <1>2, SampleStep
<1>3. CASE Tick
  BY <1>3, TickStep
<1>4. CASE \E down \in BOOLEAN : Move(down)
  BY <1>4, MoveStep
<1>5. CASE Dismiss
  BY <1>5, DismissStep
<1>6. CASE Restore
  BY <1>6, RestoreStep
<1>7. CASE UNCHANGED vars
  BY <1>7, StutterStep
<1> QED BY <1>1, <1>2, <1>3, <1>4, <1>5, <1>6, <1>7 DEF Next

\* The invariant: rows, attributions, counters, dismissals and the selection of
\* the dashboard are sound whatever the order in which events, samples and keys
\* come.
THEOREM RowsAreSound == Spec => []IInv
<1>1. Init => IInv
  BY Initially
<1>2. IInv /\ [Next]_vars => IInv'
  BY Stepwise
<1> QED BY <1>1, <1>2, PTL DEF Spec

\* What sticks is what the dashboard shows.
LEMMA SticksShow ==
  ASSUME IInv, \A i \in Instances : SticksAt(m, m', i), NEW k \in DOMAIN m.rows,
         m.rows[k].category = "attached", Shown(k[1]), Shown(k[1])',
         m.rows[k].tui \in DOMAIN m'.attachments[k[1]], k[2] \in Roots(m'.projections[k[1]]),
         m.rows[k].tui \notin Misdirected(m'.projections[k[1]], m'.attachments[k[1]]),
         \A c \in ExplicitClaims(m'.projections[k[1]], m'.attachments[k[1]]) :
           c[1] = m.rows[k].tui <=> c[2] = k[2]
  PROVE  k \in DOMAIN m'.rows /\ m'.rows[k].tui = m.rows[k].tui
<1> DEFINE i == k[1]
<1>1. i \in Instances /\ i \in V2 /\ i \in DOMAIN m'.projections /\ k \in Of(m.rows, i)
  BY DEF IInv, Good, Formed, Follows, Shown, Of
<1>2. SticksAt(m, m', i)
  BY <1>1
<1> QED BY <1>1, <1>2 DEF SticksAt

\* A terminal once attached keeps its root while both are there and nobody claims
\* one of them explicitly (resolve_tuis, its sticky round).
THEOREM PairsStick == Spec => PairSticks
<1>1. IInv /\ [Next]_vars =>
        [\A k \in DOMAIN m.rows :
           LET i == k[1]
               t == m.rows[k].tui
           IN  /\ m.rows[k].category = "attached"
               /\ Shown(i) /\ Shown(i)'
               /\ t \in DOMAIN m'.attachments[i] /\ k[2] \in Roots(m'.projections[i])
               /\ t \notin Misdirected(m'.projections[i], m'.attachments[i])
               /\ \A c \in ExplicitClaims(m'.projections[i], m'.attachments[i]) :
                    c[1] = t <=> c[2] = k[2]
               => k \in DOMAIN m'.rows /\ m'.rows[k].tui = t]_vars
  <2> SUFFICES ASSUME IInv, [Next]_vars, NEW k \in DOMAIN m.rows,
                      m.rows[k].category = "attached", Shown(k[1]), Shown(k[1])',
                      m.rows[k].tui \in DOMAIN m'.attachments[k[1]], k[2] \in Roots(m'.projections[k[1]]),
                      m.rows[k].tui \notin Misdirected(m'.projections[k[1]], m'.attachments[k[1]]),
                      \A c \in ExplicitClaims(m'.projections[k[1]], m'.attachments[k[1]]) :
                        c[1] = m.rows[k].tui <=> c[2] = k[2]
               PROVE  k \in DOMAIN m'.rows /\ m'.rows[k].tui = m.rows[k].tui
    OBVIOUS
  <2>1. \A i \in Instances : SticksAt(m, m', i)
    BY Stepwise DEF Steady
  <2> QED BY <2>1, SticksShow
<1> QED BY <1>1, RowsAreSound, PTL DEF Spec, PairSticks

\* The selection stays on its row through every reordering (normalize_rows).
THEOREM SelectionKeeps == Spec => SelectionFollows
<1>1. IInv /\ [Next]_vars =>
        [SelectedKey(m) \in DOMAIN m'.rows /\ SelectedKey(m') # SelectedKey(m) => m'.rows = m.rows]_vars
  BY Stepwise DEF Steady, SelectionStays
<1> QED BY <1>1, RowsAreSound, PTL DEF Spec, SelectionFollows

\* The counters of v1 rows count connected time only (set_stale, update_row).
THEOREM CountersStandStill == Spec => V1CountersFreeze
<1>1. IInv /\ [Next]_vars => [\A k \in DOMAIN m.rows : k[1] \notin V2 => CounterRuns(k)]_vars
  BY Stepwise DEF Steady
<1> QED BY <1>1, RowsAreSound, PTL DEF Spec, V1CountersFreeze

\* Only servers there are have rows (remove_instance, apply_attachments).
THEOREM RowsAreOfTheLiving == Spec => []NoGhostRows
<1>1. IInv => NoGhostRows
  <2> SUFFICES ASSUME IInv PROVE NoGhostRows
    OBVIOUS
  <2>1. Formed(m) /\ Follows(m, monitor)
    BY DEF IInv, Good
  <2>2. DOMAIN m.projections \subseteq Present
    BY <2>1 DEF Follows, Present
  <2>3. {k[1] : k \in DOMAIN m.rows} \subseteq Present
    BY <2>1, <2>2 DEF Formed
  <2> QED BY <2>1, <2>2, <2>3 DEF NoGhostRows, Follows
<1> QED BY <1>1, RowsAreSound, PTL

\* What a key would focus is what the last sample can (focus_selected).
THEOREM FocusIsOfTheSample == Spec => []FocusCurrent
<1>1. IInv => FocusCurrent
  <2> SUFFICES ASSUME IInv PROVE FocusCurrent
    OBVIOUS
  <2>1. Formed(m) /\ Follows(m, monitor) /\ Resolved(m) /\ Chosen(m) /\ FineRows(m.rows)
    BY FormedRows DEF IInv, Good
  <2>2. ASSUME NEW k \in DOMAIN m.rows PROVE k[1] \in Instances /\ (IF k[1] \in V2 THEN V2Row(m, k) ELSE V1Row(m, k))
    BY <2>1 DEF Formed, Resolved, ResolvedAt, Of
  <2>3. ASSUME NEW k \in DOMAIN m.rows
        PROVE  LET row == m.rows[k]
               IN  /\ row.category = "v1" => (row.focus <=> k[1] \in m.v1Focus)
                   /\ row.category = "attached" =>
                        /\ row.tui \in DOMAIN m.attachments[k[1]]
                        /\ row.focus = m.attachments[k[1]][row.tui].focus
                        /\ row.attachmentStale = m.attachments[k[1]][row.tui].stale
                   /\ row.category \notin {"v1", "attached"} => ~row.focus
    <3>1. CASE k[1] \in V2
      BY <2>2, <3>1 DEF V2Row
    <3>2. CASE k[1] \notin V2
      BY <2>2, <3>2 DEF V1Row
    <3> QED BY <3>1, <3>2
  <2>4. ASSUME Focusable(m)
        PROVE  LET k == SelectedKey(m)
                   tui == m.attachments[k[1]][m.rows[k].tui]
               IN  /\ monitor[k[1]] = "connected"
                   /\ IF k[1] \in V2 THEN tui.focus /\ ~tui.stale ELSE k[1] \in m.v1Focus
    <3> DEFINE k == SelectedKey(m)
               row == m.rows[k]
    <3>1. m.selected # 0 /\ row.category \in {"v1", "attached"} /\ k[1] \in m.connected
          /\ ~row.attachmentStale /\ row.focus
      BY <2>4 DEF Focusable
    <3>2. k \in DOMAIN m.rows
      BY <2>1, <3>1, SelectedIsRow
    <3> HIDE DEF k
    <3>3. monitor[k[1]] = "connected"
      BY <2>1, <3>1 DEF Follows
    <3>4. CASE k[1] \in V2
      BY <2>2, <3>1, <3>2, <3>3, <3>4 DEF V2Row, k
    <3>5. CASE k[1] \notin V2
      BY <2>2, <3>1, <3>2, <3>3, <3>5 DEF V1Row, k
    <3> QED BY <3>4, <3>5
  <2> QED BY <2>3, <2>4 DEF FocusCurrent
<1> QED BY <1>1, RowsAreSound, PTL

\* One terminal, one row.
LEMMA OneOfATerminal ==
  ASSUME NEW d, Formed(d), NEW i \in Instances, i \in V2, ResolvedAt(d, i),
         NEW j \in Of(d.rows, i), NEW k \in Of(d.rows, i),
         d.rows[j].tui = d.rows[k].tui, d.rows[j].tui \in DOMAIN d.attachments[i]
  PROVE  j = k
<1>1. j[1] = i /\ k[1] = i /\ V2Row(d, j) /\ V2Row(d, k) /\ j \in DOMAIN d.rows /\ k \in DOMAIN d.rows
  BY DEF ResolvedAt, Of
<1>2. j = <<i, j[2]>> /\ k = <<i, k[2]>>
  BY <1>1 DEF Formed
<1>3. d.rows[j].tui # None
  <2>1. None \notin Tuis
    BY ResolutionAssumption
  <2> QED BY <2>1 DEF Formed
<1>4. j[2] = k[2]
  BY <1>1, <1>3 DEF V2Row
<1> QED BY <1>2, <1>4

\* Every terminal and every root that works of a v2 server has its one row
\* (rebuild_v2_rows).
THEOREM NothingIsHidden == Spec => []NothingHidden
<1>1. IInv => NothingHidden
  <2> SUFFICES ASSUME IInv, NEW i \in Instances, Shown(i)
               PROVE  /\ \A t \in DOMAIN m.attachments[i] :
                           Cardinality({k \in Of(m.rows, i) : m.rows[k].tui = t}) = 1
                      /\ ActiveRoots(m.projections[i]) \subseteq {k[2] : k \in Of(m.rows, i)}
    BY DEF NothingHidden
  <2>1. Formed(m) /\ ResolvedAt(m, i) /\ i \in V2 /\ Attributed(m, i)
    BY DEF IInv, Good, Resolved, ResolvedAt, Follows, Shown
  <2>2. ASSUME NEW t \in DOMAIN m.attachments[i]
        PROVE  Cardinality({k \in Of(m.rows, i) : m.rows[k].tui = t}) = 1
    <3>1. PICK k \in Of(m.rows, i) : m.rows[k].tui = t
      BY <2>1 DEF Attributed
    <3>2. \A j \in Of(m.rows, i) : m.rows[j].tui = t => j = k
      BY <2>1, <3>1, OneOfATerminal
    <3>3. {j \in Of(m.rows, i) : m.rows[j].tui = t} = {k}
      BY <3>1, <3>2
    <3> QED BY <3>3, FS_Singleton
  <2>3. ASSUME NEW r \in ActiveRoots(m.projections[i]) PROVE r \in {k[2] : k \in Of(m.rows, i)}
    <3>1. <<i, r>> \in Of(m.rows, i)
      BY <2>1 DEF Attributed, Of
    <3> QED BY <3>1
  <2> QED BY <2>2, <2>3
<1> QED BY <1>1, RowsAreSound, PTL

\* A session named on the command line is attached to its terminal (resolve_tuis,
\* its explicit round).
THEOREM CommandLineWins == Spec => []ExplicitHonoured
<1>1. IInv => ExplicitHonoured
  <2> SUFFICES ASSUME IInv, NEW i \in Instances, Shown(i),
                      NEW c \in ExplicitClaims(m.projections[i], m.attachments[i]),
                      ~Rivalled(ExplicitClaims(m.projections[i], m.attachments[i]), c)
               PROVE  <<i, c[2]>> \in DOMAIN m.rows /\ RowOf(i, c[2]).tui = c[1]
    BY DEF ExplicitHonoured
  <2>1. Attributed(m, i)
    BY DEF IInv, Good, Resolved, ResolvedAt, Follows, Shown
  <2> QED BY <2>1 DEF Attributed, RowOf
<1> QED BY <1>1, RowsAreSound, PTL

\* A dismissal lasts as long as what it is one of (update_row, dismiss_selected).
THEOREM DismissalsLast == Spec => []DismissalLasts
<1>1. IInv => DismissalLasts
  BY DEF IInv
<1> QED BY <1>1, RowsAreSound, PTL
=============================================================================
