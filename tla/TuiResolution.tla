---------------------------- MODULE TuiResolution ----------------------------
(***************************************************************************)
(* How the dashboard attributes the terminals (TUIs) that are connected to *)
(* a v2 server to the root sessions of that server: the second half of     *)
(* src/src/dashboard.rs.  The module has no variables.                     *)
(*                                                                         *)
(* `ss' is a projection's sessions, a function of the session IDs in it;   *)
(* `tuis' the terminals of the last sample, a function of their keys;      *)
(* `sticky' the pairs accepted earlier, a function of the terminals that   *)
(* have one.                                                               *)
(*                                                                         *)
(* Abstracted: a path is a member of Places, and the directory and the     *)
(* workspace of a session are the set of its places, as the working and    *)
(* the startup directory of a terminal are of its own; titles.  `updated'  *)
(* is 0 if the session carries no time.                                    *)
(***************************************************************************)
EXTENDS Naturals, FiniteSets
LOCAL INSTANCE FiniteSetsExt

CONSTANTS Sessions, \* session IDs
          Tuis,     \* terminal processes: TuiKey
          Places,   \* directories
          Requests, \* question and permission request IDs
          None

ASSUME ResolutionAssumption == None \notin Sessions \cup Tuis /\ IsFiniteSet(Sessions)

Active == {"busy", "retry"}

\* ProjectedSession, as far as the dashboard reads it.
Session ==
  [parent : Sessions \cup {None}, status : {"idle", "busy", "retry"},
   places : SUBSET Places, updated : Nat, questions : SUBSET Requests,
   permissions : SUBSET Requests]

\* LikelyTui: `explicit' is the session of --session, `continue' is --continue,
\* `focus' whether the terminal can be focused.
Tui ==
  [places : SUBSET Places, explicit : Sessions \cup {None}, continue : BOOLEAN,
   stale : BOOLEAN, focus : BOOLEAN]

Attached(root) == [kind |-> "attached", root |-> root]

\* A root that is not the terminal's for certain is a hint at most.
Unresolved(ambiguous, hint) ==
  [kind |-> IF ambiguous THEN "ambiguous" ELSE "unresolved", root |-> hint]

-----------------------------------------------------------------------------
(* Roots and what is aggregated of their trees.                            *)

\* The walk up the parents ends at a root; if it comes to a session that is
\* not projected, or round a cycle, the session stands for itself.
ResolveRoot(ss, s) ==
  LET up[n \in 0 .. Cardinality(DOMAIN ss)] ==
        IF n = 0 THEN s
        ELSE LET p == ss[up[n - 1]].parent IN IF p \in DOMAIN ss THEN p ELSE up[n - 1]
      last == up[Cardinality(DOMAIN ss)]
  IN  IF ss[last].parent = None THEN last ELSE s

Tree(ss, root) == {s \in DOMAIN ss : ResolveRoot(ss, s) = root}

Roots(ss) == {ResolveRoot(ss, s) : s \in DOMAIN ss}

IsActive(ss, s) == ss[s].status \in Active

\* aggregate_roots and, for the background, aggregate_v2_roots: the root's own
\* status, the requests of its tree and how many descendants work.
Aggregate(ss, root, v2) ==
  [busy |-> IsActive(ss, root),
   background |-> IF v2 THEN Cardinality({s \in Tree(ss, root) \ {root} : IsActive(ss, s)}) ELSE 0,
   questions |-> UNION {ss[s].questions : s \in Tree(ss, root)},
   permissions |-> UNION {ss[s].permissions : s \in Tree(ss, root)}]

ActiveRoots(ss) == {ResolveRoot(ss, s) : s \in {s \in DOMAIN ss : IsActive(ss, s)}}

-----------------------------------------------------------------------------
(* What a terminal tells by itself: resolve_tui, tui_location_roots.       *)

LocationRoots(ss, tui) ==
  {ResolveRoot(ss, s) : s \in {s \in DOMAIN ss : ss[s].places \cap tui.places # {}}}

Updated(ss, root) == Max({0} \cup {ss[s].updated : s \in Tree(ss, root)})

\* The root updated after all the others, or none.
Latest(ss, roots) ==
  {r \in roots : Updated(ss, r) > 0 /\ \A o \in roots \ {r} : Updated(ss, o) < Updated(ss, r)}

TheOnly(set) == IF Cardinality(set) = 1 THEN CHOOSE x \in set : TRUE ELSE None

\* Without --session its location has to tell, and --continue with it.
Located(ss, tui, located) ==
  LET latest == TheOnly(Latest(ss, located))
      active == TheOnly(located \cap ActiveRoots(ss))
  IN  IF located = {} THEN Unresolved(FALSE, None)
      ELSE IF Cardinality(located) = 1 THEN Attached(TheOnly(located))
      ELSE IF tui.continue /\ latest # None THEN Attached(latest)
      ELSE Unresolved(TRUE, IF active # None THEN active ELSE latest)

Fallback(ss, tui) ==
  IF tui.explicit = None THEN Located(ss, tui, LocationRoots(ss, tui))
  ELSE IF tui.explicit \in DOMAIN ss THEN Attached(ResolveRoot(ss, tui.explicit))
  ELSE Unresolved(FALSE, None)

-----------------------------------------------------------------------------
(* The rounds of resolve_tuis.  A round starts from `st': the resolutions  *)
(* made so far, the roots they use and the sticky pairs.  A claim is a     *)
(* pair of a terminal and a root.                                          *)

Keep(f, keys) == [k \in DOMAIN f \cap keys |-> f[k]]

Drop(f, keys) == [k \in DOMAIN f \ keys |-> f[k]]

Put(f, g) == [k \in DOMAIN f \cup DOMAIN g |-> IF k \in DOMAIN g THEN g[k] ELSE f[k]]

Rivalled(claims, c) == \E d \in claims : d # c /\ d[2] = c[2]

Claimed(claims, t) == (CHOOSE c \in claims : c[1] = t)[2]

\* Mutant of Won: the claims of one round are not weighed against each other.
WonUnweighed(st, claims) == {c \in claims : c[2] \notin st.used}

\* A claim is accepted if no other claim of its round and no earlier one is to
\* the same root.
Won(st, claims) == {c \in claims : ~Rivalled(claims, c) /\ c[2] \notin st.used}

\* apply_claims: a terminal has one claim at most, and is resolved by it.
ApplyClaims(st, claims) ==
  LET won  == {c[1] : c \in Won(st, claims)}
      lost == {c[1] : c \in claims} \ won
  IN  [resolved |-> Put(st.resolved, [t \in won \cup lost |->
                        IF t \in won THEN Attached(Claimed(claims, t))
                        ELSE Unresolved(TRUE, Claimed(claims, t))]),
       used |-> st.used \cup {Claimed(claims, t) : t \in won},
       sticky |-> Put(Drop(st.sticky, lost), [t \in won |-> Claimed(claims, t)])]

\* --session names a session that is projected, or --continue finds one.
ExplicitClaims(ss, tuis) ==
  {<<t, Fallback(ss, tuis[t]).root>> :
     t \in {t \in DOMAIN tuis :
              /\ tuis[t].explicit # None \/ tuis[t].continue
              /\ Fallback(ss, tuis[t]).kind = "attached"}}

\* --session names a session that is not projected.
Misdirected(ss, tuis) == {t \in DOMAIN tuis : tuis[t].explicit \notin DOMAIN ss \cup {None}}

ExplicitRound(ss, tuis, sticky) ==
  LET missing == Misdirected(ss, tuis)
  IN  ApplyClaims([resolved |-> [t \in missing |-> Unresolved(FALSE, None)],
                   used |-> {}, sticky |-> Drop(sticky, missing)],
                  ExplicitClaims(ss, tuis))

\* Mutant of StickyRound: earlier pairs are forgotten.
StickyRoundForgetting(st, tuis) == st

StickyRound(st, tuis) ==
  ApplyClaims(st, {<<t, st.sticky[t]>> :
                     t \in (DOMAIN tuis \cap DOMAIN st.sticky) \ DOMAIN st.resolved})

\* apply_reciprocal_claims: a terminal and a root that have only each other
\* among the `candidates' of the terminals.
ReciprocalRound(st, candidates) ==
  LET open == DOMAIN candidates \ DOMAIN st.resolved
      of   == [t \in open |-> candidates[t] \ st.used]
  IN  ApplyClaims(st, {<<t, TheOnly(of[t])>> :
                         t \in {t \in open : /\ Cardinality(of[t]) = 1
                                             /\ \A u \in open \ {t} : TheOnly(of[t]) \notin of[u]}})

\* Mutant of Rounds: earlier pairs come before the command line.
RoundsStickyFirst(ss, tuis, sticky) ==
  LET known == Keep(sticky, {t \in DOMAIN sticky : sticky[t] \in Roots(ss)})
      start == [resolved |-> [t \in {} |-> None], used |-> {}, sticky |-> known]
      told  == {c \in ExplicitClaims(ss, tuis) : c[1] \notin DOMAIN StickyRound(start, tuis).resolved}
  IN  ApplyClaims(StickyRound(start, tuis), told)

\* The four rounds.
Rounds(ss, tuis, sticky) ==
  LET known   == Keep(sticky, {t \in DOMAIN sticky : sticky[t] \in Roots(ss)})
      located == [t \in DOMAIN tuis |-> LocationRoots(ss, tuis[t])]
      active  == [t \in DOMAIN tuis |-> located[t] \cap ActiveRoots(ss)]
      paired  == StickyRound(ExplicitRound(ss, tuis, known), tuis)
  IN  ReciprocalRound(ReciprocalRound(paired, located), active)

\* What becomes of a terminal no round has resolved.
Unclaimed(alone) == IF alone.kind = "attached" THEN Unresolved(TRUE, alone.root) ELSE alone

Completed(ss, tuis, st) ==
  LET left == DOMAIN tuis \ DOMAIN st.resolved
  IN  [resolved |-> Put(st.resolved, [t \in left |-> Unclaimed(Fallback(ss, tuis[t]))]),
       sticky |-> Drop(st.sticky, left)]

\* resolve_tuis: the resolution of every terminal, and the pairs that stick.
ResolveTuis(ss, tuis, sticky) == Completed(ss, tuis, Rounds(ss, tuis, sticky))
=============================================================================
