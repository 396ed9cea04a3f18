----------------------------- MODULE LimiterProofs -----------------------------
(***************************************************************************)
(* Of the counting of connections, for any numbers of connections, users   *)
(* and customers and any policies: the counter is exact, and whoever is    *)
(* admitted under a limit is within it.                                    *)
(*                                                                         *)
(* The unit of a connection is taken and given back by the connection      *)
(* alone, each time in one atomic addition, so the set of holders and the  *)
(* counter change together; the limit follows, because those admitted are  *)
(* holders.                                                                *)
(***************************************************************************)
EXTENDS Limiter, FiniteSetTheorems, TLAPS

(* What is known of a connection at each of its steps. *)
Fields(c) ==
    [at |-> conn[c].at, user |-> conn[c].user, seen |-> conn[c].seen,
     holds |-> conn[c].holds, bucket |-> conn[c].bucket]

UnitKnown(c) ==
    /\ conn[c].holds \in BOOLEAN
    /\ conn[c].at \in {"idle", "found"} => ~conn[c].holds
    /\ conn[c].at = "over" => conn[c].holds
    /\ conn[c].at /= "idle" => conn[c].user \in Users
    /\ conn[c].at = "found" => conn[c].seen \in UserInfo

CountInv ==
    /\ count \in [Groups -> Nat]
    /\ policy \in [Users -> UserInfo \cup {Absent}]
    /\ conn = [c \in Conns |-> Fields(c)]
    /\ \A c \in Conns : UnitKnown(c)
    /\ CountIsExact

LEMMA HoldersFinite ==
    ASSUME NEW g
    PROVE  IsFiniteSet(Holders(g)) /\ Cardinality(Holders(g)) \in Nat
<1>1. Holders(g) \subseteq Conns
  BY DEF Holders
<1> QED
  BY <1>1, LimiterAssumption, FS_Subset, FS_CardinalityType DEF LimiterAssumption

(* The next holders of each customer, when one connection takes its unit,   *)
(* gives it back, or does neither.                                          *)
LEMMA Takes ==
    ASSUME CountIsExact, NEW c \in Conns, ~conn[c].holds,
           count \in [Groups -> Nat],
           count' = [count EXCEPT ![Group(c)] = @ + 1],
           \A d \in Conns \ {c} : conn'[d].holds = conn[d].holds /\ conn'[d].user = conn[d].user,
           conn'[c].holds, conn'[c].user = conn[c].user
    PROVE  CountIsExact'
<1>1. ASSUME NEW g \in Groups PROVE count'[g] = Cardinality(Holders(g)')
  <2>1. CASE g = Group(c)
    <3>1. Holders(g)' = Holders(g) \cup {c} /\ c \notin Holders(g)
      BY <2>1 DEF Holders, Group, User
    <3>2. Cardinality(Holders(g) \cup {c}) = Cardinality(Holders(g)) + 1
      BY <3>1, HoldersFinite, FS_AddElement
    <3>3. count'[g] = count[g] + 1 /\ count[g] = Cardinality(Holders(g))
      BY <2>1 DEF CountIsExact
    <3> QED
      BY <3>1, <3>2, <3>3
  <2>2. CASE g /= Group(c)
    <3>1. Holders(g)' = Holders(g)
      BY <2>2 DEF Holders, Group, User
    <3>2. count'[g] = count[g]
      BY <2>2
    <3> QED
      BY <3>1, <3>2 DEF CountIsExact
  <2> QED
    BY <2>1, <2>2
<1> QED
  BY <1>1 DEF CountIsExact

LEMMA HolderCounts ==
    ASSUME CountIsExact, NEW c \in Conns, conn[c].holds, Group(c) \in Groups,
           count \in [Groups -> Nat]
    PROVE  count[Group(c)] > 0
<1>1. c \in Holders(Group(c))
  BY DEF Holders
<1>2. Cardinality(Holders(Group(c))) /= 0
  BY <1>1, HoldersFinite, FS_EmptySet
<1> QED
  BY <1>2, HoldersFinite DEF CountIsExact

LEMMA GivesBack ==
    ASSUME CountIsExact, NEW c \in Conns, conn[c].holds,
           count \in [Groups -> Nat],
           count' = [count EXCEPT ![Group(c)] = @ - 1],
           \A d \in Conns \ {c} : conn'[d].holds = conn[d].holds /\ conn'[d].user = conn[d].user,
           ~conn'[c].holds
    PROVE  CountIsExact'
<1>1. ASSUME NEW g \in Groups PROVE count'[g] = Cardinality(Holders(g)')
  <2>1. CASE g = Group(c)
    <3>1. Holders(g)' = Holders(g) \ {c} /\ c \in Holders(g)
      BY <2>1 DEF Holders, Group, User
    <3>2. Cardinality(Holders(g) \ {c}) = Cardinality(Holders(g)) - 1
      BY <3>1, HoldersFinite, FS_RemoveElement
    <3>3. count'[g] = count[g] - 1 /\ count[g] = Cardinality(Holders(g))
      BY <2>1 DEF CountIsExact
    <3> QED
      BY <3>1, <3>2, <3>3
  <2>2. CASE g /= Group(c)
    <3>1. Holders(g)' = Holders(g)
      BY <2>2 DEF Holders, Group, User
    <3>2. count'[g] = count[g]
      BY <2>2
    <3> QED
      BY <3>1, <3>2 DEF CountIsExact
  <2> QED
    BY <2>1, <2>2
<1> QED
  BY <1>1 DEF CountIsExact

LEMMA Leaves ==
    ASSUME CountIsExact, count' = count,
           \A d \in Conns : conn'[d].holds = conn[d].holds
                            /\ (conn[d].holds => conn'[d].user = conn[d].user)
    PROVE  CountIsExact'
<1>1. ASSUME NEW g PROVE Holders(g)' = Holders(g)
  BY DEF Holders, Group, User
<1> QED
  BY <1>1 DEF CountIsExact

-----------------------------------------------------------------------------
(* Whatever is not a step of a connection changes at most the bucket that   *)
(* it has.                                                                  *)
LEMMA OthersAct ==
    ASSUME CountInv, Delivery \/ Report \/ AutoLimit \/ UNCHANGED vars
    PROVE  /\ count' = count
           /\ policy' \in [Users -> UserInfo \cup {Absent}]
           /\ conn' = [c \in Conns |-> Fields(c)']
           /\ \A c \in Conns : /\ conn'[c].at = conn[c].at /\ conn'[c].user = conn[c].user
                               /\ conn'[c].seen = conn[c].seen /\ conn'[c].holds = conn[c].holds
<1>1. ASSUME UNCHANGED conn
      PROVE  /\ conn' = [c \in Conns |-> Fields(c)']
             /\ \A c \in Conns : /\ conn'[c].at = conn[c].at /\ conn'[c].user = conn[c].user
                                 /\ conn'[c].seen = conn[c].seen /\ conn'[c].holds = conn[c].holds
  BY <1>1 DEF CountInv, Fields
<1>2. ASSUME NEW u, conn' = Orphaned(u)
      PROVE  /\ conn' = [c \in Conns |-> Fields(c)']
             /\ \A c \in Conns : /\ conn'[c].at = conn[c].at /\ conn'[c].user = conn[c].user
                                 /\ conn'[c].seen = conn[c].seen /\ conn'[c].holds = conn[c].holds
  <2>1. ASSUME NEW c \in Conns
        PROVE  /\ conn'[c].at = conn[c].at /\ conn'[c].user = conn[c].user
               /\ conn'[c].seen = conn[c].seen /\ conn'[c].holds = conn[c].holds
               /\ conn'[c] = Fields(c)'
    <3>1. conn[c] = Fields(c)
      BY DEF CountInv
    <3>2. conn'[c] = IF conn[c].user = u /\ conn[c].bucket = InHub
                     THEN [conn[c] EXCEPT !.bucket = hub[u]] ELSE conn[c]
      BY <1>2 DEF Orphaned
    <3> QED
      BY <3>1, <3>2 DEF Fields
  <2>2. conn' = [c \in Conns |-> conn'[c]]
    BY <1>2 DEF Orphaned
  <2> QED
    BY <2>1, <2>2
<1>3. CASE Delivery
  <2>1. count' = count /\ conn' = conn
    BY <1>3 DEF Delivery, SyncStore, SyncBucket
  <2>2. policy' \in [Users -> UserInfo \cup {Absent}]
    <3>1. CASE \E new \in Deliveries : SyncStore(new)
      BY <3>1, LimiterAssumption DEF LimiterAssumption, SyncStore
    <3>2. CASE \E u \in Users : SyncBucket(u)
      BY <3>2 DEF SyncBucket, CountInv
    <3> QED
      BY <1>3, <3>1, <3>2 DEF Delivery
  <2> QED
    BY <1>1, <2>1, <2>2
<1>4. CASE Report
  <2>1. UNCHANGED <<count, policy>>
    BY <1>4 DEF Report, ReportStart, ReportDelete, ReportClear, ReportLook, Limit, ReportKeeps, EvaluateKeeps
  <2>2. \/ UNCHANGED conn
        \/ conn' = Orphaned(report.doomed)
    BY <1>4 DEF Report, ReportStart, ReportDelete, ReportClear, ReportLook, Limit, EvaluateKeeps
  <2> QED
    BY <1>1, <1>2, <2>1, <2>2 DEF CountInv
<1>5. CASE AutoLimit
  <2>1. UNCHANGED <<count, policy>>
    BY <1>5 DEF AutoLimit, TimerFires, SpeedDenied, SpeedMark, SpeedWrite, SpeedStore, EvaluateKeeps, SpeedKeeps
  <2>2. UNCHANGED conn \/ \E u : conn' = Orphaned(u)
    BY <1>5 DEF AutoLimit, TimerFires, SpeedDenied, SpeedMark, SpeedWrite, SpeedStore, EvaluateKeeps
  <2> QED
    BY <1>1, <1>2, <2>1, <2>2 DEF CountInv
<1>6. CASE UNCHANGED vars
  BY <1>1, <1>6 DEF vars, CountInv
<1> QED
  BY <1>3, <1>4, <1>5, <1>6

LEMMA OthersKeepCount ==
    ASSUME CountInv, Delivery \/ Report \/ AutoLimit \/ UNCHANGED vars
    PROVE  CountInv'
<1>1. CountIsExact'
  BY OthersAct, Leaves DEF CountInv
<1>2. \A c \in Conns : UnitKnown(c)'
  BY OthersAct DEF CountInv, UnitKnown
<1> QED
  BY <1>1, <1>2, OthersAct DEF CountInv

(* A step of one connection: what it makes of it. *)
LEMMA OwnAct ==
    ASSUME CountInv, NEW c \in Conns, Connection(c)
    PROVE  /\ policy' = policy
           /\ conn' = [d \in Conns |-> Fields(d)']
           /\ \A d \in Conns \ {c} : conn'[d] = conn[d]
<1>1. conn[c] = Fields(c) /\ conn = [d \in Conns |-> conn[d]]
  BY DEF CountInv
<1>2. /\ policy' = policy
      /\ conn' = [d \in Conns |-> conn'[d]]
      /\ \A d \in Conns \ {c} : conn'[d] = conn[d]
  <2>1. CASE \E u \in Users : Lookup(c, u)
    BY <1>1, <2>1 DEF Lookup
  <2>2. CASE Count(c) \/ Undo(c) \/ Record(c)
    BY <1>1, <2>2 DEF Count, Undo, Record
  <2>3. CASE GetBucket(c) \/ End(c) \/ WaitFails(c) \/ Release(c)
    BY <1>1, <2>3 DEF GetBucket, End, WaitFails, Release, GoTo
  <2> QED
    BY <2>1, <2>2, <2>3 DEF Connection
<1>3. conn'[c] = Fields(c)'
  <2>1. CASE \E u \in Users : Lookup(c, u)
    BY <1>1, <2>1 DEF Lookup, Fields, Idle
  <2>2. CASE Count(c) \/ Undo(c) \/ Record(c)
    BY <1>1, <2>2 DEF Count, Undo, Record, Fields, Idle
  <2>3. CASE GetBucket(c) \/ End(c) \/ WaitFails(c) \/ Release(c)
    BY <1>1, <2>3 DEF GetBucket, End, WaitFails, Release, GoTo, Fields, Idle
  <2> QED
    BY <2>1, <2>2, <2>3 DEF Connection
<1>4. \A d \in Conns : conn'[d] = Fields(d)'
  <2>1. \A d \in Conns \ {c} : conn'[d] = Fields(d)'
    BY <1>2 DEF CountInv, Fields
  <2> QED
    BY <1>3, <2>1
<1> QED
  BY <1>2, <1>4

LEMMA OwnKeepsCount ==
    ASSUME CountInv, NEW c \in Conns, Connection(c)
    PROVE  CountInv'
<1>a. /\ count \in [Groups -> Nat] /\ UnitKnown(c) /\ CountIsExact
      /\ conn[c] = Fields(c) /\ conn = [d \in Conns |-> conn[d]]
  BY DEF CountInv
<1>b. /\ policy' = policy /\ policy \in [Users -> UserInfo \cup {Absent}]
      /\ conn' = [d \in Conns |-> Fields(d)']
      /\ \A d \in Conns \ {c} : conn'[d] = conn[d]
  BY OwnAct DEF CountInv
<1>c. /\ count' \in [Groups -> Nat] /\ UnitKnown(c)' /\ CountIsExact'
      => CountInv'
  <2>1. \A d \in Conns \ {c} : UnitKnown(d)'
    BY <1>b DEF CountInv, UnitKnown
  <2> QED
    BY <1>b, <2>1 DEF CountInv
<1>d. conn[c].at /= "idle" => Group(c) \in Groups
  BY <1>a, LimiterAssumption DEF UnitKnown, Group, User, LimiterAssumption
<1>1. ASSUME NEW u \in Users, Lookup(c, u) PROVE CountInv'
  <2>1. conn'[c] = [Idle EXCEPT !.at = IF policy[u] = Absent THEN "acquired" ELSE "found",
                                !.user = u, !.seen = policy[u]]
    BY <1>1, <1>a DEF Lookup
  <2>2. count' = count /\ conn[c].holds = FALSE
    BY <1>1, <1>a DEF Lookup, At, UnitKnown
  <2>3. policy[u] /= Absent => policy[u] \in UserInfo
    BY <1>b
  <2>4. UnitKnown(c)'
    BY <2>1, <2>3 DEF UnitKnown, Idle
  <2>5. CountIsExact'
    <3>1. conn'[c].holds = FALSE
      BY <2>1 DEF Idle
    <3>2. \A d \in Conns : conn'[d].holds = conn[d].holds
                          /\ (conn[d].holds => conn'[d].user = conn[d].user)
      BY <1>b, <2>2, <3>1
    <3> QED
      BY <1>a, <2>2, <3>2, Leaves
  <2> QED
    BY <1>a, <1>c, <2>2, <2>4, <2>5
<1>2. CASE Count(c)
  <2>1. /\ conn[c].at = "found" /\ ~conn[c].holds
        /\ count' = [count EXCEPT ![Group(c)] = @ + 1]
        /\ conn'[c].holds /\ conn'[c].user = conn[c].user
        /\ conn'[c].at \in {"over", "acquired"} /\ conn'[c].holds \in BOOLEAN
    BY <1>2, <1>a DEF Count, At, UnitKnown
  <2>2. CountIsExact'
    BY <1>a, <1>b, <2>1, Takes
  <2>3. count' \in [Groups -> Nat]
    BY <1>a, <1>d, <2>1
  <2>4. UnitKnown(c)'
    BY <1>a, <2>1 DEF UnitKnown
  <2> QED
    BY <1>c, <2>2, <2>3, <2>4
<1>3. CASE Undo(c)
  <2>1. /\ conn[c].at = "over" /\ conn[c].holds
        /\ count' = [count EXCEPT ![Group(c)] = @ - 1]
        /\ conn'[c] = Idle
    BY <1>3, <1>a DEF Undo, At, UnitKnown
  <2>2. CountIsExact'
    <3>1. ~conn'[c].holds
      BY <2>1 DEF Idle
    <3>2. \A d \in Conns \ {c} : conn'[d].holds = conn[d].holds /\ conn'[d].user = conn[d].user
      BY <1>b
    <3> QED
      BY <1>a, <2>1, <3>1, <3>2, GivesBack
  <2>3. count[Group(c)] > 0
    BY <1>a, <1>d, <2>1, HolderCounts
  <2>4. count' \in [Groups -> Nat]
    <3>1. count[Group(c)] - 1 \in Nat
      BY <1>a, <1>d, <2>1, <2>3
    <3> QED
      BY <1>a, <2>1, <3>1
  <2>5. UnitKnown(c)'
    BY <2>1 DEF UnitKnown, Idle
  <2> QED
    BY <1>c, <2>2, <2>4, <2>5
<1>4. CASE Record(c) \/ GetBucket(c) \/ End(c) \/ WaitFails(c)
  <2>1. /\ count' = count
        /\ conn'[c].holds = conn[c].holds /\ conn'[c].user = conn[c].user
        /\ conn[c].at /= "idle" /\ conn'[c].at \in {"checked", "live", "ended"}
    <3>1. CASE Record(c)
      BY <1>a, <3>1 DEF Record, At, Fields
    <3>2. CASE GetBucket(c)
      BY <1>a, <3>2 DEF GetBucket, At
    <3>3. CASE End(c) \/ WaitFails(c)
      BY <1>a, <3>3 DEF End, WaitFails, GoTo, At, Fields
    <3> QED
      BY <1>4, <3>1, <3>2, <3>3
  <2>2. CountIsExact'
    BY <1>a, <1>b, <2>1, Leaves
  <2>3. UnitKnown(c)'
    BY <1>a, <2>1 DEF UnitKnown
  <2> QED
    BY <1>a, <1>c, <2>1, <2>2, <2>3
<1>5. CASE Release(c)
  <2>1. conn'[c] = Idle /\ conn[c].at = "ended"
    BY <1>5, <1>a DEF Release, At
  <2>2. UnitKnown(c)'
    BY <2>1 DEF UnitKnown, Idle
  <2>3. CASE conn[c].holds
    <3>1. count[Group(c)] > 0
      BY <1>a, <1>d, <2>1, <2>3, HolderCounts
    <3>2. count' = [count EXCEPT ![Group(c)] = @ - 1]
      BY <1>5, <2>3, <3>1 DEF Release
    <3>3. CountIsExact'
      <4>1. ~conn'[c].holds
        BY <2>1 DEF Idle
      <4>2. \A d \in Conns \ {c} : conn'[d].holds = conn[d].holds /\ conn'[d].user = conn[d].user
        BY <1>b
      <4> QED
        BY <1>a, <2>3, <3>2, <4>1, <4>2, GivesBack
    <3>4. count' \in [Groups -> Nat]
      <4>1. count[Group(c)] - 1 \in Nat
        BY <1>a, <1>d, <2>1, <3>1
      <4> QED
        BY <1>a, <3>2, <4>1
    <3> QED
      BY <1>c, <2>2, <3>3, <3>4
  <2>4. CASE ~conn[c].holds
    <3>1. count' = count
      BY <1>5, <1>a, <2>4 DEF Release
    <3>2. CountIsExact'
      <4>1. conn'[c].holds = FALSE /\ conn[c].holds = FALSE
        BY <1>a, <2>1, <2>4 DEF Idle, UnitKnown
      <4>2. \A d \in Conns : conn'[d].holds = conn[d].holds
                            /\ (conn[d].holds => conn'[d].user = conn[d].user)
        BY <1>b, <4>1
      <4> QED
        BY <1>a, <3>1, <4>2, Leaves
    <3> QED
      BY <1>a, <1>c, <2>2, <3>1, <3>2
  <2> QED
    BY <2>3, <2>4
<1> QED
  BY <1>1, <1>2, <1>3, <1>4, <1>5 DEF Connection

(* Only the step that counts admits under a limit. *)
LEMMA AdmissionCounts ==
    ASSUME CountInv, [Next]_vars, NEW c \in Conns, ~Admitted(c), Admitted(c)'
    PROVE  Count(c)
<1>1. CASE Delivery \/ Report \/ AutoLimit \/ UNCHANGED vars
  BY <1>1, OthersAct DEF Admitted
<1>2. ASSUME NEW d \in Conns \ {c}, Connection(d) PROVE FALSE
  BY <1>2, OwnAct DEF Admitted
<1>3. CASE Connection(c)
  <2>a. conn[c] = Fields(c) /\ conn = [d \in Conns |-> conn[d]] /\ UnitKnown(c)
    BY DEF CountInv
  <2>1. ASSUME NEW u \in Users, Lookup(c, u) PROVE FALSE
    BY <2>1, <2>a DEF Lookup, Idle, Admitted
  <2>2. CASE Undo(c) \/ Release(c)
    BY <2>2, <2>a DEF Undo, Release, Idle, Admitted
  <2>3. CASE Record(c)
    BY <2>3, <2>a DEF Record, At, Admitted, Fields
  <2>4. CASE GetBucket(c)
    BY <2>4, <2>a DEF GetBucket, At, Admitted
  <2>5. CASE End(c) \/ WaitFails(c)
    <3>1. conn'[c].at = "ended"
      BY <2>5, <2>a DEF End, WaitFails, GoTo, Fields
    <3> QED
      BY <3>1 DEF Admitted
  <2> QED
    BY <1>3, <2>1, <2>2, <2>3, <2>4, <2>5 DEF Connection
<1> QED
  BY <1>1, <1>2, <1>3 DEF Next

LEMMA InitCounts == Init => CountInv
<1> SUFFICES ASSUME Init PROVE CountInv
  OBVIOUS
<1>1. \A c \in Conns : conn[c] = Idle
  BY DEF Init
<1>2. \A g \in Groups : Holders(g) = {}
  BY <1>1 DEF Holders, Idle
<1>3. CountIsExact
  BY <1>2, FS_EmptySet DEF Init, CountIsExact
<1>4. ASSUME NEW c \in Conns PROVE UnitKnown(c) /\ conn[c] = Fields(c)
  <2>1. conn[c] = Idle
    BY <1>1
  <2>2. UnitKnown(c)
    BY <2>1 DEF UnitKnown, Idle
  <2>3. conn[c] = Fields(c)
    BY <2>1 DEF Fields, Idle
  <2> QED
    BY <2>2, <2>3
<1> QED
  BY <1>3, <1>4 DEF Init, CountInv

-----------------------------------------------------------------------------
(* The counter of a customer is exact, and what is known of its connections *)
(* at each of their steps holds, on every path through AcquireConn and      *)
(* ReleaseConn.                                                             *)
THEOREM CountInvariant == Spec => []CountInv
<1>1. ASSUME CountInv, [Next]_vars PROVE CountInv'
  BY <1>1, OwnKeepsCount, OthersKeepCount DEF Next
<1> QED
  BY <1>1, InitCounts, PTL DEF Spec

(* None leaks and none is released twice, however the connections of a      *)
(* customer meet.                                                           *)
THEOREM CountAlwaysExact == Spec => []CountIsExact
<1>1. CountInv => CountIsExact
  BY DEF CountInv
<1> QED
  BY <1>1, CountInvariant, PTL

(* Whoever is admitted under a limit is within it, over all the emails of   *)
(* the customer.                                                            *)
THEOREM LimitAlwaysKept == Spec => AdmittedWithinLimit
<1> DEFINE Step == \A c \in Conns : ~Admitted(c) /\ Admitted(c)' /\ conn[c].seen.connLimit > 0 =>
                      Cardinality({d \in Conns : Admitted(d)' /\ Group(d)' = Group(c)})
                         <= conn[c].seen.connLimit
<1>1. ASSUME CountInv, CountInv', [Next]_vars PROVE [Step]_vars
  <2> SUFFICES ASSUME NEW c \in Conns, ~Admitted(c), Admitted(c)', conn[c].seen.connLimit > 0
               PROVE  Cardinality({d \in Conns : Admitted(d)' /\ Group(d)' = Group(c)})
                         <= conn[c].seen.connLimit
    OBVIOUS
  <2>1. Count(c)
    BY <1>1, AdmissionCounts
  <2>2. /\ conn[c].at = "found" /\ conn[c].user \in Users /\ conn[c].seen.connLimit \in Nat
        /\ conn = [d \in Conns |-> conn[d]] /\ conn[c] = Fields(c) /\ count \in [Groups -> Nat]
    BY <1>1, <2>1 DEF Count, At, CountInv, UnitKnown, UserInfo
  <2>3. Group(c) \in Groups
    BY <2>2, LimiterAssumption DEF Group, User, LimiterAssumption
  <2>4. count'[Group(c)] <= conn[c].seen.connLimit
    <3>1. count'[Group(c)] \in Nat
      BY <1>1, <2>3 DEF CountInv
    <3>2. ~OverLimit(c, count'[Group(c)])
      BY <2>1, <2>2 DEF Count, Admitted
    <3> QED
      BY <2>2, <3>1, <3>2 DEF OverLimit
  <2>5. ASSUME NEW g \in Groups, g = Group(c)
        PROVE  Cardinality({d \in Conns : Admitted(d)' /\ Group(d)' = g}) <= count'[g]
    <3>1. {d \in Conns : Admitted(d)' /\ Group(d)' = g} \subseteq Holders(g)'
      BY DEF Holders, Admitted
    <3>2. IsFiniteSet(Holders(g)') /\ Cardinality(Holders(g)') = count'[g]
      <4>1. Holders(g)' \subseteq Conns
        BY DEF Holders
      <4>2. IsFiniteSet(Holders(g)')
        BY <4>1, LimiterAssumption, FS_Subset DEF LimiterAssumption
      <4> QED
        BY <1>1, <4>2 DEF CountInv, CountIsExact
    <3> QED
      BY <3>1, <3>2, FS_Subset
  <2>6. ASSUME NEW g \in Groups, g = Group(c)
        PROVE  Cardinality({d \in Conns : Admitted(d)' /\ Group(d)' = g}) <= conn[c].seen.connLimit
    <3>1. Cardinality({d \in Conns : Admitted(d)' /\ Group(d)' = g}) <= count'[g]
      BY <2>5, <2>6
    <3>2. count'[g] <= conn[c].seen.connLimit /\ count'[g] \in Nat
      BY <1>1, <2>4, <2>6 DEF CountInv
    <3>3. Cardinality({d \in Conns : Admitted(d)' /\ Group(d)' = g}) \in Nat
      <4>1. IsFiniteSet({d \in Conns : Admitted(d)' /\ Group(d)' = g})
        BY LimiterAssumption, FS_Subset DEF LimiterAssumption
      <4> QED
        BY <4>1, FS_CardinalityType
    <3> HIDE DEF Step
    <3> QED
      BY <2>2, <3>1, <3>2, <3>3
  <2> QED
    BY <2>3, <2>6, Zenon
<1> QED
  BY <1>1, CountInvariant, PTL DEF Spec, AdmittedWithinLimit

-----------------------------------------------------------------------------
(* Automatic limits. The report and the monitor are one goroutine, so no    *)
(* user is marked while the report looks for idle buckets: whom it found    *)
(* idle has no mark when its bucket goes.                                   *)
Calls == [at : {"none", "check", "write", "store"}, user : Users \cup {NoUser},
          restore : BOOLEAN, to : Rates]

CallsKnown ==
    /\ setter \in [Users \cup {Monitor} -> Calls]
    /\ \A s \in Users \cup {Monitor} :
          setter[s].at /= "none" => setter[s].user \in Users /\ setter[s].restore = (s /= Monitor)
    /\ setter[Monitor].at /= "none" => report.at = "idle"

ReportKnown ==
    /\ report \in [at : {"idle", "scan"}, todo : SUBSET Users, doomed : Users \cup {NoUser}]
    /\ report.at = "idle" => report.doomed = NoUser
    /\ report.doomed \notin auto
    /\ auto \subseteq Users

BucketsKnown ==
    /\ hub \in [Users -> Rates \cup {NoBucket}]
    /\ \A c \in Conns : conn[c].at = "checked" => conn[c].seen \in UserInfo \cup {Absent}
    /\ syncing \subseteq Users /\ \A u \in syncing : policy[u] /= Absent

AutoInv == CountInv /\ CallsKnown /\ ReportKnown /\ BucketsKnown /\ AutoLimitKeepsBucket

LEMMA RatesAreBuckets ==
    ASSUME NEW p \in UserInfo \cup {Absent}
    PROVE  /\ StaticRate(p) \in Rates /\ NoBucket \notin Rates /\ NoUser \notin Users
           /\ Monitor \notin Users
BY LimiterAssumption DEF LimiterAssumption, StaticRate, UserInfo, Rates

(* Connections store buckets and remove none. *)
LEMMA ConnectionKeepsAuto ==
    ASSUME AutoInv, NEW c \in Conns, Connection(c)
    PROVE  CallsKnown' /\ ReportKnown' /\ BucketsKnown' /\ AutoLimitKeepsBucket'
<1>1. UNCHANGED <<monitoring, syncing, policy>>
  BY DEF Connection, Lookup, Count, Undo, Record, GetBucket, End, WaitFails, Release
<1>2. CallsKnown' /\ ReportKnown'
  BY <1>1 DEF AutoInv, CallsKnown, ReportKnown, monitoring
<1>3. \/ hub' = hub
      \/ /\ conn[c].at = "checked" /\ conn[c].user \in Users
         /\ hub' = [hub EXCEPT ![conn[c].user] = IF @ = NoBucket THEN StaticRate(conn[c].seen) ELSE @]
  <2>1. CASE GetBucket(c)
    BY <2>1 DEF GetBucket, At, User, AutoInv, CountInv, UnitKnown
  <2>2. CASE ~GetBucket(c)
    BY <2>2 DEF Connection, Lookup, Count, Undo, Record, End, WaitFails, Release
  <2> QED
    BY <2>1, <2>2
<1>4. /\ hub' \in [Users -> Rates \cup {NoBucket}]
      /\ \A u \in Users : hub[u] /= NoBucket => hub'[u] /= NoBucket
  <2>1. conn[c].at = "checked" => StaticRate(conn[c].seen) \in Rates
    BY RatesAreBuckets DEF AutoInv, BucketsKnown
  <2> QED
    BY <1>3, <2>1 DEF AutoInv, BucketsKnown
<1>5. ASSUME NEW d \in Conns, conn'[d].at = "checked" PROVE conn'[d].seen \in UserInfo \cup {Absent}
  <2>1. CASE d /= c
    BY <1>5, <2>1, OwnAct DEF AutoInv, BucketsKnown
  <2>2. CASE d = c
    <3>a. conn[c] = Fields(c) /\ conn = [e \in Conns |-> conn[e]]
      BY DEF AutoInv, CountInv
    <3>b. conn[c].at /= "idle" => policy[conn[c].user] \in UserInfo \cup {Absent}
      BY DEF AutoInv, CountInv, UnitKnown
    <3>1. CASE Record(c)
      BY <1>5, <2>2, <3>a, <3>b, <3>1 DEF Record, At, User, Fields
    <3>2. CASE \E u \in Users : Lookup(c, u)
      <4> PICK u \in Users : Lookup(c, u)
        BY <3>2
      <4>1. conn'[c].at \in {"acquired", "found"}
        BY <3>a DEF Lookup, Idle
      <4> QED
        BY <1>5, <2>2, <4>1
    <3>6. CASE Undo(c) \/ Release(c)
      <4>1. conn'[c] = Idle
        BY <3>a, <3>6 DEF Undo, Release
      <4> QED
        BY <1>5, <2>2, <4>1 DEF Idle
    <3>3. CASE Count(c)
      BY <1>5, <2>2, <3>a, <3>3 DEF Count, Fields
    <3>4. CASE GetBucket(c)
      BY <1>5, <2>2, <3>a, <3>4 DEF GetBucket, Fields
    <3>5. CASE End(c) \/ WaitFails(c)
      BY <1>5, <2>2, <3>a, <3>5 DEF End, WaitFails, GoTo, Fields
    <3> QED
      BY <3>1, <3>2, <3>3, <3>4, <3>5, <3>6 DEF Connection
  <2> QED
    BY <2>1, <2>2
<1>6. BucketsKnown'
  BY <1>1, <1>4, <1>5 DEF AutoInv, BucketsKnown
<1>7. AutoLimitKeepsBucket'
  BY <1>1, <1>4 DEF AutoInv, AutoLimitKeepsBucket, ReportKnown, monitoring
<1> QED
  BY <1>2, <1>6, <1>7

(* A delivery writes buckets and removes none. *)
LEMMA DeliveryKeepsAuto ==
    ASSUME AutoInv, Delivery
    PROVE  CallsKnown' /\ ReportKnown' /\ BucketsKnown' /\ AutoLimitKeepsBucket'
<1>1. UNCHANGED <<monitoring, conn>>
  BY DEF Delivery, SyncStore, SyncBucket
<1>2. CallsKnown' /\ ReportKnown'
  BY <1>1 DEF AutoInv, CallsKnown, ReportKnown, monitoring
<1>3. /\ hub' \in [Users -> Rates \cup {NoBucket}]
      /\ \A u \in Users : hub[u] /= NoBucket => hub'[u] /= NoBucket
      /\ syncing' \subseteq Users /\ \A u \in syncing' : policy'[u] /= Absent
  <2>1. CASE \E new \in Deliveries : SyncStore(new)
    BY <2>1 DEF SyncStore, AutoInv, BucketsKnown
  <2>2. ASSUME NEW u \in Users, SyncBucket(u) PROVE <1>3
    <3>1. policy[u] \in UserInfo
      BY <2>2 DEF SyncBucket, AutoInv, BucketsKnown, CountInv
    <3>2. (IF policy[u].denied THEN "cut" ELSE policy[u].rate) \in Rates /\ NoBucket \notin Rates
      BY <3>1, LimiterAssumption DEF LimiterAssumption, UserInfo, Rates
    <3> QED
      BY <2>2, <3>2 DEF SyncBucket, Write, AutoInv, BucketsKnown
  <2> QED
    BY <2>1, <2>2 DEF Delivery
<1>4. BucketsKnown'
  BY <1>1, <1>3 DEF AutoInv, BucketsKnown
<1>5. AutoLimitKeepsBucket'
  BY <1>1, <1>3 DEF AutoInv, AutoLimitKeepsBucket, ReportKnown, monitoring
<1> QED
  BY <1>2, <1>4, <1>5

LEMMA ReportKeepsAuto ==
    ASSUME AutoInv, Report
    PROVE  CallsKnown' /\ ReportKnown' /\ BucketsKnown' /\ AutoLimitKeepsBucket'
<1>a. /\ CallsKnown /\ ReportKnown /\ BucketsKnown /\ AutoLimitKeepsBucket
      /\ NoUser \notin Users /\ Monitor \notin Users
  BY LimiterAssumption DEF AutoInv, LimiterAssumption
<1>b. \A c \in Conns : conn'[c].at = conn[c].at /\ conn'[c].seen = conn[c].seen
  BY OthersAct DEF AutoInv
<1>1. CASE ReportStart
  <2>1. /\ report' = [at |-> "scan", todo |-> {u \in Users : hub[u] /= NoBucket}, doomed |-> NoUser]
        /\ setter[Monitor].at = "none"
        /\ UNCHANGED <<hub, policy, syncing, setter, auto>>
    BY <1>1 DEF ReportStart, ReportAt, ReportKeeps
  <2> QED
    BY <1>a, <1>b, <2>1 DEF CallsKnown, ReportKnown, BucketsKnown, AutoLimitKeepsBucket
<1>2. ASSUME NEW u \in Users, ReportLook(u)
      PROVE  CallsKnown' /\ ReportKnown' /\ BucketsKnown' /\ AutoLimitKeepsBucket'
  <2>1. /\ report' = [at |-> "scan", todo |-> report.todo \ {u},
                      doomed |-> IF IsIdle(u) THEN u ELSE NoUser]
        /\ report.at = "scan"
        /\ UNCHANGED <<hub, policy, syncing, setter, auto>>
    BY <1>2 DEF ReportLook, Reporting, ReportAt, ReportKeeps
  <2>2. IsIdle(u) => u \notin auto
    BY DEF IsIdle
  <2>3. ReportKnown'
    BY <1>a, <2>1, <2>2 DEF ReportKnown
  <2> QED
    BY <1>a, <1>b, <2>1, <2>3 DEF CallsKnown, BucketsKnown, AutoLimitKeepsBucket
<1>3. CASE ReportDelete
  <2>1. /\ report' = [at |-> "scan", todo |-> report.todo, doomed |-> NoUser]
        /\ report.at = "scan" /\ report.doomed \in Users /\ report.doomed \notin auto
        /\ hub' = [hub EXCEPT ![report.doomed] = NoBucket]
        /\ UNCHANGED <<policy, syncing, setter, auto>>
    BY <1>a, <1>3 DEF ReportDelete, Reporting, ReportAt, ReportKeeps, ReportKnown
  <2>2. ReportKnown' /\ CallsKnown'
    BY <1>a, <2>1 DEF ReportKnown, CallsKnown
  <2>3. BucketsKnown'
    BY <1>a, <1>b, <2>1 DEF BucketsKnown
  <2>4. AutoLimitKeepsBucket'
    BY <1>a, <2>1 DEF AutoLimitKeepsBucket, ReportKnown, BucketsKnown
  <2> QED
    BY <2>2, <2>3, <2>4
<1>4. CASE ReportClear
  <2>1. /\ report' = [at |-> "idle", todo |-> {}, doomed |-> NoUser] /\ report.at = "scan"
        /\ UNCHANGED <<hub, policy, syncing, setter, auto>>
    BY <1>4 DEF ReportClear, Reporting, ReportAt, ReportKeeps
  <2> QED
    BY <1>a, <1>b, <2>1 DEF CallsKnown, ReportKnown, BucketsKnown, AutoLimitKeepsBucket
<1>5. ASSUME NEW u \in Users, Limit(u)
      PROVE  CallsKnown' /\ ReportKnown' /\ BucketsKnown' /\ AutoLimitKeepsBucket'
  <2>1. /\ report.at = "idle" /\ setter[Monitor].at = "none"
        /\ setter' = [setter EXCEPT ![Monitor] =
                         [at |-> "check", user |-> u, restore |-> FALSE, to |-> "automatic"]]
        /\ UNCHANGED <<hub, policy, syncing, report, auto>>
    BY <1>5 DEF Limit, Reporting, SpeedCall, EvaluateKeeps
  <2>2. [at |-> "check", user |-> u, restore |-> FALSE, to |-> "automatic"] \in Calls
    BY DEF Calls, Rates
  <2>3. CallsKnown'
    BY <1>a, <2>1, <2>2 DEF CallsKnown
  <2>4. ReportKnown' /\ BucketsKnown'
    BY <1>a, <1>b, <2>1 DEF ReportKnown, BucketsKnown
  <2>5. AutoLimitKeepsBucket'
    BY <1>a, <2>1 DEF AutoLimitKeepsBucket
  <2> QED
    BY <2>3, <2>4, <2>5
<1> QED
  BY <1>1, <1>2, <1>3, <1>4, <1>5 DEF Report

LEMMA SpeedKeepsAuto ==
    ASSUME AutoInv, AutoLimit
    PROVE  CallsKnown' /\ ReportKnown' /\ BucketsKnown' /\ AutoLimitKeepsBucket'
<1>a. /\ CallsKnown /\ ReportKnown /\ BucketsKnown /\ AutoLimitKeepsBucket
      /\ NoUser \notin Users /\ Monitor \notin Users /\ NoBucket \notin Rates
      /\ policy \in [Users -> UserInfo \cup {Absent}]
  BY LimiterAssumption DEF AutoInv, CountInv, LimiterAssumption
<1>b. \A c \in Conns : conn'[c].at = conn[c].at /\ conn'[c].seen = conn[c].seen
  BY OthersAct DEF AutoInv
<1>c. NoCall \in Calls /\ NoCall.at = "none"
  BY DEF NoCall, Calls, Rates
<1>1. ASSUME NEW u \in Users, TimerFires(u)
      PROVE  CallsKnown' /\ ReportKnown' /\ BucketsKnown' /\ AutoLimitKeepsBucket'
  <2>1. /\ setter' = [setter EXCEPT ![u] =
                         [at |-> "check", user |-> u, restore |-> TRUE, to |-> "automatic"]]
        /\ UNCHANGED <<hub, policy, syncing, report, auto>>
    BY <1>1 DEF TimerFires, SpeedCall, EvaluateKeeps
  <2>2. [at |-> "check", user |-> u, restore |-> TRUE, to |-> "automatic"] \in Calls
    BY DEF Calls, Rates
  <2>3. setter'[Monitor] = setter[Monitor]
    BY <1>a, <2>1 DEF CallsKnown
  <2>4. CallsKnown'
    BY <1>a, <2>1, <2>2, <2>3 DEF CallsKnown
  <2>5. ReportKnown' /\ BucketsKnown'
    BY <1>a, <1>b, <2>1 DEF ReportKnown, BucketsKnown
  <2>6. AutoLimitKeepsBucket'
    BY <1>a, <2>1, <2>3 DEF AutoLimitKeepsBucket
  <2> QED
    BY <2>4, <2>5, <2>6
<1>2. ASSUME NEW s \in Users \cup {Monitor}, SpeedDenied(s)
      PROVE  CallsKnown' /\ ReportKnown' /\ BucketsKnown' /\ AutoLimitKeepsBucket'
  <2>1. /\ setter[s].at = "check" /\ setter' = [setter EXCEPT ![s] = NoCall]
        /\ hub' = [hub EXCEPT ![setter[s].user] = IF @ = NoBucket THEN NoBucket ELSE "cut"]
        /\ UNCHANGED <<policy, syncing, report, auto>>
    BY <1>2 DEF SpeedDenied, Write, Returns, SpeedKeeps
  <2>2. CallsKnown'
    BY <1>a, <1>c, <2>1 DEF CallsKnown
  <2>3. "cut" \in Rates
    BY DEF Rates
  <2>4. BucketsKnown' /\ \A u \in Users : hub[u] /= NoBucket => hub'[u] /= NoBucket
    BY <1>a, <1>b, <2>1, <2>3 DEF BucketsKnown
  <2>5. ReportKnown'
    BY <1>a, <2>1 DEF ReportKnown
  <2>6. setter[Monitor].at \in {"write", "store"} => setter'[Monitor] = setter[Monitor]
    BY <1>a, <2>1 DEF CallsKnown
  <2>7. AutoLimitKeepsBucket'
    BY <1>a, <2>1, <2>4, <2>6 DEF AutoLimitKeepsBucket, ReportKnown
  <2> QED
    BY <2>2, <2>4, <2>5, <2>7
<1>3. ASSUME NEW s \in Users \cup {Monitor}, SpeedMark(s)
      PROVE  CallsKnown' /\ ReportKnown' /\ BucketsKnown' /\ AutoLimitKeepsBucket'
  <2> DEFINE u == setter[s].user
             to == IF setter[s].restore THEN StaticRate(policy[u]) ELSE "automatic"
  <2>1. /\ setter[s].at = "check" /\ u \in Users /\ setter[s].restore = (s /= Monitor)
        /\ auto' = IF setter[s].restore THEN auto \ {u} ELSE auto \cup {u}
        /\ setter' = [setter EXCEPT ![s] = [setter[s] EXCEPT !.at = "write", !.to = to]]
        /\ UNCHANGED <<hub, policy, syncing, report>>
    BY <1>a, <1>3 DEF SpeedMark, SpeedKeeps, CallsKnown
  <2>2. to \in Rates
    BY <1>a, <2>1, RatesAreBuckets DEF Rates
  <2> HIDE DEF to
  <2>b. setter[s] \in Calls
    BY <1>a DEF CallsKnown
  <2>3. [setter[s] EXCEPT !.at = "write", !.to = to] \in Calls
    <3> HIDE DEF u
    <3> QED
      BY <2>2, <2>b DEF Calls
  <2>4. CallsKnown'
    BY <1>a, <2>1, <2>3 DEF CallsKnown, Calls
  <2>5. ReportKnown'
    <3>1. CASE s = Monitor
      <4>1. report.at = "idle" /\ report.doomed = NoUser
        BY <1>a, <2>1, <3>1 DEF CallsKnown, ReportKnown
      <4> QED
        BY <1>a, <2>1, <3>1, <4>1 DEF ReportKnown
    <3>2. CASE s /= Monitor
      BY <1>a, <2>1, <3>2 DEF ReportKnown
    <3> QED
      BY <3>1, <3>2
  <2>6. BucketsKnown'
    BY <1>a, <1>b, <2>1 DEF BucketsKnown
  <2>7. AutoLimitKeepsBucket'
    <3>1. CASE s = Monitor
      <4>1. setter'[Monitor].user = u /\ setter'[Monitor].at = "write" /\ auto' = auto \cup {u}
        BY <1>a, <2>1, <3>1 DEF CallsKnown, Calls
      <4> QED
        BY <1>a, <2>1, <3>1, <4>1 DEF AutoLimitKeepsBucket
    <3>2. CASE s /= Monitor
      <4>1. setter'[Monitor] = setter[Monitor] /\ auto' \subseteq auto
        BY <1>a, <2>1, <3>2 DEF CallsKnown
      <4> QED
        BY <1>a, <2>1, <4>1 DEF AutoLimitKeepsBucket
    <3> QED
      BY <3>1, <3>2
  <2> QED
    BY <2>4, <2>5, <2>6, <2>7
<1>4. ASSUME NEW s \in Users \cup {Monitor}, SpeedWrite(s)
      PROVE  CallsKnown' /\ ReportKnown' /\ BucketsKnown' /\ AutoLimitKeepsBucket'
  <2> DEFINE u == setter[s].user
  <2>a. /\ setter[s].at = "write" /\ u \in Users /\ setter[s].restore = (s /= Monitor)
        /\ setter[s] \in Calls /\ UNCHANGED <<policy, syncing, report, auto>>
    BY <1>a, <1>4 DEF SpeedWrite, SpeedKeeps, CallsKnown
  <2>b. ReportKnown'
    BY <1>a, <2>a DEF ReportKnown
  <2>1. CASE hub[u] = NoBucket /\ ~setter[s].restore
    <3>1. setter' = [setter EXCEPT ![s].at = "store"] /\ hub' = hub /\ s = Monitor
      BY <1>4, <2>a, <2>1 DEF SpeedWrite
    <3>2. [setter[s] EXCEPT !.at = "store"] \in Calls
      BY <2>a DEF Calls
    <3>3. CallsKnown'
      BY <1>a, <2>a, <3>1, <3>2 DEF CallsKnown, Calls
    <3>4. BucketsKnown'
      BY <1>a, <1>b, <2>a, <3>1 DEF BucketsKnown
    <3>5. AutoLimitKeepsBucket'
      <4>1. setter'[Monitor].user = setter[Monitor].user /\ setter'[Monitor].at = "store"
        BY <1>a, <2>a, <3>1 DEF CallsKnown, Calls
      <4> QED
        BY <1>a, <2>a, <3>1, <4>1 DEF AutoLimitKeepsBucket
    <3> QED
      BY <2>b, <3>3, <3>4, <3>5
  <2>2. CASE ~(hub[u] = NoBucket /\ ~setter[s].restore)
    <3>1. /\ setter' = [setter EXCEPT ![s] = NoCall]
          /\ hub' = [hub EXCEPT ![u] = IF @ = NoBucket THEN NoBucket ELSE setter[s].to]
      BY <1>4, <2>2 DEF SpeedWrite, Write, Returns
    <3>2. CallsKnown'
      <4>1. setter' \in [Users \cup {Monitor} -> Calls]
        BY <1>a, <1>c, <3>1 DEF CallsKnown
      <4>2. \A t \in Users \cup {Monitor} : setter'[t] = IF t = s THEN NoCall ELSE setter[t]
        BY <1>a, <3>1 DEF CallsKnown
      <4> QED
        BY <1>a, <1>c, <2>a, <4>1, <4>2 DEF CallsKnown
    <3>3. setter[s].to \in Rates
      BY <2>a DEF Calls
    <3>4. BucketsKnown' /\ \A v \in Users : hub[v] /= NoBucket => hub'[v] /= NoBucket
      BY <1>a, <1>b, <2>a, <3>1, <3>3 DEF BucketsKnown
    <3>5. AutoLimitKeepsBucket'
      <4>1. CASE s = Monitor
        <5>1. hub[u] /= NoBucket
          BY <2>a, <2>2, <4>1
        <5> QED
          BY <1>a, <2>a, <3>4, <4>1, <5>1 DEF AutoLimitKeepsBucket, ReportKnown
      <4>2. CASE s /= Monitor
        <5>1. setter'[Monitor] = setter[Monitor]
          BY <1>a, <3>1, <4>2 DEF CallsKnown
        <5> QED
          BY <1>a, <2>a, <3>4, <5>1 DEF AutoLimitKeepsBucket, ReportKnown
      <4> QED
        BY <4>1, <4>2
    <3> QED
      BY <2>b, <3>2, <3>4, <3>5
  <2> QED
    BY <2>1, <2>2
<1>5. ASSUME NEW s \in Users \cup {Monitor}, SpeedStore(s)
      PROVE  CallsKnown' /\ ReportKnown' /\ BucketsKnown' /\ AutoLimitKeepsBucket'
  <2> DEFINE u == setter[s].user
  <2>1. /\ setter[s].at = "store" /\ u \in Users
        /\ setter' = [setter EXCEPT ![s] = NoCall]
        /\ hub' = [hub EXCEPT ![u] = "automatic"]
        /\ UNCHANGED <<policy, syncing, report, auto>>
    BY <1>a, <1>5 DEF SpeedStore, Returns, SpeedKeeps, CallsKnown
  <2>2. CallsKnown' /\ ReportKnown'
    BY <1>a, <1>c, <2>1 DEF CallsKnown, ReportKnown
  <2>3. "automatic" \in Rates
    BY DEF Rates
  <2>4. BucketsKnown' /\ hub'[u] /= NoBucket
        /\ \A v \in Users : hub[v] /= NoBucket => hub'[v] /= NoBucket
    BY <1>a, <1>b, <2>1, <2>3 DEF BucketsKnown
  <2>5. s /= Monitor => setter'[Monitor] = setter[Monitor]
    BY <1>a, <2>1 DEF CallsKnown
  <2>6. AutoLimitKeepsBucket'
    BY <1>a, <2>1, <2>4, <2>5 DEF AutoLimitKeepsBucket, ReportKnown
  <2> QED
    BY <2>2, <2>4, <2>6
<1> QED
  BY <1>1, <1>2, <1>3, <1>4, <1>5 DEF AutoLimit

LEMMA InitAuto == Init => AutoInv
<1> SUFFICES ASSUME Init PROVE AutoInv
  OBVIOUS
<1>1. NoCall \in Calls /\ NoCall.at = "none"
  BY DEF NoCall, Calls, Rates
<1>2. CallsKnown
  BY <1>1 DEF Init, CallsKnown
<1>3. ReportKnown /\ AutoLimitKeepsBucket
  BY DEF Init, ReportKnown, AutoLimitKeepsBucket
<1>4. BucketsKnown
  BY DEF Init, BucketsKnown, Idle
<1> QED
  BY <1>2, <1>3, <1>4, InitCounts DEF AutoInv

(* A user under an automatic limit keeps its bucket, so that no connection  *)
(* of it gets an unlimited one, whatever the report, the timers and new     *)
(* connections do.                                                          *)
THEOREM LimitedKeepsBucket == Spec => []AutoLimitKeepsBucket
<1>1. ASSUME AutoInv, [Next]_vars PROVE AutoInv'
  <2>1. CountInv'
    BY <1>1, OwnKeepsCount, OthersKeepCount DEF Next, AutoInv
  <2>2. CASE UNCHANGED vars
    BY <1>1, <2>1, <2>2 DEF vars, AutoInv, CallsKnown, ReportKnown, BucketsKnown, AutoLimitKeepsBucket
  <2>3. CASE Next
    BY <1>1, <2>1, <2>3, ConnectionKeepsAuto, DeliveryKeepsAuto, ReportKeepsAuto, SpeedKeepsAuto
       DEF Next, AutoInv
  <2> QED
    BY <1>1, <2>2, <2>3
<1>2. AutoInv => AutoLimitKeepsBucket
  BY DEF AutoInv
<1> QED
  BY <1>1, <1>2, InitAuto, PTL DEF Spec

=============================================================================
