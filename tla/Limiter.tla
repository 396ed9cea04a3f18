------------------------------- MODULE Limiter --------------------------------
(***************************************************************************)
(* Connections and rates of the users of one inbound of the embedded core. *)
(*                                                                         *)
(* Four kinds of goroutine meet in limiter.go: every connection            *)
(* (dispatcher/default.go), the delivery of a policy (one at a time, under *)
(* the lock of persistent.go), the report to the master, which also        *)
(* evaluates the automatic limits (embedded/monitor.go), and the timers    *)
(* that end those. There is no lock over them: a step here is one load or  *)
(* store of a sync.Map, an atomic counter or a bucket.                     *)
(*                                                                         *)
(* UpdateInboundLimiter, which nothing but a test calls, is left out, and  *)
(* so are the anonymous bucket of an inbound and the restart of the core.  *)
(***************************************************************************)
EXTENDS Naturals, FiniteSets

CONSTANTS
    Conns,      \* the goroutines of connections; one that ended may start again
    Users,      \* emails
    Groups, GroupOf,    \* ConnGroup: the customer that several emails belong to
    Policies,   \* what may be delivered for a user
    Deliveries, \* what may be delivered for all of them
    Absent,     \* no policy for this email
    Heavy,      \* users whose traffic the rules of the monitor may catch
    NoBucket, NoUser,
    Monitor     \* the goroutine that reports and evaluates

Rates == {"cut", "static", "automatic", "unlimited"}

(* UserInfo: connLimit 0 is no limit; rate is determineRate of the node's   *)
(* and the user's limit, which only the delivery of another policy changes. *)
UserInfo == [connLimit : Nat, rate : {"static", "unlimited"}, denied : BOOLEAN]

ASSUME LimiterAssumption ==
    /\ GroupOf \in [Users -> Groups] /\ Policies \subseteq UserInfo
    /\ Deliveries \subseteq [Users -> Policies \cup {Absent}] /\ Heavy \subseteq Users
    /\ Absent \notin UserInfo /\ NoBucket \notin Rates /\ NoUser \notin Users
    /\ Monitor \notin Users /\ IsFiniteSet(Conns)

VARIABLES
    policy,     \* InboundInfo.UserInfo: replaced as a whole, never written
    hub,        \* BucketHub: the rate of the bucket of each email, or NoBucket
    online,     \* UserOnlineIP: emails seen since the last report
    auto,       \* autoLimited
    count,      \* connCount of each group
    conn,       \* each connection
    syncing,    \* users whose bucket the delivery under way has still to write
    report,     \* where the report is
    limited,    \* users whose limitedUntil is in the future
    armed,      \* users whose timer of time.AfterFunc has not fired
    setter      \* the calls of SetUserSpeed under way

monitoring == <<report, limited, armed, setter, auto>>
vars == <<policy, hub, online, auto, count, conn, syncing, report, limited, armed, setter>>

-----------------------------------------------------------------------------
(* Connections. "found": AcquireConn has its policy; "over": it counted and *)
(* has to take that back; "acquired": it may go on; "checked": the second   *)
(* look at the policy, in GetUserBucket, let it pass.                       *)
ConnSteps == {"idle", "found", "over", "acquired", "checked", "live", "ended"}

(* user; seen: the policy it read; holds: its unit of the group's quota;    *)
(* bucket: what its RateReader and RateWriter wait on, the bucket of its    *)
(* user in the hub or one that was taken from there. Only buckets in the    *)
(* hub are ever written, so of one that is not the rate is all there is.    *)
InHub == "in hub"
Idle == [at |-> "idle", user |-> NoUser, seen |-> Absent, holds |-> FALSE, bucket |-> NoBucket]

At(c, step) == conn[c].at = step
User(c) == conn[c].user
Group(c) == GroupOf[User(c)]
GoTo(c, step) == conn' = [conn EXCEPT ![c].at = step]

RateOf(c) == IF conn[c].bucket = InHub THEN hub[User(c)] ELSE conn[c].bucket

(* The connections, when the bucket of u leaves the hub: they keep it.      *)
Orphaned(u) ==
    [c \in Conns |-> IF conn[c].user = u /\ conn[c].bucket = InHub
                     THEN [conn[c] EXCEPT !.bucket = hub[u]] ELSE conn[c]]

Denied(u) == policy[u] /= Absent /\ policy[u].denied
StaticRate(p) == IF p = Absent THEN "unlimited" ELSE p.rate

(* lookupUserInfo. Not found: let in, and not counted. Denied: refused, and *)
(* nothing has changed.                                                     *)
Lookup(c, u) ==
    /\ At(c, "idle")
    /\ ~Denied(u)
    /\ conn' = [conn EXCEPT ![c] =
          [Idle EXCEPT !.at = IF policy[u] = Absent THEN "acquired" ELSE "found",
                       !.user = u, !.seen = policy[u]]]
    /\ UNCHANGED <<policy, hub, online, count, syncing>> /\ UNCHANGED monitoring

(* Mutant: one too many is let in. *)
OverLimitByOne(c, n) == conn[c].seen.connLimit > 0 /\ n > conn[c].seen.connLimit + 1

OverLimit(c, n) == conn[c].seen.connLimit > 0 /\ n > conn[c].seen.connLimit

(* c.Add(1), and the comparison with the value it returned. *)
Count(c) ==
    /\ At(c, "found")
    /\ count' = [count EXCEPT ![Group(c)] = @ + 1]
    /\ conn' = [conn EXCEPT ![c].holds = TRUE,
                            ![c].at = IF OverLimit(c, count'[Group(c)]) THEN "over" ELSE "acquired",
                            ![c].seen = Absent]
    /\ UNCHANGED <<policy, hub, online, syncing>> /\ UNCHANGED monitoring

(* Mutant: the refused connection keeps its unit. *)
UndoNothing(c) ==
    /\ At(c, "over")
    /\ conn' = [conn EXCEPT ![c] = Idle]
    /\ UNCHANGED <<policy, hub, online, count, syncing>> /\ UNCHANGED monitoring

(* c.Add(-1) of a refused connection. *)
Undo(c) ==
    /\ At(c, "over")
    /\ count' = [count EXCEPT ![Group(c)] = @ - 1]
    /\ conn' = [conn EXCEPT ![c] = Idle]
    /\ UNCHANGED <<policy, hub, online, syncing>> /\ UNCHANGED monitoring

(* GetUserBucket reads the policy again: a denial that came in between ends *)
(* the connection; the address of another is recorded for the report.       *)
Record(c) ==
    /\ At(c, "acquired")
    /\ conn' = [conn EXCEPT ![c].at = IF Denied(User(c)) THEN "ended" ELSE "checked",
                            ![c].seen = IF Denied(User(c)) THEN Absent ELSE policy[User(c)]]
    /\ online' = IF Denied(User(c)) THEN online ELSE online \cup {User(c)}
    /\ UNCHANGED <<policy, hub, count, syncing>> /\ UNCHANGED monitoring

(* LoadOrStore of the bucket, with the rate of the policy read before. The  *)
(* connection keeps the bucket for its life.                                *)
GetBucket(c) ==
    /\ At(c, "checked")
    /\ conn' = [conn EXCEPT ![c].at = "live", ![c].seen = Absent, ![c].bucket = InHub]
    /\ hub' = [hub EXCEPT ![User(c)] = IF @ = NoBucket THEN StaticRate(conn[c].seen) ELSE @]
    /\ UNCHANGED <<policy, online, count, syncing>> /\ UNCHANGED monitoring

(* A link ends by itself at any time; the next wait on a bucket without     *)
(* burst fails, and ends it.                                                *)
End(c) ==
    /\ At(c, "live")
    /\ GoTo(c, "ended")
    /\ UNCHANGED <<policy, hub, online, count, syncing>> /\ UNCHANGED monitoring

WaitFails(c) ==
    /\ At(c, "live") /\ RateOf(c) = "cut"
    /\ GoTo(c, "ended")
    /\ UNCHANGED <<policy, hub, online, count, syncing>> /\ UNCHANGED monitoring

(* The AfterFunc of the connection's context, registered as soon as the     *)
(* unit was taken. ReleaseConn stores zero when the counter goes below it;  *)
(* CountIsExact says that it never does.                                    *)
Release(c) ==
    /\ At(c, "ended")
    /\ count' = [count EXCEPT ![Group(c)] = IF conn[c].holds /\ @ > 0 THEN @ - 1 ELSE @]
    /\ conn' = [conn EXCEPT ![c] = Idle]
    /\ UNCHANGED <<policy, hub, online, syncing>> /\ UNCHANGED monitoring

-----------------------------------------------------------------------------
(* Delivery of a policy: SyncInboundLimiterWithSharedLimit *)

Write(u, r) == hub' = [hub EXCEPT ![u] = IF @ = NoBucket THEN NoBucket ELSE r]

(* A new InboundInfo is stored: new policies, the hub of the old one.       *)
SyncStore(new) ==
    /\ syncing = {} /\ policy' = new
    /\ syncing' = {u \in Users : new[u] /= Absent}
    /\ UNCHANGED <<hub, online, count, conn>> /\ UNCHANGED monitoring

(* The bucket of each user of the new policy, in the order of the message.  *)
SyncBucket(u) ==
    /\ u \in syncing /\ syncing' = syncing \ {u}
    /\ Write(u, IF policy[u].denied THEN "cut" ELSE policy[u].rate)
    /\ UNCHANGED <<policy, online, count, conn>> /\ UNCHANGED monitoring

-----------------------------------------------------------------------------
(* The report: GetOnlineUsers, then the monitor's Evaluate *)

Reporting(step) == report.at = step
ReportAt(step, todo, doomed) == report' = [at |-> step, todo |-> todo, doomed |-> doomed]
ReportKeeps == UNCHANGED <<policy, count, syncing, limited, armed, setter, auto>>

ReportStart ==
    /\ Reporting("idle") /\ setter[Monitor].at = "none"
    /\ ReportAt("scan", {u \in Users : hub[u] /= NoBucket}, NoUser)
    /\ UNCHANGED <<hub, online, conn>> /\ ReportKeeps

(* Mutant: an automatic limit does not keep the bucket. *)
IsOffline(u) == u \notin online

IsIdle(u) == u \notin online /\ u \notin auto

(* A user without a new connection since the last report, and without an    *)
(* automatic limit: its bucket goes, whoever holds it.                      *)
ReportLook(u) ==
    /\ Reporting("scan") /\ report.doomed = NoUser /\ u \in report.todo
    /\ ReportAt("scan", report.todo \ {u}, IF IsIdle(u) THEN u ELSE NoUser)
    /\ UNCHANGED <<hub, online, conn>> /\ ReportKeeps

ReportDelete ==
    /\ Reporting("scan") /\ report.doomed /= NoUser
    /\ hub' = [hub EXCEPT ![report.doomed] = NoBucket]
    /\ conn' = Orphaned(report.doomed)
    /\ ReportAt("scan", report.todo, NoUser) /\ UNCHANGED online /\ ReportKeeps

(* The addresses are collected and the next cycle starts without any.       *)
ReportClear ==
    /\ Reporting("scan") /\ report.doomed = NoUser /\ report.todo = {}
    /\ online' = {} /\ ReportAt("idle", {}, NoUser)
    /\ UNCHANGED <<hub, conn>> /\ ReportKeeps

SpeedCall(u, restore) == [at |-> "check", user |-> u, restore |-> restore, to |-> "automatic"]
NoCall == [at |-> "none", user |-> NoUser, restore |-> FALSE, to |-> "automatic"]

(* A rule fires for a user whose limit is not in force: applyLimit.         *)
EvaluateKeeps ==
    UNCHANGED <<policy, hub, online, auto, count, conn, syncing, report>>

Limit(u) ==
    /\ Reporting("idle") /\ setter[Monitor].at = "none"
    /\ u \in Heavy /\ u \notin limited
    /\ limited' = limited \cup {u} /\ armed' = armed
    /\ setter' = [setter EXCEPT ![Monitor] = SpeedCall(u, FALSE)]
    /\ EvaluateKeeps

(* limitedUntil passes, and the timer, which was set with it, fires. The    *)
(* monitor may limit the user again before the timer's call has restored it.*)
TimerFires(u) ==
    /\ setter[u].at = "none" /\ u \in armed
    /\ armed' = armed \ {u} /\ limited' = limited \ {u}
    /\ setter' = [setter EXCEPT ![u] = SpeedCall(u, TRUE)]
    /\ EvaluateKeeps

-----------------------------------------------------------------------------
(* SetUserSpeed, called by the monitor to limit and by a timer to restore *)

SpeedKeeps == UNCHANGED <<policy, online, count, syncing, report, limited>>

(* The call ends; the monitor then sets the timer of the limit.             *)
Returns(s) ==
    /\ setter' = [setter EXCEPT ![s] = NoCall]
    /\ armed' = IF s = Monitor THEN armed \cup {setter[s].user} ELSE armed

(* A denied user stays cut, and its mark as it was.                         *)
SpeedDenied(s) ==
    /\ setter[s].at = "check" /\ Denied(setter[s].user)
    /\ Write(setter[s].user, "cut") /\ Returns(s)
    /\ UNCHANGED <<auto, conn>> /\ SpeedKeeps

SpeedMark(s) ==
    LET u == setter[s].user IN
    /\ setter[s].at = "check" /\ ~Denied(u)
    /\ auto' = IF setter[s].restore THEN auto \ {u} ELSE auto \cup {u}
    /\ setter' = [setter EXCEPT ![s].at = "write",
                  ![s].to = IF setter[s].restore THEN StaticRate(policy[u]) ELSE "automatic"]
    /\ UNCHANGED <<hub, armed, conn>> /\ SpeedKeeps

(* The bucket that is there is written; a limit without one stores its own. *)
SpeedWrite(s) ==
    LET u == setter[s].user IN
    /\ setter[s].at = "write"
    /\ IF hub[u] = NoBucket /\ ~setter[s].restore
       THEN setter' = [setter EXCEPT ![s].at = "store"] /\ UNCHANGED <<hub, armed>>
       ELSE Write(u, setter[s].to) /\ Returns(s)
    /\ UNCHANGED <<auto, conn>> /\ SpeedKeeps

(* Store, not LoadOrStore: a bucket put there in between is replaced.       *)
SpeedStore(s) ==
    LET u == setter[s].user IN
    /\ setter[s].at = "store"
    /\ conn' = Orphaned(u) /\ hub' = [hub EXCEPT ![u] = "automatic"]
    /\ Returns(s) /\ UNCHANGED auto /\ SpeedKeeps

-----------------------------------------------------------------------------
Init ==
    /\ policy = [u \in Users |-> Absent]
    /\ hub = [u \in Users |-> NoBucket]
    /\ online = {} /\ auto = {} /\ count = [g \in Groups |-> 0]
    /\ conn = [c \in Conns |-> Idle] /\ syncing = {}
    /\ report = [at |-> "idle", todo |-> {}, doomed |-> NoUser]
    /\ limited = {} /\ armed = {}
    /\ setter = [s \in Users \cup {Monitor} |-> NoCall]

Connection(c) ==
    \/ \E u \in Users : Lookup(c, u)
    \/ Count(c) \/ Undo(c) \/ Record(c) \/ GetBucket(c) \/ End(c) \/ WaitFails(c) \/ Release(c)

Delivery ==
    \/ \E new \in Deliveries : SyncStore(new)
    \/ \E u \in Users : SyncBucket(u)

Report ==
    \/ ReportStart \/ ReportDelete \/ ReportClear
    \/ \E u \in Users : ReportLook(u) \/ Limit(u)

AutoLimit ==
    \/ \E u \in Users : TimerFires(u)
    \/ \E s \in Users \cup {Monitor} :
          SpeedDenied(s) \/ SpeedMark(s) \/ SpeedWrite(s) \/ SpeedStore(s)

Next == (\E c \in Conns : Connection(c)) \/ Delivery \/ Report \/ AutoLimit

Spec == Init /\ [][Next]_vars

-----------------------------------------------------------------------------
TypeOK ==
    /\ policy \in [Users -> UserInfo \cup {Absent}]
    /\ hub \in [Users -> Rates \cup {NoBucket}]
    /\ online \subseteq Users /\ auto \subseteq Users /\ count \in [Groups -> Nat]
    /\ \A c \in Conns : conn[c].at \in ConnSteps
    /\ syncing \subseteq Users
    /\ armed \subseteq limited /\ limited \subseteq Users

Holders(g) == {c \in Conns : conn[c].holds /\ Group(c) = g}

(* The counter of a customer is the number of its connections that hold a   *)
(* unit, whatever path they took (AcquireConn and ReleaseConn): none leaks, *)
(* none is released twice, and the floor at zero of ReleaseConn is unused.  *)
CountIsExact == \A g \in Groups : count[g] = Cardinality(Holders(g))

Admitted(c) == conn[c].at \in {"acquired", "checked", "live"} /\ conn[c].holds

(* "Refuse when full" (AcquireConn): when a connection is admitted under a  *)
(* limit, the connections of the customer, itself included, are within it,  *)
(* over all its emails and however many ask at once.                        *)
AdmittedWithinLimit ==
    [][\A c \in Conns : ~Admitted(c) /\ Admitted(c)' /\ conn[c].seen.connLimit > 0 =>
          Cardinality({d \in Conns : Admitted(d)' /\ Group(d)' = Group(c)})
             <= conn[c].seen.connLimit]_vars

(* "Otherwise a new connection gets an unlimited bucket" (autoLimited): the *)
(* bucket of a user under an automatic limit stays in the hub, whatever the *)
(* report, the timers and new connections do, once the limit is set.        *)
AutoLimitKeepsBucket ==
    \A u \in auto : hub[u] /= NoBucket
                    \/ (setter[Monitor].user = u /\ setter[Monitor].at \in {"write", "store"})

Delivered(u) == u \in syncing /\ u \notin syncing'

(* "Existing connections feel it at once" (Sync): when a delivery has       *)
(* written a user, every connection of it goes at the new rate, but for     *)
(* those whose bucket had been taken from the hub before.                   *)
SyncReachesLive ==
    [][\A u \in Users, c \in Conns : Delivered(u) /\ At(c, "live") /\ User(c) = u =>
          \/ conn[c].bucket /= InHub
          \/ RateOf(c)' = IF policy[u].denied THEN "cut" ELSE policy[u].rate]_vars

(* The same without the exception, for a denial: "makes existing wrappers   *)
(* fail their next wait" (limiter.go, SyncInboundLimiterWithSharedLimit).   *)
DenialCutsLive ==
    [][\A u \in Users, c \in Conns :
          Delivered(u) /\ policy[u].denied /\ At(c, "live") /\ User(c) = u =>
             RateOf(c)' = "cut"]_vars

=============================================================================
