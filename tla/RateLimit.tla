------------------------------ MODULE RateLimit ------------------------------
(***************************************************************************)
(* factory/ratelimit.py: the middleware counts the requests of an identity *)
(* - a credential, or the address of an anonymous client - in the current  *)
(* window of the clock, in the memory of one process, whose event loop     *)
(* runs one hit at a time.  Exempt paths, and every path when the limit is *)
(* 0, are let through uncounted and are left out here.  The clock does not *)
(* go back.                                                                *)
(***************************************************************************)
EXTENDS Integers, Sequences, FiniteSets

CONSTANTS
    Identities,
    Limit,          \* rate_limit_per_minute
    Window,         \* ticks of the clock in a window, for 60 seconds
    Cap,            \* entries beyond which stale ones are dropped, for 10 000
    MaxTime, MaxHits    \* bounds: ticks, requests counted by a process

ASSUME RateLimitAssumption ==
    /\ {Limit, Window} \subseteq Nat \ {0}
    /\ {Cap, MaxTime, MaxHits} \subseteq Nat

VARIABLES
    now,        \* the clock
    counts,     \* _counts, by identity
    hits        \* what this process has answered, in order

limiterVars == <<now, counts, hits>>

Answers == [who : Identities, at : 0 .. MaxTime, allowed : BOOLEAN]

NoEntry == [window |-> -1, count |-> 0]
NoCounts == [i \in Identities |-> NoEntry]

(* No count exceeds what the process has answered, or could. *)
LimiterTypeOK ==
    /\ now \in 0 .. MaxTime
    /\ counts \in [Identities -> [window : -1 .. MaxTime, count : 0 .. MaxHits]]
    /\ hits \in Seq(Answers)

LimiterInit ==
    /\ now = 0
    /\ counts = NoCounts
    /\ hits = <<>>

-----------------------------------------------------------------------------
WindowAt(t) == t \div Window

Tracked(table) == {i \in Identities : table[i] # NoEntry}

(* Faulty variant: the whole table is dropped. *)
Purge_All(table) == IF Cardinality(Tracked(table)) > Cap THEN NoCounts ELSE table

(* The table as kept: beyond the cap only the current window's entries. *)
Purge(table) ==
    IF Cardinality(Tracked(table)) > Cap
    THEN [i \in Identities |-> IF table[i].window = WindowAt(now) THEN table[i] ELSE NoEntry]
    ELSE table

(* _FixedWindow.hit, and the answer of dispatch. *)
Hit(i) ==
    LET previous == IF counts[i].window = WindowAt(now) THEN counts[i].count ELSE 0
    IN  /\ Len(hits) < MaxHits
        /\ counts' = Purge([counts EXCEPT ![i] = [window |-> WindowAt(now), count |-> previous + 1]])
        /\ hits' = Append(hits, [who |-> i, at |-> now, allowed |-> previous + 1 <= Limit])
        /\ UNCHANGED now

Tick ==
    /\ now < MaxTime
    /\ now' = now + 1
    /\ UNCHANGED <<counts, hits>>

(* A new process starts counting. *)
Restart ==
    /\ hits # <<>>
    /\ counts' = NoCounts
    /\ hits' = <<>>
    /\ UNCHANGED now

LimiterNext == (\E i \in Identities : Hit(i)) \/ Tick \/ Restart

LimiterSpec == LimiterInit /\ [][LimiterNext]_limiterVars

-----------------------------------------------------------------------------
(* What must hold. *)

HitsOf(i, times) == {k \in DOMAIN hits : hits[k].who = i /\ hits[k].at \in times}

(***************************************************************************)
(* ratelimit.py: of an identity's requests in a window a process answers   *)
(* exactly the first Limit, as if it forgot nothing: dropping stale        *)
(* entries never gives anybody a second allowance or takes one away.  In   *)
(* a span as long as a window that is twice the limit at most.  And the    *)
(* table grows beyond the cap only with identities of one window.          *)
(***************************************************************************)
LimitHolds ==
    /\ \A k \in DOMAIN hits :
        LET sameWindow == {t \in 0 .. MaxTime : WindowAt(t) = WindowAt(hits[k].at)}
        IN  hits[k].allowed <=>
                Cardinality({j \in HitsOf(hits[k].who, sameWindow) : j <= k}) <= Limit
    /\ \A i \in Identities, t \in 0 .. MaxTime :
        Cardinality({k \in HitsOf(i, t .. t + Window - 1) : hits[k].allowed}) <= 2 * Limit
    /\ Cardinality(Tracked(counts)) > Cap =>
        \A i, j \in Tracked(counts) : counts[i].window = counts[j].window
=============================================================================
