---------------------------- MODULE RateLimiter ----------------------------
(***************************************************************************)
(* The Gateway's rate limits: enforceRateLimits in                         *)
(* internal/gateway/gateway.go over three FixedWindow limiters             *)
(* (internal/ratelimit/fixed_window.go), of the agent, of the user and of  *)
(* the tool of a call.                                                     *)
(*                                                                         *)
(* A call reads the clock once and then passes the limiters one by one,    *)
(* each under its own mutex.  Other calls get in between, so a limiter     *)
(* sees readings that are up to MaxDelay old, and not in their order.      *)
(***************************************************************************)
EXTENDS Integers, FiniteSets

CONSTANTS
    Calls,       \* invocations, each used once
    Identities,  \* the agent, user and tool a call may name; "" for a missing name
    Limit,       \* calls per window of each limiter; 0 switches it off
    Window,      \* length of a window
    MaxDelay,    \* how long a call may take from its clock reading to its answer
    MaxTime      \* bound on the clock

Limiters == {"agent", "user", "tool"}

ASSUME CallsAssumption == IsFiniteSet(Calls)
ASSUME RateAssumption ==
    /\ \A id \in Identities : DOMAIN id = Limiters
    /\ Limit \in [Limiters -> Nat]
    /\ Window \in Nat \ {0}
    /\ MaxDelay \in Nat
    /\ MaxTime \in Nat

VARIABLES
    now,      \* the clock
    bucket,   \* FixedWindow.buckets of each limiter
    at,       \* the limiter each call is about to ask, or how it ended
    who,      \* the identity of each call
    stamp,    \* its clock reading
    decided   \* when each limiter decided on it; -1 if it did not

vars == <<now, bucket, at, who, stamp, decided>>

Keys(l)  == {id[l] : id \in Identities}
NoBucket == [start |-> -1, count |-> 0]
NoOne    == [l \in Limiters |-> ""]

\* refusals are told apart by the limiter
Refusals == {"agent_refused", "user_refused", "tool_refused"}
Refused  == [agent |-> "agent_refused", user |-> "user_refused", tool |-> "tool_refused"]

TypeOK ==
    /\ now \in 0..MaxTime
    /\ \A l \in Limiters :
         bucket[l] \in [Keys(l) -> [start : -1..MaxTime, count : 0..Limit[l]]]
    /\ at \in [Calls -> Limiters \cup Refusals \cup {"idle", "allowed"}]
    /\ who \in [Calls -> Identities \cup {NoOne}]
    /\ stamp \in [Calls -> 0..MaxTime]
    /\ decided \in [Calls -> [Limiters -> -1..MaxTime]]

Init ==
    /\ now = 0
    /\ bucket = [l \in Limiters |-> [key \in Keys(l) |-> NoBucket]]
    /\ at = [k \in Calls |-> "idle"]
    /\ who = [k \in Calls |-> NoOne]
    /\ stamp = [k \in Calls |-> 0]
    /\ decided = [k \in Calls |-> [l \in Limiters |-> -1]]

-----------------------------------------------------------------------------

InFlight == {k \in Calls : at[k] \in Limiters}

\* time passes; no call is slower than MaxDelay
Tick ==
    /\ now < MaxTime
    /\ \A k \in InFlight : now < stamp[k] + MaxDelay
    /\ now' = now + 1
    /\ UNCHANGED <<bucket, at, who, stamp, decided>>

Arrive(k, id) ==
    /\ at[k] = "idle"
    /\ who' = [who EXCEPT ![k] = id]
    /\ stamp' = [stamp EXCEPT ![k] = now]
    /\ at' = [at EXCEPT ![k] = "agent"]
    /\ UNCHANGED <<now, bucket, decided>>

After == [agent |-> "user", user |-> "tool", tool |-> "allowed"]

\* a limiter that is switched off, and the user limiter for a call without
\* user; a missing name of an agent or a tool is a key like any other
Exempt(l, key) == Limit[l] = 0 \/ (l = "user" /\ key = "")

Expired(b, t) == b = NoBucket \/ t - b.start >= Window

\* Mutant: one call too many per window.
AdmitsOneMore(l, b, t) == Expired(b, t) \/ b.count <= Limit[l]

Admits(l, b, t) == Expired(b, t) \/ b.count < Limit[l]

Counted(b, t) ==
    IF Expired(b, t) THEN [start |-> t, count |-> 1] ELSE [b EXCEPT !.count = @ + 1]

\* FixedWindow.Allow lets the call pass
Pass(k, l) ==
    LET key == who[k][l]
        b   == bucket[l][key]
    IN  /\ at[k] = l
        /\ \/ Exempt(l, key) /\ UNCHANGED bucket
           \/ /\ ~Exempt(l, key)
              /\ Admits(l, b, stamp[k])
              /\ bucket' = [bucket EXCEPT ![l][key] = Counted(b, stamp[k])]
        /\ at' = [at EXCEPT ![k] = After[l]]
        /\ decided' = [decided EXCEPT ![k][l] = now]
        /\ UNCHANGED <<now, who, stamp>>

\* Mutant: a refused call starts the window anew.
RefuseRestarting(k, l) ==
    LET key == who[k][l]
        b   == bucket[l][key]
    IN  /\ at[k] = l
        /\ ~Exempt(l, key)
        /\ ~Admits(l, b, stamp[k])
        /\ bucket' = [bucket EXCEPT ![l][key].start = stamp[k]]
        /\ at' = [at EXCEPT ![k] = Refused[l]]
        /\ decided' = [decided EXCEPT ![k][l] = now]
        /\ UNCHANGED <<now, who, stamp>>

\* ... or refuses it; what earlier limiters have counted stays counted
Refuse(k, l) ==
    LET key == who[k][l]
        b   == bucket[l][key]
    IN  /\ at[k] = l
        /\ ~Exempt(l, key)
        /\ ~Admits(l, b, stamp[k])
        /\ at' = [at EXCEPT ![k] = Refused[l]]
        /\ decided' = [decided EXCEPT ![k][l] = now]
        /\ UNCHANGED <<now, bucket, who, stamp>>

\* the bounds of the model are used up
Quiescent ==
    /\ now = MaxTime
    /\ \A k \in Calls : at[k] \in Refusals \cup {"allowed"}
    /\ UNCHANGED vars

Next ==
    \/ Tick
    \/ \E k \in Calls :
        \/ \E id \in Identities : Arrive(k, id)
        \/ \E l \in Limiters : Pass(k, l) \/ Refuse(k, l)
    \/ Quiescent

Spec == Init /\ [][Next]_vars

-----------------------------------------------------------------------------
(* Properties *)

\* calls of a key on which the limiter decided, one way or the other
Decided(l, key) == {k \in Calls : decided[k][l] >= 0 /\ who[k][l] = key}
Passed(l, key)  == {k \in Decided(l, key) : at[k] # Refused[l]}

(***************************************************************************)
(* How many calls of one key a limiter lets through within any Window of   *)
(* time: twice its limit, around a boundary, and its limit once more for   *)
(* each further window the clock readings may be old.                      *)
(***************************************************************************)
BurstIsBounded ==
    \A l \in Limiters : \A key \in Keys(l), t \in 0..MaxTime :
        ~Exempt(l, key) =>
            Cardinality({k \in Passed(l, key) : decided[k][l] \in t..(t + Window - 1)})
                <= Limit[l] * (2 + (Window + MaxDelay - 2) \div Window)

(***************************************************************************)
(* Nobody is refused who keeps the rate: when a limiter refuses a call it  *)
(* has let the limit of calls of the same key through not longer than a    *)
(* Window and the delay of one clock reading ago.                          *)
(***************************************************************************)
RefusalIsDeserved ==
    \A l \in Limiters : \A k \in Calls :
        at[k] = Refused[l] =>
            Limit[l] <= Cardinality(
                {j \in Passed(l, who[k][l]) :
                    decided[j][l] \in (decided[k][l] - Window - MaxDelay + 1)..decided[k][l]})
=============================================================================
