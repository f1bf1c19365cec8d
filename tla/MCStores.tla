------------------------------ MODULE MCStores ------------------------------
(* An instance of TaskCache, RateLimits and Subscriptions for TLC.  They     *)
(* share nothing, so a behaviour moves one of them and leaves the others as  *)
(* they begin.                                                               *)
EXTENDS TaskCache, RateLimits, Subscriptions, TLC

CONSTANTS tools, book, secret, foreign, write

VARIABLE subject

storesVars == <<subject, taskCacheVars, limitVars, subscriptionVars>>

\* Tools with one limiter of each kind, and one with two.
MCBindings == {<<"fixed">>, <<"sliding">>, <<"bucket">>, <<"bucket", "fixed">>}

\* A transaction that invalidates two resources, one of which nobody can subscribe to.
MCInvalidates == [t \in Transactions |-> <<book, secret>>]

MCAsked == {Topics, {foreign}}

\* Requests, which are also the streams, and writers are alike.
Symmetry == Permutations(Requests) \cup Permutations(Writers)

NoLimits == rateLimits = <<"fixed">> /\ LimitsInit
NoRedis == remote = FALSE /\ SubscriptionsInit

StoresInit ==
  /\ TaskCacheInit
  /\ \/ subject = "cache" /\ NoLimits /\ NoRedis
     \/ subject = "limits" /\ LimitsInit /\ NoRedis
     \/ subject = "subscriptions" /\ NoLimits /\ SubscriptionsInit

On(what) == subject = what /\ UNCHANGED subject

\* Bounds: a tool with two limiters gets two requests, and a cache that drops an entry
\* by itself serves three.
Fewer ==
  /\ Len(rateLimits) = 2 => faults'.calls <= 2
  /\ faults'.evicted # {} => faults'.calls <= 3

StoresNext ==
  \/ On("cache") /\ TaskCacheNext /\ UNCHANGED <<limitVars, subscriptionVars>>
  \/ On("limits") /\ LimitsNext /\ Fewer /\ UNCHANGED <<taskCacheVars, subscriptionVars>>
  \/ On("subscriptions") /\ SubscriptionsNext /\ UNCHANGED <<taskCacheVars, limitVars>>

StoresSpec == StoresInit /\ [][StoresNext]_storesVars
=============================================================================
