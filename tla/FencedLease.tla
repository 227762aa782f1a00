---------------------------- MODULE FencedLease ----------------------------
(***************************************************************************)
(* What a refresh lease promises, without clocks, queues or processes: a   *)
(* resource has at most one owner, only its owner changes its value, and   *)
(* each grant is good for one change.  An owner may be replaced or revoked *)
(* at any time; whoever still holds a token that is no longer the owner's  *)
(* can only give it up.                                                    *)
(***************************************************************************)
CONSTANTS Resources, Tokens, Values, NoToken

VARIABLES owner,    \* the token that may change each resource, or NoToken
          holders,  \* tokens handed out and not given up
          value     \* what the lease protects

leaseVars == <<owner, holders, value>>

LeaseInit ==
    /\ owner = [r \in Resources |-> NoToken]
    /\ holders = {}
    /\ value \in [Resources -> Values]

Grant(r, t) ==
    /\ t \notin holders
    /\ \A s \in Resources : owner[s] # t
    /\ owner' = [owner EXCEPT ![r] = t]
    /\ holders' = holders \cup {t}
    /\ UNCHANGED value

Revoke(r) ==
    /\ owner[r] # NoToken
    /\ owner' = [owner EXCEPT ![r] = NoToken]
    /\ UNCHANGED <<holders, value>>

\* The owner changes the value, once.
Use(r, t, v) ==
    /\ t \in holders
    /\ owner[r] = t
    /\ value' = [value EXCEPT ![r] = v]
    /\ owner' = [owner EXCEPT ![r] = NoToken]
    /\ holders' = holders \ {t}

GiveUp(t) ==
    /\ t \in holders
    /\ holders' = holders \ {t}
    /\ UNCHANGED <<owner, value>>

LeaseNext ==
    \/ \E r \in Resources, t \in Tokens :
          Grant(r, t) \/ \E v \in Values : Use(r, t, v)
    \/ \E r \in Resources : Revoke(r)
    \/ \E t \in Tokens : GiveUp(t)

LeaseSpec == LeaseInit /\ [][LeaseNext]_leaseVars

=============================================================================
