--------------------------- MODULE NetworkLifecycle ---------------------------
(***************************************************************************)
(* What the account service promises about a network id, seen from         *)
(* outside: an id is unused, then a live network held by one account, then *)
(* deleted for good.  The holder never changes while the network lives.    *)
(* A row written before networks had owners is live with no holder until   *)
(* one account claims it, and cannot be deleted before that.               *)
(*                                                                         *)
(* NetworkRegistry implements this module (see Lifecycle there).           *)
(***************************************************************************)
CONSTANTS Accounts,   \* account ids
          Networks,   \* network ids
          NoAccount,  \* the empty owner column
          Unclaimed   \* networks whose row may predate the owner column

VARIABLES phase,   \* phase[n]: where id n is in its life
          holder   \* holder[n]: the account that owns live network n

lifecycleVars == <<phase, holder>>

Phases == {"unused", "live", "deleted"}

Init == /\ \E old \in SUBSET Unclaimed :
             phase = [n \in Networks |-> IF n \in old THEN "live" ELSE "unused"]
        /\ holder = [n \in Networks |-> NoAccount]

Create(n, a) == /\ phase[n] = "unused"
                /\ phase' = [phase EXCEPT ![n] = "live"]
                /\ holder' = [holder EXCEPT ![n] = a]

Claim(n, a) == /\ phase[n] = "live"
               /\ holder[n] = NoAccount
               /\ holder' = [holder EXCEPT ![n] = a]
               /\ UNCHANGED phase

Delete(n) == /\ phase[n] = "live"
             /\ holder[n] # NoAccount
             /\ phase' = [phase EXCEPT ![n] = "deleted"]
             /\ holder' = [holder EXCEPT ![n] = NoAccount]

Next == \E n \in Networks : \/ \E a \in Accounts : Create(n, a) \/ Claim(n, a)
                            \/ Delete(n)

Spec == Init /\ [][Next]_lifecycleVars
===============================================================================
