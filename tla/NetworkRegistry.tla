---------------------------- MODULE NetworkRegistry ----------------------------
(***************************************************************************)
(* The account service's registry of networks: which exist, who owns them, *)
(* who belongs to them with which role, and which ids are deleted for good *)
(* (src/internal/accountserver/store.go).                                  *)
(*                                                                         *)
(* Every operation below is one SQLite transaction on a database opened    *)
(* with a single connection, so each is one atomic action.  An operation   *)
(* the code refuses changes nothing and is a disabled action.              *)
(*                                                                         *)
(* Abstractions: names and timestamps are left out; a management key is    *)
(* its generation number (0 is the empty key of a row older than the key   *)
(* column), because the code only ever compares keys for equality and a    *)
(* rotated key is a fresh random secret; accounts exist from the start and *)
(* are never deleted (no code deletes one); a request's session is checked *)
(* in the same step as its transaction.                                    *)
(***************************************************************************)
EXTENDS Naturals

CONSTANTS Accounts,      \* account ids
          Networks,      \* network ids
          NoAccount,     \* the empty owner column
          Unclaimed,     \* networks whose row may predate owners and keys
          OfferedRoles,  \* the roles a grant, offer or role change may carry
          MaxKey         \* bound: key generations of one network

ASSUME RegistryAssumption ==
  /\ NoAccount \notin Accounts
  /\ Unclaimed \subseteq Networks
  /\ OfferedRoles \subseteq {"admin", "operator", "member", "viewer"}
  /\ MaxKey \in Nat \ {0}

VARIABLES live,        \* networks with a row in table network
          owner,       \* network.owner_account_id
          key,         \* network.management_key
          role,        \* table network_member; "none" is no row
          tombstone,   \* table network_tombstone
          mourner,     \* table network_tombstone_member
          disabled     \* accounts with the disabled flag

registryVars == <<live, owner, key, role, tombstone, mourner, disabled>>

Keys == 1 .. MaxKey
Roles == {"none", "owner"} \cup OfferedRoles
ManagingRoles == {"owner", "admin"}

Members(n) == {a \in Accounts : role[n][a] # "none"}

RegistryTypeOK ==
  /\ live \subseteq Networks
  /\ owner \in [Networks -> Accounts \cup {NoAccount}]
  /\ key \in [Networks -> 0 .. MaxKey]
  /\ role \in [Networks -> [Accounts -> Roles]]
  /\ tombstone \subseteq Networks
  /\ mourner \subseteq Networks \X Accounts
  /\ disabled \subseteq Accounts

\* An empty database, or one upgraded from the release before owners and keys:
\* migrate adds both columns with the empty string as the default.
RegistryInit ==
  /\ live \in SUBSET Unclaimed
  /\ owner = [n \in Networks |-> NoAccount]
  /\ key = [n \in Networks |-> 0]
  /\ role = [n \in Networks |-> [a \in Accounts |-> "none"]]
  /\ tombstone = {}
  /\ mourner = {}
  /\ disabled = {}

\* requireAccount: a disabled account has no session.
SignedIn(a) == a \notin disabled

\* The actor presents network n's current key and may manage its members.
MayManage(actor, n, k) ==
  /\ SignedIn(actor)
  /\ n \in live
  /\ key[n] = k
  /\ role[n][actor] \in ManagingRoles

--------------------------------------------------------------------------------
(* RegisterNetwork: a device proves, or establishes, its account's access.  A *)
(* new row, or a row that never had a key, becomes the caller's; otherwise    *)
(* the key must match and the caller must be a member or the recorded owner.  *)

\* Mutation: the registration is honoured without consulting the tombstones.
RegisterForgettingTombstones(a, n, k) ==
  LET takes == n \notin live \/ key[n] = 0
      holder == IF takes THEN a ELSE owner[n]
  IN  /\ SignedIn(a)
      /\ takes \/ key[n] = k
      /\ role[n][a] # "none" \/ holder = a
      /\ live' = live \cup {n}
      /\ owner' = [owner EXCEPT ![n] = holder]
      /\ key' = [key EXCEPT ![n] = k]
      /\ role' = IF role[n][a] = "none" THEN [role EXCEPT ![n][a] = "owner"] ELSE role
      /\ UNCHANGED <<tombstone, mourner, disabled>>

\* Mutation: whoever presents the key joins with the role it asks for.
RegisterTrustingTheKey(a, n, k) ==
  LET takes == n \notin live \/ key[n] = 0
  IN  /\ SignedIn(a)
      /\ n \notin tombstone
      /\ takes \/ key[n] = k
      /\ live' = live \cup {n}
      /\ owner' = [owner EXCEPT ![n] = IF takes THEN a ELSE @]
      /\ key' = [key EXCEPT ![n] = k]
      /\ role' = IF role[n][a] = "none" THEN [role EXCEPT ![n][a] = "owner"] ELSE role
      /\ UNCHANGED <<tombstone, mourner, disabled>>

RegisterNetwork(a, n, k) ==
  LET takes == n \notin live \/ key[n] = 0
      holder == IF takes THEN a ELSE owner[n]
  IN  /\ SignedIn(a)
      /\ n \notin tombstone
      /\ takes \/ key[n] = k
      /\ role[n][a] # "none" \/ holder = a
      /\ live' = live \cup {n}
      /\ owner' = [owner EXCEPT ![n] = holder]
      /\ key' = [key EXCEPT ![n] = k]
      /\ role' = IF role[n][a] = "none" THEN [role EXCEPT ![n][a] = "owner"] ELSE role
      /\ UNCHANGED <<tombstone, mourner, disabled>>

(* DeleteNetwork: the owner ends a network.  Every account that is a member   *)
(* at that moment is owed a tombstone; the row's dependants go with it.       *)

\* Mutation: foreign keys are off, so the members' rows outlive the network.
DeleteWithoutCascade(a, n, k) ==
  /\ SignedIn(a)
  /\ n \in live
  /\ owner[n] = a
  /\ key[n] = k
  /\ tombstone' = tombstone \cup {n}
  /\ mourner' = mourner \cup ({n} \X Members(n))
  /\ live' = live \ {n}
  /\ owner' = [owner EXCEPT ![n] = NoAccount]
  /\ key' = [key EXCEPT ![n] = 0]
  /\ UNCHANGED <<role, disabled>>

DeleteNetwork(a, n, k) ==
  /\ SignedIn(a)
  /\ n \in live
  /\ owner[n] = a
  /\ key[n] = k
  /\ tombstone' = tombstone \cup {n}
  /\ mourner' = mourner \cup ({n} \X Members(n))
  /\ live' = live \ {n}
  /\ owner' = [owner EXCEPT ![n] = NoAccount]
  /\ key' = [key EXCEPT ![n] = 0]
  /\ role' = [role EXCEPT ![n] = [b \in Accounts |-> "none"]]
  /\ UNCHANGED disabled

(* GrantNetworkMember: the inviting peer registers the account that redeemed  *)
(* its join code.  A role already held is left alone.                         *)
GrantNetworkMember(actor, n, k, a, r) ==
  /\ MayManage(actor, n, k)
  /\ a \notin disabled
  /\ role[n][a] = "none"
  /\ role' = [role EXCEPT ![n][a] = r]
  /\ UNCHANGED <<live, owner, key, tombstone, mourner, disabled>>

(* changeNetworkMember: what SetNetworkMemberRole and RemoveNetworkMember     *)
(* share; r = "none" removes.  The owner can be neither changed nor removed.  *)

\* Mutation: the owner's row is not protected.
ChangeAnyMember(actor, n, k, a, r) ==
  /\ MayManage(actor, n, k)
  /\ role[n][a] # "none"
  /\ role' = [role EXCEPT ![n][a] = r]
  /\ UNCHANGED <<live, owner, key, tombstone, mourner, disabled>>

changeNetworkMember(actor, n, k, a, r) ==
  /\ MayManage(actor, n, k)
  /\ role[n][a] \notin {"none", "owner"}
  /\ role' = [role EXCEPT ![n][a] = r]
  /\ UNCHANGED <<live, owner, key, tombstone, mourner, disabled>>

SetNetworkMemberRole(actor, n, k, a, r) == changeNetworkMember(actor, n, k, a, r)

RemoveNetworkMember(actor, n, k, a) == changeNetworkMember(actor, n, k, a, "none")

(* RotateNetworkKey: a service administrator replaces the secret.             *)
RotateNetworkKey(n) ==
  /\ n \in live
  /\ key[n] < MaxKey
  /\ key' = [key EXCEPT ![n] = @ + 1]
  /\ UNCHANGED <<live, owner, role, tombstone, mourner, disabled>>

(* SetAccountDisabled: the flag (that the account's sessions end with it,     *)
(* SignedIn stands for).                                                      *)
SetAccountDisabled(a, off) ==
  /\ disabled' = IF off THEN disabled \cup {a} ELSE disabled \ {a}
  /\ UNCHANGED <<live, owner, key, role, tombstone, mourner>>

MemberChange(actor, n, k) ==
  \E a \in Accounts :
    \/ \E r \in OfferedRoles : \/ GrantNetworkMember(actor, n, k, a, r)
                               \/ SetNetworkMemberRole(actor, n, k, a, r)
    \/ RemoveNetworkMember(actor, n, k, a)

RegistryNext ==
  \/ \E a \in Accounts, n \in Networks, k \in Keys :
       RegisterNetwork(a, n, k) \/ DeleteNetwork(a, n, k) \/ MemberChange(a, n, k)
  \/ \E n \in Networks : RotateNetworkKey(n)
  \/ \E a \in Accounts, off \in BOOLEAN : SetAccountDisabled(a, off)

RegistrySpec == RegistryInit /\ [][RegistryNext]_registryVars

--------------------------------------------------------------------------------
(* Properties *)

\* A live network's owner column and its members' roles never disagree: the
\* account in the column holds role "owner" and nobody else does, although
\* RegisterNetwork, the grants and the role changes write the two separately.
SoleOwner ==
  \A n \in live, a \in Accounts : role[n][a] = "owner" <=> owner[n] = a

\* A tombstoned id has no network row and no member, whatever stale devices
\* register afterwards; and only deleted networks are mourned.
TombstoneFinal ==
  /\ tombstone \cap live = {}
  /\ \A n \in Networks \ live : Members(n) = {} /\ owner[n] = NoAccount /\ key[n] = 0
  /\ \A pair \in mourner : pair[1] \in tombstone

\* While a network lives its owner stays a member, and when it stops living
\* the owner is among the accounts that will be told.
OwnerFollowsNetwork ==
  [][\A n \in live : owner[n] # NoAccount =>
        \/ n \in live' /\ owner'[n] = owner[n] /\ role'[n][owner[n]] = "owner"
        \/ n \in tombstone' /\ <<n, owner[n]>> \in mourner']_registryVars

\* The registry implements the life of a network id.
Lifecycle == INSTANCE NetworkLifecycle WITH
  phase <- [n \in Networks |-> IF n \in tombstone THEN "deleted"
                               ELSE IF n \in live THEN "live" ELSE "unused"],
  holder <- owner
LifecycleSpec == Lifecycle!Spec
================================================================================
