----------------------------- MODULE AccountProofs -----------------------------
(***************************************************************************)
(* Theorems about the registry alone (NetworkRegistry) and in company: with*)
(* the rest of the account service (AccountService), and with the machines *)
(* (DeviceSync).                                                           *)
(*                                                                         *)
(* SoleOwner is not inductive alone: RegisterNetwork leaves an existing    *)
(* member's role as it is even when it hands that member the network, so   *)
(* the proof needs UnclaimedIsEmpty (a row without a key has no owner and  *)
(* no member), and to create a network it needs TombstoneFinal (an id      *)
(* without a row has no leftover members).                                 *)
(*                                                                         *)
(* The registry's theorems hold for RegistrySpec.  In AccountService the   *)
(* registry does not run alone: an answered invitation writes the role     *)
(* table beside it, under none of the registry's guards.  What an answer   *)
(* may write is settled by InvitationsBacked: an invitation exists only    *)
(* while its network does, and that network has a key, so it is not one a  *)
(* device could still claim.  In DeviceSync the machines only move the     *)
(* registry as NetworkRegistry says, so that everything proved of the      *)
(* registry holds of the whole.                                            *)
(***************************************************************************)
EXTENDS AccountService, DeviceSync, FiniteSetTheorems, TLAPS

--------------------------------------------------------------------------------
(* The registry alone, for any accounts, networks, keys and offered roles. *)

\* A row that never had a key has neither an owner nor members.
UnclaimedIsEmpty ==
  \A n \in live : key[n] = 0 => owner[n] = NoAccount /\ Members(n) = {}

RegistryInv == RegistryTypeOK /\ SoleOwner /\ TombstoneFinal /\ UnclaimedIsEmpty

\* The initial database satisfies the invariant.
LEMMA InitInv == RegistryInit => RegistryInv
  BY RegistryAssumption
  DEF RegistryInit, RegistryInv, RegistryTypeOK, SoleOwner, TombstoneFinal,
      UnclaimedIsEmpty, Members, Roles

\* RegisterNetwork preserves the invariant.
LEMMA RegisterInv ==
  ASSUME RegistryInv, NEW a \in Accounts, NEW n \in Networks, NEW k \in Keys,
         RegisterNetwork(a, n, k)
  PROVE  RegistryInv'
<1> DEFINE takes == n \notin live \/ key[n] = 0
<1>1. RegistryTypeOK'
  BY DEF RegistryInv, RegistryTypeOK, RegisterNetwork, Keys, Roles
<1>2. CASE takes
  <2>1. Members(n) = {}
    BY <1>2 DEF RegistryInv, TombstoneFinal, UnclaimedIsEmpty
  <2>2. \A b \in Accounts : role[n][b] = "none"
    BY <2>1 DEF Members
  <2>3. /\ owner' = [owner EXCEPT ![n] = a]
        /\ role' = [role EXCEPT ![n][a] = "owner"]
        /\ live' = live \cup {n}
        /\ key' = [key EXCEPT ![n] = k]
        /\ n \notin tombstone /\ tombstone' = tombstone /\ mourner' = mourner
    BY <1>2, <2>2 DEF RegisterNetwork
  <2>4. SoleOwner'
    BY <2>2, <2>3 DEF RegistryInv, RegistryTypeOK, SoleOwner
  <2>5. TombstoneFinal'
    BY <2>3 DEF RegistryInv, RegistryTypeOK, TombstoneFinal, Members
  <2>6. UnclaimedIsEmpty'
    BY <2>3 DEF RegistryInv, RegistryTypeOK, UnclaimedIsEmpty, Members, Keys
  <2>7. QED BY <1>1, <2>4, <2>5, <2>6 DEF RegistryInv
<1>3. CASE ~takes
  \* The recorded owner already holds its row, so nothing changes at all.
  <2>1. role[n][a] # "none"
    BY <1>3, RegistryAssumption DEF RegistryInv, RegistryTypeOK, SoleOwner, RegisterNetwork
  <2>2. UNCHANGED registryVars
    BY <1>3, <2>1 DEF RegistryInv, RegistryTypeOK, RegisterNetwork, registryVars
  <2>3. QED
    BY <2>2 DEF RegistryInv, RegistryTypeOK, SoleOwner, TombstoneFinal,
                UnclaimedIsEmpty, Members, registryVars
<1>4. QED BY <1>2, <1>3

\* DeleteNetwork preserves the invariant.
LEMMA DeleteInv ==
  ASSUME RegistryInv, NEW a \in Accounts, NEW n \in Networks, NEW k \in Keys,
         DeleteNetwork(a, n, k)
  PROVE  RegistryInv'
<1>1. RegistryTypeOK'
  BY RegistryAssumption DEF RegistryInv, RegistryTypeOK, DeleteNetwork, Members, Roles
<1>2. SoleOwner'
  BY DEF RegistryInv, RegistryTypeOK, SoleOwner, DeleteNetwork
<1>3. TombstoneFinal'
  BY DEF RegistryInv, RegistryTypeOK, TombstoneFinal, DeleteNetwork, Members
<1>4. UnclaimedIsEmpty'
  BY DEF RegistryInv, RegistryTypeOK, UnclaimedIsEmpty, DeleteNetwork, Members
<1>5. QED BY <1>1, <1>2, <1>3, <1>4 DEF RegistryInv

\* A change of one non-owner's role by a managing member of a live network
\* preserves the invariant: what grants, role changes and removals share.
LEMMA RoleChangeInv ==
  ASSUME RegistryInv, NEW n \in live, NEW a \in Accounts, NEW r \in Roles \ {"owner"},
         key[n] # 0, role[n][a] # "owner",
         role' = [role EXCEPT ![n][a] = r],
         UNCHANGED <<live, owner, key, tombstone, mourner, disabled>>
  PROVE  RegistryInv'
<1>1. RegistryTypeOK'
  BY DEF RegistryInv, RegistryTypeOK
<1>2. SoleOwner'
  BY <1>1 DEF RegistryInv, RegistryTypeOK, SoleOwner
<1>3. TombstoneFinal'
  BY DEF RegistryInv, RegistryTypeOK, TombstoneFinal, Members
<1>4. UnclaimedIsEmpty'
  BY DEF RegistryInv, RegistryTypeOK, UnclaimedIsEmpty, Members
<1>5. QED BY <1>1, <1>2, <1>3, <1>4 DEF RegistryInv

\* Grants, role changes and removals preserve the invariant.
LEMMA MemberChangeInv ==
  ASSUME RegistryInv, NEW actor \in Accounts, NEW n \in Networks, NEW k \in Keys,
         MemberChange(actor, n, k)
  PROVE  RegistryInv'
<1>1. /\ OfferedRoles \subseteq Roles \ {"owner"}
      /\ "none" \in Roles \ {"owner"}
  BY RegistryAssumption DEF Roles
<1>2. PICK a \in Accounts :
        \/ \E r \in OfferedRoles : \/ GrantNetworkMember(actor, n, k, a, r)
                                   \/ SetNetworkMemberRole(actor, n, k, a, r)
        \/ RemoveNetworkMember(actor, n, k, a)
  BY DEF MemberChange
<1>3. n \in live /\ key[n] # 0
  BY <1>2 DEF GrantNetworkMember, SetNetworkMemberRole, RemoveNetworkMember,
              changeNetworkMember, MayManage, Keys
<1>4. ASSUME NEW r \in OfferedRoles, GrantNetworkMember(actor, n, k, a, r)
      PROVE  RegistryInv'
  BY <1>1, <1>3, <1>4, RoleChangeInv DEF GrantNetworkMember
<1>5. ASSUME NEW r \in OfferedRoles, SetNetworkMemberRole(actor, n, k, a, r)
      PROVE  RegistryInv'
  BY <1>1, <1>3, <1>5, RoleChangeInv DEF SetNetworkMemberRole, changeNetworkMember
<1>6. ASSUME RemoveNetworkMember(actor, n, k, a)
      PROVE  RegistryInv'
  BY <1>1, <1>3, <1>6, RoleChangeInv DEF RemoveNetworkMember, changeNetworkMember
<1>7. QED BY <1>2, <1>4, <1>5, <1>6

\* Every step of the registry preserves the invariant.
LEMMA NextInv == RegistryInv /\ [RegistryNext]_registryVars => RegistryInv'
<1> SUFFICES ASSUME RegistryInv, [RegistryNext]_registryVars
             PROVE  RegistryInv'
  OBVIOUS
<1>1. CASE \E a \in Accounts, n \in Networks, k \in Keys : RegisterNetwork(a, n, k)
  BY <1>1, RegisterInv
<1>2. CASE \E a \in Accounts, n \in Networks, k \in Keys : DeleteNetwork(a, n, k)
  BY <1>2, DeleteInv
<1>3. CASE \E a \in Accounts, n \in Networks, k \in Keys : MemberChange(a, n, k)
  BY <1>3, MemberChangeInv
<1>4. ASSUME NEW n \in Networks, RotateNetworkKey(n)
      PROVE  RegistryInv'
  <2>1. RegistryTypeOK'
    BY <1>4, RegistryAssumption DEF RegistryInv, RegistryTypeOK, RotateNetworkKey
  <2>2. \A m \in Networks : key'[m] = 0 => key[m] = 0 /\ key'[m] = key[m]
    BY <1>4 DEF RegistryInv, RegistryTypeOK, RotateNetworkKey
  <2>3. SoleOwner'
    BY <1>4 DEF RegistryInv, SoleOwner, RotateNetworkKey
  <2>4. TombstoneFinal'
    BY <1>4 DEF RegistryInv, RegistryTypeOK, TombstoneFinal, Members, RotateNetworkKey
  <2>5. UnclaimedIsEmpty'
    BY <1>4, <2>2 DEF RegistryInv, RegistryTypeOK, UnclaimedIsEmpty, Members, RotateNetworkKey
  <2>6. QED BY <2>1, <2>3, <2>4, <2>5 DEF RegistryInv
<1>5. ASSUME NEW a \in Accounts, NEW off \in BOOLEAN, SetAccountDisabled(a, off)
      PROVE  RegistryInv'
  BY <1>5 DEF RegistryInv, RegistryTypeOK, SoleOwner, TombstoneFinal,
              UnclaimedIsEmpty, Members, SetAccountDisabled
<1>6. CASE UNCHANGED registryVars
  BY <1>6 DEF RegistryInv, RegistryTypeOK, SoleOwner, TombstoneFinal,
              UnclaimedIsEmpty, Members, registryVars
<1>7. QED BY <1>1, <1>2, <1>3, <1>4, <1>5, <1>6 DEF RegistryNext

\* The inductive invariant holds in every reachable state.
THEOREM RegistryInvariant == RegistrySpec => []RegistryInv
<1>1. RegistryInit => RegistryInv BY InitInv
<1>2. RegistryInv /\ [RegistryNext]_registryVars => RegistryInv' BY NextInv
<1>3. QED BY <1>1, <1>2, PTL DEF RegistrySpec

\* Every table always holds rows of its type.
THEOREM RegistryTypeCorrect == RegistrySpec => []RegistryTypeOK
<1>1. RegistryInv => RegistryTypeOK BY DEF RegistryInv
<1>2. QED BY <1>1, RegistryInvariant, PTL

\* The owner column and the role table of a live network always agree.
THEOREM SoleOwnerHolds == RegistrySpec => []SoleOwner
<1>1. RegistryInv => SoleOwner BY DEF RegistryInv
<1>2. QED BY <1>1, RegistryInvariant, PTL

\* A deleted id never again has a row or a member.
THEOREM TombstoneFinalHolds == RegistrySpec => []TombstoneFinal
<1>1. RegistryInv => TombstoneFinal BY DEF RegistryInv
<1>2. QED BY <1>1, RegistryInvariant, PTL

(* A live network and its owner are parted by nothing but the deletion that   *)
(* leaves the owner a tombstone.                                              *)

OwnerStep ==
  \A n \in live : owner[n] # NoAccount =>
    \/ n \in live' /\ owner'[n] = owner[n] /\ role'[n][owner[n]] = "owner"
    \/ n \in tombstone' /\ <<n, owner[n]>> \in mourner'

\* A step of the registry keeps every live network with its owner.
LEMMA OwnerStepHolds ==
  ASSUME RegistryInv, RegistryNext
  PROVE  OwnerStep
<1>1. SUFFICES ASSUME NEW n \in live, owner[n] # NoAccount,
                      ~(n \in tombstone' /\ <<n, owner[n]>> \in mourner')
               PROVE  n \in live' /\ owner'[n] = owner[n] /\ role'[n][owner[n]] = "owner"
  BY DEF OwnerStep
<1>2. RegistryInv'
  BY NextInv
<1>3. n \in Networks /\ owner[n] \in Accounts /\ role[n][owner[n]] = "owner"
  BY <1>1 DEF RegistryInv, RegistryTypeOK, SoleOwner
<1>4. key[n] # 0
  BY <1>1 DEF RegistryInv, UnclaimedIsEmpty
<1>5. n \in live' /\ owner'[n] = owner[n]
  <2>1. ASSUME NEW a \in Accounts, NEW m \in Networks, NEW k \in Keys, RegisterNetwork(a, m, k)
        PROVE  n \in live' /\ owner'[n] = owner[n]
    BY <1>1, <1>3, <1>4, <2>1 DEF RegisterNetwork, RegistryInv, RegistryTypeOK
  <2>2. ASSUME NEW a \in Accounts, NEW m \in Networks, NEW k \in Keys, DeleteNetwork(a, m, k)
        PROVE  n \in live' /\ owner'[n] = owner[n]
    <3>1. m # n
      BY <1>1, <1>3, <2>2 DEF DeleteNetwork, Members
    <3>2. QED
      BY <1>1, <1>3, <2>2, <3>1 DEF DeleteNetwork, RegistryInv, RegistryTypeOK
  <2>3. ASSUME NEW a \in Accounts, NEW m \in Networks, NEW k \in Keys, MemberChange(a, m, k)
        PROVE  n \in live' /\ owner'[n] = owner[n]
    BY <1>1, <2>3 DEF MemberChange, GrantNetworkMember, SetNetworkMemberRole,
                      RemoveNetworkMember, changeNetworkMember
  <2>4. ASSUME NEW m \in Networks, RotateNetworkKey(m)
        PROVE  n \in live' /\ owner'[n] = owner[n]
    BY <1>1, <2>4 DEF RotateNetworkKey
  <2>5. ASSUME NEW a \in Accounts, NEW off \in BOOLEAN, SetAccountDisabled(a, off)
        PROVE  n \in live' /\ owner'[n] = owner[n]
    BY <1>1, <2>5 DEF SetAccountDisabled
  <2>6. QED BY <2>1, <2>2, <2>3, <2>4, <2>5 DEF RegistryNext
<1>6. role'[n][owner'[n]] = "owner"
  BY <1>2, <1>3, <1>5 DEF RegistryInv, SoleOwner
<1>7. QED BY <1>5, <1>6

\* No step parts a live network from its owner except the deletion that
\* leaves the owner a tombstone.
THEOREM OwnerFollowsNetworkHolds == RegistrySpec => OwnerFollowsNetwork
<1>1. RegistryInv /\ [RegistryNext]_registryVars => [OwnerStep]_registryVars
  BY OwnerStepHolds
<1>2. RegistrySpec => [][OwnerStep]_registryVars
  BY <1>1, RegistryInvariant, PTL DEF RegistrySpec
<1>3. QED BY <1>2 DEF OwnerFollowsNetwork, OwnerStep

--------------------------------------------------------------------------------
(* The registry implements NetworkLifecycle: each step creates, claims or     *)
(* deletes one id, or leaves every id where it is.                            *)

PhaseOf == [n \in Networks |-> IF n \in tombstone THEN "deleted"
                               ELSE IF n \in live THEN "live" ELSE "unused"]

\* An empty or freshly upgraded database maps to the abstract initial state.
LEMMA LifecycleInit == RegistryInit => Lifecycle!Init
  BY RegistryAssumption DEF RegistryInit, Lifecycle!Init

\* A step of the registry maps to a step of the life of one id or to a stutter.
LEMMA LifecycleStep ==
  ASSUME RegistryInv, RegistryNext
  PROVE  [Lifecycle!Next]_(Lifecycle!lifecycleVars)
<1> DEFINE still == PhaseOf' = PhaseOf /\ owner' = owner
<1>1. still => [Lifecycle!Next]_(Lifecycle!lifecycleVars)
  BY DEF Lifecycle!lifecycleVars, PhaseOf
<1>2. ASSUME NEW a \in Accounts, NEW n \in Networks, NEW k \in Keys, RegisterNetwork(a, n, k)
      PROVE  [Lifecycle!Next]_(Lifecycle!lifecycleVars)
  <2>1. CASE n \notin live
    <3>1. PhaseOf' = [PhaseOf EXCEPT ![n] = "live"] /\ PhaseOf[n] = "unused"
      BY <1>2, <2>1 DEF RegisterNetwork, PhaseOf
    <3>2. owner' = [owner EXCEPT ![n] = a]
      BY <1>2, <2>1 DEF RegisterNetwork
    <3>3. Lifecycle!Create(n, a)
      BY <3>1, <3>2 DEF Lifecycle!Create, PhaseOf
    <3>4. QED BY <3>3 DEF Lifecycle!Next
  <2>2. CASE n \in live /\ key[n] = 0
    <3>1. PhaseOf' = PhaseOf /\ PhaseOf[n] = "live"
      BY <1>2, <2>2 DEF RegisterNetwork, PhaseOf
    <3>2. owner' = [owner EXCEPT ![n] = a] /\ owner[n] = NoAccount
      BY <1>2, <2>2, RegistryInv DEF RegisterNetwork, RegistryInv, UnclaimedIsEmpty
    <3>3. Lifecycle!Claim(n, a)
      BY <3>1, <3>2 DEF Lifecycle!Claim, PhaseOf
    <3>4. QED BY <3>3 DEF Lifecycle!Next
  <2>3. CASE n \in live /\ key[n] # 0
    <3>1. still
      BY <1>2, <2>3, RegistryInv
      DEF RegisterNetwork, PhaseOf, RegistryInv, RegistryTypeOK
    <3>2. QED BY <1>1, <3>1
  <2>4. QED BY <2>1, <2>2, <2>3
<1>3. ASSUME NEW a \in Accounts, NEW n \in Networks, NEW k \in Keys, DeleteNetwork(a, n, k)
      PROVE  [Lifecycle!Next]_(Lifecycle!lifecycleVars)
  <2>1. n \notin tombstone /\ owner[n] # NoAccount
    BY <1>3, RegistryInv, RegistryAssumption DEF DeleteNetwork, RegistryInv, TombstoneFinal
  <2>2. PhaseOf' = [PhaseOf EXCEPT ![n] = "deleted"] /\ PhaseOf[n] = "live"
    BY <1>3, <2>1 DEF DeleteNetwork, PhaseOf
  <2>3. owner' = [owner EXCEPT ![n] = NoAccount]
    BY <1>3 DEF DeleteNetwork
  <2>4. Lifecycle!Delete(n)
    BY <2>1, <2>2, <2>3 DEF Lifecycle!Delete, PhaseOf
  <2>5. QED BY <2>4 DEF Lifecycle!Next
<1>4. ASSUME NEW a \in Accounts, NEW n \in Networks, NEW k \in Keys, MemberChange(a, n, k)
      PROVE  still
  BY <1>4 DEF MemberChange, GrantNetworkMember, SetNetworkMemberRole,
              RemoveNetworkMember, changeNetworkMember, PhaseOf
<1>5. ASSUME NEW n \in Networks, RotateNetworkKey(n)
      PROVE  still
  BY <1>5 DEF RotateNetworkKey, PhaseOf
<1>6. ASSUME NEW a \in Accounts, NEW off \in BOOLEAN, SetAccountDisabled(a, off)
      PROVE  still
  BY <1>6 DEF SetAccountDisabled, PhaseOf
<1>7. QED BY <1>1, <1>2, <1>3, <1>4, <1>5, <1>6 DEF RegistryNext

\* Deletion is for good, a living network keeps its owner, and only a network
\* somebody owns can be deleted: the registry refines the life of a network id.
THEOREM RegistryRefinesLifecycle == RegistrySpec => LifecycleSpec
<1>1. UNCHANGED registryVars => UNCHANGED Lifecycle!lifecycleVars
  BY DEF registryVars, Lifecycle!lifecycleVars
<1>2. RegistryInv /\ [RegistryNext]_registryVars
        => [Lifecycle!Next]_(Lifecycle!lifecycleVars)
  BY <1>1, LifecycleStep
<1>3. QED
  BY <1>2, LifecycleInit, RegistryInvariant, PTL
  DEF RegistrySpec, LifecycleSpec, Lifecycle!Spec

--------------------------------------------------------------------------------
(* The account service, for any accounts, networks, controllers, roles and    *)
(* bounds.                                                                    *)

\* The only administrator is the account registered first.  Only it has requests of
\* updateAccount under way; one to disable itself got past the second look at its session
\* because that had ended.
Update == [account : Accounts \cup {NoAccount}, off : BOOLEAN,
           step : {"none", "admitted", "checked", "written"}, session : BOOLEAN]

UpdateInv(a) ==
  /\ updating[a].step # "none" => a \in admins /\ updating[a].account \in registered
  /\ updating[a].step \in {"admitted", "checked"} => SignedIn(a)
  /\ updating[a].step = "checked" /\ updating[a].off /\ updating[a].account = a =>
       ~updating[a].session

AccountInv ==
  /\ registered \subseteq Accounts /\ disabled \subseteq registered
  /\ sessions \cup verified \subseteq registered
  /\ logins \in 0 .. MaxLogins
  /\ registered = {} => admins = {}
  /\ registered # {} => \E a \in registered : admins = {a}
  /\ updating \in [Accounts -> Update]
  /\ \A a \in Accounts : UpdateInv(a)

Offering == [network : Networks, account : Accounts, role : OfferedRoles]
Written == [id : 1 .. MaxOffers, role : OfferedRoles,
            status : {"pending", "accepted", "declined"}]

InvitationTypeOK ==
  /\ offers \in 0 .. MaxOffers
  /\ invitation \in [Networks -> [Accounts -> Written \cup {NoInvitation}]]
  /\ inviting \in [Accounts -> Offering \cup {NoOffer}]

\* Ids are given out once, and a pending row is an offer its invitee was shown.
OffersCounted ==
  /\ \A s \in shown : s.id \in 1 .. offers
  /\ \A s, t \in shown : s.id = t.id => s = t
  /\ admitted \subseteq shown
  /\ \A n \in Networks, a \in Accounts : invitation[n][a].status = "pending" =>
       Shown(invitation[n][a].id, n, a, invitation[n][a].role) \in shown

\* Whoever invites found the network live and managed, which one without a key
\* is not.
InvitationsBacked ==
  /\ \A n \in Networks, a \in Accounts :
       invitation[n][a] # NoInvitation => n \in live /\ key[n] # 0
  /\ \A a \in Accounts :
       inviting[a] # NoOffer /\ inviting[a].network \in live => key[inviting[a].network] # 0

ServiceInv ==
  /\ RegistryInv /\ AccountInv
  /\ InvitationTypeOK /\ OffersCounted /\ InvitationsBacked

--------------------------------------------------------------------------------
(* What a step does to the registry *)

\* A network without a key has been there, without one, since the start.
LEMMA KeysAreKept ==
  ASSUME RegistryInv, [RegistryNext]_registryVars, NEW n \in live', key'[n] = 0
  PROVE  n \in live /\ key[n] = 0
<1>1. CASE UNCHANGED registryVars
  BY <1>1 DEF registryVars
<1>2. ASSUME NEW a \in Accounts, NEW m \in Networks, NEW k \in Keys, RegisterNetwork(a, m, k)
      PROVE  n \in live /\ key[n] = 0
  BY <1>2 DEF RegisterNetwork, Keys, RegistryInv, RegistryTypeOK
<1>3. ASSUME NEW a \in Accounts, NEW m \in Networks, NEW k \in Keys, DeleteNetwork(a, m, k)
      PROVE  n \in live /\ key[n] = 0
  BY <1>3 DEF DeleteNetwork, RegistryInv, RegistryTypeOK
<1>4. ASSUME NEW a \in Accounts, NEW m \in Networks, NEW k \in Keys, MemberChange(a, m, k)
      PROVE  n \in live /\ key[n] = 0
  BY <1>4 DEF MemberChange, GrantNetworkMember, SetNetworkMemberRole, RemoveNetworkMember,
              changeNetworkMember
<1>5. ASSUME NEW m \in Networks, RotateNetworkKey(m)
      PROVE  n \in live /\ key[n] = 0
  BY <1>5, RegistryAssumption DEF RotateNetworkKey, RegistryInv, RegistryTypeOK
<1>6. ASSUME NEW a \in Accounts, NEW off \in BOOLEAN, SetAccountDisabled(a, off)
      PROVE  n \in live /\ key[n] = 0
  BY <1>6 DEF SetAccountDisabled
<1> QED BY <1>1, <1>2, <1>3, <1>4, <1>5, <1>6 DEF RegistryNext

\* The operations the registry shares with the service are its own steps.
LEMMA RegistryStepIsRegistry ==
  ASSUME AccountInv, RegistryStep
  PROVE  RegistryNext
<1>1. CASE \E n \in Networks : RotateNetworkKey(n)
  BY <1>1 DEF RegistryNext
<1>2. ASSUME NEW a \in sessions, NEW n \in Networks, NEW k \in Keys,
             RegisterNetwork(a, n, k) \/ DeleteNetwork(a, n, k)
      PROVE  RegistryNext
  BY <1>2 DEF RegistryNext, AccountInv
<1>3. ASSUME NEW a \in sessions, NEW n \in Networks, NEW k \in Keys, NEW b \in registered,
             \/ \E r \in OfferedRoles : \/ GrantNetworkMember(a, n, k, b, r)
                                        \/ SetNetworkMemberRole(a, n, k, b, r)
             \/ RemoveNetworkMember(a, n, k, b)
      PROVE  RegistryNext
  <2>1. a \in Accounts /\ b \in Accounts
    BY DEF AccountInv
  <2>2. MemberChange(a, n, k)
    BY <1>3, <2>1 DEF MemberChange
  <2> QED BY <2>1, <2>2 DEF RegistryNext
<1> QED BY <1>1, <1>2, <1>3 DEF RegistryStep

\* An answer writes one role of an account that has none, in a network that is
\* live and has a key.
LEMMA AnswerKeepsRegistry ==
  ASSUME ServiceInv, NEW a \in Accounts, NEW n \in Networks, NEW id, NEW accept \in BOOLEAN,
         RespondToInvitation(a, n, id, accept)
  PROVE  RegistryInv'
<1>1. CASE accept /\ role[n][a] = "none"
  <2> DEFINE r == invitation[n][a].role
  <2>1. invitation[n][a] # NoInvitation
    BY DEF RespondToInvitation, NoInvitation
  <2>2. n \in live /\ key[n] # 0 /\ r \in OfferedRoles
    BY <2>1 DEF ServiceInv, InvitationsBacked, InvitationTypeOK, Written
  <2>3. r \in Roles \ {"owner"}
    BY <2>2, RegistryAssumption DEF Roles
  <2>4. role' = [role EXCEPT ![n][a] = r]
    BY <1>1 DEF RespondToInvitation
  <2> QED BY <1>1, <2>2, <2>3, <2>4, RoleChangeInv DEF ServiceInv, RespondToInvitation
<1>2. CASE ~(accept /\ role[n][a] = "none")
  <2>1. UNCHANGED registryVars
    BY <1>2 DEF RespondToInvitation, registryVars
  <2> QED BY <2>1, NextInv DEF ServiceInv
<1> QED BY <1>1, <1>2

\* Every other step of the service is one of the registry, or leaves it alone.
LEMMA ServiceStepsRegistry ==
  ASSUME AccountInv, [ServiceNext]_serviceVars
  PROVE  \/ [RegistryNext]_registryVars
         \/ \E a \in Accounts, n \in Networks, id \in 1 .. MaxOffers, accept \in BOOLEAN :
              RespondToInvitation(a, n, id, accept)
<1>1. CASE RegistryStep
  BY <1>1, RegistryStepIsRegistry
<1>2. CASE UNCHANGED serviceVars
  BY <1>2 DEF serviceVars
<1>3. ASSUME NEW a \in Accounts, writeDisabled(a)
      PROVE  RegistryNext
  <2>1. /\ SetAccountDisabled(updating[a].account, updating[a].off)
        /\ updating[a].account \in Accounts /\ updating[a].off \in BOOLEAN
    BY <1>3 DEF writeDisabled, AccountInv, UpdateInv, Update
  <2> QED BY <2>1 DEF RegistryNext
<1>4. ASSUME NEW a \in Accounts,
             \/ register(a) \/ login(a) \/ issueSession(a) \/ logout(a)
             \/ \E b \in Accounts, off \in BOOLEAN : updateAccount(a, b, off)
             \/ checkCurrent(a) \/ deleteSessions(a)
             \/ WriteInvitation(a) \/ InvitationRefused(a) \/ DeleteInvitation(a)
             \/ \E b \in Accounts, n \in Networks :
                  \/ \E r \in OfferedRoles : CreateInvitation(a, n, b, r)
                  \/ RevokeInvitation(a, n, b)
             \/ \E c \in Controllers, wanted \in SUBSET Networks, rotate \in BOOLEAN :
                  ConfigureController(a, c, wanted, rotate)
      PROVE  UNCHANGED registryVars
  BY <1>4 DEF register, login, issueSession, logout, updateAccount, checkCurrent, deleteSessions,
              WriteInvitation, InvitationRefused,
              DeleteInvitation, CreateInvitation, RevokeInvitation, ConfigureController
<1> QED BY <1>1, <1>2, <1>3, <1>4 DEF ServiceNext

\* The registry's invariant survives every step of the service.
LEMMA ServiceKeepsRegistry ==
  ASSUME ServiceInv, [ServiceNext]_serviceVars
  PROVE  RegistryInv'
BY ServiceStepsRegistry, AnswerKeepsRegistry, NextInv DEF ServiceInv

--------------------------------------------------------------------------------
(* Accounts *)

\* Nobody else becomes an administrator, and nobody but the administrator updates accounts.
LEMMA StepKeepsAccounts ==
  ASSUME AccountInv, [ServiceNext]_serviceVars
  PROVE  AccountInv'
<1> DEFINE accountsStay == UNCHANGED <<accountVars, disabled>>
<1>1. accountsStay => AccountInv'
  BY DEF AccountInv, UpdateInv, SignedIn, accountVars
<1>2. CASE UNCHANGED serviceVars
  BY <1>1, <1>2 DEF serviceVars, registryVars
<1>3. CASE RegistryStep
  <2>1. UNCHANGED disabled
    BY <1>3 DEF RegistryStep, RegisterNetwork, DeleteNetwork, GrantNetworkMember,
                SetNetworkMemberRole, RemoveNetworkMember, changeNetworkMember, RotateNetworkKey
  <2> QED BY <1>1, <1>3, <2>1 DEF RegistryStep
<1>4. ASSUME NEW a \in Accounts, register(a)
      PROVE  AccountInv'
  <2>1. /\ registered' = registered \cup {a} /\ disabled' = disabled /\ updating' = updating
        /\ admins \subseteq admins' /\ UNCHANGED <<verified, logins>>
        /\ sessions' = sessions \cup {a}
    BY <1>4 DEF register, CreateAccount, registryVars, AccountInv
  <2>2. \E b \in registered' : admins' = {b}
    BY <1>4, <2>1 DEF register, CreateAccount, AccountInv
  <2>3. \A b \in Accounts : UpdateInv(b)'
    BY <2>1 DEF AccountInv, UpdateInv, SignedIn
  <2> QED BY <2>1, <2>2, <2>3 DEF AccountInv
<1>5. ASSUME NEW a \in Accounts, login(a) \/ issueSession(a)
      PROVE  AccountInv'
  <2>1. UNCHANGED <<registered, admins, disabled, updating>> /\ logins' \in 0 .. MaxLogins
    BY <1>5, AccountAssumption DEF login, issueSession, registryVars, AccountInv
  <2>2. sessions' \cup verified' \subseteq registered'
    BY <1>5, <2>1 DEF login, issueSession, CreateSession, AccountInv
  <2> QED BY <2>1, <2>2 DEF AccountInv, UpdateInv, SignedIn
<1>6. ASSUME NEW a \in Accounts, NEW u \in Update, updating' = [updating EXCEPT ![a] = u],
             u.step # "none" => a \in admins /\ u.account \in registered,
             u.step \in {"admitted", "checked"} => SignedIn(a)', disabled' = disabled \/ a \in admins,
             u.step = "checked" /\ u.off /\ u.account = a => ~u.session,
             UNCHANGED <<registered, admins, verified, logins>>,
             sessions' \subseteq sessions, disabled' \subseteq registered
      PROVE  AccountInv'
  <2>1. updating' \in [Accounts -> Update] /\ updating'[a] = u
        /\ \A b \in Accounts \ {a} : updating'[b] = updating[b]
    BY <1>6 DEF AccountInv
  <2>2. ASSUME NEW b \in Accounts
        PROVE  UpdateInv(b)'
    <3>1. CASE b = a
      BY <1>6, <2>1, <3>1 DEF UpdateInv
    <3>2. CASE b # a
      <4>1. updating'[b] = updating[b] /\ UpdateInv(b) /\ admins' = admins /\ registered' = registered
        BY <1>6, <2>1, <3>2 DEF AccountInv
      <4>2. disabled' = disabled \/ b \notin admins
        BY <1>6, <3>2 DEF AccountInv
      <4> QED BY <4>1, <4>2 DEF UpdateInv, SignedIn
    <3> QED BY <3>1, <3>2
  <2> QED BY <1>6, <2>1, <2>2 DEF AccountInv
<1>6a. ASSUME NEW a \in Accounts, logout(a)
       PROVE  AccountInv'
  <2> DEFINE u == [updating[a] EXCEPT !.session = FALSE]
  <2>1. u \in Update /\ u.step = updating[a].step /\ u.account = updating[a].account /\ ~u.session
    BY DEF AccountInv, Update
  <2>2. /\ updating' = [updating EXCEPT ![a] = u] /\ sessions' \subseteq sessions
        /\ UNCHANGED <<registered, admins, verified, logins, disabled>>
    BY <1>6a DEF logout, EndSessions, registryVars
  <2>3. UpdateInv(a) /\ disabled \subseteq registered
    BY DEF AccountInv
  <2> HIDE DEF u
  <2>4. SignedIn(a)' = SignedIn(a)
    BY <2>2 DEF SignedIn
  <2> QED BY <1>6, <2>1, <2>2, <2>3, <2>4 DEF UpdateInv
<1>6b. ASSUME NEW a \in Accounts, NEW b \in Accounts, NEW off \in BOOLEAN, updateAccount(a, b, off)
       PROVE  AccountInv'
  <2> DEFINE u == [account |-> b, off |-> off, step |-> "admitted", session |-> TRUE]
  <2>1. u \in Update /\ u.step = "admitted" /\ u.account = b
    BY DEF Update
  <2>2. /\ updating' = [updating EXCEPT ![a] = u] /\ a \in admins /\ b \in registered
        /\ SignedIn(a) /\ SignedIn(a)' = SignedIn(a)
        /\ UNCHANGED <<registered, admins, verified, logins, sessions, disabled>>
    BY <1>6b DEF updateAccount, requireAdmin, currentAccount, SessionAccount, SignedIn, registryVars
  <2> HIDE DEF u
  <2> QED BY <1>6, <2>1, <2>2 DEF AccountInv
<1>6c. ASSUME NEW a \in Accounts, checkCurrent(a)
       PROVE  AccountInv'
  <2> DEFINE own == updating[a].session /\ SignedIn(a) /\ updating[a].account = a
             u == IF own /\ updating[a].off THEN NoUpdate ELSE [updating[a] EXCEPT !.step = "checked"]
  <2>1. /\ updating' = [updating EXCEPT ![a] = u]
        /\ UNCHANGED <<registered, admins, verified, logins, sessions, disabled>>
        /\ updating[a].step = "admitted" /\ updating[a] \in Update /\ UpdateInv(a)
    BY <1>6c DEF checkCurrent, registryVars, AccountInv
  <2>2. /\ u \in Update
        /\ u.step # "none" => u.account = updating[a].account
        /\ u.step = "checked" => ~own \/ ~updating[a].off
        /\ u.step = "checked" => u.off = updating[a].off /\ u.session = updating[a].session
    BY <2>1 DEF Update, NoUpdate
  <2>3. u.step = "checked" /\ u.off /\ u.account = a => ~u.session
    <3>1. SignedIn(a)
      BY <2>1 DEF UpdateInv
    <3> QED BY <2>1, <2>2, <3>1
  <2>4. SignedIn(a)' = SignedIn(a)
    BY <2>1 DEF SignedIn
  <2> HIDE DEF u, own
  <2> QED BY <1>6, <2>1, <2>2, <2>3, <2>4 DEF UpdateInv, AccountInv
<1>6d. ASSUME NEW a \in Accounts, writeDisabled(a)
       PROVE  AccountInv'
  <2> DEFINE u == IF updating[a].off THEN [updating[a] EXCEPT !.step = "written"] ELSE NoUpdate
  <2>1. /\ updating' = [updating EXCEPT ![a] = u] /\ updating[a].account \in registered
        /\ UNCHANGED <<registered, admins, verified, logins, sessions>>
        /\ updating[a] \in Update /\ a \in admins
    BY <1>6d DEF writeDisabled, AccountInv, UpdateInv
  <2>2. /\ u \in Update /\ u.step \in {"none", "written"}
        /\ u.step # "none" => u.account = updating[a].account
    BY <2>1 DEF Update, NoUpdate
  <2>3. disabled' \subseteq registered
    BY <1>6d, <2>1 DEF writeDisabled, SetAccountDisabled, AccountInv
  <2> HIDE DEF u
  <2> QED BY <1>6, <2>1, <2>2, <2>3
<1>6e. ASSUME NEW a \in Accounts, deleteSessions(a)
       PROVE  AccountInv'
  <2> DEFINE b == updating[a].account
  <2>1. /\ UNCHANGED <<registered, admins, verified, logins, disabled>> /\ sessions' \subseteq sessions
        /\ updating' = [updating EXCEPT ![b].session = FALSE, ![a] = NoUpdate]
        /\ b \in Accounts
    BY <1>6e DEF deleteSessions, registryVars, AccountInv, UpdateInv
  <2>2. NoUpdate \in Update /\ \A v \in Update : [v EXCEPT !.session = FALSE] \in Update
    BY DEF NoUpdate, Update
  <2>3. \A c \in Accounts : updating'[c] \in {NoUpdate, updating[c], [updating[c] EXCEPT !.session = FALSE]}
    BY <2>1 DEF AccountInv
  <2>4. updating' \in [Accounts -> Update]
    BY <2>1, <2>2 DEF AccountInv
  <2>5. ASSUME NEW c \in Accounts
        PROVE  UpdateInv(c)'
    <3>1. UpdateInv(c) /\ updating[c] \in Update /\ SignedIn(c)' = SignedIn(c)
      BY <2>1 DEF AccountInv, SignedIn
    <3>2. CASE updating'[c] = NoUpdate
      BY <3>2 DEF UpdateInv, NoUpdate
    <3>3. CASE updating'[c] = updating[c]
      BY <2>1, <3>1, <3>3 DEF UpdateInv
    <3>4. CASE updating'[c] = [updating[c] EXCEPT !.session = FALSE]
      <4>1. /\ updating'[c].step = updating[c].step /\ updating'[c].account = updating[c].account
            /\ ~updating'[c].session
        BY <3>1, <3>4 DEF Update
      <4> QED BY <2>1, <3>1, <4>1 DEF UpdateInv
    <3> QED BY <2>3, <3>2, <3>3, <3>4
  <2> QED BY <2>1, <2>4, <2>5 DEF AccountInv
<1>7. ASSUME NEW a \in Accounts,
             \/ WriteInvitation(a) \/ InvitationRefused(a) \/ DeleteInvitation(a)
             \/ \E b \in Accounts, n \in Networks :
                  \/ \E r \in OfferedRoles : CreateInvitation(a, n, b, r)
                  \/ RevokeInvitation(a, n, b)
             \/ \E n \in Networks, id \in 1 .. MaxOffers, accept \in BOOLEAN :
                  RespondToInvitation(a, n, id, accept)
             \/ \E c \in Controllers, wanted \in SUBSET Networks, rotate \in BOOLEAN :
                  ConfigureController(a, c, wanted, rotate)
      PROVE  accountsStay
  BY <1>7 DEF WriteInvitation, InvitationRefused, DeleteInvitation, CreateInvitation,
              RevokeInvitation, RespondToInvitation, ConfigureController, registryVars
<1> QED BY <1>1, <1>2, <1>3, <1>4, <1>5, <1>6a, <1>6b, <1>6c, <1>6d, <1>6e, <1>7 DEF ServiceNext

--------------------------------------------------------------------------------
(* Invitations *)

InvitationInv == InvitationTypeOK /\ OffersCounted /\ InvitationsBacked

\* What decides whether the invitations are in order.
offerVars == <<invitation, inviting, offers, shown, admitted, live, key>>

LEMMA OffersUntouched ==
  ASSUME InvitationInv, UNCHANGED offerVars
  PROVE  InvitationInv'
BY DEF InvitationInv, InvitationTypeOK, OffersCounted, InvitationsBacked, offerVars

\* A deleted network takes its invitations with it.
LEMMA CascadeKeepsInvitations ==
  ASSUME ServiceInv, RegistryStep
  PROVE  InvitationInv'
<1>1. /\ \A n \in Networks : invitation'[n] =
             IF n \in live' THEN invitation[n] ELSE [a \in Accounts |-> NoInvitation]
      /\ UNCHANGED <<inviting, offers, shown, admitted>>
      /\ invitation' = [n \in Networks |-> invitation'[n]]
  BY DEF RegistryStep, Cascade
<1>2. \A n \in live' : key'[n] = 0 => n \in live /\ key[n] = 0
  BY RegistryStepIsRegistry, KeysAreKept DEF ServiceInv
<1>3. \A n \in Networks, a \in Accounts :
         invitation'[n][a] = NoInvitation \/ (n \in live' /\ invitation'[n][a] = invitation[n][a])
  BY <1>1
<1>4. InvitationTypeOK'
  BY <1>1 DEF ServiceInv, InvitationTypeOK
<1>5. OffersCounted'
  BY <1>1, <1>3 DEF ServiceInv, OffersCounted, NoInvitation
<1>6. InvitationsBacked'
  BY <1>1, <1>2, <1>3 DEF ServiceInv, InvitationsBacked
<1> QED BY <1>4, <1>5, <1>6 DEF InvitationInv

\* Only a network with a key has a member who may invite.
LEMMA CreateKeepsInvitations ==
  ASSUME ServiceInv, NEW actor \in Accounts, NEW n \in Networks, NEW a \in Accounts,
         NEW r \in OfferedRoles, CreateInvitation(actor, n, a, r)
  PROVE  InvitationInv'
<1> DEFINE o == [network |-> n, account |-> a, role |-> r]
<1>1. /\ inviting' = [inviting EXCEPT ![actor] = o]
      /\ UNCHANGED <<invitation, offers, shown, admitted, live, key>>
  BY DEF CreateInvitation, registryVars
<1>2. n \in live /\ key[n] # 0
  <2>1. n \in live /\ actor \in Members(n)
    BY DEF CreateInvitation, canInvite, ManagingRoles, Members
  <2> QED BY <2>1 DEF ServiceInv, RegistryInv, UnclaimedIsEmpty
<1>3. o \in Offering
  BY DEF Offering
<1>4. InvitationTypeOK'
  BY <1>1, <1>3 DEF ServiceInv, InvitationTypeOK
<1>5. OffersCounted'
  BY <1>1 DEF ServiceInv, OffersCounted
<1>6. InvitationsBacked'
  BY <1>1, <1>2 DEF ServiceInv, InvitationsBacked, InvitationTypeOK
<1> QED BY <1>4, <1>5, <1>6 DEF InvitationInv

\* The offer written last has the highest id, whatever row it replaces.
LEMMA WriteKeepsInvitations ==
  ASSUME ServiceInv, NEW actor \in Accounts, WriteInvitation(actor)
  PROVE  InvitationInv'
<1> DEFINE o == inviting[actor]
           n == o.network
           a == o.account
           id == offers + 1
<1>1. /\ o # NoOffer /\ n \in live /\ offers < MaxOffers /\ offers' = id
      /\ invitation' = [invitation EXCEPT ![n][a] = Offer(id, o.role)]
      /\ shown' = shown \cup {Shown(id, n, a, o.role)}
      /\ inviting' = [inviting EXCEPT ![actor] = NoOffer]
      /\ UNCHANGED <<admitted, live, key>>
  BY DEF WriteInvitation, registryVars
<1>2. n \in Networks /\ a \in Accounts /\ o.role \in OfferedRoles
  BY <1>1 DEF ServiceInv, InvitationTypeOK, Offering
<1>3. offers \in Nat /\ id \in 1 .. MaxOffers /\ offers' \in 0 .. MaxOffers
  BY <1>1, AccountAssumption DEF ServiceInv, InvitationTypeOK
<1>4. InvitationTypeOK'
  <2>1. Offer(id, o.role) \in Written
    BY <1>2, <1>3 DEF Offer, Written
  <2>2. invitation' \in [Networks -> [Accounts -> Written \cup {NoInvitation}]]
    BY <1>1, <1>2, <2>1 DEF ServiceInv, InvitationTypeOK
  <2>3. inviting' \in [Accounts -> Offering \cup {NoOffer}]
    BY <1>1 DEF ServiceInv, InvitationTypeOK
  <2> QED BY <1>3, <2>2, <2>3 DEF InvitationTypeOK
<1>5. OffersCounted'
  <2>1. \A s \in shown : s.id \in 1 .. offers /\ s.id # id
    BY <1>3 DEF ServiceInv, OffersCounted
  <2>2. Shown(id, n, a, o.role).id = id
    BY DEF Shown
  <2>3. \A s \in shown' : s.id \in 1 .. offers'
    BY <1>1, <1>3, <2>1, <2>2
  <2>4. \A s, t \in shown' : s.id = t.id => s = t
    BY <1>1, <2>1, <2>2 DEF ServiceInv, OffersCounted
  <2>5. ASSUME NEW m \in Networks, NEW b \in Accounts, invitation'[m][b].status = "pending"
        PROVE  Shown(invitation'[m][b].id, m, b, invitation'[m][b].role) \in shown'
    <3>1. CASE m = n /\ b = a
      <4>1. invitation'[m][b] = Offer(id, o.role)
        BY <1>1, <1>2, <3>1 DEF ServiceInv, InvitationTypeOK
      <4> QED BY <1>1, <3>1, <4>1 DEF Offer
    <3>2. CASE ~(m = n /\ b = a)
      <4>1. invitation'[m][b] = invitation[m][b]
        BY <1>1, <1>2, <3>2 DEF ServiceInv, InvitationTypeOK
      <4> QED BY <1>1, <2>5, <4>1 DEF ServiceInv, OffersCounted
    <3> QED BY <3>1, <3>2
  <2> QED BY <1>1, <2>3, <2>4, <2>5 DEF ServiceInv, OffersCounted
<1>6. InvitationsBacked'
  <2>1. key[n] # 0
    BY <1>1 DEF ServiceInv, InvitationsBacked
  <2>2. \A m \in Networks, b \in Accounts :
           invitation'[m][b] = invitation[m][b] \/ m = n
    BY <1>1, <1>2 DEF ServiceInv, InvitationTypeOK
  <2>3. \A b \in Accounts : inviting'[b] = NoOffer \/ inviting'[b] = inviting[b]
    BY <1>1 DEF ServiceInv, InvitationTypeOK
  <2> QED BY <1>1, <2>1, <2>2, <2>3 DEF ServiceInv, InvitationsBacked
<1> QED BY <1>4, <1>5, <1>6 DEF InvitationInv

\* An answer is to an offer that was shown, and an offer is answered once.
LEMMA AnswerKeepsInvitations ==
  ASSUME ServiceInv, NEW a \in Accounts, NEW n \in Networks, NEW id, NEW accept \in BOOLEAN,
         RespondToInvitation(a, n, id, accept)
  PROVE  InvitationInv'
<1> DEFINE answer == IF accept THEN "accepted" ELSE "declined"
<1>1. /\ invitation[n][a].id = id /\ invitation[n][a].status = "pending"
      /\ invitation' = [invitation EXCEPT ![n][a].status = answer]
      /\ UNCHANGED <<inviting, offers, shown, live, key>>
      /\ admitted' \subseteq admitted \cup {Shown(id, n, a, invitation[n][a].role)}
  BY DEF RespondToInvitation
<1>2. invitation[n][a] \in Written /\ invitation[n][a] # NoInvitation
  BY <1>1 DEF ServiceInv, InvitationTypeOK, NoInvitation
<1> DEFINE answered == [invitation[n][a] EXCEPT !.status = answer]
<1>3. answered \in Written /\ answered.status = answer
  BY <1>2 DEF Written
<1>4. /\ invitation'[n][a] = answered
      /\ \A m \in Networks, b \in Accounts : ~(m = n /\ b = a) => invitation'[m][b] = invitation[m][b]
  BY <1>1 DEF ServiceInv, InvitationTypeOK
<1>5. InvitationTypeOK'
  <2>1. invitation' = [invitation EXCEPT ![n] = [invitation[n] EXCEPT ![a] = answered]]
    BY <1>1
  <2>2. [invitation[n] EXCEPT ![a] = answered] \in [Accounts -> Written \cup {NoInvitation}]
    BY <1>3 DEF ServiceInv, InvitationTypeOK
  <2>3. invitation' \in [Networks -> [Accounts -> Written \cup {NoInvitation}]]
    BY <2>1, <2>2 DEF ServiceInv, InvitationTypeOK
  <2> QED BY <1>1, <2>3 DEF ServiceInv, InvitationTypeOK
<1>6. OffersCounted'
  <2>1. \A m \in Networks, b \in Accounts :
           invitation'[m][b].status = "pending" => invitation'[m][b] = invitation[m][b]
    <3>1. answer # "pending"
      OBVIOUS
    <3>2. invitation'[n][a].status # "pending"
      BY <1>3, <1>4, <3>1
    <3> QED BY <1>4, <3>2
  <2>2. Shown(id, n, a, invitation[n][a].role) \in shown
    BY <1>1 DEF ServiceInv, OffersCounted
  <2> QED BY <1>1, <2>1, <2>2 DEF ServiceInv, OffersCounted
<1>7. InvitationsBacked'
  BY <1>1, <1>2, <1>4 DEF ServiceInv, InvitationsBacked
<1> QED BY <1>5, <1>6, <1>7 DEF InvitationInv

\* A withdrawal leaves nothing that was not there.
LEMMA WithdrawalKeepsInvitations ==
  ASSUME ServiceInv, NEW actor \in Accounts, DeleteInvitation(actor)
  PROVE  InvitationInv'
<1>1. /\ invitation' = [n \in Networks |-> [a \in Accounts |->
                          IF invitation[n][a].id = revoking[actor] THEN NoInvitation
                          ELSE invitation[n][a]]]
      /\ UNCHANGED <<inviting, offers, shown, admitted, live, key>>
  BY DEF DeleteInvitation, registryVars
<1>2. \A n \in Networks, a \in Accounts :
         invitation'[n][a] = NoInvitation \/ invitation'[n][a] = invitation[n][a]
  BY <1>1
<1>3. InvitationTypeOK'
  BY <1>1 DEF ServiceInv, InvitationTypeOK
<1>4. OffersCounted'
  BY <1>1, <1>2 DEF ServiceInv, OffersCounted, NoInvitation
<1>5. InvitationsBacked'
  BY <1>1, <1>2 DEF ServiceInv, InvitationsBacked
<1> QED BY <1>3, <1>4, <1>5 DEF InvitationInv

LEMMA RefusalKeepsInvitations ==
  ASSUME ServiceInv, NEW actor \in Accounts, InvitationRefused(actor)
  PROVE  InvitationInv'
<1>1. /\ inviting' = [inviting EXCEPT ![actor] = NoOffer]
      /\ UNCHANGED <<invitation, offers, shown, admitted, live, key>>
  BY DEF InvitationRefused, registryVars
<1>2. InvitationTypeOK'
  BY <1>1 DEF ServiceInv, InvitationTypeOK
<1>3. OffersCounted'
  BY <1>1 DEF ServiceInv, OffersCounted
<1>4. InvitationsBacked'
  BY <1>1 DEF ServiceInv, InvitationsBacked, InvitationTypeOK
<1> QED BY <1>2, <1>3, <1>4 DEF InvitationInv

LEMMA StepKeepsInvitations ==
  ASSUME ServiceInv, [ServiceNext]_serviceVars
  PROVE  InvitationInv'
<1> InvitationInv
  BY DEF ServiceInv, InvitationInv
<1>1. CASE UNCHANGED serviceVars
  BY <1>1, OffersUntouched DEF serviceVars, registryVars, invitationVars, offerVars
<1>2. CASE RegistryStep
  BY <1>2, CascadeKeepsInvitations
<1>3. ASSUME NEW a \in Accounts,
             \/ register(a) \/ login(a) \/ issueSession(a) \/ logout(a)
             \/ \E b \in Accounts, off \in BOOLEAN : updateAccount(a, b, off)
             \/ checkCurrent(a) \/ writeDisabled(a) \/ deleteSessions(a)
             \/ \E n \in Networks, b \in Accounts : RevokeInvitation(a, n, b)
             \/ \E c \in Controllers, wanted \in SUBSET Networks, rotate \in BOOLEAN :
                  ConfigureController(a, c, wanted, rotate)
      PROVE  UNCHANGED offerVars
  BY <1>3 DEF register, login, issueSession, logout, updateAccount, checkCurrent, writeDisabled,
              deleteSessions, SetAccountDisabled,
              RevokeInvitation, ConfigureController, registryVars, invitationVars, offerVars
<1>4. ASSUME NEW a \in Accounts, NEW b \in Accounts, NEW n \in Networks, NEW r \in OfferedRoles,
             CreateInvitation(a, n, b, r)
      PROVE  InvitationInv'
  BY <1>4, CreateKeepsInvitations
<1>5. ASSUME NEW a \in Accounts, WriteInvitation(a)
      PROVE  InvitationInv'
  BY <1>5, WriteKeepsInvitations
<1>6. ASSUME NEW a \in Accounts, InvitationRefused(a)
      PROVE  InvitationInv'
  BY <1>6, RefusalKeepsInvitations
<1>7. ASSUME NEW a \in Accounts, DeleteInvitation(a)
      PROVE  InvitationInv'
  BY <1>7, WithdrawalKeepsInvitations
<1>8. ASSUME NEW a \in Accounts, NEW n \in Networks, NEW id \in 1 .. MaxOffers,
             NEW accept \in BOOLEAN, RespondToInvitation(a, n, id, accept)
      PROVE  InvitationInv'
  BY <1>8, AnswerKeepsInvitations
<1> QED BY <1>1, <1>2, <1>3, <1>4, <1>5, <1>6, <1>7, <1>8, OffersUntouched DEF ServiceNext

--------------------------------------------------------------------------------
(* The theorems *)

LEMMA ServiceInvInitially ==
  ASSUME ServiceInit
  PROVE  ServiceInv
<1>1. RegistryInv /\ live \subseteq Networks /\ disabled = {}
  BY InitInv DEF ServiceInit, RegistryInv, RegistryTypeOK, RegistryInit
<1>2. AccountInv
  <2>1. updating \in [Accounts -> Update] /\ \A a \in Accounts : updating[a].step = "none"
    BY DEF ServiceInit, Update, NoUpdate
  <2> QED BY <1>1, <2>1, AccountAssumption DEF ServiceInit, AccountInv, UpdateInv
<1>3. InvitationTypeOK
  BY AccountAssumption DEF ServiceInit, InvitationTypeOK
<1>4. OffersCounted
  BY DEF ServiceInit, OffersCounted, NoInvitation
<1>5. InvitationsBacked
  BY DEF ServiceInit, InvitationsBacked
<1> QED BY <1>1, <1>2, <1>3, <1>4, <1>5 DEF ServiceInv

\* The inductive invariant holds in every reachable state of the service.
THEOREM ServiceInvariant == ServiceSpec => []ServiceInv
<1>1. ServiceInit => ServiceInv
  BY ServiceInvInitially
<1>2. ServiceInv /\ [ServiceNext]_serviceVars => ServiceInv'
  BY ServiceKeepsRegistry, StepKeepsAccounts, StepKeepsInvitations
  DEF ServiceInv, InvitationInv
<1> QED BY <1>1, <1>2, PTL DEF ServiceSpec

\* Every table of the service always holds rows of its type.
THEOREM ServiceTypeCorrect == ServiceSpec => []ServiceTypeOK
<1>1. ASSUME ServiceInv PROVE ServiceTypeOK
  <2>1. RegistryTypeOK
    BY <1>1 DEF ServiceInv, RegistryInv
  <2>2. /\ admins \subseteq registered /\ registered \subseteq Accounts
        /\ sessions \cup verified \subseteq registered /\ logins \in 0 .. MaxLogins
    BY <1>1 DEF ServiceInv, AccountInv
  <2>3. ASSUME NEW n \in Networks, NEW a \in Accounts
        PROVE  /\ invitation[n][a].id \in 0 .. MaxOffers
               /\ invitation[n][a].status \in {"none", "pending", "accepted", "declined"}
    <3>1. invitation[n][a] \in Written \cup {NoInvitation}
      BY <1>1 DEF ServiceInv, InvitationTypeOK
    <3> QED BY <3>1, AccountAssumption DEF Written, NoInvitation
  <2>4. \A a \in Accounts : updating[a].account \in Accounts \cup {NoAccount}
    BY <1>1 DEF ServiceInv, AccountInv, Update
  <2> QED BY <1>1, <2>1, <2>2, <2>3, <2>4 DEF ServiceInv, InvitationTypeOK, ServiceTypeOK
<1> QED BY <1>1, ServiceInvariant, PTL

\* Who administers changes with the first registration only, who is disabled with
\* updateAccount's write only.
LEMMA AdministratorSteps ==
  ASSUME [ServiceNext]_serviceVars
  PROVE  /\ registered # {} => admins' = admins
         /\ UNCHANGED disabled \/ \E b \in Accounts : writeDisabled(b)
<1>1. CASE RegistryStep
  <2>1. UNCHANGED disabled
    BY <1>1 DEF RegistryStep, RegisterNetwork, DeleteNetwork, GrantNetworkMember,
                SetNetworkMemberRole, RemoveNetworkMember, changeNetworkMember, RotateNetworkKey
  <2> QED BY <1>1, <2>1 DEF RegistryStep, accountVars
<1>2. ASSUME NEW a \in Accounts, register(a)
      PROVE  UNCHANGED disabled /\ (registered # {} => admins' = admins)
  BY <1>2 DEF register, CreateAccount, registryVars
<1>3. ASSUME NEW a \in Accounts,
             \/ login(a) \/ issueSession(a) \/ logout(a)
             \/ \E b \in Accounts, off \in BOOLEAN : updateAccount(a, b, off)
             \/ checkCurrent(a) \/ deleteSessions(a)
      PROVE  UNCHANGED <<admins, disabled>>
  BY <1>3 DEF login, issueSession, logout, updateAccount, checkCurrent, deleteSessions, registryVars
<1>4. ASSUME NEW a \in Accounts,
             \/ WriteInvitation(a) \/ InvitationRefused(a) \/ DeleteInvitation(a)
             \/ \E b \in Accounts, n \in Networks :
                  \/ \E r \in OfferedRoles : CreateInvitation(a, n, b, r)
                  \/ RevokeInvitation(a, n, b)
             \/ \E n \in Networks, id \in 1 .. MaxOffers, accept \in BOOLEAN :
                  RespondToInvitation(a, n, id, accept)
             \/ \E c \in Controllers, wanted \in SUBSET Networks, rotate \in BOOLEAN :
                  ConfigureController(a, c, wanted, rotate)
      PROVE  UNCHANGED <<admins, disabled>>
  BY <1>4 DEF WriteInvitation, InvitationRefused, DeleteInvitation, CreateInvitation,
              RevokeInvitation, RespondToInvitation, ConfigureController, registryVars, accountVars
<1>5. ASSUME NEW a \in Accounts, writeDisabled(a)
      PROVE  admins' = admins
  BY <1>5 DEF writeDisabled
<1>6. CASE UNCHANGED serviceVars
  BY <1>6 DEF serviceVars, registryVars, accountVars
<1> QED BY <1>1, <1>2, <1>3, <1>4, <1>5, <1>6 DEF ServiceNext

\* CreateAccount, updateAccount (store.go, server.go): the account registered first is the
\* administrator for ever, and only its own request disables it, when its session ended
\* between requireAdmin and the handler's second look.
THEOREM OneAdministratorHolds == ServiceSpec => OneAdministrator
<1> DEFINE Kept == registered # {} =>
                     /\ Cardinality(admins) = 1 /\ admins' = admins
                     /\ \A a \in admins \cap (disabled' \ disabled) :
                          updating[a].account = a /\ ~updating[a].session
<1>1. ASSUME ServiceInv, [ServiceNext]_serviceVars, registered # {}
      PROVE  Kept
  <2>1. PICK a \in registered : admins = {a}
    BY <1>1 DEF ServiceInv, AccountInv
  <2>2. admins' = admins
    BY <1>1, AdministratorSteps
  <2>3. CASE UNCHANGED disabled
    BY <2>1, <2>2, <2>3, FS_Singleton
  <2>4. ASSUME NEW b \in Accounts, writeDisabled(b)
        PROVE  \A c \in admins \cap (disabled' \ disabled) :
                 updating[c].account = c /\ ~updating[c].session
    <3>1. b = a
      BY <1>1, <2>1, <2>4 DEF writeDisabled, ServiceInv, AccountInv, UpdateInv
    <3>2. disabled' \subseteq disabled \cup {updating[a].account}
          /\ (disabled' # disabled /\ ~updating[a].off => disabled' \subseteq disabled)
      BY <2>4, <3>1 DEF writeDisabled, SetAccountDisabled
    <3>3. updating[a].off /\ updating[a].account = a => ~updating[a].session
      BY <1>1, <2>4, <3>1 DEF writeDisabled, ServiceInv, AccountInv, UpdateInv
    <3> QED BY <2>1, <3>2, <3>3
  <2>5. ASSUME NEW b \in Accounts, writeDisabled(b)
        PROVE  Kept
    BY <2>1, <2>2, <2>4, <2>5, FS_Singleton
  <2>6. UNCHANGED disabled \/ \E b \in Accounts : writeDisabled(b)
    BY <1>1, AdministratorSteps
  <2> QED BY <2>1, <2>2, <2>3, <2>5, <2>6, FS_Singleton
<1>2. ServiceInv /\ [ServiceNext]_serviceVars => [Kept]_serviceVars
  BY <1>1
<1>3. ServiceSpec => [][Kept]_serviceVars
  BY <1>2, ServiceInvariant, PTL DEF ServiceSpec
<1> QED BY <1>3 DEF OneAdministrator

\* CreateInvitation, RespondToInvitation (store.go): an id stands for one offer
\* for ever, and nobody is admitted but as an offer said.
THEOREM AnswersMatchOffersHolds == ServiceSpec => []AnswersMatchOffers
<1>1. ServiceInv => AnswersMatchOffers
  BY DEF ServiceInv, OffersCounted, AnswersMatchOffers
<1> QED BY <1>1, ServiceInvariant, PTL

\* The owner column and the role table agree, invitations included.
THEOREM ServiceSoleOwner == ServiceSpec => []SoleOwner
<1>1. ServiceInv => SoleOwner
  BY DEF ServiceInv, RegistryInv
<1> QED BY <1>1, ServiceInvariant, PTL

\* No invitation outlives its network: a deleted id never again has a member.
THEOREM ServiceTombstoneFinal == ServiceSpec => []TombstoneFinal
<1>1. ServiceInv => TombstoneFinal
  BY DEF ServiceInv, RegistryInv
<1> QED BY <1>1, ServiceInvariant, PTL

\* Accounts and invitations part no network from its owner.
THEOREM ServiceOwnerFollowsNetwork == ServiceSpec => OwnerFollowsNetwork
<1>1. ASSUME ServiceInv, NEW a \in Accounts, NEW n \in Networks, NEW id,
             NEW accept \in BOOLEAN, RespondToInvitation(a, n, id, accept)
      PROVE  OwnerStep
  <2>1. ASSUME NEW m \in live, owner[m] # NoAccount
        PROVE  m \in live' /\ owner'[m] = owner[m] /\ role'[m][owner[m]] = "owner"
    <3>1. m \in Networks /\ owner[m] \in Accounts /\ role[m][owner[m]] = "owner"
      BY <1>1, <2>1 DEF ServiceInv, RegistryInv, RegistryTypeOK, SoleOwner
    <3>2. UNCHANGED <<live, owner>>
      BY <1>1 DEF RespondToInvitation
    <3>3. role'[m][owner[m]] = "owner"
      BY <1>1, <3>1 DEF RespondToInvitation, ServiceInv, RegistryInv, RegistryTypeOK
    <3> QED BY <2>1, <3>2, <3>3
  <2> QED BY <2>1 DEF OwnerStep
<1>2. ServiceInv /\ [ServiceNext]_serviceVars => [OwnerStep]_registryVars
  BY <1>1, ServiceStepsRegistry, OwnerStepHolds DEF ServiceInv
<1>3. ServiceSpec => [][OwnerStep]_registryVars
  BY <1>2, ServiceInvariant, PTL DEF ServiceSpec
<1> QED BY <1>3 DEF OwnerFollowsNetwork, OwnerStep

\* The service as a whole implements the life of a network id: an answered
\* invitation moves no id from one phase to another.
THEOREM ServiceRefinesLifecycle == ServiceSpec => LifecycleSpec
<1>1. ASSUME NEW a \in Accounts, NEW n \in Networks, NEW id, NEW accept \in BOOLEAN,
             RespondToInvitation(a, n, id, accept)
      PROVE  UNCHANGED Lifecycle!lifecycleVars
  BY <1>1 DEF RespondToInvitation, Lifecycle!lifecycleVars
<1>2. UNCHANGED registryVars => UNCHANGED Lifecycle!lifecycleVars
  BY DEF registryVars, Lifecycle!lifecycleVars
<1>3. ServiceInv /\ [ServiceNext]_serviceVars => [Lifecycle!Next]_(Lifecycle!lifecycleVars)
  BY <1>1, <1>2, ServiceStepsRegistry, LifecycleStep DEF ServiceInv
<1>4. ServiceInit => Lifecycle!Init
  BY LifecycleInit DEF ServiceInit
<1> QED
  BY <1>3, <1>4, ServiceInvariant, PTL DEF ServiceSpec, LifecycleSpec, Lifecycle!Spec

--------------------------------------------------------------------------------
(* The machines, for any accounts, networks, devices and threads.             *)

USE RegistryAssumption, DeviceAssumption

\* The key of a membership a machine has is a key.
LEMMA HeldKeyIsKey ==
  ASSUME DeviceTypeOK, NEW d \in Devices, NEW n \in Networks, cfg[d][n] # <<>>
  PROVE  cfg[d][n][1] \in Keys
<1>1. cfg[d][n] \in Seq(Keys) BY DEF DeviceTypeOK
<1>2. QED BY <1>1

\* A step of a check-in moves the registry by RegisterNetwork or not at all.
LEMMA CheckInMovesRegistry ==
  ASSUME DeviceTypeOK, NEW d \in Devices, NEW t \in Threads, CheckInStep(d, t)
  PROVE  [RegistryNext]_registryVars
<1>1. CASE SyncNetwork(d, t)
  <2>1. PICK m \in thread[d][t].todo :
               RegisterNetwork(AccountOf[d], m.id, m.key) \/ UNCHANGED registryVars
    BY <1>1 DEF SyncNetwork
  <2>2. AccountOf[d] \in Accounts /\ m.id \in Networks /\ m.key \in Keys
    BY DEF DeviceTypeOK, CheckIns
  <2>3. QED BY <2>1, <2>2 DEF RegistryNext
<1>2. CASE ~SyncNetwork(d, t)
  BY <1>2 DEF CheckInStep, StartCheckIn, FetchNetworks, FetchDeletions, FetchFails,
              AdoptNetworks, FinishAdoption, PrepareReport, CheckIn, CheckInUnanswered,
              CheckInCommits, CheckInFails, signOutThisMachine, MoveThisMachine
<1>3. QED BY <1>1, <1>2

\* What a person asks a machine for moves the registry by one of its operations.
LEMMA PersonMovesRegistry ==
  ASSUME DeviceTypeOK, NEW d \in Devices, PersonStep(d)
  PROVE  [RegistryNext]_registryVars
<1> AccountOf[d] \in Accounts OBVIOUS
<1>1. ASSUME NEW n \in Networks, createNetwork(d, n)
      PROVE  [RegistryNext]_registryVars
  <2>1. 1 \in Keys BY DEF Keys
  <2>2. QED BY <1>1, <2>1 DEF createNetwork, RegistryNext
<1>2. ASSUME NEW n \in Networks, deleteNetwork(d, n)
      PROVE  [RegistryNext]_registryVars
  <2>1. cfg[d][n][1] \in Keys BY <1>2, HeldKeyIsKey DEF deleteNetwork, hasMembership, Ids
  <2>2. QED BY <1>2, <2>1 DEF deleteNetwork, RegistryNext
<1>3. ASSUME NEW n \in Networks, NEW host \in Devices, joinNetwork(d, host, n)
      PROVE  [RegistryNext]_registryVars
  <2>1. cfg[host][n][1] \in Keys BY <1>3, HeldKeyIsKey DEF joinNetwork, hasMembership, Ids
  <2>2. AccountOf[host] \in Accounts OBVIOUS
  <2>3. QED BY <1>3, <2>1, <2>2 DEF joinNetwork, RegistryNext
<1>4. ASSUME NEW n \in Networks, activateNetwork(d, n) \/ updateNetworkManagementKey(d, n)
      PROVE  UNCHANGED registryVars
  BY <1>4 DEF activateNetwork, updateNetworkManagementKey
<1>5. ASSUME NEW n \in Places, checkDeviceNetwork(d, n)
      PROVE  UNCHANGED registryVars
  BY <1>5 DEF checkDeviceNetwork
<1>6. ASSUME authLogout(d) \/ RequestDeviceSignOut(d) \/ RemoveDevice(d)
      PROVE  UNCHANGED registryVars
  BY <1>6 DEF authLogout, RequestDeviceSignOut, RemoveDevice
<1>7. QED BY <1>1, <1>2, <1>3, <1>4, <1>5, <1>6 DEF PersonStep

\* A handler that already has an answer moves the registry only to admit a member.
LEMMA HandlerMovesRegistry ==
  ASSUME DeviceTypeOK, NEW d \in Devices, HandlerStep(d)
  PROVE  [RegistryNext]_registryVars
<1> AccountOf[d] \in Accounts OBVIOUS
<1>1. ASSUME NEW r \in OfferedRoles, acceptJoin(d, r)
      PROVE  [RegistryNext]_registryVars
  <2>1. op[d] \in [kind : {"admit"}, id : Networks, key : Keys, host : Devices]
    BY <1>1 DEF acceptJoin, DeviceTypeOK, Operations
  <2>2. op[d].id \in Networks /\ op[d].key \in Keys /\ AccountOf[op[d].host] \in Accounts
    BY <2>1
  <2>3. QED BY <1>1, <2>2 DEF acceptJoin, RegistryNext, MemberChange
<1>2. ASSUME appendMembership(d) \/ deleteLocally(d) \/ abandonOperation(d) \/ SetDeviceNetwork(d)
      PROVE  UNCHANGED registryVars
  BY <1>2 DEF appendMembership, deleteLocally, abandonOperation, SetDeviceNetwork
<1>3. QED BY <1>1, <1>2 DEF HandlerStep

\* Every step of the machines is a step of the registry or leaves it alone.
LEMMA DeviceMovesRegistry ==
  ASSUME DeviceTypeOK, [DeviceNext]_vars
  PROVE  [RegistryNext]_registryVars
<1>1. CASE UNCHANGED vars BY <1>1 DEF vars
<1>2. ASSUME NEW d \in Devices, signIn(d) PROVE UNCHANGED registryVars
  BY <1>2 DEF signIn
<1>3. CASE Elsewhere BY <1>3 DEF Elsewhere, RegistryNext
<1>4. QED BY <1>1, <1>2, <1>3, CheckInMovesRegistry, PersonMovesRegistry,
             HandlerMovesRegistry DEF DeviceNext

--------------------------------------------------------------------------------
(* The device half of the type invariant, which HeldKeyIsKey rests on.        *)

DeviceTypes ==
  /\ row \in [Devices -> Rows]
  /\ wishing \in [Devices -> Places \cup {"no"}]
  /\ cfg \in [Devices -> [Networks -> Seq(Keys)]]
  /\ active \in [Devices -> Places]
  /\ op \in [Devices -> Operations]
  /\ thread \in [Devices -> [Threads -> CheckIns]]
  /\ session \cup token \cup owed \subseteq Devices
  /\ asked \in [Devices -> Nat] /\ served \in [Devices -> Nat] /\ moves \in Nat

EntitledType == entitled \subseteq Networks \X Accounts \X Keys

LEMMA SplitTypes == DeviceTypeOK <=> RegistryTypeOK /\ DeviceTypes /\ EntitledType
  BY DEF DeviceTypeOK, DeviceTypes, EntitledType

LEMMA IdleType == Idle \in CheckIns /\ NoRow \in Rows /\ NoOp \in Operations
<1>1. Nothing \in [Networks -> 0 .. MaxKey] BY DEF Nothing
<1>2. NoMembership \in [Networks -> Seq(Keys)] BY DEF NoMembership
<1>3. QED BY <1>1, <1>2 DEF Idle, CheckIns, NoRow, Rows, NoOp, Operations, Places

LEMMA StepType ==
  ASSUME DeviceTypes, NEW d \in Devices, NEW t \in Threads, NEW pc, NEW r \in CheckIns,
         Step(d, t, pc, r)
  PROVE  thread' \in [Devices -> [Threads -> CheckIns]]
  BY DEF DeviceTypes, Step

LEMMA ReadyType ==
  ASSUME NEW list \in [Networks -> Seq(Keys)]
  PROVE  ReadyToSync(list) \in CheckIns
<1>1. Ids(list) \subseteq Networks BY DEF Ids
<1>2. \A n \in Ids(list) : list[n][1] \in Keys BY DEF Ids
<1> DEFINE todo == {[id |-> n, key |-> list[n][1]] : n \in Ids(list)}
<1>3. todo \in SUBSET [id : Networks, key : Keys] BY <1>1, <1>2
<1> HIDE DEF todo
<1>4. [Idle EXCEPT !.pc = "sync", !.refs = Ids(list), !.todo = todo] \in CheckIns
  BY <1>1, <1>3, IdleType DEF CheckIns
<1>5. QED BY <1>4 DEF ReadyToSync, todo

LEMMA InitTypes == DeviceInit => DeviceTypes
<1>1. NoMembership \in [Networks -> Seq(Keys)] BY DEF NoMembership
<1>2. QED BY <1>1, IdleType DEF DeviceInit, DeviceTypes, Places

LEMMA AdoptTypes ==
  ASSUME DeviceTypes, NEW d \in Devices, NEW t \in Threads, AdoptNetworks(d, t)
  PROVE  DeviceTypes'
<1> DEFINE answer == thread[d][t]
           all == Adopted(cfg[d], answer.nets)
           kept == Without(all, answer.gone)
           next == [Idle EXCEPT !.pc = "adopting", !.gone = answer.gone, !.kept = kept,
                                !.dirty = all # cfg[d] \/ kept # all]
<1>0. answer \in CheckIns /\ cfg[d] \in [Networks -> Seq(Keys)] BY DEF DeviceTypes
<1>1. answer.nets \in [Networks -> 0 .. MaxKey] /\ answer.gone \subseteq Networks
  BY <1>0 DEF CheckIns
<1>2. all \in [Networks -> Seq(Keys)]
  <2>1. \A n \in Networks : answer.nets[n] # 0 => <<answer.nets[n]>> \in Seq(Keys)
    BY <1>1 DEF Keys
  <2>2. QED BY <1>0, <1>1, <2>1 DEF Adopted
<1>3. kept \in [Networks -> Seq(Keys)] BY <1>2 DEF Without
<1>4. next \in CheckIns BY <1>1, <1>3, IdleType DEF CheckIns
<1>5. Step(d, t, "adopt", next) /\ cfg' = [cfg EXCEPT ![d] = all]
      /\ UNCHANGED <<serverVars, token, active, op, moves, historyVars>>
  BY DEF AdoptNetworks
<1>6. thread' \in [Devices -> [Threads -> CheckIns]] BY <1>4, <1>5, StepType
<1>7. cfg' \in [Devices -> [Networks -> Seq(Keys)]] BY <1>2, <1>5 DEF DeviceTypes
<1>8. QED BY <1>5, <1>6, <1>7 DEF DeviceTypes, serverVars, historyVars, signOutVars

LEMMA FinishTypes ==
  ASSUME DeviceTypes, NEW d \in Devices, NEW t \in Threads, FinishAdoption(d, t)
  PROVE  DeviceTypes'
<1> DEFINE my == thread[d][t]
<1>1. my.kept \in [Networks -> Seq(Keys)] BY DEF DeviceTypes, CheckIns
<1>2. thread' \in [Devices -> [Threads -> CheckIns]]
  BY <1>1, ReadyType, StepType DEF FinishAdoption
<1>3. cfg' \in [Devices -> [Networks -> Seq(Keys)]]
  BY <1>1 DEF FinishAdoption, DeviceTypes
<1>4. active' \in [Devices -> Places] BY DEF FinishAdoption, DeviceTypes, Save, Places
<1>5. QED BY <1>2, <1>3, <1>4
          DEF FinishAdoption, DeviceTypes, serverVars, historyVars, signOutVars

LEMMA RecordTypes ==
  ASSUME DeviceTypes, NEW d \in Devices, NEW t \in Threads
  PROVE  Recorded(d, t) \in Rows
<1>1. row[d] \in Rows /\ thread[d][t] \in CheckIns BY DEF DeviceTypes
<1>2. QED BY <1>1 DEF Recorded, Rows, CheckIns, Places

LEMMA CheckInTypes ==
  ASSUME DeviceTypes, RegistryTypeOK, NEW d \in Devices, NEW t \in Threads, CheckInStep(d, t)
  PROVE  DeviceTypes'
<1>0. thread[d][t] \in CheckIns /\ row[d] \in Rows BY DEF DeviceTypes
<1>1. CASE StartCheckIn(d, t)
  <2>1. [Idle EXCEPT !.pc = "networks"] \in CheckIns BY IdleType DEF CheckIns
  <2>2. QED BY <1>1, <2>1, StepType
            DEF StartCheckIn, DeviceTypes, serverVars, configVars, historyVars, signOutVars
<1>2. CASE FetchNetworks(d, t)
  <2> DEFINE nets == [n \in Networks |-> IF n \in MemberNetworks(d) THEN key[n] ELSE 0]
  <2>1. nets \in [Networks -> 0 .. MaxKey] BY DEF RegistryTypeOK
  <2>2. [Idle EXCEPT !.pc = "deletions", !.nets = nets] \in CheckIns
    BY <2>1, IdleType DEF CheckIns
  <2>3. QED BY <1>2, <2>2, StepType
            DEF FetchNetworks, DeviceTypes, serverVars, configVars, historyVars, signOutVars
<1>3. CASE FetchDeletions(d, t)
  <2>1. [thread[d][t] EXCEPT !.pc = "adopt", !.gone = Mourned(d)] \in CheckIns
    BY <1>0 DEF CheckIns, Mourned
  <2>2. QED BY <1>3, <2>1, StepType
            DEF FetchDeletions, DeviceTypes, serverVars, configVars, historyVars, signOutVars
<1>4. CASE FetchFails(d, t)
  <2>1. ReadyToSync(cfg[d]) \in CheckIns BY ReadyType DEF DeviceTypes
  <2>2. QED BY <1>4, <2>1, StepType
            DEF FetchFails, DeviceTypes, serverVars, configVars, historyVars, signOutVars
<1>5. CASE AdoptNetworks(d, t) BY <1>5, AdoptTypes
<1>6. CASE FinishAdoption(d, t) BY <1>6, FinishTypes
<1>7. CASE SyncNetwork(d, t)
  <2>1. PICK m : Step(d, t, "sync", [thread[d][t] EXCEPT !.todo = @ \ {m}])
    BY <1>7 DEF SyncNetwork
  <2>2. [thread[d][t] EXCEPT !.todo = @ \ {m}] \in CheckIns BY <1>0 DEF CheckIns
  <2>3. QED BY <1>7, <2>1, <2>2, StepType
            DEF SyncNetwork, DeviceTypes, serverVars, configVars, historyVars, signOutVars
<1>8. CASE PrepareReport(d, t)
  <2>1. [thread[d][t] EXCEPT !.pc = "report", !.at = active[d]] \in CheckIns
    BY <1>0 DEF CheckIns, DeviceTypes
  <2>2. QED BY <1>8, <2>1, StepType
            DEF PrepareReport, DeviceTypes, serverVars, configVars, historyVars, signOutVars
<1>9. CASE CheckIn(d, t)
  <2> DEFINE next == [Idle EXCEPT !.pc = "apply", !.at = Recorded(d, t).desired,
                                  !.out = row[d].signOut]
  <2>1. Recorded(d, t) \in Rows BY RecordTypes
  <2>2. next \in CheckIns BY <1>0, <2>1, IdleType DEF CheckIns, Rows
  <2>3. Step(d, t, "report", next) /\ row' = [row EXCEPT ![d] = Recorded(d, t)]
        /\ UNCHANGED <<wishing, session, token, configVars, op, moves, historyVars>>
    BY <1>9 DEF CheckIn, CheckInCommits
  <2>4. row' \in [Devices -> Rows] BY <2>1, <2>3 DEF DeviceTypes
  <2>5. QED BY <2>2, <2>3, <2>4, StepType DEF DeviceTypes, configVars, historyVars, signOutVars
<1>10. CASE CheckInUnanswered(d, t)
  <2>1. row' \in [Devices -> Rows]
    BY <1>10, RecordTypes DEF CheckInUnanswered, DeviceTypes
  <2>2. QED BY <1>10, <2>1, IdleType, StepType
            DEF CheckInUnanswered, CheckInCommits, DeviceTypes, configVars, historyVars, signOutVars
<1>11. CASE CheckInFails(d, t)
  BY <1>11, IdleType, StepType
  DEF CheckInFails, DeviceTypes, serverVars, configVars, historyVars, signOutVars
<1>12. CASE signOutThisMachine(d, t)
  <2>1. thread' \in [Devices -> [Threads -> CheckIns]]
    BY <1>12, IdleType, StepType DEF signOutThisMachine
  <2>2. served' \in [Devices -> Nat] BY <1>12 DEF signOutThisMachine, DeviceTypes
  <2>3. QED BY <1>12, <2>1, <2>2 DEF signOutThisMachine, DeviceTypes, serverVars, configVars
<1>13. CASE MoveThisMachine(d, t)
  <2>1. thread' \in [Devices -> [Threads -> CheckIns]]
    BY <1>13, IdleType, StepType DEF MoveThisMachine
  <2>2. active' \in [Devices -> Places]
    BY <1>0, <1>13 DEF MoveThisMachine, DeviceTypes, CheckIns
  <2>3. QED BY <1>13, <2>1, <2>2 DEF MoveThisMachine, DeviceTypes, serverVars, historyVars, signOutVars
<1>14. QED
  BY <1>1, <1>2, <1>3, <1>4, <1>5, <1>6, <1>7, <1>8, <1>9, <1>10, <1>11, <1>12, <1>13
  DEF CheckInStep

LEMMA WithoutNetworkType ==
  ASSUME NEW r \in Rows, NEW n \in Networks
  PROVE  WithoutNetwork(r, n) \in Rows
<1>1. NoNetwork \in Places /\ r.enrolled \ {n} \in SUBSET Networks BY DEF Rows, Places
<1>2. CASE n \in {r.active, r.desired}
  <2>1. WithoutNetwork(r, n) = [r EXCEPT !.active = NoNetwork, !.desired = NoNetwork,
                                         !.enrolled = r.enrolled \ {n}]
    BY <1>2 DEF WithoutNetwork
  <2>2. QED BY <1>1, <2>1 DEF Rows
<1>3. CASE n \notin {r.active, r.desired}
  <2>1. WithoutNetwork(r, n) = [r EXCEPT !.active = r.active, !.desired = r.desired,
                                         !.enrolled = r.enrolled \ {n}]
    BY <1>3 DEF WithoutNetwork
  <2>2. QED BY <1>1, <2>1 DEF Rows
<1>4. QED BY <1>2, <1>3

LEMMA PersonTypes ==
  ASSUME DeviceTypes, RegistryTypeOK, NEW d \in Devices, PersonStep(d)
  PROVE  DeviceTypes'
<1>0. moves' \in Nat BY DEF PersonStep, Move, DeviceTypes
<1>1. ASSUME NEW n \in Networks, createNetwork(d, n) PROVE DeviceTypes'
  <2>1. [kind |-> "append", id |-> n, key |-> 1] \in Operations BY DEF Operations, Keys
  <2>2. op' \in [Devices -> Operations] BY <1>1, <2>1 DEF createNetwork, Begin, DeviceTypes
  <2>3. QED BY <1>0, <1>1, <2>2
            DEF createNetwork, DeviceTypes, serverVars, configVars, historyVars, signOutVars
<1>2. ASSUME NEW n \in Networks, deleteNetwork(d, n) PROVE DeviceTypes'
  <2>1. op' \in [Devices -> Operations]
    BY <1>2 DEF deleteNetwork, Begin, DeviceTypes, Operations
  <2>2. \A e \in Devices : WithoutNetwork(row[e], n) \in Rows
    BY WithoutNetworkType DEF DeviceTypes
  <2>3. row' \in [Devices -> Rows] BY <1>2, <2>2 DEF deleteNetwork
  <2>4. QED BY <1>0, <1>2, <2>1, <2>3 DEF deleteNetwork, DeviceTypes, configVars, historyVars, signOutVars
<1>3. ASSUME NEW n \in Networks, NEW host \in Devices, joinNetwork(d, host, n)
      PROVE  DeviceTypes'
  <2>1. cfg[host][n] \in Seq(Keys) /\ cfg[host][n] # <<>>
    BY <1>3 DEF DeviceTypes, joinNetwork, hasMembership, Ids
  <2>2. cfg[host][n][1] \in Keys BY <2>1
  <2>3. [kind |-> "admit", id |-> n, key |-> cfg[host][n][1], host |-> host] \in Operations
    BY <2>2 DEF Operations
  <2>4. op' \in [Devices -> Operations] BY <1>3, <2>3 DEF joinNetwork, Begin, DeviceTypes
  <2>5. QED BY <1>0, <1>3, <2>4
            DEF joinNetwork, DeviceTypes, serverVars, configVars, historyVars, signOutVars
<1>4. ASSUME NEW n \in Networks, activateNetwork(d, n) PROVE DeviceTypes'
  <2>1. active' \in [Devices -> Places] BY <1>4 DEF activateNetwork, DeviceTypes, Places
  <2>2. QED BY <1>0, <1>4, <2>1 DEF activateNetwork, DeviceTypes, serverVars, historyVars, signOutVars
<1>5. ASSUME NEW n \in Networks, updateNetworkManagementKey(d, n) PROVE DeviceTypes'
  <2>1. cfg[d][n] \in Seq(Keys) /\ cfg[d][n] # <<>>
    BY <1>5 DEF DeviceTypes, updateNetworkManagementKey, hasMembership, Ids
  <2>2. key[n] \in Keys BY <1>5 DEF updateNetworkManagementKey
  <2>3. [cfg[d][n] EXCEPT ![1] = key[n]] \in Seq(Keys) BY <2>1, <2>2
  <2>4. cfg' = [cfg EXCEPT ![d] = [cfg[d] EXCEPT ![n] = [cfg[d][n] EXCEPT ![1] = key[n]]]]
    BY <1>5 DEF updateNetworkManagementKey
  <2>5. cfg' \in [Devices -> [Networks -> Seq(Keys)]] BY <2>3, <2>4 DEF DeviceTypes
  <2>6. QED BY <1>0, <1>5, <2>5
            DEF updateNetworkManagementKey, DeviceTypes, serverVars, historyVars, signOutVars
<1>6. CASE authLogout(d)
  BY <1>0, <1>6 DEF authLogout, DeviceTypes, serverVars, configVars
<1>7. ASSUME NEW n \in Places, checkDeviceNetwork(d, n) PROVE DeviceTypes'
  <2>1. wishing' \in [Devices -> Places \cup {"no"}]
    BY <1>7 DEF checkDeviceNetwork, DeviceTypes
  <2>2. QED BY <1>0, <1>7, <2>1 DEF checkDeviceNetwork, DeviceTypes, configVars, historyVars, signOutVars
<1>8. CASE RequestDeviceSignOut(d)
  <2> DEFINE asking == [row[d] EXCEPT !.signOut = TRUE]
  <2>5. row[d] \in Rows BY DEF DeviceTypes
  <2>0. asking \in Rows BY <2>5 DEF Rows
  <2>1. row' \in [Devices -> Rows] BY <1>8, <2>0 DEF RequestDeviceSignOut, DeviceTypes, asking
  <2>2. asked' \in [Devices -> Nat] BY <1>8 DEF RequestDeviceSignOut, DeviceTypes
  <2>3. owed' \subseteq Devices BY <1>8 DEF RequestDeviceSignOut, DeviceTypes
  <2>4. QED BY <1>0, <1>8, <2>1, <2>2, <2>3 DEF RequestDeviceSignOut, DeviceTypes, configVars
<1>9. CASE RemoveDevice(d)
  <2>1. row' \in [Devices -> Rows] BY <1>9, IdleType DEF RemoveDevice, DeviceTypes
  <2>2. QED BY <1>0, <1>9, <2>1 DEF RemoveDevice, DeviceTypes, configVars
<1>10. QED BY <1>1, <1>2, <1>3, <1>4, <1>5, <1>6, <1>7, <1>8, <1>9 DEF PersonStep

LEMMA HandlerTypes ==
  ASSUME DeviceTypes, RegistryTypeOK, NEW d \in Devices, HandlerStep(d)
  PROVE  DeviceTypes'
<1>0. op[d] \in Operations /\ cfg[d] \in [Networks -> Seq(Keys)] BY DEF DeviceTypes
<1>1. ASSUME NEW r \in OfferedRoles, acceptJoin(d, r) PROVE DeviceTypes'
  <2>1. op[d].id \in Networks /\ op[d].key \in Keys
    BY <1>0, <1>1 DEF acceptJoin, Operations
  <2>2. op' \in [Devices -> Operations]
    BY <1>1, <2>1 DEF acceptJoin, DeviceTypes, Operations
  <2>3. QED BY <1>1, <2>2 DEF acceptJoin, DeviceTypes, serverVars, configVars, historyVars, signOutVars
<1>2. CASE appendMembership(d)
  <2>1. op[d].id \in Networks /\ op[d].key \in Keys
    BY <1>0, <1>2 DEF appendMembership, End, Operations
  <2> DEFINE list == [cfg[d] EXCEPT ![op[d].id] = Append(@, op[d].key)]
  <2>2. list \in [Networks -> Seq(Keys)] BY <1>0, <2>1
  <2>3. cfg' \in [Devices -> [Networks -> Seq(Keys)]]
    BY <1>2, <2>2 DEF appendMembership, DeviceTypes
  <2>4. op' \in [Devices -> Operations]
    BY <1>2, IdleType DEF appendMembership, End, DeviceTypes
  <2>5. active' \in [Devices -> Places]
    BY <1>2, <2>1 DEF appendMembership, DeviceTypes, Save, Places
  <2>6. QED BY <1>2, <2>3, <2>4, <2>5 DEF appendMembership, DeviceTypes, serverVars, historyVars, signOutVars
<1>3. CASE deleteLocally(d)
  <2>1. op[d].id \in Networks BY <1>0, <1>3 DEF deleteLocally, End, Operations
  <2> DEFINE list == [cfg[d] EXCEPT ![op[d].id] = IF @ = <<>> THEN @ ELSE Tail(@)]
  <2>2. list \in [Networks -> Seq(Keys)] BY <1>0, <2>1
  <2>3. cfg' \in [Devices -> [Networks -> Seq(Keys)]]
    BY <1>3, <2>2 DEF deleteLocally, DeviceTypes
  <2>4. op' \in [Devices -> Operations]
    BY <1>3, IdleType DEF deleteLocally, End, DeviceTypes
  <2>5. active' \in [Devices -> Places]
    BY <1>3 DEF deleteLocally, DeviceTypes, Save, Places
  <2>6. QED BY <1>3, <2>3, <2>4, <2>5 DEF deleteLocally, DeviceTypes, serverVars, historyVars, signOutVars
<1>4. CASE abandonOperation(d)
  BY <1>4, IdleType
  DEF abandonOperation, End, DeviceTypes, serverVars, configVars, historyVars, signOutVars
<1>5. CASE SetDeviceNetwork(d)
  <2>1. wishing' \in [Devices -> Places \cup {"no"}] BY <1>5 DEF SetDeviceNetwork, DeviceTypes
  <2>2. wishing[d] \in Places BY <1>5 DEF SetDeviceNetwork, DeviceTypes
  <2> DEFINE wish == IF row[d].known THEN wishing[d] ELSE row[d].desired
  <2>3. [row[d] EXCEPT !.desired = wish] \in Rows
    <3>1. row[d] \in Rows BY DEF DeviceTypes
    <3>2. wish \in Places BY <2>2, <3>1 DEF Rows
    <3>3. QED BY <3>1, <3>2 DEF Rows
  <2>5. row' = [row EXCEPT ![d] = [row[d] EXCEPT !.desired = wish]]
    BY <1>5 DEF SetDeviceNetwork
  <2>6. row' \in [Devices -> Rows] BY <2>3, <2>5 DEF DeviceTypes
  <2>4. QED BY <1>5, <2>1, <2>6 DEF SetDeviceNetwork, DeviceTypes, configVars, historyVars, signOutVars
<1>6. QED BY <1>1, <1>2, <1>3, <1>4, <1>5 DEF HandlerStep

LEMMA NextTypes ==
  ASSUME DeviceTypeOK, [DeviceNext]_vars
  PROVE  DeviceTypes'
<1>0. DeviceTypes /\ RegistryTypeOK BY SplitTypes
<1>1. CASE UNCHANGED vars
  BY <1>0, <1>1 DEF vars, deviceVars, DeviceTypes, serverVars, configVars, historyVars, signOutVars
<1>2. ASSUME NEW d \in Devices, signIn(d) PROVE DeviceTypes'
  BY <1>0, <1>2 DEF signIn, DeviceTypes, configVars
<1>3. CASE Move /\ Elsewhere
  BY <1>0, <1>3 DEF Move, Elsewhere, DeviceTypes, configVars, historyVars, signOutVars
<1>4. QED BY <1>0, <1>1, <1>2, <1>3, CheckInTypes, PersonTypes, HandlerTypes DEF DeviceNext

\* What a step does to the history of memberships: it notes who is a member
\* after it, or it takes no account into a network.
NothingNew ==
  /\ \/ entitled' = entitled
     \/ \E d \in Devices, n \in Networks :
          key[n] \in Keys /\ entitled' = entitled \cup {<<n, AccountOf[d], key[n]>>}
  /\ \/ UNCHANGED registryVars
     \/ \E a \in Accounts, n \in Networks, k \in Keys : DeleteNetwork(a, n, k)

LEMMA HistoryStep ==
  ASSUME DeviceTypeOK, [DeviceNext]_vars
  PROVE  Remember \/ NothingNew
<1>1. CASE UNCHANGED vars BY <1>1 DEF vars, deviceVars, historyVars, NothingNew
<1>2. ASSUME NEW d \in Devices, NEW t \in Threads, CheckInStep(d, t)
      PROVE  Remember \/ NothingNew
  <2>1. CASE SyncNetwork(d, t) BY <2>1 DEF SyncNetwork, NothingNew
  <2>2. CASE ~SyncNetwork(d, t)
    BY <1>2, <2>2
    DEF CheckInStep, StartCheckIn, FetchNetworks, FetchDeletions, FetchFails,
        AdoptNetworks, FinishAdoption, PrepareReport, CheckIn, CheckInUnanswered,
        CheckInCommits, CheckInFails, signOutThisMachine, MoveThisMachine, historyVars,
        NothingNew
  <2>3. QED BY <2>1, <2>2
<1>3. ASSUME NEW d \in Devices, PersonStep(d) PROVE Remember \/ NothingNew
  <2>1. ASSUME NEW n \in Networks,
               createNetwork(d, n) \/ \E host \in Devices : joinNetwork(d, host, n)
        PROVE  Remember
    BY <2>1 DEF createNetwork, joinNetwork
  <2>2. ASSUME NEW n \in Networks, deleteNetwork(d, n) PROVE NothingNew
    <3>1. cfg[d][n][1] \in Keys BY <2>2, HeldKeyIsKey DEF deleteNetwork, hasMembership, Ids
    <3>2. AccountOf[d] \in Accounts OBVIOUS
    <3>3. QED BY <2>2, <3>1, <3>2 DEF deleteNetwork, historyVars, NothingNew
  <2>3. ASSUME NEW n \in Networks, updateNetworkManagementKey(d, n) PROVE NothingNew
    BY <2>3 DEF updateNetworkManagementKey, NothingNew
  <2>4. ASSUME NEW n \in Places, activateNetwork(d, n) \/ checkDeviceNetwork(d, n)
        PROVE  NothingNew
    BY <2>4 DEF activateNetwork, checkDeviceNetwork, historyVars, NothingNew
  <2>5. CASE authLogout(d) \/ RequestDeviceSignOut(d) \/ RemoveDevice(d)
    BY <2>5 DEF authLogout, RequestDeviceSignOut, RemoveDevice, NothingNew
  <2>6. Networks \subseteq Places BY DEF Places
  <2>7. QED BY <1>3, <2>1, <2>2, <2>3, <2>4, <2>5, <2>6 DEF PersonStep
<1>4. ASSUME NEW d \in Devices, HandlerStep(d) PROVE Remember \/ NothingNew
  BY <1>4 DEF HandlerStep, acceptJoin, appendMembership, deleteLocally, abandonOperation,
              SetDeviceNetwork, historyVars, NothingNew
<1>5. ASSUME NEW d \in Devices, signIn(d) PROVE NothingNew BY <1>5 DEF signIn, NothingNew
<1>6. CASE Elsewhere BY <1>6 DEF Elsewhere
<1>7. QED BY <1>1, <1>2, <1>3, <1>4, <1>5, <1>6 DEF DeviceNext

LEMMA EntitledGrows ==
  ASSUME EntitledType, Remember \/ NothingNew
  PROVE  entitled \subseteq entitled' /\ EntitledType'
<1>1. CASE Remember BY <1>1 DEF Remember, EntitledType
<1>2. CASE NothingNew
  <2>1. \A d \in Devices : AccountOf[d] \in Accounts OBVIOUS
  <2>2. QED BY <1>2, <2>1 DEF NothingNew, EntitledType
<1>3. QED BY <1>1, <1>2

--------------------------------------------------------------------------------
(* The theorems.                                                              *)

DeviceInv == RegistryInv /\ DeviceTypes /\ EntitledType

\* The types of the machines and the registry's invariant hold together: the
\* first says that keys sent to the service are keys, the second what it stores.
THEOREM DeviceInvariant == DeviceSpec => []DeviceInv
<1>1. DeviceInit => DeviceInv BY InitInv, InitTypes DEF DeviceInit, DeviceInv, EntitledType
<1>2. DeviceInv /\ [DeviceNext]_vars => DeviceInv'
  <2> SUFFICES ASSUME DeviceInv, [DeviceNext]_vars PROVE DeviceInv'
    OBVIOUS
  <2>1. DeviceTypeOK BY SplitTypes DEF DeviceInv, RegistryInv
  <2>2. RegistryInv' BY <2>1, DeviceMovesRegistry, NextInv DEF DeviceInv
  <2>3. DeviceTypes' BY <2>1, NextTypes
  <2>4. EntitledType' BY <2>1, HistoryStep, EntitledGrows DEF DeviceInv
  <2>5. QED BY <2>2, <2>3, <2>4 DEF DeviceInv
<1>3. QED BY <1>1, <1>2, PTL DEF DeviceSpec

\* Every reachable state of the machines and the service has its type.
THEOREM DeviceTypeCorrect == DeviceSpec => []DeviceTypeOK
<1>1. DeviceInv => DeviceTypeOK BY SplitTypes DEF DeviceInv, RegistryInv
<1>2. QED BY <1>1, DeviceInvariant, PTL

\* However check-ins, handlers and people interleave, the registry moves only by
\* its own operations: it is the registry's module that the machines are built on.
LEMMA DeviceObeysRegistry == DeviceSpec => RegistrySpec
<1>1. DeviceInit => RegistryInit BY DEF DeviceInit
<1>2. DeviceInv /\ [DeviceNext]_vars => [RegistryNext]_registryVars
  BY DeviceMovesRegistry, SplitTypes DEF DeviceInv, RegistryInv
<1>3. QED BY <1>1, <1>2, DeviceInvariant, PTL DEF DeviceSpec, RegistrySpec

\* So what is proved of the registry alone holds of it among the machines.
THEOREM SoleOwnerAmongDevices == DeviceSpec => []SoleOwner
BY DeviceObeysRegistry, SoleOwnerHolds, PTL

--------------------------------------------------------------------------------
(* The directory lists machines under live networks only.                     *)

\* No step of a check-in ends a network.
LEMMA CheckInDirectory ==
  ASSUME DeviceTypes, DirectoryOfLiveNetworks, NEW d \in Devices, NEW t \in Threads,
         CheckInStep(d, t)
  PROVE  DirectoryOfLiveNetworks'
<1>1. CASE CheckIn(d, t) \/ CheckInUnanswered(d, t)
  <2>1. row' = [row EXCEPT ![d] = Recorded(d, t)] /\ live' = live
    BY <1>1 DEF CheckIn, CheckInUnanswered, CheckInCommits, registryVars
  <2>2. Recorded(d, t).enrolled \subseteq live BY DEF Recorded, MemberNetworks
  <2>3. QED BY <2>1, <2>2 DEF DirectoryOfLiveNetworks, DeviceTypes
<1>2. CASE SyncNetwork(d, t)
  <2>1. row' = row /\ live \subseteq live'
    BY <1>2 DEF SyncNetwork, RegisterNetwork, serverVars, registryVars
  <2>2. QED BY <2>1 DEF DirectoryOfLiveNetworks
<1>3. CASE StartCheckIn(d, t) \/ FetchNetworks(d, t) \/ FetchDeletions(d, t) \/ FetchFails(d, t)
           \/ AdoptNetworks(d, t) \/ FinishAdoption(d, t) \/ PrepareReport(d, t)
           \/ CheckInFails(d, t) \/ signOutThisMachine(d, t) \/ MoveThisMachine(d, t)
  <2>1. row' = row /\ live' = live
    BY <1>3 DEF StartCheckIn, FetchNetworks, FetchDeletions, FetchFails, AdoptNetworks,
       FinishAdoption, PrepareReport, CheckInFails, signOutThisMachine, MoveThisMachine,
       serverVars, registryVars
  <2>2. QED BY <2>1 DEF DirectoryOfLiveNetworks
<1>4. QED BY <1>1, <1>2, <1>3 DEF CheckInStep

\* A deletion takes its network out of every row in the same transaction.
LEMMA PersonDirectory ==
  ASSUME DeviceTypes, DirectoryOfLiveNetworks, NEW d \in Devices, PersonStep(d)
  PROVE  DirectoryOfLiveNetworks'
<1>1. ASSUME NEW n \in Networks, deleteNetwork(d, n) PROVE DirectoryOfLiveNetworks'
  <2>1. row' = [e \in Devices |-> WithoutNetwork(row[e], n)] /\ live' = live \ {n}
    BY <1>1 DEF deleteNetwork, DeleteNetwork
  <2>2. \A e \in Devices : WithoutNetwork(row[e], n).enrolled = row[e].enrolled \ {n}
    BY DEF DeviceTypes, WithoutNetwork, Rows
  <2>3. QED BY <2>1, <2>2 DEF DirectoryOfLiveNetworks
<1>2. ASSUME NEW n \in Networks,
             createNetwork(d, n) \/ \E host \in Devices : joinNetwork(d, host, n)
      PROVE  DirectoryOfLiveNetworks'
  <2>1. row' = row /\ live \subseteq live'
    BY <1>2 DEF createNetwork, joinNetwork, RegisterNetwork, serverVars
  <2>2. QED BY <2>1 DEF DirectoryOfLiveNetworks
<1>3. ASSUME NEW n \in Places,
             \/ activateNetwork(d, n) \/ updateNetworkManagementKey(d, n)
             \/ checkDeviceNetwork(d, n)
      PROVE  DirectoryOfLiveNetworks'
  <2>1. row' = row /\ live' = live
    BY <1>3 DEF activateNetwork, updateNetworkManagementKey, checkDeviceNetwork,
                serverVars, registryVars
  <2>2. QED BY <2>1 DEF DirectoryOfLiveNetworks
<1>4. CASE authLogout(d) \/ RequestDeviceSignOut(d) \/ RemoveDevice(d)
  <2>1. live' = live
    BY <1>4 DEF authLogout, RequestDeviceSignOut, RemoveDevice, registryVars
  <2>2. \E r \in {row[d], [row[d] EXCEPT !.signOut = TRUE], NoRow} :
          row' = [row EXCEPT ![d] = r]
    BY <1>4 DEF authLogout, RequestDeviceSignOut, RemoveDevice, serverVars, DeviceTypes
  <2>3. row[d] \in Rows BY DEF DeviceTypes
  <2>4. \A r \in {row[d], [row[d] EXCEPT !.signOut = TRUE], NoRow} :
          r.enrolled \subseteq row[d].enrolled
    BY <2>3 DEF Rows, NoRow
  <2>5. QED BY <2>1, <2>2, <2>4 DEF DirectoryOfLiveNetworks, DeviceTypes
<1>5. Networks \subseteq Places BY DEF Places
<1>6. QED BY <1>1, <1>2, <1>3, <1>4, <1>5 DEF PersonStep

LEMMA RestDirectory ==
  ASSUME DeviceTypes, DirectoryOfLiveNetworks,
         (\E d \in Devices : HandlerStep(d) \/ signIn(d)) \/ Elsewhere
  PROVE  DirectoryOfLiveNetworks'
<1>0. ASSUME live' = live, \A e \in Devices : row'[e].enrolled = row[e].enrolled
      PROVE  DirectoryOfLiveNetworks'
  BY <1>0 DEF DirectoryOfLiveNetworks
<1>1. ASSUME NEW d \in Devices, NEW r \in OfferedRoles, acceptJoin(d, r)
      PROVE  row' = row /\ live' = live
  BY <1>1 DEF acceptJoin, GrantNetworkMember, registryVars, serverVars
<1>2. ASSUME NEW d \in Devices,
             appendMembership(d) \/ deleteLocally(d) \/ abandonOperation(d) \/ signIn(d)
      PROVE  row' = row /\ live' = live
  BY <1>2 DEF appendMembership, deleteLocally, abandonOperation, signIn,
              registryVars, serverVars
<1>3. ASSUME NEW d \in Devices, SetDeviceNetwork(d)
      PROVE  live' = live /\ \A e \in Devices : row'[e].enrolled = row[e].enrolled
  BY <1>3 DEF SetDeviceNetwork, registryVars, DeviceTypes, Rows
<1>4. CASE Elsewhere
  <2>1. ASSUME NEW a \in Accounts, NEW n \in Networks, NEW k \in Keys, MemberChange(a, n, k)
        PROVE  live' = live
    BY <2>1 DEF MemberChange, GrantNetworkMember, SetNetworkMemberRole,
                RemoveNetworkMember, changeNetworkMember
  <2>2. ASSUME NEW n \in Networks, RotateNetworkKey(n) PROVE live' = live
    BY <2>2 DEF RotateNetworkKey
  <2>3. ASSUME NEW a \in Accounts, NEW off \in BOOLEAN, SetAccountDisabled(a, off) PROVE live' = live
    BY <2>3 DEF SetAccountDisabled
  <2>4. row' = row /\ live' = live BY <1>4, <2>1, <2>2, <2>3 DEF Elsewhere
  <2>5. QED BY <2>4 DEF DirectoryOfLiveNetworks
<1>5. QED BY <1>0, <1>1, <1>2, <1>3, <1>4 DEF HandlerStep

\* The service never hands out a machine as a peer of a network that is gone.
THEOREM DirectoryHolds == DeviceSpec => []DirectoryOfLiveNetworks
<1>1. DeviceInit => DirectoryOfLiveNetworks
  BY DEF DeviceInit, DirectoryOfLiveNetworks, NoRow
<1>2. DeviceInv /\ DirectoryOfLiveNetworks /\ [DeviceNext]_vars => DirectoryOfLiveNetworks'
  <2> SUFFICES ASSUME DeviceInv, DirectoryOfLiveNetworks, [DeviceNext]_vars
               PROVE  DirectoryOfLiveNetworks'
    OBVIOUS
  <2>1. DeviceTypes BY DEF DeviceInv
  <2>2. CASE UNCHANGED vars
    BY <2>2 DEF vars, registryVars, deviceVars, serverVars, DirectoryOfLiveNetworks
  <2>3. QED BY <2>1, <2>2, CheckInDirectory, PersonDirectory, RestDirectory DEF DeviceNext
<1>3. QED BY <1>1, <1>2, DeviceInvariant, PTL DEF DeviceSpec

--------------------------------------------------------------------------------
(* No request signs a machine out twice.  What the property needs is a count: *)
(* each recorded request is at most one of carried out (served), in the hands *)
(* of a check-in (Due), or still in the row, so these never add up to more    *)
(* than was asked.                                                            *)

Due(d) == {t \in Threads : thread[d][t].out}
Waiting(d) == IF row[d].signOut THEN 1 ELSE 0

SignOutInv ==
  /\ \A d \in Devices, t \in Threads : thread[d][t].out => thread[d][t].pc = "apply"
  /\ \A d \in Devices : IsFiniteSet(Due(d))
  /\ \A d \in Devices : served[d] + Cardinality(Due(d)) + Waiting(d) <= asked[d]

LEMMA DueCount ==
  ASSUME SignOutInv, NEW d \in Devices
  PROVE  Cardinality(Due(d)) \in Nat
  BY FS_CardinalityType DEF SignOutInv

\* A step that hands over nothing, carries out nothing and asks for nothing.
LEMMA QuietStep ==
  ASSUME DeviceTypes, SignOutInv, NEW d \in Devices, NEW t \in Threads, NEW pc, NEW r,
         Step(d, t, pc, r), r.out = thread[d][t].out, r.out => r.pc = "apply",
         asked' = asked, served' = served,
         \A e \in Devices : row'[e].signOut => row[e].signOut
  PROVE  SignOutInv'
<1>1. \A e \in Devices, u \in Threads :
        thread'[e][u] = IF e = d /\ u = t THEN r ELSE thread[e][u]
  BY DEF Step, DeviceTypes
<1>2. \A e \in Devices : Due(e)' = Due(e) BY <1>1 DEF Due
<1>3. \A e \in Devices : Waiting(e)' <= Waiting(e) BY DEF Waiting
<1>4. \A e \in Devices : Waiting(e) \in Nat /\ Waiting(e)' \in Nat BY DEF Waiting
<1>5. \A e \in Devices : served[e] \in Nat /\ asked[e] \in Nat BY DEF DeviceTypes
<1>6. ASSUME NEW e \in Devices PROVE (served[e] + Cardinality(Due(e)) + Waiting(e) <= asked[e])'
  <2>1. served[e] + Cardinality(Due(e)) + Waiting(e) <= asked[e] BY DEF SignOutInv
  <2>2. Cardinality(Due(e)) \in Nat BY DueCount
  <2>3. Cardinality(Due(e))' = Cardinality(Due(e)) BY <1>2
  <2>4. QED BY <1>3, <1>4, <1>5, <2>1, <2>2, <2>3
<1>7. QED BY <1>1, <1>2, <1>6 DEF SignOutInv

\* The same when no check-in moves at all.
LEMMA StillThreads ==
  ASSUME DeviceTypes, SignOutInv, thread' = thread,
         asked' = asked, served' = served,
         \A e \in Devices : row'[e].signOut => row[e].signOut
  PROVE  SignOutInv'
<1>1. \A e \in Devices : Due(e)' = Due(e) BY DEF Due
<1>2. ASSUME NEW e \in Devices PROVE (served[e] + Cardinality(Due(e)) + Waiting(e) <= asked[e])'
  <2>1. served[e] + Cardinality(Due(e)) + Waiting(e) <= asked[e] BY DEF SignOutInv
  <2>2. Cardinality(Due(e)) \in Nat BY DueCount
  <2>3. Cardinality(Due(e))' = Cardinality(Due(e)) BY <1>1
  <2>4. served[e] \in Nat /\ asked[e] \in Nat BY DEF DeviceTypes
  <2>5. Waiting(e)' <= Waiting(e) /\ Waiting(e) \in Nat /\ Waiting(e)' \in Nat BY DEF Waiting
  <2>6. QED BY <2>1, <2>2, <2>3, <2>4, <2>5
<1>3. QED BY <1>1, <1>2 DEF SignOutInv

\* CheckIn moves a recorded request from the row to the check-in.
LEMMA HandOver ==
  ASSUME DeviceTypes, SignOutInv, NEW d \in Devices, NEW t \in Threads, CheckIn(d, t)
  PROVE  SignOutInv'
<1> DEFINE next == [Idle EXCEPT !.pc = "apply", !.at = Recorded(d, t).desired,
                                !.out = row[d].signOut]
<1>1. /\ Step(d, t, "report", next) /\ row' = [row EXCEPT ![d] = Recorded(d, t)]
      /\ asked' = asked /\ served' = served
  BY DEF CheckIn, historyVars, signOutVars
<1>2. next.out = row[d].signOut /\ next.pc = "apply" /\ row[d].signOut \in BOOLEAN
  BY DEF Idle, DeviceTypes, Rows
<1>3. ~Recorded(d, t).signOut BY DEF Recorded
<1>4. \A e \in Devices : row'[e].signOut => row[e].signOut BY <1>1, <1>3 DEF DeviceTypes
<1>5. ~thread[d][t].out BY <1>1 DEF Step, SignOutInv
<1>6. thread[d][t].out \in BOOLEAN BY DEF DeviceTypes, CheckIns
<1>7. CASE ~row[d].signOut
  <2>1. next.out = thread[d][t].out BY <1>2, <1>5, <1>6, <1>7
  <2> HIDE DEF next
  <2>2. QED BY <1>1, <1>2, <1>4, <2>1, QuietStep
<1>8. CASE row[d].signOut
  <2> HIDE DEF next
  <2>1. \A e \in Devices, u \in Threads :
          thread'[e][u] = IF e = d /\ u = t THEN next ELSE thread[e][u]
    BY <1>1 DEF Step, DeviceTypes
  <2>2. \A e \in Devices : Due(e)' = IF e = d THEN Due(d) \cup {t} ELSE Due(e)
    <3>1. next.out BY <1>2, <1>8
    <3>2. \A u \in Threads : thread'[d][u].out <=> u = t \/ thread[d][u].out
      BY <2>1, <3>1
    <3>3. \A e \in Devices \ {d}, u \in Threads : thread'[e][u].out = thread[e][u].out
      BY <2>1
    <3>4. QED BY <3>2, <3>3 DEF Due
  <2>3. t \notin Due(d) BY <1>5 DEF Due
  <2>4. IsFiniteSet(Due(d)) BY DEF SignOutInv
  <2>5. IsFiniteSet(Due(d) \cup {t}) /\ Cardinality(Due(d) \cup {t}) = Cardinality(Due(d)) + 1
    BY <2>3, <2>4, FS_AddElement
  <2>6. Waiting(d) = 1 /\ Waiting(d)' = 0 BY <1>1, <1>3, <1>8 DEF Waiting, DeviceTypes
  <2>7. \A e \in Devices \ {d} : Waiting(e)' = Waiting(e) BY <1>1 DEF Waiting, DeviceTypes
  <2>8. ASSUME NEW e \in Devices
        PROVE  (served[e] + Cardinality(Due(e)) + Waiting(e) <= asked[e])'
    <3>1. served[e] + Cardinality(Due(e)) + Waiting(e) <= asked[e] BY DEF SignOutInv
    <3>2. Cardinality(Due(e)) \in Nat /\ served[e] \in Nat /\ asked[e] \in Nat
      BY DueCount DEF DeviceTypes
    <3>3. CASE e = d
      <4>1. Cardinality(Due(d))' = Cardinality(Due(d)) + 1 BY <2>2, <2>5
      <4>2. QED BY <1>1, <2>6, <3>1, <3>2, <3>3, <4>1
    <3>4. CASE e # d
      <4>1. Cardinality(Due(e))' = Cardinality(Due(e)) BY <2>2, <3>4
      <4>2. QED BY <1>1, <2>7, <3>1, <3>4, <4>1
    <3>5. QED BY <3>3, <3>4
  <2>9. \A e \in Devices, u \in Threads : thread'[e][u].out => thread'[e][u].pc = "apply"
    BY <1>2, <2>1 DEF SignOutInv
  <2>10. \A e \in Devices : IsFiniteSet(Due(e))'  BY <2>2, <2>5 DEF SignOutInv
  <2>11. QED BY <2>8, <2>9, <2>10 DEF SignOutInv
<1>9. QED BY <1>2, <1>7, <1>8

\* signOutThisMachine turns one handed-over request into one carried out.
LEMMA CarryOut ==
  ASSUME DeviceTypes, SignOutInv, NEW d \in Devices, NEW t \in Threads,
         signOutThisMachine(d, t)
  PROVE  SignOutInv'
<1>1. /\ thread[d][t].out /\ Step(d, t, "apply", Idle) /\ row' = row /\ asked' = asked
      /\ served' = [served EXCEPT ![d] = @ + 1]
  BY DEF signOutThisMachine, serverVars
<1>2. ~Idle.out BY DEF Idle
<1> HIDE DEF Idle
<1>3. \A e \in Devices, u \in Threads :
        thread'[e][u] = IF e = d /\ u = t THEN Idle ELSE thread[e][u]
  BY <1>1 DEF Step, DeviceTypes
<1>4. \A e \in Devices : Due(e)' = IF e = d THEN Due(d) \ {t} ELSE Due(e)
  BY <1>2, <1>3 DEF Due
<1>5. t \in Due(d) /\ IsFiniteSet(Due(d)) BY <1>1 DEF Due, SignOutInv
<1>6. IsFiniteSet(Due(d) \ {t}) /\ Cardinality(Due(d) \ {t}) = Cardinality(Due(d)) - 1
  BY <1>5, FS_RemoveElement
<1>7. \A e \in Devices : Waiting(e)' = Waiting(e) /\ Waiting(e) \in Nat
  BY <1>1 DEF Waiting
<1>8. ASSUME NEW e \in Devices
      PROVE  (served[e] + Cardinality(Due(e)) + Waiting(e) <= asked[e])'
  <2>1. served[e] + Cardinality(Due(e)) + Waiting(e) <= asked[e] BY DEF SignOutInv
  <2>2. Cardinality(Due(e)) \in Nat /\ served[e] \in Nat /\ asked[e] \in Nat
    BY DueCount DEF DeviceTypes
  <2>3. CASE e = d
    <3>1. Cardinality(Due(d))' = Cardinality(Due(d)) - 1 BY <1>4, <1>6
    <3>2. served'[d] = served[d] + 1 BY <1>1 DEF DeviceTypes
    <3>3. QED BY <1>1, <1>7, <2>1, <2>2, <2>3, <3>1, <3>2
  <2>4. CASE e # d
    <3>1. Cardinality(Due(e))' = Cardinality(Due(e)) BY <1>4, <2>4
    <3>2. served'[e] = served[e] BY <1>1, <2>4 DEF DeviceTypes
    <3>3. QED BY <1>1, <1>7, <2>1, <2>4, <3>1, <3>2
  <2>5. QED BY <2>3, <2>4
<1>9. \A e \in Devices, u \in Threads : thread'[e][u].out => thread'[e][u].pc = "apply"
  BY <1>2, <1>3 DEF SignOutInv
<1>10. \A e \in Devices : IsFiniteSet(Due(e))' BY <1>4, <1>6 DEF SignOutInv
<1>11. QED BY <1>8, <1>9, <1>10 DEF SignOutInv

LEMMA CheckInSignOut ==
  ASSUME DeviceTypes, SignOutInv, NEW d \in Devices, NEW t \in Threads, CheckInStep(d, t)
  PROVE  SignOutInv'
<1>0. /\ thread[d][t] \in CheckIns /\ thread[d][t].out \in BOOLEAN
      /\ thread[d][t].pc # "apply" => thread[d][t].out = FALSE
  BY DEF DeviceTypes, CheckIns, SignOutInv
<1>1. ASSUME NEW pc, NEW r, Step(d, t, pc, r), pc # "apply", r.out = FALSE,
             asked' = asked, served' = served,
             \A e \in Devices : row'[e].signOut => row[e].signOut
      PROVE  SignOutInv'
  <2>1. r.out = thread[d][t].out BY <1>0, <1>1 DEF Step
  <2>2. QED BY <1>1, <2>1, QuietStep
<1>2. Idle.out = FALSE /\ \A list : ReadyToSync(list).out = FALSE
  BY DEF Idle, ReadyToSync
<1>3. CASE StartCheckIn(d, t)
  <2>1. PICK r : r.out = FALSE /\ Step(d, t, "idle", r) BY <1>3 DEF StartCheckIn, Idle
  <2>2. QED BY <1>1, <1>3, <2>1 DEF StartCheckIn, serverVars, historyVars, signOutVars
<1>4. CASE FetchNetworks(d, t)
  <2>1. PICK r : r.out = FALSE /\ Step(d, t, "networks", r)
    BY <1>4 DEF FetchNetworks, Idle
  <2>2. QED BY <1>1, <1>4, <2>1 DEF FetchNetworks, serverVars, historyVars, signOutVars
<1>5. CASE FetchDeletions(d, t)
  <2>1. thread[d][t].out = FALSE BY <1>0, <1>5 DEF FetchDeletions, Step
  <2>2. [thread[d][t] EXCEPT !.pc = "adopt", !.gone = Mourned(d)].out = FALSE
    BY <1>0, <2>1 DEF CheckIns
  <2>3. QED BY <1>1, <1>5, <2>2 DEF FetchDeletions, serverVars, historyVars, signOutVars
<1>6. CASE FetchFails(d, t)
  BY <1>1, <1>2, <1>6 DEF FetchFails, serverVars, historyVars, signOutVars
<1>7. CASE AdoptNetworks(d, t)
  <2>1. PICK r : r.out = FALSE /\ Step(d, t, "adopt", r)
    BY <1>7 DEF AdoptNetworks, Idle
  <2>2. QED BY <1>1, <1>7, <2>1 DEF AdoptNetworks, serverVars, historyVars, signOutVars
<1>8. CASE FinishAdoption(d, t)
  BY <1>1, <1>2, <1>8 DEF FinishAdoption, serverVars, historyVars, signOutVars
<1>9. CASE SyncNetwork(d, t)
  <2>1. PICK m : Step(d, t, "sync", [thread[d][t] EXCEPT !.todo = @ \ {m}])
    BY <1>9 DEF SyncNetwork
  <2>2. thread[d][t].out = FALSE BY <1>0, <2>1 DEF Step
  <2>3. [thread[d][t] EXCEPT !.todo = @ \ {m}].out = FALSE BY <1>0, <2>2 DEF CheckIns
  <2>4. QED BY <1>1, <1>9, <2>1, <2>3 DEF SyncNetwork, serverVars, historyVars, signOutVars
<1>10. CASE PrepareReport(d, t)
  <2>1. thread[d][t].out = FALSE BY <1>0, <1>10 DEF PrepareReport, Step
  <2>2. [thread[d][t] EXCEPT !.pc = "report", !.at = active[d]].out = FALSE
    BY <1>0, <2>1 DEF CheckIns
  <2>3. QED BY <1>1, <1>10, <2>2 DEF PrepareReport, serverVars, historyVars, signOutVars
<1>11. CASE CheckIn(d, t) BY <1>11, HandOver
<1>12. CASE CheckInUnanswered(d, t)
  <2>1. row' = [row EXCEPT ![d] = Recorded(d, t)] /\ Recorded(d, t).signOut = FALSE
    BY <1>12 DEF CheckInUnanswered, Recorded
  <2>2. \A e \in Devices : row'[e].signOut => row[e].signOut BY <2>1 DEF DeviceTypes
  <2>3. QED BY <1>1, <1>2, <1>12, <2>2 DEF CheckInUnanswered, historyVars, signOutVars
<1>13. CASE CheckInFails(d, t)
  BY <1>1, <1>2, <1>13 DEF CheckInFails, serverVars, historyVars, signOutVars
<1>14. CASE signOutThisMachine(d, t) BY <1>14, CarryOut
<1>15. CASE MoveThisMachine(d, t)
  <2>1. ~thread[d][t].out /\ Step(d, t, "apply", Idle)
    BY <1>15 DEF MoveThisMachine
  <2>2. Idle.out = thread[d][t].out /\ ~Idle.out BY <1>0, <1>2, <2>1
  <2>3. QED BY <1>15, <2>1, <2>2, QuietStep DEF MoveThisMachine, serverVars, historyVars, signOutVars
<1>16. QED
  BY <1>3, <1>4, <1>5, <1>6, <1>7, <1>8, <1>9, <1>10, <1>11, <1>12, <1>13, <1>14, <1>15
  DEF CheckInStep

\* A person's request is the only step that adds to what may be carried out.
LEMMA AskSignOut ==
  ASSUME DeviceTypes, SignOutInv, NEW d \in Devices, RequestDeviceSignOut(d)
  PROVE  SignOutInv'
<1>1. /\ row' = [row EXCEPT ![d].signOut = TRUE] /\ thread' = thread /\ served' = served
      /\ asked' = [asked EXCEPT ![d] = @ + 1]
  BY DEF RequestDeviceSignOut
<1>2. \A e \in Devices : Due(e)' = Due(e) BY <1>1 DEF Due
<1>3. ASSUME NEW e \in Devices
      PROVE  (served[e] + Cardinality(Due(e)) + Waiting(e) <= asked[e])'
  <2>1. served[e] + Cardinality(Due(e)) + Waiting(e) <= asked[e] BY DEF SignOutInv
  <2>2. Cardinality(Due(e)) \in Nat /\ served[e] \in Nat /\ asked[e] \in Nat
    BY DueCount DEF DeviceTypes
  <2>3. Cardinality(Due(e))' = Cardinality(Due(e)) BY <1>2
  <2>4. Waiting(e) \in Nat /\ Waiting(e)' \in 0 .. 1 BY DEF Waiting
  <2>5. e # d => Waiting(e)' = Waiting(e) /\ asked'[e] = asked[e]
    BY <1>1 DEF Waiting, DeviceTypes
  <2>6. e = d => asked'[e] = asked[e] + 1 BY <1>1 DEF DeviceTypes
  <2>7. QED BY <1>1, <2>1, <2>2, <2>3, <2>4, <2>5, <2>6
<1>4. QED BY <1>1, <1>2, <1>3 DEF SignOutInv

LEMMA PersonSignOut ==
  ASSUME DeviceTypes, SignOutInv, NEW d \in Devices, PersonStep(d)
  PROVE  SignOutInv'
<1>1. ASSUME NEW n \in Networks, deleteNetwork(d, n) PROVE SignOutInv'
  <2>1. \A e \in Devices : row'[e].signOut => row[e].signOut
    <3>1. \A e \in Devices : row'[e] = WithoutNetwork(row[e], n) BY <1>1 DEF deleteNetwork
    <3>2. \A r \in Rows : WithoutNetwork(r, n).signOut = r.signOut
      BY DEF WithoutNetwork, Rows
    <3>3. QED BY <3>1, <3>2 DEF DeviceTypes
  <2>2. QED BY <1>1, <2>1, StillThreads DEF deleteNetwork, historyVars, signOutVars
<1>2. ASSUME NEW n \in Networks,
             \/ createNetwork(d, n) \/ \E host \in Devices : joinNetwork(d, host, n)
             \/ activateNetwork(d, n) \/ updateNetworkManagementKey(d, n)
      PROVE  SignOutInv'
  BY <1>2, StillThreads
  DEF createNetwork, joinNetwork, activateNetwork, updateNetworkManagementKey,
      serverVars, historyVars, signOutVars
<1>3. ASSUME NEW n \in Places, checkDeviceNetwork(d, n) PROVE SignOutInv'
  BY <1>3, StillThreads DEF checkDeviceNetwork, historyVars, signOutVars
<1>4. CASE authLogout(d) BY <1>4, StillThreads DEF authLogout, serverVars
<1>5. CASE RemoveDevice(d)
  <2>1. \A e \in Devices : row'[e].signOut => row[e].signOut
    BY <1>5 DEF RemoveDevice, NoRow, DeviceTypes
  <2>2. QED BY <1>5, <2>1, StillThreads DEF RemoveDevice
<1>6. CASE RequestDeviceSignOut(d) BY <1>6, AskSignOut
<1>7. QED BY <1>1, <1>2, <1>3, <1>4, <1>5, <1>6 DEF PersonStep

LEMMA RestSignOut ==
  ASSUME DeviceTypes, SignOutInv,
         (\E d \in Devices : HandlerStep(d) \/ signIn(d)) \/ Elsewhere
  PROVE  SignOutInv'
<1>1. ASSUME NEW d \in Devices,
             \/ appendMembership(d) \/ deleteLocally(d) \/ abandonOperation(d) \/ signIn(d)
             \/ \E r \in OfferedRoles : acceptJoin(d, r)
      PROVE  SignOutInv'
  BY <1>1, StillThreads
  DEF appendMembership, deleteLocally, abandonOperation, signIn, acceptJoin,
      serverVars, historyVars, signOutVars
<1>2. ASSUME NEW d \in Devices, SetDeviceNetwork(d) PROVE SignOutInv'
  <2>1. \A e \in Devices : row'[e].signOut => row[e].signOut
    BY <1>2 DEF SetDeviceNetwork, DeviceTypes, Rows
  <2>2. QED BY <1>2, <2>1, StillThreads DEF SetDeviceNetwork, historyVars, signOutVars
<1>3. CASE Elsewhere BY <1>3, StillThreads DEF Elsewhere, historyVars, signOutVars
<1>4. QED BY <1>1, <1>2, <1>3 DEF HandlerStep

\* However many check-ins are in flight and whichever answers are lost, a machine
\* is signed out no more often than it was asked to be.
THEOREM SignOutOnceHolds == DeviceSpec => []SignOutOnce
<1>1. DeviceInit => SignOutInv
  <2> SUFFICES ASSUME DeviceInit PROVE SignOutInv
    OBVIOUS
  <2>1. \A d \in Devices : Due(d) = {} BY DEF DeviceInit, Due, Idle
  <2>2. \A d \in Devices : Waiting(d) = 0 /\ served[d] = 0 /\ asked[d] = 0
    BY DEF DeviceInit, Waiting, NoRow
  <2>3. \A d \in Devices, t \in Threads : ~thread[d][t].out BY DEF DeviceInit, Idle
  <2>4. \A d \in Devices : IsFiniteSet(Due(d)) /\ Cardinality(Due(d)) = 0
    BY <2>1, FS_EmptySet
  <2>5. QED BY <2>2, <2>3, <2>4 DEF SignOutInv
<1>2. DeviceInv /\ SignOutInv /\ [DeviceNext]_vars => SignOutInv'
  <2> SUFFICES ASSUME DeviceInv, SignOutInv, [DeviceNext]_vars PROVE SignOutInv'
    OBVIOUS
  <2>1. DeviceTypes BY DEF DeviceInv
  <2>2. CASE UNCHANGED vars
    BY <2>1, <2>2, StillThreads DEF vars, deviceVars, serverVars, historyVars, signOutVars
  <2>3. QED BY <2>1, <2>2, CheckInSignOut, PersonSignOut, RestSignOut DEF DeviceNext
<1>3. DeviceInv /\ SignOutInv => SignOutOnce
  <2> SUFFICES ASSUME DeviceInv, SignOutInv, NEW d \in Devices PROVE served[d] <= asked[d]
    BY DEF SignOutOnce
  <2>1. served[d] + Cardinality(Due(d)) + Waiting(d) <= asked[d] BY DEF SignOutInv
  <2>2. Cardinality(Due(d)) \in Nat /\ served[d] \in Nat /\ asked[d] \in Nat
    BY DueCount DEF DeviceInv, DeviceTypes
  <2>3. Waiting(d) \in Nat BY DEF Waiting
  <2>4. QED BY <2>1, <2>2, <2>3
<1>4. QED BY <1>1, <1>2, <1>3, DeviceInvariant, PTL DEF DeviceSpec

--------------------------------------------------------------------------------
(* Keys go to members only.  The history holds every member under the present *)
(* key (Credited), so an answer and a grant hand out what it holds; and it    *)
(* only grows, so a list, an answer and an admission keep their right to the  *)
(* keys in them, however late they are used.                                  *)

MemberKeys == \A n \in Networks, a \in Accounts : role[n][a] # "none" => key[n] \in Keys
Credited == \A n \in Networks, a \in Accounts :
  role[n][a] # "none" => <<n, a, key[n]>> \in entitled

\* A list of keys, network by network, that a device's account is entitled to.
Rightful(list, d, rights) == \A n \in Networks : \A i \in DOMAIN list[n] :
  <<n, AccountOf[d], list[n][i]>> \in rights
Offered(nets, d, rights) == \A n \in Networks :
  nets[n] # 0 => <<n, AccountOf[d], nets[n]>> \in rights

ListsHeld == \A d \in Devices : Rightful(cfg[d], d, entitled)
AdmissionsHeld == \A d \in Devices :
  op[d].kind = "append" => <<op[d].id, AccountOf[d], op[d].key>> \in entitled
AnswersHeld == \A d \in Devices, t \in Threads :
  Offered(thread[d][t].nets, d, entitled) /\ Rightful(thread[d][t].kept, d, entitled)

LEMMA KeysOfMembersParts ==
  /\ KeysOfMembers <=> ListsHeld /\ AdmissionsHeld /\ AnswersHeld
  /\ KeysOfMembers' <=> ListsHeld' /\ AdmissionsHeld' /\ AnswersHeld'
  BY DEF KeysOfMembers, Entitled, ListsHeld, AdmissionsHeld, AnswersHeld, Rightful, Offered

\* Whoever is a member of a network is one of a network with a key.
LEMMA MembersHaveKeys ==
  ASSUME RegistryTypeOK, MemberKeys, [RegistryNext]_registryVars
  PROVE  MemberKeys'
<1>1. ASSUME NEW a \in Accounts, NEW n \in Networks, NEW k \in Keys, RegisterNetwork(a, n, k)
      PROVE  MemberKeys'
  <2>1. key' = [key EXCEPT ![n] = k]
        /\ \A m \in Networks \ {n} : role'[m] = role[m]
    BY <1>1 DEF RegisterNetwork, RegistryTypeOK
  <2>2. QED BY <2>1 DEF MemberKeys, RegistryTypeOK
<1>2. ASSUME NEW a \in Accounts, NEW n \in Networks, NEW k \in Keys, DeleteNetwork(a, n, k)
      PROVE  MemberKeys'
  BY <1>2 DEF DeleteNetwork, MemberKeys, RegistryTypeOK
<1>3. ASSUME NEW actor \in Accounts, NEW n \in Networks, NEW k \in Keys,
             MemberChange(actor, n, k)
      PROVE  MemberKeys'
  <2>1. PICK a \in Accounts, r \in Roles :
          MayManage(actor, n, k) /\ key' = key /\ role' = [role EXCEPT ![n][a] = r]
    BY <1>3 DEF MemberChange, GrantNetworkMember, SetNetworkMemberRole, RemoveNetworkMember,
                changeNetworkMember, Roles
  <2>2. key[n] \in Keys BY <2>1 DEF MayManage, ManagingRoles, MemberKeys
  <2>3. QED BY <2>1, <2>2 DEF MemberKeys, RegistryTypeOK
<1>4. ASSUME NEW n \in Networks, RotateNetworkKey(n) PROVE MemberKeys'
  <2>1. key' = [key EXCEPT ![n] = key[n] + 1] /\ role' = role /\ key[n] < MaxKey
    BY <1>4 DEF RotateNetworkKey
  <2>2. key[n] \in 0 .. MaxKey BY DEF RegistryTypeOK
  <2>3. key[n] + 1 \in Keys BY <2>1, <2>2 DEF Keys
  <2>4. QED BY <2>1, <2>3 DEF MemberKeys, RegistryTypeOK
<1>5. ASSUME NEW a \in Accounts, NEW off \in BOOLEAN, SetAccountDisabled(a, off)
      PROVE  MemberKeys'
  BY <1>5 DEF SetAccountDisabled, MemberKeys
<1>6. CASE UNCHANGED registryVars BY <1>6 DEF registryVars, MemberKeys
<1>7. QED BY <1>1, <1>2, <1>3, <1>4, <1>5, <1>6 DEF RegistryNext

LEMMA StillCredited ==
  ASSUME RegistryTypeOK, EntitledType, Credited, MemberKeys', Remember \/ NothingNew
  PROVE  Credited'
<1>1. CASE Remember BY <1>1 DEF Remember, Credited, MemberKeys
<1>2. CASE NothingNew /\ UNCHANGED registryVars
  <2>1. entitled \subseteq entitled' BY <1>2, EntitledGrows
  <2>2. QED BY <1>2, <2>1 DEF registryVars, Credited
<1>3. ASSUME NothingNew, NEW a \in Accounts, NEW n \in Networks, NEW k \in Keys,
             DeleteNetwork(a, n, k)
      PROVE  Credited'
  <2>1. entitled \subseteq entitled' BY <1>3, EntitledGrows
  <2>2. \A m \in Networks, b \in Accounts : role'[m][b] # "none" =>
          role'[m][b] = role[m][b] /\ key'[m] = key[m]
    BY <1>3 DEF DeleteNetwork, RegistryTypeOK
  <2>3. QED BY <2>1, <2>2 DEF Credited
<1>4. QED BY <1>1, <1>2, <1>3 DEF NothingNew

\* A check-in's next record is as rightful as what it was made of.
LEMMA StepHeld ==
  ASSUME DeviceTypes, AnswersHeld, entitled \subseteq entitled',
         NEW d \in Devices, NEW t \in Threads, NEW pc, NEW r, Step(d, t, pc, r),
         Offered(r.nets, d, entitled), Rightful(r.kept, d, entitled)
  PROVE  AnswersHeld'
<1>1. \A e \in Devices, u \in Threads :
        thread'[e][u] = IF e = d /\ u = t THEN r ELSE thread[e][u]
  BY DEF Step, DeviceTypes
<1>2. \A e \in Devices, u \in Threads :
        Offered(thread'[e][u].nets, e, entitled) /\ Rightful(thread'[e][u].kept, e, entitled)
  BY <1>1 DEF AnswersHeld
<1>3. QED BY <1>2 DEF AnswersHeld, Offered, Rightful

\* Nothing but the history moves.
LEMMA KeptHeld ==
  ASSUME entitled \subseteq entitled'
  PROVE  /\ ListsHeld /\ cfg' = cfg => ListsHeld'
         /\ AdmissionsHeld /\ op' = op => AdmissionsHeld'
         /\ AnswersHeld /\ thread' = thread => AnswersHeld'
  BY DEF ListsHeld, AdmissionsHeld, AnswersHeld, Rightful, Offered

\* Idle, and the records that begin from it, hold no key.
LEMMA IdleHoldsNothing ==
  ASSUME NEW d \in Devices
  PROVE  /\ Offered(Idle.nets, d, entitled) /\ Rightful(Idle.kept, d, entitled)
         /\ \A list : Offered(ReadyToSync(list).nets, d, entitled)
                      /\ Rightful(ReadyToSync(list).kept, d, entitled)
<1>1. Idle.nets = Nothing /\ Idle.kept = NoMembership
      /\ \A list : ReadyToSync(list).nets = Nothing /\ ReadyToSync(list).kept = NoMembership
  BY DEF Idle, ReadyToSync
<1>2. Offered(Nothing, d, entitled) /\ Rightful(NoMembership, d, entitled)
  BY DEF Nothing, NoMembership, Offered, Rightful
<1>3. QED BY <1>1, <1>2

LEMMA CheckInHeld ==
  ASSUME DeviceTypes, RegistryTypeOK, KeysOfMembers, Credited, entitled \subseteq entitled',
         NEW d \in Devices, NEW t \in Threads, CheckInStep(d, t)
  PROVE  KeysOfMembers'
<1> USE KeysOfMembersParts
<1> DEFINE my == thread[d][t]
<1>0. /\ my \in CheckIns /\ cfg[d] \in [Networks -> Seq(Keys)]
      /\ Offered(my.nets, d, entitled) /\ Rightful(my.kept, d, entitled)
      /\ Rightful(cfg[d], d, entitled)
  BY DEF DeviceTypes, AnswersHeld, ListsHeld
<1> HIDE DEF my
\* A step that gives the thread a record that holds no new key, and no other.
<1>1. ASSUME NEW pc, NEW r, Step(d, t, pc, r), Offered(r.nets, d, entitled),
             Rightful(r.kept, d, entitled), cfg' = cfg, op' = op
      PROVE  KeysOfMembers'
  BY <1>1, StepHeld, KeptHeld
<1>2. CASE StartCheckIn(d, t)
  <2>1. LET r == [Idle EXCEPT !.pc = "networks"]
        IN  r.nets = Idle.nets /\ r.kept = Idle.kept
    BY DEF Idle
  <2>2. QED BY <1>1, <1>2, <2>1, IdleHoldsNothing DEF StartCheckIn, configVars
<1>3. CASE FetchNetworks(d, t)
  <2> DEFINE nets == [n \in Networks |-> IF n \in MemberNetworks(d) THEN key[n] ELSE 0]
             r == [Idle EXCEPT !.pc = "deletions", !.nets = nets]
  <2>1. AccountOf[d] \in Accounts OBVIOUS
  <2>2. Offered(nets, d, entitled) BY <2>1 DEF Offered, MemberNetworks, Credited
  <2>3. r.nets = nets /\ r.kept = Idle.kept BY DEF Idle
  <2>4. Step(d, t, "networks", r) /\ cfg' = cfg /\ op' = op
    BY <1>3 DEF FetchNetworks, configVars
  <2>5. QED BY <1>1, <2>2, <2>3, <2>4, IdleHoldsNothing
<1>4. CASE FetchDeletions(d, t)
  <2> DEFINE r == [my EXCEPT !.pc = "adopt", !.gone = Mourned(d)]
  <2>1. r.nets = my.nets /\ r.kept = my.kept BY <1>0 DEF CheckIns
  <2>2. Step(d, t, "deletions", r) /\ cfg' = cfg /\ op' = op
    BY <1>4 DEF FetchDeletions, configVars, my
  <2>3. QED BY <1>0, <1>1, <2>1, <2>2
<1>5. CASE FetchFails(d, t)
  BY <1>1, <1>5, IdleHoldsNothing DEF FetchFails, configVars
<1>6. CASE AdoptNetworks(d, t)
  <2> DEFINE all == Adopted(cfg[d], my.nets)
             kept == Without(all, my.gone)
             r == [Idle EXCEPT !.pc = "adopting", !.gone = my.gone, !.kept = kept,
                               !.dirty = all # cfg[d] \/ kept # all]
  <2>1. Rightful(all, d, entitled)
    <3>1. \A n \in Networks : all[n] = cfg[d][n]
                              \/ (my.nets[n] # 0 /\ all[n] = <<my.nets[n]>>)
      BY DEF Adopted
    <3> HIDE DEF all
    <3>2. ASSUME NEW n \in Networks, NEW i \in DOMAIN all[n]
          PROVE  <<n, AccountOf[d], all[n][i]>> \in entitled
      <4>1. CASE all[n] = cfg[d][n] BY <1>0, <4>1 DEF Rightful
      <4>2. CASE my.nets[n] # 0 /\ all[n] = <<my.nets[n]>>
        <5>1. i = 1 /\ all[n][i] = my.nets[n] BY <4>2
        <5>2. QED BY <1>0, <4>2, <5>1 DEF Offered
      <4>3. QED BY <3>1, <4>1, <4>2
    <3>3. QED BY <3>2 DEF Rightful
  <2>2. Rightful(kept, d, entitled)
    <3>1. \A n \in Networks : kept[n] = all[n] \/ kept[n] = <<>> BY DEF Without
    <3> HIDE DEF all, kept
    <3>2. QED BY <2>1, <3>1 DEF Rightful
  <2>3. r.nets = Idle.nets /\ r.kept = kept BY DEF Idle
  <2>4. Step(d, t, "adopt", r) /\ cfg' = [cfg EXCEPT ![d] = all] /\ op' = op
    BY <1>6 DEF AdoptNetworks, my
  <2>5. AnswersHeld' BY <2>2, <2>3, <2>4, StepHeld, IdleHoldsNothing
  <2>6. ListsHeld'
    <3> HIDE DEF all
    <3>1. \A e \in Devices : cfg'[e] = IF e = d THEN all ELSE cfg[e]
      BY <2>4 DEF DeviceTypes
    <3>2. \A e \in Devices : Rightful(cfg'[e], e, entitled) BY <2>1, <3>1 DEF ListsHeld
    <3>3. QED BY <3>2 DEF ListsHeld, Rightful
  <2>7. QED BY <2>4, <2>5, <2>6, KeptHeld
<1>7. CASE FinishAdoption(d, t)
  <2>1. Step(d, t, "adopting", ReadyToSync(my.kept)) /\ cfg' = [cfg EXCEPT ![d] = my.kept]
        /\ op' = op
    BY <1>7 DEF FinishAdoption, my
  <2>2. AnswersHeld' BY <2>1, StepHeld, IdleHoldsNothing
  <2>3. ListsHeld'
    <3>1. \A e \in Devices : cfg'[e] = IF e = d THEN my.kept ELSE cfg[e]
      BY <2>1 DEF DeviceTypes
    <3>2. \A e \in Devices : Rightful(cfg'[e], e, entitled) BY <1>0, <3>1 DEF ListsHeld
    <3>3. QED BY <3>2 DEF ListsHeld, Rightful
  <2>4. QED BY <2>1, <2>2, <2>3, KeptHeld
<1>8. CASE SyncNetwork(d, t)
  <2>1. PICK m : Step(d, t, "sync", [my EXCEPT !.todo = @ \ {m}])
    BY <1>8 DEF SyncNetwork, my
  <2> DEFINE r == [my EXCEPT !.todo = @ \ {m}]
  <2>2. r.nets = my.nets /\ r.kept = my.kept BY <1>0 DEF CheckIns
  <2>3. cfg' = cfg /\ op' = op BY <1>8 DEF SyncNetwork, configVars
  <2>4. QED BY <1>0, <1>1, <2>1, <2>2, <2>3
<1>9. CASE PrepareReport(d, t)
  <2> DEFINE r == [my EXCEPT !.pc = "report", !.at = active[d]]
  <2>1. r.nets = my.nets /\ r.kept = my.kept BY <1>0 DEF CheckIns
  <2>2. Step(d, t, "sync", r) /\ cfg' = cfg /\ op' = op
    BY <1>9 DEF PrepareReport, configVars, my
  <2>3. QED BY <1>0, <1>1, <2>1, <2>2
<1>10. CASE CheckIn(d, t)
  <2> DEFINE r == [Idle EXCEPT !.pc = "apply", !.at = Recorded(d, t).desired,
                               !.out = row[d].signOut]
  <2>1. r.nets = Idle.nets /\ r.kept = Idle.kept BY DEF Idle
  <2>2. Step(d, t, "report", r) /\ cfg' = cfg /\ op' = op
    BY <1>10 DEF CheckIn, configVars
  <2>3. QED BY <1>1, <2>1, <2>2, IdleHoldsNothing
<1>11. CASE CheckInUnanswered(d, t) \/ CheckInFails(d, t)
  BY <1>1, <1>11, IdleHoldsNothing DEF CheckInUnanswered, CheckInFails, configVars
<1>12. CASE signOutThisMachine(d, t) \/ MoveThisMachine(d, t)
  BY <1>1, <1>12, IdleHoldsNothing DEF signOutThisMachine, MoveThisMachine, configVars
<1>13. QED BY <1>2, <1>3, <1>4, <1>5, <1>6, <1>7, <1>8, <1>9, <1>10, <1>11, <1>12
           DEF CheckInStep

LEMMA PersonHeld ==
  ASSUME DeviceTypes, RegistryTypeOK, KeysOfMembers, Credited', entitled \subseteq entitled',
         NEW d \in Devices, PersonStep(d)
  PROVE  KeysOfMembers'
<1> USE KeysOfMembersParts
<1>0. AccountOf[d] \in Accounts OBVIOUS
<1>1. ASSUME NEW n \in Networks, createNetwork(d, n) PROVE KeysOfMembers'
  <2>1. op' = [op EXCEPT ![d] = [kind |-> "append", id |-> n, key |-> 1]]
        /\ cfg' = cfg /\ thread' = thread
    BY <1>1 DEF createNetwork, Begin, configVars
  <2>2. role'[n][AccountOf[d]] # "none" /\ key'[n] = 1
    BY <1>0, <1>1 DEF createNetwork, RegisterNetwork, RegistryTypeOK
  <2>3. <<n, AccountOf[d], 1>> \in entitled' BY <1>0, <2>2 DEF Credited
  <2>4. AdmissionsHeld' BY <2>1, <2>3 DEF AdmissionsHeld, DeviceTypes
  <2>5. QED BY <2>1, <2>4, KeptHeld
<1>2. ASSUME NEW n \in Networks,
             deleteNetwork(d, n) \/ \E host \in Devices : joinNetwork(d, host, n)
      PROVE  KeysOfMembers'
  <2>1. PICK o : o.kind # "append" /\ op' = [op EXCEPT ![d] = o]
    BY <1>2 DEF deleteNetwork, joinNetwork, Begin
  <2>2. cfg' = cfg /\ thread' = thread BY <1>2 DEF deleteNetwork, joinNetwork, configVars
  <2>3. AdmissionsHeld' BY <2>1 DEF AdmissionsHeld, DeviceTypes
  <2>4. QED BY <2>2, <2>3, KeptHeld
<1>3. ASSUME NEW n \in Networks, updateNetworkManagementKey(d, n) PROVE KeysOfMembers'
  <2>1. op' = op /\ thread' = thread BY <1>3 DEF updateNetworkManagementKey
  <2>2. cfg' = [cfg EXCEPT ![d] = [cfg[d] EXCEPT ![n] = [cfg[d][n] EXCEPT ![1] = key[n]]]]
        /\ <<n, AccountOf[d], key[n]>> \in entitled'
    BY <1>3 DEF updateNetworkManagementKey
  <2>3. \A e \in Devices, m \in Networks : ~(e = d /\ m = n) => cfg'[e][m] = cfg[e][m]
    BY <2>2 DEF DeviceTypes
  <2>4. cfg'[d][n] = [cfg[d][n] EXCEPT ![1] = key[n]] BY <2>2 DEF DeviceTypes
  <2>5. ListsHeld'
    <3>1. ASSUME NEW e \in Devices, NEW m \in Networks, NEW i \in DOMAIN cfg'[e][m]
          PROVE  <<m, AccountOf[e], cfg'[e][m][i]>> \in entitled'
      <4>1. CASE e = d /\ m = n
        <5>1. i \in DOMAIN cfg[d][n]
              /\ cfg'[e][m][i] = IF i = 1 THEN key[n] ELSE cfg[d][n][i]
          BY <2>4, <4>1
        <5>2. QED BY <2>2, <4>1, <5>1 DEF ListsHeld, Rightful
      <4>2. CASE ~(e = d /\ m = n) BY <2>3, <4>2 DEF ListsHeld, Rightful
      <4>3. QED BY <4>1, <4>2
    <3>2. QED BY <3>1 DEF ListsHeld, Rightful
  <2>6. QED BY <2>1, <2>5, KeptHeld
<1>4. ASSUME NEW n \in Places, activateNetwork(d, n) \/ checkDeviceNetwork(d, n)
      PROVE  KeysOfMembers'
  BY <1>4, KeptHeld DEF activateNetwork, checkDeviceNetwork, configVars
<1>5. CASE authLogout(d) \/ RequestDeviceSignOut(d) \/ RemoveDevice(d)
  BY <1>5, KeptHeld DEF authLogout, RequestDeviceSignOut, RemoveDevice, configVars
<1>6. Networks \subseteq Places BY DEF Places
<1>7. QED BY <1>1, <1>2, <1>3, <1>4, <1>5, <1>6 DEF PersonStep

\* The grant is in the history before the key is handed out.
LEMMA AdmissionHeld ==
  ASSUME DeviceTypes, RegistryTypeOK, KeysOfMembers, Credited', entitled \subseteq entitled',
         NEW d \in Devices, NEW r \in OfferedRoles, acceptJoin(d, r)
  PROVE  KeysOfMembers'
<1> DEFINE o == op[d]
<1>1. o \in [kind : {"admit"}, id : Networks, key : Keys, host : Devices]
  BY DEF acceptJoin, DeviceTypes, Operations
<1>2. o.id \in Networks /\ o.key \in Keys /\ AccountOf[d] \in Accounts BY <1>1
<1>3. role'[o.id][AccountOf[d]] # "none" /\ key'[o.id] = o.key
  <2>1. r # "none" OBVIOUS
  <2>2. QED BY <1>2, <2>1 DEF acceptJoin, GrantNetworkMember, MayManage, RegistryTypeOK, registryVars
<1>4. <<o.id, AccountOf[d], o.key>> \in entitled' BY <1>2, <1>3 DEF Credited
<1>5. op' = [op EXCEPT ![d] = [kind |-> "append", id |-> o.id, key |-> o.key]]
      /\ cfg' = cfg /\ thread' = thread
  BY DEF acceptJoin, configVars
<1> HIDE DEF o
<1>6. AdmissionsHeld' BY <1>4, <1>5, KeysOfMembersParts DEF AdmissionsHeld, DeviceTypes
<1>7. QED BY <1>5, <1>6, KeptHeld, KeysOfMembersParts

LEMMA HandlerHeld ==
  ASSUME DeviceTypes, RegistryTypeOK, KeysOfMembers, Credited', entitled \subseteq entitled',
         NEW d \in Devices, HandlerStep(d)
  PROVE  KeysOfMembers'
<1> USE KeysOfMembersParts
<1>1. ASSUME NEW r \in OfferedRoles, acceptJoin(d, r) PROVE KeysOfMembers'
  BY <1>1, AdmissionHeld
<1>0. ASSUME NEW kinds, End(d, kinds) PROVE AdmissionsHeld'
  BY <1>0 DEF End, AdmissionsHeld, DeviceTypes, NoOp
<1>2. CASE appendMembership(d)
  <2>1. op[d].id \in Networks /\ op[d].kind = "append" /\ op[d].key \in Keys
    BY <1>2 DEF appendMembership, End, DeviceTypes, Operations
  <2>2. End(d, {"append"}) /\ thread' = thread
        /\ cfg' = [cfg EXCEPT ![d] = [cfg[d] EXCEPT ![op[d].id] = Append(@, op[d].key)]]
    BY <1>2 DEF appendMembership
  <2>3. \A e \in Devices, m \in Networks :
          cfg'[e][m] = IF e = d /\ m = op[d].id THEN Append(cfg[e][m], op[d].key) ELSE cfg[e][m]
    BY <2>1, <2>2 DEF DeviceTypes
  <2>4. <<op[d].id, AccountOf[d], op[d].key>> \in entitled' BY <2>1 DEF AdmissionsHeld
  <2>5. ASSUME NEW e \in Devices, NEW m \in Networks, NEW i \in DOMAIN cfg'[e][m]
        PROVE  <<m, AccountOf[e], cfg'[e][m][i]>> \in entitled'
    <3>1. CASE e = d /\ m = op[d].id
      <4>1. cfg[e][m] \in Seq(Keys) BY DEF DeviceTypes
      <4>2. i \in DOMAIN Append(cfg[e][m], op[d].key)
            /\ cfg'[e][m][i] = Append(cfg[e][m], op[d].key)[i]
        BY <2>3, <3>1
      <4>3. \/ i \in DOMAIN cfg[e][m] /\ cfg'[e][m][i] = cfg[e][m][i]
            \/ cfg'[e][m][i] = op[d].key
        BY <2>1, <4>1, <4>2
      <4>4. QED BY <2>4, <3>1, <4>3 DEF ListsHeld, Rightful
    <3>2. CASE ~(e = d /\ m = op[d].id) BY <2>3, <3>2 DEF ListsHeld, Rightful
    <3>3. QED BY <3>1, <3>2
  <2>6. ListsHeld' BY <2>5 DEF ListsHeld, Rightful
  <2>7. QED BY <1>0, <2>2, <2>6, KeptHeld
<1>3. CASE deleteLocally(d)
  <2> DEFINE n == op[d].id
  <2>1. n \in Networks BY <1>3 DEF deleteLocally, End, DeviceTypes, Operations
  <2>2. End(d, {"delete"}) /\ thread' = thread
        /\ cfg' = [cfg EXCEPT ![d] =
             [cfg[d] EXCEPT ![n] = IF @ = <<>> THEN @ ELSE Tail(@)]]
    BY <1>3 DEF deleteLocally
  <2> HIDE DEF n
  <2>3. \A e \in Devices, m \in Networks :
          cfg'[e][m] = cfg[e][m] \/ (cfg[e][m] # <<>> /\ cfg'[e][m] = Tail(cfg[e][m]))
    BY <2>1, <2>2 DEF DeviceTypes
  <2>4. ASSUME NEW e \in Devices, NEW m \in Networks, NEW i \in DOMAIN cfg'[e][m]
        PROVE  <<m, AccountOf[e], cfg'[e][m][i]>> \in entitled
    <3>1. cfg[e][m] \in Seq(Keys) BY DEF DeviceTypes
    <3>2. \E j \in DOMAIN cfg[e][m] : cfg'[e][m][i] = cfg[e][m][j]
      <4>1. CASE cfg'[e][m] = cfg[e][m] BY <4>1
      <4>2. CASE cfg[e][m] # <<>> /\ cfg'[e][m] = Tail(cfg[e][m])
        <5>1. i \in 1 .. Len(cfg[e][m]) - 1 BY <3>1, <4>2
        <5>2. i + 1 \in DOMAIN cfg[e][m] /\ cfg'[e][m][i] = cfg[e][m][i + 1]
          BY <3>1, <4>2, <5>1
        <5>3. QED BY <5>2
      <4>3. QED BY <2>3, <4>1, <4>2
    <3>3. QED BY <3>2 DEF ListsHeld, Rightful
  <2>5. ListsHeld' BY <2>4 DEF ListsHeld, Rightful
  <2>6. QED BY <1>0, <2>2, <2>5, KeptHeld
<1>4. CASE abandonOperation(d) BY <1>0, <1>4, KeptHeld DEF abandonOperation, configVars
<1>5. CASE SetDeviceNetwork(d) BY <1>5, KeptHeld DEF SetDeviceNetwork, configVars
<1>6. QED BY <1>1, <1>2, <1>3, <1>4, <1>5 DEF HandlerStep

KeyInv == Credited /\ MemberKeys /\ KeysOfMembers

\* Whatever is refused, lost, late or rotated between two calls, no machine comes
\* by the key of a network its account was not a member of while it was the key.
THEOREM KeysOfMembersHolds == DeviceSpec => []KeysOfMembers
<1>1. DeviceInit => KeyInv
  BY DEF DeviceInit, RegistryInit, KeyInv, Credited, MemberKeys, KeysOfMembers,
         NoMembership, NoOp, Idle, Nothing
<1>2. DeviceInv /\ KeyInv /\ [DeviceNext]_vars => KeyInv'
  <2> SUFFICES ASSUME DeviceInv, KeyInv, [DeviceNext]_vars PROVE KeyInv'
    OBVIOUS
  <2>1. DeviceTypeOK /\ DeviceTypes /\ RegistryTypeOK /\ EntitledType
    BY SplitTypes DEF DeviceInv, RegistryInv
  <2>2. Remember \/ NothingNew BY <2>1, HistoryStep
  <2>3. entitled \subseteq entitled' BY <2>1, <2>2, EntitledGrows
  <2>4. MemberKeys' BY <2>1, DeviceMovesRegistry, MembersHaveKeys DEF KeyInv
  <2>5. Credited' BY <2>1, <2>2, <2>4, StillCredited DEF KeyInv
  <2>6. KeysOfMembers'
    <3>1. ASSUME UNCHANGED <<cfg, op, thread>> PROVE KeysOfMembers'
      BY <2>3, <3>1, KeptHeld, KeysOfMembersParts DEF KeyInv
    <3>2. CASE UNCHANGED vars BY <3>1, <3>2 DEF vars, deviceVars, configVars
    <3>3. ASSUME NEW d \in Devices, signIn(d) PROVE KeysOfMembers'
      BY <3>1, <3>3 DEF signIn, configVars
    <3>4. CASE Elsewhere BY <3>1, <3>4 DEF Elsewhere, configVars
    <3>5. QED BY <2>1, <2>3, <2>5, <3>2, <3>3, <3>4, CheckInHeld, PersonHeld, HandlerHeld
              DEF KeyInv, DeviceNext
  <2>7. QED BY <2>4, <2>5, <2>6 DEF KeyInv
<1>3. KeyInv => KeysOfMembers BY DEF KeyInv
<1>4. QED BY <1>1, <1>2, <1>3, DeviceInvariant, PTL DEF DeviceSpec
================================================================================
