---------------------------- MODULE AccountService ----------------------------
(***************************************************************************)
(* The accounts of the account service and what people do with them:       *)
(* registration, sessions, disabling, invitations to networks, and the     *)
(* controllers that relay for networks (src/internal/accountserver).  It   *)
(* adds these to the network registry, whose operations run beside them,   *)
(* each by an account with a session.                                      *)
(*                                                                         *)
(* A store method that runs one SQL transaction is one action.  A method   *)
(* that runs several statements is cut where another request can come in   *)
(* between: a login reads the account, verifies the password and then      *)
(* writes the session; an invitation and a withdrawal check first and      *)
(* write later; the administrator's request to disable an account looks    *)
(* for its own session again before it writes.                             *)
(*                                                                         *)
(* Simplifications: the sessions of an account are one, but a request      *)
(* keeps the one it came with; an administrator has one request of that    *)
(* kind under way at a time; statements of SQL do not fail.                *)
(***************************************************************************)
EXTENDS NetworkRegistry, FiniteSets

CONSTANTS Controllers,        \* ids of relay servers
          RegistrationOpen,   \* config.RegistrationOpen
          MaxOffers,          \* bound: invitations written
          MaxLogins,          \* bound: logins begun
          MaxCredentials      \* bound: credentials of one controller

ASSUME AccountAssumption ==
  /\ RegistrationOpen \in BOOLEAN
  /\ {MaxOffers, MaxLogins, MaxCredentials} \subseteq Nat

VARIABLES registered,   \* table account
          admins,       \* account.is_admin
          sessions,     \* accounts with a row in login_session
          verified,     \* logins past the password check, session not written yet
          logins,       \* logins begun, for the bound
          updating,     \* updateAccount past requireAdmin, and its session
          invitation,   \* table network_invitation, one row per network and account
          inviting,     \* CreateInvitation past its checks
          revoking,     \* RevokeInvitation past its checks: the id to delete
          offers,       \* ids of invitations drawn so far
          shown,        \* every offer ever listed to its invitee (history variable)
          admitted,     \* every admission by an answer (history variable)
          controller    \* tables controller_server and controller_network

accountVars == <<registered, admins, sessions, verified, logins, updating>>
invitationVars == <<invitation, inviting, revoking, offers, shown, admitted>>
controllerVars == <<controller>>
serviceVars == <<registryVars, accountVars, invitationVars, controllerVars>>

NoInvitation == [id |-> 0, role |-> "none", status |-> "none"]
NoUpdate == [account |-> NoAccount, off |-> FALSE, step |-> "none", session |-> FALSE]
NoOffer == [network |-> "none", account |-> NoAccount, role |-> "none"]
NoController == [owner |-> NoAccount, supplies |-> {}, credential |-> 0]

ServiceInit ==
  /\ RegistryInit
  /\ registered = {} /\ admins = {} /\ sessions = {} /\ verified = {} /\ logins = 0
  /\ updating = [a \in Accounts |-> NoUpdate]
  /\ invitation = [n \in Networks |-> [a \in Accounts |-> NoInvitation]]
  /\ inviting = [a \in Accounts |-> NoOffer]
  /\ revoking = [a \in Accounts |-> 0]
  /\ offers = 0 /\ shown = {} /\ admitted = {}
  /\ controller = [c \in Controllers |-> NoController]

\* SessionAccount: a session of an account that is not disabled.
SessionAccount(a) == a \in sessions /\ SignedIn(a)
currentAccount(a) == SessionAccount(a)
\* requireAdmin
requireAdmin(a) == currentAccount(a) /\ a \in admins

--------------------------------------------------------------------------------
(* Accounts and sessions *)

\* CreateAccount: the first account is the administrator, later ones need an
\* open registration.
CreateAccount(a) ==
  /\ registered = {} \/ RegistrationOpen
  /\ registered' = registered \cup {a}
  /\ admins' = IF registered = {} THEN {a} ELSE admins

\* register: the account and, at once, its session.
register(a) ==
  /\ a \notin registered
  /\ CreateAccount(a)
  /\ sessions' = sessions \cup {a}
  /\ UNCHANGED <<registryVars, verified, logins, updating, invitationVars, controllerVars>>

\* login: the account is read and its password verified ...
login(a) ==
  /\ a \in registered \ disabled
  /\ logins < MaxLogins /\ logins' = logins + 1
  /\ verified' = verified \cup {a}
  /\ UNCHANGED <<registryVars, registered, admins, sessions, updating, invitationVars,
                 controllerVars>>

CreateSession(a) == sessions' = sessions \cup {a}

\* ... and the session is written, whatever became of the account meanwhile.
issueSession(a) ==
  /\ a \in verified
  /\ verified' = verified \ {a}
  /\ CreateSession(a)
  /\ UNCHANGED <<registryVars, registered, admins, logins, updating, invitationVars,
                 controllerVars>>

\* The sessions of an account are gone, those of its requests under way with them.
EndSessions(a) ==
  /\ sessions' = sessions \ {a}
  /\ updating' = [updating EXCEPT ![a].session = FALSE]

\* logout, or the session's thirty days are over.
logout(a) ==
  /\ a \in sessions
  /\ EndSessions(a)
  /\ UNCHANGED <<registryVars, registered, admins, verified, logins,
                 invitationVars, controllerVars>>

\* updateAccount, for an administrator: past requireAdmin ...
updateAccount(admin, a, off) ==
  /\ requireAdmin(admin) /\ updating[admin] = NoUpdate
  /\ a \in registered
  /\ updating' = [updating EXCEPT ![admin] =
                     [account |-> a, off |-> off, step |-> "admitted", session |-> TRUE]]
  /\ UNCHANGED <<registryVars, registered, admins, sessions, verified, logins,
                 invitationVars, controllerVars>>

\* Plausible slip.
checkNobody(admin) ==
  /\ updating[admin].step = "admitted"
  /\ updating' = [updating EXCEPT ![admin].step = "checked"]
  /\ UNCHANGED <<registryVars, registered, admins, sessions, verified, logins,
                 invitationVars, controllerVars>>

\* ... it reads its session once more, and refuses to disable the account it finds.  When
\* the session has ended since it finds none, and goes on.
checkCurrent(admin) ==
  LET u == updating[admin]
      own == u.session /\ SignedIn(admin) /\ u.account = admin
  IN  /\ u.step = "admitted"
      /\ updating' = [updating EXCEPT ![admin] =
                         IF own /\ u.off THEN NoUpdate ELSE [u EXCEPT !.step = "checked"]]
      /\ UNCHANGED <<registryVars, registered, admins, sessions, verified, logins,
                     invitationVars, controllerVars>>

\* SetAccountDisabled: the flag is written ...
writeDisabled(admin) ==
  LET u == updating[admin]
  IN  /\ u.step = "checked"
      /\ SetAccountDisabled(u.account, u.off)
      /\ updating' = [updating EXCEPT ![admin] =
                         IF u.off THEN [u EXCEPT !.step = "written"] ELSE NoUpdate]
      /\ UNCHANGED <<registered, admins, sessions, verified, logins, invitationVars,
                     controllerVars>>

\* ... and the sessions of a disabled account are deleted.
deleteSessions(admin) ==
  LET target == updating[admin].account
  IN  /\ updating[admin].step = "written"
      /\ sessions' = sessions \ {target}
      /\ updating' = [updating EXCEPT ![target].session = FALSE, ![admin] = NoUpdate]
      /\ UNCHANGED <<registryVars, registered, admins, verified, logins, invitationVars,
                     controllerVars>>

--------------------------------------------------------------------------------
(* Invitations *)

canInvite(n, a) == n \in live /\ role[n][a] \in ManagingRoles

\* CreateInvitation: three reads ...
CreateInvitation(actor, n, a, r) ==
  /\ currentAccount(actor) /\ inviting[actor] = NoOffer
  /\ canInvite(n, actor)
  /\ a \in registered \ disabled
  /\ role[n][a] = "none"
  /\ offers < MaxOffers
  /\ inviting' = [inviting EXCEPT ![actor] = [network |-> n, account |-> a, role |-> r]]
  /\ UNCHANGED <<registryVars, accountVars, invitation, revoking, offers, shown,
                 admitted, controllerVars>>

\* ... then one write, which replaces the row of an earlier offer and its id.
\* The row needs its network (foreign key).
Offer(id, r) == [id |-> id, role |-> r, status |-> "pending"]
Shown(id, n, a, r) == [id |-> id, network |-> n, account |-> a, role |-> r]

\* Plausible slip: a renewed offer keeps the id of the old one.
KeepOfferId(actor) ==
  LET o == inviting[actor]
      old == invitation[o.network][o.account].id
      id == IF old # 0 THEN old ELSE offers + 1
  IN  /\ o # NoOffer /\ o.network \in live /\ offers < MaxOffers
      /\ offers' = offers + 1
      /\ invitation' = [invitation EXCEPT ![o.network][o.account] = Offer(id, o.role)]
      /\ shown' = shown \cup {Shown(id, o.network, o.account, o.role)}
      /\ inviting' = [inviting EXCEPT ![actor] = NoOffer]
      /\ UNCHANGED <<registryVars, accountVars, revoking, admitted, controllerVars>>

WriteInvitation(actor) ==
  LET o == inviting[actor]
  IN  /\ o # NoOffer /\ o.network \in live /\ offers < MaxOffers
      /\ offers' = offers + 1
      /\ invitation' = [invitation EXCEPT ![o.network][o.account] = Offer(offers + 1, o.role)]
      /\ shown' = shown \cup {Shown(offers + 1, o.network, o.account, o.role)}
      /\ inviting' = [inviting EXCEPT ![actor] = NoOffer]
      /\ UNCHANGED <<registryVars, accountVars, revoking, admitted, controllerVars>>

\* The network was deleted after the checks: the insert fails.
InvitationRefused(actor) ==
  /\ inviting[actor] # NoOffer /\ inviting[actor].network \notin live
  /\ inviting' = [inviting EXCEPT ![actor] = NoOffer]
  /\ UNCHANGED <<registryVars, accountVars, invitation, revoking, offers, shown,
                 admitted, controllerVars>>

\* RespondToInvitation: the answer to the offer with this id.  A membership
\* the account has meanwhile is left alone.
RespondToInvitation(a, n, id, accept) ==
  /\ currentAccount(a)
  /\ invitation[n][a].id = id /\ invitation[n][a].status = "pending"
  /\ invitation' = [invitation EXCEPT ![n][a].status = IF accept THEN "accepted" ELSE "declined"]
  /\ IF accept /\ role[n][a] = "none"
     THEN /\ role' = [role EXCEPT ![n][a] = invitation[n][a].role]
          /\ admitted' = admitted \cup {Shown(id, n, a, invitation[n][a].role)}
     ELSE UNCHANGED <<role, admitted>>
  /\ UNCHANGED <<live, owner, key, tombstone, mourner, disabled, accountVars,
                 inviting, revoking, offers, shown, controllerVars>>

\* RevokeInvitation: the row is read and the actor checked ...
RevokeInvitation(actor, n, a) ==
  /\ currentAccount(actor) /\ revoking[actor] = 0
  /\ invitation[n][a] # NoInvitation
  /\ canInvite(n, actor)
  /\ revoking' = [revoking EXCEPT ![actor] = invitation[n][a].id]
  /\ UNCHANGED <<registryVars, accountVars, invitation, inviting, offers, shown,
                 admitted, controllerVars>>

\* ... then the row with that id is deleted, if it is still there.
DeleteInvitation(actor) ==
  /\ revoking[actor] # 0
  /\ invitation' = [n \in Networks |-> [a \in Accounts |->
                      IF invitation[n][a].id = revoking[actor] THEN NoInvitation
                      ELSE invitation[n][a]]]
  /\ revoking' = [revoking EXCEPT ![actor] = 0]
  /\ UNCHANGED <<registryVars, accountVars, inviting, offers, shown, admitted,
                 controllerVars>>

--------------------------------------------------------------------------------
(* Controllers *)

manageableNetworks(a) == {n \in live : role[n][a] \in ManagingRoles}

\* ConfigureController: claims a controller or changes what it supplies.
ConfigureController(a, c, wanted, rotate) ==
  /\ currentAccount(a)
  /\ wanted # {} /\ wanted \subseteq manageableNetworks(a)
  /\ controller[c].owner \in {NoAccount, a}
  /\ LET new == controller[c] = NoController \/ rotate
     IN  /\ new => controller[c].credential < MaxCredentials
         /\ controller' = [controller EXCEPT ![c] =
              [owner |-> a, supplies |-> wanted,
               credential |-> IF new THEN @.credential + 1 ELSE @.credential]]
  /\ UNCHANGED <<registryVars, accountVars, invitationVars>>

--------------------------------------------------------------------------------
(* The registry's operations, by accounts with a session *)

\* What a deleted network takes with it.
Cascade ==
  /\ invitation' = [n \in Networks |-> IF n \in live' THEN invitation[n]
                                       ELSE [a \in Accounts |-> NoInvitation]]
  /\ controller' = [c \in Controllers |-> [controller[c] EXCEPT !.supplies = @ \cap live']]

RegistryStep ==
  /\ \/ \E a \in sessions, n \in Networks, k \in Keys :
          /\ a \in registered
          /\ \/ RegisterNetwork(a, n, k) \/ DeleteNetwork(a, n, k)
             \/ \E b \in registered :
                  \/ \E r \in OfferedRoles : \/ GrantNetworkMember(a, n, k, b, r)
                                             \/ SetNetworkMemberRole(a, n, k, b, r)
                  \/ RemoveNetworkMember(a, n, k, b)
     \/ \E n \in Networks : RotateNetworkKey(n) /\ \E a \in Accounts : requireAdmin(a)
  /\ Cascade
  /\ UNCHANGED <<accountVars, inviting, revoking, offers, shown, admitted>>

ServiceNext ==
  \/ \E a \in Accounts :
       \/ register(a) \/ login(a) \/ issueSession(a) \/ logout(a)
       \/ checkCurrent(a) \/ writeDisabled(a) \/ deleteSessions(a)
       \/ WriteInvitation(a) \/ InvitationRefused(a) \/ DeleteInvitation(a)
       \/ \E b \in Accounts :
            \/ \E off \in BOOLEAN : updateAccount(a, b, off)
            \/ \E n \in Networks : \/ \E r \in OfferedRoles : CreateInvitation(a, n, b, r)
                                   \/ RevokeInvitation(a, n, b)
       \/ \E n \in Networks, id \in 1 .. MaxOffers, accept \in BOOLEAN :
            RespondToInvitation(a, n, id, accept)
       \/ \E c \in Controllers, wanted \in SUBSET Networks, rotate \in BOOLEAN :
            ConfigureController(a, c, wanted, rotate)
  \/ RegistryStep

ServiceSpec == ServiceInit /\ [][ServiceNext]_serviceVars

--------------------------------------------------------------------------------
(* Properties *)

ServiceTypeOK ==
  /\ RegistryTypeOK
  /\ admins \subseteq registered /\ registered \subseteq Accounts
  /\ sessions \cup verified \subseteq registered
  /\ offers \in 0 .. MaxOffers /\ logins \in 0 .. MaxLogins
  /\ \A a \in Accounts : updating[a].account \in Accounts \cup {NoAccount}
  /\ \A n \in Networks, a \in Accounts :
       /\ invitation[n][a].id \in 0 .. MaxOffers
       /\ invitation[n][a].status \in {"none", "pending", "accepted", "declined"}

\* From the first registration on there is exactly one administrator, always the same:
\* nobody else could enable it again, rotate a key or disable anybody.  Whatever requests,
\* logouts and logins cross, only a request of its own can disable it, and only one whose
\* session ended while it was under way.
OneAdministrator ==
  [][registered # {} =>
       /\ Cardinality(admins) = 1 /\ admins' = admins
       /\ \A a \in admins \cap (disabled' \ disabled) :
            updating[a].account = a /\ ~updating[a].session]_serviceVars

\* An id a person was shown stands for one offer for ever, and a person is
\* admitted with the role, and to the network, of an offer shown: however often
\* an offer is renewed, withdrawn or answered from two machines.
AnswersMatchOffers ==
  /\ \A s, t \in shown : s.id = t.id => s = t
  /\ admitted \subseteq shown

(* Statements the code does not keep *)

\* server.go:248: the account one is signed in with cannot be disabled, so that the only
\* administrator never is.  A logout between the two looks for the session lets it through.
AdministratorEnabled == admins \cap disabled = {}
================================================================================
