--------------------------------- MODULE Members -------------------------------
(***************************************************************************)
(* The people of a project and the collaborators of its repository: the    *)
(* member list of one machine, what GitHub says, and the handlers and the  *)
(* sync that carry changes from one to the other                           *)
(* (src/internal/api/members.go, src/internal/github/sync.go,              *)
(* src/internal/store/member.go, src/internal/api/github.go).              *)
(*                                                                         *)
(* A database statement and a call of GitHub are steps of their own, but   *)
(* that updateMember reads a row and writes it at once, and that a sync    *)
(* invites a person and remembers it at once.                              *)
(*                                                                         *)
(* Abstractions.  A person has one name, here and at GitHub; whether the   *)
(* member list knows the GitHub name is `linked'.  A call of GitHub is     *)
(* carried out or not, answered or not, but never later than its caller    *)
(* waits.  Another repository starts without collaborators, and is linked  *)
(* while no request runs.                                                  *)
(***************************************************************************)
EXTENDS Naturals, FiniteSets

CONSTANTS People, Boss,        \* Boss made the project, and owns the repository
          Workers,
          Grants,              \* the capability sets people choose from
          MaxRequests          \* bound: what people do, here and at GitHub, and restarts

ASSUME MembersAssumption ==
  /\ Boss \in People /\ MaxRequests \in Nat
  /\ Grants \subseteq SUBSET {"view", "code", "push", "run", "train", "manage"}

VARIABLES repository,    \* whether the project is linked to a repository
          organisation,  \* whether an organisation owns it
          members,       \* members[x]: the member row, or NoMember
          collaborator, invited,  \* at GitHub: a person's role, or None
          handler,       \* handler[w]: what request handler w does next
          requests,      \* bound counter
          chosen,        \* history: what a finished request gave x, or NoChoice
          removed,       \* history: people taken off the repository at GitHub
          calm           \* history: "yes" after a sync nothing disturbed, until something happens

github == <<repository, organisation, collaborator, invited>>
history == <<chosen, removed>>
membersVars == <<github, members, handler, requests, history, calm>>

None == "none"
Roles == {"admin", "maintain", "push", "triage", "pull"}
OwnerCapabilities == {"view", "code", "push", "run", "train", "manage"}
DefaultCapabilities == OwnerCapabilities \ {"manage"}

NoMember == [caps |-> {}, memo |-> None, linked |-> FALSE, owner |-> FALSE, row |-> FALSE]
Member(caps, memo, linked) ==
  [caps |-> caps, memo |-> memo, linked |-> linked, owner |-> FALSE, row |-> TRUE]
Owner == [Member(OwnerCapabilities, None, TRUE) EXCEPT !.owner = TRUE]

NoChoice == {"nothing"}
Idle == [at |-> "idle"]

MembersInit ==
  /\ repository \in BOOLEAN /\ organisation \in BOOLEAN
  /\ members = [x \in People |-> IF x = Boss THEN Owner ELSE NoMember]
  /\ collaborator = [x \in People |-> IF x = Boss THEN "admin" ELSE None]
  /\ invited = [x \in People |-> None]
  /\ handler = [w \in Workers |-> Idle] /\ requests = 0
  /\ chosen = [x \in People |-> NoChoice] /\ removed = {} /\ calm = "no"

--------------------------------------------------------------------------------
(* Roles and capabilities *)

CapabilitiesForRole(role) ==
  CASE role = "admin"    -> OwnerCapabilities
    [] role = "maintain" -> DefaultCapabilities
    [] role = "push"     -> {"view", "code", "push", "run"}
    [] role = "triage"   -> {"view", "code"}
    [] OTHER             -> {"view"}

SupportedRoles == IF organisation THEN Roles ELSE {"push"}

RoleForCapabilities(caps) ==
  IF "manage" \in caps /\ "admin" \in SupportedRoles THEN "admin"
  ELSE IF "train" \in caps /\ "maintain" \in SupportedRoles THEN "maintain"
  ELSE IF caps \cap {"push", "run"} # {} THEN "push"
  ELSE IF "code" \in caps /\ "triage" \in SupportedRoles THEN "triage"
  ELSE IF "code" \notin caps /\ "pull" \in SupportedRoles THEN "pull"
  ELSE "push"

--------------------------------------------------------------------------------
(* GitHub *)

\* AddCollaborator changes a collaborator's role, or invites.
AddCollaborator(x, role) ==
  IF collaborator[x] # None
  THEN collaborator' = [collaborator EXCEPT ![x] = role] /\ UNCHANGED invited
  ELSE invited' = [invited EXCEPT ![x] = role] /\ UNCHANGED collaborator

RemoveCollaborator(x) ==
  /\ collaborator' = [collaborator EXCEPT ![x] = None]
  /\ invited' = [invited EXCEPT ![x] = None]

\* PushMember: a person without view is taken off the repository.
PushMember(x, m) ==
  /\ IF ~m.linked THEN UNCHANGED <<collaborator, invited>>
     ELSE IF "view" \in m.caps THEN AddCollaborator(x, RoleForCapabilities(m.caps))
     ELSE RemoveCollaborator(x)
  /\ UNCHANGED <<repository, organisation>>

--------------------------------------------------------------------------------
(* Bookkeeping of the histories *)

Asked == requests < MaxRequests /\ requests' = requests + 1
Syncing == \E w \in Workers : handler[w].at \in {"collaborators", "invitations", "members", "apply"}
Resting == \A w \in Workers : handler[w] = Idle

Goes(w, step) == handler' = [handler EXCEPT ![w] = step]
Ends(w) == Goes(w, Idle)
At(w, step) == handler[w].at = step

\* Whatever else is under way no longer runs alone.
Crossed(step) == IF step.at \in {"push", "memo"} THEN [step EXCEPT !.alone = FALSE] ELSE step
Begins(w, step) ==
  /\ At(w, "idle") /\ Asked
  /\ handler' = [u \in Workers |-> IF u = w THEN step ELSE Crossed(handler[u])]

Forget(x) == chosen' = [chosen EXCEPT ![x] = NoChoice]
Disturbed == calm' = "no"

--------------------------------------------------------------------------------
(* What people do at GitHub *)

AtGitHub(x) ==
  /\ Asked
  /\ Disturbed /\ Forget(x)
  /\ handler' = [w \in Workers |-> Crossed(handler[w])]
  /\ UNCHANGED <<members, repository, organisation>>

ChangeRole(x, role) ==
  /\ x # Boss /\ collaborator[x] # None /\ role \in SupportedRoles \ {collaborator[x]}
  /\ collaborator' = [collaborator EXCEPT ![x] = role]
  /\ AtGitHub(x)
  /\ UNCHANGED <<invited, removed>>

AddAtGitHub(x, role) ==
  /\ collaborator[x] = None /\ role \in SupportedRoles
  /\ collaborator' = [collaborator EXCEPT ![x] = role]
  /\ invited' = [invited EXCEPT ![x] = None]
  /\ AtGitHub(x)
  /\ removed' = removed \ {x}

RemoveAtGitHub(x) ==
  /\ x # Boss /\ (collaborator[x] # None \/ invited[x] # None)
  /\ RemoveCollaborator(x)
  /\ AtGitHub(x)
  /\ removed' = removed \cup {x}

\* The invitee accepts.
Accept(x) ==
  /\ invited[x] # None
  /\ collaborator' = [collaborator EXCEPT ![x] = invited[x]]
  /\ invited' = [invited EXCEPT ![x] = None]
  /\ IF Syncing THEN Forget(x) ELSE UNCHANGED chosen
  /\ Disturbed
  /\ UNCHANGED <<repository, organisation, members, handler, requests, removed>>

--------------------------------------------------------------------------------
(* The member handlers *)

\* Nothing but view can be granted without view.
WithView(caps) == IF caps = {} THEN caps ELSE caps \cup {"view"}

\* addMember: a row for the person, whatever there was; the account service may
\* know the GitHub name.
addMember(w, x, caps, linked) ==
  LET m == Member(IF caps = {} THEN DefaultCapabilities ELSE WithView(caps), None, linked)
  IN  /\ Begins(w, IF repository /\ linked THEN [at |-> "push", who |-> x, m |-> m, alone |-> Resting] ELSE Idle)
      /\ members' = [members EXCEPT ![x] = m]
      /\ Forget(x) /\ removed' = removed \ {x} /\ Disturbed
      /\ UNCHANGED github

updateMember(w, x, caps) ==
  LET m == [members[x] EXCEPT !.caps = WithView(caps)]
  IN  /\ members[x].row /\ ~members[x].owner
      /\ Begins(w, IF repository THEN [at |-> "push", who |-> x, m |-> m, alone |-> Resting] ELSE Idle)
      /\ members' = [members EXCEPT ![x] = m]
      /\ Forget(x) /\ removed' = removed \ {x} /\ Disturbed
      /\ UNCHANGED github

\* GitHub is told: not reached, told, or told without an answer ...
TellGitHub(w) ==
  /\ At(w, "push")
  /\ \/ UNCHANGED github /\ Ends(w)
     \/ /\ PushMember(handler[w].who, handler[w].m)
        /\ Ends(w) \/ Goes(w, [handler[w] EXCEPT !.at = "memo"])
  /\ Disturbed
  /\ UNCHANGED <<members, requests, history>>

\* ... and what it was told is remembered, in the row as the handler knows it.
RememberRole(w) ==
  LET x == handler[w].who
      m == handler[w].m
  IN  /\ At(w, "memo")
      /\ members' = [members EXCEPT ![x] = [m EXCEPT !.memo = RoleForCapabilities(m.caps)]]
      /\ chosen' = [chosen EXCEPT ![x] = IF handler[w].alone /\ m.linked THEN m.caps ELSE @]
      /\ Ends(w) /\ Disturbed
      /\ UNCHANGED <<github, requests, removed>>

\* removeMember: the row goes, then the collaborator.
removeMember(w, x) ==
  /\ members[x].row /\ ~members[x].owner
  /\ Begins(w, IF repository /\ members[x].linked THEN [at |-> "withdraw", who |-> x] ELSE Idle)
  /\ members' = [members EXCEPT ![x] = NoMember]
  /\ Forget(x) /\ removed' = removed \ {x} /\ Disturbed
  /\ UNCHANGED github

WithdrawAtGitHub(w) ==
  /\ At(w, "withdraw")
  /\ \/ RemoveCollaborator(handler[w].who) /\ UNCHANGED <<repository, organisation>>
     \/ UNCHANGED github
  /\ Ends(w) /\ Disturbed
  /\ UNCHANGED <<members, requests, history>>

\* listMembers repairs a project without members: seedOwner gives Boss everything.
listMembers(w) ==
  /\ \A x \in People : ~members[x].row
  /\ Begins(w, Idle)
  /\ members' = [members EXCEPT ![Boss] = Owner]
  /\ Forget(Boss) /\ Disturbed
  /\ UNCHANGED <<github, removed>>

--------------------------------------------------------------------------------
(* Sync *)

syncMembers(w) ==
  /\ repository
  /\ Begins(w, [at |-> "collaborators"])
  /\ calm' = IF ~Resting THEN "no" ELSE IF calm = "no" THEN "running" ELSE calm
  /\ UNCHANGED <<github, members, history>>

\* The collaborators are read ...
Collaborators(w) ==
  /\ At(w, "collaborators")
  /\ \/ Goes(w, [at |-> "invitations", remote |-> collaborator]) /\ UNCHANGED calm
     \/ Ends(w) /\ Disturbed
  /\ UNCHANGED <<github, members, requests, history>>

\* ... then the open invitations: nobody is removed when they cannot be read ...
RepositoryInvitations(w) ==
  /\ At(w, "invitations")
  /\ \/ Goes(w, [at |-> "members", remote |-> handler[w].remote, readable |-> TRUE,
                 pending |-> {x \in People : invited[x] # None}]) /\ UNCHANGED calm
     \/ Goes(w, [at |-> "members", remote |-> handler[w].remote, readable |-> FALSE,
                 pending |-> {}]) /\ Disturbed
  /\ UNCHANGED <<github, members, requests, history>>

\* ... and the member list.  Three passes are made over what was read.
ReadMembers(w) ==
  /\ At(w, "members")
  /\ Goes(w, [at |-> "apply", pass |-> "match", todo |-> People, remote |-> handler[w].remote,
              pending |-> handler[w].pending, readable |-> handler[w].readable, local |-> members])
  /\ UNCHANGED <<github, members, requests, history, calm>>

Pass(w, pass, x) ==
  At(w, "apply") /\ handler[w].pass = pass /\ x \in handler[w].todo

\* On to the next person, the next pass, or the end.
NextPass(pass) == IF pass = "match" THEN "tell" ELSE "prune"
Onwards(w, x) ==
  LET rest == handler[w].todo \ {x}
      pass == handler[w].pass
  IN  IF rest # {} THEN Goes(w, [handler[w] EXCEPT !.todo = rest])
      ELSE IF pass = "prune" THEN Ends(w)
      ELSE Goes(w, [handler[w] EXCEPT !.pass = NextPass(pass), !.todo = People])
Done(w, x) == handler[w].pass = "prune" /\ handler[w].todo = {x}
Settles(w, x) == calm' = IF Done(w, x) /\ calm = "running" THEN "yes" ELSE calm

\* Plausible slip: GitHub's role always wins.
MatchAlways(w, x) ==
  LET role == handler[w].remote[x]
      m == handler[w].local[x]
  IN  members' = IF role = None \/ m.owner THEN members
                 ELSE [members EXCEPT ![x] = Member(CapabilitiesForRole(role), role, TRUE)]

\* What to do about a collaborator, from what was read of them.
Match(w, x) ==
  LET role == handler[w].remote[x]
      m == handler[w].local[x]
      known == m.row /\ m.linked
      new == IF ~known
             THEN Member(IF organisation THEN CapabilitiesForRole(role) ELSE DefaultCapabilities,
                         role, TRUE)
             ELSE IF organisation
             THEN [m EXCEPT !.caps = CapabilitiesForRole(role), !.memo = role]
             ELSE [m EXCEPT !.memo = role]
  IN  members' = IF role = None \/ m.owner \/ (known /\ m.memo = role) THEN members
                 ELSE [members EXCEPT ![x] = new]

MatchRole(w, x) ==
  /\ Pass(w, "match", x)
  /\ Match(w, x)
  /\ Onwards(w, x) /\ Settles(w, x)
  /\ UNCHANGED <<github, requests, history>>

\* Plausible slip: who has an open invitation is not there yet.
SeenAsCollaborator(w, x) == handler[w].remote[x] # None

Seen(w, x) == handler[w].remote[x] # None \/ x \in handler[w].pending

\* A member GitHub did not list is sent there, and remembered as sent.
InviteMember(w, x) ==
  LET m == handler[w].local[x]
  IN  /\ Pass(w, "tell", x)
      /\ \/ /\ ~m.row \/ m.owner \/ ~m.linked \/ Seen(w, x)
            /\ UNCHANGED <<github, members>> /\ Settles(w, x)
         \/ /\ m.row /\ ~m.owner /\ m.linked /\ ~Seen(w, x)
            /\ \/ /\ PushMember(x, m) /\ Settles(w, x)
                  /\ members' = [members EXCEPT ![x] = [m EXCEPT !.memo = RoleForCapabilities(m.caps)]]
               \/ /\ PushMember(x, m) \/ UNCHANGED github
                  /\ UNCHANGED members /\ Disturbed
      /\ Onwards(w, x)
      /\ UNCHANGED <<requests, history>>

\* Whoever GitHub knew and does not list any more is removed here.
Prune(w, x) ==
  LET m == handler[w].local[x]
      gone == handler[w].readable /\ m.row /\ ~m.owner /\ m.linked /\ ~Seen(w, x) /\ m.memo # None
  IN  /\ Pass(w, "prune", x)
      /\ \/ /\ ~gone
            /\ UNCHANGED members
            /\ Onwards(w, x) /\ Settles(w, x)
         \/ /\ gone /\ members[x].row /\ ~members[x].owner
            /\ members' = [members EXCEPT ![x] = NoMember]
            /\ Onwards(w, x) /\ Settles(w, x)
         \/ /\ gone /\ (members[x].owner \/ ~members[x].row)   \* refused: the sync fails
            /\ UNCHANGED members
            /\ Ends(w) /\ Disturbed
      /\ UNCHANGED <<github, requests, history>>

--------------------------------------------------------------------------------

Relink(linked) == repository' = linked /\ chosen' = [x \in People |-> NoChoice] /\ Disturbed

\* The project is linked to a repository: the one it had ...
linkRepository ==
  /\ Asked /\ Relink(TRUE)
  /\ UNCHANGED <<members, organisation, collaborator, invited, handler, removed>>

\* ... or another, where nobody else works yet.
LinkAnother ==
  /\ Asked /\ Relink(TRUE)
  /\ \A w \in Workers : handler[w] = Idle
  /\ collaborator' = [x \in People |-> IF x = Boss THEN "admin" ELSE None]
  /\ invited' = [x \in People |-> None]
  /\ organisation' \in BOOLEAN /\ removed' = {}
  /\ UNCHANGED <<members, handler>>

\* The link goes, nothing at GitHub.
unlinkRepository ==
  /\ repository /\ Asked /\ Relink(FALSE)
  /\ UNCHANGED <<members, organisation, collaborator, invited, handler, removed>>

Restart ==
  /\ Asked
  /\ handler' = [w \in Workers |-> Idle]
  /\ Disturbed
  /\ UNCHANGED <<github, members, history>>

GitHubStep == \E x \in People :
  \/ \E role \in Roles : ChangeRole(x, role) \/ AddAtGitHub(x, role)
  \/ RemoveAtGitHub(x) \/ Accept(x)

Request(w) ==
  \/ \E x \in People, caps \in Grants :
       updateMember(w, x, caps) \/ \E linked \in BOOLEAN : addMember(w, x, caps, linked)
  \/ \E x \in People : removeMember(w, x)
  \/ listMembers(w) \/ syncMembers(w)

Step(w) ==
  \/ TellGitHub(w) \/ RememberRole(w) \/ WithdrawAtGitHub(w)
  \/ Collaborators(w) \/ RepositoryInvitations(w) \/ ReadMembers(w)
  \/ \E x \in People : MatchRole(w, x) \/ InviteMember(w, x) \/ Prune(w, x)

MembersNext ==
  \/ GitHubStep \/ linkRepository \/ LinkAnother \/ unlinkRepository \/ Restart
  \/ \E w \in Workers : Request(w) \/ Step(w)

MembersSpec == MembersInit /\ [][MembersNext]_membersVars

--------------------------------------------------------------------------------
(* Properties *)

Rows     == [caps : SUBSET OwnerCapabilities, memo : Roles \cup {None},
             linked : BOOLEAN, owner : BOOLEAN, row : BOOLEAN]
Listings == [People -> Roles \cup {None}]
\* What a handler is about to do, and what it carries.
Pushes == [at : {"push", "memo"}, who : People, m : Rows, alone : BOOLEAN]
Syncs  == [at : {"invitations"}, remote : Listings]
            \cup [at : {"members"}, remote : Listings, readable : BOOLEAN, pending : SUBSET People]
Passes == [at : {"apply"}, pass : {"match", "tell", "prune"}, todo : SUBSET People, remote : Listings,
           pending : SUBSET People, readable : BOOLEAN, local : [People -> Rows]]
Duties == [at : {"idle", "collaborators"}] \cup [at : {"withdraw"}, who : People]
            \cup Pushes \cup Syncs \cup Passes

MembersTypeOK ==
  /\ repository \in BOOLEAN /\ organisation \in BOOLEAN
  /\ members \in [People -> Rows]
  /\ collaborator \in Listings /\ invited \in Listings
  /\ handler \in [Workers -> Duties]
  /\ chosen \in [People -> (SUBSET OwnerCapabilities) \cup {NoChoice}]
  /\ calm \in {"no", "running", "yes"} /\ removed \subseteq People /\ requests \in 0 .. MaxRequests

\* What a person with a GitHub name was given here stays theirs until somebody gives
\* them something else or changes them at GitHub: no sync takes it back because
\* GitHub's roles are coarser.  (A request that crossed another, or whose answer was
\* lost, promises nothing.)
ChoiceStands ==
  \A x \in People : chosen[x] # NoChoice => members[x].caps = chosen[x]

\* A sync right after one that nothing disturbed has nothing to do, as long as every
\* member may view.
NoThrash ==
  [][calm = "yes" /\ calm' = "yes" /\ (\A x \in People : members[x].row => "view" \in members[x].caps)
       => UNCHANGED <<members, collaborator, invited>>]_membersVars

--------------------------------------------------------------------------------
(* What the repository says and the code does not do *)

\* sync.go: "Anyone removed on GitHub loses access here".  A sync invites nobody again
\* who was taken off the repository: it does, before the role of the first invitation
\* is remembered.
RemovedStaysRemoved ==
  [][\A w \in Workers, x \in removed : InviteMember(w, x) => UNCHANGED <<collaborator, invited>>]_membersVars

\* members.go: "so a project always has exactly one person who can repair its access".
\* Adding the owner's name once more writes a plain member over the row.
OwnerStays == members[Boss].owner
================================================================================
