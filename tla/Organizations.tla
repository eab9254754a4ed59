--------------------------- MODULE Organizations ---------------------------
(***************************************************************************)
(* The members and invitations of one organisation, as the Lucid store     *)
(* keeps them (accounts/lucid_store/organizations.ts), under concurrent    *)
(* requests of the members (host/controllers/account_orgs_controller.ts),  *)
(* and of the administrators (host/admin_api/admin_orgs_service.ts).  No   *)
(* transaction is used: each statement is a step.                          *)
(***************************************************************************)
EXTENDS Integers, FiniteSets

CONSTANTS
  Requests,     \* HTTP requests that can be in progress at once
  Accounts,     \* accounts of the IdP
  Console,      \* stands for an administrator as the author of a request
  AdminEnabled, \* TRUE: the admin console or Admin API is mounted
  MaxRows,      \* bound on the membership rows ever created
  MaxInvites    \* bound on the invitations ever created

ASSUME ConsoleAssumption == Console \notin Accounts
ASSUME AdminAssumption == AdminEnabled \in BOOLEAN
ASSUME RequestsAssumption == IsFiniteSet(Requests)
ASSUME BoundsAssumption == MaxRows \in Nat \ {0} /\ MaxInvites \in Nat

VARIABLES
  rows,      \* the membership row of each account
  nextRow,   \* the id of the next row
  invites,   \* the invitations, by id
  sent,      \* number of invitations sent so far
  req,       \* what each request is doing and has read
  everOwner  \* history: accounts that have been owners

vars == <<rows, nextRow, invites, sent, req, everOwner>>
memberVars == <<rows, nextRow, everOwner>>
inviteVars == <<invites, sent>>

Roles == {"owner", "admin", "member"}
Row(id, role) == [id |-> id, role |-> role]
NoRow == Row(0, "none")
RowsOfTable == [id : 0..MaxRows, role : Roles \cup {"none"}]
Owners(table) == {a \in Accounts : table[a].role = "owner"}

Invites == 1..MaxInvites
Invitation(state, to, role, by) == [state |-> state, to |-> to, role |-> role, by |-> by]
NoInvite == Invitation("unsent", Console, "member", Console)

(* A request: its phase, the account, role or invitation it is about, its  *)
(* author, and the row it read.  "overtaken" is history: another request   *)
(* changed a row since this one began to read.                             *)
Idle == [op |-> "idle", phase |-> "asked", who |-> Console, role |-> "member", inv |-> 0,
         by |-> Console, row |-> NoRow, overtaken |-> FALSE]
Asking(op, who, role) == [Idle EXCEPT !.op = op, !.who = who, !.role = role]
Inviting(by, who, role) == [Asking("invite", who, role) EXCEPT !.by = by]
Revoking(i) == [Idle EXCEPT !.op = "revoke", !.inv = i]
Accepting(a, i) == [Asking("accept", a, invites[i].role) EXCEPT !.inv = i]

(* createOrg made its owner; whatever roles others have were granted.      *)
Init ==
  /\ \E role \in [Accounts -> Roles \cup {"none"}] :
       /\ \E a \in Accounts : role[a] = "owner"
       /\ rows = [a \in Accounts |-> IF role[a] = "none" THEN NoRow ELSE Row(1, role[a])]
  /\ everOwner = Owners(rows)
  /\ nextRow = 2
  /\ invites = [i \in Invites |-> NoInvite]
  /\ sent = 0
  /\ req = [r \in Requests |-> Idle]

---------------------------------------------------------------------------
(* Requests start with a check of the author's membership, if any.  The    *)
(* bounds leave room for the rows and invitations of those under way.      *)
Busy(ops) == Cardinality({r \in Requests : req[r].op \in ops})
Inserting == {"add", "accept"}

Start(r, asking) ==
  /\ req[r] = Idle
  /\ asking.op = "invite" => sent + Busy({"invite"}) < MaxInvites
  /\ asking.op \in Inserting => nextRow + Busy(Inserting) <= MaxRows
  /\ req' = [req EXCEPT ![r] = asking]
  /\ UNCHANGED <<memberVars, inviteVars>>

CanManage(a) == rows[a].role \in {"owner", "admin"}

(* leave, which checks nothing, and the removal of another member.         *)
leave(r, a) == Start(r, Asking("remove", a, "member"))

removeMember(r, by, a) == CanManage(by) /\ Start(r, Asking("remove", a, "member"))

revokeInvitation(r, by, i) == CanManage(by) /\ Start(r, Revoking(i))

inviteAnyRole(r, by, a, role) ==   \* mutant: an admin may invite an owner
  CanManage(by) /\ Start(r, Inviting(by, a, role))

invite(r, by, a, role) ==
  /\ CanManage(by)
  /\ role = "owner" => rows[by].role = "owner"
  /\ Start(r, Inviting(by, a, role))

(* The administrator's requests check no membership.                       *)
AdminRequest(r) ==
  /\ AdminEnabled
  /\ \/ \E a \in Accounts : Start(r, Asking("remove", a, "member"))
     \/ \E i \in 1..sent : Start(r, Revoking(i))
     \/ \E a \in Accounts, op \in {"add", "update"}, role \in Roles : Start(r, Asking(op, a, role))
     \/ \E a \in Accounts, role \in Roles : Start(r, Inviting(Console, a, role))

(* acceptInvitation up to its last check before the table of members: the  *)
(* invitation is there and in time, and is to the account's e-mail.  Its   *)
(* being accepted already is not looked at.                                *)
AcceptForwarded(r, a, i) ==   \* mutant: the e-mail is not compared
  /\ invites[i].state \in {"pending", "accepted"}
  /\ Start(r, Accepting(a, i))

acceptInvitation(r, a, i) ==
  /\ invites[i].state \in {"pending", "accepted"}
  /\ invites[i].to = a
  /\ Start(r, Accepting(a, i))

---------------------------------------------------------------------------
(* The store reads the row of the account.                                 *)
End(r) == req' = [req EXCEPT ![r] = Idle]
At(r, op, phase) == req[r].op = op /\ req[r].phase = phase

readRow(r) ==
  /\ req[r].phase = "asked" /\ req[r].op \in {"remove", "update", "add", "accept"}
  /\ LET row == rows[req[r].who] IN
       IF row = NoRow /\ req[r].op \in {"remove", "update"}
         THEN End(r)   \* not_found
         ELSE req' = [req EXCEPT ![r].phase = "read", ![r].row = row]
  /\ UNCHANGED <<memberVars, inviteVars>>

(* The row read is an owner's and the request would take that role away.   *)
TakesOwner(q) ==
  /\ q.row.role = "owner"
  /\ q.op = "remove" \/ (q.op = "update" /\ q.role # "owner")

countMembers(r) ==   \* mutant: counts members where it should count owners
  /\ req[r].phase = "read" /\ TakesOwner(req[r])
  /\ IF Cardinality({a \in Accounts : rows[a] # NoRow}) <= 1
       THEN End(r)
       ELSE req' = [req EXCEPT ![r].phase = "counted"]
  /\ UNCHANGED <<memberVars, inviteVars>>

countOwners(r) ==
  /\ req[r].phase = "read" /\ TakesOwner(req[r])
  /\ IF Cardinality(Owners(rows)) <= 1
       THEN End(r)   \* last_owner
       ELSE req' = [req EXCEPT ![r].phase = "counted"]
  /\ UNCHANGED <<memberVars, inviteVars>>

Checked(r) ==
  \/ req[r].phase = "read" /\ ~TakesOwner(req[r])
  \/ req[r].phase = "counted"

(* Statements on a row go by its primary key: they do nothing to a row     *)
(* inserted since under another id.                                        *)
SameRow(r) == req[r].row # NoRow /\ rows[req[r].who].id = req[r].row.id

(* The table after a write by r, which then is in the given phase.         *)
Put(r, row, then) ==
  /\ rows' = [rows EXCEPT ![req[r].who] = row]
  /\ everOwner' = everOwner \cup Owners(rows')
  /\ req' = [q \in Requests |->
       IF q = r THEN then
       ELSE IF rows' # rows /\ req[q].row # NoRow THEN [req[q] EXCEPT !.overtaken = TRUE]
       ELSE req[q]]

deleteRow(r) ==
  /\ req[r].op = "remove" /\ Checked(r)
  /\ Put(r, IF SameRow(r) THEN NoRow ELSE rows[req[r].who], Idle)
  /\ UNCHANGED <<nextRow, inviteVars>>

(* updateOrgMemberRole, and addOrgMember of an existing member.            *)
saveRole(r) ==
  /\ req[r].op \in {"update", "add"} /\ req[r].row # NoRow /\ Checked(r)
  /\ LET now == rows[req[r].who] IN
       Put(r, IF SameRow(r) /\ req[r].row.role # req[r].role
                THEN [now EXCEPT !.role = req[r].role] ELSE now, Idle)
  /\ UNCHANGED <<nextRow, inviteVars>>

(* The insert of addOrgMember and of acceptInvitation.  A row inserted     *)
(* meanwhile breaks the unique constraint and the request fails.           *)
insertRow(r) ==
  /\ req[r].op \in Inserting /\ req[r].row = NoRow /\ req[r].phase = "read"
  /\ IF rows[req[r].who] = NoRow
       THEN /\ Put(r, Row(nextRow, req[r].role),
                   IF req[r].op = "add" THEN Idle ELSE [req[r] EXCEPT !.phase = "joined"])
            /\ nextRow' = nextRow + 1
       ELSE End(r) /\ UNCHANGED <<rows, everOwner, nextRow>>
  /\ UNCHANGED <<inviteVars>>

(* The last statement of acceptInvitation; there is none to mark if the    *)
(* invitation was revoked meanwhile.                                       *)
markAccepted(r) ==
  /\ At(r, "accept", "joined") \/ (At(r, "accept", "read") /\ req[r].row # NoRow)
  /\ invites' = [invites EXCEPT ![req[r].inv].state = IF @ = "deleted" THEN @ ELSE "accepted"]
  /\ End(r)
  /\ UNCHANGED <<memberVars, sent>>

createOrgInvitation(r) ==
  /\ req[r].op = "invite"
  /\ sent' = sent + 1
  /\ invites' = [invites EXCEPT ![sent + 1] = Invitation("pending", req[r].who, req[r].role, req[r].by)]
  /\ End(r)
  /\ UNCHANGED <<rows, nextRow, everOwner>>

deleteInvitation(r) ==
  /\ req[r].op = "revoke"
  /\ invites' = [invites EXCEPT ![req[r].inv].state = "deleted"]
  /\ End(r)
  /\ UNCHANGED <<memberVars, sent>>

MemberRequest(r) ==
  \/ \E a \in Accounts : leave(r, a)
  \/ \E by, a \in Accounts : removeMember(r, by, a) \/ \E role \in Roles : invite(r, by, a, role)
  \/ \E a \in Accounts, i \in 1..sent : revokeInvitation(r, a, i) \/ acceptInvitation(r, a, i)

Statement(r) ==
  \/ readRow(r) \/ countOwners(r) \/ deleteRow(r) \/ saveRole(r) \/ insertRow(r)
  \/ markAccepted(r) \/ createOrgInvitation(r) \/ deleteInvitation(r)

Next == \E r \in Requests : MemberRequest(r) \/ AdminRequest(r) \/ Statement(r)

Spec == Init /\ [][Next]_vars

---------------------------------------------------------------------------
(* Types of the tables and of the requests.                                *)
TypeOK ==
  /\ rows \in [Accounts -> RowsOfTable]
  /\ nextRow \in 1..(MaxRows + 1) /\ sent \in 0..MaxInvites
  /\ invites \in [Invites -> [state : {"unsent", "pending", "accepted", "deleted"}, role : Roles,
                              to : Accounts \cup {Console}, by : Accounts \cup {Console}]]
  /\ \A r \in Requests : req[r].row \in RowsOfTable /\ req[r].role \in Roles
  /\ everOwner \subseteq Accounts

(* An account gets a role only from an administrator, or from an           *)
(* invitation of that very role sent to its e-mail.                        *)
RolesAreGranted ==
  [][\A a \in Accounts :
       rows'[a] \notin {NoRow, rows[a]} =>
         \/ \E r \in Requests : req[r].op \in {"add", "update"} /\ req[r].who = a
                              /\ req[r].role = rows'[a].role
         \/ \E i \in Invites : invites[i].to = a /\ invites[i].role = rows'[a].role]_vars

(* The invitations that make an owner were sent by an owner or by an       *)
(* administrator: no admin of the organisation makes itself one.           *)
OwnersMakeOwners ==
  \A i \in 1..sent : invites[i].role = "owner" => invites[i].by \in everOwner \cup {Console}

(* The organisation loses its last owner only when an administrator adds   *)
(* that owner again with a lesser role, or when the row or the count that  *)
(* a request relied on was overtaken by another's write.                   *)
LastOwnerStays ==
  [][Owners(rows') = {} =>
       \/ Owners(rows) = {}
       \/ \E r \in Requests : saveRole(r) /\ req[r].op = "add"
       \/ \E r \in Requests : (saveRole(r) \/ deleteRow(r)) /\ req[r].overtaken]_vars
===========================================================================
