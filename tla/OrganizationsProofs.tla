------------------------ MODULE OrganizationsProofs ------------------------
(***************************************************************************)
(* What holds of Organizations for every number of accounts, requests,     *)
(* rows and invitations: the types of the tables, that the invitations     *)
(* that make owners have owners, or an administrator, as their authors,    *)
(* that roles are granted, and what it takes to lose the last owner.       *)
(***************************************************************************)
EXTENDS Organizations, FiniteSetTheorems, TLAPS

Authors == Accounts \cup {Console}
AboutMembers == {"remove", "update", "add", "accept", "invite"}
Asked == [op : AboutMembers \cup {"idle", "revoke"},
          phase : {"asked", "read", "counted", "joined"},
          who : Authors, role : Roles, inv : 0..MaxInvites, by : Authors,
          row : RowsOfTable, overtaken : BOOLEAN]
InviteRecords == [state : {"unsent", "pending", "accepted", "deleted"}, role : Roles,
                  to : Authors, by : Authors]

(* A request about a member names an account, and one that invites an      *)
(* owner has an author who may.                                            *)
MayAsk(q, owners) ==
  /\ q.op \in AboutMembers => q.who \in Accounts
  /\ (q.op = "invite" /\ q.role = "owner") => q.by \in owners \cup {Console}

Typed ==
  /\ rows \in [Accounts -> RowsOfTable]
  /\ nextRow \in Nat /\ sent \in Nat
  /\ invites \in [Invites -> InviteRecords]
  /\ req \in [Requests -> Asked]
  /\ everOwner \subseteq Accounts

(* The requests under way leave room for what they will insert.            *)
WillInvite == {r \in Requests : req[r].op = "invite"}
WillInsert == {r \in Requests : req[r].op \in Inserting /\ req[r].phase # "joined"}

RoomLeft ==
  /\ sent + Cardinality(WillInvite) <= MaxInvites
  /\ nextRow + Cardinality(WillInsert) <= MaxRows + 1

IInv ==
  /\ Typed
  /\ RoomLeft
  /\ nextRow >= 1
  /\ \A r \in Requests : MayAsk(req[r], everOwner)
  /\ Owners(rows) \subseteq everOwner
  /\ OwnersMakeOwners

---------------------------------------------------------------------------
LEMMA IdleType == Idle \in Asked /\ \A owners : MayAsk(Idle, owners)
BY BoundsAssumption DEF Idle, Asked, Authors, Roles, NoRow, Row, RowsOfTable, AboutMembers, MayAsk

(* One more, one less or as many, as the request that moved tells.         *)
LEMMA OneMoves ==
  ASSUME NEW B, NEW C, NEW r, B \subseteq Requests, C \subseteq Requests, B \ {r} = C \ {r}
  PROVE  /\ Cardinality(B) \in Nat /\ Cardinality(C) \in Nat
         /\ r \in B => Cardinality(B) # 0
         /\ (r \in C /\ r \notin B) => Cardinality(C) = Cardinality(B) + 1
         /\ (r \notin C /\ r \in B) => Cardinality(C) = Cardinality(B) - 1
         /\ (r \in C <=> r \in B) => Cardinality(C) = Cardinality(B)
<1>1. IsFiniteSet(B) /\ IsFiniteSet(C)
  BY RequestsAssumption, FS_Subset
<1>2. Cardinality(B) \in Nat /\ Cardinality(C) \in Nat
  BY <1>1, FS_CardinalityType
<1>3. r \in B => Cardinality(B) # 0
  BY <1>1, FS_EmptySet
<1>4. ASSUME r \in C, r \notin B PROVE Cardinality(C) = Cardinality(B) + 1
  <2>1. C = B \cup {r}
    BY <1>4
  <2>2. QED
    BY <1>1, <1>4, <2>1, FS_AddElement
<1>5. ASSUME r \notin C, r \in B PROVE Cardinality(C) = Cardinality(B) - 1
  <2>1. C = B \ {r}
    BY <1>5
  <2>2. QED
    BY <1>1, <1>5, <2>1, FS_RemoveElement
<1>6. ASSUME r \in C <=> r \in B PROVE Cardinality(C) = Cardinality(B)
  <2>1. C = B
    BY <1>6
  <2>2. QED
    BY <2>1
<1>7. QED
  BY <1>2, <1>3, <1>4, <1>5, <1>6

(* How the room for invitations and rows changes when r moves.             *)
LEMMA WaitingChanges ==
  ASSUME NEW r \in Requests, \A q \in Requests \ {r} : req'[q].op = req[q].op
                                                    /\ req'[q].phase = req[q].phase
  PROVE  /\ Cardinality(WillInvite) \in Nat /\ Cardinality(WillInvite)' \in Nat
         /\ r \in WillInvite => Cardinality(WillInvite) # 0
         /\ (r \in WillInvite' /\ r \notin WillInvite)
              => Cardinality(WillInvite)' = Cardinality(WillInvite) + 1
         /\ (r \notin WillInvite' /\ r \in WillInvite)
              => Cardinality(WillInvite)' = Cardinality(WillInvite) - 1
         /\ (r \in WillInvite' <=> r \in WillInvite)
              => Cardinality(WillInvite)' = Cardinality(WillInvite)
         /\ Cardinality(WillInsert) \in Nat /\ Cardinality(WillInsert)' \in Nat
         /\ r \in WillInsert => Cardinality(WillInsert) # 0
         /\ (r \in WillInsert' /\ r \notin WillInsert)
              => Cardinality(WillInsert)' = Cardinality(WillInsert) + 1
         /\ (r \notin WillInsert' /\ r \in WillInsert)
              => Cardinality(WillInsert)' = Cardinality(WillInsert) - 1
         /\ (r \in WillInsert' <=> r \in WillInsert)
              => Cardinality(WillInsert)' = Cardinality(WillInsert)
<1>1. WillInvite \subseteq Requests /\ WillInvite' \subseteq Requests /\ WillInvite \ {r} = WillInvite' \ {r}
  BY DEF WillInvite
<1>2. WillInsert \subseteq Requests /\ WillInsert' \subseteq Requests /\ WillInsert \ {r} = WillInsert' \ {r}
  BY DEF WillInsert, Inserting
<1>3. Cardinality(WillInvite)' = Cardinality(WillInvite') /\ Cardinality(WillInsert)' = Cardinality(WillInsert')
  OBVIOUS
<1>4. QED
  BY <1>1, <1>2, <1>3, OneMoves

LEMMA BusyCovers ==
  /\ Cardinality(WillInvite) \in Nat /\ Cardinality(WillInvite) <= Busy({"invite"})
  /\ Cardinality(WillInsert) \in Nat /\ Cardinality(WillInsert) <= Busy(Inserting)
  /\ Busy({"invite"}) \in Nat /\ Busy(Inserting) \in Nat
<1> DEFINE I == {r \in Requests : req[r].op \in {"invite"}}
           J == {r \in Requests : req[r].op \in Inserting}
<1>1. IsFiniteSet(I) /\ IsFiniteSet(J)
  BY RequestsAssumption, FS_Subset
<1>2. WillInvite \subseteq I /\ WillInsert \subseteq J
  BY DEF WillInvite, WillInsert
<1>3. Busy({"invite"}) = Cardinality(I) /\ Busy(Inserting) = Cardinality(J)
  BY DEF Busy
<1> HIDE DEF I, J
<1>4. IsFiniteSet(WillInvite) /\ Cardinality(WillInvite) <= Cardinality(I)
  BY <1>1, <1>2, FS_Subset
<1>5. IsFiniteSet(WillInsert) /\ Cardinality(WillInsert) <= Cardinality(J)
  BY <1>1, <1>2, FS_Subset
<1>6. QED
  BY <1>1, <1>3, <1>4, <1>5, FS_CardinalityType

---------------------------------------------------------------------------
(* A request begins: what it asks is of its type, and it may ask it.       *)
LEMMA StartKeeps ==
  ASSUME IInv, NEW r \in Requests, NEW asking \in Asked, asking.op # "idle",
         MayAsk(asking, everOwner), Start(r, asking)
  PROVE  IInv'
<1>1. req' = [req EXCEPT ![r] = asking] /\ req[r].op = "idle" /\ req \in [Requests -> Asked]
  BY DEF Start, IInv, Typed, Idle
<1>2. /\ UNCHANGED <<rows, nextRow, everOwner, invites, sent>>
      /\ asking.op = "invite" => sent + Busy({"invite"}) < MaxInvites
      /\ asking.op \in Inserting => nextRow + Busy(Inserting) <= MaxRows
  BY DEF Start, memberVars, inviteVars
<1>3. Typed'
  BY <1>1, <1>2 DEF IInv, Typed
<1>4. req'[r] = asking /\ \A q \in Requests \ {r} : req'[q] = req[q]
  BY <1>1
<1>5. \A q \in Requests : MayAsk(req'[q], everOwner)
  BY <1>4 DEF IInv
<1>6. Cardinality(WillInvite) \in Nat /\ Cardinality(WillInvite) <= Busy({"invite"})
      /\ Cardinality(WillInsert) \in Nat /\ Cardinality(WillInsert) <= Busy(Inserting)
      /\ Busy({"invite"}) \in Nat /\ Busy(Inserting) \in Nat
  BY BusyCovers
<1>7. RoomLeft'
  <2>1. r \notin WillInvite /\ r \notin WillInsert
    BY <1>1 DEF WillInvite, WillInsert, Inserting
  <2>2. /\ Cardinality(WillInvite)' \in Nat
        /\ r \in WillInvite' => Cardinality(WillInvite)' = Cardinality(WillInvite) + 1
        /\ r \notin WillInvite' => Cardinality(WillInvite)' = Cardinality(WillInvite)
    BY <1>4, <2>1, WaitingChanges
  <2>3. /\ Cardinality(WillInsert)' \in Nat
        /\ r \in WillInsert' => Cardinality(WillInsert)' = Cardinality(WillInsert) + 1
        /\ r \notin WillInsert' => Cardinality(WillInsert)' = Cardinality(WillInsert)
    BY <1>4, <2>1, WaitingChanges
  <2>4. /\ r \in WillInvite' => asking.op = "invite"
        /\ r \in WillInsert' => asking.op \in Inserting
    BY <1>4 DEF WillInvite, WillInsert, Inserting
  <2>5. sent + Cardinality(WillInvite)' <= MaxInvites
    BY <1>2, <1>6, <2>2, <2>4, BoundsAssumption DEF IInv, RoomLeft, Typed
  <2>6. nextRow + Cardinality(WillInsert)' <= MaxRows + 1
    BY <1>2, <1>6, <2>3, <2>4, BoundsAssumption DEF IInv, RoomLeft, Typed
  <2>7. QED
    BY <1>2, <2>5, <2>6 DEF RoomLeft
<1>8. QED
  BY <1>2, <1>3, <1>5, <1>7 DEF IInv, OwnersMakeOwners, Owners

(* The members' requests and the administrator's.                          *)
LEMMA AskingType ==
  ASSUME NEW op \in AboutMembers, NEW a \in Accounts, NEW role \in Roles, NEW owners
  PROVE  /\ Asking(op, a, role) \in Asked /\ Asking(op, a, role).op # "idle"
         /\ op # "invite" => MayAsk(Asking(op, a, role), owners)
BY IdleType DEF Asking, Idle, Asked, Authors, AboutMembers, MayAsk

LEMMA InvitingType ==
  ASSUME NEW by \in Authors, NEW a \in Accounts, NEW role \in Roles, NEW owners,
         role = "owner" => by \in owners \cup {Console}
  PROVE  /\ Inviting(by, a, role) \in Asked /\ Inviting(by, a, role).op # "idle"
         /\ MayAsk(Inviting(by, a, role), owners)
BY IdleType DEF Inviting, Asking, Idle, Asked, Authors, AboutMembers, MayAsk

LEMMA RevokingType ==
  ASSUME NEW i \in 0..MaxInvites, NEW owners
  PROVE  /\ Revoking(i) \in Asked /\ Revoking(i).op # "idle" /\ MayAsk(Revoking(i), owners)
BY IdleType DEF Revoking, Idle, Asked, AboutMembers, MayAsk

LEMMA AcceptingType ==
  ASSUME IInv, NEW a \in Accounts, NEW i \in Invites, NEW owners
  PROVE  /\ Accepting(a, i) \in Asked /\ Accepting(a, i).op # "idle"
         /\ MayAsk(Accepting(a, i), owners)
<1>1. invites[i].role \in Roles /\ i \in 0..MaxInvites
  BY BoundsAssumption DEF IInv, Typed, InviteRecords, Invites
<1>2. QED
  BY <1>1, IdleType DEF Accepting, Asking, Idle, Asked, Authors, AboutMembers, MayAsk

LEMMA SentFits ==
  ASSUME IInv, NEW i \in 1..sent
  PROVE  i \in Invites /\ i \in 0..MaxInvites
BY BusyCovers, BoundsAssumption DEF IInv, RoomLeft, Typed, Invites

LEMMA MemberKeeps ==
  ASSUME IInv, NEW r \in Requests, MemberRequest(r)
  PROVE  IInv'
<1>1. CASE \E a \in Accounts : leave(r, a)
  BY <1>1, AskingType, StartKeeps DEF leave, AboutMembers, Roles
<1>2. CASE \E by, a \in Accounts : removeMember(r, by, a)
  BY <1>2, AskingType, StartKeeps DEF removeMember, AboutMembers, Roles
<1>3. CASE \E by, a \in Accounts, role \in Roles : invite(r, by, a, role)
  <2>1. PICK by \in Accounts, a \in Accounts, role \in Roles : invite(r, by, a, role)
    BY <1>3
  <2>2. role = "owner" => by \in everOwner
    BY <2>1 DEF invite, IInv, Owners
  <2>3. QED
    BY <2>1, <2>2, InvitingType, StartKeeps DEF invite, Authors
<1>4. CASE \E a \in Accounts, i \in 1..sent : revokeInvitation(r, a, i)
  BY <1>4, SentFits, RevokingType, StartKeeps DEF revokeInvitation
<1>5. CASE \E a \in Accounts, i \in 1..sent : acceptInvitation(r, a, i)
  BY <1>5, SentFits, AcceptingType, StartKeeps DEF acceptInvitation
<1>6. QED
  BY <1>1, <1>2, <1>3, <1>4, <1>5 DEF MemberRequest

LEMMA AdminKeeps ==
  ASSUME IInv, NEW r \in Requests, AdminRequest(r)
  PROVE  IInv'
<1>1. CASE \E a \in Accounts : Start(r, Asking("remove", a, "member"))
  BY <1>1, AskingType, StartKeeps DEF AboutMembers, Roles
<1>2. CASE \E i \in 1..sent : Start(r, Revoking(i))
  BY <1>2, SentFits, RevokingType, StartKeeps
<1>3. CASE \E a \in Accounts, op \in {"add", "update"}, role \in Roles :
             Start(r, Asking(op, a, role))
  BY <1>3, AskingType, StartKeeps DEF AboutMembers
<1>4. CASE \E a \in Accounts, role \in Roles : Start(r, Inviting(Console, a, role))
  BY <1>4, InvitingType, StartKeeps DEF Authors
<1>5. QED
  BY <1>1, <1>2, <1>3, <1>4 DEF AdminRequest

---------------------------------------------------------------------------
(* A request that ends, or moves to another phase, takes no more room.     *)
LEMMA RoomStays ==
  ASSUME IInv, NEW r \in Requests,
         \A q \in Requests \ {r} : req'[q].op = req[q].op /\ req'[q].phase = req[q].phase,
         req'[r].op \in {"idle", req[r].op}, req[r].phase # "joined" \/ req'[r].op = "idle",
         UNCHANGED <<nextRow, sent>>
  PROVE  RoomLeft'
<1>1. (r \in WillInvite' => r \in WillInvite) /\ (r \in WillInsert' => r \in WillInsert)
  BY DEF WillInvite, WillInsert, Inserting
<1>2. /\ Cardinality(WillInvite) \in Nat /\ Cardinality(WillInvite)' \in Nat
      /\ Cardinality(WillInvite)' <= Cardinality(WillInvite)
  BY <1>1, WaitingChanges
<1>3. /\ Cardinality(WillInsert) \in Nat /\ Cardinality(WillInsert)' \in Nat
      /\ Cardinality(WillInsert)' <= Cardinality(WillInsert)
  BY <1>1, WaitingChanges
<1>4. QED
  BY <1>2, <1>3, BoundsAssumption DEF IInv, RoomLeft, Typed

(* The table is left alone, and the request moves on or ends.              *)
LEMMA MoveKeeps ==
  ASSUME IInv, NEW r \in Requests, NEW q \in Asked, req' = [req EXCEPT ![r] = q],
         q.op \in {"idle", req[r].op}, req[r].phase # "joined" \/ q.op = "idle", MayAsk(q, everOwner),
         UNCHANGED <<rows, nextRow, everOwner, sent>>,
         invites' \in [Invites -> InviteRecords],
         \A i \in Invites : invites'[i].role = invites[i].role /\ invites'[i].by = invites[i].by
  PROVE  IInv'
<1>1. req'[r] = q /\ \A p \in Requests \ {r} : req'[p] = req[p]
  BY DEF IInv, Typed
<1>2. Typed'
  BY DEF IInv, Typed
<1>3. RoomLeft'
  BY <1>1, RoomStays
<1>4. \A p \in Requests : MayAsk(req'[p], everOwner)
  BY <1>1 DEF IInv
<1>5. OwnersMakeOwners'
  BY SentFits DEF IInv, OwnersMakeOwners
<1>6. QED
  BY <1>2, <1>3, <1>4, <1>5 DEF IInv

LEMMA EndKeeps ==
  ASSUME IInv, NEW r \in Requests, End(r), UNCHANGED <<rows, nextRow, everOwner, sent>>,
         invites' \in [Invites -> InviteRecords],
         \A i \in Invites : invites'[i].role = invites[i].role /\ invites'[i].by = invites[i].by
  PROVE  IInv'
BY IdleType, MoveKeeps DEF End, Idle

LEMMA ReadKeeps ==
  ASSUME IInv, NEW r \in Requests, readRow(r) \/ countOwners(r)
  PROVE  IInv'
<1>1. UNCHANGED <<rows, nextRow, everOwner, sent, invites>> /\ invites \in [Invites -> InviteRecords]
  BY DEF readRow, countOwners, memberVars, inviteVars, IInv, Typed
<1>2. req \in [Requests -> Asked] /\ MayAsk(req[r], everOwner) /\ rows \in [Accounts -> RowsOfTable]
  BY DEF IInv, Typed
<1>0. req[r].phase # "joined"
  BY DEF readRow, countOwners
<1>3. CASE End(r)
  BY <1>1, <1>3, EndKeeps
<1>4. CASE /\ req[r].op \in {"remove", "update", "add", "accept"}
           /\ req' = [req EXCEPT ![r].phase = "read", ![r].row = rows[req[r].who]]
  <2> DEFINE q == [req[r] EXCEPT !.phase = "read", !.row = rows[req[r].who]]
  <2>1. rows[req[r].who] \in RowsOfTable
    BY <1>2, <1>4 DEF MayAsk, AboutMembers
  <2>2. q \in Asked /\ q.op = req[r].op /\ MayAsk(q, everOwner)
    BY <1>2, <2>1 DEF Asked, MayAsk
  <2>3. req' = [req EXCEPT ![r] = q]
    BY <1>2, <1>4
  <2> HIDE DEF q
  <2>4. QED
    BY <1>0, <1>1, <2>2, <2>3, MoveKeeps
<1>5. CASE req' = [req EXCEPT ![r].phase = "counted"]
  <2> DEFINE q == [req[r] EXCEPT !.phase = "counted"]
  <2>1. q \in Asked /\ q.op = req[r].op /\ MayAsk(q, everOwner)
    BY <1>2 DEF Asked, MayAsk
  <2>2. req' = [req EXCEPT ![r] = q]
    BY <1>2, <1>5
  <2> HIDE DEF q
  <2>3. QED
    BY <1>0, <1>1, <2>1, <2>2, MoveKeeps
<1>6. QED
  BY <1>3, <1>4, <1>5 DEF readRow, countOwners

---------------------------------------------------------------------------
(* A write of the table: the owners it makes are remembered, and the       *)
(* requests overtaken are the same but for that.                           *)
LEMMA PutKeeps ==
  ASSUME IInv, NEW r \in Requests, req[r].who \in Accounts,
         NEW row \in RowsOfTable, NEW then \in Asked, Put(r, row, then),
         then = Idle \/ (then.op = req[r].op /\ then.op # "invite" /\ then.who = req[r].who)
  PROVE  /\ rows' \in [Accounts -> RowsOfTable]
         /\ req' \in [Requests -> Asked]
         /\ everOwner \subseteq everOwner' /\ everOwner' \subseteq Accounts
         /\ Owners(rows') \subseteq everOwner'
         /\ req'[r] = then /\ \A q \in Requests \ {r} : req'[q].op = req[q].op
                                                              /\ req'[q].phase = req[q].phase
         /\ \A q \in Requests : MayAsk(req'[q], everOwner')
<1>1. req \in [Requests -> Asked] /\ \A q \in Requests : MayAsk(req[q], everOwner)
  BY DEF IInv, Typed
<1>2. rows' \in [Accounts -> RowsOfTable]
  BY DEF Put, IInv, Typed
<1>3. everOwner' = everOwner \cup Owners(rows') /\ Owners(rows') \subseteq Accounts
  BY DEF Put, Owners
<1>4. everOwner \subseteq everOwner' /\ everOwner' \subseteq Accounts /\ Owners(rows') \subseteq everOwner'
  BY <1>3 DEF IInv, Typed
<1>5. \A q \in Requests :
        /\ q = r => req'[q] = then
        /\ q # r => req'[q] \in {req[q], [req[q] EXCEPT !.overtaken = TRUE]}
  BY DEF Put
<1>6. ASSUME NEW q \in Requests, q # r
      PROVE  /\ req'[q] \in Asked /\ MayAsk(req'[q], everOwner)
             /\ req'[q].op = req[q].op /\ req'[q].phase = req[q].phase
  <2>1. CASE req'[q] = req[q]
    BY <1>1, <2>1
  <2>2. CASE req'[q] = [req[q] EXCEPT !.overtaken = TRUE]
    <3>1. req[q] \in Asked /\ MayAsk(req[q], everOwner)
      BY <1>1
    <3>2. req'[q] \in Asked
      BY <2>2, <3>1 DEF Asked
    <3>3. /\ req'[q].op = req[q].op /\ req'[q].phase = req[q].phase
          /\ req'[q].who = req[q].who /\ req'[q].role = req[q].role /\ req'[q].by = req[q].by
      BY <2>2, <3>1 DEF Asked
    <3>4. QED
      BY <3>1, <3>2, <3>3 DEF MayAsk
  <2>3. QED
    BY <1>5, <1>6, <2>1, <2>2
<1>7. req' \in [Requests -> Asked]
  <2>1. \A q \in Requests : req'[q] \in Asked
    BY <1>5, <1>6
  <2>2. \E f : req' = [q \in Requests |-> f[q]]
    <3> DEFINE f == [q \in Requests |->
                      IF q = r THEN then
                      ELSE IF rows' # rows /\ req[q].row # NoRow THEN [req[q] EXCEPT !.overtaken = TRUE]
                      ELSE req[q]]
    <3>1. req' = f /\ f = [q \in Requests |-> f[q]]
      BY DEF Put
    <3>2. QED
      BY <3>1
  <2>3. QED
    BY <2>1, <2>2
<1>8. MayAsk(then, everOwner)
  BY IdleType DEF MayAsk
<1>9. \A q \in Requests : MayAsk(req'[q], everOwner')
  BY <1>4, <1>5, <1>6, <1>8 DEF MayAsk
<1>10. QED
  BY <1>2, <1>4, <1>5, <1>6, <1>7, <1>9

(* A write that inserts no row.                                            *)
LEMMA RewriteKeeps ==
  ASSUME IInv, NEW r \in Requests, req[r].op \in AboutMembers,
         NEW row \in RowsOfTable, Put(r, row, Idle), UNCHANGED <<nextRow, inviteVars>>
  PROVE  IInv'
<1>1. req[r].who \in Accounts
  BY DEF IInv, MayAsk
<1>2. /\ rows' \in [Accounts -> RowsOfTable]
      /\ req' \in [Requests -> Asked]
      /\ everOwner \subseteq everOwner' /\ everOwner' \subseteq Accounts
      /\ Owners(rows') \subseteq everOwner'
      /\ req'[r] = Idle /\ \A q \in Requests \ {r} : req'[q].op = req[q].op
                                                           /\ req'[q].phase = req[q].phase
      /\ \A q \in Requests : MayAsk(req'[q], everOwner')
  BY <1>1, IdleType, PutKeeps
<1>3. UNCHANGED <<nextRow, invites, sent>>
  BY DEF inviteVars
<1>4. Typed'
  BY <1>2, <1>3 DEF IInv, Typed
<1>5. RoomLeft'
  BY <1>2, <1>3, RoomStays DEF Idle
<1>6. OwnersMakeOwners'
  BY <1>2, <1>3 DEF IInv, OwnersMakeOwners
<1>7. (\A q \in Requests : MayAsk(req[q], everOwner))' /\ (Owners(rows) \subseteq everOwner)'
  BY <1>2 DEF Owners
<1>8. QED
  BY <1>3, <1>4, <1>5, <1>6, <1>7 DEF IInv

LEMMA DeleteSaveKeeps ==
  ASSUME IInv, NEW r \in Requests, deleteRow(r) \/ saveRole(r)
  PROVE  IInv'
<1>1. req[r].op \in AboutMembers /\ UNCHANGED <<nextRow, inviteVars>>
  BY DEF deleteRow, saveRole, AboutMembers
<1>2. req[r].who \in Accounts /\ rows[req[r].who] \in RowsOfTable /\ req[r].role \in Roles
  BY <1>1 DEF IInv, MayAsk, Typed, Asked
<1>3. NoRow \in RowsOfTable
  BY BoundsAssumption DEF NoRow, Row, RowsOfTable
<1>4. [rows[req[r].who] EXCEPT !.role = req[r].role] \in RowsOfTable
  BY <1>2 DEF RowsOfTable
<1>5. \E row \in RowsOfTable : Put(r, row, Idle)
  BY <1>2, <1>3, <1>4 DEF deleteRow, saveRole
<1>6. QED
  BY <1>1, <1>5, RewriteKeeps

LEMMA InsertKeeps ==
  ASSUME IInv, NEW r \in Requests, insertRow(r)
  PROVE  IInv'
<1>1. req[r].op \in Inserting /\ UNCHANGED <<invites, sent>>
  BY DEF insertRow, inviteVars
<1>2. req[r] \in Asked /\ req[r].who \in Accounts /\ req[r].role \in Roles
  BY <1>1 DEF IInv, Typed, Asked, MayAsk, Inserting, AboutMembers
<1>3. CASE End(r) /\ UNCHANGED <<rows, everOwner, nextRow>>
  BY <1>1, <1>3, EndKeeps DEF IInv, Typed
<1>4. CASE /\ Put(r, Row(nextRow, req[r].role),
                  IF req[r].op = "add" THEN Idle ELSE [req[r] EXCEPT !.phase = "joined"])
           /\ nextRow' = nextRow + 1
  <2> DEFINE then == IF req[r].op = "add" THEN Idle ELSE [req[r] EXCEPT !.phase = "joined"]
             row == Row(nextRow, req[r].role)
  <2>1. /\ then \in Asked
        /\ then = Idle \/ (then.op = req[r].op /\ then.op # "invite" /\ then.who = req[r].who)
    BY <1>1, <1>2, IdleType DEF Asked, Inserting
  <2>2. r \in WillInsert /\ r \notin WillInvite
    BY <1>1 DEF insertRow, WillInsert, WillInvite, Inserting
  <2>3. nextRow \in 1..MaxRows
    <3>1. Cardinality(WillInsert) \in Nat /\ Cardinality(WillInsert) # 0
      BY <2>2, BusyCovers, OneMoves DEF WillInsert
    <3>2. QED
      BY <3>1, BoundsAssumption DEF IInv, RoomLeft, Typed
  <2>4. row \in RowsOfTable
    BY <1>2, <2>3, BoundsAssumption DEF Row, RowsOfTable
  <2>5. Put(r, row, then)
    BY <1>4
  <2>6. then = Idle \/ then.phase = "joined"
    BY <1>2 DEF Asked
  <2> HIDE DEF then, row
  <2>7. /\ rows' \in [Accounts -> RowsOfTable]
        /\ req' \in [Requests -> Asked]
        /\ everOwner \subseteq everOwner' /\ everOwner' \subseteq Accounts
        /\ Owners(rows') \subseteq everOwner'
        /\ req'[r] = then /\ \A q \in Requests \ {r} : req'[q].op = req[q].op
                                                             /\ req'[q].phase = req[q].phase
        /\ \A q \in Requests : MayAsk(req'[q], everOwner')
    BY <1>2, <2>1, <2>4, <2>5, PutKeeps
  <2>8. r \notin WillInsert' /\ r \notin WillInvite'
    BY <1>1, <2>1, <2>7, <2>6 DEF WillInsert, WillInvite, Inserting, Idle
  <2>10. RoomLeft'
    <3>1. /\ Cardinality(WillInsert) \in Nat /\ Cardinality(WillInsert)' = Cardinality(WillInsert) - 1
          /\ Cardinality(WillInvite)' = Cardinality(WillInvite)
      BY <2>2, <2>7, <2>8, WaitingChanges
    <3>2. QED
      BY <1>1, <1>4, <3>1, BoundsAssumption DEF IInv, RoomLeft, Typed
  <2>11. Typed'
    BY <1>1, <1>4, <2>7 DEF IInv, Typed
  <2>12. OwnersMakeOwners'
    BY <1>1, <2>7 DEF IInv, OwnersMakeOwners
  <2>13. nextRow' >= 1
    BY <1>4 DEF IInv, Typed
  <2>14. (\A q \in Requests : MayAsk(req[q], everOwner))' /\ (Owners(rows) \subseteq everOwner)'
    BY <2>7 DEF Owners
  <2>15. QED
    BY <2>10, <2>11, <2>12, <2>13, <2>14 DEF IInv
<1>5. QED
  BY <1>3, <1>4 DEF insertRow

(* The last statements of the requests about invitations.                  *)
LEMMA MarkKeeps ==
  ASSUME IInv, NEW r \in Requests, markAccepted(r) \/ deleteInvitation(r)
  PROVE  IInv'
<1>1. End(r) /\ UNCHANGED <<rows, nextRow, everOwner, sent>>
  BY DEF markAccepted, deleteInvitation, memberVars
<1>2. invites \in [Invites -> InviteRecords]
  BY DEF IInv, Typed
<1>3. /\ invites' \in [Invites -> InviteRecords]
      /\ \A i \in Invites : invites'[i].role = invites[i].role /\ invites'[i].by = invites[i].by
  BY <1>2 DEF markAccepted, deleteInvitation, InviteRecords
<1>4. QED
  BY <1>1, <1>3, EndKeeps

LEMMA CreateInvitationKeeps ==
  ASSUME IInv, NEW r \in Requests, createOrgInvitation(r)
  PROVE  IInv'
<1> DEFINE new == Invitation("pending", req[r].who, req[r].role, req[r].by)
<1>1. req[r] \in Asked /\ MayAsk(req[r], everOwner) /\ req[r].op = "invite"
  BY DEF createOrgInvitation, IInv, Typed
<1>2. /\ sent' = sent + 1 /\ invites' = [invites EXCEPT ![sent + 1] = new]
      /\ req' = [req EXCEPT ![r] = Idle] /\ UNCHANGED <<rows, nextRow, everOwner>>
  BY DEF createOrgInvitation, End
<1>3. new \in InviteRecords /\ (new.role = "owner" => new.by \in everOwner \cup {Console})
  BY <1>1 DEF Invitation, InviteRecords, Asked, Authors, MayAsk
<1> HIDE DEF new
<1>4. Typed'
  <2>1. invites' \in [Invites -> InviteRecords]
    BY <1>2, <1>3 DEF IInv, Typed
  <2>2. req' \in [Requests -> Asked]
    BY <1>2, IdleType DEF IInv, Typed
  <2>3. QED
    BY <1>2, <2>1, <2>2 DEF IInv, Typed
<1>5. req'[r] = Idle /\ \A q \in Requests \ {r} : req'[q] = req[q]
  BY <1>2 DEF IInv, Typed
<1>6. r \in WillInvite /\ r \notin WillInvite' /\ r \notin WillInsert /\ r \notin WillInsert'
  BY <1>1, <1>5 DEF WillInvite, WillInsert, Inserting, Idle
<1>7. /\ Cardinality(WillInvite) \in Nat /\ Cardinality(WillInvite)' = Cardinality(WillInvite) - 1
      /\ Cardinality(WillInvite) # 0
      /\ Cardinality(WillInsert)' = Cardinality(WillInsert)
  BY <1>5, <1>6, WaitingChanges
<1>8. RoomLeft'
  BY <1>2, <1>7, BoundsAssumption DEF IInv, RoomLeft, Typed
<1>9. sent + 1 \in Invites
  BY <1>7, BoundsAssumption DEF IInv, RoomLeft, Typed, Invites
<1>10. invites'[sent + 1] = new /\ \A i \in 1..sent : invites'[i] = invites[i]
  BY <1>2, <1>9, SentFits DEF IInv, Typed
<1>11. OwnersMakeOwners'
  BY <1>2, <1>3, <1>10 DEF IInv, OwnersMakeOwners, Typed
<1>12. (\A q \in Requests : MayAsk(req[q], everOwner))'
  BY <1>2, <1>5, IdleType DEF IInv
<1>13. QED
  BY <1>2, <1>4, <1>8, <1>11, <1>12 DEF IInv, Owners

LEMMA InitKeeps == Init => IInv
<1> SUFFICES ASSUME Init PROVE IInv
  OBVIOUS
<1>1. rows \in [Accounts -> RowsOfTable]
  BY BoundsAssumption DEF Init, NoRow, Row, RowsOfTable, Roles
<1>2. invites \in [Invites -> InviteRecords]
  BY DEF Init, NoInvite, Invitation, InviteRecords, Roles, Authors
<1>3. req \in [Requests -> Asked] /\ \A r \in Requests : req[r] = Idle
  BY IdleType DEF Init
<1>4. everOwner = Owners(rows) /\ nextRow = 2 /\ sent = 0
  BY DEF Init
<1>5. Typed
  BY <1>1, <1>2, <1>3, <1>4 DEF Typed, Owners
<1>6. WillInvite = {} /\ WillInsert = {}
  BY <1>3 DEF WillInvite, WillInsert, Inserting, Idle
<1>7. RoomLeft
  BY <1>4, <1>6, FS_EmptySet, BoundsAssumption DEF RoomLeft
<1>8. QED
  BY <1>3, <1>4, <1>5, <1>7, IdleType DEF IInv, OwnersMakeOwners

LEMMA StutterKeeps ==
  ASSUME IInv, UNCHANGED vars
  PROVE  IInv'
BY DEF IInv, vars, Typed, RoomLeft, WillInvite, WillInsert, OwnersMakeOwners, Owners

---------------------------------------------------------------------------
(* The tables are of their types, the requests under way leave room for    *)
(* what they insert, and an owner's invitation has an author who may.      *)
THEOREM InvariantHolds == Spec => []IInv
<1>1. Init => IInv
  BY InitKeeps
<1>2. IInv /\ [Next]_vars => IInv'
  BY MemberKeeps, AdminKeeps, ReadKeeps, DeleteSaveKeeps, InsertKeeps, MarkKeeps,
     CreateInvitationKeeps, StutterKeeps DEF Next, Statement
<1>3. QED
  BY <1>1, <1>2, PTL DEF Spec

(* Every reachable table of members and invitations is of its type.        *)
THEOREM TypeCorrect == Spec => []TypeOK
<1>1. IInv => TypeOK
  BY BusyCovers, BoundsAssumption DEF IInv, RoomLeft, Typed, TypeOK, Asked, InviteRecords, Authors
<1>2. QED
  BY <1>1, InvariantHolds, PTL

(* The invitations that make an owner were sent by someone who has been an *)
(* owner, or by an administrator, however many requests overlap.           *)
THEOREM OwnersAreInvitedByOwners == Spec => []OwnersMakeOwners
<1>1. IInv => OwnersMakeOwners
  BY DEF IInv
<1>2. QED
  BY <1>1, InvariantHolds, PTL

---------------------------------------------------------------------------
(* What a request goes by.  One that accepts an invitation has the         *)
(* account and the role of it; one whose row was not overtaken has the row *)
(* of the table, and its count of the owners still stands.                 *)
Invited(q) ==
  q.op = "accept" => /\ q.inv \in 1..sent
                     /\ invites[q.inv].to = q.who
                     /\ invites[q.inv].role = q.role

Current(q) ==
  (q.row # NoRow /\ ~q.overtaken) =>
    /\ rows[q.who] = q.row
    /\ q.phase = "counted" => ~(Cardinality(Owners(rows)) <= 1)

Witnessed == \A r \in Requests : Invited(req[r]) /\ Current(req[r])

(* The invitations sent keep their addressee and their role.               *)
LEMMA InvitesStay ==
  ASSUME IInv, Next, NEW i \in 1..sent
  PROVE  /\ i \in 1..sent'
         /\ invites'[i].to = invites[i].to /\ invites'[i].role = invites[i].role
<1>1. i \in Invites /\ invites \in [Invites -> InviteRecords] /\ sent \in Nat
  BY SentFits DEF IInv, Typed
<1>2. CASE UNCHANGED inviteVars
  BY <1>1, <1>2 DEF inviteVars
<1>3. CASE \E r \in Requests : markAccepted(r) \/ deleteInvitation(r)
  BY <1>1, <1>3 DEF markAccepted, deleteInvitation, InviteRecords
<1>4. CASE \E r \in Requests : createOrgInvitation(r)
  BY <1>1, <1>4 DEF createOrgInvitation
<1>5. QED
  BY <1>2, <1>3, <1>4 DEF Next, MemberRequest, AdminRequest, Statement, leave, removeMember,
     revokeInvitation, invite, acceptInvitation, Start, readRow, countOwners, deleteRow, saveRole,
     insertRow

(* A step in which each request keeps what it is about, or has begun with  *)
(* an invitation of its own.                                               *)
LEMMA InvitedStays ==
  ASSUME IInv, Next, NEW q \in Requests, Invited(req[q]),
         req'[q].op = "accept" => /\ req[q].op = "accept"
                                  /\ req'[q].inv = req[q].inv /\ req'[q].who = req[q].who
                                  /\ req'[q].role = req[q].role
  PROVE  Invited(req[q])'
BY InvitesStay DEF Invited

(* The member's and the administrator's requests begin with no row.        *)
Begins(r) == \E asking \in Asked :
  asking.row = NoRow /\ Invited(asking) /\ Start(r, asking)

LEMMA FreshAsking ==
  /\ \A op, a, role : Asking(op, a, role).op = op /\ Asking(op, a, role).row = NoRow
  /\ \A by, a, role : Inviting(by, a, role).op = "invite" /\ Inviting(by, a, role).row = NoRow
  /\ \A i : Revoking(i).op = "revoke" /\ Revoking(i).row = NoRow
  /\ \A a, i : /\ Accepting(a, i).op = "accept" /\ Accepting(a, i).row = NoRow
               /\ Accepting(a, i).who = a /\ Accepting(a, i).inv = i
               /\ Accepting(a, i).role = invites[i].role
BY DEF Asking, Inviting, Revoking, Accepting, Idle

LEMMA RequestsBegin ==
  ASSUME IInv, NEW r \in Requests, MemberRequest(r) \/ AdminRequest(r)
  PROVE  Begins(r)
<1>1. CASE \E a \in Accounts : leave(r, a) \/ \E by \in Accounts : removeMember(r, by, a)
  <2>1. PICK a \in Accounts : Start(r, Asking("remove", a, "member"))
    BY <1>1 DEF leave, removeMember
  <2>2. Asking("remove", a, "member") \in Asked
    BY AskingType DEF AboutMembers, Roles
  <2>3. QED
    BY <2>1, <2>2, FreshAsking DEF Begins, Invited
<1>2. CASE \E by, a \in Accounts, role \in Roles : invite(r, by, a, role)
  <2>1. PICK by \in Accounts, a \in Accounts, role \in Roles : invite(r, by, a, role)
    BY <1>2
  <2>2. role = "owner" => by \in everOwner
    BY <2>1 DEF invite, IInv, Owners
  <2>3. QED
    BY <2>1, <2>2, InvitingType, FreshAsking DEF invite, Authors, Begins, Invited
<1>3. CASE \E a \in Accounts, i \in 1..sent : revokeInvitation(r, a, i)
  BY <1>3, SentFits, RevokingType, FreshAsking DEF revokeInvitation, Begins, Invited
<1>4. CASE \E a \in Accounts, i \in 1..sent : acceptInvitation(r, a, i)
  BY <1>4, SentFits, AcceptingType, FreshAsking DEF acceptInvitation, Begins, Invited
<1>5. CASE AdminRequest(r)
  <2>1. CASE \E a \in Accounts : Start(r, Asking("remove", a, "member"))
    <3>1. PICK a \in Accounts : Start(r, Asking("remove", a, "member"))
      BY <2>1
    <3>2. Asking("remove", a, "member") \in Asked
      BY AskingType DEF AboutMembers, Roles
    <3>3. QED
      BY <3>1, <3>2, FreshAsking DEF Begins, Invited
  <2>2. CASE \E i \in 1..sent : Start(r, Revoking(i))
    BY <2>2, SentFits, RevokingType, FreshAsking DEF Begins, Invited
  <2>3. CASE \E a \in Accounts, op \in {"add", "update"}, role \in Roles :
               Start(r, Asking(op, a, role))
    BY <2>3, AskingType, FreshAsking DEF AboutMembers, Begins, Invited
  <2>4. CASE \E a \in Accounts, role \in Roles : Start(r, Inviting(Console, a, role))
    <3>1. PICK a \in Accounts, role \in Roles : Start(r, Inviting(Console, a, role))
      BY <2>4
    <3>2. Inviting(Console, a, role) \in Asked
      BY InvitingType DEF Authors
    <3>3. QED
      BY <3>1, <3>2, FreshAsking DEF Begins, Invited
  <2>5. QED
    BY <1>5, <2>1, <2>2, <2>3, <2>4 DEF AdminRequest
<1>6. QED
  BY <1>1, <1>2, <1>3, <1>4, <1>5 DEF MemberRequest

LEMMA BeginWitnessed ==
  ASSUME IInv, Witnessed, NEW r \in Requests, Begins(r)
  PROVE  Witnessed'
<1>1. PICK asking \in Asked : asking.row = NoRow /\ Invited(asking) /\ Start(r, asking)
  BY DEF Begins
<1>2. /\ req \in [Requests -> Asked] /\ req' = [req EXCEPT ![r] = asking]
      /\ UNCHANGED <<rows, invites, sent>>
  BY <1>1 DEF Start, memberVars, inviteVars, IInv, Typed
<1>3. \A q \in Requests : req'[q] = IF q = r THEN asking ELSE req[q]
  BY <1>2
<1>4. \A q \in Requests : Invited(req[q])'
  BY <1>1, <1>2, <1>3 DEF Witnessed, Invited
<1>5. \A q \in Requests : Current(req[q])'
  BY <1>1, <1>2, <1>3 DEF Witnessed, Current, Owners
<1>6. QED
  BY <1>4, <1>5 DEF Witnessed

(* A request that ends leaves the others what they go by.                  *)
LEMMA EndWitnessed ==
  ASSUME IInv, Witnessed, Next, NEW r \in Requests, End(r), UNCHANGED rows
  PROVE  Witnessed'
<1>1. req \in [Requests -> Asked] /\ req' = [req EXCEPT ![r] = Idle]
  BY DEF End, IInv, Typed
<1>2. \A q \in Requests : req'[q] = IF q = r THEN Idle ELSE req[q]
  BY <1>1
<1>3. Idle.op # "accept" /\ Idle.row = NoRow
  BY DEF Idle
<1>4. ASSUME NEW q \in Requests PROVE Invited(req[q])'
  BY <1>2, <1>3, InvitedStays DEF Witnessed
<1>5. \A q \in Requests : Current(req[q])'
  BY <1>2, <1>3 DEF Witnessed, Current, Owners
<1>6. QED
  BY <1>4, <1>5 DEF Witnessed

LEMMA ReadWitnessed ==
  ASSUME IInv, Witnessed, Next, NEW r \in Requests, readRow(r) \/ countOwners(r)
  PROVE  Witnessed'
<1>1. UNCHANGED rows /\ req \in [Requests -> Asked]
  BY DEF readRow, countOwners, memberVars, IInv, Typed
<1>2. CASE End(r)
  BY <1>1, <1>2, EndWitnessed
<1>3. CASE req' = [req EXCEPT ![r].phase = "read", ![r].row = rows[req[r].who]]
  <2>1. /\ \A q \in Requests \ {r} : req'[q] = req[q]
        /\ req'[r] = [req[r] EXCEPT !.phase = "read", !.row = rows[req[r].who]]
    BY <1>1, <1>3
  <2>2. /\ req'[r].op = req[r].op /\ req'[r].inv = req[r].inv /\ req'[r].who = req[r].who
        /\ req'[r].role = req[r].role /\ req'[r].phase = "read" /\ req'[r].row = rows[req[r].who]
    BY <1>1, <2>1 DEF Asked
  <2>3. ASSUME NEW q \in Requests PROVE Invited(req[q])'
    BY <2>1, <2>2, InvitedStays DEF Witnessed
  <2>4. Current(req[r])'
    BY <1>1, <2>2 DEF Current
  <2>5. \A q \in Requests \ {r} : Current(req[q])'
    BY <1>1, <2>1 DEF Witnessed, Current, Owners
  <2>6. QED
    BY <2>3, <2>4, <2>5 DEF Witnessed
<1>4. CASE /\ req' = [req EXCEPT ![r].phase = "counted"]
           /\ ~(Cardinality(Owners(rows)) <= 1)
  <2>1. /\ \A q \in Requests \ {r} : req'[q] = req[q]
        /\ req'[r] = [req[r] EXCEPT !.phase = "counted"]
    BY <1>1, <1>4
  <2>2. /\ req'[r].op = req[r].op /\ req'[r].inv = req[r].inv /\ req'[r].who = req[r].who
        /\ req'[r].role = req[r].role /\ req'[r].row = req[r].row
        /\ req'[r].overtaken = req[r].overtaken
    BY <1>1, <2>1 DEF Asked
  <2>3. ASSUME NEW q \in Requests PROVE Invited(req[q])'
    BY <2>1, <2>2, InvitedStays DEF Witnessed
  <2>4. ~(Cardinality(Owners(rows')) <= 1)
    BY <1>1, <1>4
  <2>5. Current(req[r])'
    BY <1>1, <2>2, <2>4 DEF Witnessed, Current, Owners
  <2>6. \A q \in Requests \ {r} : Current(req[q])'
    BY <1>1, <2>1 DEF Witnessed, Current, Owners
  <2>7. QED
    BY <2>3, <2>5, <2>6 DEF Witnessed
<1>5. QED
  BY <1>2, <1>3, <1>4 DEF readRow, countOwners

(* A write of the table overtakes the requests that have read a row.       *)
LEMMA PutWitnessed ==
  ASSUME IInv, Witnessed, Next, NEW r \in Requests, NEW row, NEW then \in Asked, Put(r, row, then),
         then.row = NoRow,
         then.op = "accept" => /\ req[r].op = "accept"
                               /\ then.inv = req[r].inv /\ then.who = req[r].who
                               /\ then.role = req[r].role
  PROVE  Witnessed'
<1>1. \A q \in Requests : req[q] \in Asked
  BY DEF IInv, Typed
<1>2. req'[r] = then /\ \A q \in Requests \ {r} :
        req'[q] = IF rows' # rows /\ req[q].row # NoRow THEN [req[q] EXCEPT !.overtaken = TRUE]
                  ELSE req[q]
  BY DEF Put
<1>3. ASSUME NEW q \in Requests \ {r}
      PROVE  /\ req'[q].op = req[q].op /\ req'[q].inv = req[q].inv /\ req'[q].who = req[q].who
             /\ req'[q].role = req[q].role /\ req'[q].row = req[q].row
             /\ req'[q].phase = req[q].phase
             /\ (req'[q].row # NoRow /\ ~req'[q].overtaken) => rows' = rows /\ ~req[q].overtaken
  <2>1. CASE rows' # rows /\ req[q].row # NoRow
    <3>1. req'[q] = [req[q] EXCEPT !.overtaken = TRUE] /\ req[q] \in Asked
      BY <1>1, <1>2, <2>1
    <3>2. QED
      BY <3>1 DEF Asked
  <2>2. CASE ~(rows' # rows /\ req[q].row # NoRow)
    <3>1. req'[q] = req[q]
      BY <1>2, <2>2
    <3>2. QED
      BY <2>2, <3>1
  <2>3. QED
    BY <2>1, <2>2
<1>5. ASSUME NEW q \in Requests PROVE Invited(req[q])'
  BY <1>2, <1>3, InvitedStays DEF Witnessed
<1>6. Current(req[r])'
  BY <1>2 DEF Current
<1>7. ASSUME NEW q \in Requests \ {r} PROVE Current(req[q])'
  BY <1>3 DEF Witnessed, Current, Owners
<1>8. QED
  BY <1>5, <1>6, <1>7 DEF Witnessed

LEMMA WriteWitnessed ==
  ASSUME IInv, Witnessed, Next, NEW r \in Requests, deleteRow(r) \/ saveRole(r) \/ insertRow(r)
  PROVE  Witnessed'
<1>1. Idle \in Asked /\ Idle.row = NoRow /\ Idle.op # "accept"
  BY IdleType DEF Idle
<1>2. CASE deleteRow(r) \/ saveRole(r)
  <2>1. \E row : Put(r, row, Idle)
    BY <1>2 DEF deleteRow, saveRole
  <2>2. QED
    BY <1>1, <2>1, PutWitnessed
<1>3. CASE insertRow(r) /\ End(r) /\ UNCHANGED rows
  BY <1>3, EndWitnessed
<1>4. CASE /\ insertRow(r)
           /\ Put(r, Row(nextRow, req[r].role),
                  IF req[r].op = "add" THEN Idle ELSE [req[r] EXCEPT !.phase = "joined"])
  <2>1. PICK joined : joined = [req[r] EXCEPT !.phase = "joined"]
    OBVIOUS
  <2>2. req[r] \in Asked /\ req[r].row = NoRow
    BY <1>4 DEF insertRow, IInv, Typed
  <2>3. /\ joined \in Asked /\ joined.row = NoRow /\ joined.op = req[r].op /\ joined.inv = req[r].inv
        /\ joined.who = req[r].who /\ joined.role = req[r].role
    BY <2>1, <2>2 DEF Asked
  <2>4. Put(r, Row(nextRow, req[r].role), Idle) \/ Put(r, Row(nextRow, req[r].role), joined)
    BY <1>4, <2>1
  <2>5. (\E row : Put(r, row, Idle)) \/ (\E row : Put(r, row, joined))
    BY <2>4
  <2>6. QED
    BY <1>1, <2>3, <2>5, PutWitnessed
<1>5. QED
  BY <1>2, <1>3, <1>4 DEF insertRow

LEMMA StepWitnessed ==
  ASSUME IInv, Witnessed, Next
  PROVE  Witnessed'
<1>1. PICK r \in Requests : MemberRequest(r) \/ AdminRequest(r) \/ Statement(r)
  BY DEF Next
<1>2. CASE MemberRequest(r) \/ AdminRequest(r)
  BY <1>2, RequestsBegin, BeginWitnessed
<1>3. CASE readRow(r) \/ countOwners(r)
  BY <1>3, ReadWitnessed
<1>4. CASE deleteRow(r) \/ saveRole(r) \/ insertRow(r)
  BY <1>4, WriteWitnessed
<1>5. CASE markAccepted(r) \/ createOrgInvitation(r) \/ deleteInvitation(r)
  BY <1>5, EndWitnessed DEF markAccepted, createOrgInvitation, deleteInvitation, memberVars
<1>6. QED
  BY <1>1, <1>2, <1>3, <1>4, <1>5 DEF Statement

LEMMA InitWitnessed == Init => Witnessed
BY DEF Init, Idle, Witnessed, Invited, Current

(* Requests go by what the tables hold until a write overtakes them.       *)
THEOREM RequestsGoByTheTables == Spec => [](IInv /\ Witnessed)
<1>1. Init => Witnessed
  BY InitWitnessed
<1>2. IInv /\ Witnessed /\ [Next]_vars => Witnessed'
  <2>1. ASSUME Witnessed, UNCHANGED vars PROVE Witnessed'
    BY <2>1 DEF vars, Witnessed, Invited, Current, Owners
  <2>2. QED
    BY <2>1, StepWitnessed
<1>3. QED
  BY <1>1, <1>2, InvariantHolds, PTL DEF Spec

---------------------------------------------------------------------------
(* What a step does to the table, by the statement that does it.           *)
LEMMA OnlyWrites ==
  ASSUME Next, rows' # rows
  PROVE  \E r \in Requests : deleteRow(r) \/ saveRole(r) \/ insertRow(r)
BY DEF Next, MemberRequest, AdminRequest, Statement, leave, removeMember, revokeInvitation, invite,
   acceptInvitation, Start, readRow, countOwners, markAccepted, createOrgInvitation,
   deleteInvitation, memberVars

LEMMA GrantedStep ==
  ASSUME IInv, Witnessed, Next, NEW a \in Accounts, rows'[a] \notin {NoRow, rows[a]}
  PROVE  \/ \E r \in Requests : req[r].op \in {"add", "update"} /\ req[r].who = a
                              /\ req[r].role = rows'[a].role
         \/ \E i \in Invites : invites[i].to = a /\ invites[i].role = rows'[a].role
<1>1. PICK r \in Requests : deleteRow(r) \/ saveRole(r) \/ insertRow(r)
  BY OnlyWrites
<1>2. rows \in [Accounts -> RowsOfTable] /\ req[r] \in Asked
  BY DEF IInv, Typed
<1>3. req[r].who \in Accounts
  BY <1>1 DEF deleteRow, saveRole, insertRow, IInv, MayAsk, AboutMembers, Inserting
<1>4. CASE deleteRow(r)
  BY <1>2, <1>3, <1>4 DEF deleteRow, Put
<1>5. CASE saveRole(r)
  <2>1. req[r].op \in {"add", "update"}
    BY <1>5 DEF saveRole
  <2>2. rows' \in {rows, [rows EXCEPT ![req[r].who] = [rows[req[r].who] EXCEPT !.role = req[r].role]]}
    BY <1>2, <1>5 DEF saveRole, Put
  <2>3. req[r].who = a /\ rows'[a] = [rows[a] EXCEPT !.role = req[r].role]
    BY <1>2, <1>3, <2>2
  <2>4. rows'[a].role = req[r].role
    BY <1>2, <2>3 DEF RowsOfTable
  <2>5. QED
    BY <2>1, <2>3, <2>4
<1>6. CASE insertRow(r)
  <2>1. rows' = [rows EXCEPT ![req[r].who] = Row(nextRow, req[r].role)]
    BY <1>6 DEF insertRow, Put
  <2>2. req[r].who = a /\ rows'[a].role = req[r].role
    BY <1>2, <1>3, <2>1 DEF Row
  <2>3. CASE req[r].op = "add"
    BY <2>2, <2>3
  <2>4. CASE req[r].op = "accept"
    <3>1. /\ req[r].inv \in 1..sent /\ invites[req[r].inv].to = a
          /\ invites[req[r].inv].role = rows'[a].role
      BY <2>2, <2>4 DEF Witnessed, Invited
    <3>2. QED
      BY <3>1, SentFits
  <2>5. QED
    BY <1>6, <2>3, <2>4 DEF insertRow, Inserting
<1>7. QED
  BY <1>1, <1>4, <1>5, <1>6

(* An account gets a role only from an administrator's request, or from an *)
(* invitation of that role to its e-mail, whatever requests overlap.       *)
THEOREM RolesComeFromGrants == Spec => RolesAreGranted
<1>1. ASSUME IInv, Witnessed, [Next]_vars
      PROVE  \A a \in Accounts :
       rows'[a] \notin {NoRow, rows[a]} =>
         \/ \E r \in Requests : req[r].op \in {"add", "update"} /\ req[r].who = a
                              /\ req[r].role = rows'[a].role
         \/ \E i \in Invites : invites[i].to = a /\ invites[i].role = rows'[a].role
  BY <1>1, GrantedStep DEF vars
<1>2. QED
  BY <1>1, RequestsGoByTheTables, PTL DEF Spec, RolesAreGranted

(* A table written in one row keeps its owners but for the account of it,  *)
(* and it keeps that one when its row is an owner's or was none.           *)
LEMMA OwnersLeft ==
  ASSUME rows \in [Accounts -> RowsOfTable], NEW a \in Accounts, NEW row,
         rows' = [rows EXCEPT ![a] = row]
  PROVE  /\ Owners(rows) \ {a} \subseteq Owners(rows')
         /\ (row.role = "owner" \/ rows[a].role # "owner") => Owners(rows) \subseteq Owners(rows')
BY DEF Owners

(* Two owners or more: one is left when one goes.                          *)
LEMMA MoreThanOne ==
  ASSUME ~(Cardinality(Owners(rows)) <= 1), NEW a
  PROVE  Owners(rows) \ {a} # {}
<1>1. SUFFICES ASSUME Owners(rows) \subseteq {a} PROVE FALSE
  OBVIOUS
<1>2. Owners(rows) = {} \/ Owners(rows) = {a}
  BY <1>1
<1>3. Cardinality({}) = 0 /\ Cardinality({a}) = 1
  BY FS_EmptySet, FS_Singleton
<1>4. Cardinality(Owners(rows)) \in {0, 1}
  BY <1>2, <1>3
<1>5. QED
  BY <1>4

LEMMA OwnerStep ==
  ASSUME IInv, Witnessed, Next, Owners(rows') = {}, Owners(rows) # {}
  PROVE  \/ \E r \in Requests : saveRole(r) /\ req[r].op = "add"
         \/ \E r \in Requests : (saveRole(r) \/ deleteRow(r)) /\ req[r].overtaken
<1>1. rows' # rows
  OBVIOUS
<1>2. PICK r \in Requests : deleteRow(r) \/ saveRole(r) \/ insertRow(r)
  BY <1>1, OnlyWrites
<1>3. rows \in [Accounts -> RowsOfTable] /\ req[r] \in Asked
  BY DEF IInv, Typed
<1>4. req[r].who \in Accounts
  BY <1>2 DEF deleteRow, saveRole, insertRow, IInv, MayAsk, AboutMembers, Inserting
<1>5. ~insertRow(r)
  <2>1. SUFFICES ASSUME insertRow(r) PROVE FALSE
    OBVIOUS
  <2>2. /\ rows' = [rows EXCEPT ![req[r].who] = Row(nextRow, req[r].role)]
        /\ rows[req[r].who] = NoRow
    BY <1>1, <2>1 DEF insertRow, Put
  <2>3. rows[req[r].who].role # "owner"
    BY <2>2 DEF NoRow, Row
  <2>4. Owners(rows) \subseteq Owners(rows')
    BY <1>3, <1>4, <2>2, <2>3 DEF Owners
  <2>5. QED
    BY <2>4
<1>6. SUFFICES ASSUME ~req[r].overtaken, ~(saveRole(r) /\ req[r].op = "add") PROVE FALSE
  BY <1>2, <1>5
<1>7. req[r].row # NoRow
  BY <1>1, <1>2, <1>3, <1>4, <1>5 DEF deleteRow, saveRole, Put, SameRow
<1>8. /\ rows[req[r].who] = req[r].row
      /\ req[r].phase = "counted" => ~(Cardinality(Owners(rows)) <= 1)
  BY <1>6, <1>7 DEF Witnessed, Current
<1>9. Checked(r) /\ \E row : rows' = [rows EXCEPT ![req[r].who] = row]
  BY <1>2, <1>5 DEF deleteRow, saveRole, Put
<1>10. CASE req[r].phase = "counted"
  <2>1. Owners(rows) \ {req[r].who} \subseteq Owners(rows')
    BY <1>3, <1>4, <1>9, OwnersLeft
  <2>2. Owners(rows) \ {req[r].who} # {}
    BY <1>8, <1>10, MoreThanOne
  <2>3. QED
    BY <2>1, <2>2
<1>11. CASE ~TakesOwner(req[r]) /\ req[r].row.role # "owner"
  BY <1>3, <1>4, <1>8, <1>9, <1>11, OwnersLeft
<1>12. CASE ~TakesOwner(req[r]) /\ req[r].row.role = "owner"
  <2>1. saveRole(r) /\ req[r].op = "update" /\ req[r].role = "owner"
    BY <1>2, <1>5, <1>6, <1>12 DEF TakesOwner, deleteRow, saveRole
  <2>2. QED
    BY <1>1, <1>3, <1>8, <1>12, <2>1 DEF saveRole, Put
<1>13. QED
  BY <1>9, <1>10, <1>11, <1>12 DEF Checked

(* However requests overlap, the organisation loses its last owner only    *)
(* when an administrator adds that owner again with a lesser role, or when *)
(* what a request relied on was overtaken by another's write.              *)
THEOREM LastOwnerLeavesOnlyByRaces == Spec => LastOwnerStays
<1>1. ASSUME IInv, Witnessed, [Next]_vars
      PROVE  Owners(rows') = {} =>
               \/ Owners(rows) = {}
               \/ \E r \in Requests : saveRole(r) /\ req[r].op = "add"
               \/ \E r \in Requests : (saveRole(r) \/ deleteRow(r)) /\ req[r].overtaken
  BY <1>1, OwnerStep DEF vars
<1>2. QED
  BY <1>1, RequestsGoByTheTables, PTL DEF Spec, LastOwnerStays
===========================================================================
