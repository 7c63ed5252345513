----------------------------- MODULE Membership -----------------------------
(***************************************************************************)
(* Ledgers and their members: application/ledger/usecases.c over           *)
(* infrastructure/repositories/ledger_repo_impl.c, domain/ledger/rules.c   *)
(* and the default ledger of common/ledger_utils.c.                        *)
(*                                                                         *)
(* Every use case first reads the caller's role and then acts, and the two *)
(* are separate autocommitted statements: what another request does in     *)
(* between is not seen.  A deletion is eight statements, a creation two.   *)
(* job[t] holds what a request that passed its reads will do next; a       *)
(* request that is refused changes nothing and is not a step.              *)
(***************************************************************************)
EXTENDS Naturals

CONSTANTS Threads,     \* request workers
          People,      \* users
          Ledgers,     \* the ids the table can give out
          Nobody,      \* the owner of an id not given out yet
          MaxRequests  \* bound: requests that pass their reads

VARIABLES ledger,      \* ledger[l]: [row, owner, dflt], row "free", "live" or "gone"
          member,      \* member[l][u]: the role of u's row, or "none"
          invite,      \* the ledgers with an invite code that has not expired
          job,         \* job[t]: [does, user, l, to, role]
          served       \* requests taken so far, capped by MaxRequests

memberVars == <<ledger, member, invite, job, served>>

Roles == {"owner", "editor", "viewer"}
NoPlan == [does |-> "nothing", user |-> Nobody, l |-> 0, to |-> Nobody, role |-> "none"]
NoLedger == [row |-> "free", owner |-> Nobody, dflt |-> FALSE]

LiveLedger(l) == ledger[l].row = "live"
DefaultsOf(u) == {l \in Ledgers : LiveLedger(l) /\ ledger[l].owner = u /\ ledger[l].dflt}

(* domain/ledger/rules.c *)
ValidRole == {"editor", "viewer"}
CanManage(role) == role = "owner"
CanRemove(role, self) == CanManage(role) # self

MemberInit == /\ ledger = [l \in Ledgers |-> NoLedger]
              /\ member = [l \in Ledgers |-> [u \in People |-> "none"]]
              /\ invite = {}
              /\ job = [t \in Threads |-> NoPlan]
              /\ served = 0

Plan(t, does, u, l, to, role) ==
  job' = [job EXCEPT ![t] = [does |-> does, user |-> u, l |-> l, to |-> to, role |-> role]]
Take(t) == job[t] = NoPlan /\ served < MaxRequests /\ served' = served + 1
Done(t) == job' = [job EXCEPT ![t] = NoPlan]

-----------------------------------------------------------------------------
(* Reads: the role check of each use case, then the request's plan. *)

(* add_member, update_member, create_invite_code and delete need the owner's role. *)
Manage(t) ==
  /\ Take(t)
  /\ \E u \in People, l \in Ledgers :
       /\ CanManage(member[l][u])
       /\ \/ \E to \in People, role \in ValidRole, does \in {"add", "set_role"} :
               Plan(t, does, u, l, to, role)
          \/ \E does \in {"invite", "delete"} : Plan(t, does, u, l, Nobody, "none")
  /\ UNCHANGED <<ledger, member, invite>>

(* remove_member: the owner removes others, anybody else only himself. *)
AskRemove(t) ==
  /\ Take(t)
  /\ \E u, to \in People, l \in Ledgers :
       /\ member[l][u] # "none"
       /\ CanRemove(member[l][u], u = to)
       /\ Plan(t, "remove", u, l, to, "none")
  /\ UNCHANGED <<ledger, member, invite>>

(* join_by_invite finds the ledger of the code, then looks for the caller's row. *)
FindCode(t) ==
  /\ Take(t)
  /\ \E u \in People, l \in Ledgers : LiveLedger(l) /\ l \in invite /\ Plan(t, "join", u, l, u, "editor")
  /\ UNCHANGED <<ledger, member, invite>>

LookForRow(t) ==
  /\ job[t].does = "join"
  /\ LET r == job[t] IN
       IF member[r.l][r.user] = "none" THEN Plan(t, "add", r.user, r.l, r.user, r.role) ELSE Done(t)
  /\ UNCHANGED <<ledger, member, invite, served>>

(* get_or_create_default and the engine's ledger_get_default look for a default. *)
LookForDefault(t) ==
  /\ Take(t)
  /\ \E u \in People, does \in {"create_default", "engine_default"} :
       DefaultsOf(u) = {} /\ Plan(t, does, u, 0, Nobody, "none")
  /\ UNCHANGED <<ledger, member, invite>>

-----------------------------------------------------------------------------
(* Writes *)

InsertLedger(l, u, dflt) ==
  /\ ledger[l].row = "free"
  /\ ledger' = [ledger EXCEPT ![l] = [row |-> "live", owner |-> u, dflt |-> dflt]]

(* mf_ledger_repo_create: the row, then the owner's row with the id it was given. *)
Create(t) ==
  /\ \E l \in Ledgers, u \in People :
       /\ \/ Take(t) /\ InsertLedger(l, u, FALSE)
          \/ /\ job[t].does = "create_default" /\ u = job[t].user
             /\ InsertLedger(l, u, TRUE) /\ UNCHANGED served
       /\ Plan(t, "owner_row", u, l, u, "owner")
  /\ UNCHANGED <<member, invite>>

(* ledger_get_default inserts without RETURNING, and then asks again which one it is. *)
EngineCreate(t) ==
  /\ job[t].does = "engine_default"
  /\ \E l \in Ledgers : InsertLedger(l, job[t].user, TRUE)
  /\ Plan(t, "ask_again", job[t].user, 0, Nobody, "none")
  /\ UNCHANGED <<member, invite, served>>

AskAgain(t) ==
  /\ job[t].does = "ask_again"
  /\ LET u == job[t].user IN
       IF DefaultsOf(u) = {} THEN Done(t)
       ELSE \E l \in DefaultsOf(u) : Plan(t, "owner_row", u, l, u, "owner")
  /\ UNCHANGED <<ledger, member, invite, served>>

(* InsertMember without the reference of ledger_members to ledgers. *)
InsertMember_NoForeignKey(t) ==
  /\ job[t].does \in {"add", "owner_row"}
  /\ LET r == job[t] IN
       member' = IF member[r.l][r.to] = "none"
                 THEN [member EXCEPT ![r.l][r.to] = r.role] ELSE member
  /\ Done(t)
  /\ UNCHANGED <<ledger, invite, served>>

(* INSERT INTO ledger_members: UNIQUE (ledger_id, user_id) and the foreign key *)
(* to ledgers refuse it; the callers ignore that or answer "may already be".   *)
InsertMember(t) ==
  /\ job[t].does \in {"add", "owner_row"}
  /\ LET r == job[t] IN
       member' = IF LiveLedger(r.l) /\ member[r.l][r.to] = "none"
                 THEN [member EXCEPT ![r.l][r.to] = r.role] ELSE member
  /\ Done(t)
  /\ UNCHANGED <<ledger, invite, served>>

(* UPDATE ledger_members SET role: the row of any member, the owner's included. *)
SetRole(t) ==
  /\ job[t].does = "set_role"
  /\ LET r == job[t] IN
       member' = IF member[r.l][r.to] # "none" THEN [member EXCEPT ![r.l][r.to] = r.role] ELSE member
  /\ Done(t)
  /\ UNCHANGED <<ledger, invite, served>>

RemoveMember(t) ==
  /\ job[t].does = "remove"
  /\ member' = [member EXCEPT ![job[t].l][job[t].to] = "none"]
  /\ Done(t)
  /\ UNCHANGED <<ledger, invite, served>>

SetInvite(t) ==
  /\ job[t].does = "invite"
  /\ invite' = IF LiveLedger(job[t].l) THEN invite \cup {job[t].l} ELSE invite
  /\ Done(t)
  /\ UNCHANGED <<ledger, member, served>>

(* mf_ledger_repo_delete: the rows of six other tables (left out here), the  *)
(* members, the ledger; the last statement cascades to members added since   *)
(* (PRAGMA foreign_keys).  Each may fail alone, and only the last is looked   *)
(* at: the members may be gone and the ledger stay.                          *)
NoMembers(l) == member' = [member EXCEPT ![l] = [u \in People |-> "none"]]

DeleteMembers(t) ==
  /\ job[t].does = "delete"
  /\ NoMembers(job[t].l) \/ UNCHANGED member
  /\ job' = [job EXCEPT ![t].does = "delete_row"]
  /\ UNCHANGED <<ledger, invite, served>>

DeleteRow(t) ==
  /\ job[t].does = "delete_row"
  /\ \/ ledger' = [ledger EXCEPT ![job[t].l].row = "gone"] /\ NoMembers(job[t].l)
     \/ UNCHANGED <<ledger, member>>
  /\ Done(t)
  /\ UNCHANGED <<invite, served>>

(* The code is good for seven days. *)
InviteExpires(l) ==
  /\ l \in invite
  /\ invite' = invite \ {l}
  /\ UNCHANGED <<ledger, member, job, served>>

MemberStep(t) ==
  \/ Manage(t) \/ AskRemove(t) \/ FindCode(t) \/ LookForRow(t) \/ LookForDefault(t)
  \/ Create(t) \/ EngineCreate(t) \/ AskAgain(t) \/ InsertMember(t) \/ SetRole(t)
  \/ RemoveMember(t) \/ SetInvite(t) \/ DeleteMembers(t) \/ DeleteRow(t)

MemberNext == \/ \E t \in Threads : MemberStep(t)
              \/ \E l \in Ledgers : InviteExpires(l)

(***************************************************************************)
(* Properties.                                                             *)
(***************************************************************************)

(* Whatever the checks and the acts of several requests interleave to, the   *)
(* role of owner is only ever held by the user the ledger belongs to (no     *)
(* joining, default-ledger race or change of role hands it on), and a ledger *)
(* that was deleted has no members, a join that found its code before it was *)
(* deleted included.                                                         *)
RolesSound ==
  \A l \in Ledgers, u \in People :
    member[l][u] # "none" => /\ LiveLedger(l)
                             /\ member[l][u] = "owner" => ledger[l].owner = u

(* domain/ledger/rules.c says the owner cannot leave and must delete the     *)
(* ledger.  What the rule looks at is the role of the caller's row, which    *)
(* update_member lets the owner set to "editor" for himself.                 *)
OwnerStays == \A t \in Threads : job[t].does = "remove" => job[t].to # ledger[job[t].l].owner

MemberSpec == MemberInit /\ [][MemberNext]_memberVars
=============================================================================
