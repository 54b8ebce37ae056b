----------------------------- MODULE Privileges -----------------------------
(***************************************************************************)
(* analyze_statement: GRANT and REVOKE on tables.  The kinds of the objects*)
(* are compared first; then each object is looked up, and for each table   *)
(* that was not seen before the actions and the users are gone through.    *)
(***************************************************************************)
EXTENDS Naturals, Sequences, SequencesExt

CONSTANTS
    KnownTables,        \* the tables of the catalog
    PrivilegeRequests   \* the statements: revoke, actions, objects, users

VARIABLES
    request,            \* the statement
    elements,           \* the privileges of each table so far
    entries,            \* the entries of the table under analysis
    everyone,           \* its privileges by default, for PUBLIC
    granting,           \* the stage
    object, user        \* the object and the user under analysis

(* The lists of a statement, and the kinds of privilege_user_kind.         *)
GranteeKinds == {"identifier", "public", "all_users", "current_user"}
ASSUME RequestsAssumption ==
    \A r \in PrivilegeRequests :
        /\ r.actions \in Seq(Range(r.actions)) /\ r.objects \in Seq(Range(r.objects))
        /\ r.users \in Seq([kind : GranteeKinds, name : {u.name : u \in Range(r.users)}])

privilegeVars == <<request, elements, entries, everyone, granting, object, user>>

Actions == [all_privileges |-> "control", select |-> "select", insert |-> "insert",
            update |-> "update", delete |-> "delete"]
NoRequest == [revoke |-> FALSE, actions |-> <<>>, objects |-> <<>>, users |-> <<>>]
PrivilegeInit ==
    /\ request = NoRequest /\ elements = <<>> /\ entries = <<>> /\ everyone = <<>>
    /\ granting = "start" /\ object = 1 /\ user = 1

Pass(from, to) == granting = from /\ granting' = to
Deny(from) ==
    Pass(from, "failed") /\ UNCHANGED <<request, elements, entries, everyone, object, user>>

(***************************************************************************)
(* process_privilege(): nothing of the statement is empty, and its objects *)
(* are all tables.                                                         *)
(***************************************************************************)
Complete(r) == r.actions # <<>> /\ r.objects # <<>> /\ r.users # <<>>
AllTables(r) == \A i \in DOMAIN r.objects : r.objects[i].kind = "table"

ReadRequest ==
    /\ Pass("start", "object")
    /\ \E r \in PrivilegeRequests : Complete(r) /\ AllTables(r) /\ request' = r
    /\ UNCHANGED <<elements, entries, everyone, object, user>>
RejectRequest ==
    Deny("start") /\ \E r \in PrivilegeRequests : ~(Complete(r) /\ AllTables(r))

(***************************************************************************)
(* process_table_privilege(): a table that was seen is skipped.            *)
(***************************************************************************)
Object == request.objects[object]
(* Mutant of Seen: only the object before this one is compared.            *)
SeenLast(name) == elements # <<>> /\ elements[Len(elements)].table = name
Seen(name) == \E i \in DOMAIN elements : elements[i].table = name
Supported == \A i \in DOMAIN request.actions : request.actions[i] \in DOMAIN Actions
TableActions == [i \in DOMAIN request.actions |-> Actions[request.actions[i]]]

SkipTable ==
    /\ granting = "object" /\ object <= Len(request.objects)
    /\ Object.name \in KnownTables /\ Seen(Object.name)
    /\ object' = object + 1
    /\ UNCHANGED <<request, elements, entries, everyone, granting, user>>
BeginTable ==
    /\ Pass("object", "user") /\ object <= Len(request.objects)
    /\ Object.name \in KnownTables /\ ~Seen(Object.name) /\ Supported
    /\ entries' = <<>> /\ everyone' = <<>> /\ user' = 1
    /\ UNCHANGED <<request, elements, object>>
RejectTable ==
    /\ object <= Len(request.objects)
    /\ Object.name \notin KnownTables \/ (~Seen(Object.name) /\ ~Supported)
    /\ Deny("object")

(***************************************************************************)
(* The users: a name that was seen is skipped, PUBLIC takes the actions as *)
(* the default, and all users are for REVOKE only.                         *)
(***************************************************************************)
User == request.users[user]
Entry(grantee) == [kind |-> grantee.kind, name |-> grantee.name, actions |-> TableActions]
Repeated == User.kind = "identifier" /\ Entry(User) \in {entries[i] : i \in DOMAIN entries}

NextUser ==
    /\ granting = "user" /\ user <= Len(request.users) /\ user' = user + 1
    /\ UNCHANGED <<request, elements, granting, object>>

SkipUser == NextUser /\ Repeated /\ UNCHANGED <<entries, everyone>>
AddPublic ==
    /\ NextUser /\ User.kind = "public"
    /\ everyone' = TableActions
    /\ UNCHANGED entries
Acceptable(grantee) ==
    /\ grantee.kind # "public"
    /\ grantee.kind = "all_users" => request.revoke
AddUser ==
    /\ NextUser /\ ~Repeated /\ Acceptable(User)
    /\ entries' = Append(entries, Entry(User))
    /\ UNCHANGED everyone
RejectUser ==
    /\ user <= Len(request.users)
    /\ User.kind = "all_users" /\ ~request.revoke
    /\ Deny("user")

EndTable ==
    /\ Pass("user", "object") /\ user > Len(request.users)
    /\ elements' = Append(elements, [table |-> Object.name, everyone |-> everyone, entries |-> entries])
    /\ object' = object + 1
    /\ UNCHANGED <<request, entries, everyone, user>>
EndRequest ==
    /\ Pass("object", "done") /\ object > Len(request.objects)
    /\ UNCHANGED <<request, elements, entries, everyone, object, user>>

PrivilegeNext ==
    \/ ReadRequest \/ RejectRequest
    \/ SkipTable \/ BeginTable \/ RejectTable
    \/ SkipUser \/ AddPublic \/ AddUser \/ RejectUser
    \/ EndTable \/ EndRequest
PrivilegeSpec == PrivilegeInit /\ [][PrivilegeNext]_privilegeVars

(***************************************************************************)
(* The result gives each named table, once, to each named user, once, to   *)
(* everyone exactly when PUBLIC is named, and to all users only in REVOKE, *)
(* with all the actions.                                                   *)
(***************************************************************************)
Grantees(kinds) ==
    {<<g.kind, g.name>> : g \in {u \in Range(request.users) : u.kind \in kinds}}
EntriesExact(element) ==
    /\ \A i, k \in DOMAIN element.entries :
          /\ element.entries[i].kind = "identifier" /\ element.entries[k].kind = "identifier"
          /\ element.entries[i].name = element.entries[k].name
          => i = k
    /\ {<<entry.kind, entry.name>> : entry \in Range(element.entries)}
          = Grantees({"identifier", "current_user"} \cup IF request.revoke THEN {"all_users"} ELSE {})
    /\ \A entry \in Range(element.entries) : entry.actions = TableActions
    /\ element.everyone = IF Grantees({"public"}) = {} THEN <<>> ELSE TableActions
PrivilegesExact ==
    granting = "done" =>
        /\ {element.table : element \in Range(elements)} = {o.name : o \in Range(request.objects)}
        /\ \A i, k \in DOMAIN elements : elements[i].table = elements[k].table => i = k
        /\ \A element \in Range(elements) : EntriesExact(element)

=============================================================================
