-------------------------------- MODULE Import --------------------------------
(***************************************************************************)
(* The import of the legacy users (cmd/import).                            *)
(*                                                                         *)
(* A file is read from the top, as far as -limit allows; build turns its   *)
(* rows into companies, accounts and roles, and apply writes them in one   *)
(* transaction, each row on conflict with the one that bears its legacy    *)
(* id.  Between two runs the service goes on: people join, are moved to    *)
(* another role, change their number or leave, and roles are redefined.    *)
(*                                                                         *)
(* Of the three identifiers there is the phone number, of which some are   *)
(* placeholders.  No row of a file is deleted, and what is only copied is  *)
(* left out.                                                               *)
(***************************************************************************)
EXTENDS Naturals, SequencesExt

CONSTANTS
    Legacy,       \* legacy_id
    Native,       \* accounts the service made
    NoParent,
    Title,        \* canonicalRole of a row
    Permission,   \* what legacyKeysOf makes of its columns
    Phone,
    NoPhone,
    Placeholder,  \* placeholderPhones
    File,         \* what may be imported: sequences of rows
    NoFile,
    NoRoot,
    MaxEdits      \* bound: what the service does

Row == [id : Legacy, parent : Legacy \cup {NoParent}, created : Nat, title : Title,
        keys : SUBSET Permission, phone : Phone \cup {NoPhone}]

\* A row for each legacy id, no two created at the same moment.
ASSUME FileAssumption ==
    /\ File \subseteq Seq(Row)
    /\ \A file \in File : \A i, j \in DOMAIN file :
         i # j => file[i].id # file[j].id /\ file[i].created # file[j].created
    /\ Placeholder \subseteq Phone
    /\ MaxEdits \in Nat

\* What stands for none is no legacy id or number, and canonicalRole makes no Administrator.
ASSUME TitleAssumption ==
    /\ NoParent \notin Legacy /\ NoRoot \notin Legacy /\ NoPhone \notin Phone
    /\ "Administrator" \notin Title

VARIABLES
    accounts, \* the users table
    jobs,     \* the roles table: what a role grants
    edits,
    last      \* history: the file imported last, with no edit since

importVars == <<accounts, jobs, edits, last>>

\* A company is known by the legacy id of its root, a role by its company, its title
\* and the number added to it.
Administrator(c) == [company |-> c, title |-> "Administrator", number |-> 1]
NoJob == [company |-> NoRoot, title |-> "none", number |-> 0]
Everything == [all |-> TRUE, keys |-> {}]
Only(keys) == [all |-> FALSE, keys |-> keys]

-----------------------------------------------------------------------------
(* build                                                                   *)

Rows(file) == Range(file)
Named(file, id) == CHOOSE row \in Rows(file) : row.id = id
InFile(file, id) == \E row \in Rows(file) : row.id = id

\* The parent, if it is in the file
Above(file, id) ==
    LET parent == Named(file, id).parent
    IN IF parent # NoParent /\ InFile(file, parent) THEN parent ELSE id

\* Mutant: parent is read once.
RootOf_Parent(file, id) == Above(file, id)

\* Up to the row without a parent in the file, or somewhere on a circle.
RootOf(file, id) ==
    LET walk[n \in 0..Len(file)] == IF n = 0 THEN id ELSE Above(file, walk[n - 1])
    IN walk[Len(file)]

\* companyOf: only what has no parent is a company.
CompanyOf(file, id) ==
    LET root == RootOf(file, id)
    IN IF Named(file, root).parent = NoParent THEN root ELSE NoRoot

IsAdmin(row) == row.parent = NoParent

\* Mutant: the first in the file wins.
Keeps_First(file, row) ==
    /\ row.phone \notin Placeholder \cup {NoPhone}
    /\ row = SelectSeq(file, LAMBDA other : other.phone = row.phone)[1]

\* resolveDuplicates: the oldest wins, and nobody a placeholder.
Keeps(file, row) ==
    /\ row.phone \notin Placeholder \cup {NoPhone}
    /\ \A other \in Rows(file) : other.phone = row.phone => row.created <= other.created

-----------------------------------------------------------------------------
(* apply                                                                   *)

\* INSERT ... ON CONFLICT DO UPDATE
Upsert(rows, table) ==
    [x \in DOMAIN rows \cup DOMAIN table |-> IF x \in DOMAIN rows THEN rows[x] ELSE table[x]]

\* Mutant: nameUsed is forgotten.
RoleNames_Unnumbered ==
  [file \in File |->
      LET add(names, row) ==
            LET c == CompanyOf(file, row.id)
            IN IF c = NoRoot \/ IsAdmin(row) \/ \E n \in names : n.role.company = c /\ n.keys = row.keys
               THEN names
               ELSE names \cup {[keys |-> row.keys,
                                 role |-> [company |-> c, title |-> row.title, number |-> 1]]}
      IN FoldLeft(add, {}, file)]

\* Mutant: a title that is taken in the table is numbered too.
RoleNames_Anew ==
  [file \in File |->
      LET add(names, row) ==
            LET c == CompanyOf(file, row.id)
                here == {n \in names : n.role.company = c}
                taken == {n.role : n \in here} \cup {x \in DOMAIN jobs : x.company = c}
            IN IF c = NoRoot \/ IsAdmin(row) \/ \E n \in here : n.keys = row.keys
               THEN names
               ELSE names \cup {[keys |-> row.keys,
                                 role |-> [company |-> c, title |-> row.title,
                                           number |-> Cardinality({x \in taken : x.title = row.title}) + 1]]}
      IN FoldLeft(add, {}, file)]

\* A role for the row, unless its company has one with its permissions: it is named
\* for the row and numbered where its title is taken by another set.
WithRole(file, names, row) ==
    LET c == CompanyOf(file, row.id)
        here == {n \in names : n.role.company = c}
        taken == {n \in here : n.role.title = row.title}
    IN IF c = NoRoot \/ IsAdmin(row) \/ \E n \in here : n.keys = row.keys
       THEN names
       ELSE names \cup {[keys |-> row.keys,
                         role |-> [company |-> c, title |-> row.title,
                                   number |-> Cardinality(taken) + 1]]}

\* roleNames: a role for each set of permissions in a company, from the top
RoleNames ==
  [file \in File |->
      LET names[n \in 0..Len(file)] ==
            IF n = 0 THEN {} ELSE WithRole(file, names[n - 1], file[n])
      IN names[Len(file)]]

\* The role a row is given; none, and it stays as it was, where there is no company.
JobOf(file, row) ==
    IF IsAdmin(row) THEN Administrator(row.id)
    ELSE (CHOOSE n \in RoleNames[file] : n.keys = row.keys /\ n.role.company = CompanyOf(file, row.id)).role

\* Those of every company that was ever imported
Administrators(file) ==
    {Administrator(row.id) : row \in {r \in Rows(file) : IsAdmin(r)}}
        \cup {x \in DOMAIN jobs : x.title = "Administrator"}

\* Mutant: the roles of a company give way to those of the file.
JobsAfter_Replaced(file) ==
    Upsert([x \in {n.role : n \in RoleNames[file]} |->
              Only((CHOOSE n \in RoleNames[file] : n.role = x).keys)],
           [x \in Administrators(file) |-> Everything])

\* ON CONFLICT DO UPDATE, of grants_all and then of permissions
JobsAfter(file) ==
    LET admins == [x \in Administrators(file) |->
                     IF x \in DOMAIN jobs THEN [jobs[x] EXCEPT !.all = TRUE] ELSE Everything]
        named == [x \in {n.role : n \in RoleNames[file]} |->
                    LET keys == (CHOOSE n \in RoleNames[file] : n.role = x).keys
                    IN IF x \in DOMAIN jobs THEN [jobs[x] EXCEPT !.keys = keys] ELSE Only(keys)]
    IN Upsert(named, Upsert(admins, jobs))

Fresh(file, row) ==
    [company |-> CompanyOf(file, row.id), job |-> NoJob, live |-> TRUE,
     phone |-> IF Keeps(file, row) THEN row.phone ELSE NoPhone]

\* An account that is there already is given its company, and its role if there is one.
Written(file, row) ==
    LET company == CompanyOf(file, row.id)
        account == IF row.id \in DOMAIN accounts
                   THEN [accounts[row.id] EXCEPT !.company = company]
                   ELSE Fresh(file, row)
    IN IF company = NoRoot THEN account ELSE [account EXCEPT !.job = JobOf(file, row)]

AccountsAfter(file) ==
    Upsert([id \in {row.id : row \in Rows(file)} |-> Written(file, Named(file, id))], accounts)

\* uq_users_phone
Free(phone) == phone = NoPhone \/ \A id \in DOMAIN accounts :
                                     accounts[id].live => accounts[id].phone # phone

\* No row that is new has a number somebody has: one that does undoes the whole
\* transaction.
Importable(file) ==
    \A row \in Rows(file) : row.id \in DOMAIN accounts \/ Free(Fresh(file, row).phone)

ImportFile(file) ==
    /\ Importable(file)
    /\ accounts' = AccountsAfter(file)
    /\ jobs' = JobsAfter(file)
    /\ last' = file
    /\ UNCHANGED edits

-----------------------------------------------------------------------------
(* The service                                                             *)

Edit == edits < MaxEdits /\ edits' = edits + 1 /\ last' = NoFile
JobsAt(c) == {x \in DOMAIN jobs : x.company = c}
Living == {id \in DOMAIN accounts : accounts[id].live}

\* RegisterMember, into a company with one of its roles
Join(id, c, job, phone) ==
    /\ id \notin DOMAIN accounts
    /\ job \in JobsAt(c)
    /\ Free(phone)
    /\ accounts' = Upsert([x \in {id} |-> [company |-> c, job |-> job, live |-> TRUE,
                                          phone |-> phone]], accounts)
    /\ Edit
    /\ UNCHANGED jobs

\* AssignRole
Move(id, job) ==
    /\ id \in Living
    /\ job \in JobsAt(accounts[id].company)
    /\ accounts' = [accounts EXCEPT ![id].job = job]
    /\ Edit
    /\ UNCHANGED jobs

\* UpdateProfile
ChangePhone(id, phone) ==
    /\ id \in Living
    /\ Free(phone)
    /\ accounts' = [accounts EXCEPT ![id].phone = phone]
    /\ Edit
    /\ UNCHANGED jobs

\* Delete
Leave(id) ==
    /\ id \in Living
    /\ accounts' = [accounts EXCEPT ![id].live = FALSE]
    /\ Edit
    /\ UNCHANGED jobs

\* RoleHandler.Update: the keys of one product, and grants_all, which the Administrator
\* role can lose and not be given again.
Redefine(job, grants) ==
    /\ job \in DOMAIN jobs
    /\ grants # jobs[job]
    /\ grants.all => job.title # "Administrator"
    /\ jobs' = [jobs EXCEPT ![job] = grants]
    /\ Edit
    /\ UNCHANGED accounts

ImportInit ==
    /\ accounts = <<>>
    /\ jobs = <<>>
    /\ edits = 0
    /\ last = NoFile

ImportNext ==
    \/ \E file \in File : ImportFile(file)
    \/ \E id \in Native, c \in Legacy, job \in DOMAIN jobs, phone \in Phone :
          Join(id, c, job, phone)
    \/ \E id \in DOMAIN accounts :
          \/ \E job \in DOMAIN jobs : Move(id, job)
          \/ \E phone \in Phone : ChangePhone(id, phone)
          \/ Leave(id)
    \/ \E job \in DOMAIN jobs, all \in BOOLEAN, keys \in SUBSET Permission :
          Redefine(job, [all |-> all, keys |-> keys])

ImportSpec == ImportInit /\ [][ImportNext]_importVars

-----------------------------------------------------------------------------
(* Properties                                                              *)

Job == [company : Legacy, title : Title \cup {"Administrator"}, number : Nat \ {0}]
Account == [company : Legacy \cup {NoRoot}, job : Job \cup {NoJob}, live : BOOLEAN,
            phone : Phone \cup {NoPhone}]

\* A role an account holds is there (users.role_id references roles), whatever is
\* imported after it was given.
ImportTypeOK ==
    /\ \A id \in DOMAIN accounts :
         /\ id \in Legacy \cup Native
         /\ accounts[id] \in Account
         /\ accounts[id].job \in DOMAIN jobs \cup {NoJob}
    /\ \A x \in DOMAIN jobs : x \in Job /\ jobs[x] \in [all : BOOLEAN, keys : SUBSET Permission]
    /\ edits \in 0..MaxEdits
    /\ last \in File \cup {NoFile}

Imported(row) == accounts[row.id]

\* After a run whoever was not a root holds a role of its company that grants the keys
\* of its row and no others, however the roles were named and whatever was made of them
\* before: sets that differ are never merged (plan.go: "merging those would silently
\* widen somebody").  grants_all, once a role has it, stays.
RolesGrantWhatWasHeld ==
    last # NoFile =>
        \A row \in Rows(last) :
            LET account == Imported(row) IN
            account.company # NoRoot =>
                /\ account.job.company = account.company
                /\ IF IsAdmin(row) THEN jobs[account.job].all
                   ELSE jobs[account.job].keys = row.keys /\ (edits = 0 => ~jobs[account.job].all)

\* A file imported again changes nothing: it makes no second account, role or name of
\* a role (main.go: "a re-run updates rather than duplicates").
RerunsChangeNothing ==
    last # NoFile => /\ Importable(last)
                     /\ AccountsAfter(last) = accounts
                     /\ JobsAfter(last) = jobs

\* A whole chain of parents is one company: an account is in the company of its parent
\* (plan.go: "a warehouse PIC under a manager under a shipper").
CompaniesFollowParents ==
    last # NoFile =>
        \A row \in Rows(last) :
            InFile(last, row.parent) => Imported(row).company = Imported(Named(last, row.parent)).company

\* Where the service has changed nothing, every number of the file is one account's, and
\* of the accounts of the file the oldest that bears it; a placeholder is nobody's.
OldestKeepsNumber ==
    edits = 0 /\ last # NoFile =>
        /\ \A row \in Rows(last) : row.phone \notin Placeholder \cup {NoPhone} =>
               \E id \in DOMAIN accounts :
                   /\ \A other \in DOMAIN accounts : accounts[other].phone = row.phone <=> other = id
                   /\ InFile(last, id) => Named(last, id).created <= row.created
        /\ \A id \in DOMAIN accounts : accounts[id].phone \notin Placeholder

\* "a partial run can be resumed" (main.go)
PartialRunsResume == edits = 0 => \A file \in File : Importable(file)
=============================================================================
