----------------------------- MODULE MCBackground -----------------------------
(***************************************************************************)
(* Small instances of LoginLimiter, Archive and Import, which share no     *)
(* state: the first state picks the one that moves, and the others rest.   *)
(*                                                                         *)
(* LoginLimiter: one account whose identifier is typed in two ways, and    *)
(* two goroutines.  Archive: three rows from two goroutines over two days, *)
(* and two runs that may overlap; the columns are those of                 *)
(* migrations/000001_init.up.sql:261-271.  Import: an export with a child  *)
(* before its parent, a missing parent, a title that covers three sets of  *)
(* permissions, a set under two titles, a shared number and a placeholder; *)
(* its first rows, as -limit cuts it; and a later export, of fewer people, *)
(* with a circle.                                                          *)
(***************************************************************************)
EXTENDS LoginLimiter, Archive, Import

CONSTANTS
    ann, Ann, name,
    id, userId, event, succeeded, ipAddress, userAgent, detail, createdAt,
    u1, u2, u3, u4, u5, u6, lost, read, plan, p, q, zero

Lower == [s \in {ann, Ann} |-> name]

Types == (id :> "bigint") @@ (userId :> "uuid") @@ (event :> "character varying")
            @@ (succeeded :> "boolean") @@ (ipAddress :> "inet") @@ (userAgent :> "text")
            @@ (detail :> "jsonb") @@ (createdAt :> "timestamp with time zone")

Line(account, parent, created, title, keys, phone) ==
    [id |-> account, parent |-> parent, created |-> created,
     title |-> title, keys |-> keys, phone |-> phone]

Export ==
    <<Line(u3, u2,       5, "shipper", {read, plan}, p),
      Line(u1, NoParent, 1, "shipper", {},           q),
      Line(u2, u1,       3, "manager", {read},       p),
      Line(u4, u1,       4, "shipper", {read},       zero),
      Line(u5, u1,       6, "shipper", {},           NoPhone),
      Line(u6, lost,     7, "shipper", {read},       q)>>
LaterExport ==
    <<Line(u1, NoParent, 1, "shipper", {},           q),
      Line(u2, u1,       3, "manager", {plan},       p),
      Line(u4, u1,       4, "shipper", {read},       zero),
      Line(u5, u6,       6, "shipper", {},           NoPhone),
      Line(u6, u5,       7, "shipper", {read},       q)>>
Exports == {Export, SubSeq(Export, 1, 2), LaterExport}

-----------------------------------------------------------------------------
VARIABLE part

all == <<part, loginVars, archiveVars, importVars>>

Init ==
    /\ part \in {"login", "archive", "import"}
    /\ LoginInit /\ ArchiveInit /\ ImportInit
    /\ part # "login" => cached = {}
    /\ part # "archive" => ~session.stored

LoginMoves(A) == part = "login" /\ A /\ UNCHANGED <<part, archiveVars, importVars>>
ArchiveMoves(A) == part = "archive" /\ A /\ UNCHANGED <<part, loginVars, importVars>>
ImportMoves(A) == part = "import" /\ A /\ UNCHANGED <<part, loginVars, archiveVars>>

Next == LoginMoves(LoginNext) \/ ArchiveMoves(ArchiveNext) \/ ImportMoves(ImportNext)

\* The fairness of LoginFairSpec and of ArchiveFairSpec
Spec ==
    /\ Init /\ [][Next]_all
    /\ WF_all(LoginMoves(LoginTick))
    /\ WF_all(ArchiveMoves(ArchiveTick))
    /\ \A w \in Writer : WF_all(ArchiveMoves(Insert(w)))
    /\ \A r \in Run :
         WF_all(ArchiveMoves(Read(r) \/ PutCold(r) \/ DeleteWritten(r) \/ Purge(r)))
=============================================================================
