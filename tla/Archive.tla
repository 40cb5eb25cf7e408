-------------------------------- MODULE Archive --------------------------------
(***************************************************************************)
(* The nightly archive (internal/archive/archive.go, started by            *)
(* cmd/server/archive.go; internal/platform/coldstore): audit rows past    *)
(* their retention are written to cold storage, a file for each day, and   *)
(* deleted from PostgreSQL; sessions long dead are deleted.                *)
(*                                                                         *)
(* A run is a process of its own, and a slow one may meet the next.  Each  *)
(* statement and each PutObject is a step, between which rows are written  *)
(* by the service.  A row is stamped with its time by the goroutine that   *)
(* writes it and numbered by the database when it arrives there, so that   *)
(* the numbers need not follow the times.                                  *)
(*                                                                         *)
(* RunID names the files of a run to the second.  Two runs are taken to    *)
(* start in different seconds, so only a run's own file can be overwritten *)
(* by it.  A dry run changes nothing and has no step.                      *)
(***************************************************************************)
EXTENDS Naturals, FiniteSetsExt

CONSTANTS
    Writer,        \* goroutines that write audit rows
    Run,           \* runs of the archive that may overlap
    Column,        \* columns of auth_audit_log
    DataType,      \* what information_schema says of each
    MaxRows,       \* bound: rows ever written
    Batch,         \* ARCHIVE_BATCH
    AuditRetain,   \* in ticks
    SessionRetain, \* in ticks
    KeepAuditRows, \* copy the rows instead of moving them
    DayLength,     \* ticks in a day
    LastWrite,     \* bound: nothing is written after this tick
    MaxTime,       \* bound: the clock stops here
    MaxFaults      \* bound: crashes and calls that fail

ASSUME ArchiveAssumption ==
    /\ MaxRows \in Nat /\ MaxTime \in Nat /\ LastWrite \in Nat /\ MaxFaults \in Nat
    /\ AuditRetain \in Nat /\ SessionRetain \in Nat
    /\ Batch \in Nat \ {0} /\ DayLength \in Nat \ {0}
    /\ KeepAuditRows \in BOOLEAN
    /\ DataType \in [Column -> {"boolean", "smallint", "integer", "bigint", "real",
           "double precision", "uuid", "character varying", "text", "inet", "jsonb",
           "timestamp with time zone"}]

VARIABLES
    clock,
    pending,   \* the stamp of a row on its way to the database
    at,        \* created_at of every row ever numbered
    table,     \* auth_audit_log: the ids in it
    runs,      \* the runs under way
    filed,     \* ids in the files of the runs that are over
    session,   \* a session: when it ends, and whether it is in the table
    faults

archiveVars == <<clock, pending, at, table, runs, filed, session, faults>>

Id == 1..MaxRows
Time == 0..MaxTime
Never == MaxTime + 1   \* no time

Numbered == {i \in Id : at[i] # Never}

\* created_at.UTC().Truncate(24h)
Day(t) == t \div DayLength
DayOf(i) == Day(at[i])
Days == 0..Day(MaxTime)

Waiting == [pc |-> "idle", left |-> {}, files |-> [d \in Days |-> {}]]
Files(r) == UNION {runs[r].files[d] : d \in Days}

ArchiveInit ==
    /\ clock = 0
    /\ pending = [w \in Writer |-> Never]
    /\ at = [i \in Id |-> Never]
    /\ table = {}
    /\ runs = [r \in Run |-> Waiting]
    /\ filed = {}
    /\ session \in [ends : {LastWrite}, stored : BOOLEAN]
    /\ faults = 0

-----------------------------------------------------------------------------
(* The service                                                             *)

\* Mutant: the stamp is local time, half a day ahead.
Stamp_Local(w) ==
    /\ pending[w] = Never
    /\ clock <= LastWrite
    /\ Cardinality(Numbered) + Cardinality({v \in Writer : pending[v] # Never}) < MaxRows
    /\ pending' = [pending EXCEPT ![w] = clock + 1]
    /\ UNCHANGED <<clock, at, table, runs, filed, session, faults>>

\* AuditRepository.Write: created_at is this process's time,
Stamp(w) ==
    /\ pending[w] = Never
    /\ clock <= LastWrite
    /\ Cardinality(Numbered) + Cardinality({v \in Writer : pending[v] # Never}) < MaxRows
    /\ pending' = [pending EXCEPT ![w] = clock]
    /\ UNCHANGED <<clock, at, table, runs, filed, session, faults>>

\* and id is the database's.
Insert(w) ==
    /\ pending[w] # Never
    /\ pending' = [pending EXCEPT ![w] = Never]
    /\ \E i \in Id :
         /\ Numbered = 1..(i - 1)
         /\ at' = [at EXCEPT ![i] = pending[w]]
         /\ table' = table \cup {i}
    /\ UNCHANGED <<clock, runs, filed, session, faults>>

\* A session is revoked; one never touched ends when it expires.
EndSession ==
    /\ clock < session.ends
    /\ session.stored
    /\ session' = [session EXCEPT !.ends = clock]
    /\ UNCHANGED <<clock, pending, at, table, runs, filed, faults>>

\* A row reaches the database within a tick.
ArchiveTick ==
    /\ clock < MaxTime
    /\ \A w \in Writer : pending[w] \in {clock, Never}
    /\ clock' = clock + 1
    /\ UNCHANGED <<pending, at, table, runs, filed, session, faults>>

-----------------------------------------------------------------------------
(* The file                                                                *)

\* Mutant: a JSON column is taken for a number.
KindOfPostgres_JSON(type) ==
    CASE type = "boolean" -> "Bool"
      [] type \in {"smallint", "integer", "bigint", "jsonb"} -> "Int"
      [] type \in {"real", "double precision"} -> "Double"
      [] OTHER -> "String"

KindOfPostgres(type) ==
    CASE type = "boolean" -> "Bool"
      [] type \in {"smallint", "integer", "bigint"} -> "Int"
      [] type \in {"real", "double precision"} -> "Double"
      [] OTHER -> "String"

\* The Go values the driver returns for a column of a type
Value(type) ==
    CASE type = "boolean" -> {"bool"}
      [] type = "bigint" -> {"int64"}
      [] type = "integer" -> {"int32", "int64"}
      [] type = "smallint" -> {"int16", "int64"}
      [] type = "real" -> {"float32", "float64"}
      [] type = "double precision" -> {"float64"}
      [] type = "timestamp with time zone" -> {"time.Time"}
      [] OTHER -> {"string", "[]byte"}

\* Whether a value has a place in a column of a kind; a string takes anything.
Coerce(value, kind) ==
    CASE kind = "Bool" -> value = "bool"
      [] kind = "Int" -> value \in {"int64", "int32", "int", "int16", "int8",
                                    "uint8", "uint16", "uint32"}
      [] kind = "Double" -> value \in {"float64", "float32"}
      [] kind = "String" -> TRUE

\* schemaFor, NewSchema and Encode, which stops at the first value that does not fit
Encodes == \A c \in Column : \A v \in Value(DataType[c]) : Coerce(v, KindOfPostgres(DataType[c]))

-----------------------------------------------------------------------------
(* Run                                                                     *)

Over(r) == runs' = [runs EXCEPT ![r] = Waiting] /\ filed' = filed \cup Files(r)

Cold == {i \in table : at[i] + AuditRetain < clock}

\* Mutant: without ORDER BY, any rows fill the batch.
Oldest_Unordered(cold) == kSubset(IF Cardinality(cold) < Batch THEN Cardinality(cold) ELSE Batch, cold)

\* ORDER BY created_at LIMIT: rows of one time come in any order.
Oldest(cold) ==
    {batch \in SUBSET cold :
        /\ Cardinality(batch) = IF Cardinality(cold) < Batch THEN Cardinality(cold) ELSE Batch
        /\ \A i \in batch, j \in cold \ batch : at[i] <= at[j]}

\* What is left of the batch goes day by day.
NextDay(left) == Min({DayOf(i) : i \in left})

\* Mutant: every row is a file of its own.
DayRows_EachRow(left) == {CHOOSE i \in left : DayOf(i) = NextDay(left)}

DayRows(left) == {i \in left : DayOf(i) = NextDay(left)}

Proceed(r, left) ==
    runs' = [runs EXCEPT ![r].left = left, ![r].pc = IF left = {} THEN "purge" ELSE "put"]

DeadSession == session.stored /\ session.ends + SessionRetain < clock

\* The rows are read.  A run that finds nothing to do changes nothing.
Read(r) ==
    /\ runs[r].pc = "idle"
    /\ Cold # {} \/ DeadSession
    /\ \E batch \in Oldest(Cold) : Proceed(r, batch)
    /\ UNCHANGED <<clock, pending, at, table, filed, session, faults>>

\* flush: a day's rows become a file,
PutCold(r) ==
    LET left == runs[r].left  d == NextDay(left) IN
    /\ runs[r].pc = "put"
    /\ Encodes
    /\ IF KeepAuditRows
       THEN runs' = [runs EXCEPT ![r].files[d] = DayRows(left),
                                 ![r].left = left \ DayRows(left),
                                 ![r].pc = IF left = DayRows(left) THEN "purge" ELSE "put"]
       ELSE runs' = [runs EXCEPT ![r].files[d] = DayRows(left), ![r].pc = "delete"]
    /\ UNCHANGED <<clock, pending, at, table, filed, session, faults>>

\* Mutant: what is deleted has the highest id for its only bound.
DeleteWritten_AnyDay(r) ==
    LET dayRows == DayRows(runs[r].left) IN
    /\ runs[r].pc = "delete"
    /\ table' = {i \in table : i > Max(dayRows)}
    /\ Proceed(r, runs[r].left \ dayRows)
    /\ UNCHANGED <<clock, pending, at, filed, session, faults>>

\* and the table loses that day up to the highest id in the file.
DeleteWritten(r) ==
    LET dayRows == DayRows(runs[r].left) IN
    /\ runs[r].pc = "delete"
    /\ table' = {i \in table : i > Max(dayRows) \/ DayOf(i) # NextDay(dayRows)}
    /\ Proceed(r, runs[r].left \ dayRows)
    /\ UNCHANGED <<clock, pending, at, filed, session, faults>>

\* The sessions
Purge(r) ==
    /\ runs[r].pc = "purge"
    /\ session' = [session EXCEPT !.stored = @ /\ ~DeadSession]
    /\ Over(r)
    /\ UNCHANGED <<clock, pending, at, table, faults>>

\* The run dies, or its call fails before or after it took effect, or a row cannot be
\* encoded.  Sessions wait for the audit log.
Die(r) ==
    /\ runs[r].pc \in {"put", "delete", "purge"}
    /\ Encodes => faults < MaxFaults
    /\ faults' = faults + IF Encodes THEN 1 ELSE 0
    /\ Over(r)
    /\ UNCHANGED <<clock, pending, at, table, session>>

ArchiveNext ==
    \/ ArchiveTick \/ EndSession
    \/ \E w \in Writer : Stamp(w) \/ Insert(w)
    \/ \E r \in Run :
         Read(r) \/ PutCold(r) \/ DeleteWritten(r) \/ Purge(r) \/ Die(r)

ArchiveSpec == ArchiveInit /\ [][ArchiveNext]_archiveVars

\* Time passes, a row on its way arrives, and there is a next night: a run that is
\* over is started again, and one that is running goes on.
ArchiveFairSpec ==
    /\ ArchiveSpec
    /\ WF_archiveVars(ArchiveTick)
    /\ \A w \in Writer : WF_archiveVars(Insert(w))
    /\ \A r \in Run : WF_archiveVars(Read(r) \/ PutCold(r) \/ DeleteWritten(r) \/ Purge(r))

-----------------------------------------------------------------------------
(* Properties                                                              *)

ArchiveTypeOK ==
    /\ clock \in Time
    /\ pending \in [Writer -> (0..clock) \cup {Never}]
    /\ at \in [Id -> Time \cup {Never}]
    /\ table \in SUBSET Numbered
    /\ runs \in [Run -> [pc : {"idle", "put", "delete", "purge"}, left : SUBSET Numbered,
                         files : [Days -> SUBSET Numbered]]]
    /\ filed \in SUBSET Numbered
    /\ session \in [ends : Nat, stored : BOOLEAN]
    /\ faults \in 0..MaxFaults

InAFile(i) == i \in filed \cup UNION {Files(r) : r \in Run}

\* "Nothing is lost: the file is the record" (archive.go, package comment).
NothingIsLost == \A i \in Numbered \ table : InAFile(i)

\* A row that is in no file has gone only when a row of its day was numbered after it
\* and stamped no later, and that one is in a file: however runs overlap, die and
\* start again, nothing else is lost.
OnlyOvertakenRowsAreLost ==
    \A i \in Numbered \ table :
        InAFile(i) \/ \E j \in Numbered : i < j /\ at[j] <= at[i] /\ DayOf(j) = DayOf(i) /\ InAFile(j)

\* A file is not written again within its run, so that it holds what was deleted
\* after it.
FilesAreWrittenOnce ==
    [][\A r \in Run, d \in Days :
           runs[r].files[d] # {} /\ runs'[r].pc # "idle" => runs'[r].files[d] = runs[r].files[d]]_archiveVars

\* Every row leaves the table in the end and so does a session that is over, although
\* a failing run leaves the sessions where they are.
ColdThingsGo == []<>(table = {} /\ ~session.stored)
=============================================================================
