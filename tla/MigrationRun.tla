------------------------------ MODULE MigrationRun ------------------------------
(***************************************************************************)
(* Migration runs of one source system: extraction by pages, validation,   *)
(* approval, application record by record and reconciliation               *)
(* (src/migration/staging.py, validation.py, apply.py, reconcile.py,       *)
(* orchestrator.py).                                                       *)
(*                                                                         *)
(* A session is a process working on a run: either execute(), which makes  *)
(* a run and carries it through all its calls, or an operator's script     *)
(* that makes one call on an existing run.  Each step is one transaction,  *)
(* or one request to the source system; a session may crash between any    *)
(* two, and several may work on one run.  A payload is the version of its  *)
(* record, and stands for its hash.                                        *)
(***************************************************************************)
EXTENDS Money

CONSTANTS
    Objects,        \* source objects, in the order they are extracted and applied
    Content,        \* Content[o]: the records of object o, in the order of its pages
    PageSize,       \* records to a page
    Handled,        \* objects with a handler; records of the others are archived
    Transactional,  \* objects whose handlers post transactions
    Needs,          \* Needs[k]: the records record k refers to
    Cancelled,      \* records the handler archives
    OutOfScope,     \* closed records older than the migration's history
    Invalid,        \* <<record, version>> pairs that normalization rejects
    Versions,       \* payloads a record may have
    Controls,       \* the parts of the opening balances that a process may have to post
    Changing,       \* bound on the records whose payload may change
    Sessions,
    Rehearsed,      \* how many runs were clean rehearsals before the model begins
    MaxChanges,     \* bound on changes of the source's payloads and capabilities
    MaxStarts,      \* bound on executions and scripts started
    None            \* SQL NULL

Records == UNION {Range(Content[o]) : o \in Range(Objects)}
Runs == 1..(Rehearsed + MaxStarts)

(* The state machine of a run.                                              *)
RunTransitions ==
    [ Created     |-> {"Discovering", "Extracting", "Failed", "Cancelled"},
      Discovering |-> {"Discovered", "Failed"},
      Discovered  |-> {"Extracting", "Failed", "Cancelled"},
      Extracting  |-> {"Staged", "Failed"},
      Staged      |-> {"Extracting", "Validating", "Failed", "Cancelled"},
      Validating  |-> {"Validated", "Failed"},
      Validated   |-> {"Approved", "Validating", "Failed", "Cancelled"},
      Approved    |-> {"Applying", "Failed", "Cancelled"},
      Applying    |-> {"Reconciling", "Failed"},
      Reconciling |-> {"Completed", "Failed"},
      Completed   |-> {"RolledBack"},
      Failed      |-> {"Extracting", "Validating", "Applying", "Cancelled"},
      Cancelled   |-> {},
      RolledBack  |-> {} ]
Statuses == DOMAIN RunTransitions

(* The rows of the tables.                                                  *)
RunRow == [mode : {"dry_run", "cutover"}, status : Statuses, errors : BOOLEAN,
           issues : BOOLEAN, manifest : {None} \cup 0..MaxChanges, miscounted : BOOLEAN]
StagedRow == [payload : Versions,
              status : {"Extracted", "Skipped", "Valid", "Invalid", "Applied", "Archived"}]
Mark == [cursor : Nat, completed : BOOLEAN]
CrosswalkRow == [payload : Versions, action : {"Insert", "Archive"}]

ASSUME MigrationAssumption ==
    /\ Objects \in Seq(Range(Objects)) /\ IsInjective(Objects)
    /\ {Handled, Transactional} \subseteq SUBSET Range(Objects)
    /\ Content \in [Range(Objects) -> Seq(Records)]
    /\ \A o \in Range(Objects) : IsInjective(Content[o])
    /\ \A o, p \in Range(Objects) : o # p => Range(Content[o]) \cap Range(Content[p]) = {}
    /\ Needs \in [Records -> SUBSET Records]
    /\ {Cancelled, OutOfScope, Changing} \subseteq SUBSET Records
    /\ Invalid \subseteq Records \X Versions
    /\ PageSize \in Nat \ {0} /\ {Rehearsed, MaxChanges, MaxStarts} \subseteq Nat
    /\ Versions # {} /\ Controls \subseteq SUBSET {"stock", "ledger"} /\ None \notin Controls
    /\ None \notin RunRow \cup StagedRow \cup Mark \cup CrosswalkRow
    /\ None \notin {"Keep", "Archive", "Insert", "Link"}

VARIABLES
    source,      \* source.payload[k]: version of a record, source.manifest: capabilities
    run,         \* run[r]: the row of migration_runs, whether it has validation
                 \* issues and failed counts, or None
    staged,      \* staged[r][k]: [payload, status] of a staged record, or None
    checkpoint,  \* checkpoint[r][o]: [cursor, completed], or None
    crosswalk,   \* crosswalk[k]: [payload, action], or None
    manifest,    \* manifest[r]: the records applied by the run, by sequence number
    effects,     \* effects[k]: documents of the target made from record k
    openings,    \* openings[r]: opening vouchers posted by the run
    session,     \* session[s]: what the process is doing
    spent        \* starts and changes so far

vars == <<source, run, staged, checkpoint, crosswalk, manifest, effects, openings,
          session, spent>>
records == <<staged, checkpoint, crosswalk, manifest, effects, openings>>

ObjectOf == [k \in Records |-> CHOOSE o \in Range(Objects) : k \in Range(Content[o])]

-----------------------------------------------------------------------------
(* Runs move along their state machine.                                     *)
\* A transition to the status the run has already is accepted and does nothing.
MayMove(r, status) ==
    run[r].status = status \/ status \in RunTransitions[run[r].status]

-----------------------------------------------------------------------------
(* Sessions.  script is the calls still to make, the first one under way;   *)
(* at and local are where the call is and its local variables; controls is  *)
(* the opening balances it has to post, or None when its apply() is called  *)
(* without before_transactions.                                             *)
Idle == [at |-> "idle"]

Working(r, execute, prior, controls, restart, script) ==
    [at |-> "begin", run |-> r, execute |-> execute, prior |-> prior,
     controls |-> controls, restart |-> restart, script |-> script, local |-> None]

At(s, place) == session[s].at = place
Calls(s, call) == At(s, "begin") /\ Head(session[s].script) = call

Goto(s, place, local) ==
    session' = [session EXCEPT ![s].at = place, ![s].local = local]

\* The first call returns; the session is done, or begins the next one.
Return(s) ==
    LET me == session[s]
    IN  session' = [session EXCEPT ![s] =
                       IF Len(me.script) = 1 THEN Idle
                       ELSE Working(me.run, me.execute, me.prior, me.controls, FALSE,
                                    Tail(me.script))]

\* execute() records a failure of any call, an operator's script of none.
Unwinding(s) ==
    session' = [session EXCEPT ![s] =
                   IF @.execute THEN [@ EXCEPT !.at = "unwinding", !.local = None] ELSE Idle]

\* The first call raises; discover() and extract() record that themselves.
Raise(s) ==
    IF Head(session[s].script) \in {"Discover", "Extract"} /\ ~At(s, "begin")
    THEN Goto(s, "raised", None)
    ELSE Unwinding(s)

DryRun == <<"Discover", "Extract", "Scope", "Validate">>
CutoverRun == DryRun \o <<"Approve", "Apply", "Counts", "Financials">>

\* The rehearsals a cutover may rely on; it takes the latest.
Rehearsals ==
    {r \in Runs : run[r] # None /\ run[r].mode = "dry_run" /\ run[r].status = "Validated"
                  /\ ~run[r].errors /\ run[r].manifest # None}
Prior == CHOOSE r \in Rehearsals : \A q \in Rehearsals : q <= r

NewRun == CHOOSE r \in Runs : run[r] = None /\ \A q \in 1..(r - 1) : run[q] # None

NewRow(mode) == [mode |-> mode, status |-> "Created", errors |-> FALSE, issues |-> FALSE,
                 manifest |-> None, miscounted |-> FALSE]

\* execute(): the gates, then create_run; the controls are those of the cutover.
Execute(s, mode, controls) ==
    /\ At(s, "idle") /\ spent.starts < MaxStarts
    /\ mode = "cutover" => Rehearsals # {}
    /\ run' = [run EXCEPT ![NewRun] = NewRow(mode)]
    /\ session' = [session EXCEPT ![s] =
                      IF mode = "cutover"
                      THEN Working(NewRun, TRUE, run[Prior].manifest, controls, FALSE, CutoverRun)
                      ELSE Working(NewRun, TRUE, None, None, FALSE, DryRun)]
    /\ spent' = [spent EXCEPT !.starts = @ + 1]
    /\ UNCHANGED <<source, records>>

\* An operator's script carries an existing run on from one of the calls.
Resume(s, r, first, controls, restart) ==
    /\ At(s, "idle") /\ run[r] # None /\ spent.starts < MaxStarts
    /\ restart => CutoverRun[first] = "Extract"
    /\ session' = [session EXCEPT ![s] =
                      Working(r, FALSE, None, controls, restart,
                              SubSeq(CutoverRun, first, Len(CutoverRun)))]
    /\ spent' = [spent EXCEPT !.starts = @ + 1]
    /\ UNCHANGED <<source, run, records>>

\* The process dies; what it had not committed is gone.
Crash(s) ==
    /\ ~At(s, "idle")
    /\ session' = [session EXCEPT ![s] = Idle]
    /\ UNCHANGED <<source, run, records, spent>>

\* The transaction a call begins with: a transition, or an error.
Begin(s, call, status, place, local) ==
    LET r == session[s].run
    IN  /\ Calls(s, call)
        /\ IF MayMove(r, status)
           THEN run' = [run EXCEPT ![r].status = status] /\ Goto(s, place, local)
           ELSE Raise(s) /\ UNCHANGED run
        /\ UNCHANGED <<source, records, spent>>

\* A transaction that ends a call with a transition, or refuses it.
End(s, allowed, row) ==
    LET r == session[s].run
    IN  IF allowed /\ MayMove(r, row.status)
        THEN run' = [run EXCEPT ![r] = row] /\ Return(s)
        ELSE Raise(s) /\ UNCHANGED run

\* discover() and extract() put the run to Failed when they raise, extract()
\* whatever its status is by then.
HandleError(s) ==
    LET r == session[s].run
        extracting == Head(session[s].script) = "Extract"
    IN  /\ At(s, "raised")
        /\ run' = IF extracting \/ MayMove(r, "Failed")
                  THEN [run EXCEPT ![r].status = "Failed", ![r].errors = @ \/ extracting]
                  ELSE run
        /\ Unwinding(s)
        /\ UNCHANGED <<source, records, spent>>

\* execute() puts the run to Failed when a call has raised.
Unwind(s) ==
    LET r == session[s].run
    IN  /\ At(s, "unwinding")
        /\ run' = IF MayMove(r, "Failed") THEN [run EXCEPT ![r].status = "Failed"] ELSE run
        /\ session' = [session EXCEPT ![s] = Idle]
        /\ UNCHANGED <<source, records, spent>>

-----------------------------------------------------------------------------
(* discover()                                                               *)
BeginDiscover(s) == Begin(s, "Discover", "Discovering", "discovering", None)

\* execute() connects to the source before its first call, and may fail to.
FailConnection(s) ==
    /\ Calls(s, "Discover") /\ session[s].execute
    /\ Raise(s)
    /\ UNCHANGED <<source, run, records, spent>>

\* Capabilities arrive and are stored, or the source fails.
EndDiscover(s) ==
    LET r == session[s].run
    IN  /\ At(s, "discovering")
        /\ \/ /\ MayMove(r, "Discovered")
              /\ run' = [run EXCEPT ![r].status = "Discovered"]
              /\ IF session[s].execute THEN Goto(s, "keeping", source.manifest) ELSE Return(s)
           \/ Raise(s) /\ UNCHANGED run
        /\ UNCHANGED <<source, records, spent>>

\* execute() keeps their hash on the run in a transaction of its own, and a
\* cutover refuses those that are not the rehearsal's.
KeepManifest(s) ==
    LET me == session[s]
    IN  /\ At(s, "keeping")
        /\ run' = [run EXCEPT ![me.run].manifest = me.local]
        /\ IF me.prior \in {None, me.local} THEN Return(s) ELSE Unwinding(s)
        /\ UNCHANGED <<source, records, spent>>

-----------------------------------------------------------------------------
(* extract()                                                                *)
BeginExtract(s) ==
    Begin(s, "Extract", "Extracting", "extracting", [objects |-> Objects])

\* The checkpoint says whether an object is done and where it goes on.
OpenObject(s) ==
    LET objects == session[s].local.objects
        mark == checkpoint[session[s].run][Head(objects)]
        fresh == session[s].restart \/ mark = None
    IN  /\ At(s, "extracting") /\ objects # <<>>
        /\ IF ~fresh /\ mark.completed
           THEN Goto(s, "extracting", [objects |-> Tail(objects)])
           ELSE Goto(s, "fetching", [objects |-> objects,
                                     cursor |-> IF fresh THEN 0 ELSE mark.cursor])
        /\ UNCHANGED <<source, run, records, spent>>

\* The records of the page after a cursor.
Page(o, cursor) ==
    {Content[o][i] : i \in (cursor + 1)..Smaller(cursor + PageSize, Len(Content[o]))}

\* The checkpoint after a page.
\* Mutant: the checkpoint of a completed object keeps a cursor.
MarkAfter_KeepsCursor(o, cursor) ==
    [cursor |-> cursor + PageSize, completed |-> cursor + PageSize >= Len(Content[o])]
MarkAfter(o, cursor) ==
    LET completed == cursor + PageSize >= Len(Content[o])
    IN  [cursor |-> IF completed THEN 0 ELSE cursor + PageSize, completed |-> completed]

\* The source answers with a page as it is now, outside any transaction, or fails.
\* Mutant: the checkpoint moves when the page has arrived.
FetchPage_CheckpointFirst(s) ==
    LET local == session[s].local
        o == Head(local.objects)
    IN  /\ At(s, "fetching")
        /\ Goto(s, "staging", [objects |-> local.objects, cursor |-> local.cursor,
                               page |-> [k \in Page(o, local.cursor) |-> source.payload[k]]])
        /\ checkpoint' = [checkpoint EXCEPT ![session[s].run][o] = MarkAfter(o, local.cursor)]
        /\ UNCHANGED <<source, run, staged, crosswalk, manifest, effects, openings, spent>>
FetchPage(s) ==
    LET local == session[s].local
    IN  /\ At(s, "fetching")
        /\ \/ Raise(s)
           \/ Goto(s, "staging", [objects |-> local.objects, cursor |-> local.cursor,
                                  page |-> [k \in Page(Head(local.objects), local.cursor) |->
                                               source.payload[k]]])
        /\ UNCHANGED <<source, run, records, spent>>

\* One transaction stages the page and moves the checkpoint.
StagePage(s) ==
    LET local == session[s].local
        r == session[s].run
        o == Head(local.objects)
        mark == MarkAfter(o, local.cursor)
        arrived == DOMAIN local.page
    IN  /\ At(s, "staging")
        /\ IF \E k \in arrived : staged[r][k] # None /\ staged[r][k].payload # local.page[k]
           THEN Raise(s) /\ UNCHANGED <<staged, checkpoint>>
           ELSE /\ staged' = [staged EXCEPT ![r] = [k \in Records |->
                      IF k \in arrived /\ @[k] = None
                      THEN [payload |-> local.page[k], status |-> "Extracted"] ELSE @[k]]]
                /\ checkpoint' = [checkpoint EXCEPT ![r][o] = mark]
                /\ IF mark.completed
                   THEN Goto(s, "extracting", [objects |-> Tail(local.objects)])
                   ELSE Goto(s, "fetching", [objects |-> local.objects, cursor |-> mark.cursor])
        /\ UNCHANGED <<source, run, crosswalk, manifest, effects, openings, spent>>

FinishExtract(s) ==
    /\ At(s, "extracting") /\ session[s].local.objects = <<>>
    /\ End(s, TRUE, [run[session[s].run] EXCEPT !.status = "Staged"])
    /\ UNCHANGED <<source, records, spent>>

-----------------------------------------------------------------------------
(* apply_history_scope(), validate() and approve()                          *)
Scope(s) ==
    LET r == session[s].run
    IN  /\ Calls(s, "Scope")
        /\ IF run[r].status # "Staged" THEN Raise(s) /\ UNCHANGED staged
           ELSE /\ staged' = [staged EXCEPT ![r] = [k \in Records |->
                      IF k \in OutOfScope /\ @[k] # None /\ @[k].status = "Extracted"
                      THEN [@[k] EXCEPT !.status = "Skipped"] ELSE @[k]]]
                /\ Return(s)
        /\ UNCHANGED <<source, run, checkpoint, crosswalk, manifest, effects, openings, spent>>

\* The records of a run that its validation and its references count.
Kept(r) == {k \in Records : staged[r][k] # None /\ staged[r][k].status # "Skipped"}

BeginValidate(s) == Begin(s, "Validate", "Validating", "validating", None)

\* Every record is normalized and its references are looked up.
EndValidate(s) ==
    LET r == session[s].run
        wrong == {k \in Kept(r) :
                     \/ <<k, staged[r][k].payload>> \in Invalid
                     \/ \E n \in Needs[k] : n \notin Kept(r) /\ crosswalk[n] = None}
    IN  /\ At(s, "validating")
        /\ IF MayMove(r, "Validated")
           THEN /\ staged' = [staged EXCEPT ![r] = [k \in Records |->
                      IF k \in Kept(r)
                      THEN [@[k] EXCEPT !.status = IF k \in wrong THEN "Invalid" ELSE "Valid"]
                      ELSE @[k]]]
                /\ run' = [run EXCEPT ![r].status = "Validated", ![r].errors = wrong # {},
                                      ![r].issues = @ \/ wrong # {}]
                /\ IF wrong # {} /\ run[r].mode = "cutover" THEN Unwinding(s) ELSE Return(s)
           ELSE Raise(s) /\ UNCHANGED <<staged, run>>
        /\ UNCHANGED <<source, checkpoint, crosswalk, manifest, effects, openings, spent>>

Approve(s) ==
    LET r == session[s].run
    IN  /\ Calls(s, "Approve")
        /\ End(s, run[r].status = "Validated" /\ ~run[r].issues,
               [run[r] EXCEPT !.status = "Approved"])
        /\ UNCHANGED <<source, records, spent>>

-----------------------------------------------------------------------------
(* apply(): the records listed when it begins, one transaction each.        *)

\* Records are listed by object, then in the order they were staged.
Before(k, l) ==
    LET place(s, x) == CHOOSE i \in DOMAIN s : s[i] = x
    IN  \/ place(Objects, ObjectOf[k]) < place(Objects, ObjectOf[l])
        \/ /\ ObjectOf[k] = ObjectOf[l]
           /\ place(Content[ObjectOf[k]], k) < place(Content[ObjectOf[l]], l)

\* The records of a run that are applied, or have been.
Due(r) == {k \in Records : staged[r][k] # None
                           /\ staged[r][k].status \in {"Valid", "Applied", "Archived"}}

Listed(r, list) ==
    [i \in DOMAIN list |-> [key |-> list[i], payload |-> staged[r][list[i]].payload,
                            done |-> staged[r][list[i]].status # "Valid"]]

BeginApply(s) ==
    Begin(s, "Apply", "Applying", "listing", None)

ListRecords(s) ==
    LET r == session[s].run
    IN  /\ At(s, "listing")
        /\ \E list \in [1..Cardinality(Due(r)) -> Due(r)] :
              /\ \A i, j \in DOMAIN list : i < j => Before(list[i], list[j])
              /\ Goto(s, "applying", [records |-> Listed(r, list), next |-> 1, opened |-> FALSE])
        /\ UNCHANGED <<source, run, records, spent>>

\* before_transactions runs before the first transaction, or at the end.
\* Mutant: it runs at the end.
OpeningDue_AtEnd(s, local) ==
    /\ session[s].controls # None /\ ~local.opened
    /\ local.next > Len(local.records)
OpeningDue(s, local) ==
    /\ session[s].controls # None /\ ~local.opened
    /\ local.next <= Len(local.records) =>
           ObjectOf[local.records[local.next].key] \in Transactional

\* A part of the opening is posted when its controls are not empty, and once for
\* a run: a second post finds the first.
PostOpening(s, part) ==
    openings' = IF part \in session[s].controls
                THEN [openings EXCEPT ![session[s].run][part] = 1] ELSE openings

OpenStock(s) ==
    LET local == session[s].local
    IN  /\ At(s, "applying") /\ OpeningDue(s, local)
        /\ \/ PostOpening(s, "stock") /\ Goto(s, "opening", local)
           \/ Raise(s) /\ UNCHANGED openings
        /\ UNCHANGED <<source, run, staged, checkpoint, crosswalk, manifest, effects, spent>>

OpenLedger(s) ==
    LET local == session[s].local
    IN  /\ At(s, "opening")
        /\ \/ /\ PostOpening(s, "ledger")
              /\ Goto(s, "applying", [records |-> local.records, next |-> local.next,
                                      opened |-> TRUE])
           \/ Raise(s) /\ UNCHANGED openings
        /\ UNCHANGED <<source, run, staged, checkpoint, crosswalk, manifest, effects, spent>>

\* The transaction of the next record looks its crosswalk up.
LookUp(s) ==
    LET local == session[s].local
    IN  /\ At(s, "applying") /\ local.next <= Len(local.records) /\ ~OpeningDue(s, local)
        /\ IF local.records[local.next].done
           THEN Goto(s, "applying", [local EXCEPT !.next = @ + 1])
           ELSE Goto(s, "writing", [records |-> local.records, next |-> local.next,
                                    opened |-> local.opened,
                                    found |-> crosswalk[local.records[local.next].key]])
        /\ UNCHANGED <<source, run, records, spent>>

\* What applying a record does: link it to its crosswalk, run its handler, or
\* archive it; None when that raises.
\* Mutant: a record whose payload changed since is linked.
Action_Unchecked(x, found) ==
    IF found # None THEN IF found.action = "Archive" THEN "Archive" ELSE "Link"
    ELSE IF ObjectOf[x.key] \notin Handled THEN "Keep"
    ELSE IF x.key \in Cancelled THEN "Archive"
    ELSE IF \A n \in Needs[x.key] : crosswalk[n] # None THEN "Insert" ELSE None
Action(x, found) ==
    IF found # None
    THEN IF found.payload # x.payload THEN None
         ELSE IF found.action = "Archive" THEN "Archive" ELSE "Link"
    ELSE IF ObjectOf[x.key] \notin Handled THEN "Keep"
    ELSE IF x.key \in Cancelled THEN "Archive"
    ELSE IF \A n \in Needs[x.key] : crosswalk[n] # None THEN "Insert" ELSE None

\* The unique keys a record's transaction could break: another transaction made
\* its crosswalk, or another record has its number in the manifest.
\* Mutant: the crosswalk of a source record is not unique.
Unique_Manifest(r, i, x, found) ==
    x.key \in Range(manifest[r]) \/ i \notin DOMAIN manifest[r]
Unique(r, i, x, found) ==
    /\ found = None /\ ObjectOf[x.key] \in Handled => crosswalk[x.key] = None
    /\ x.key \in Range(manifest[r]) \/ i \notin DOMAIN manifest[r]

\* The transaction writes the document, its crosswalk, its manifest and its status.
Commit(s) ==
    LET local == session[s].local
        r == session[s].run
        i == local.next
        x == local.records[i]
        action == Action(x, local.found)
        made == local.found = None /\ action \in {"Insert", "Archive"}
    IN  /\ At(s, "writing")
        /\ action # None /\ Unique(r, i, x, local.found)
        /\ staged' = [staged EXCEPT ![r][x.key].status =
                         IF action \in {"Keep", "Archive"} THEN "Archived" ELSE "Applied"]
        /\ crosswalk' = IF made THEN [crosswalk EXCEPT ![x.key] =
                                         [payload |-> x.payload, action |-> action]]
                        ELSE crosswalk
        /\ effects' = IF action = "Insert" THEN [effects EXCEPT ![x.key] = @ + 1] ELSE effects
        /\ manifest' = IF x.key \in Range(manifest[r]) THEN manifest
                       ELSE [manifest EXCEPT ![r] = [j \in DOMAIN @ \cup {i} |->
                                                        IF j = i THEN x.key ELSE @[j]]]
        /\ Goto(s, "applying", [records |-> local.records, next |-> i + 1, opened |-> local.opened])
        /\ UNCHANGED <<source, run, checkpoint, openings, spent>>

\* The record's transaction is rolled back; a handler may refuse any document.
Refuse(s) ==
    LET local == session[s].local
        x == local.records[local.next]
        action == Action(x, local.found)
    IN  /\ At(s, "writing")
        /\ \/ action \in {None, "Insert"}
           \/ ~Unique(session[s].run, local.next, x, local.found)
        /\ Raise(s)
        /\ UNCHANGED <<source, run, records, spent>>

FinishApply(s) ==
    LET local == session[s].local
    IN  /\ At(s, "applying") /\ local.next > Len(local.records) /\ ~OpeningDue(s, local)
        /\ End(s, TRUE, [run[session[s].run] EXCEPT !.status = "Reconciling"])
        /\ UNCHANGED <<source, records, spent>>

-----------------------------------------------------------------------------
(* reconcile_counts() and reconcile_financials()                            *)
Uncounted(r) ==
    \E k \in Records : staged[r][k] # None
                       /\ staged[r][k].status \notin {"Applied", "Archived", "Skipped"}

\* An operator's count completes the run, execute()'s leaves that to the totals.
Counts(s) ==
    LET r == session[s].run
        outcome == IF session[s].execute THEN "Reconciling"
                   ELSE IF Uncounted(r) THEN "Failed" ELSE "Completed"
    IN  /\ Calls(s, "Counts")
        /\ End(s, run[r].status = "Reconciling",
               [run[r] EXCEPT !.status = outcome, !.miscounted = Uncounted(r)])
        /\ UNCHANGED <<source, records, spent>>

BeginFinancials(s) ==
    /\ Calls(s, "Financials")
    /\ IF run[session[s].run].status = "Reconciling" THEN Goto(s, "comparing", None) ELSE Raise(s)
    /\ UNCHANGED <<source, run, records, spent>>

\* The totals agree or not; the run completes when no check of it has failed.
EndFinancials(s) ==
    LET r == session[s].run
    IN  /\ At(s, "comparing")
        /\ \E agree \in BOOLEAN :
              End(s, TRUE, [run[r] EXCEPT
                     !.status = IF agree /\ ~run[r].miscounted THEN "Completed" ELSE "Failed"])
        /\ UNCHANGED <<source, records, spent>>

\* record_failback()
Failback(r) ==
    /\ run[r] # None /\ run[r].status = "Completed"
    /\ run' = [run EXCEPT ![r].status = "RolledBack"]
    /\ UNCHANGED <<source, records, session, spent>>

-----------------------------------------------------------------------------
\* The source system changes a record or its capabilities.
ChangeSource ==
    /\ spent.changes < MaxChanges
    /\ \/ \E k \in Changing, v \in Versions :
             v # source.payload[k] /\ source' = [source EXCEPT !.payload[k] = v]
       \/ source' = [source EXCEPT !.manifest = @ + 1]
    /\ spent' = [spent EXCEPT !.changes = @ + 1]
    /\ UNCHANGED <<run, records, session>>

Init ==
    /\ source = [payload |-> [k \in Records |-> CHOOSE v \in Versions : TRUE], manifest |-> 0]
    /\ run = [r \in Runs |-> IF r > Rehearsed THEN None
                ELSE [NewRow("dry_run") EXCEPT !.status = "Validated", !.manifest = 0]]
    /\ staged = [r \in Runs |-> [k \in Records |-> IF r > Rehearsed THEN None
                   ELSE [payload |-> source.payload[k],
                         status |-> IF k \in OutOfScope THEN "Skipped" ELSE "Valid"]]]
    /\ checkpoint = [r \in Runs |-> [o \in Range(Objects) |->
                       IF r > Rehearsed THEN None ELSE [cursor |-> 0, completed |-> TRUE]]]
    /\ crosswalk = [k \in Records |-> None]
    /\ manifest = [r \in Runs |-> <<>>]
    /\ effects = [k \in Records |-> 0]
    /\ openings = [r \in Runs |-> [stock |-> 0, ledger |-> 0]]
    /\ session = [s \in Sessions |-> Idle]
    /\ spent = [starts |-> 0, changes |-> 0]

Discovery(s) == BeginDiscover(s) \/ FailConnection(s) \/ EndDiscover(s) \/ KeepManifest(s)
Extraction(s) ==
    BeginExtract(s) \/ OpenObject(s) \/ FetchPage(s) \/ StagePage(s) \/ FinishExtract(s)
Validation(s) == Scope(s) \/ BeginValidate(s) \/ EndValidate(s) \/ Approve(s)
Application(s) ==
    \/ BeginApply(s) \/ ListRecords(s) \/ OpenStock(s) \/ OpenLedger(s)
    \/ LookUp(s) \/ Commit(s) \/ Refuse(s) \/ FinishApply(s)
Reconciliation(s) == Counts(s) \/ BeginFinancials(s) \/ EndFinancials(s)

Next ==
    \/ \E s \in Sessions :
          \/ \E mode \in {"dry_run", "cutover"}, controls \in Controls :
                Execute(s, mode, controls)
          \/ \E r \in Runs, first \in DOMAIN CutoverRun, controls \in Controls \cup {None},
                restart \in BOOLEAN : Resume(s, r, first, controls, restart)
          \/ Discovery(s) \/ Extraction(s) \/ Validation(s)
          \/ Application(s) \/ Reconciliation(s)
          \/ HandleError(s) \/ Unwind(s) \/ Crash(s)
    \/ \E r \in Runs : Failback(r)
    \/ ChangeSource

Spec == Init /\ [][Next]_vars

-----------------------------------------------------------------------------
(* Properties                                                               *)

\* Rows, marks, vouchers and sessions keep their shape, and nothing is posted
\* for a run or a record that does not exist.
Places == {"idle", "begin", "discovering", "keeping", "extracting", "fetching", "staging",
           "validating", "listing", "applying", "opening", "writing", "comparing", "raised", "unwinding"}
TypeOK ==
    /\ source \in [payload : [Records -> Versions], manifest : 0..MaxChanges]
    /\ \A r \in Runs :
          /\ run[r] = None \/ run[r] \in RunRow
          /\ \A k \in Records : staged[r][k] = None \/ staged[r][k] \in StagedRow
          /\ \A o \in Range(Objects) :
                \/ checkpoint[r][o] = None
                \/ checkpoint[r][o] \in Mark /\ checkpoint[r][o].cursor <= Len(Content[o])
          /\ IsInjective(manifest[r]) /\ Range(manifest[r]) \subseteq Records
          /\ run[r] = None => /\ \A k \in Records : staged[r][k] = None
                              /\ openings[r] = [stock |-> 0, ledger |-> 0]
    /\ \A k \in Records : crosswalk[k] = None \/ crosswalk[k] \in CrosswalkRow
    /\ effects \in [Records -> Nat] /\ openings \in [Runs -> [stock : Nat, ledger : Nat]]
    /\ \A s \in Sessions : session[s].at \in Places /\ (session[s] # Idle => session[s].run \in Runs)
    /\ spent \in [starts : 0..MaxStarts, changes : 0..MaxChanges]

\* Whatever crashes, is resumed or runs twice, a run's checkpoint never passes a
\* record that is not staged: extraction loses no record.
CheckpointCovers ==
    \A r \in Runs, o \in Range(Objects) : checkpoint[r][o] # None =>
        \A i \in DOMAIN Content[o] :
            checkpoint[r][o].completed \/ i <= checkpoint[r][o].cursor
                => staged[r][Content[o][i]] # None

\* A record any run reports as applied or archived has a crosswalk of the very
\* payload that run staged, and the crosswalk tells how many documents the
\* record became, all of them after the records they refer to.
CrosswalkIsTruth ==
    /\ \A r \in Runs, k \in Records :
          /\ staged[r][k] # None /\ staged[r][k].status \in {"Applied", "Archived"}
          /\ ObjectOf[k] \in Handled
          => crosswalk[k] # None /\ crosswalk[k].payload = staged[r][k].payload
    /\ \A k \in Records :
          /\ effects[k] = IF crosswalk[k] # None /\ crosswalk[k].action = "Insert" THEN 1 ELSE 0
          /\ \A n \in Needs[k] : effects[k] > 0 => crosswalk[n] # None

\* What a cutover has posted by the time it relies on it, whoever else worked on
\* its run: no process writes a transaction before the opening balances it was
\* given are posted, and when an execution compares the totals, all its openings
\* are posted, every record of the source is staged and, if no count has failed,
\* every record in scope that its handler does not archive is a document.
HasOpened(s) ==
    session[s].controls # None =>
        \A part \in session[s].controls : openings[session[s].run][part] = 1
CutoverIsWhole ==
    \A s \in Sessions :
       LET me == session[s]
       IN  /\ /\ At(s, "writing")
              /\ ObjectOf[me.local.records[me.local.next].key] \in Transactional
              => HasOpened(s)
           /\ At(s, "comparing") /\ me.execute =>
                 /\ HasOpened(s)
                 /\ \A k \in Records : staged[me.run][k] # None
                 /\ ~run[me.run].miscounted =>
                       \A k \in Records \ (Cancelled \cup OutOfScope) :
                          ObjectOf[k] \in Handled => effects[k] = 1

\* Runs are implementations of Cutover: every record at most once and after its
\* references, every opening balance of a run at most once, and none taken back.
Target == INSTANCE Cutover WITH
    imported <- effects,
    Excused <- Cancelled
Implements == Target!Spec
=============================================================================
